--------------------------- MODULE SampleAddress ----------------------------
(***************************************************************************)
(* The int64_t arithmetic of Dataset::size, the guards of get_samples and  *)
(* the address in load_samples, and of Metadata's queries by sample range. *)
(* The metadata may hold whatever a checked setter, load and the schema    *)
(* admit, and they admit numbers up to INT64_MAX.  An operation whose      *)
(* result does not fit is undefined: here, it yields any int64_t.          *)
(***************************************************************************)
EXTENDS Integers, Sequences

CONSTANTS
    INT64_MAX,
    Files,        \* the datasets, each with the captures that are passed in
    Counts,       \* the counts that are asked for
    Annotations   \* the annotations that have a count

Int64     == (-INT64_MAX - 1)..INT64_MAX
Natural64 == 0..INT64_MAX

(* As in DatasetLayout, sums[n] is the header bytes of the first n         *)
(* captures; it may be more than an int64_t holds.                         *)
FileShape(f) ==
    /\ f.disk_size_bytes \in Natural64
    /\ f.bytes_per_sample \in Natural64 \ {0}
    /\ f.num_channels \in Natural64 \ {0}
    /\ f.offset \in Natural64
    /\ f.trailing_bytes \in Natural64
    /\ f.captures \in Seq([sample_start : Natural64, header_bytes : Natural64])
    /\ f.sums \in [0..Len(f.captures) -> Nat]
    /\ f.sums[0] = 0
    /\ \A n \in 1..Len(f.captures) : f.sums[n] = f.sums[n - 1] + f.captures[n].header_bytes
    /\ \A m, n \in 0..Len(f.captures) : m <= n => f.sums[m] <= f.sums[n]

ASSUME AddressAssumption ==
    /\ INT64_MAX \in Nat
    /\ \A f \in Files : FileShape(f)
    /\ Counts \subseteq Int64
    /\ Annotations \subseteq [start : Natural64, count : Natural64]

VARIABLES
    file,        \* the dataset
    request,     \* channel, start and count of the call
    pc,          \* "idle", "size", "guards", "address", "headers", "read" or
                 \* "refused" in get_samples, "overlaps", "passed",
                 \* "capture" or "no capture" after a query
    k,           \* captures whose headers are in sum
    sum,         \* non_sample_bytes, then accumulated_header_bytes
    samples_in_channel,
    index_offset_bytes,
    annotation,  \* what a query looks at
    overflowed   \* an operation of this call was undefined

vars == <<file, request, pc, k, sum, samples_in_channel, index_offset_bytes, annotation, overflowed>>
-----------------------------------------------------------------------------
Fits(x) == x \in Int64

(* What an operation whose result is x may yield. *)
Outcomes(x) == IF Fits(x) THEN {x} ELSE Int64

(* An undefined sample_bytes may be negative.  Division rounds down here   *)
(* and to zero in C++, but either way no start is below such a size.       *)
channel_size(sample_bytes, c) ==
    LET total_samples == sample_bytes \div file.bytes_per_sample
    IN  total_samples \div file.num_channels
        + IF c <= total_samples % file.num_channels THEN 1 ELSE 0

effective_count ==
    IF request.count < 0 THEN samples_in_channel - request.start ELSE request.count
-----------------------------------------------------------------------------
NoRequest == [channel |-> 1, start |-> 0, count |-> 0]

Init ==
    /\ file \in Files
    /\ request = NoRequest
    /\ pc = "idle"
    /\ k = 0 /\ sum = 0 /\ samples_in_channel = 0 /\ index_offset_bytes = 0
    /\ annotation = [start |-> 0, count |-> 0]
    /\ overflowed = FALSE

(* The channel is checked before anything is computed. *)
GetSamples ==
    /\ pc = "idle"
    /\ \E c \in 1..file.num_channels, start \in Int64, count \in Counts :
          request' = [channel |-> c, start |-> start, count |-> count]
    /\ pc' = "size"
    /\ UNCHANGED <<file, k, sum, samples_in_channel, index_offset_bytes, annotation, overflowed>>

AddHeader ==
    LET next == sum + file.captures[k + 1].header_bytes
    IN  /\ sum' \in Outcomes(next)
        /\ overflowed' = (overflowed \/ ~Fits(next))
        /\ k' = k + 1

(* The loop over captures in size(). *)
SumHeader ==
    /\ pc = "size" /\ k < Len(file.captures)
    /\ AddHeader
    /\ UNCHANGED <<file, request, pc, samples_in_channel, index_offset_bytes, annotation>>

(* The rest of size(). *)
Size ==
    LET total == sum + file.trailing_bytes
    IN  /\ pc = "size" /\ k = Len(file.captures)
        /\ sum' \in Outcomes(total)
        /\ IF sum' > file.disk_size_bytes
           THEN pc' = "refused" /\ UNCHANGED samples_in_channel
           ELSE /\ pc' = "guards"
                /\ \E sample_bytes \in Outcomes(file.disk_size_bytes - sum') :
                      samples_in_channel' = channel_size(sample_bytes, request.channel)
        /\ overflowed' = (overflowed \/ ~Fits(total) \/ ~Fits(file.disk_size_bytes - sum'))
        /\ UNCHANGED <<file, request, k, index_offset_bytes, annotation>>

Refuse == pc' = "refused" /\ UNCHANGED <<k, sum>>

Accept == pc' = "address" /\ k' = 0 /\ sum' = 0

StartRefused == request.start < 0 \/ request.start >= samples_in_channel

(* Fault: the sum of start and count is compared with the size. *)
Guards_Sum ==
    LET stop == request.start + effective_count
    IN  /\ pc = "guards"
        /\ \/ StartRefused /\ Refuse /\ UNCHANGED overflowed
           \/ /\ ~StartRefused
              /\ \E v \in Outcomes(stop) : IF v > samples_in_channel THEN Refuse ELSE Accept
              /\ overflowed' = (overflowed \/ ~Fits(stop))
        /\ UNCHANGED <<file, request, samples_in_channel, index_offset_bytes, annotation>>

(* Fault: no start is refused, the count alone is compared. *)
Guards_AnyStart ==
    /\ pc = "guards"
    /\ IF effective_count > samples_in_channel - request.start THEN Refuse ELSE Accept
    /\ UNCHANGED <<file, request, samples_in_channel, index_offset_bytes, annotation, overflowed>>

(* The message that refuses a count holds the sum of start and count. *)
Guards ==
    /\ pc = "guards"
    /\ \/ StartRefused /\ Refuse /\ UNCHANGED overflowed
       \/ /\ ~StartRefused /\ effective_count > samples_in_channel - request.start
          /\ Refuse
          /\ overflowed' = (overflowed \/ ~Fits(request.start + effective_count))
       \/ /\ ~StartRefused /\ effective_count <= samples_in_channel - request.start
          /\ Accept
          /\ UNCHANGED overflowed
    /\ UNCHANGED <<file, request, samples_in_channel, index_offset_bytes, annotation>>

(* index_offset_samples and index_offset_bytes, operation by operation. *)
Address ==
    LET frames == (request.start - file.offset) * file.num_channels
    IN  /\ pc = "address"
        /\ pc' = "headers"
        /\ \E f \in Outcomes(frames) :
           LET samples == f + (request.channel - 1)
           IN  \E s \in Outcomes(samples) :
                  /\ index_offset_bytes' \in Outcomes(s * file.bytes_per_sample)
                  /\ overflowed' = (\/ overflowed \/ ~Fits(frames)
                                    \/ ~Fits(samples) \/ ~Fits(s * file.bytes_per_sample))
        /\ UNCHANGED <<file, request, k, sum, samples_in_channel, annotation>>

(* Fault: the index is left behind the capture that ended the loop. *)
AccumulateHeaders_OneTooFar ==
    /\ pc = "headers"
    /\ IF k < Len(file.captures) /\ file.captures[k + 1].sample_start - file.offset <= request.start
       THEN AddHeader /\ UNCHANGED pc
       ELSE pc' = "read" /\ k' = k + 1 /\ UNCHANGED <<sum, overflowed>>
    /\ UNCHANGED <<file, request, samples_in_channel, index_offset_bytes, annotation>>

(* The first loop over captures in load_samples ends at a capture that     *)
(* starts after the sample.                                                *)
AccumulateHeaders ==
    /\ pc = "headers"
    /\ IF k < Len(file.captures) /\ file.captures[k + 1].sample_start - file.offset <= request.start
       THEN AddHeader /\ UNCHANGED pc
       ELSE pc' = "read" /\ UNCHANGED <<k, sum, overflowed>>
    /\ UNCHANGED <<file, request, samples_in_channel, index_offset_bytes, annotation>>

(* get_annotations_in_range looks at an annotation, for the range of the   *)
(* one sample request.start.                                               *)
FindAnnotation ==
    /\ pc = "idle"
    /\ annotation' \in Annotations
    /\ \E s \in 0..(INT64_MAX - 1) : request' = [NoRequest EXCEPT !.start = s]
    /\ \E ann_end \in Outcomes(annotation'.start + annotation'.count) :
          pc' = IF annotation'.start < request'.start + 1 /\ request'.start < ann_end
                THEN "overlaps" ELSE "passed"
    /\ overflowed' = ~Fits(annotation'.start + annotation'.count)
    /\ UNCHANGED <<file, k, sum, samples_in_channel, index_offset_bytes>>

(* A capture ends where the next one starts, the last one at INT64_MAX. *)
capture_end(n) ==
    IF n < Len(file.captures) THEN file.captures[n + 1].sample_start ELSE INT64_MAX

(* find_capture_containing asks get_captures_in_range for a range of one.  *)
FindCapture ==
    /\ pc = "idle"
    /\ \E s \in Natural64 :
          /\ request' = [NoRequest EXCEPT !.start = s]
          /\ \E stop \in Outcomes(s + 1) :
                pc' = IF \E n \in 1..Len(file.captures) :
                            file.captures[n].sample_start < stop /\ s < capture_end(n)
                      THEN "capture" ELSE "no capture"
          /\ overflowed' = ~Fits(s + 1)
    /\ UNCHANGED <<file, k, sum, samples_in_channel, index_offset_bytes, annotation>>

Next ==
    \/ GetSamples \/ SumHeader \/ Size \/ Guards \/ Address \/ AccumulateHeaders
    \/ FindAnnotation \/ FindCapture

Spec == Init /\ [][Next]_vars
-----------------------------------------------------------------------------
non_sample_bytes(f) == f.sums[Len(f.captures)] + f.trailing_bytes

(* The metadata that a file can have: the headers and trailing bytes are   *)
(* in it, and the offset, in bytes, can be computed.                       *)
Sane(f) ==
    /\ non_sample_bytes(f) <= f.disk_size_bytes
    /\ f.offset * f.num_channels * f.bytes_per_sample <= INT64_MAX

(* What size() returns unless something overflows. *)
true_size == channel_size(file.disk_size_bytes - non_sample_bytes(file), request.channel)

Accepted == pc \in {"address", "headers", "read"}

TypeOK ==
    /\ file \in Files
    /\ request \in [channel : 1..file.num_channels, start : Int64, count : Int64]
    /\ pc \in {"idle", "size", "guards", "address", "headers", "read", "refused",
              "overlaps", "passed", "capture", "no capture"}
    /\ k \in 0..Len(file.captures)
    /\ sum \in Int64 /\ samples_in_channel \in Int /\ index_offset_bytes \in Int64
    /\ annotation \in [start : Natural64, count : Natural64]
    /\ overflowed \in BOOLEAN

(* load_samples forms its products and sums before any bounds check, and   *)
(* the guards are all that comes before.  With metadata that fits its      *)
(* file, whatever start and count are asked for, no operation on the way   *)
(* of an accepted request overflows.                                       *)
AcceptedNeverOverflows == Sane(file) /\ Accepted => ~overflowed

(* The guards compute in int64_t too, but accept only what is in range in  *)
(* true arithmetic: the samples asked for all exist.                       *)
AcceptedInRange ==
    Sane(file) /\ Accepted =>
        /\ request.start >= 0 /\ effective_count >= 0
        /\ request.start + effective_count <= true_size

(* The comment at the guard in size(): metadata whose non-sample bytes add *)
(* up to more than is on disk is refused.  The code adds header bytes in   *)
(* an int64_t: two large headers add up to anything.                       *)
MalformedRefused ==
    Accepted => non_sample_bytes(file) <= file.disk_size_bytes

(* The comment at the last guard of get_samples: it avoids the overflow of *)
(* sample_count + sample_start.  Its message computes that sum.            *)
GuardsNeverOverflow == Sane(file) /\ pc = "refused" => ~overflowed

(* The comment at get_annotations_in_range: all annotations that overlap   *)
(* with the range are found.  The end of one whose start and count are     *)
(* each valid may not fit.                                                 *)
OverlapsFound ==
    /\ annotation.start <= request.start
    /\ request.start < annotation.start + annotation.count
    => pc # "passed"

(* The comment in get_captures_in_range: the last capture has no end.  It  *)
(* ends at INT64_MAX, and a range of one that starts there has no end.     *)
LastCaptureEndless ==
    pc = "no capture" =>
        \A n \in 1..Len(file.captures) : request.start < file.captures[n].sample_start
=============================================================================
