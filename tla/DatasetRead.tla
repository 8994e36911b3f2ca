---------------------------- MODULE DatasetRead -----------------------------
(***************************************************************************)
(* Dataset::get_samples: the guards on a request, and the loop of          *)
(* load_samples that walks a byte pointer through the mapped file, one     *)
(* action per iteration.                                                   *)
(*                                                                         *)
(* Pointers are byte offsets from the start of the mapping.  The values of *)
(* the samples, their conversion and their byte order are left out: what   *)
(* is read is the offset it is read at.                                    *)
(***************************************************************************)
EXTENDS DatasetLayout

CONSTANTS
    Datasets,   \* the datasets that may be opened
    Channels,   \* the channel arguments a caller may pass
    Positions,  \* the sample_start arguments
    Counts      \* the sample_count arguments

ASSUME DatasetAssumption ==
    /\ \A ds \in Datasets : DatasetShape(ds)
    /\ Channels \subseteq Int
    /\ Positions \subseteq Int
    /\ Counts \subseteq Int

VARIABLES
    ds,           \* the dataset and the captures passed to the call
    pc,           \* "idle", "headers", "cross", "read", "returned" or "threw"
    channel, sample_start, sample_count,   \* the request
    byte_ptr,     \* the offset of the next read
    capture_idx,  \* the captures whose headers were skipped so far
    i,            \* the loop counter
    out           \* the offsets read, in order

request == <<channel, sample_start, sample_count>>
vars    == <<ds, pc, request, byte_ptr, capture_idx, i, out>>
-----------------------------------------------------------------------------
Init ==
    /\ ds \in Datasets
    /\ pc = "idle"
    /\ channel = 1 /\ sample_start = 0 /\ sample_count = 0
    /\ byte_ptr = 0 /\ capture_idx = 0 /\ i = 0 /\ out = <<>>

(* The guards of get_samples, and the first position of load_samples.      *)
Call(c, start, count) ==
    /\ pc = "idle"
    /\ channel' = c
    /\ sample_start' = start
    /\ IF request_refused(ds, c, start, count)
       THEN /\ pc' = "threw"
            /\ sample_count' = count
            /\ UNCHANGED byte_ptr
       ELSE /\ pc' = "headers"
            /\ sample_count' = effective_count(ds, c, start, count)
            /\ byte_ptr' = ((start - ds.offset) * ds.num_channels + (c - 1)) * ds.bytes_per_sample
    /\ UNCHANGED <<ds, capture_idx, i, out>>

(* Skip the header of the next capture if it lies before sample n; when    *)
(* none does, go on to the location after.                                 *)
SkipHeader(n, after) ==
    /\ IF capture_idx < Len(ds.captures) /\ header_before(ds, capture_idx + 1, n)
       THEN /\ byte_ptr' = byte_ptr + ds.captures[capture_idx + 1].header_bytes
            /\ capture_idx' = capture_idx + 1
            /\ UNCHANGED pc
       ELSE /\ pc' = after
            /\ UNCHANGED <<byte_ptr, capture_idx>>
    /\ UNCHANGED <<ds, request, i, out>>

(* Get accumulated header_bytes from captures, up to sample_start. *)
AccumulateHeaders == pc = "headers" /\ SkipHeader(sample_start, "cross")

(* Fault: the loop runs to i <= sample_count. *)
CrossBoundary_OneTooMany ==
    /\ pc = "cross"
    /\ i <= sample_count
    /\ SkipHeader(sample_start + i, "read")

(* Fault: the boundary is noticed one sample late. *)
CrossBoundary_OneLate ==
    /\ pc = "cross"
    /\ i < sample_count
    /\ SkipHeader(sample_start + i - 1, "read")

(* If we pass a capture boundary, offset by header_bytes again. *)
CrossBoundary ==
    /\ pc = "cross"
    /\ i < sample_count
    /\ SkipHeader(sample_start + i, "read")

(* The bounds check, the read, and the step to the channel's next sample.  *)
ReadSample ==
    /\ pc = "read"
    /\ IF in_bounds(ds, byte_ptr)
       THEN /\ out' = Append(out, byte_ptr)
            /\ byte_ptr' = byte_ptr + frame_bytes(ds)
            /\ i' = i + 1
            /\ pc' = "cross"
       ELSE /\ pc' = "threw"
            /\ UNCHANGED <<byte_ptr, i, out>>
    /\ UNCHANGED <<ds, request, capture_idx>>

(* Fault: the loop waits for i > sample_count. *)
Return_OneTooLate ==
    /\ pc = "cross"
    /\ i > sample_count
    /\ pc' = "returned"
    /\ UNCHANGED <<ds, request, byte_ptr, capture_idx, i, out>>

Return ==
    /\ pc = "cross"
    /\ i >= sample_count
    /\ pc' = "returned"
    /\ UNCHANGED <<ds, request, byte_ptr, capture_idx, i, out>>

Step == AccumulateHeaders \/ CrossBoundary \/ ReadSample \/ Return

Next ==
    \/ \E c \in Channels, start \in Positions, count \in Counts : Call(c, start, count)
    \/ Step

Spec == Init /\ [][Next]_vars

(* The calling thread keeps running until the call is over. *)
FairSpec == Spec /\ WF_vars(Step)
-----------------------------------------------------------------------------
(* The dataset keeps its shape, the loop its counters.                     *)
TypeOK ==
    /\ DatasetShape(ds)
    /\ pc \in {"idle", "headers", "cross", "read", "returned", "threw"}
    /\ channel \in Int /\ sample_start \in Int /\ sample_count \in Int
    /\ byte_ptr \in Int
    /\ capture_idx \in 0..Len(ds.captures)
    /\ i \in Nat
    /\ out \in Seq(Int)
    /\ Len(out) = i
    /\ pc \in {"headers", "cross", "read", "returned"} => i <= sample_count

(* Where sample n of the request's channel lies when k headers precede it. *)
Address(n, k) ==
    ((n - ds.offset) * ds.num_channels + (channel - 1)) * ds.bytes_per_sample + ds.sums[k]

(* The k captures whose headers precede sample n. *)
HeadersBefore(n, k) ==
    /\ k \in 0..Len(ds.captures)
    /\ \A j \in 1..k : header_before(ds, j, n)
    /\ \A j \in (k + 1)..Len(ds.captures) : ~header_before(ds, j, n)

(* The pointer arithmetic of the loop is right: accumulated header by      *)
(* header and frame by frame, at every read it is the closed-form address  *)
(* of the sample the loop is at, with just the headers that precede it.    *)
PointerAtSample ==
    pc = "read" => /\ HeadersBefore(sample_start + i, capture_idx)
                   /\ byte_ptr = Address(sample_start + i, capture_idx)

(* A request the guards let through returns exactly the samples asked for, *)
(* in order: no header byte, no trailing byte, no other channel's sample,  *)
(* across capture boundaries, empty captures and an incomplete last frame. *)
ReturnsRequestedSamples ==
    pc = "returned" /\ ds.offset = 0 =>
        /\ Len(out) = sample_count
        /\ \A j \in 1..sample_count : ds.disk[out[j] + 1] = <<"sample", sample_start + j - 1, channel>>

(* Without an offset the guards of get_samples and the arithmetic of       *)
(* size() are enough: load_samples never trips the bounds check half way.  *)
NoThrowAfterGuards ==
    [][ds.offset = 0 /\ pc \in {"headers", "cross", "read"} => pc' # "threw"]_vars

(* get_samples keeps the promise of ReadSamples: the loops over captures   *)
(* and samples come to what one atomic read of all the samples asked for   *)
(* would, for any offset; and the call ends.  The samples are wanted while *)
(* the loops run; what was read counts when the call returns.              *)
Running == pc \in {"headers", "cross", "read"}
mapped_state == IF pc = "idle" THEN "ready" ELSE IF Running THEN "running" ELSE pc
mapped_wanted ==
    IF Running \/ pc = "returned" THEN sample_start..(sample_start + sample_count - 1) ELSE {}
mapped_got ==
    IF pc = "returned"
    THEN [n \in sample_start..(sample_start + Len(out) - 1) |-> out[(n + 1) - sample_start]]
    ELSE <<>>

Atomic == INSTANCE ReadSamples WITH
              state <- mapped_state, wanted <- mapped_wanted, got <- mapped_got

ReadsAtomically == Atomic!FairSpec

(* What the data files are: sample n of channel c lies at its location.    *)
(* With an offset the code looks elsewhere, so nothing is said of those.   *)
ASSUME FileAssumption ==
    \A d \in Datasets : d.offset = 0 =>
        \A c \in 1..d.num_channels : \A n \in Atomic!Present(d, c) :
            d.disk[Atomic!Location(d, c, n) + 1] = <<"sample", n, c>>

(* Every call ends: the loops over the captures and the samples terminate. *)
CallEnds == pc = "headers" ~> pc \in {"returned", "threw"}
-----------------------------------------------------------------------------
(* docs/SigMFDataset.md:17: "to read data off of the disk, you must        *)
(* subtract this value [core:offset] from each core:sample_start value     *)
(* within a capture or annotation to get the actual location of the sample *)
(* on disk".                                                               *)
ReadsActualLocation ==
    pc = "returned" =>
        \A j \in 1..sample_count :
            ds.disk[out[j] + 1] = <<"sample", (sample_start - ds.offset) + (j - 1), channel>>
=============================================================================
