---------------------------- MODULE DatasetLayout ---------------------------
(***************************************************************************)
(* The arithmetic of Dataset: how many samples a file holds, which         *)
(* requests get_samples refuses, and whose headers precede a sample.       *)
(***************************************************************************)
EXTENDS Integers, Sequences

(* A dataset with its captures, their headers of non-negative size.        *)
(* sums[k] is the header bytes of the first k captures.  disk[p + 1] says  *)
(* what lies at offset p: <<"sample", n, c>> at the first byte of sample n *)
(* of channel c, something else at every other byte.                       *)
DatasetShape(d) ==
    /\ d.num_channels \in Nat \ {0}
    /\ d.bytes_per_sample \in Nat \ {0}
    /\ d.trailing_bytes \in Nat
    /\ d.offset \in Nat
    /\ d.disk_size_bytes \in Nat
    /\ d.captures \in Seq([sample_start : Int, header_bytes : Nat])
    /\ \A j, k \in 1..Len(d.captures) :
          j < k => d.captures[j].sample_start <= d.captures[k].sample_start
    /\ d.sums \in [0..Len(d.captures) -> Nat]
    /\ d.sums[0] = 0
    /\ \A k \in 1..Len(d.captures) :
          d.sums[k] = d.sums[k - 1] + d.captures[k].header_bytes
    /\ \A j, k \in 0..Len(d.captures) : j <= k => d.sums[j] <= d.sums[k]
-----------------------------------------------------------------------------
non_sample_bytes(d) == d.sums[Len(d.captures)] + d.trailing_bytes

total_samples(d) == (d.disk_size_bytes - non_sample_bytes(d)) \div d.bytes_per_sample

(* The channels of the last, incomplete frame have one sample more.        *)
channel_size(d, c) ==
    total_samples(d) \div d.num_channels
    + IF c <= total_samples(d) % d.num_channels THEN 1 ELSE 0

(* Fault: the step ignores the interleaved channels. *)
frame_bytes_OneChannel(d) == d.bytes_per_sample

frame_bytes(d) == d.bytes_per_sample * d.num_channels

(* A negative count asks for the rest of the channel. *)
effective_count(d, c, start, count) ==
    IF count < 0 THEN channel_size(d, c) - start ELSE count

(* Fault: > for >=, the sample after the last one may be asked for. *)
request_refused_PastEnd(d, c, start, count) ==
    \/ c < 1 \/ c > d.num_channels
    \/ non_sample_bytes(d) > d.disk_size_bytes
    \/ start < 0 \/ start > channel_size(d, c)
    \/ effective_count(d, c, start, count) > channel_size(d, c) - start

request_refused(d, c, start, count) ==
    \/ c < 1 \/ c > d.num_channels
    \/ non_sample_bytes(d) > d.disk_size_bytes
    \/ start < 0 \/ start >= channel_size(d, c)
    \/ effective_count(d, c, start, count) > channel_size(d, c) - start

(* A capture's header lies before sample n when the capture starts at n or *)
(* earlier.  load_samples compares a start less the offset with n.         *)
header_before(d, k, n) == d.captures[k].sample_start - d.offset <= n

(* Fault: < for <=, the last value of the file is out of bounds. *)
in_bounds_Strict(d, ptr) == ptr >= 0 /\ ptr + d.bytes_per_sample < d.disk_size_bytes

(* check_bounds_or_throw for one on-disk value. *)
in_bounds(d, ptr) == ptr >= 0 /\ ptr + d.bytes_per_sample <= d.disk_size_bytes
=============================================================================
