----------------------------- MODULE ReadSamples ----------------------------
(***************************************************************************)
(* What Dataset::get_samples promises, without its loops: a request for    *)
(* samples that are not all there is refused, any other is answered in one *)
(* step with the place in the file of every sample asked for.              *)
(***************************************************************************)
EXTENDS DatasetLayout

CONSTANTS Datasets, Channels, Positions, Counts

VARIABLES
    ds,       \* the dataset and the captures passed to the call
    state,    \* "ready", "running", "returned" or "threw"
    channel,  \* the channel asked for
    wanted,   \* the samples asked for, while the call runs
    got       \* where each of them was read, when the call returned

vars == <<ds, state, channel, wanted, got>>
-----------------------------------------------------------------------------
(* The samples of channel c that the file holds, all of them in frames in  *)
(* which the channels take turns.                                          *)
Present(d, c) == { n \in 0..total_samples(d) : n * d.num_channels + c <= total_samples(d) }

(* The captures whose headers precede sample n are the first so many.      *)
HeadersBefore(d, n) ==
    CHOOSE k \in 0..Len(d.captures) :
        /\ \A j \in 1..k : header_before(d, j, n)
        /\ \A j \in (k + 1)..Len(d.captures) : ~header_before(d, j, n)

(* Where sample n of channel c lies. *)
Location(d, c, n) ==
    ((n - d.offset) * d.num_channels + (c - 1)) * d.bytes_per_sample + d.sums[HeadersBefore(d, n)]

Admissible(d, c, start, count) ==
    /\ c \in 1..d.num_channels
    /\ start \in Present(d, c)
    /\ count > 0 => start + count - 1 \in Present(d, c)

(* A negative count asks for all that is left. *)
Wanted(d, c, start, count) ==
    IF count < 0 THEN { n \in Present(d, c) : n >= start } ELSE start..(start + count - 1)
-----------------------------------------------------------------------------
Init ==
    /\ ds \in Datasets
    /\ state = "ready"
    /\ channel = 1 /\ wanted = {} /\ got = <<>>

Ask(c, start, count) ==
    /\ state = "ready"
    /\ IF Admissible(ds, c, start, count)
       THEN state' = "running" /\ wanted' = Wanted(ds, c, start, count)
       ELSE state' = "threw" /\ UNCHANGED wanted
    /\ channel' = c
    /\ UNCHANGED <<ds, got>>

(* Every sample is read, or one of them lies outside the file - which      *)
(* takes a core:offset: then its samples are looked for elsewhere.         *)
Answer ==
    /\ state = "running"
    /\ IF \A n \in wanted : in_bounds(ds, Location(ds, channel, n))
       THEN /\ state' = "returned"
            /\ got' = [n \in wanted |-> Location(ds, channel, n)]
            /\ UNCHANGED wanted
       ELSE /\ state' = "threw"
            /\ wanted' = {}
            /\ UNCHANGED got
    /\ UNCHANGED <<ds, channel>>

Next ==
    \/ \E c \in Channels, start \in Positions, count \in Counts : Ask(c, start, count)
    \/ Answer

Spec == Init /\ [][Next]_vars

FairSpec == Spec /\ WF_vars(Answer)
=============================================================================
