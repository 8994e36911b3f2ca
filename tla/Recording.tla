------------------------------ MODULE Recording -----------------------------
(***************************************************************************)
(* A Recording: a Metadata object, which stays public and may be edited at *)
(* any time, and a Dataset, which maps the data file and keeps a copy of   *)
(* the parameters it was opened with.  The captures are not copied: every  *)
(* query hands Metadata's current list to the Dataset.                     *)
(*                                                                         *)
(* All steps of Metadata are steps of this module.  The queries change     *)
(* nothing, so they are operators on the current state.  What get_samples  *)
(* does with a request is in DatasetRead; here a request is refused by its *)
(* guards or reads the samples it names.                                   *)
(*                                                                         *)
(* The queries are defined for entries that have a start; the getter       *)
(* throws for others.                                                      *)
(***************************************************************************)
EXTENDS Metadata, DatasetLayout, FiniteSets

CONSTANTS
    DataFiles,  \* what a data file and the Global beside it may hold
    NoCount     \* the sample_count of an annotation without one

(* The rest of an entry: a capture's header bytes (0 if there is no such   *)
(* key) and an annotation's sample count.                                  *)
DataFile == [num_channels : Nat \ {0}, bytes_per_sample : Nat \ {0},
             trailing_bytes : Nat, offset : Nat, disk_size_bytes : Nat]

ASSUME RecordingAssumption ==
    /\ Kinds = {"captures", "annotations"}
    /\ Tags \subseteq [header_bytes : Nat, sample_count : Nat \cup {NoCount}]
    /\ DataFiles \subseteq DataFile
    /\ NoFile \notin DataFiles

VARIABLE data   \* the Dataset of the recording, NoFile before there is one

Captures    == lists["captures"]
Annotations == lists["annotations"]
-----------------------------------------------------------------------------
RecordingInit == Init /\ data = NoFile

(* Recording(md).  data_path() needs the extension of meta_path_, unless   *)
(* core:dataset names the file.  There may be no such file, an empty one,  *)
(* or parameters in Global that Dataset or Datatype refuse.                *)
data_path_throws(p, named) == ~named /\ p \notin MetaPaths

OpenFrom(named) ==
    \/ Rejected("open") /\ UNCHANGED data
    \/ /\ ~data_path_throws(path, named)
       /\ data' \in DataFiles
       /\ Returns("open")
       /\ UNCHANGED <<object, files>>

(* Recording(path, ctx): loads the metadata first. *)
OpenFile(p, ctx, named) ==
    \/ Rejected("open") /\ UNCHANGED data
    \/ /\ Load(p, ctx)
       /\ last'.ok
       /\ ~data_path_throws(p, named)
       /\ data' \in DataFiles

RecordingNext ==
    \/ Next /\ UNCHANGED data
    \/ \E named \in BOOLEAN : OpenFrom(named)
    \/ \E p \in Paths, ctx \in Contexts, named \in BOOLEAN : OpenFile(p, ctx, named)

RecordingSpec == RecordingInit /\ [][RecordingNext]_<<vars, data>>
-----------------------------------------------------------------------------
(* The header bytes of the first k captures. *)
header_sums ==
    LET sum[k \in 0..Len(Captures)] ==
            IF k = 0 THEN 0 ELSE sum[k - 1] + Captures[k].tag.header_bytes
    IN  sum

(* The dataset as Dataset's functions see it: its own parameters and the   *)
(* captures they are passed.                                               *)
dataset ==
    [ num_channels     |-> data.num_channels,
      bytes_per_sample |-> data.bytes_per_sample,
      trailing_bytes   |-> data.trailing_bytes,
      offset           |-> data.offset,
      disk_size_bytes  |-> data.disk_size_bytes,
      captures |-> [k \in 1..Len(Captures) |->
                      [sample_start |-> Captures[k].start, header_bytes |-> Captures[k].tag.header_bytes]],
      sums     |-> header_sums ]

(* Fault: an empty capture contains its first sample. *)
get_captures_in_range_Inclusive(start, stop) ==
    { k \in 1..Len(Captures) :
        Captures[k].start < stop /\ (k < Len(Captures) => start <= Captures[k + 1].start) }

(* The captures that overlap start to stop - 1.  One ends where the next   *)
(* starts, the last never.                                                 *)
get_captures_in_range(start, stop) ==
    { k \in 1..Len(Captures) :
        Captures[k].start < stop /\ (k < Len(Captures) => start < Captures[k + 1].start) }

(* The first of them, if there is one. *)
find_capture_containing(s) ==
    CHOOSE k \in get_captures_in_range(s, s + 1) :
        \A j \in get_captures_in_range(s, s + 1) : k <= j

get_annotations_in_range(start, stop) ==
    { a \in ToSet(Annotations) :
        LET count == IF a.tag.sample_count = NoCount THEN 0 ELSE a.tag.sample_count
        IN  a.start < stop /\ start < a.start + count }

get_capture_size(k, c) ==
    IF Captures = <<>> THEN channel_size(dataset, c)
    ELSE IF k < Len(Captures) THEN Captures[k + 1].start - Captures[k].start
    ELSE channel_size(dataset, c) - Captures[k].start
-----------------------------------------------------------------------------
(* The request that each kind of read passes to Dataset::get_samples.      *)
Request(start, count) == [start |-> start, count |-> count]

capture_request(k, c) ==
    IF Captures = <<>> THEN Request(0, -1)
    ELSE Request(Captures[k].start, get_capture_size(k, c))

(* Fault: to the end of the dataset, not of the capture. *)
annotation_request_ToTheEnd(a, c) ==
    Request(a.start, IF a.tag.sample_count # NoCount THEN a.tag.sample_count ELSE -1)

(* Without a count, to the end of the capture it starts in - computed from *)
(* the size of that capture on channel 1, whatever c is.                   *)
annotation_request(a, c) ==
    LET k == find_capture_containing(a.start)
    IN  Request(a.start,
                IF a.tag.sample_count # NoCount THEN a.tag.sample_count
                ELSE Captures[k].start + get_capture_size(k, 1) - a.start)

annotation_throws(a) ==
    a.tag.sample_count = NoCount /\ get_captures_in_range(a.start, a.start + 1) = {}

refused(r, c) == request_refused(dataset, c, r.start, r.count)

samples(r, c) == r.start..(r.start + effective_count(dataset, c, r.start, r.count) - 1)

(* Fault: the capture's own header is summed too. *)
header_ptr_SumTooFar(k) ==
    (Captures[k].start - data.offset) * data.num_channels * data.bytes_per_sample + dataset.sums[k]

(* Where read_header_bytes looks for the header of capture k. *)
header_ptr(k) ==
    (Captures[k].start - data.offset) * data.num_channels * data.bytes_per_sample + dataset.sums[k - 1]

(* Where load_samples reads sample n (DatasetRead!PointerAtSample). *)
sample_ptr(n, c) ==
    ((n - data.offset) * data.num_channels + (c - 1)) * data.bytes_per_sample
    + dataset.sums[Cardinality({ k \in 1..Len(Captures) : header_before(dataset, k, n) })]
-----------------------------------------------------------------------------
Channels == 1..data.num_channels

(* What the queries need: an open file, and captures that have a start.    *)
Open == data # NoFile /\ \A k \in 1..Len(Captures) : Captures[k].start # NoStart

(* The file is at least as long as the metadata says, and on channel c     *)
(* there is data where every capture starts.                               *)
Describes(c) ==
    /\ non_sample_bytes(dataset) <= data.disk_size_bytes
    /\ \A k \in 1..Len(Captures) :
          Captures[k].start \in 0..(channel_size(dataset, c) - 1)

(* However the metadata was edited since the recording was opened, reading *)
(* the captures one by one reads every sample of a channel from the first  *)
(* capture on exactly once, and find_capture_containing finds the capture  *)
(* a sample is read with - empty captures, and an incomplete last frame    *)
(* that leaves the channels unequal, included.                             *)
CapturesPartition ==
    Open /\ data.offset = 0 /\ Captures # <<>> =>
        \A c \in Channels : Describes(c) =>
            /\ \A k \in 1..Len(Captures) : ~refused(capture_request(k, c), c)
            /\ \A s \in 0..(channel_size(dataset, c) - 1) :
                  { k \in 1..Len(Captures) : s \in samples(capture_request(k, c), c) }
                  = IF s < Captures[1].start THEN {} ELSE {find_capture_containing(s)}

(* read_header_bytes and load_samples agree on where the headers are,      *)
(* though one counts the captures before an index and the other those      *)
(* before a sample: a header lies between the samples before its capture   *)
(* and those in it, in front of the next header, and inside the file.      *)
HeadersBetweenSamples ==
    Open /\ data.offset = 0 =>
        \A k \in 1..Len(Captures) :
            LET after == header_ptr(k) + Captures[k].tag.header_bytes IN
            /\ \A c \in Channels : \A n \in 0..(channel_size(dataset, c) - 1) :
                  IF n < Captures[k].start
                  THEN sample_ptr(n, c) + data.bytes_per_sample <= header_ptr(k)
                  ELSE after <= sample_ptr(n, c)
            /\ k < Len(Captures) => after <= header_ptr(k + 1)
            /\ Describes(1) => after <= data.disk_size_bytes

(* An annotation without a count reads, on channel c, the samples of its   *)
(* capture from its own start on.                                          *)
ReadsRestOfCapture(a, c) ==
    LET k == find_capture_containing(a.start)
        r == annotation_request(a, c)
    IN  /\ ~refused(r, c)
        /\ samples(r, c) = { s \in samples(capture_request(k, c), c) : s >= a.start }

Openended(a, c) ==
    /\ a.start # NoStart
    /\ a.tag.sample_count = NoCount
    /\ ~annotation_throws(a)
    /\ a.start < channel_size(dataset, c)

(* On the first channel that is so, whichever of several captures it       *)
(* starts in and however they were edited.                                 *)
AnnotationReadsRest ==
    Open /\ data.offset = 0 =>
        \A a \in ToSet(Annotations) :
            Describes(1) /\ Openended(a, 1) => ReadsRestOfCapture(a, 1)
-----------------------------------------------------------------------------
(* What comments say and the code does not do.                             *)

(* recording.h:71 "if annotation doesn't have sample_count, then           *)
(* sample_count is whatever value gets us to the end of the capture this   *)
(* annotation belongs to": on every channel.                               *)
AnnotationReadsRestOnAnyChannel ==
    Open /\ data.offset = 0 =>
        \A a \in ToSet(Annotations), c \in Channels :
            Describes(c) /\ Openended(a, c) => ReadsRestOfCapture(a, c)

(* recording.cpp:43 "where the capture ends - either where the next        *)
(* capture starts, or the end of the file if it's the last one": starts    *)
(* count from core:offset on (dataset.h:150), so the file ends there too.  *)
LastCaptureEndsWithFile ==
    Open /\ Captures # <<>> /\ non_sample_bytes(dataset) <= data.disk_size_bytes =>
        LET k == Len(Captures) IN
        Captures[k].start >= data.offset =>
            Captures[k].start + get_capture_size(k, 1) = data.offset + channel_size(dataset, 1)

(* metadata.cpp:196 "get all annotations that completely or partially      *)
(* overlap with the sample range": also those that Recording reads to the  *)
(* end of their capture.                                                   *)
OverlappingAnnotationsFound ==
    Open /\ data.offset = 0 =>
        \A a \in ToSet(Annotations) :
            Describes(1) /\ Openended(a, 1) =>
                \A s \in samples(annotation_request(a, 1), 1) :
                    a \in get_annotations_in_range(s, s + 1)
=============================================================================
