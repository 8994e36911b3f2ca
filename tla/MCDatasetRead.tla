--------------------------- MODULE MCDatasetRead ----------------------------
(* Instances of DatasetRead for TLC: files laid out by a writer that emits *)
(* a capture's header just before the capture's first frame.               *)
EXTENDS DatasetRead, SequencesExt

Capture(start, header) == [sample_start |-> start, header_bytes |-> header]

Filler(what, n) == [b \in 1..n |-> <<what>>]

SampleBytes(n, c, width) == <<<<"sample", n, c>>>> \o Filler("rest", width - 1)

(* The headers of the captures that start at frame n of the file.          *)
HeadersAt(caps, n) ==
    FlattenSeq([k \in 1..Len(caps) |->
        IF caps[k].sample_start = n THEN Filler("header", caps[k].header_bytes) ELSE <<>>])

(* The samples of frame n, of which only total % channels may be there.    *)
FrameAt(n, total, channels, width) ==
    FlattenSeq([c \in 1..channels |->
        IF n * channels + c <= total THEN SampleBytes(n, c, width) ELSE <<>>])

(* Frames 0 to the last, then any capture that starts after the data.      *)
Written(caps, total, channels, width, stray) ==
    FlattenSeq([n \in 1..10 |-> HeadersAt(caps, n - 1) \o FrameAt(n - 1, total, channels, width)])
    \o Filler("stray", stray)

PrefixSums(caps) ==
    LET sum[k \in 0..Len(caps)] == IF k = 0 THEN 0 ELSE sum[k - 1] + caps[k].header_bytes
    IN  sum

(* stray bytes: the trailing bytes and, before them, part of a sample.     *)
File(caps, total, channels, width, trailing, torn, off) ==
    LET bytes == Written(caps, total, channels, width, torn + trailing) IN
    [ captures |-> [k \in 1..Len(caps) |-> Capture(caps[k].sample_start + off, caps[k].header_bytes)],
      sums |-> PrefixSums(caps),
      num_channels |-> channels,
      bytes_per_sample |-> width,
      trailing_bytes |-> trailing,
      offset |-> off,
      disk_size_bytes |-> Len(bytes),
      disk |-> bytes ]

CaptureLists ==
    { <<>>,
      <<Capture(0, 0)>>,
      <<Capture(0, 1), Capture(2, 2)>>,
      <<Capture(1, 2), Capture(1, 1), Capture(2, 3)>>,
      <<Capture(0, 2), Capture(1, 0), Capture(9, 1)>> }

ReadDatasets ==
    { File(caps, total, channels, width, trailing, torn, 0) :
        caps \in CaptureLists, total \in {0, 3, 5}, channels \in {1, 2},
        width \in {1, 2}, trailing \in {0, 2}, torn \in {0} }
    \cup { File(caps, 5, 2, 2, 1, 1, off) : caps \in CaptureLists, off \in {0, 2} }

(* A dataset whose metadata claims more header bytes than the file has.    *)
Malformed == { [d EXCEPT !.disk_size_bytes = 1] : d \in {File(<<Capture(0, 2)>>, 2, 1, 1, 0, 0, 0)} }

(* An empty file cannot be mapped. *)
AllDatasets == { d \in ReadDatasets \cup Malformed : d.disk_size_bytes > 0 }

OffsetDatasets == { File(<<Capture(0, 1), Capture(2, 2)>>, 6, 1, 1, 0, 0, 2) }

(* Arguments inside, on and outside the bounds of every dataset.           *)
AnyChannel  == 0..3
AnyPosition == {-1, 0, 1, 2, 4, 5}
AnyCount    == {-1, 0, 1, 3, 6}
=============================================================================
