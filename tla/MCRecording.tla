----------------------------- MODULE MCRecording ----------------------------
(* Instances of Recording for TLC. *)
EXTENDS Recording

Tag(header, count) == [header_bytes |-> header, sample_count |-> count]
Entry(start, tag)  == [tag |-> tag, start |-> start, quality |-> "valid"]
File(channels, width, trailing, off, size) ==
    [ num_channels |-> channels, bytes_per_sample |-> width, trailing_bytes |-> trailing,
      offset |-> off, disk_size_bytes |-> size ]

RecordingTags == { Tag(0, NoCount), Tag(1, 2), Tag(2, 0) }

(* Entries of either list: two starts with ties, one after some of the     *)
(* data files' end.                                                        *)
RecordingItems ==
    { Entry(0, Tag(0, NoCount)), Entry(1, Tag(1, 2)), Entry(1, Tag(0, NoCount)),
      Entry(3, Tag(2, 0)), Entry(5, Tag(0, NoCount)) }

(* One or two channels, complete and incomplete last frames, from files    *)
(* too short for the headers to files that hold every capture.             *)
RecordingFiles ==
    { File(1, 1, 0, 0, 3), File(2, 1, 1, 0, 14), File(2, 1, 0, 0, 16), File(2, 2, 1, 0, 31) }
OffsetFiles == { File(1, 1, 0, 2, 8) }

RecordingGlobals == { [checked |-> "valid", unchecked |-> "valid", defaulted |-> "default"] }
Unsorted ==
    { [captures |-> <<Entry(3, Tag(2, 0)), Entry(1, Tag(1, 2)), Entry(0, Tag(0, NoCount))>>,
       annotations |-> <<Entry(1, Tag(0, NoCount))>>] }
RecordingDocs == { [global |-> g, lists |-> ls, savedAt |-> "foreign"] : g \in RecordingGlobals, ls \in Unsorted }

(* Bounds of the instance: one level, at most one annotation, and no step  *)
(* after a save: what is loaded is the foreign file.                       *)
Small ==
    /\ level = "STRICT" /\ glevel = "STRICT"
    /\ Len(Annotations) <= 1
    /\ \A p \in Paths : files[p] \in {NoFile} \cup ForeignFiles

ObjectFilesAndData == <<object, files, data>>
=============================================================================
