-------------------------- MODULE MCSampleAddress ---------------------------
(* Instances of SampleAddress with integers of 4 bits, the sign included. *)
EXTENDS SampleAddress

Sums(captures) ==
    LET s[n \in 0..Len(captures)] == IF n = 0 THEN 0 ELSE s[n - 1] + captures[n].header_bytes
    IN  s

Capture(start, bytes) == [sample_start |-> start, header_bytes |-> bytes]

FilesWith(lists) ==
    { [ disk_size_bytes |-> d, bytes_per_sample |-> b, num_channels |-> n, offset |-> o,
        trailing_bytes |-> t, captures |-> c, sums |-> Sums(c) ] :
      d \in {5, INT64_MAX}, b \in {1, 2}, n \in {1, 2, 3}, o \in {0, 1, INT64_MAX},
      t \in {0, 1}, c \in lists }

(* Headers within the file, one capture that starts behind it. *)
SomeFiles == FilesWith({<<>>, <<Capture(0, 1), Capture(2, 2)>>, <<Capture(1, 0), Capture(INT64_MAX, 3)>>})

(* Headers that each fit an int64_t. *)
LargeHeaders ==
    FilesWith({<<Capture(0, 2)>>, <<Capture(0, INT64_MAX), Capture(0, INT64_MAX)>>})

SomeCounts == {-1, 0, 1, 2, INT64_MAX}

SomeAnnotations == [start : {0, 3, INT64_MAX}, count : {0, 1, 4, INT64_MAX}]
=============================================================================
