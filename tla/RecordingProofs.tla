-------------------------- MODULE RecordingProofs --------------------------
(***************************************************************************)
(* What is proved of Recording for every value of its constants.  Facts    *)
(* about the recursive sum of the headers, and about the capture a sample  *)
(* is in, follow by their smallest counterexample (LeastNatural).          *)
(***************************************************************************)
EXTENDS Recording, MetadataProofs, DatasetLayoutProofs, FiniteSetTheorems

(* The sums of the header bytes.  f is a solution of their recursive       *)
(* definition for the first n headers h.                                   *)
Sums(f, n, h) == f = [k \in 0..n |-> IF k = 0 THEN 0 ELSE f[k - 1] + h[k]]

(* There is one for any headers: a smallest n without would be one more    *)
(* than an n with a solution, which has room for one more sum.             *)
LEMMA SumsExist ==
    ASSUME NEW n \in Nat, NEW h
    PROVE  \E f : Sums(f, n, h)
<1> DEFINE T == { m \in Nat : ~\E f : Sums(f, m, h) }
<1> SUFFICES ASSUME T # {} PROVE FALSE
  OBVIOUS
<1>1. PICK m \in T : \A l \in T : m <= l
  BY LeastNatural
<1>2. CASE m = 0
  <2> DEFINE f == [k \in 0..0 |-> 0]
  <2>1. f = [k \in 0..0 |-> IF k = 0 THEN 0 ELSE f[k - 1] + h[k]]
    OBVIOUS
  <2>2. Sums(f, m, h)
    BY <1>2, <2>1 DEF Sums
  <2> QED
    BY <2>2
<1>3. CASE m # 0
  <2>1. m - 1 \in Nat /\ m - 1 \notin T
    BY <1>1, <1>3
  <2>2. PICK g : Sums(g, m - 1, h)
    BY <2>1
  <2> DEFINE f == [k \in 0..m |-> IF k = m THEN g[m - 1] + h[m] ELSE g[k]]
  <2>3. \A k \in 0..(m - 1) : g[k] = IF k = 0 THEN 0 ELSE g[k - 1] + h[k]
    BY <2>2 DEF Sums
  <2>4. ASSUME NEW k \in 0..m
        PROVE  f[k] = IF k = 0 THEN 0 ELSE f[k - 1] + h[k]
    <3>1. CASE k = m
      BY <1>3, <3>1
    <3>2. CASE k # m
      <4>1. k \in 0..(m - 1) /\ (k # 0 => k - 1 \in 0..m /\ k - 1 # m)
        BY <3>2
      <4>2. f[k] = g[k] /\ (k # 0 => f[k - 1] = g[k - 1])
        BY <3>2, <4>1
      <4> QED
        BY <2>3, <4>1, <4>2
    <3> QED
      BY <3>1, <3>2
  <2>5. f = [k \in 0..m |-> IF k = 0 THEN 0 ELSE f[k - 1] + h[k]]
    BY <2>4
  <2>6. Sums(f, m, h)
    BY <2>5 DEF Sums
  <2> QED
    BY <2>6
<1> QED
  BY <1>2, <1>3

(* The sums of naturals are naturals ... *)
LEMMA SumsType ==
    ASSUME NEW n \in Nat, NEW h, \A k \in 1..n : h[k] \in Nat, NEW f, Sums(f, n, h)
    PROVE  f \in [0..n -> Nat]
<1> DEFINE T == { k \in 0..n : f[k] \notin Nat }
<1>1. \A k \in 0..n : f[k] = IF k = 0 THEN 0 ELSE f[k - 1] + h[k]
  BY DEF Sums
<1>2. T = {}
  <2> SUFFICES ASSUME T # {} PROVE FALSE
    OBVIOUS
  <2>0. T \subseteq Nat
    OBVIOUS
  <2>1. PICK k \in T : \A j \in T : k <= j
    <3> HIDE DEF T
    <3> QED
      BY <2>0, LeastNatural
  <2>2. k # 0
    BY <1>1
  <2>3. k - 1 \in 0..n /\ k - 1 \notin T
    BY <2>1, <2>2
  <2>4. f[k - 1] \in Nat /\ h[k] \in Nat
    BY <2>2, <2>3
  <2> QED
    BY <1>1, <2>2, <2>4
<1>3. f = [k \in 0..n |-> f[k]]
  BY DEF Sums
<1> QED
  BY <1>2, <1>3

(* ... that grow. *)
LEMMA SumsGrow ==
    ASSUME NEW n \in Nat, NEW h, \A k \in 1..n : h[k] \in Nat, NEW f, Sums(f, n, h),
           NEW i \in 0..n, NEW j \in 0..n, i <= j
    PROVE  f[i] <= f[j]
<1> DEFINE T == { k \in i..n : ~(f[i] <= f[k]) }
<1>1. f \in [0..n -> Nat]
  BY SumsType
<1>2. \A k \in 1..n : f[k] = f[k - 1] + h[k]
  BY DEF Sums
<1>3. T = {}
  <2> SUFFICES ASSUME T # {} PROVE FALSE
    OBVIOUS
  <2>0. T \subseteq Nat
    OBVIOUS
  <2>1. PICK k \in T : \A l \in T : k <= l
    <3> HIDE DEF T
    <3> QED
      BY <2>0, LeastNatural
  <2>2. k # i
    BY <1>1
  <2>3. k - 1 \in i..n /\ k - 1 \notin T
    BY <2>1, <2>2
  <2>4. f[i] <= f[k - 1] /\ f[k] = f[k - 1] + h[k] /\ h[k] \in Nat
    BY <1>2, <2>2, <2>3
  <2> QED
    BY <1>1, <2>3, <2>4
<1> QED
  BY <1>3
-----------------------------------------------------------------------------
(* The inductive invariant: that of Metadata, and the type of the Dataset. *)
DataOK == data = NoFile \/ data \in DataFiles

RInv == IInv /\ DataOK

(* Opening a recording leaves what Metadata holds as it is. *)
LEMMA ReturnedIInv ==
    ASSUME IInv, NEW op, Returns(op), UNCHANGED <<object, files>>
    PROVE  IInv'
BY OutcomeType DEF IInv, TypeOK, ListsOrdered, object

LEMMA InitRInv == RecordingInit => RInv
BY InitIInv DEF RecordingInit, RInv, DataOK

LEMMA NextRInv == RInv /\ [RecordingNext]_<<vars, data>> => RInv'
<1> SUFFICES ASSUME RInv, [RecordingNext]_<<vars, data>> PROVE RInv'
  OBVIOUS
<1>1. CASE Next /\ UNCHANGED data
  BY <1>1, NextIInv DEF RInv, DataOK
<1>2. ASSUME NEW named \in BOOLEAN, OpenFrom(named) PROVE RInv'
  <2>1. CASE Rejected("open") /\ UNCHANGED data
    BY <2>1, RejectedIInv DEF RInv, DataOK
  <2>2. CASE data' \in DataFiles /\ Returns("open") /\ UNCHANGED <<object, files>>
    BY <2>2, ReturnedIInv DEF RInv, DataOK
  <2> QED
    BY <1>2, <2>1, <2>2 DEF OpenFrom
<1>3. ASSUME NEW p \in Paths, NEW ctx \in Contexts, NEW named \in BOOLEAN, OpenFile(p, ctx, named)
      PROVE  RInv'
  <2>1. CASE Rejected("open") /\ UNCHANGED data
    BY <2>1, RejectedIInv DEF RInv, DataOK
  <2>2. CASE Load(p, ctx) /\ data' \in DataFiles
    BY <2>2, ArgumentTypes, LoadIInv DEF RInv, DataOK
  <2> QED
    BY <1>3, <2>1, <2>2 DEF OpenFile
<1>4. CASE UNCHANGED <<vars, data>>
  <2>1. UNCHANGED vars /\ UNCHANGED data
    BY <1>4
  <2> QED
    BY <2>1, NextIInv DEF RInv, DataOK
<1> QED
  BY <1>1, <1>2, <1>3, <1>4 DEF RecordingNext

(* It holds in every reachable state. *)
THEOREM RecordingInvariance == RecordingSpec => []RInv
BY InitRInv, NextRInv, PTL DEF RecordingSpec
-----------------------------------------------------------------------------
(* An open recording whose captures have a start.                          *)
headers == [k \in 1..Len(Captures) |-> Captures[k].tag.header_bytes]

LEMMA CaptureTypes ==
    ASSUME RInv, Open
    PROVE  /\ Len(Captures) \in Nat
           /\ \A k \in 1..Len(Captures) : Captures[k].start \in Int /\ headers[k] \in Nat
           /\ \A j, k \in 1..Len(Captures) : j <= k => Captures[j].start <= Captures[k].start
<1>1. "captures" \in Kinds
  BY RecordingAssumption
<1>2. Captures \in Seq(Item) /\ Ordered(Captures)
  BY <1>1 DEF RInv, IInv, TypeOK, Lists, ListsOrdered, Captures
<1>3. \A k \in 1..Len(Captures) : Captures[k] \in Item
  BY <1>2, ElementOfSeq
<1>4. ASSUME NEW k \in 1..Len(Captures)
      PROVE  Captures[k].start \in Int /\ headers[k] \in Nat
  <2>1. Captures[k].start \in Int
    BY <1>3 DEF Item, Open
  <2>2. Captures[k].tag \in Tags
    BY <1>3 DEF Item
  <2>3. Captures[k].tag.header_bytes \in Nat
    BY <2>2, RecordingAssumption
  <2> QED
    BY <2>1, <2>3 DEF headers
<1>5. ASSUME NEW j \in 1..Len(Captures), NEW k \in 1..Len(Captures), j <= k
      PROVE  Captures[j].start <= Captures[k].start
  <2>1. CASE j = k
    BY <1>4, <2>1
  <2>2. CASE j < k
    BY <1>2, <2>2 DEF Ordered
  <2> QED
    BY <1>5, <2>1, <2>2
<1> QED
  BY <1>2, <1>4, <1>5

(* header_sums solves its recursive definition. *)
LEMMA HeaderSums ==
    ASSUME Len(Captures) \in Nat
    PROVE  Sums(header_sums, Len(Captures), headers)
<1> DEFINE n == Len(Captures)
           Def(f) == [k \in 0..n |-> IF k = 0 THEN 0 ELSE f[k - 1] + Captures[k].tag.header_bytes]
<1>1. PICK g : Sums(g, n, headers)
  BY SumsExist
<1>2. ASSUME NEW f
      PROVE  Def(f) = [k \in 0..n |-> IF k = 0 THEN 0 ELSE f[k - 1] + headers[k]]
  <2>1. \A k \in 0..n : k # 0 => headers[k] = Captures[k].tag.header_bytes
    BY DEF headers
  <2> QED
    BY <2>1
<1>3. g = Def(g)
  BY <1>1, <1>2 DEF Sums
<1>4. header_sums = CHOOSE f : f = Def(f)
  BY DEF header_sums
<1>5. header_sums = Def(header_sums)
  <2> HIDE DEF Def
  <2> QED
    BY <1>3, <1>4
<1> QED
  BY <1>2, <1>5 DEF Sums

(* What the queries pass to Dataset is a dataset.                          *)
LEMMA DatasetShaped ==
    ASSUME RInv, Open
    PROVE  DatasetShape(dataset)
<1> DEFINE n == Len(Captures)
           Cap == [sample_start : Int, header_bytes : Nat]
<1>1. data \in DataFile
  BY RecordingAssumption DEF RInv, DataOK, Open
<1>2. /\ data.num_channels \in Nat \ {0} /\ data.bytes_per_sample \in Nat \ {0}
      /\ data.trailing_bytes \in Nat /\ data.offset \in Nat /\ data.disk_size_bytes \in Nat
  BY <1>1 DEF DataFile
<1>3. /\ n \in Nat /\ \A k \in 1..n : Captures[k].start \in Int /\ headers[k] \in Nat
      /\ \A j, k \in 1..n : j <= k => Captures[j].start <= Captures[k].start
  BY CaptureTypes
<1>4. Sums(header_sums, n, headers)
  BY <1>3, HeaderSums
<1>5. header_sums \in [0..n -> Nat] /\ \A j, k \in 0..n : j <= k => header_sums[j] <= header_sums[k]
  BY <1>3, <1>4, SumsType, SumsGrow
<1>6. \A k \in 1..n : headers[k] = Captures[k].tag.header_bytes
  BY DEF headers
<1>7. header_sums[0] = 0 /\ \A k \in 1..n : header_sums[k] = header_sums[k - 1] + headers[k]
  BY <1>3, <1>4 DEF Sums
<1>8. /\ dataset.captures \in Seq(Cap) /\ Len(dataset.captures) = n
      /\ \A k \in 1..n : /\ dataset.captures[k].sample_start = Captures[k].start
                         /\ dataset.captures[k].header_bytes = headers[k]
  BY <1>3, <1>6 DEF dataset
<1>9. /\ dataset.num_channels = data.num_channels
      /\ dataset.bytes_per_sample = data.bytes_per_sample
      /\ dataset.trailing_bytes = data.trailing_bytes
      /\ dataset.offset = data.offset
      /\ dataset.disk_size_bytes = data.disk_size_bytes
      /\ dataset.sums = header_sums
  BY DEF dataset
<1>10. \A j, k \in 1..n : j < k => dataset.captures[j].sample_start <= dataset.captures[k].sample_start
  BY <1>3, <1>8
<1> HIDE DEF Cap
<1> QED
  BY <1>2, <1>5, <1>7, <1>8, <1>9, <1>10 DEF DatasetShape, Cap

(* The parameters of the Dataset and the numbers computed from them.       *)
LEMMA DatasetTypes ==
    ASSUME RInv, Open
    PROVE  /\ data.num_channels \in Nat \ {0} /\ data.bytes_per_sample \in Nat \ {0}
           /\ data.trailing_bytes \in Nat /\ data.offset \in Nat /\ data.disk_size_bytes \in Nat
           /\ header_sums \in [0..Len(Captures) -> Nat]
           /\ non_sample_bytes(dataset) = header_sums[Len(Captures)] + data.trailing_bytes
           /\ non_sample_bytes(dataset) \in Nat
           /\ total_samples(dataset)
                = (data.disk_size_bytes - non_sample_bytes(dataset)) \div data.bytes_per_sample
           /\ total_samples(dataset) \in Int
           /\ \A c \in Channels : channel_size(dataset, c) \in Int
<1>1. data \in DataFile
  BY RecordingAssumption DEF RInv, DataOK, Open
<1>2. /\ data.num_channels \in Nat \ {0} /\ data.bytes_per_sample \in Nat \ {0}
      /\ data.trailing_bytes \in Nat /\ data.offset \in Nat /\ data.disk_size_bytes \in Nat
  BY <1>1 DEF DataFile
<1>3. header_sums \in [0..Len(Captures) -> Nat]
  BY CaptureTypes, HeaderSums, SumsType
<1>4. Len(dataset.captures) = Len(Captures)
  BY CaptureTypes DEF dataset
<1>5. /\ dataset.num_channels = data.num_channels
      /\ dataset.bytes_per_sample = data.bytes_per_sample
      /\ dataset.trailing_bytes = data.trailing_bytes
      /\ dataset.disk_size_bytes = data.disk_size_bytes
      /\ dataset.sums = header_sums
  BY DEF dataset
<1>6. non_sample_bytes(dataset) = header_sums[Len(Captures)] + data.trailing_bytes
  BY <1>4, <1>5 DEF non_sample_bytes
<1>7. total_samples(dataset)
        = (data.disk_size_bytes - non_sample_bytes(dataset)) \div data.bytes_per_sample
  BY <1>5 DEF total_samples
<1>8. non_sample_bytes(dataset) \in Nat
  BY <1>2, <1>3, <1>6, CaptureTypes
<1>9. total_samples(dataset) \in Int
  BY <1>2, <1>7, <1>8
<1>10. ASSUME NEW c \in Channels PROVE channel_size(dataset, c) \in Int
  <2>1. total_samples(dataset) \div data.num_channels \in Int
    BY <1>2, <1>9
  <2> QED
    BY <1>5, <2>1 DEF channel_size
<1> QED
  BY <1>2, <1>3, <1>6, <1>7, <1>8, <1>9, <1>10
-----------------------------------------------------------------------------
(* The captures that contain a sample: none before the first capture       *)
(* starts, one from there on - the last that starts at it or before.       *)
LEMMA OneCapture ==
    ASSUME RInv, Open, Captures # <<>>, NEW s \in Int, Captures[1].start <= s
    PROVE  \E k \in 1..Len(Captures) :
              /\ get_captures_in_range(s, s + 1) = {k}
              /\ find_capture_containing(s) = k
              /\ Captures[k].start <= s
              /\ k < Len(Captures) => s < Captures[k + 1].start
              /\ \A j \in 1..Len(Captures) : Captures[j].start <= s <=> j <= k
<1> DEFINE n == Len(Captures)
           T == { k \in 1..n : Captures[k].start <= s }
<1>1. /\ n \in Nat /\ \A k \in 1..n : Captures[k].start \in Int
      /\ \A j, k \in 1..n : j <= k => Captures[j].start <= Captures[k].start
  BY CaptureTypes
<1>2. n # 0
  <2>1. Captures \in Seq(Item)
    BY RecordingAssumption DEF RInv, IInv, TypeOK, Lists, Captures
  <2> QED
    BY <2>1, EmptySeq
<1>3. T \subseteq 0..n /\ 1 \in T
  BY <1>1, <1>2
<1>4. PICK k \in T : \A j \in T : j <= k
  <2> HIDE DEF T
  <2> QED
    BY <1>1, <1>3, GreatestNatural
<1>5. k < n => s < Captures[k + 1].start
  <2> SUFFICES ASSUME k < n, ~(s < Captures[k + 1].start) PROVE FALSE
    OBVIOUS
  <2>1. k + 1 \in 1..n
    BY <1>1
  <2>2. Captures[k + 1].start <= s
    BY <1>1, <2>1
  <2> QED
    BY <1>4, <2>1, <2>2
<1>6. \A j \in 1..n : Captures[j].start <= s <=> j <= k
  <2>1. ASSUME NEW j \in 1..n, j <= k PROVE Captures[j].start <= s
    <3>1. Captures[j].start <= Captures[k].start
      BY <1>1, <2>1
    <3> QED
      BY <1>1, <3>1
  <2> QED
    BY <1>1, <1>4, <2>1
<1>7. get_captures_in_range(s, s + 1) = {k}
  <2>1. ASSUME NEW j \in 1..n, Captures[j].start < s + 1,
               j < n => s < Captures[j + 1].start
        PROVE  j = k
    <3>1. j <= k
      BY <1>1, <1>6, <2>1
    <3>2. ~(j < k)
      <4> SUFFICES ASSUME j < k PROVE FALSE
        OBVIOUS
      <4>1. j + 1 \in 1..n /\ j + 1 <= k /\ j < n
        BY <1>1
      <4>2. Captures[j + 1].start <= s
        BY <1>6, <4>1
      <4> QED
        BY <1>1, <2>1, <4>1, <4>2
    <3> QED
      BY <3>1, <3>2
  <2>2. Captures[k].start < s + 1
    BY <1>1
  <2> QED
    BY <1>5, <2>1, <2>2 DEF get_captures_in_range
<1>8. find_capture_containing(s) = k
  BY <1>7 DEF find_capture_containing
<1> QED
  BY <1>4, <1>5, <1>6, <1>7, <1>8
-----------------------------------------------------------------------------
(* Where capture k ends on channel c. *)
end(k, c) == IF k < Len(Captures) THEN Captures[k + 1].start ELSE channel_size(dataset, c)

(* A request that starts in the data and asks for a sample or more, or for *)
(* none, up to the end of the channel at most, reads just what it names.   *)
LEMMA RequestRead ==
    ASSUME RInv, Open, NEW c \in Channels,
           non_sample_bytes(dataset) <= data.disk_size_bytes,
           NEW start \in Nat, start < channel_size(dataset, c),
           NEW stop \in Int, start <= stop, stop <= channel_size(dataset, c)
    PROVE  LET r == Request(start, stop - start)
           IN  ~refused(r, c) /\ samples(r, c) = start..(stop - 1)
<1> DEFINE r == Request(start, stop - start)
           N == channel_size(dataset, c)
<1>1. r.start = start /\ r.count = stop - start
  BY DEF Request
<1>2. N \in Int /\ data.num_channels \in Nat \ {0}
  BY DatasetTypes
<1>3. effective_count(dataset, c, start, stop - start) = stop - start
  BY DEF effective_count
<1>4. c \in 1..dataset.num_channels /\ dataset.disk_size_bytes = data.disk_size_bytes
  BY DEF Channels, dataset
<1>5. ~request_refused(dataset, c, start, stop - start)
  <2>1. ~(c < 1 \/ c > dataset.num_channels)
    BY <1>2, <1>4 DEF dataset
  <2>2. ~(start < 0) /\ ~(start >= N) /\ ~(stop - start > N - start)
    BY <1>2
  <2>3. ~(non_sample_bytes(dataset) > dataset.disk_size_bytes)
    <3>1. non_sample_bytes(dataset) \in Int /\ data.disk_size_bytes \in Int
      BY DatasetTypes
    <3> QED
      BY <1>4, <3>1
  <2> QED
    BY <1>3, <2>1, <2>2, <2>3 DEF request_refused
<1>6. samples(r, c) = start..(start + (stop - start) - 1)
  BY <1>1, <1>3 DEF samples
<1> QED
  BY <1>1, <1>5, <1>6 DEF refused

(* Every capture can be read, from its start up to its end. *)
LEMMA CaptureRead ==
    ASSUME RInv, Open, NEW c \in Channels, Describes(c), NEW k \in 1..Len(Captures)
    PROVE  /\ end(k, c) \in Int /\ Captures[k].start <= end(k, c)
           /\ end(k, c) <= channel_size(dataset, c)
           /\ Captures[k].start \in 0..(channel_size(dataset, c) - 1)
           /\ get_capture_size(k, c) = end(k, c) - Captures[k].start
           /\ ~refused(capture_request(k, c), c)
           /\ samples(capture_request(k, c), c) = Captures[k].start..(end(k, c) - 1)
<1> DEFINE n == Len(Captures)
           N == channel_size(dataset, c)
           start == Captures[k].start
<1>1. N \in Int /\ n \in Nat
  BY DatasetTypes, CaptureTypes
<1>2. non_sample_bytes(dataset) <= data.disk_size_bytes /\ \A j \in 1..n : Captures[j].start \in 0..(N - 1)
  BY DEF Describes
<1>3. start \in Nat /\ start < N
  BY <1>1, <1>2
<1>4. end(k, c) \in Int /\ start <= end(k, c) /\ end(k, c) <= N
  <2>1. CASE k < n
    <3>1. k + 1 \in 1..n
      BY <1>1, <2>1
    <3>2. Captures[k].start <= Captures[k + 1].start /\ Captures[k + 1].start \in 0..(N - 1)
      BY <1>2, <3>1, CaptureTypes
    <3> QED
      BY <1>1, <2>1, <3>2 DEF end
  <2>2. CASE ~(k < n)
    BY <1>1, <1>3, <2>2 DEF end
  <2> QED
    BY <2>1, <2>2
<1>5. Captures # <<>>
  <2>1. CASE Captures = <<>>
    <3>1. n = 0
      BY <2>1, EmptySeq
    <3> QED
      BY <3>1
  <2> QED
    BY <2>1
<1>6. get_capture_size(k, c) = end(k, c) - start
  BY <1>5 DEF get_capture_size, end
<1>7. capture_request(k, c) = Request(start, end(k, c) - start)
  BY <1>5, <1>6 DEF capture_request
<1>8. ~refused(capture_request(k, c), c) /\ samples(capture_request(k, c), c) = start..(end(k, c) - 1)
  BY <1>2, <1>3, <1>4, <1>7, RequestRead
<1> QED
  BY <1>1, <1>2, <1>4, <1>6, <1>8

(* CapturesPartition: reading the captures one by one reads every sample   *)
(* from the first capture on once, with the capture that                   *)
(* find_capture_containing finds - for lists of any length, on every       *)
(* channel, after any edits of the metadata.                               *)
THEOREM CapturesAlwaysPartition == RecordingSpec => []CapturesPartition
<1>1. RInv => CapturesPartition
  <2> SUFFICES ASSUME RInv, Open, data.offset = 0, Captures # <<>>,
                      NEW c \in Channels, Describes(c)
               PROVE  /\ \A k \in 1..Len(Captures) : ~refused(capture_request(k, c), c)
                      /\ \A s \in 0..(channel_size(dataset, c) - 1) :
                            { k \in 1..Len(Captures) : s \in samples(capture_request(k, c), c) }
                            = IF s < Captures[1].start THEN {} ELSE {find_capture_containing(s)}
    BY DEF CapturesPartition
  <2> DEFINE n == Len(Captures)
             N == channel_size(dataset, c)
  <2>1. /\ n \in Nat /\ \A k \in 1..n : Captures[k].start \in Int
        /\ \A j, k \in 1..n : j <= k => Captures[j].start <= Captures[k].start
    BY CaptureTypes
  <2>2. N \in Int
    BY DatasetTypes
  <2>3. ASSUME NEW s \in 0..(N - 1)
        PROVE  { k \in 1..n : s \in samples(capture_request(k, c), c) }
               = IF s < Captures[1].start THEN {} ELSE {find_capture_containing(s)}
    <3>1. s \in Int /\ s < N
      BY <2>2
    <3>2. ASSUME NEW k \in 1..n
          PROVE  s \in samples(capture_request(k, c), c)
                   <=> Captures[k].start <= s /\ s < end(k, c)
      <4>1. Captures[k].start \in Int /\ end(k, c) \in Int
        BY <2>1, CaptureRead
      <4> QED
        BY <3>1, <4>1, CaptureRead
    <3>3. ASSUME NEW k \in 1..n
          PROVE  s \in samples(capture_request(k, c), c) <=> k \in get_captures_in_range(s, s + 1)
      <4>1. Captures[k].start < s + 1 <=> Captures[k].start <= s
        BY <2>1, <3>1
      <4>2. s < end(k, c) <=> (k < n => s < Captures[k + 1].start)
        BY <3>1 DEF end
      <4> QED
        BY <3>2, <4>1, <4>2 DEF get_captures_in_range
    <3>4. CASE s < Captures[1].start
      <4>1. ASSUME NEW k \in 1..n PROVE s \notin samples(capture_request(k, c), c)
        <5>1. 1 \in 1..n /\ Captures[1].start <= Captures[k].start
          BY <2>1
        <5>2. ~(Captures[k].start <= s)
          BY <2>1, <3>1, <3>4, <5>1
        <5> QED
          BY <3>2, <5>2
      <4> QED
        BY <3>4, <4>1
    <3>5. CASE ~(s < Captures[1].start)
      <4>1. n # 0
        <5>1. Captures \in Seq(Item)
          BY RecordingAssumption DEF RInv, IInv, TypeOK, Lists, Captures
        <5> QED
          BY <5>1, EmptySeq
      <4>2. Captures[1].start <= s
        BY <2>1, <3>1, <3>5, <4>1
      <4>3. PICK k \in 1..n : get_captures_in_range(s, s + 1) = {k} /\ find_capture_containing(s) = k
        BY <3>1, <4>2, OneCapture
      <4> QED
        BY <3>3, <3>5, <4>3
    <3> QED
      BY <3>4, <3>5
  <2> QED
    BY <2>3, CaptureRead
<1> QED
  BY <1>1, RecordingInvariance, PTL
-----------------------------------------------------------------------------
(* AnnotationReadsRest: an annotation without a count reads, on the first  *)
(* channel, the samples of its capture from its own start on - whichever   *)
(* capture that is, and also when that capture is the last one and the     *)
(* last frame is incomplete.                                               *)
THEOREM AnnotationAlwaysReadsRest == RecordingSpec => []AnnotationReadsRest
<1>1. RInv => AnnotationReadsRest
  <2> SUFFICES ASSUME RInv, Open, data.offset = 0, NEW a \in ToSet(Annotations),
                      Describes(1), Openended(a, 1)
               PROVE  ReadsRestOfCapture(a, 1)
    BY DEF AnnotationReadsRest
  <2> DEFINE n == Len(Captures)
             N == channel_size(dataset, 1)
  <2>1. 1 \in Channels /\ N \in Int
    BY DatasetTypes DEF Channels
  <2>2. /\ n \in Nat /\ \A k \in 1..n : Captures[k].start \in Int
        /\ \A j, k \in 1..n : j <= k => Captures[j].start <= Captures[k].start
    BY CaptureTypes
  <2>3. a.start \in Int /\ a.start < N /\ a.tag.sample_count = NoCount /\ ~annotation_throws(a)
    <3>1. Annotations \in Seq(Item)
      BY RecordingAssumption DEF RInv, IInv, TypeOK, Lists, Annotations
    <3>2. PICK i \in 1..Len(Annotations) : a = Annotations[i]
      BY DEF ToSet
    <3>3. a \in Item
      BY <3>1, <3>2, ElementOfSeq
    <3> QED
      BY <3>3 DEF Openended, Item
  <2>4. PICK j \in 1..n : Captures[j].start < a.start + 1
    BY <2>3 DEF annotation_throws, get_captures_in_range
  <2>5. Captures # <<>>
    <3>1. Captures = <<>> => n = 0
      BY EmptySeq
    <3> QED
      BY <2>4, <3>1
  <2>6. Captures[1].start <= a.start
    <3>1. 1 \in 1..n /\ Captures[1].start <= Captures[j].start
      BY <2>2, <2>4
    <3> QED
      BY <2>2, <2>3, <2>4, <3>1
  <2>7. PICK k \in 1..n : /\ find_capture_containing(a.start) = k
                          /\ Captures[k].start <= a.start
                          /\ k < n => a.start < Captures[k + 1].start
    BY <2>3, <2>5, <2>6, OneCapture
  <2>8. PICK stop \in Int : /\ stop = end(k, 1) /\ stop <= N
                            /\ get_capture_size(k, 1) = stop - Captures[k].start
                            /\ samples(capture_request(k, 1), 1) = Captures[k].start..(stop - 1)
    BY <2>1, CaptureRead
  <2>9. a.start < stop /\ a.start \in Nat
    <3>1. a.start < stop
      BY <2>3, <2>7, <2>8 DEF end
    <3>2. Captures[k].start \in 0..(N - 1)
      BY <2>1, CaptureRead
    <3> QED
      BY <2>1, <2>3, <2>7, <3>1, <3>2
  <2>10. annotation_request(a, 1) = Request(a.start, stop - a.start)
    <3>1. Captures[k].start + (stop - Captures[k].start) - a.start = stop - a.start
      BY <2>2, <2>3
    <3> QED
      BY <2>3, <2>7, <2>8, <3>1 DEF annotation_request
  <2>11. LET r == annotation_request(a, 1)
         IN  ~refused(r, 1) /\ samples(r, 1) = a.start..(stop - 1)
    <3>1. non_sample_bytes(dataset) <= data.disk_size_bytes
      BY DEF Describes
    <3> QED
      BY <2>1, <2>3, <2>8, <2>9, <2>10, <3>1, RequestRead
  <2>12. a.start..(stop - 1) = { s \in Captures[k].start..(stop - 1) : s >= a.start }
    BY <2>2, <2>3, <2>7
  <2> QED
    BY <2>7, <2>8, <2>11, <2>12 DEF ReadsRestOfCapture
<1> QED
  BY <1>1, RecordingInvariance, PTL
-----------------------------------------------------------------------------
(* The m captures that start at sample s or before it: the first m.        *)
LEMMA HeadersCounted ==
    ASSUME RInv, Open, data.offset = 0, NEW s \in Int
    PROVE  \E m \in 0..Len(Captures) :
              /\ Cardinality({ k \in 1..Len(Captures) : header_before(dataset, k, s) }) = m
              /\ \A k \in 1..Len(Captures) : Captures[k].start <= s <=> k <= m
<1> DEFINE n == Len(Captures)
           H == { k \in 1..n : header_before(dataset, k, s) }
<1>1. /\ n \in Nat /\ \A k \in 1..n : Captures[k].start \in Int
      /\ \A j, k \in 1..n : j <= k => Captures[j].start <= Captures[k].start
  BY CaptureTypes
<1>2. ASSUME NEW k \in 1..n PROVE header_before(dataset, k, s) <=> Captures[k].start <= s
  <2>1. dataset.captures[k].sample_start = Captures[k].start /\ dataset.offset = 0
    BY DEF dataset
  <2> QED
    BY <1>1, <2>1 DEF header_before
<1>3. PICK m \in 0..n : \A k \in 1..n : Captures[k].start <= s <=> k <= m
  <2>1. CASE n # 0 /\ Captures[1].start <= s
    <3>1. Captures # <<>>
      BY <2>1, EmptySeq
    <3>2. PICK k \in 1..n : \A j \in 1..n : Captures[j].start <= s <=> j <= k
      BY <2>1, <3>1, OneCapture
    <3>3. k \in 0..n
      BY <1>1
    <3> QED
      BY <3>2, <3>3, Zenon
  <2>2. CASE n = 0
    BY <2>2
  <2>3. CASE n # 0 /\ ~(Captures[1].start <= s)
    <3>1. ASSUME NEW k \in 1..n PROVE ~(Captures[k].start <= s)
      <4>1. 1 \in 1..n /\ 1 <= k
        BY <1>1
      <4>2. Captures[1].start <= Captures[k].start
        BY <1>1, <4>1
      <4> QED
        BY <1>1, <2>3, <4>1, <4>2
    <3>2. 0 \in 0..n /\ \A k \in 1..n : ~(k <= 0)
      BY <1>1
    <3> QED
      BY <3>1, <3>2
  <2> QED
    BY <2>1, <2>2, <2>3
<1>4. H = 1..m
  <2>1. 1..m \subseteq 1..n
    BY <1>1
  <2> QED
    BY <1>2, <1>3, <2>1
<1>5. Cardinality(1..m) = m
  BY <1>1, FS_Interval
<1> QED
  BY <1>3, <1>4, <1>5

(* The first sample of capture k lies behind its header, and the end of    *)
(* that header within the file.                                            *)
LEMMA HeaderInFile ==
    ASSUME RInv, Open, data.offset = 0, Describes(1), NEW k \in 1..Len(Captures)
    PROVE  Captures[k].start * data.num_channels * data.bytes_per_sample + header_sums[k]
             <= data.disk_size_bytes
<1> DEFINE s == Captures[k].start
           w == data.num_channels
           b == data.bytes_per_sample
           n == Len(Captures)
<1>1. /\ w \in Nat \ {0} /\ b \in Nat \ {0} /\ 1 \in 1..w
      /\ data.trailing_bytes \in Nat /\ data.disk_size_bytes \in Nat
      /\ header_sums \in [0..n -> Nat]
      /\ non_sample_bytes(dataset) = header_sums[n] + data.trailing_bytes
  BY DatasetTypes
<1>2. s \in Nat /\ s < channel_size(dataset, 1) /\ non_sample_bytes(dataset) <= data.disk_size_bytes
  <2>1. channel_size(dataset, 1) \in Int
    BY <1>1, DatasetTypes DEF Channels
  <2> QED
    BY <2>1 DEF Describes
<1>3. s * w \in Int /\ s * w <= total_samples(dataset)
  <2>1. s * w + 1 <= total_samples(dataset)
    BY <1>1, <1>2, DatasetShaped, SampleCounted DEF dataset
  <2>2. s * w \in Int /\ total_samples(dataset) \in Int
    BY <1>1, <1>2, DatasetTypes
  <2> QED
    BY <2>1, <2>2
<1>4. s * w * b + non_sample_bytes(dataset) <= data.disk_size_bytes
  BY <1>3, DatasetShaped, SamplesFit DEF dataset
<1>5. header_sums[k] <= header_sums[n]
  <2>1. n \in Nat /\ Sums(header_sums, n, headers) /\ \A j \in 1..n : headers[j] \in Nat
    BY CaptureTypes, HeaderSums
  <2>2. k \in 0..n /\ n \in 0..n /\ k <= n
    BY <2>1
  <2> QED
    BY <2>1, <2>2, SumsGrow
<1>6. PICK at \in Int : at = s * w * b
  BY <1>1, <1>3
<1>7. header_sums[k] \in Nat /\ header_sums[n] \in Nat
  BY <1>1, CaptureTypes
<1> QED
  BY <1>1, <1>4, <1>5, <1>6, <1>7

(* HeadersBetweenSamples: read_header_bytes and load_samples agree on      *)
(* where the headers lie, for any number of captures, channels and bytes   *)
(* per sample - two sums over the captures, one up to an index and one up  *)
(* to a sample, that never contradict each other.                          *)
THEOREM HeadersAlwaysBetweenSamples == RecordingSpec => []HeadersBetweenSamples
<1>1. RInv => HeadersBetweenSamples
  <2> SUFFICES ASSUME RInv, Open, data.offset = 0, NEW k \in 1..Len(Captures)
               PROVE  LET after == header_ptr(k) + Captures[k].tag.header_bytes IN
                      /\ \A c \in Channels : \A i \in 0..(channel_size(dataset, c) - 1) :
                            IF i < Captures[k].start
                            THEN sample_ptr(i, c) + data.bytes_per_sample <= header_ptr(k)
                            ELSE after <= sample_ptr(i, c)
                      /\ k < Len(Captures) => after <= header_ptr(k + 1)
                      /\ Describes(1) => after <= data.disk_size_bytes
    BY DEF HeadersBetweenSamples
  <2> DEFINE n == Len(Captures)
             w == data.num_channels
             b == data.bytes_per_sample
             s == Captures[k].start
             after == header_ptr(k) + Captures[k].tag.header_bytes
  <2>1. /\ n \in Nat /\ \A j \in 1..n : Captures[j].start \in Int /\ headers[j] \in Nat
        /\ \A i, j \in 1..n : i <= j => Captures[i].start <= Captures[j].start
    BY CaptureTypes
  <2>2. w \in Nat \ {0} /\ b \in Nat \ {0} /\ header_sums \in [0..n -> Nat] /\ dataset.sums = header_sums
    BY DatasetTypes DEF dataset
  <2>3. Sums(header_sums, n, headers)
    BY <2>1, HeaderSums
  <2>4. \A i, j \in 0..n : i <= j => header_sums[i] <= header_sums[j]
    BY <2>1, <2>3, SumsGrow
  <2>5. \A j \in 1..n : j - 1 \in 0..n /\ header_sums[j] = header_sums[j - 1] + Captures[j].tag.header_bytes
    <3>1. \A j \in 1..n : headers[j] = Captures[j].tag.header_bytes
      BY DEF headers
    <3>2. \A j \in 1..n : j - 1 \in 0..n /\ j \in 0..n /\ j # 0
      BY <2>1
    <3>3. \A j \in 0..n : header_sums[j] = IF j = 0 THEN 0 ELSE header_sums[j - 1] + headers[j]
      BY <2>3 DEF Sums
    <3> QED
      BY <3>1, <3>2, <3>3
  <2>6. ASSUME NEW j \in 1..n
        PROVE  /\ Captures[j].start * w * b \in Int
               /\ header_ptr(j) = Captures[j].start * w * b + header_sums[j - 1]
    <3>1. Captures[j].start - data.offset = Captures[j].start
      BY <2>1
    <3>2. Captures[j].start * w * b \in Int
      <4>1. Captures[j].start * w \in Int
        BY <2>1, <2>2
      <4> QED
        BY <2>2, <4>1
    <3> QED
      BY <2>2, <3>1, <3>2 DEF header_ptr
  <2>7. after = s * w * b + header_sums[k]
    <3>1. s * w * b \in Int /\ header_ptr(k) = s * w * b + header_sums[k - 1]
      BY <2>6
    <3>2. header_sums[k - 1] \in Nat /\ header_sums[k] = header_sums[k - 1] + Captures[k].tag.header_bytes
      BY <2>2, <2>5
    <3>3. Captures[k].tag.header_bytes \in Nat
      BY <2>1 DEF headers
    <3> QED
      BY <3>1, <3>2, <3>3
  <2>8. ASSUME NEW c \in Channels, NEW i \in 0..(channel_size(dataset, c) - 1)
        PROVE  IF i < s THEN sample_ptr(i, c) + b <= header_ptr(k) ELSE after <= sample_ptr(i, c)
    <3>1. i \in Int /\ c \in 1..w
      BY DatasetTypes DEF Channels
    <3>2. PICK m \in 0..n :
             /\ Cardinality({ j \in 1..n : header_before(dataset, j, i) }) = m
             /\ \A j \in 1..n : Captures[j].start <= i <=> j <= m
      BY <3>1, HeadersCounted
    <3>3. sample_ptr(i, c) = (i * w + (c - 1)) * b + header_sums[m]
      <4>1. i - data.offset = i
        BY <3>1
      <4> QED
        BY <2>2, <3>2, <4>1 DEF sample_ptr
    <3>4. s \in Int /\ header_sums[m] \in Nat /\ header_sums[k - 1] \in Nat /\ header_sums[k] \in Nat
      <4>1. m \in 0..n /\ k - 1 \in 0..n /\ k \in 0..n
        BY <2>1, <3>2
      <4> QED
        BY <2>1, <2>2, <4>1
    <3>5. CASE i < s
      <4>1. m <= k - 1
        BY <2>1, <3>1, <3>2, <3>4, <3>5
      <4>2. header_sums[m] <= header_sums[k - 1]
        BY <2>4, <2>5, <4>1
      <4>3. PICK at \in Int, first \in Int :
               at = (i * w + (c - 1)) * b /\ first = s * w * b /\ at + b <= first
        <5>1. /\ (i * w + (c - 1)) * b \in Int /\ s * w * b \in Int
              /\ (i * w + (c - 1)) * b + b <= s * w * b
          BY <2>2, <3>1, <3>4, <3>5, SampleBeforeFrame, Zenon
        <5> QED
          BY <5>1
      <4>4. sample_ptr(i, c) = at + header_sums[m] /\ header_ptr(k) = first + header_sums[k - 1]
        BY <2>6, <3>3, <4>3
      <4>5. (at + header_sums[m]) + b <= first + header_sums[k - 1]
        <5>1. at + b <= first
          BY <4>3
        <5>2. b \in Nat
          BY <2>2
        <5> QED
          BY <3>4, <4>2, <5>1, <5>2
      <4> QED
        BY <3>5, <4>4, <4>5, Zenon
    <3>6. CASE ~(i < s)
      <4>1. k <= m
        BY <3>1, <3>2, <3>4, <3>6
      <4>2. header_sums[k] <= header_sums[m]
        BY <2>1, <2>4, <4>1
      <4>3. (i * w + (c - 1)) * b \in Int
        BY <2>2, <3>1, i + 1 \in Int, i < i + 1, SampleBeforeFrame
      <4>4. s * w * b \in Int /\ s * w * b <= (i * w + (c - 1)) * b
        <5>1. s <= i
          BY <3>1, <3>4, <3>6
        <5> QED
          BY <2>2, <3>1, <3>4, <5>1, SampleAfterFrame, Zenon
      <4>5. PICK at \in Int, first \in Int :
               at = (i * w + (c - 1)) * b /\ first = s * w * b /\ first <= at
        BY <4>3, <4>4
      <4>6. sample_ptr(i, c) = at + header_sums[m] /\ after = first + header_sums[k]
        BY <2>7, <3>3, <4>5
      <4> QED
        BY <3>4, <3>6, <4>2, <4>5, <4>6
    <3> QED
      BY <3>5, <3>6
  <2>9. ASSUME k < n PROVE after <= header_ptr(k + 1)
    <3>1. k + 1 \in 1..n /\ s <= Captures[k + 1].start /\ (k + 1) - 1 = k
      BY <2>1, <2>9
    <3>2. 1 \in 1..w
      BY <2>2
    <3>3. s * w * b <= (Captures[k + 1].start * w + (1 - 1)) * b
      BY <2>1, <2>2, <3>1, <3>2, SampleAfterFrame
    <3>4. Captures[k + 1].start * w + (1 - 1) = Captures[k + 1].start * w
      <4>1. Captures[k + 1].start * w \in Int
        BY <2>1, <2>2, <3>1
      <4> QED
        BY <4>1
    <3>5. PICK here \in Int, next \in Int :
             here = s * w * b /\ next = Captures[k + 1].start * w * b /\ here <= next
      BY <2>6, <3>1, <3>3, <3>4
    <3>6. header_ptr(k + 1) = next + header_sums[k] /\ after = here + header_sums[k]
      BY <2>6, <2>7, <3>1, <3>5
    <3>7. header_sums[k] \in Nat
      BY <2>1, <2>2
    <3> QED
      BY <3>5, <3>6, <3>7
  <2>10. Describes(1) => after <= data.disk_size_bytes
    BY <2>7, HeaderInFile
  <2> QED
    BY <2>8, <2>9, <2>10
<1> QED
  BY <1>1, RecordingInvariance, PTL
=============================================================================
