-------------------------- MODULE DatasetReadProofs -------------------------
(* What is proved of DatasetRead, for every dataset and every request: its *)
(* invariants, and at the end that it implements ReadSamples.              *)
EXTENDS DatasetRead, DatasetLayoutProofs

(* What the guards of get_samples established, as long as the call runs.   *)
Accepted ==
    /\ channel \in 1..ds.num_channels
    /\ non_sample_bytes(ds) <= ds.disk_size_bytes
    /\ sample_start >= 0
    /\ sample_start + sample_count <= channel_size(ds, channel)

(* The pointer is right at every point of the two loops: it stands at the  *)
(* address the skipped headers give, those all lie before the sample, and  *)
(* at a read no other does.                                                *)
PointerInv ==
    /\ byte_ptr = Address(sample_start + i, capture_idx)
    /\ \A j \in 1..capture_idx : header_before(ds, j, sample_start + i)
    /\ pc = "headers" => i = 0
    /\ pc = "read" => /\ i < sample_count
                      /\ \A j \in (capture_idx + 1)..Len(ds.captures) :
                            ~header_before(ds, j, sample_start + i)

(* The inductive invariant.  PointerAtSample speaks only of reads; between *)
(* two reads the pointer is ahead of or behind the headers, so the         *)
(* invariant has to follow it through both loops.                          *)
IInv ==
    /\ TypeOK
    /\ pc = "idle" => i = 0 /\ capture_idx = 0 /\ out = <<>>
    /\ Running => Accepted /\ PointerInv

LEMMA CaptureType ==
    ASSUME TypeOK
    PROVE  /\ Len(ds.captures) \in Nat
           /\ \A k \in 1..Len(ds.captures) :
                 /\ ds.captures[k].sample_start \in Int
                 /\ ds.captures[k].header_bytes \in Nat
           /\ \A k \in 0..Len(ds.captures) : ds.sums[k] \in Nat
           /\ ds.num_channels \in Nat \ {0} /\ ds.bytes_per_sample \in Nat \ {0}
           /\ ds.offset \in Nat
<1> DEFINE Cap == [sample_start : Int, header_bytes : Nat]
<1>1. ds.captures \in Seq(Cap)
  BY DEF TypeOK, DatasetShape
<1>2. \A k \in 1..Len(ds.captures) : ds.captures[k] \in Cap
  BY <1>1, ElementOfSeq
<1>3. Len(ds.captures) \in Nat
  BY <1>1
<1>4. \A k \in 1..Len(ds.captures) :
         ds.captures[k].sample_start \in Int /\ ds.captures[k].header_bytes \in Nat
  BY <1>2
<1> HIDE DEF Cap
<1> QED
  BY <1>3, <1>4 DEF TypeOK, DatasetShape

(* Once one capture starts after sample n, so do those that follow it.     *)
LEMMA HeadersAfter ==
    ASSUME TypeOK, NEW n \in Int, NEW k \in 1..Len(ds.captures), ~header_before(ds, k, n)
    PROVE  \A j \in k..Len(ds.captures) : ~header_before(ds, j, n)
<1> SUFFICES ASSUME NEW j \in k..Len(ds.captures)
             PROVE  ~header_before(ds, j, n)
  OBVIOUS
<1>1. j \in 1..Len(ds.captures)
  BY CaptureType
<1>2. \A l, m \in 1..Len(ds.captures) :
         l < m => ds.captures[l].sample_start <= ds.captures[m].sample_start
  BY DEF TypeOK, DatasetShape
<1>3. j = k \/ k < j
  BY CaptureType
<1>4. ds.captures[k].sample_start <= ds.captures[j].sample_start
  BY <1>1, <1>2, <1>3, CaptureType
<1> QED
  BY <1>1, <1>4, CaptureType DEF header_before

(* The address has a value, moves by a header's bytes with the headers,    *)
(* and by a frame's bytes with the samples.                                *)
LEMMA AddressSteps ==
    ASSUME TypeOK, NEW n \in Int, NEW k \in 0..Len(ds.captures)
    PROVE  /\ Address(n, k) \in Int
           /\ k < Len(ds.captures) =>
                 Address(n, k + 1) = Address(n, k) + ds.captures[k + 1].header_bytes
           /\ Address(n + 1, k) = Address(n, k) + frame_bytes(ds)
<1>1. PICK w \in Int, b \in Int, c \in Int, m \in Int, next \in Int :
         /\ w = ds.num_channels /\ b = ds.bytes_per_sample /\ c = channel - 1
         /\ m = n - ds.offset /\ next = (n + 1) - ds.offset
  <2>1. /\ ds.num_channels \in Int /\ ds.bytes_per_sample \in Int /\ channel - 1 \in Int
        /\ n - ds.offset \in Int /\ (n + 1) - ds.offset \in Int
    BY CaptureType DEF TypeOK
  <2> QED
    BY <2>1, Zenon
<1>2. \A l : Address(n, l) = (m * w + c) * b + ds.sums[l]
  BY <1>1, Zenon DEF Address
<1>3. \A l : Address(n + 1, l) = (next * w + c) * b + ds.sums[l]
  BY <1>1, Zenon DEF Address
<1>4. next = m + 1
  BY <1>1, CaptureType
<1>5. (next * w + c) * b = (m * w + c) * b + b * w
  BY <1>4, NextFrame
<1>6. m * w + c \in Int /\ b * w \in Int
  OBVIOUS
<1>7. PICK x \in Int : x = (m * w + c) * b
  BY <1>6
<1>8. PICK f \in Int : f = b * w
  BY <1>6
<1>9. ds.sums[k] \in Int
  BY CaptureType
<1>10. ASSUME k < Len(ds.captures)
       PROVE  /\ ds.sums[k + 1] = ds.sums[k] + ds.captures[k + 1].header_bytes
              /\ ds.captures[k + 1].header_bytes \in Int
  <2>1. k + 1 \in 1..Len(ds.captures) /\ (k + 1) - 1 = k
    BY <1>10, CaptureType
  <2>2. \A j \in 1..Len(ds.captures) :
           ds.sums[j] = ds.sums[j - 1] + ds.captures[j].header_bytes
    BY DEF TypeOK, DatasetShape
  <2>3. ds.sums[k + 1] = ds.sums[(k + 1) - 1] + ds.captures[k + 1].header_bytes
    BY <2>1, <2>2
  <2> QED
    BY <2>1, <2>3, CaptureType
<1>11. Address(n, k) = x + ds.sums[k] /\ Address(n, k + 1) = x + ds.sums[k + 1]
  BY <1>2, <1>7, Zenon
<1>12. Address(n + 1, k) = (x + f) + ds.sums[k] /\ frame_bytes(ds) = f
  BY <1>1, <1>3, <1>5, <1>7, <1>8, Zenon DEF frame_bytes
<1>13. Address(n, k) \in Int
  BY <1>9, <1>11
<1>14. Address(n + 1, k) = Address(n, k) + frame_bytes(ds)
  BY <1>9, <1>11, <1>12
<1>15. ASSUME k < Len(ds.captures)
       PROVE  Address(n, k + 1) = Address(n, k) + ds.captures[k + 1].header_bytes
  BY <1>9, <1>10, <1>11, <1>15
<1> QED
  BY <1>13, <1>14, <1>15
-----------------------------------------------------------------------------
LEMMA InitIInv == Init => IInv
BY DatasetAssumption, EmptySeq DEF Init, IInv, TypeOK, Running, DatasetShape

LEMMA CallIInv ==
    ASSUME IInv, NEW c \in Int, NEW start \in Int, NEW count \in Int, Call(c, start, count)
    PROVE  IInv'
<1> DEFINE want == effective_count(ds, c, start, count)
           ptr  == ((start - ds.offset) * ds.num_channels + (c - 1)) * ds.bytes_per_sample
<1>1. channel_size(ds, c) \in Int /\ non_sample_bytes(ds) \in Nat
  BY SizeType DEF IInv, TypeOK
<1>2. want \in Int
  BY <1>1 DEF effective_count
<1>3. CASE request_refused(ds, c, start, count)
  BY <1>3 DEF Call, IInv, TypeOK, Running
<1>4. CASE ~request_refused(ds, c, start, count)
  <2>1. /\ ds' = ds /\ pc' = "headers" /\ channel' = c /\ sample_start' = start
        /\ sample_count' = want /\ byte_ptr' = ptr
        /\ capture_idx' = 0 /\ i' = 0 /\ out' = <<>>
    BY <1>4 DEF Call, IInv
  <2>2. /\ c \in 1..ds.num_channels /\ non_sample_bytes(ds) <= ds.disk_size_bytes
        /\ start >= 0 /\ start < channel_size(ds, c)
        /\ want <= channel_size(ds, c) - start
    <3>1. ds.num_channels \in Nat /\ ds.disk_size_bytes \in Nat
      BY DEF IInv, TypeOK, DatasetShape
    <3> HIDE DEF want
    <3>2. /\ ~(c < 1) /\ ~(c > ds.num_channels)
          /\ ~(non_sample_bytes(ds) > ds.disk_size_bytes)
          /\ ~(start < 0) /\ ~(start >= channel_size(ds, c))
          /\ ~(want > channel_size(ds, c) - start)
      BY <1>4 DEF request_refused, want
    <3> QED
      BY <1>1, <1>2, <3>1, <3>2
  <2>3. want >= 0
    BY <1>1, <2>2 DEF effective_count
  <2>4. Accepted'
    BY <1>1, <1>2, <2>1, <2>2 DEF Accepted
  <2>5. ptr \in Int
    <3>1. (start - ds.offset) * ds.num_channels + (c - 1) \in Int /\ ds.bytes_per_sample \in Int
      BY CaptureType DEF IInv
    <3> QED
      BY <3>1
  <2>6. ds.sums[0] = 0 /\ start + 0 = start
    BY DEF IInv, TypeOK, DatasetShape
  <2>7. PointerInv'
    <3>1. byte_ptr' = Address(sample_start + i, capture_idx)'
      BY <2>1, <2>5, <2>6 DEF Address
    <3> QED
      BY <2>1, <3>1 DEF PointerInv
  <2>8. TypeOK'
    <3>1. 0 \in 0..Len(ds.captures)
      BY CaptureType DEF IInv
    <3>2. <<>> \in Seq(Int) /\ Len(<<>>) = 0
      BY EmptySeq
    <3> QED
      BY <1>2, <2>1, <2>3, <2>5, <3>1, <3>2 DEF IInv, TypeOK
  <2> QED
    BY <2>1, <2>4, <2>7, <2>8 DEF IInv
<1> QED
  BY <1>3, <1>4

(* Either loop over the captures keeps the pointer at the address its      *)
(* skipped headers give, and leaves when no further header lies before.    *)
LEMMA SkipIInv ==
    ASSUME IInv, Running, pc # "read", NEW after \in {"cross", "read"},
           after = "read" => i < sample_count,
           SkipHeader(sample_start + i, after)
    PROVE  IInv'
<1> DEFINE n == sample_start + i
           next == capture_idx + 1
<1>1. /\ TypeOK /\ Accepted /\ PointerInv /\ n \in Int
      /\ capture_idx \in 0..Len(ds.captures) /\ Len(ds.captures) \in Nat
  BY CaptureType DEF IInv, TypeOK
<1>2. UNCHANGED <<ds, channel, sample_start, sample_count, i, out>>
  BY DEF SkipHeader, request
<1>3. CASE capture_idx < Len(ds.captures) /\ header_before(ds, next, n)
  <2>1. /\ byte_ptr' = byte_ptr + ds.captures[next].header_bytes
        /\ capture_idx' = next /\ pc' = pc
    BY <1>3 DEF SkipHeader
  <2>2. next \in 1..Len(ds.captures)
    BY <1>1, <1>3
  <2>3. byte_ptr' = Address(n, next) /\ byte_ptr' \in Int
    <3>1. Address(n, next) = Address(n, capture_idx) + ds.captures[next].header_bytes
      BY <1>1, <1>3, AddressSteps
    <3>2. Address(n, next) \in Int
      BY <1>1, <2>2, AddressSteps
    <3> QED
      BY <1>1, <2>1, <3>1, <3>2 DEF PointerInv
  <2>4. \A j \in 1..next : header_before(ds, j, n)
    <3>1. \A j \in 1..next : j \in 1..capture_idx \/ j = next
      BY <1>1
    <3> QED
      BY <1>1, <1>3, <3>1 DEF PointerInv
  <2>5. PointerInv'
    <3>1. byte_ptr' = Address(sample_start + i, capture_idx)'
      BY <1>2, <2>1, <2>3 DEF Address
    <3>2. (\A j \in 1..capture_idx : header_before(ds, j, sample_start + i))'
      BY <1>2, <2>1, <2>4
    <3>3. (pc = "headers" => i = 0)' /\ pc' # "read"
      BY <1>1, <1>2, <2>1 DEF PointerInv
    <3> QED
      BY <3>1, <3>2, <3>3 DEF PointerInv
  <2>6. TypeOK'
    BY <1>1, <1>2, <2>1, <2>2, <2>3 DEF TypeOK
  <2>7. Accepted' /\ pc' # "idle"
    BY <1>1, <1>2, <2>1 DEF Accepted, Running
  <2> QED
    BY <2>5, <2>6, <2>7 DEF IInv
<1>4. CASE ~(capture_idx < Len(ds.captures) /\ header_before(ds, next, n))
  <2>1. byte_ptr' = byte_ptr /\ capture_idx' = capture_idx /\ pc' = after
    BY <1>4 DEF SkipHeader
  <2>2. \A j \in next..Len(ds.captures) : ~header_before(ds, j, n)
    <3>1. CASE capture_idx < Len(ds.captures)
      <4>1. next \in 1..Len(ds.captures)
        BY <1>1, <3>1
      <4>2. ~header_before(ds, next, n)
        BY <1>4, <3>1
      <4> HIDE DEF next, n
      <4> QED
        BY <1>1, <4>1, <4>2, HeadersAfter
    <3>2. CASE ~(capture_idx < Len(ds.captures))
      <4>1. next..Len(ds.captures) = {}
        BY <1>1, <3>2
      <4> QED
        BY <4>1
    <3> QED
      BY <3>1, <3>2
  <2>3. PointerInv'
    <3>1. byte_ptr' = Address(sample_start + i, capture_idx)'
      BY <1>1, <1>2, <2>1 DEF PointerInv, Address
    <3>2. (\A j \in 1..capture_idx : header_before(ds, j, sample_start + i))'
      BY <1>1, <1>2, <2>1 DEF PointerInv
    <3>3. (\A j \in (capture_idx + 1)..Len(ds.captures) : ~header_before(ds, j, sample_start + i))'
      BY <1>2, <2>1, <2>2
    <3>4. pc' # "headers" /\ (pc' = "read" => i' < sample_count')
      BY <1>2, <2>1
    <3> QED
      BY <3>1, <3>2, <3>3, <3>4 DEF PointerInv
  <2>4. TypeOK'
    BY <1>1, <1>2, <2>1 DEF TypeOK, Running
  <2>5. Accepted' /\ pc' # "idle"
    BY <1>1, <1>2, <2>1 DEF Accepted
  <2> QED
    BY <2>3, <2>4, <2>5 DEF IInv
<1> QED
  BY <1>3, <1>4

LEMMA ReadIInv ==
    ASSUME IInv, ReadSample
    PROVE  IInv'
<1> DEFINE n == sample_start + i
<1>1. /\ TypeOK /\ Accepted /\ PointerInv /\ n \in Int /\ pc = "read" /\ i < sample_count
      /\ capture_idx \in 0..Len(ds.captures) /\ Len(ds.captures) \in Nat
  BY CaptureType DEF IInv, TypeOK, ReadSample, Running, PointerInv
<1>2. UNCHANGED <<ds, channel, sample_start, sample_count, capture_idx>>
  BY DEF ReadSample, request
<1>3. CASE in_bounds(ds, byte_ptr)
  <2>1. out' = Append(out, byte_ptr) /\ byte_ptr' = byte_ptr + frame_bytes(ds)
        /\ i' = i + 1 /\ pc' = "cross"
    BY <1>3 DEF ReadSample
  <2>2. sample_start + (i + 1) = n + 1 /\ i + 1 <= sample_count /\ i + 1 \in Nat
    BY <1>1 DEF TypeOK
  <2>3. byte_ptr' = Address(n + 1, capture_idx) /\ byte_ptr' \in Int
    <3>1. n + 1 \in Int
      BY <1>1
    <3>2. byte_ptr = Address(n, capture_idx)
      BY <1>1 DEF PointerInv
    <3> HIDE DEF n
    <3>3. Address(n + 1, capture_idx) = Address(n, capture_idx) + frame_bytes(ds)
      BY <1>1, AddressSteps
    <3>4. Address(n + 1, capture_idx) \in Int
      BY <1>1, <3>1, AddressSteps
    <3> QED
      BY <2>1, <3>2, <3>3, <3>4 DEF n
  <2>4. \A j \in 1..capture_idx : header_before(ds, j, n + 1)
    <3>1. \A j \in 1..capture_idx :
             ds.captures[j].sample_start - ds.offset <= n /\ ds.captures[j].sample_start \in Int
      <4>1. \A j \in 1..capture_idx : header_before(ds, j, n)
        BY <1>1 DEF PointerInv
      <4>2. \A j \in 1..capture_idx : j \in 1..Len(ds.captures)
        BY <1>1
      <4> QED
        BY <1>1, <4>1, <4>2, CaptureType DEF header_before
    <3>2. n \in Int /\ ds.offset \in Nat
      BY <1>1, CaptureType
    <3> HIDE DEF n
    <3>3. \A j \in 1..capture_idx : ds.captures[j].sample_start - ds.offset <= n + 1
      BY <3>1, <3>2
    <3> QED
      BY <3>3 DEF header_before
  <2>5. PointerInv'
    <3>1. byte_ptr' = Address(sample_start + i, capture_idx)'
      BY <1>2, <2>1, <2>2, <2>3 DEF Address
    <3>2. (\A j \in 1..capture_idx : header_before(ds, j, sample_start + i))'
      BY <1>2, <2>1, <2>2, <2>4
    <3> QED
      BY <2>1, <3>1, <3>2 DEF PointerInv
  <2>6. out' \in Seq(Int) /\ Len(out') = i'
    BY <1>1, <2>1, AppendProperties DEF TypeOK
  <2>7. TypeOK'
    BY <1>1, <1>2, <2>1, <2>2, <2>3, <2>6 DEF TypeOK
  <2>8. Accepted' /\ pc' # "idle"
    BY <1>1, <1>2, <2>1 DEF Accepted
  <2> QED
    BY <2>5, <2>7, <2>8 DEF IInv
<1>4. CASE ~in_bounds(ds, byte_ptr)
  BY <1>1, <1>2, <1>4 DEF ReadSample, IInv, TypeOK, Running
<1> QED
  BY <1>3, <1>4

LEMMA ReturnIInv ==
    ASSUME IInv, Return
    PROVE  IInv'
BY DEF IInv, Return, TypeOK, Running, request

LEMMA NextIInv ==
    ASSUME IInv, [Next]_vars
    PROVE  IInv'
<1>1. CASE \E c \in Channels, start \in Positions, count \in Counts : Call(c, start, count)
  BY <1>1, CallIInv, DatasetAssumption
<1>2. CASE AccumulateHeaders
  <2>1. i = 0 /\ sample_start + i = sample_start
    BY <1>2 DEF AccumulateHeaders, IInv, Running, PointerInv, TypeOK
  <2> QED
    BY <1>2, <2>1, SkipIInv DEF AccumulateHeaders, Running
<1>3. CASE CrossBoundary
  BY <1>3, SkipIInv DEF CrossBoundary, Running
<1>4. CASE ReadSample
  BY <1>4, ReadIInv
<1>5. CASE Return
  BY <1>5, ReturnIInv
<1>6. CASE UNCHANGED vars
  BY <1>6 DEF vars, request, IInv, TypeOK, Running, Accepted, PointerInv, Address
<1> QED
  BY <1>1, <1>2, <1>3, <1>4, <1>5, <1>6 DEF Next, Step
-----------------------------------------------------------------------------
(* The invariant holds in every state of every call, of any dataset.       *)
THEOREM Invariance == Spec => []IInv
<1>1. Init => IInv
  BY InitIInv
<1>2. IInv /\ [Next]_vars => IInv'
  BY NextIInv
<1> QED
  BY <1>1, <1>2, PTL DEF Spec

(* get_samples keeps its counters in range and reads one value a round.    *)
THEOREM TypeCorrect == Spec => []TypeOK
BY Invariance, PTL DEF IInv

(* load_samples always reads at the address of the sample its loop is at,  *)
(* with just the headers before that sample skipped.                       *)
THEOREM PointerAlwaysAtSample == Spec => []PointerAtSample
<1>1. IInv => PointerAtSample
  BY DEF IInv, TypeOK, Running, PointerInv, PointerAtSample, HeadersBefore
<1> QED
  BY <1>1, Invariance, PTL
-----------------------------------------------------------------------------
LEMMA ReadInBounds ==
    ASSUME IInv, pc = "read", ds.offset = 0
    PROVE  in_bounds(ds, byte_ptr)
<1>1. TypeOK /\ Accepted /\ PointerInv /\ i < sample_count
  BY DEF IInv, Running, PointerInv
<1>2. PICK n \in Nat : n = sample_start + i /\ n < channel_size(ds, channel)
  <2>1. sample_start + i \in Nat
    BY <1>1 DEF Accepted, TypeOK
  <2>2. channel_size(ds, channel) \in Int
    BY <1>1, SizeType DEF TypeOK
  <2> QED
    BY <1>1, <2>1, <2>2 DEF Accepted, TypeOK
<1>3. PICK w \in Nat \ {0}, b \in Nat \ {0}, c \in Nat \ {0}, head \in Nat, other \in Nat, disk \in Nat :
         /\ w = ds.num_channels /\ b = ds.bytes_per_sample /\ c = channel
         /\ head = ds.sums[capture_idx] /\ other = non_sample_bytes(ds)
         /\ disk = ds.disk_size_bytes
  <2>1. /\ ds.num_channels \in Nat \ {0} /\ ds.bytes_per_sample \in Nat \ {0}
        /\ channel \in Nat \ {0} /\ non_sample_bytes(ds) \in Nat
        /\ ds.disk_size_bytes \in Nat /\ ds.sums[capture_idx] \in Nat
    <3>1. DatasetShape(ds) /\ channel \in Int /\ capture_idx \in 0..Len(ds.captures)
      BY <1>1 DEF TypeOK
    <3>2. non_sample_bytes(ds) \in Nat
      BY <3>1, SizeType
    <3>3. ds.sums[capture_idx] \in Nat /\ ds.num_channels \in Nat \ {0}
      BY <1>1, <3>1, CaptureType
    <3>4. channel \in Nat \ {0}
      BY <1>1, <3>3 DEF Accepted
    <3> QED
      BY <3>1, <3>2, <3>3, <3>4 DEF DatasetShape
  <2> QED
    BY <2>1
<1>4. head <= other
  <2>1. ds.sums[capture_idx] <= ds.sums[Len(ds.captures)]
    <3>1. \A j, k \in 0..Len(ds.captures) : j <= k => ds.sums[j] <= ds.sums[k]
      BY <1>1 DEF TypeOK, DatasetShape
    <3>2. /\ capture_idx \in 0..Len(ds.captures) /\ Len(ds.captures) \in 0..Len(ds.captures)
          /\ capture_idx <= Len(ds.captures)
      BY <1>1, CaptureType DEF TypeOK
    <3> QED
      BY <3>1, <3>2
  <2>2. ds.sums[Len(ds.captures)] \in Nat /\ ds.trailing_bytes \in Nat
    BY <1>1, CaptureType DEF TypeOK, DatasetShape
  <2> QED
    BY <1>3, <2>1, <2>2 DEF non_sample_bytes
<1>5. PICK first \in Nat : first = n * w + (c - 1)
  <2>1. n * w \in Nat
    BY <1>3
  <2>2. n * w + (c - 1) \in Nat
    BY <1>3, <2>1
  <2> QED
    BY <2>2
<1>6. byte_ptr = first * b + head
  <2>1. byte_ptr = ((n - ds.offset) * w + (c - 1)) * b + head
    BY <1>1, <1>2, <1>3, Zenon DEF PointerInv, Address
  <2>2. n - ds.offset = n
    BY <1>2
  <2> QED
    BY <1>5, <2>1, <2>2, Zenon
<1>7. (first + 1) * b + other <= disk
  <2>1. n * w + c <= total_samples(ds)
    BY <1>1, <1>2, <1>3, SampleCounted DEF Accepted, TypeOK
  <2>2. first + 1 = n * w + c
    <3>1. n * w \in Int
      BY <1>2, <1>3
    <3> QED
      BY <1>3, <1>5, <3>1
  <2> QED
    BY <1>1, <1>3, <2>1, <2>2, SamplesFit DEF TypeOK
<1>8. PICK at \in Nat : at = first * b /\ (first + 1) * b = at + b
  <2>1. first * b \in Nat /\ (first + 1) * b = first * b + b
    OBVIOUS
  <2> QED
    BY <2>1
<1>9. byte_ptr >= 0 /\ byte_ptr + b <= disk
  BY <1>4, <1>6, <1>7, <1>8
<1> QED
  BY <1>3, <1>9 DEF in_bounds

(* The guards of get_samples and the arithmetic of size() are enough: with *)
(* no offset, load_samples never trips its bounds check half way, whatever *)
(* the headers, the trailing bytes and the last frame.                     *)
THEOREM NeverThrowsAfterGuards == Spec => NoThrowAfterGuards
<1>1. ASSUME IInv, Next, ds.offset = 0, pc \in {"headers", "cross", "read"}
      PROVE  pc' # "threw"
  <2>1. ASSUME NEW c, NEW start, NEW count, Call(c, start, count)
        PROVE  FALSE
    BY <1>1, <2>1 DEF Call
  <2>2. CASE AccumulateHeaders \/ CrossBoundary
    BY <2>2 DEF AccumulateHeaders, CrossBoundary, SkipHeader
  <2>3. CASE ReadSample
    <3>1. in_bounds(ds, byte_ptr)
      BY <1>1, <2>3, ReadInBounds DEF ReadSample
    <3> QED
      BY <2>3, <3>1 DEF ReadSample
  <2>4. CASE Return
    BY <2>4 DEF Return
  <2> QED
    BY <1>1, <2>1, <2>2, <2>3, <2>4 DEF Next, Step
<1>2. IInv /\ [Next]_vars
         => [ds.offset = 0 /\ pc \in {"headers", "cross", "read"} => pc' # "threw"]_vars
  BY <1>1
<1> QED
  BY <1>2, Invariance, PTL DEF Spec, NoThrowAfterGuards
-----------------------------------------------------------------------------
(* DatasetRead implements ReadSamples, and what it returns are the samples *)
(* asked for.  Both modules extend DatasetLayout.                          *)
LEMMA SameOperators ==
    /\ \A d : Atomic!total_samples(d) = total_samples(d)
    /\ \A d, k, n : Atomic!header_before(d, k, n) <=> header_before(d, k, n)
    /\ \A d, p : Atomic!in_bounds(d, p) <=> in_bounds(d, p)
BY Zenon DEF Atomic!total_samples, Atomic!non_sample_bytes, Atomic!header_before, Atomic!in_bounds,
       total_samples, non_sample_bytes, header_before, in_bounds
-----------------------------------------------------------------------------
(* The guards are the abstract ones.                                       *)

(* size() counts the samples of channel c that fit in the file: n is among *)
(* them if and only if its number in the file is.                          *)
LEMMA CountedSample ==
    ASSUME NEW d, DatasetShape(d), NEW c \in 1..d.num_channels, NEW n \in Nat,
           n * d.num_channels + c <= total_samples(d)
    PROVE  n < channel_size(d, c) /\ n <= total_samples(d)
<1>1. PICK w \in Nat \ {0}, total \in Int :
         w = d.num_channels /\ total = total_samples(d)
  <2>1. d.num_channels \in Nat \ {0}
    BY DEF DatasetShape
  <2>2. total_samples(d) \in Int
    BY 0 \in Int, SizeType
  <2> QED
    BY <2>1, <2>2
<1>2. PICK q \in Int, r \in 0..(w - 1) :
         q = total \div w /\ r = total % w /\ r = total - w * q
  BY Division
<1>3. PICK nw \in Int, qw \in Int : nw = n * w /\ qw = q * w /\ qw = w * q
  <2>1. n * w \in Int /\ q * w \in Int /\ q * w = w * q
    OBVIOUS
  <2> QED
    BY <2>1
<1>4. c \in 1..w /\ nw + c <= total /\ total = qw + r
  BY <1>1, <1>2, <1>3
<1>5. n <= q
  <2> SUFFICES ASSUME q + 1 <= n PROVE FALSE
    BY <1>2
  <2>1. (q + 1) * w <= n * w
    BY <1>2, ProductMonotone
  <2>2. (q + 1) * w = qw + w
    BY <1>3
  <2> QED
    BY <1>2, <1>3, <1>4, <2>1, <2>2
<1>6. n < q \/ c <= r
  <2>1. CASE n = q
    BY <1>3, <1>4, <2>1
  <2> QED
    BY <1>5, <2>1
<1>7. n < q + IF c <= r THEN 1 ELSE 0
  BY <1>5, <1>6
<1>8. n <= nw
  <2>1. 1 * n <= w * n
    BY ProductMonotone
  <2> QED
    BY <1>3, <2>1
<1>9. n <= total
  BY <1>3, <1>4, <1>8
<1> QED
  BY <1>1, <1>2, <1>7, <1>9 DEF channel_size

LEMMA PresentCounted ==
    ASSUME NEW d, DatasetShape(d), NEW c \in 1..d.num_channels, NEW n \in Int
    PROVE  n \in Atomic!Present(d, c)
             <=> /\ non_sample_bytes(d) <= d.disk_size_bytes
                 /\ 0 <= n /\ n < channel_size(d, c)
<1>1. /\ total_samples(d) \in Int /\ channel_size(d, c) \in Int /\ non_sample_bytes(d) \in Nat
      /\ d.num_channels \in Nat \ {0} /\ d.bytes_per_sample \in Nat \ {0} /\ d.disk_size_bytes \in Nat
  BY SizeType DEF DatasetShape
<1>2. n \in Atomic!Present(d, c)
        <=> n \in 0..total_samples(d) /\ n * d.num_channels + c <= total_samples(d)
  BY SameOperators, Zenon DEF Atomic!Present
<1>3. ASSUME n \in Nat, n * d.num_channels + c <= total_samples(d)
      PROVE  non_sample_bytes(d) <= d.disk_size_bytes
  <2>1. total_samples(d) \in Nat
    <3>1. n * d.num_channels \in Nat
      BY <1>1, <1>3
    <3> QED
      BY <1>1, <1>3, <3>1
  <2>2. total_samples(d) * d.bytes_per_sample + non_sample_bytes(d) <= d.disk_size_bytes
    BY <1>1, SamplesFit
  <2>3. total_samples(d) * d.bytes_per_sample \in Nat
    BY <1>1, <2>1
  <2> QED
    BY <1>1, <2>2, <2>3
<1>4. ASSUME n \in Atomic!Present(d, c)
      PROVE  /\ non_sample_bytes(d) <= d.disk_size_bytes
             /\ 0 <= n /\ n < channel_size(d, c)
  <2>1. n \in Nat /\ n * d.num_channels + c <= total_samples(d)
    BY <1>1, <1>2, <1>4
  <2> QED
    BY <1>3, <2>1, CountedSample
<1>5. ASSUME non_sample_bytes(d) <= d.disk_size_bytes, 0 <= n, n < channel_size(d, c)
      PROVE  n \in Atomic!Present(d, c)
  <2>1. n \in Nat /\ n * d.num_channels + c <= total_samples(d)
    BY <1>5, SampleCounted
  <2>2. n <= total_samples(d)
    BY <2>1, CountedSample
  <2> QED
    BY <1>1, <1>2, <2>1, <2>2
<1> QED
  BY <1>4, <1>5

LEMMA GuardsAdmit ==
    ASSUME NEW d, DatasetShape(d), NEW c \in Int, NEW start \in Int, NEW count \in Int
    PROVE  /\ ~request_refused(d, c, start, count) <=> Atomic!Admissible(d, c, start, count)
           /\ ~request_refused(d, c, start, count) =>
                 Atomic!Wanted(d, c, start, count)
                 = start..(start + effective_count(d, c, start, count) - 1)
<1>1. /\ channel_size(d, c) \in Int /\ non_sample_bytes(d) \in Nat
      /\ d.num_channels \in Nat \ {0} /\ d.disk_size_bytes \in Nat
  BY SizeType DEF DatasetShape
<1>2. CASE c \notin 1..d.num_channels
  BY <1>1, <1>2 DEF request_refused, Atomic!Admissible
<1>3. CASE c \in 1..d.num_channels
  <2> DEFINE size == channel_size(d, c)
             fits == non_sample_bytes(d) <= d.disk_size_bytes
  <2>1. \A n \in Int : n \in Atomic!Present(d, c) <=> fits /\ 0 <= n /\ n < size
    BY <1>3, PresentCounted
  <2>2. \A n \in Atomic!Present(d, c) : n \in Int
    BY SizeType DEF Atomic!Present, Atomic!total_samples, total_samples, Atomic!non_sample_bytes, non_sample_bytes
  <2>3. start + count - 1 \in Int
    OBVIOUS
  <2>4. ~request_refused(d, c, start, count)
          <=> /\ fits /\ 0 <= start /\ start < size
              /\ (IF count < 0 THEN size - start ELSE count) <= size - start
    BY <1>1, <1>3 DEF request_refused, effective_count
  <2>5. Atomic!Admissible(d, c, start, count)
          <=> /\ start \in Atomic!Present(d, c)
              /\ count > 0 => start + count - 1 \in Atomic!Present(d, c)
    BY <1>3 DEF Atomic!Admissible
  <2>6. size \in Int
    BY <1>1
  <2>7. Atomic!Wanted(d, c, start, count)
          = IF count < 0 THEN { n \in Atomic!Present(d, c) : n >= start } ELSE start..(start + count - 1)
    BY DEF Atomic!Wanted
  <2>8. effective_count(d, c, start, count) = IF count < 0 THEN size - start ELSE count
    BY DEF effective_count
  <2> HIDE DEF size, fits
  <2>9. ~request_refused(d, c, start, count) <=> Atomic!Admissible(d, c, start, count)
    BY <2>1, <2>3, <2>4, <2>5, <2>6
  <2>10. ASSUME ~request_refused(d, c, start, count), count < 0
         PROVE  { n \in Atomic!Present(d, c) : n >= start } = start..(start + (size - start) - 1)
    <3>1. fits /\ 0 <= start
      BY <2>4, <2>10
    <3>2. \A n : n \in { m \in Atomic!Present(d, c) : m >= start }
                 <=> n \in Int /\ n >= start /\ n < size
      BY <2>1, <2>2, <3>1
    <3>3. \A n : n \in start..(start + (size - start) - 1)
                 <=> n \in Int /\ n >= start /\ n < size
      BY <2>6
    <3> QED
      BY <3>2, <3>3
  <2> QED
    BY <2>7, <2>8, <2>9, <2>10
<1> QED
  BY <1>2, <1>3
-----------------------------------------------------------------------------
(* The location of a sample is the address at which the loop reads it.     *)
LEMMA LocationIsAddress ==
    ASSUME TypeOK, NEW n \in Int, NEW k, HeadersBefore(n, k)
    PROVE  Atomic!Location(ds, channel, n) = Address(n, k)
<1> DEFINE Split(m) == /\ \A j \in 1..m : Atomic!header_before(ds, j, n)
                       /\ \A j \in (m + 1)..Len(ds.captures) : ~Atomic!header_before(ds, j, n)
<1>1. k \in 0..Len(ds.captures) /\ Split(k) /\ Len(ds.captures) \in Nat
  BY SameOperators, CaptureType DEF HeadersBefore
<1>2. ASSUME NEW m \in 0..Len(ds.captures), Split(m)
      PROVE  m = k
  <2>1. ~(m < k)
    <3> SUFFICES ASSUME m < k PROVE FALSE
      OBVIOUS
    <3>1. m + 1 \in 1..k /\ m + 1 \in (m + 1)..Len(ds.captures)
      BY <1>1
    <3> QED
      BY <1>1, <1>2, <3>1
  <2>2. ~(k < m)
    <3> SUFFICES ASSUME k < m PROVE FALSE
      OBVIOUS
    <3>1. k + 1 \in 1..m /\ k + 1 \in (k + 1)..Len(ds.captures)
      BY <1>1, <1>2
    <3> QED
      BY <1>1, <1>2, <3>1
  <2> QED
    BY <1>1, <2>1, <2>2
<1>3. Atomic!HeadersBefore(ds, n) = CHOOSE m \in 0..Len(ds.captures) : Split(m)
  BY DEF Atomic!HeadersBefore
<1> HIDE DEF Split
<1>4. Atomic!HeadersBefore(ds, n) = k
  BY <1>1, <1>2, <1>3
<1> QED
  BY <1>4, Zenon DEF Atomic!Location, Address

(* What the loop has read so far are the locations of the first samples    *)
(* wanted, and at its end of all of them.                                  *)
OutInv ==
    /\ Running \/ pc = "returned" =>
         \A j \in 1..i : /\ out[j] = Atomic!Location(ds, channel, sample_start + (j - 1))
                         /\ in_bounds(ds, out[j])
    /\ pc = "returned" => i = sample_count /\ Accepted

LEMMA ReadOutInv ==
    ASSUME IInv, OutInv, ReadSample
    PROVE  OutInv'
<1>1. /\ TypeOK /\ pc = "read" /\ sample_start + i \in Int /\ i \in Nat
      /\ byte_ptr = Address(sample_start + i, capture_idx)
      /\ HeadersBefore(sample_start + i, capture_idx)
  BY DEF IInv, TypeOK, ReadSample, Running, PointerInv, HeadersBefore
<1>2. byte_ptr = Atomic!Location(ds, channel, sample_start + i)
  BY <1>1, LocationIsAddress
<1>3. CASE in_bounds(ds, byte_ptr)
  <2>1. /\ out' = Append(out, byte_ptr) /\ i' = i + 1 /\ pc' = "cross"
        /\ ds' = ds /\ channel' = channel /\ sample_start' = sample_start
    BY <1>3 DEF ReadSample, request
  <2>2. out \in Seq(Int) /\ Len(out) = i /\ byte_ptr \in Int
    BY <1>1 DEF TypeOK
  <2>3. out'[i + 1] = byte_ptr /\ \A j \in 1..i : out'[j] = out[j]
    BY <2>1, <2>2
  <2>4. ASSUME NEW j \in 1..(i + 1)
        PROVE  /\ out'[j] = Atomic!Location(ds, channel, sample_start + (j - 1))
               /\ in_bounds(ds, out'[j])
    <3>1. CASE j = i + 1
      <4>1. j - 1 = i
        BY <1>1, <3>1
      <4> QED
        BY <1>2, <1>3, <2>3, <3>1, <4>1
    <3>2. CASE j # i + 1
      <4>1. j \in 1..i
        BY <1>1, <3>2
      <4> QED
        BY <1>1, <2>3, <4>1 DEF OutInv, Running
    <3> QED
      BY <3>1, <3>2
  <2>5. \A j \in 1..i' : /\ out'[j] = Atomic!Location(ds', channel', sample_start' + (j - 1))
                         /\ in_bounds(ds', out'[j])
    BY <2>1, <2>4
  <2> QED
    BY <2>1, <2>5 DEF OutInv
<1>4. CASE ~in_bounds(ds, byte_ptr)
  BY <1>4 DEF ReadSample, OutInv, Running
<1> QED
  BY <1>3, <1>4

LEMMA NextOutInv ==
    ASSUME IInv, OutInv, [Next]_vars
    PROVE  OutInv'
<1>1. CASE \E c \in Channels, start \in Positions, count \in Counts : Call(c, start, count)
  <2>1. pc' \in {"headers", "threw"} /\ i' = 0
    BY <1>1 DEF Call, IInv
  <2> QED
    BY <2>1 DEF OutInv
<1>2. CASE AccumulateHeaders \/ CrossBoundary
  <2>1. Running /\ pc' # "returned" /\ UNCHANGED <<ds, channel, sample_start, i, out>>
    BY <1>2 DEF AccumulateHeaders, CrossBoundary, SkipHeader, request, Running
  <2> QED
    BY <2>1 DEF OutInv
<1>3. CASE ReadSample
  BY <1>3, ReadOutInv
<1>4. CASE Return
  <2>1. /\ Running /\ UNCHANGED <<ds, channel, sample_start, sample_count, i, out>>
        /\ i >= sample_count
    BY <1>4 DEF Return, request, Running
  <2>2. i <= sample_count /\ i \in Nat /\ sample_count \in Int /\ Accepted
    BY <1>4, <2>1 DEF IInv, TypeOK, Return
  <2>3. i = sample_count
    BY <2>1, <2>2
  <2>4. Accepted'
    BY <2>1, <2>2 DEF Accepted
  <2> QED
    BY <2>1, <2>3, <2>4 DEF OutInv
<1>5. CASE UNCHANGED vars
  BY <1>5 DEF vars, request, OutInv, Running, Accepted
<1> QED
  BY <1>1, <1>2, <1>3, <1>4, <1>5 DEF Next, Step

LEMMA OutInvariance == Spec => [](IInv /\ OutInv)
<1>1. Init => IInv /\ OutInv
  BY InitIInv DEF Init, OutInv, Running
<1>2. IInv /\ OutInv /\ [Next]_vars => IInv' /\ OutInv'
  BY NextIInv, NextOutInv
<1> QED
  BY <1>1, <1>2, PTL DEF Spec
-----------------------------------------------------------------------------
(* Every step of the loop is a stutter or the one step of the atomic read. *)

LEMMA InitMaps == Init => Atomic!Init
BY DEF Init, Atomic!Init, mapped_state, mapped_wanted, mapped_got, Running

LEMMA CallMaps ==
    ASSUME IInv, NEW c \in Channels, NEW start \in Positions, NEW count \in Counts,
           Call(c, start, count)
    PROVE  Atomic!Next
<1>1. c \in Int /\ start \in Int /\ count \in Int /\ DatasetShape(ds)
  BY DatasetAssumption DEF IInv, TypeOK
<1>2. mapped_state = "ready" /\ mapped_wanted = {} /\ mapped_got = <<>>
  BY DEF Call, mapped_state, mapped_wanted, mapped_got, Running
<1>3. channel' = c /\ ds' = ds
  BY DEF Call
<1>4. CASE request_refused(ds, c, start, count)
  <2>1. ~Atomic!Admissible(ds, c, start, count)
    BY <1>1, <1>4, GuardsAdmit
  <2>2. pc' = "threw"
    BY <1>4 DEF Call
  <2>3. mapped_state' = "threw" /\ mapped_wanted' = {} /\ mapped_got' = <<>>
    BY <2>2 DEF mapped_state, mapped_wanted, mapped_got, Running
  <2>4. Atomic!Ask(c, start, count)
    BY <1>2, <1>3, <2>1, <2>3, Zenon DEF Atomic!Ask
  <2> QED
    BY <2>4, Zenon DEF Atomic!Next
<1>5. CASE ~request_refused(ds, c, start, count)
  <2>1. /\ Atomic!Admissible(ds, c, start, count)
        /\ Atomic!Wanted(ds, c, start, count)
           = start..(start + effective_count(ds, c, start, count) - 1)
    BY <1>1, <1>5, GuardsAdmit
  <2>2. /\ pc' = "headers" /\ sample_start' = start
        /\ sample_count' = effective_count(ds, c, start, count)
    BY <1>5 DEF Call
  <2>3. /\ mapped_state' = "running" /\ mapped_got' = <<>>
        /\ mapped_wanted' = start..(start + effective_count(ds, c, start, count) - 1)
    BY <2>2 DEF mapped_state, mapped_wanted, mapped_got, Running
  <2>4. Atomic!Ask(c, start, count)
    BY <1>2, <1>3, <2>1, <2>3, Zenon DEF Atomic!Ask
  <2> QED
    BY <2>4, Zenon DEF Atomic!Next
<1> QED
  BY <1>4, <1>5

(* The loop goes on. *)
LEMMA Stutter ==
    ASSUME Running, Running',
           UNCHANGED <<ds, channel, sample_start, sample_count>>
    PROVE  UNCHANGED Atomic!vars
<1>1. mapped_state = "running" /\ mapped_state' = "running" /\ mapped_got = <<>> /\ mapped_got' = <<>>
  BY DEF mapped_state, mapped_got, Running
<1>2. mapped_wanted' = mapped_wanted
  BY DEF mapped_wanted
<1> QED
  BY <1>1, <1>2, Zenon DEF Atomic!vars

LEMMA ReadMaps ==
    ASSUME IInv, OutInv, ReadSample
    PROVE  Atomic!Next \/ UNCHANGED Atomic!vars
<1> DEFINE n == sample_start + i
<1>1. /\ TypeOK /\ pc = "read" /\ n \in Int /\ i \in Nat /\ i < sample_count
      /\ sample_start \in Int /\ sample_count \in Int
      /\ byte_ptr = Address(n, capture_idx) /\ HeadersBefore(n, capture_idx)
  BY DEF IInv, TypeOK, ReadSample, Running, PointerInv, HeadersBefore
<1>2. UNCHANGED <<ds, channel, sample_start, sample_count>>
  BY DEF ReadSample, request
<1>3. CASE in_bounds(ds, byte_ptr)
  <2>1. Running /\ Running'
    BY <1>1, <1>3 DEF ReadSample, Running
  <2> QED
    BY <1>2, <2>1, Stutter
<1>4. CASE ~in_bounds(ds, byte_ptr)
  <2>1. pc' = "threw"
    BY <1>4 DEF ReadSample
  <2>2. byte_ptr = Atomic!Location(ds, channel, n)
    BY <1>1, LocationIsAddress
  <2>3. ~Atomic!in_bounds(ds, Atomic!Location(ds, channel, n))
    BY <1>4, <2>2, SameOperators
  <2>4. /\ mapped_state = "running" /\ mapped_got = <<>>
        /\ mapped_wanted = sample_start..(sample_start + sample_count - 1)
    BY <1>1 DEF mapped_state, mapped_got, mapped_wanted, Running
  <2>5. n \in mapped_wanted
    BY <1>1, <2>4
  <2>6. mapped_state' = "threw" /\ mapped_got' = <<>> /\ mapped_wanted' = {}
    BY <2>1 DEF mapped_state, mapped_got, mapped_wanted, Running
  <2>7. ~(\A m \in mapped_wanted : Atomic!in_bounds(ds, Atomic!Location(ds, channel, m)))
    BY <2>3, <2>5, Zenon
  <2>8. Atomic!Answer
    BY <1>2, <2>4, <2>6, <2>7, Zenon DEF Atomic!Answer
  <2> QED
    BY <2>8, Zenon DEF Atomic!Next
<1> QED
  BY <1>3, <1>4

LEMMA ReturnMaps ==
    ASSUME IInv, OutInv, Return
    PROVE  Atomic!Next
<1> DEFINE stop == sample_start + sample_count - 1
<1>1. /\ pc = "cross" /\ pc' = "returned" /\ i = sample_count
      /\ UNCHANGED <<ds, channel, sample_start, sample_count, out>>
  BY DEF IInv, TypeOK, Return, request
<1>2. Len(out) = sample_count /\ sample_start \in Int /\ sample_count \in Nat
  BY <1>1 DEF IInv, TypeOK
<1>3. mapped_state = "running" /\ mapped_got = <<>> /\ mapped_wanted = sample_start..stop
  BY <1>1 DEF mapped_state, mapped_got, mapped_wanted, Running
<1>4. /\ mapped_state' = "returned" /\ mapped_wanted' = mapped_wanted
      /\ mapped_got' = [n \in sample_start..stop |-> out[(n + 1) - sample_start]]
  BY <1>1, <1>2, <1>3 DEF mapped_state, mapped_got, mapped_wanted, Running
<1>5. ASSUME NEW n \in sample_start..stop
      PROVE  /\ out[(n + 1) - sample_start] = Atomic!Location(ds, channel, n)
             /\ Atomic!in_bounds(ds, Atomic!Location(ds, channel, n))
  <2>1. /\ (n + 1) - sample_start \in 1..i
        /\ sample_start + (((n + 1) - sample_start) - 1) = n
    BY <1>1, <1>2
  <2>2. \A j \in 1..i : /\ out[j] = Atomic!Location(ds, channel, sample_start + (j - 1))
                        /\ in_bounds(ds, out[j])
    BY <1>1 DEF OutInv, Running
  <2>3. /\ out[(n + 1) - sample_start]
           = Atomic!Location(ds, channel, sample_start + (((n + 1) - sample_start) - 1))
        /\ in_bounds(ds, out[(n + 1) - sample_start])
    BY <2>1, <2>2, Zenon
  <2>4. out[(n + 1) - sample_start] = Atomic!Location(ds, channel, n)
    BY <2>1, <2>3, Zenon
  <2> QED
    BY <2>3, <2>4, SameOperators, Zenon
<1> HIDE DEF stop
<1>6. mapped_got' = [n \in mapped_wanted |-> Atomic!Location(ds, channel, n)]
  BY <1>3, <1>4, <1>5
<1>7. \A n \in mapped_wanted : Atomic!in_bounds(ds, Atomic!Location(ds, channel, n))
  BY <1>3, <1>5
<1>8. Atomic!Answer
  BY <1>1, <1>3, <1>4, <1>6, <1>7, Zenon DEF Atomic!Answer
<1> QED
  BY <1>8, Zenon DEF Atomic!Next

LEMMA NextMaps ==
    ASSUME IInv, OutInv, [Next]_vars
    PROVE  [Atomic!Next]_(Atomic!vars)
<1>1. CASE \E c \in Channels, start \in Positions, count \in Counts : Call(c, start, count)
  BY <1>1, CallMaps
<1>2. CASE AccumulateHeaders \/ CrossBoundary
  <2>1. Running /\ Running' /\ UNCHANGED <<ds, channel, sample_start, sample_count>>
    BY <1>2 DEF AccumulateHeaders, CrossBoundary, SkipHeader, request, Running
  <2> QED
    BY <2>1, Stutter
<1>3. CASE ReadSample
  BY <1>3, ReadMaps
<1>4. CASE Return
  BY <1>4, ReturnMaps
<1>5. CASE UNCHANGED vars
  BY <1>5 DEF vars, request, Atomic!vars, mapped_state, mapped_wanted, mapped_got, Running
<1> QED
  BY <1>1, <1>2, <1>3, <1>4, <1>5 DEF Next, Step

(* The loops of load_samples, behind the guards of get_samples, implement  *)
(* the atomic read of all the samples asked for: the same requests are     *)
(* refused, the same ones fail, the others return the same places.         *)
THEOREM ImplementsReadSamples == Spec => Atomic!Spec
<1>1. Init => Atomic!Init
  BY InitMaps
<1>2. IInv /\ OutInv /\ [Next]_vars => [Atomic!Next]_(Atomic!vars)
  BY NextMaps
<1> QED
  BY <1>1, <1>2, OutInvariance, PTL DEF Spec, Atomic!Spec
-----------------------------------------------------------------------------
(* Whatever the captures, the channels and the torn last frame, a call     *)
(* that returns has read precisely the samples it was asked for, from any  *)
(* file laid out as FileAssumption says.                                   *)
THEOREM AlwaysReturnsRequestedSamples == Spec => []ReturnsRequestedSamples
<1>1. Spec => [](ds \in Datasets)
  <2>1. Init => ds \in Datasets
    BY DEF Init
  <2>2. ds \in Datasets /\ [Next]_vars => (ds \in Datasets)'
    BY DEF Next, Step, Call, AccumulateHeaders, CrossBoundary, SkipHeader, ReadSample, Return, vars
  <2> QED
    BY <2>1, <2>2, PTL DEF Spec
<1>2. ASSUME IInv, OutInv, ds \in Datasets, pc = "returned", ds.offset = 0
      PROVE  /\ Len(out) = sample_count
             /\ \A j \in 1..sample_count :
                   ds.disk[out[j] + 1] = <<"sample", sample_start + j - 1, channel>>
  <2>1. /\ Len(out) = sample_count /\ i = sample_count /\ Accepted /\ DatasetShape(ds)
        /\ sample_start \in Int /\ sample_count \in Nat
    BY <1>2 DEF IInv, TypeOK, OutInv
  <2>2. ASSUME NEW j \in 1..sample_count
        PROVE  ds.disk[out[j] + 1] = <<"sample", sample_start + j - 1, channel>>
    <3> DEFINE n == sample_start + (j - 1)
    <3>1. /\ n \in Int /\ 0 <= n /\ n < channel_size(ds, channel)
          /\ channel \in 1..ds.num_channels /\ non_sample_bytes(ds) <= ds.disk_size_bytes
          /\ n = sample_start + j - 1
      <4>1. channel_size(ds, channel) \in Int
        BY <1>2, SizeType DEF IInv, TypeOK
      <4> QED
        BY <2>1, <4>1 DEF Accepted
    <3>2. out[j] = Atomic!Location(ds, channel, n)
      BY <1>2, <2>1 DEF OutInv
    <3>3. n \in Atomic!Present(ds, channel)
      BY <2>1, <3>1, PresentCounted
    <3> HIDE DEF n
    <3>4. ds.disk[Atomic!Location(ds, channel, n) + 1] = <<"sample", n, channel>>
      BY <1>2, <3>1, <3>3, FileAssumption
    <3> QED
      BY <3>1, <3>2, <3>4
  <2> QED
    BY <2>1, <2>2
<1>3. IInv /\ OutInv /\ ds \in Datasets => ReturnsRequestedSamples
  BY <1>2 DEF ReturnsRequestedSamples
<1> QED
  BY <1>1, <1>3, OutInvariance, PTL
-----------------------------------------------------------------------------
(* The two loops are finite.  Every header that is not skipped yet costs a *)
(* step, every sample that is not read yet the way from "cross" to "read"  *)
(* and back.                                                               *)
Rank == CASE pc = "headers" -> 3 [] pc = "cross" -> 2 [] pc = "read" -> 1 [] OTHER -> 0

StepsLeft == Rank + (Len(ds.captures) - capture_idx) + 2 * (sample_count - i)

(* Every step of a call leaves fewer steps to make: no call, of any        *)
(* request to any dataset, makes more than its captures and twice its      *)
(* samples and three.  (That it makes them is the fairness of FairSpec.)   *)
THEOREM EveryStepOfReadCounts == Spec => [][Running => StepsLeft \in Nat /\ StepsLeft' < StepsLeft]_vars
<1>1. ASSUME IInv, [Next]_vars, ~(UNCHANGED vars), Running
      PROVE  StepsLeft \in Nat /\ StepsLeft' < StepsLeft
  <2> DEFINE captures == Len(ds.captures)
  <2>1. /\ captures \in Nat /\ capture_idx \in 0..captures
        /\ i \in Nat /\ sample_count \in Int /\ i <= sample_count
        /\ pc \in {"headers", "cross", "read"}
    BY <1>1, CaptureType DEF IInv, TypeOK, Running
  <2>2. /\ pc = "headers" => Rank = 3
        /\ pc = "cross" => Rank = 2
        /\ pc = "read" => Rank = 1
        /\ Rank \in {1, 2, 3}
    BY <2>1 DEF Rank
  <2>3. /\ pc' = "cross" => Rank' = 2
        /\ pc' = "read" => Rank' = 1
        /\ pc' \in {"threw", "returned"} => Rank' = 0
    BY DEF Rank
  <2>4. StepsLeft = Rank + (captures - capture_idx) + 2 * (sample_count - i)
    BY DEF StepsLeft
  <2>5. ASSUME ds' = ds
        PROVE  StepsLeft' = Rank' + (captures - capture_idx') + 2 * (sample_count' - i')
    BY <2>5 DEF StepsLeft
  <2> HIDE DEF captures
  <2>6. StepsLeft \in Nat
    BY <2>1, <2>2, <2>4
  <2>7. ASSUME NEW n, NEW after \in {"cross", "read"}, SkipHeader(n, after),
               after = "cross" => pc = "headers", after = "read" => pc = "cross"
        PROVE  StepsLeft' < StepsLeft
    <3>1. ds' = ds /\ sample_count' = sample_count /\ i' = i
      BY <2>7 DEF SkipHeader, request
    <3>2. CASE capture_idx' = capture_idx + 1 /\ pc' = pc
      <4>1. Rank' = Rank
        BY <3>2 DEF Rank
      <4> QED
        BY <2>1, <2>2, <2>4, <2>5, <3>1, <3>2, <4>1
    <3>3. CASE capture_idx' = capture_idx /\ pc' = after
      <4>1. Rank' < Rank /\ Rank' \in {1, 2}
        BY <2>1, <2>2, <2>3, <2>7, <3>3
      <4>2. StepsLeft' = Rank' + (captures - capture_idx) + 2 * (sample_count - i)
        BY <2>5, <3>1, <3>3
      <4>3. captures - capture_idx \in Int /\ 2 * (sample_count - i) \in Int
        BY <2>1
      <4> QED
        BY <2>2, <2>4, <4>1, <4>2, <4>3
    <3> QED
      BY <2>7, <3>2, <3>3 DEF SkipHeader
  <2>8. ASSUME ReadSample PROVE StepsLeft' < StepsLeft
    <3>1. /\ pc = "read" /\ ds' = ds /\ sample_count' = sample_count /\ capture_idx' = capture_idx
          /\ (i' = i + 1 /\ pc' = "cross") \/ (i' = i /\ pc' = "threw")
      BY <2>8 DEF ReadSample, request
    <3>2. /\ Rank = 1
          /\ (i' = i + 1 /\ Rank' = 2) \/ (i' = i /\ Rank' = 0)
      BY <2>2, <2>3, <3>1
    <3> QED
      BY <2>1, <2>4, <2>5, <3>1, <3>2
  <2>9. ASSUME Return PROVE StepsLeft' < StepsLeft
    <3>1. /\ ds' = ds /\ sample_count' = sample_count /\ capture_idx' = capture_idx /\ i' = i
          /\ Rank = 2 /\ Rank' = 0
      BY <2>2, <2>3, <2>9 DEF Return, request
    <3> QED
      BY <2>1, <2>4, <2>5, <3>1
  <2>10. ~ \E c \in Channels, start \in Positions, count \in Counts : Call(c, start, count)
    BY <2>1 DEF Call
  <2>11. CASE AccumulateHeaders
    BY <2>6, <2>7, <2>11 DEF AccumulateHeaders
  <2>12. CASE CrossBoundary
    BY <2>6, <2>7, <2>12 DEF CrossBoundary
  <2> QED
    BY <1>1, <2>6, <2>8, <2>9, <2>10, <2>11, <2>12 DEF Next, Step
<1>2. IInv /\ [Next]_vars => [Running => StepsLeft \in Nat /\ StepsLeft' < StepsLeft]_vars
  BY <1>1
<1> QED
  BY <1>2, Invariance, PTL DEF Spec
=============================================================================
