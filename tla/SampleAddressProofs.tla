------------------------ MODULE SampleAddressProofs -------------------------
(* What is proved of SampleAddress, for integers of any width. *)
EXTENDS SampleAddress, SequenceTheorems, TLAPS

(* Integer division, as the C++ division of non-negative numbers. *)
LEMMA Division ==
    ASSUME NEW a \in Int, NEW b \in Nat \ {0}
    PROVE  /\ a \div b \in Int
           /\ a % b \in 0..(b - 1)
           /\ a % b = a - b * (a \div b)
<1>1. a \div b \in Int
  OBVIOUS
<1>2. a % b \in 0..(b - 1)
  OBVIOUS
<1>3. a % b = a - b * (a \div b)
  OBVIOUS
<1> QED
  BY <1>1, <1>2, <1>3

LEMMA ProductMonotone ==
    ASSUME NEW a \in Int, NEW b \in Int, a <= b, NEW w \in Nat
    PROVE  a * w <= b * w
<1>1. PICK d \in Nat : b = a + d
  <2>1. b - a \in Nat /\ b = a + (b - a)
    OBVIOUS
  <2> QED
    BY <2>1
<1>2. b * w = a * w + d * w
  BY <1>1
<1>3. d * w \in Nat
  OBVIOUS
<1>4. a * w \in Int /\ b * w \in Int
  OBVIOUS
<1> HIDE <1>1
<1> QED
  BY <1>2, <1>3, <1>4

(* A sample of a channel, at index n, is one of those that size() counted, *)
(* in an incomplete last frame too.                                        *)
LEMMA SampleCounted ==
    ASSUME NEW total \in Int, NEW w \in Nat \ {0}, NEW c \in 1..w, NEW n \in Nat,
           n < total \div w + IF c <= total % w THEN 1 ELSE 0
    PROVE  n * w + (c - 1) < total
<1>1. PICK q \in Int, r \in 0..(w - 1) :
         q = total \div w /\ r = total % w /\ r = total - w * q
  BY Division
<1>2. n < q + IF c <= r THEN 1 ELSE 0
  BY <1>1
<1>3. PICK nw \in Int, qw \in Int : nw = n * w /\ qw = q * w /\ qw = w * q
  <2>1. n * w \in Int /\ q * w \in Int /\ q * w = w * q
    OBVIOUS
  <2> QED
    BY <2>1
<1>4. CASE n < q
  <2>1. n <= q - 1 /\ q - 1 \in Int /\ (q - 1) * w = qw - w
    BY <1>3, <1>4
  <2>2. n * w <= (q - 1) * w
    <3>1. n \in Int /\ w \in Nat
      OBVIOUS
    <3> QED
      BY <2>1, <3>1, ProductMonotone, Zenon
  <2>3. nw <= qw - w
    BY <1>3, <2>1, <2>2, Zenon
  <2>4. nw + (c - 1) < total
    BY <1>1, <1>3, <2>3
  <2> QED
    BY <1>3, <2>4
<1>5. CASE n = q /\ c <= r
  <2>1. nw + (c - 1) < total
    BY <1>1, <1>3, <1>5
  <2> QED
    BY <1>3, <2>1
<1> QED
  BY <1>2, <1>4, <1>5

(* The products that load_samples forms for such a sample, with an offset  *)
(* that can be expressed in bytes, are between -M and M.                   *)
LEMMA AddressFits ==
    ASSUME NEW M \in Nat, NEW bytes \in 0..M, NEW b \in Nat \ {0}, NEW w \in Nat \ {0},
           NEW c \in 1..w, NEW n \in Nat, NEW o \in Nat, o * w * b <= M,
           n < (bytes \div b) \div w + IF c <= (bytes \div b) % w THEN 1 ELSE 0
    PROVE  /\ (n - o) * w \in -M..M
           /\ (n - o) * w + (c - 1) \in -M..M
           /\ ((n - o) * w + (c - 1)) * b \in -M..M
<1>1. PICK total \in Int : total = bytes \div b /\ total * b <= bytes
  <2>1. bytes \in Int /\ bytes \div b \in Int
    BY Division
  <2>2. bytes % b \in 0..(b - 1) /\ bytes % b = bytes - b * (bytes \div b)
    BY <2>1, Division
  <2>3. PICK t \in Int : t = bytes \div b
    BY <2>1
  <2>4. b * t \in Int /\ b * t = t * b
    OBVIOUS
  <2> QED
    BY <2>2, <2>3, <2>4
<1>2. n * w + (c - 1) < total
  BY <1>1, SampleCounted
<1>3. PICK nw \in Nat, ow \in Nat : nw = n * w /\ ow = o * w
  <2>1. n * w \in Nat /\ o * w \in Nat
    OBVIOUS
  <2> QED
    BY <2>1
<1>4. (n - o) * w = nw - ow
  BY <1>3
<1>5. ow * b <= M
  BY <1>3
<1>6. PICK x \in Nat : x = nw + (c - 1) /\ x < total
  BY <1>2, <1>3
<1>7. PICK xb \in Nat, ob \in Nat : xb = x * b /\ ob = ow * b
  <2>1. x * b \in Nat /\ ow * b \in Nat
    OBVIOUS
  <2> QED
    BY <2>1
<1>8. xb <= M
  <2>1. x * b <= total * b
    <3>1. x \in Int /\ x <= total /\ b \in Nat
      BY <1>6
    <3> QED
      BY <3>1, ProductMonotone, Zenon
  <2>2. total * b \in Int
    OBVIOUS
  <2> QED
    BY <1>1, <1>7, <2>1, <2>2
<1>9. x <= xb /\ ow <= ob
  <2>1. 1 * x <= b * x /\ 1 * ow <= b * ow
    <3>1. 1 \in Int /\ b \in Int /\ 1 <= b
      OBVIOUS
    <3> QED
      BY <3>1, ProductMonotone, Zenon
  <2>2. b * x = x * b /\ b * ow = ow * b /\ 1 * x = x /\ 1 * ow = ow
    OBVIOUS
  <2> QED
    BY <1>7, <2>1, <2>2
<1>10. x - ow \in -M..M /\ nw - ow \in -M..M
  BY <1>5, <1>6, <1>7, <1>8, <1>9
<1>11. (x - ow) * b = xb - ob
  BY <1>7
<1>12. xb - ob \in -M..M
  BY <1>5, <1>7, <1>8
<1>13. (n - o) * w + (c - 1) = x - ow
  BY <1>4, <1>6
<1> QED
  BY <1>4, <1>10, <1>11, <1>12, <1>13-----------------------------------------------------------------------------
(* As long as the metadata is sane, every variable holds the value that    *)
(* true arithmetic gives it.                                               *)
ComputesTruly ==
    /\ pc \in {"idle", "size", "guards", "address", "headers", "read"} => ~overflowed
    /\ pc \in {"idle", "size", "address", "headers"} => sum = file.sums[k]
    /\ pc \in {"guards", "address", "headers", "read"} => samples_in_channel = true_size
    /\ Accepted => /\ 0 <= request.start /\ request.start < samples_in_channel
                   /\ 0 <= effective_count
                   /\ effective_count <= samples_in_channel - request.start

IInv ==
    /\ TypeOK
    /\ pc = "idle" => k = 0 /\ sum = 0
    /\ Sane(file) => ComputesTruly

LEMMA OutcomesOf ==
    ASSUME NEW x \in Int
    PROVE  /\ Outcomes(x) \subseteq Int64
           /\ Fits(x) => Outcomes(x) = {x}
BY DEF Outcomes, Fits

LEMMA FileFacts ==
    ASSUME NEW f \in Files
    PROVE  /\ INT64_MAX \in Nat
           /\ f.disk_size_bytes \in 0..INT64_MAX
           /\ f.bytes_per_sample \in Nat \ {0}
           /\ f.num_channels \in Nat \ {0}
           /\ f.offset \in Nat
           /\ f.trailing_bytes \in Nat
           /\ Len(f.captures) \in Nat
           /\ f.sums[0] = 0
           /\ \A n \in 0..Len(f.captures) :
                 f.sums[n] \in Nat /\ f.sums[n] <= f.sums[Len(f.captures)]
           /\ \A n \in 1..Len(f.captures) :
                 /\ f.captures[n].header_bytes \in Nat
                 /\ f.captures[n].sample_start \in Nat
                 /\ f.sums[n] = f.sums[n - 1] + f.captures[n].header_bytes
           /\ non_sample_bytes(f) \in Nat
<1>1. FileShape(f) /\ INT64_MAX \in Nat
  BY AddressAssumption
<1>2. Len(f.captures) \in Nat
  BY <1>1 DEF FileShape
<1>3. Natural64 \subseteq Nat
  BY <1>1 DEF Natural64
<1>4. \A n \in 1..Len(f.captures) :
          f.captures[n] \in [sample_start : Natural64, header_bytes : Natural64]
  BY <1>1, <1>2, ElementOfSeq DEF FileShape
<1>5. \A n \in 0..Len(f.captures) :
          f.sums[n] \in Nat /\ f.sums[n] <= f.sums[Len(f.captures)]
  <2>1. Len(f.captures) \in 0..Len(f.captures)
    BY <1>2
  <2>2. /\ f.sums \in [0..Len(f.captures) -> Nat]
        /\ \A m, n \in 0..Len(f.captures) : m <= n => f.sums[m] <= f.sums[n]
    BY <1>1 DEF FileShape
  <2>3. \A n \in 0..Len(f.captures) : f.sums[n] \in Nat
    BY <2>2
  <2>4. \A n \in 0..Len(f.captures) : f.sums[n] <= f.sums[Len(f.captures)]
    <3>1. \A n \in 0..Len(f.captures) : n <= Len(f.captures)
      BY <1>2
    <3> QED
      BY <2>1, <2>2, <3>1
  <2> QED
    BY <2>3, <2>4
<1>6. f.disk_size_bytes \in 0..INT64_MAX
  BY <1>1 DEF FileShape, Natural64
<1>7. /\ f.bytes_per_sample \in Nat \ {0} /\ f.num_channels \in Nat \ {0}
      /\ f.offset \in Nat /\ f.trailing_bytes \in Nat /\ f.sums[0] = 0
  BY <1>1, <1>3 DEF FileShape
<1>8. \A n \in 1..Len(f.captures) :
         /\ f.captures[n].header_bytes \in Nat
         /\ f.captures[n].sample_start \in Nat
         /\ f.sums[n] = f.sums[n - 1] + f.captures[n].header_bytes
  BY <1>1, <1>3, <1>4 DEF FileShape
<1>9. non_sample_bytes(f) \in Nat
  <2>1. f.sums[Len(f.captures)] \in Nat
    BY <1>2, <1>5
  <2> QED
    BY <1>7, <2>1 DEF non_sample_bytes
<1> QED
  BY <1>1, <1>2, <1>5, <1>6, <1>7, <1>8, <1>9

LEMMA SizeType ==
    ASSUME TypeOK, NEW bytes \in Int, NEW c \in Int
    PROVE  channel_size(bytes, c) \in Int
<1>1. file.bytes_per_sample \in Nat \ {0} /\ file.num_channels \in Nat \ {0}
  BY FileFacts DEF TypeOK
<1>2. bytes \div file.bytes_per_sample \in Int
  BY <1>1, Division
<1>3. (bytes \div file.bytes_per_sample) \div file.num_channels \in Int
  BY <1>1, <1>2, Division
<1>4. (IF c <= (bytes \div file.bytes_per_sample) % file.num_channels THEN 1 ELSE 0) \in Int
  OBVIOUS
<1> QED
  BY <1>3, <1>4 DEF channel_size

LEMMA InitIInv == Init => IInv
<1> SUFFICES ASSUME Init PROVE IInv
  OBVIOUS
<1>1. INT64_MAX \in Nat /\ 0 \in Int64 /\ 0 \in Natural64
  BY AddressAssumption DEF Int64, Natural64
<1>2. file.num_channels \in Nat \ {0} /\ Len(file.captures) \in Nat /\ file.sums[0] = 0
  BY FileFacts DEF Init
<1>3. 1 \in 1..file.num_channels /\ 0 \in 0..Len(file.captures)
  BY <1>2
<1>4. TypeOK
  <2>1. request \in [channel : 1..file.num_channels, start : Int64, count : Int64]
    BY <1>1, <1>3 DEF Init, NoRequest
  <2>2. annotation \in [start : Natural64, count : Natural64]
    BY <1>1 DEF Init
  <2>3. k \in 0..Len(file.captures) /\ sum \in Int64 /\ index_offset_bytes \in Int64
    BY <1>1, <1>3 DEF Init
  <2>4. file \in Files /\ samples_in_channel \in Int
    BY DEF Init
  <2>5. /\ pc \in {"idle", "size", "guards", "address", "headers", "read", "refused",
                   "overlaps", "passed", "capture", "no capture"}
        /\ overflowed \in BOOLEAN
    BY DEF Init
  <2> QED
    BY <2>1, <2>2, <2>3, <2>4, <2>5, Zenon DEF TypeOK
<1>5. ComputesTruly
  BY <1>2 DEF Init, ComputesTruly, Accepted
<1> QED
  BY <1>4, <1>5 DEF Init, IInv
-----------------------------------------------------------------------------
LEMMA GetSamplesIInv == IInv /\ GetSamples => IInv'
<1> SUFFICES ASSUME IInv, GetSamples PROVE IInv'
  OBVIOUS
<1>1. TypeOK'
  <2>1. request' \in [channel : 1..file.num_channels, start : Int64, count : Int64]
    BY AddressAssumption DEF GetSamples
  <2> QED
    BY <2>1 DEF GetSamples, IInv, TypeOK
<1>2. Sane(file) => ComputesTruly'
  BY DEF GetSamples, IInv, ComputesTruly, Accepted
<1> QED
  BY <1>1, <1>2 DEF GetSamples, IInv

(* A header that is added is the next one, and the sum fits. *)
LEMMA HeaderAdded ==
    ASSUME TypeOK, k < Len(file.captures), AddHeader
    PROVE  /\ k' \in 0..Len(file.captures) /\ sum' \in Int64 /\ overflowed' \in BOOLEAN
           /\ Sane(file) /\ sum = file.sums[k] => sum' = file.sums[k'] /\ overflowed' = overflowed
<1> DEFINE next == sum + file.captures[k + 1].header_bytes
<1>1. /\ file \in Files /\ k \in 0..Len(file.captures) /\ sum \in Int64 /\ overflowed \in BOOLEAN
  BY DEF TypeOK
<1>2. Len(file.captures) \in Nat /\ INT64_MAX \in Nat
  BY <1>1, FileFacts
<1>3. k + 1 \in 1..Len(file.captures) /\ k + 1 \in 0..Len(file.captures) /\ k' = k + 1
  BY <1>1, <1>2 DEF AddHeader
<1>4. /\ file.captures[k + 1].header_bytes \in Nat
      /\ file.sums[k + 1] = file.sums[(k + 1) - 1] + file.captures[k + 1].header_bytes
      /\ file.sums[k + 1] \in Nat /\ file.sums[k + 1] <= file.sums[Len(file.captures)]
  BY <1>1, <1>3, FileFacts
<1>5. next \in Int
  BY <1>1, <1>2, <1>4 DEF Int64
<1>6. sum' \in Outcomes(next) /\ overflowed' = (overflowed \/ ~Fits(next))
  BY DEF AddHeader
<1>7. sum' \in Int64 /\ (Fits(next) => sum' = next)
  <2> HIDE DEF next
  <2> QED
    BY <1>5, <1>6, OutcomesOf
<1>8. ASSUME Sane(file), sum = file.sums[k] PROVE sum' = file.sums[k'] /\ overflowed' = overflowed
  <2>1. (k + 1) - 1 = k
    BY <1>1
  <2>2. next = file.sums[k + 1]
    BY <1>4, <1>8, <2>1
  <2>3. next \in Nat /\ next <= INT64_MAX
    <3>1. file.sums[Len(file.captures)] \in Nat /\ file.trailing_bytes \in Nat
          /\ file.disk_size_bytes \in 0..INT64_MAX
      BY <1>1, <1>2, FileFacts
    <3>2. file.sums[Len(file.captures)] + file.trailing_bytes <= file.disk_size_bytes
      BY <1>8 DEF Sane, non_sample_bytes
    <3> HIDE DEF next
    <3> QED
      BY <1>2, <1>4, <2>2, <3>1, <3>2
  <2>4. Fits(next)
    <3> HIDE DEF next
    <3> QED
      BY <1>2, <2>3 DEF Fits, Int64
  <2> HIDE DEF next
  <2>5. overflowed' = overflowed
    BY <1>1, <1>6, <2>4, Zenon
  <2> QED
    BY <1>3, <1>7, <2>2, <2>4, <2>5
<1>9. overflowed' \in BOOLEAN
  <2> HIDE DEF next
  <2> QED
    BY <1>6
<1> QED
  BY <1>3, <1>7, <1>8, <1>9

LEMMA SumHeaderIInv == IInv /\ SumHeader => IInv'
<1> SUFFICES ASSUME IInv, SumHeader PROVE IInv'
  OBVIOUS
<1>1. TypeOK /\ k < Len(file.captures) /\ AddHeader
  BY DEF IInv, SumHeader
<1>2. TypeOK'
  BY <1>1, HeaderAdded DEF SumHeader, TypeOK
<1>3. ASSUME Sane(file) PROVE ComputesTruly'
  <2>1. ~overflowed /\ sum = file.sums[k]
    BY <1>3 DEF IInv, SumHeader, ComputesTruly
  <2>2. sum' = file.sums[k'] /\ overflowed' = overflowed
    BY <1>1, <1>3, <2>1, HeaderAdded
  <2> QED
    BY <2>1, <2>2 DEF SumHeader, ComputesTruly, Accepted
<1> QED
  BY <1>2, <1>3 DEF SumHeader, IInv

LEMMA SizeIInv == IInv /\ Size => IInv'
<1> SUFFICES ASSUME IInv, Size PROVE IInv'
  OBVIOUS
<1> DEFINE total == sum + file.trailing_bytes
           rest == file.disk_size_bytes - sum'
<1>1. /\ TypeOK /\ file \in Files /\ sum \in Int64
      /\ request \in [channel : 1..file.num_channels, start : Int64, count : Int64]
  BY DEF IInv, TypeOK
<1>2. /\ INT64_MAX \in Nat /\ file.trailing_bytes \in Nat /\ Len(file.captures) \in Nat
      /\ file.disk_size_bytes \in 0..INT64_MAX /\ file.num_channels \in Nat
  BY <1>1, FileFacts
<1>3. total \in Int
  BY <1>1, <1>2 DEF Int64
<1>4. /\ sum' \in Outcomes(total)
      /\ overflowed' = (overflowed \/ ~Fits(total) \/ ~Fits(rest))
      /\ pc = "size" /\ k = Len(file.captures)
      /\ UNCHANGED <<file, request, k, index_offset_bytes, annotation>>
  BY DEF Size
<1>5. sum' \in Int64 /\ (Fits(total) => sum' = total)
  <2> HIDE DEF total
  <2> QED
    BY <1>3, <1>4, OutcomesOf
<1>6. rest \in Int
  BY <1>2, <1>5 DEF Int64
<1>7. CASE sum' > file.disk_size_bytes
  <2>1. pc' = "refused" /\ samples_in_channel' = samples_in_channel
    BY <1>7 DEF Size
  <2>2. TypeOK'
    <3>1. overflowed' \in BOOLEAN
      BY <1>4
    <3> QED
      BY <1>1, <1>4, <1>5, <2>1, <3>1 DEF TypeOK
  <2>3. ComputesTruly'
    BY <2>1 DEF ComputesTruly, Accepted
  <2> QED
    BY <1>4, <2>1, <2>2, <2>3 DEF IInv
<1>8. CASE ~(sum' > file.disk_size_bytes)
  <2>1. pc' = "guards"
    BY <1>8 DEF Size
  <2>2. PICK bytes \in Outcomes(rest) : samples_in_channel' = channel_size(bytes, request.channel)
    BY <1>8 DEF Size
  <2>3. bytes \in Int64 /\ (Fits(rest) => bytes = rest)
    <3> HIDE DEF rest
    <3> QED
      BY <1>6, <2>2, OutcomesOf
  <2>4. samples_in_channel' \in Int
    <3>1. bytes \in Int /\ request.channel \in Int
      BY <1>1, <1>2, <2>3 DEF Int64
    <3> QED
      BY <1>1, <2>2, <3>1, SizeType
  <2>5. TypeOK'
    <3>1. overflowed' \in BOOLEAN
      BY <1>4
    <3> QED
      BY <1>1, <1>4, <1>5, <2>1, <2>4, <3>1 DEF TypeOK
  <2>6. ASSUME Sane(file) PROVE ComputesTruly'
    <3>1. ~overflowed /\ sum = file.sums[Len(file.captures)]
      BY <1>4, <2>6 DEF IInv, ComputesTruly
    <3>2. total = non_sample_bytes(file)
      BY <3>1 DEF non_sample_bytes
    <3>3. total \in Nat /\ total <= file.disk_size_bytes
      BY <1>1, <2>6, <3>2, FileFacts DEF Sane
    <3>4. Fits(total) /\ sum' = total
      <4>1. Fits(total)
        <5> HIDE DEF total
        <5> QED
          BY <1>2, <3>3 DEF Fits, Int64
      <4> QED
        BY <1>5, <4>1
    <3>5. rest = file.disk_size_bytes - non_sample_bytes(file) /\ Fits(rest)
      <4>1. rest = file.disk_size_bytes - total
        BY <3>4
      <4> HIDE DEF total
      <4>2. file.disk_size_bytes - total \in Int64
        BY <1>2, <3>3 DEF Int64
      <4> QED
        BY <3>2, <4>1, <4>2 DEF Fits
    <3>6. ~overflowed'
      <4> HIDE DEF total, rest
      <4> QED
        BY <1>4, <3>1, <3>4, <3>5, Zenon
    <3>7. samples_in_channel' = true_size
      BY <2>2, <2>3, <3>5 DEF true_size
    <3>8. true_size' = true_size
      BY <1>4 DEF true_size, channel_size
    <3> QED
      BY <2>1, <3>6, <3>7, <3>8 DEF ComputesTruly, Accepted
  <2> QED
    BY <1>4, <2>1, <2>5, <2>6 DEF IInv
<1> QED
  BY <1>7, <1>8

LEMMA GuardsIInv == IInv /\ Guards => IInv'
<1> SUFFICES ASSUME IInv, Guards PROVE IInv'
  OBVIOUS
<1>1. /\ TypeOK /\ file \in Files /\ samples_in_channel \in Int /\ pc = "guards"
      /\ request \in [channel : 1..file.num_channels, start : Int64, count : Int64]
      /\ UNCHANGED <<file, request, samples_in_channel, index_offset_bytes, annotation>>
  BY DEF IInv, TypeOK, Guards
<1>2. Len(file.captures) \in Nat /\ INT64_MAX \in Nat /\ file.sums[0] = 0
  BY <1>1, FileFacts
<1>3. CASE Refuse
  <2>1. overflowed' \in BOOLEAN
    BY <1>1, <1>3 DEF Guards, Refuse, TypeOK
  <2>2. TypeOK'
    BY <1>1, <1>3, <2>1 DEF Refuse, TypeOK
  <2>3. ComputesTruly' /\ pc' # "idle"
    BY <1>3 DEF Refuse, ComputesTruly, Accepted
  <2> QED
    BY <2>2, <2>3 DEF IInv
<1>4. CASE /\ Accept /\ UNCHANGED overflowed
           /\ ~StartRefused /\ effective_count <= samples_in_channel - request.start
  <2>1. TypeOK'
    <3>1. 0 \in 0..Len(file.captures) /\ 0 \in Int64
      BY <1>2 DEF Int64
    <3> QED
      BY <1>1, <1>4, <3>1 DEF Accept, TypeOK
  <2>2. ASSUME Sane(file) PROVE ComputesTruly'
    <3>1. ~overflowed /\ samples_in_channel = true_size
      BY <1>1, <2>2 DEF IInv, ComputesTruly
    <3>2. /\ true_size' = true_size /\ effective_count' = effective_count
      BY <1>1 DEF true_size, channel_size, effective_count
    <3>3. request.start \in Int /\ request.count \in Int
      BY <1>1, <1>2 DEF Int64
    <3>4. 0 <= request.start /\ request.start < samples_in_channel
      BY <1>1, <1>4, <3>3 DEF StartRefused
    <3>5. 0 <= effective_count
      BY <1>1, <3>3, <3>4 DEF effective_count
    <3> QED
      BY <1>1, <1>2, <1>4, <3>1, <3>2, <3>4, <3>5 DEF Accept, ComputesTruly, Accepted
  <2> QED
    BY <1>1, <1>4, <2>1, <2>2 DEF Accept, IInv
<1> QED
  BY <1>3, <1>4 DEF Guards

LEMMA AddressIInv == IInv /\ Address => IInv'
<1> SUFFICES ASSUME IInv, Address PROVE IInv'
  OBVIOUS
<1> DEFINE frames == (request.start - file.offset) * file.num_channels
<1>1. /\ TypeOK /\ file \in Files /\ overflowed \in BOOLEAN
      /\ request \in [channel : 1..file.num_channels, start : Int64, count : Int64]
      /\ pc = "address" /\ pc' = "headers"
      /\ UNCHANGED <<file, request, k, sum, samples_in_channel, annotation>>
  BY DEF IInv, TypeOK, Address
<1>2. /\ INT64_MAX \in Nat /\ file.offset \in Nat /\ file.num_channels \in Nat \ {0}
      /\ file.bytes_per_sample \in Nat \ {0} /\ file.disk_size_bytes \in 0..INT64_MAX
      /\ non_sample_bytes(file) \in Nat
  BY <1>1, FileFacts
<1>3. PICK f \in Outcomes(frames) :
       \E s \in Outcomes(f + (request.channel - 1)) :
         /\ index_offset_bytes' \in Outcomes(s * file.bytes_per_sample)
         /\ overflowed' = (\/ overflowed \/ ~Fits(frames)
                           \/ ~Fits(f + (request.channel - 1)) \/ ~Fits(s * file.bytes_per_sample))
  BY DEF Address
<1>4. request.start \in Int /\ request.channel \in Int /\ request.channel \in 1..file.num_channels
  BY <1>1, <1>2 DEF Int64
<1>5. frames \in Int
  BY <1>2, <1>4
<1>6. f \in Int /\ f \in Int64 /\ (Fits(frames) => f = frames)
  <2> HIDE DEF frames
  <2> QED
    BY <1>2, <1>3, <1>5, OutcomesOf DEF Int64
<1>7. PICK s \in Outcomes(f + (request.channel - 1)) :
         /\ index_offset_bytes' \in Outcomes(s * file.bytes_per_sample)
         /\ overflowed' = (\/ overflowed \/ ~Fits(frames)
                           \/ ~Fits(f + (request.channel - 1)) \/ ~Fits(s * file.bytes_per_sample))
  BY <1>3
<1>8. s \in Int /\ (Fits(f + (request.channel - 1)) => s = f + (request.channel - 1))
  <2>1. PICK x \in Int : x = f + (request.channel - 1)
    BY <1>4, <1>6
  <2> QED
    BY <1>2, <1>7, <2>1, OutcomesOf DEF Int64
<1>9. index_offset_bytes' \in Int64
  <2>1. PICK x \in Int : x = s * file.bytes_per_sample
    BY <1>2, <1>8
  <2> QED
    BY <1>7, <2>1, OutcomesOf
<1>10. TypeOK'
  <2>1. overflowed' \in BOOLEAN
    BY <1>7
  <2> QED
    BY <1>1, <1>9, <2>1 DEF TypeOK
<1>11. ASSUME Sane(file) PROVE ComputesTruly'
  <2>1. /\ ~overflowed /\ sum = file.sums[k] /\ samples_in_channel = true_size
        /\ 0 <= request.start /\ request.start < samples_in_channel
        /\ 0 <= effective_count /\ effective_count <= samples_in_channel - request.start
    BY <1>1, <1>11 DEF IInv, ComputesTruly, Accepted
  <2>2. PICK bytes \in 0..INT64_MAX : bytes = file.disk_size_bytes - non_sample_bytes(file)
    BY <1>2, <1>11 DEF Sane
  <2>3. /\ frames \in -INT64_MAX..INT64_MAX
        /\ frames + (request.channel - 1) \in -INT64_MAX..INT64_MAX
        /\ (frames + (request.channel - 1)) * file.bytes_per_sample \in -INT64_MAX..INT64_MAX
    <3>1. request.start \in Nat
      BY <1>4, <2>1
    <3>2. request.start < (bytes \div file.bytes_per_sample) \div file.num_channels
                           + IF request.channel <= (bytes \div file.bytes_per_sample) % file.num_channels
                             THEN 1 ELSE 0
      BY <2>1, <2>2 DEF true_size, channel_size
    <3>3. file.offset * file.num_channels * file.bytes_per_sample <= INT64_MAX
      BY <1>11 DEF Sane
    <3> QED
      BY <1>2, <1>4, <3>1, <3>2, <3>3, AddressFits
  <2>4. Fits(frames) /\ f = frames
    <3>1. Fits(frames)
      <4> HIDE DEF frames
      <4> QED
        BY <1>2, <2>3 DEF Fits, Int64
    <3> QED
      BY <1>6, <3>1
  <2>5. Fits(f + (request.channel - 1)) /\ s = f + (request.channel - 1)
    <3>1. Fits(f + (request.channel - 1))
      <4> HIDE DEF frames
      <4> QED
        BY <1>2, <2>3, <2>4 DEF Fits, Int64
    <3> QED
      BY <1>8, <3>1
  <2>6. Fits(s * file.bytes_per_sample)
    <3>1. s * file.bytes_per_sample \in -INT64_MAX..INT64_MAX
      <4> HIDE DEF frames
      <4> QED
        BY <2>3, <2>4, <2>5
    <3> QED
      BY <1>2, <3>1 DEF Fits, Int64
  <2>7. ~overflowed'
    <3> HIDE DEF frames
    <3> QED
      BY <1>7, <2>1, <2>4, <2>5, <2>6, Zenon
  <2>8. true_size' = true_size /\ effective_count' = effective_count
    BY <1>1 DEF true_size, channel_size, effective_count
  <2> QED
    BY <1>1, <2>1, <2>7, <2>8 DEF ComputesTruly, Accepted
<1> QED
  BY <1>1, <1>10, <1>11 DEF IInv

LEMMA AccumulateIInv == IInv /\ AccumulateHeaders => IInv'
<1> SUFFICES ASSUME IInv, AccumulateHeaders PROVE IInv'
  OBVIOUS
<1>1. /\ TypeOK /\ pc = "headers"
      /\ UNCHANGED <<file, request, samples_in_channel, index_offset_bytes, annotation>>
  BY DEF IInv, AccumulateHeaders
<1>2. true_size' = true_size /\ effective_count' = effective_count
  BY <1>1 DEF true_size, channel_size, effective_count
<1>3. CASE k < Len(file.captures) /\ AddHeader /\ UNCHANGED pc
  <2>1. TypeOK'
    BY <1>1, <1>3, HeaderAdded DEF TypeOK
  <2>2. ASSUME Sane(file) PROVE ComputesTruly'
    <3>1. ComputesTruly
      BY <2>2 DEF IInv
    <3>2. sum' = file.sums[k'] /\ overflowed' = overflowed
      BY <1>1, <1>3, <2>2, <3>1, HeaderAdded DEF ComputesTruly
    <3> QED
      BY <1>1, <1>2, <1>3, <3>1, <3>2 DEF ComputesTruly, Accepted
  <2> QED
    BY <1>1, <1>3, <2>1, <2>2 DEF IInv
<1>4. CASE pc' = "read" /\ UNCHANGED <<k, sum, overflowed>>
  <2>1. TypeOK'
    BY <1>1, <1>4 DEF TypeOK
  <2>2. ASSUME Sane(file) PROVE ComputesTruly'
    BY <1>1, <1>2, <1>4, <2>2 DEF IInv, ComputesTruly, Accepted
  <2> QED
    BY <1>1, <1>4, <2>1, <2>2 DEF IInv
<1> QED
  BY <1>3, <1>4 DEF AccumulateHeaders

(* A query leaves get_samples alone. *)
LEMMA QueryIInv == IInv /\ (FindAnnotation \/ FindCapture) => IInv'
<1> SUFFICES ASSUME IInv, FindAnnotation \/ FindCapture PROVE IInv'
  OBVIOUS
<1>1. /\ pc' \in {"overlaps", "passed", "capture", "no capture"}
      /\ UNCHANGED <<file, k, sum, samples_in_channel, index_offset_bytes>>
      /\ overflowed' \in BOOLEAN
  BY DEF FindAnnotation, FindCapture, Fits
<1>2. annotation' \in [start : Natural64, count : Natural64]
  BY AddressAssumption DEF FindAnnotation, FindCapture, IInv, TypeOK
<1>3. request' \in [channel : 1..file.num_channels, start : Int64, count : Int64]
  <2>1. 1 \in 1..file.num_channels /\ INT64_MAX \in Nat
    <3>1. file \in Files
      BY DEF IInv, TypeOK
    <3>2. file.num_channels \in Nat \ {0} /\ INT64_MAX \in Nat
      BY <3>1, FileFacts
    <3> QED
      BY <3>2
  <2>2. PICK s \in Natural64 : request' = [NoRequest EXCEPT !.start = s]
    <3>1. 0..(INT64_MAX - 1) \subseteq Natural64
      BY <2>1 DEF Natural64
    <3> QED
      BY <3>1 DEF FindAnnotation, FindCapture
  <2>3. s \in Int64 /\ 0 \in Int64
    BY <2>1, <2>2 DEF Natural64, Int64
  <2> QED
    BY <2>1, <2>2, <2>3 DEF NoRequest
<1>4. TypeOK'
  BY <1>1, <1>2, <1>3 DEF IInv, TypeOK
<1>5. ComputesTruly' /\ pc' # "idle"
  BY <1>1 DEF ComputesTruly, Accepted
<1> QED
  BY <1>4, <1>5 DEF IInv

LEMMA NextIInv == IInv /\ [Next]_vars => IInv'
<1> SUFFICES ASSUME IInv, [Next]_vars PROVE IInv'
  OBVIOUS
<1>1. CASE UNCHANGED vars
  <2>1. TypeOK' /\ (Sane(file) => ComputesTruly')
    BY <1>1 DEF IInv, vars, TypeOK, ComputesTruly, Accepted, true_size, channel_size, effective_count
  <2> QED
    BY <1>1, <2>1 DEF IInv, vars
<1> QED
  BY <1>1, GetSamplesIInv, SumHeaderIInv, SizeIInv, GuardsIInv, AddressIInv, AccumulateIInv,
     QueryIInv DEF Next

THEOREM Invariance == Spec => []IInv
BY InitIInv, NextIInv, PTL DEF Spec
-----------------------------------------------------------------------------
(* The variables of a call keep their types, undefined results included.   *)
THEOREM TypeCorrect == Spec => []TypeOK
<1>1. IInv => TypeOK
  BY DEF IInv
<1> QED
  BY <1>1, Invariance, PTL

(* Nothing overflows on the way of an accepted request, for integers of    *)
(* any width, every file and every request, if the metadata fits the file. *)
THEOREM AcceptedRequestsNeverOverflow == Spec => []AcceptedNeverOverflows
<1>1. IInv => AcceptedNeverOverflows
  BY DEF IInv, AcceptedNeverOverflows, ComputesTruly, Accepted
<1> QED
  BY <1>1, Invariance, PTL

(* The guards accept only requests whose samples all exist.                *)
THEOREM AcceptedRequestsInRange == Spec => []AcceptedInRange
<1>1. ASSUME IInv PROVE AcceptedInRange
  <2> SUFFICES ASSUME Sane(file), Accepted
               PROVE  /\ request.start >= 0 /\ effective_count >= 0
                      /\ request.start + effective_count <= true_size
    BY DEF AcceptedInRange
  <2>1. /\ samples_in_channel = true_size /\ 0 <= request.start /\ 0 <= effective_count
        /\ effective_count <= samples_in_channel - request.start
    BY <1>1 DEF IInv, ComputesTruly, Accepted
  <2>2. request.start \in Int /\ request.count \in Int /\ samples_in_channel \in Int
    <3>1. /\ request \in [channel : 1..file.num_channels, start : Int64, count : Int64]
          /\ samples_in_channel \in Int
      BY <1>1 DEF IInv, TypeOK
    <3>2. Int64 \subseteq Int
      BY AddressAssumption DEF Int64
    <3> QED
      BY <3>1, <3>2
  <2>3. effective_count \in Int
    BY <2>2 DEF effective_count
  <2> QED
    BY <2>1, <2>2, <2>3
<1> QED
  BY <1>1, Invariance, PTL
=============================================================================
