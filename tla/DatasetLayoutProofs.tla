------------------------ MODULE DatasetLayoutProofs -------------------------
(* Facts about the arithmetic of DatasetLayout, for every dataset. *)
EXTENDS DatasetLayout, SequenceTheorems, TLAPS

(* Integer division, as the C++ division of non-negative numbers.          *)
LEMMA Division ==
    ASSUME NEW a \in Int, NEW b \in Nat \ {0}
    PROVE  /\ a \div b \in Int
           /\ a % b \in 0..(b - 1)
           /\ a % b = a - b * (a \div b)
<1>1. a \div b \in Int
  OBVIOUS
<1>2. a % b \in 0..(b - 1)
  OBVIOUS
<1>3. a % b = a - b * (a \div b)
  OBVIOUS
<1> QED
  BY <1>1, <1>2, <1>3

(* One frame further is one frame of bytes further. *)
LEMMA NextFrame ==
    ASSUME NEW n \in Int, NEW w \in Int, NEW c \in Int, NEW b \in Int
    PROVE  ((n + 1) * w + c) * b = (n * w + c) * b + b * w
<1>1. (n + 1) * w = n * w + w
  OBVIOUS
<1> DEFINE x == n * w + c
<1>2. (n + 1) * w + c = x + w /\ x \in Int
  BY <1>1
<1> HIDE DEF x
<1>3. (x + w) * b = x * b + b * w
  BY <1>2
<1> QED
  BY <1>2, <1>3 DEF x

(* The bytes beside the samples and the numbers of samples are integers.   *)
LEMMA SizeType ==
    ASSUME NEW d, DatasetShape(d), NEW c \in Int
    PROVE  /\ non_sample_bytes(d) \in Nat
           /\ total_samples(d) \in Int
           /\ channel_size(d, c) \in Int
<1>1. Len(d.captures) \in Nat
  BY DEF DatasetShape
<1>2. d.sums[Len(d.captures)] \in Nat
  BY <1>1 DEF DatasetShape
<1>3. non_sample_bytes(d) \in Nat
  BY <1>2 DEF DatasetShape, non_sample_bytes
<1>4. total_samples(d) \in Int
  <2>1. d.disk_size_bytes - non_sample_bytes(d) \in Int /\ d.bytes_per_sample \in Nat \ {0}
    BY <1>3 DEF DatasetShape
  <2> QED
    BY <2>1, Division DEF total_samples
<1>5. total_samples(d) \div d.num_channels \in Int
  <2>1. d.num_channels \in Nat \ {0}
    BY DEF DatasetShape
  <2> QED
    BY <1>4, <2>1, Division
<1>6. (IF c <= total_samples(d) % d.num_channels THEN 1 ELSE 0) \in Int
  OBVIOUS
<1> QED
  BY <1>3, <1>4, <1>5, <1>6 DEF channel_size
-----------------------------------------------------------------------------
(* Products of integers are monotone.                                      *)
LEMMA ProductMonotone ==
    ASSUME NEW a \in Int, NEW b \in Int, a <= b, NEW w \in Nat
    PROVE  a * w \in Int /\ b * w \in Int /\ a * w <= b * w
<1>1. PICK e \in Nat : b = a + e
  <2>1. b - a \in Nat /\ b = a + (b - a)
    OBVIOUS
  <2> QED
    BY <2>1
<1>2. e * w \in Nat /\ a * w \in Int
  OBVIOUS
<1>3. b * w = a * w + e * w
  BY <1>1
<1> QED
  BY <1>2, <1>3

(* The n-th sample of channel c is one of the samples that size() counted, *)
(* in the last, incomplete frame too.                                      *)
LEMMA SampleCounted ==
    ASSUME NEW d, DatasetShape(d), non_sample_bytes(d) <= d.disk_size_bytes,
           NEW c \in 1..d.num_channels, NEW n \in Nat, n < channel_size(d, c)
    PROVE  n * d.num_channels + c <= total_samples(d)
<1>1. PICK w \in Nat \ {0}, total \in Int :
         w = d.num_channels /\ total = total_samples(d)
  <2>1. d.num_channels \in Nat \ {0}
    BY DEF DatasetShape
  <2>2. total_samples(d) \in Int
    BY 0 \in Int, SizeType
  <2> QED
    BY <2>1, <2>2
<1>2. PICK q \in Int, r \in 0..(w - 1) :
         q = total \div w /\ r = total % w /\ r = total - w * q
  BY Division
<1>3. n < q + IF c <= r THEN 1 ELSE 0
  BY <1>1, <1>2 DEF channel_size
<1>4. PICK nw \in Int, qw \in Int : nw = n * w /\ qw = q * w /\ qw = w * q
  <2>1. n * w \in Int /\ q * w \in Int /\ q * w = w * q
    OBVIOUS
  <2> QED
    BY <2>1
<1>5. c \in 1..w
  BY <1>1
<1>6. CASE n < q
  <2>1. n <= q - 1 /\ q - 1 \in Int /\ (q - 1) * w = qw - w
    BY <1>4, <1>6
  <2>2. nw <= qw - w
    <3>1. n \in Int /\ q - 1 \in Int /\ n <= q - 1 /\ w \in Nat
      BY <2>1
    <3>2. n * w <= (q - 1) * w
      BY <3>1, ProductMonotone, Zenon
    <3> QED
      BY <1>4, <2>1, <3>2, Zenon
  <2>3. nw + c <= total
    BY <1>2, <1>4, <1>5, <2>2
  <2> QED
    BY <1>1, <1>4, <2>3
<1>7. CASE n = q /\ c <= r
  <2>1. nw + c <= total
    BY <1>2, <1>4, <1>5, <1>7
  <2> QED
    BY <1>1, <1>4, <2>1
<1> QED
  BY <1>3, <1>6, <1>7

(* The bytes of the samples that size() counted fit in the file beside the *)
(* headers and the trailing bytes.                                         *)
LEMMA SamplesFit ==
    ASSUME NEW d, DatasetShape(d), NEW m \in Int, m <= total_samples(d)
    PROVE  m * d.bytes_per_sample + non_sample_bytes(d) <= d.disk_size_bytes
<1>1. PICK b \in Nat \ {0}, rest \in Int, total \in Int :
         /\ b = d.bytes_per_sample /\ rest = d.disk_size_bytes - non_sample_bytes(d)
         /\ total = total_samples(d) /\ total = rest \div b
  <2>1. /\ d.bytes_per_sample \in Nat \ {0} /\ total_samples(d) \in Int
        /\ d.disk_size_bytes - non_sample_bytes(d) \in Int
    <3>1. non_sample_bytes(d) \in Nat /\ total_samples(d) \in Int
      BY 0 \in Int, SizeType
    <3>2. d.bytes_per_sample \in Nat \ {0} /\ d.disk_size_bytes \in Nat
      BY DEF DatasetShape
    <3> QED
      BY <3>1, <3>2
  <2>2. total_samples(d) = (d.disk_size_bytes - non_sample_bytes(d)) \div d.bytes_per_sample
    BY DEF total_samples
  <2> QED
    BY <2>1, <2>2, Zenon
<1>2. PICK tb \in Int : tb = b * total /\ tb = total * b /\ tb <= rest
  <2>1. rest % b \in 0..(b - 1) /\ rest % b = rest - b * total
    BY <1>1, Division
  <2>2. b * total \in Int /\ b * total = total * b
    OBVIOUS
  <2> QED
    BY <2>1, <2>2
<1>3. m * b \in Int /\ m * b <= tb
  <2>1. m <= total
    BY <1>1
  <2> QED
    BY <1>2, <2>1, ProductMonotone
<1>4. PICK mb \in Int : mb = m * b
  BY <1>3
<1>5. non_sample_bytes(d) \in Int /\ d.disk_size_bytes \in Int
  <2>1. non_sample_bytes(d) \in Nat
    BY 0 \in Int, SizeType
  <2>2. d.disk_size_bytes \in Nat
    BY DEF DatasetShape
  <2> QED
    BY <2>1, <2>2
<1>6. mb + non_sample_bytes(d) <= d.disk_size_bytes
  BY <1>1, <1>2, <1>3, <1>4, <1>5
<1> QED
  BY <1>1, <1>4, <1>6
-----------------------------------------------------------------------------
(* Sample n of a channel ends where frame n + 1 starts or earlier ...      *)
LEMMA SampleBeforeFrame ==
    ASSUME NEW n \in Int, NEW f \in Int, n < f,
           NEW w \in Nat \ {0}, NEW c \in 1..w, NEW b \in Nat \ {0}
    PROVE  /\ (n * w + (c - 1)) * b \in Int /\ f * w * b \in Int
           /\ (n * w + (c - 1)) * b + b <= f * w * b
<1>1. PICK fw \in Int, x \in Int : fw = f * w /\ x = n * w + (c - 1) /\ x + 1 <= fw
  <2>1. (n + 1) * w \in Int /\ f * w \in Int /\ (n + 1) * w <= f * w
    <3>1. n + 1 \in Int /\ n + 1 <= f /\ w \in Nat
      OBVIOUS
    <3> QED
      BY <3>1, ProductMonotone, Zenon
  <2>2. n * w \in Int /\ (n + 1) * w = n * w + w
    OBVIOUS
  <2>3. n * w + (c - 1) \in Int /\ (n * w + (c - 1)) + 1 <= f * w
    BY <2>1, <2>2
  <2> QED
    BY <2>1, <2>3
<1>2. x * b \in Int /\ (x + 1) * b = x * b + b
  OBVIOUS
<1>3. (x + 1) * b \in Int /\ fw * b \in Int /\ (x + 1) * b <= fw * b
  <2>1. x + 1 \in Int /\ b \in Nat
    OBVIOUS
  <2> QED
    BY <1>1, <2>1, ProductMonotone, Zenon
<1> QED
  BY <1>1, <1>2, <1>3

(* ... and starts where frame n does or later.                             *)
LEMMA SampleAfterFrame ==
    ASSUME NEW n \in Int, NEW f \in Int, f <= n,
           NEW w \in Nat \ {0}, NEW c \in 1..w, NEW b \in Nat \ {0}
    PROVE  f * w * b \in Int /\ f * w * b <= (n * w + (c - 1)) * b
<1>1. PICK fw \in Int, x \in Int : fw = f * w /\ x = n * w + (c - 1) /\ fw <= x
  <2>1. n * w \in Int /\ f * w \in Int /\ f * w <= n * w
    BY w \in Nat, ProductMonotone, Zenon
  <2>2. n * w + (c - 1) \in Int /\ f * w <= n * w + (c - 1)
    BY <2>1
  <2> QED
    BY <2>1, <2>2
<1>2. x * b \in Int /\ fw * b \in Int /\ fw * b <= x * b
  BY <1>1, b \in Nat, ProductMonotone, Zenon
<1> QED
  BY <1>1, <1>2
=============================================================================
