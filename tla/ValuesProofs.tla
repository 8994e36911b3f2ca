---------------------------- MODULE ValuesProofs ----------------------------
(***************************************************************************)
(* Proofs about the modules of single values, one part for each: for any   *)
(* numbers, names, texts and documents.  The parts share no state; each    *)
(* has an invariant of its own, and the lemmas about its operators.        *)
(***************************************************************************)
EXTENDS FieldChecks, SampleTypes, Datetime, HexValues, Geolocation,
        SequenceTheorems, WellFoundedInduction, TLAPS
-----------------------------------------------------------------------------
(***************************************************************************)
(* FieldChecks: the setters of numbers and the bounds of the schema.       *)
(***************************************************************************)
(* Every field holds what its setter took: nothing else writes a field,    *)
(* and a setter that throws writes none.                                   *)
FieldsChecked ==
    /\ fields = [f \in DOMAIN fields |-> fields[f]]
    /\ DOMAIN fields \subseteq Fields
    /\ \A f \in DOMAIN fields : fields[f] \in Int \cup {NotANumber} /\ check_number(f, fields[f])

(* And what was refused last is an argument that its check refused.        *)
RefusedChecked ==
    last_refused # Nothing =>
        /\ last_refused.field \in Fields
        /\ last_refused.value \in Arguments(last_refused.field)
        /\ ~check_number(last_refused.field, last_refused.value)

FieldInv == FieldsChecked /\ RefusedChecked

(* Between the two tables of bounds: the check within the schema, and the  *)
(* schema within the check; NaN passes both checks of a double.            *)
LEMMA BoundsAgree ==
    ASSUME NEW f \in Fields, NEW x \in Int
    PROVE  check_number(f, x) <=> schema_number(f, x)
<1>1. x # NotANumber /\ Trillion \in Int /\ Trillion # NotANumber /\ -Trillion # NotANumber /\ 0 # NotANumber
  BY FieldAssumption
<1>2. CASE f = "core:sample_rate"
  BY <1>1, <1>2 DEF check_number, schema_number, check_sample_rate, Below, AtMost
<1>3. CASE f = "core:freq_lower_edge"
  BY <1>1, <1>3 DEF check_number, schema_number, check_frequency, Below
<1>4. CASE f = "core:num_channels"
  BY <1>4 DEF check_number, schema_number, check_num_channels
<1>5. CASE f = "core:sample_count"
  BY <1>5 DEF check_number, schema_number, check_not_negative
<1> QED BY <1>2, <1>3, <1>4, <1>5 DEF Fields, DoubleFields, CountFields

(* The checks of a double let NaN through. *)
LEMMA NaNPasses ==
    ASSUME NEW f \in DoubleFields
    PROVE  check_number(f, NotANumber)
BY DEF DoubleFields, check_number, check_sample_rate, check_frequency, Below, AtMost

(* No field is set at first. *)
LEMMA FieldInitInv == FieldInit => FieldInv
BY DEF FieldInit, FieldInv, FieldsChecked, RefusedChecked

(* A setter keeps the invariant, whether it accepts or throws.             *)
LEMMA FieldNextInv == FieldInv /\ [FieldNext]_fieldVars => FieldInv'
<1> SUFFICES ASSUME FieldInv, [FieldNext]_fieldVars PROVE FieldInv'
  OBVIOUS
<1>1. ASSUME NEW f \in Fields, NEW x \in Arguments(f), SetNumber(f, x)
      PROVE  FieldInv'
  <2>0. x \in Int \cup {NotANumber}
    BY FieldAssumption DEF Arguments
  <2>1. CASE check_number(f, x)
    <3>1. fields' = Put(f, x) /\ last_refused' = Nothing
      BY <1>1, <2>1 DEF SetNumber
    <3>2. /\ DOMAIN fields' = DOMAIN fields \cup {f}
          /\ fields' = [g \in DOMAIN fields' |-> fields'[g]]
          /\ \A g \in DOMAIN fields' : fields'[g] = IF g = f THEN x ELSE fields[g]
      BY <3>1 DEF Put
    <3>3. FieldsChecked'
      <4>1. DOMAIN fields' \subseteq Fields
        BY <3>2 DEF FieldInv, FieldsChecked
      <4>2. ASSUME NEW g \in DOMAIN fields'
            PROVE  fields'[g] \in Int \cup {NotANumber} /\ check_number(g, fields'[g])
        <5>1. CASE g = f
          BY <2>0, <2>1, <3>2, <5>1
        <5>2. CASE g # f
          BY <3>2, <5>2 DEF FieldInv, FieldsChecked
        <5> QED BY <5>1, <5>2
      <4> QED BY <3>2, <4>1, <4>2 DEF FieldsChecked
    <3> QED BY <3>1, <3>3 DEF FieldInv, RefusedChecked
  <2>2. CASE ~check_number(f, x)
    <3>1. last_refused' = [field |-> f, value |-> x] /\ fields' = fields
      BY <1>1, <2>2 DEF SetNumber
    <3>2. last_refused'.field = f /\ last_refused'.value = x
      BY <3>1
    <3>3. RefusedChecked'
      BY <2>2, <3>2 DEF RefusedChecked
    <3> QED BY <3>1, <3>3 DEF FieldInv, FieldsChecked
  <2> QED BY <2>1, <2>2
<1>2. CASE UNCHANGED fieldVars
  BY <1>2 DEF fieldVars, FieldInv, FieldsChecked, RefusedChecked
<1> QED BY <1>1, <1>2 DEF FieldNext

(* What STRICT setters took, the bounds of the schema admit: for any       *)
(* numbers, save() refuses none of them.                                   *)
THEOREM AcceptedAlwaysMeetsSchema == FieldSpec => []AcceptedMeetsSchema
<1>1. FieldInv => AcceptedMeetsSchema
  BY BoundsAgree DEF FieldInv, FieldsChecked, AcceptedMeetsSchema
<1> QED BY <1>1, FieldInitInv, FieldNextInv, PTL DEF FieldSpec

(* What STRICT setters refused, the schema refuses, and it was no NaN.     *)
THEOREM RefusedAlwaysFailsSchema == FieldSpec => []RefusedFailsSchema
<1>1. FieldInv => RefusedFailsSchema
  <2> SUFFICES ASSUME RefusedChecked, last_refused # Nothing
               PROVE  last_refused.value # NotANumber /\ ~schema_number(last_refused.field, last_refused.value)
    BY DEF FieldInv, RefusedFailsSchema
  <2> DEFINE f == last_refused.field
             x == last_refused.value
  <2>1. f \in Fields /\ x \in Arguments(f) /\ ~check_number(f, x)
    BY DEF RefusedChecked
  <2>2. x # NotANumber
    <3>1. CASE f \in DoubleFields
      BY <2>1, <3>1, NaNPasses
    <3>2. CASE f \notin DoubleFields
      BY <2>1, <3>2, FieldAssumption DEF Arguments
    <3> QED BY <3>1, <3>2
  <2>3. x \in Int
    BY <2>1, <2>2, FieldAssumption DEF Arguments
  <2> QED BY <2>1, <2>2, <2>3, BoundsAgree
<1> QED BY <1>1, FieldInitInv, FieldNextInv, PTL DEF FieldSpec
-----------------------------------------------------------------------------
(***************************************************************************)
(* SampleTypes: what a datatype says of the bytes of a sample.             *)
(***************************************************************************)
(* FlattenSeq, of one and of two sequences. *)
LEMMA FlattenOne ==
    ASSUME NEW S, NEW a \in Seq(S), NEW seqs, seqs = [k \in 1..1 |-> a]
    PROVE  FlattenSeq(seqs) = a
<1> DEFINE F(f) == f = [i \in 1..Len(seqs) |-> IF i = 1 THEN seqs[i] ELSE f[i - 1] \o seqs[i]]
           g == [i \in 1..1 |-> a]
           h == CHOOSE f : F(f)
<1>1. seqs \in Seq(Seq(S)) /\ Len(seqs) = 1 /\ seqs[1] = a
  OBVIOUS
<1>2. F(g)
  BY <1>1
<1>3. F(h)
  <2>1. \E f : F(f)
    BY <1>2
  <2> HIDE DEF F
  <2> QED
    BY <2>1
<1> HIDE DEF h
<1>4. h[1] = a
  BY <1>1, <1>3
<1> QED
  BY <1>1, <1>4 DEF FlattenSeq, h

(* Two sequences, one after the other. *)
LEMMA FlattenTwo ==
    ASSUME NEW S, NEW a \in Seq(S), NEW b \in Seq(S), NEW seqs,
           seqs \in Seq(Seq(S)), Len(seqs) = 2, seqs[1] = a, seqs[2] = b
    PROVE  FlattenSeq(seqs) = a \o b
<1> DEFINE F(f) == f = [i \in 1..Len(seqs) |-> IF i = 1 THEN seqs[i] ELSE f[i - 1] \o seqs[i]]
           g == [i \in 1..2 |-> IF i = 1 THEN a ELSE a \o b]
           h == CHOOSE f : F(f)
<1>1. F(g)
  OBVIOUS
<1>2. F(h)
  <2>1. \E f : F(f)
    BY <1>1
  <2> HIDE DEF F
  <2> QED
    BY <2>1
<1> HIDE DEF h
<1>3. h[1] = a
  BY <1>2
<1>4. h[2] = h[1] \o b
  <2>1. \A i \in 1..Len(seqs) : h[i] = IF i = 1 THEN seqs[i] ELSE h[i - 1] \o seqs[i]
    BY <1>2, Zenon
  <2>2. 2 \in 1..Len(seqs) /\ 2 # 1 /\ 2 - 1 = 1
    OBVIOUS
  <2>3. h[2] = h[2 - 1] \o seqs[2]
    BY <2>1, <2>2, Zenon
  <2> QED
    BY <2>2, <2>3, Zenon
<1>5. FlattenSeq(seqs) = IF Len(seqs) = 0 THEN seqs ELSE h[Len(seqs)]
  BY DEF FlattenSeq, h
<1>6. Len(seqs) # 0
  OBVIOUS
<1> QED
  BY <1>3, <1>4, <1>5, <1>6, Zenon

(* Two sequences of the same length, one after the other. *)
LEMMA TwoBlocks ==
    ASSUME NEW S, NEW a \in Seq(S), NEW b \in Seq(S), NEW w \in Nat \ {0}, Len(a) = w, Len(b) = w
    PROVE  /\ a \o b \in Seq(S) /\ Len(a \o b) = w + w
           /\ SubSeq(a \o b, 1, w) = a /\ SubSeq(a \o b, w + 1, w + w) = b
<1>1. a \o b \in Seq(S) /\ Len(a \o b) = w + w
  BY ConcatProperties
<1>2. SubSeq(a \o b, 1, w) = a
  <2>1. 1 \in 1..Len(a) /\ w \in 1..Len(a)
    OBVIOUS
  <2>2. SubSeq(a \o b, 1, w) = SubSeq(a, 1, w)
    BY <2>1, SubSeqOfConcat1
  <2> QED
    BY <2>2, SubSeqFull
<1>3. SubSeq(a \o b, w + 1, w + w) = b
  <2>1. w + 1 \in Len(a) + 1 .. Len(a) + Len(b) /\ w + w \in Len(a) + 1 .. Len(a) + Len(b)
    OBVIOUS
  <2>2. SubSeq(a \o b, w + 1, w + w) = SubSeq(b, (w + 1) - Len(a), (w + w) - Len(a))
    BY <2>1, SubSeqOfConcat2
  <2>3. (w + 1) - Len(a) = 1 /\ (w + w) - Len(a) = Len(b)
    OBVIOUS
  <2> QED
    BY <2>2, <2>3, SubSeqFull
<1> QED
  BY <1>1, <1>2, <1>3
-----------------------------------------------------------------------------
(* A datatype that the parser may return: its numbers, their width and the *)
(* type that get_samples reads them as.                                    *)
Parsable(n) == ~refused_name(n)

(* Its width is a power of two, and that of the type it is read as.        *)
LEMMA ParsedSizes ==
    ASSUME NEW n, Parsable(n)
    PROVE  LET d == parsed(n)
           IN  /\ d.primitive_byte_count \in {1, 2, 4, 8}
               /\ primitives_per_sample(d) \in {1, 2}
               /\ loaded_as(d).size = d.primitive_byte_count
               /\ loaded_as(d).numbers = primitives_per_sample(d)
               /\ d.endianness \in {"LITTLE", "BIG"}
               /\ matches_schema(n)
<1> DEFINE d == parsed(n)
<1>1. n.prefix \in {"r", "c"} /\ n.type \in Primitives \cup ByteTypes
  BY DEF Parsable, refused_name
<1>2. /\ d.sampletype = n.type /\ d.primitive_byte_count = primitive_byte_count(n.type)
      /\ d.endianness \in {"LITTLE", "BIG"}
  BY DEF parsed
<1>3. loaded_as(d).numbers = primitives_per_sample(d) /\ primitives_per_sample(d) \in {1, 2}
  BY DEF loaded_as, primitives_per_sample
<1> HIDE DEF d
<1>4. d.primitive_byte_count \in {1, 2, 4, 8} /\ loaded_as(d).size = d.primitive_byte_count
  <2>1. CASE n.type \in ByteTypes
    <3>1. primitive_byte_count(n.type) = 1
      BY <2>1 DEF primitive_byte_count, ByteTypes, Primitives
    <3>2. loaded_as(d).size = 1
      BY <1>2, <2>1 DEF loaded_as, ByteTypes, Primitives
    <3> QED
      BY <1>2, <3>1, <3>2
  <2>2. CASE n.type \in {"i16", "u16"}
    <3>1. primitive_byte_count(n.type) = 2
      BY <2>2 DEF primitive_byte_count, ByteTypes, Primitives
    <3>2. loaded_as(d).size = 2
      BY <1>2, <2>2 DEF loaded_as, ByteTypes, Primitives
    <3> QED
      BY <1>2, <3>1, <3>2
  <2>3. CASE n.type \in {"f32", "i32", "u32"}
    <3>1. primitive_byte_count(n.type) = 4
      BY <2>3 DEF primitive_byte_count, ByteTypes, Primitives
    <3>2. loaded_as(d).size = 4
      BY <1>2, <2>3 DEF loaded_as, ByteTypes, Primitives
    <3> QED
      BY <1>2, <3>1, <3>2
  <2>4. CASE n.type = "f64"
    <3>1. primitive_byte_count(n.type) = 8
      BY <2>4 DEF primitive_byte_count, ByteTypes, Primitives
    <3>2. loaded_as(d).size = 8
      BY <1>2, <2>4 DEF loaded_as, ByteTypes, Primitives
    <3> QED
      BY <1>2, <3>1, <3>2
  <2> QED
    BY <1>1, <2>1, <2>2, <2>3, <2>4 DEF Primitives
<1>5. matches_schema(n)
  BY <1>1 DEF matches_schema
<1> QED
  BY <1>2, <1>3, <1>4, <1>5 DEF d

(* The bytes of number k as they lie on disk: the one at place p has the   *)
(* significance that belongs there.                                        *)
Significance(order, p, w) == IF order = "LITTLE" THEN p - 1 ELSE w - p

Block(order, w, k) == [p \in 1..w |-> <<k, Significance(order, p, w)>>]

(* The byte at a place is the only one that is written there.              *)
LEMMA Places ==
    ASSUME NEW w \in Nat \ {0}, NEW order \in {"LITTLE", "BIG"}, NEW p \in 1..w
    PROVE  (CHOOSE s \in 0..(w - 1) : Place(order, s, w) = p) = Significance(order, p, w)
<1> DEFINE q == Significance(order, p, w)
<1>1. q \in 0..(w - 1) /\ \A s \in 0..(w - 1) : Place(order, s, w) = p <=> s = q
  BY DEF Place, Significance
<1> QED
  BY <1>1

(* A block is as long as the number is wide. *)
LEMMA BlockSeq ==
    ASSUME NEW w \in Nat \ {0}, NEW order, NEW k \in 1..2
    PROVE  Block(order, w, k) \in Seq(Nat \X Int) /\ Len(Block(order, w, k)) = w
<1>1. \A p \in 1..w : <<k, Significance(order, p, w)>> \in Nat \X Int
  BY DEF Significance
<1> QED
  BY <1>1 DEF Block

(* The file holds one block, or two, one after the other. *)
LEMMA FileBlocks ==
    ASSUME NEW d, d.primitive_byte_count \in Nat \ {0}, d.endianness \in {"LITTLE", "BIG"},
           NEW N \in 1..2, primitives_per_sample(d) = N
    PROVE  LET w == d.primitive_byte_count
           IN  /\ FileBytes(d) \in Seq(Nat \X Int)
               /\ Len(FileBytes(d)) = N * w
               /\ \A k \in 1..N :
                     SubSeq(FileBytes(d), (k - 1) * w + 1, k * w) = Block(d.endianness, w, k)
<1> DEFINE w == d.primitive_byte_count
           B(k) == Block(d.endianness, w, k)
           blocks == [k \in 1..N |-> B(k)]
<1>1. w \in Nat \ {0} /\ \A k \in 1..2 : B(k) \in Seq(Nat \X Int) /\ Len(B(k)) = w
  BY BlockSeq
<1>2. FileBytes(d) = FlattenSeq(blocks)
  <2>1. ASSUME NEW k \in 1..N
        PROVE  [p \in 1..w |-> <<k, CHOOSE s \in 0..(w - 1) : Place(d.endianness, s, w) = p>>] = B(k)
    <3>1. \A p \in 1..w : (CHOOSE s \in 0..(w - 1) : Place(d.endianness, s, w) = p) = Significance(d.endianness, p, w)
      BY <1>1, Places
    <3> QED
      BY <3>1 DEF Block
  <2> QED
    BY <2>1 DEF FileBytes
<1>3. CASE N = 1
  <2>1. FileBytes(d) = B(1)
    <3>1. blocks = [k \in 1..1 |-> B(1)]
      BY <1>3
    <3> HIDE DEF B, blocks
    <3>2. FlattenSeq(blocks) = B(1)
      BY <1>1, <3>1, FlattenOne
    <3> QED
      BY <1>2, <3>2
  <2> HIDE DEF B, blocks, w
  <2>2. SubSeq(B(1), 1, w) = B(1)
    BY <1>1, SubSeqFull
  <2>3. \A k \in 1..N : k = 1 /\ (k - 1) * w + 1 = 1 /\ k * w = w
    BY <1>1, <1>3
  <2>4. N * w = w
    BY <1>1, <1>3
  <2>5. \A k \in 1..N : SubSeq(FileBytes(d), (k - 1) * w + 1, k * w) = B(k)
    BY <2>1, <2>2, <2>3
  <2>6. FileBytes(d) \in Seq(Nat \X Int) /\ Len(FileBytes(d)) = N * w
    BY <1>1, <2>1, <2>4
  <2> QED
    BY <2>5, <2>6 DEF B, w
<1>4. CASE N = 2
  <2> DEFINE Bs == Nat \X Int
  <2>0. /\ \A k \in 1..2 : B(k) \in Seq(Bs)
        /\ Len(B(1)) = w /\ Len(B(2)) = w /\ w \in Nat \ {0}
    BY <1>1
  <2> HIDE DEF B, Bs, w
  <2>1. PICK a, b \in Seq(Bs) : a = B(1) /\ b = B(2)
    BY <2>0
  <2>2. FileBytes(d) = a \o b
    <3>1. blocks \in Seq(Seq(Bs)) /\ Len(blocks) = 2 /\ blocks[1] = a /\ blocks[2] = b
      BY <1>4, <2>0, <2>1
    <3> HIDE DEF blocks
    <3>2. FlattenSeq(blocks) = a \o b
      BY <3>1, FlattenTwo
    <3> QED
      BY <1>2, <3>2
  <2>3. /\ a \o b \in Seq(Bs) /\ Len(a \o b) = w + w
        /\ SubSeq(a \o b, 1, w) = a /\ SubSeq(a \o b, w + 1, w + w) = b
    <3>1. Len(a) = w /\ Len(b) = w /\ w \in Nat \ {0}
      BY <2>0, <2>1
    <3>2. PICK width \in Nat \ {0} : width = w
      BY <3>1
    <3>3. Len(a) = width /\ Len(b) = width
      BY <3>1, <3>2
    <3>4. /\ a \o b \in Seq(Bs) /\ Len(a \o b) = width + width
          /\ SubSeq(a \o b, 1, width) = a /\ SubSeq(a \o b, width + 1, width + width) = b
      <4>1. PICK S : S = Bs
        OBVIOUS
      <4>2. a \in Seq(S) /\ b \in Seq(S)
        BY <4>1
      <4>3. a \o b \in Seq(S) /\ Len(a \o b) = width + width
        <5>1. a \o b \in Seq(S)
          BY <4>2, ConcatProperties
        <5>2. Len(a \o b) = Len(a) + Len(b)
          BY <4>2, ConcatProperties
        <5> QED
          BY <3>3, <5>1, <5>2
      <4>4. SubSeq(a \o b, 1, width) = a
        BY <3>3, <4>2, TwoBlocks
      <4>5. SubSeq(a \o b, width + 1, width + width) = b
        BY <3>3, <4>2, TwoBlocks
      <4> QED
        BY <4>1, <4>3, <4>4, <4>5
    <3> QED
      BY <3>2, <3>4
  <2>4. N * w = w + w
    BY <1>4, <2>0
  <2>5. /\ FileBytes(d) \in Seq(Bs) /\ Len(FileBytes(d)) = N * w
        /\ SubSeq(FileBytes(d), 1, w) = B(1) /\ SubSeq(FileBytes(d), w + 1, w + w) = B(2)
    BY <2>1, <2>2, <2>3, <2>4
  <2>6. ASSUME NEW k \in 1..N PROVE SubSeq(FileBytes(d), (k - 1) * w + 1, k * w) = B(k)
    <3>1. CASE k = 1
      <4>1. (k - 1) * w + 1 = 1 /\ k * w = w
        BY <2>0, <3>1
      <4> QED
        BY <2>5, <3>1, <4>1
    <3>2. CASE k = 2
      <4>1. (k - 1) * w + 1 = w + 1 /\ k * w = w + w
        BY <2>0, <3>2
      <4> QED
        BY <2>5, <3>2, <4>1
    <3> QED
      BY <1>4, <3>1, <3>2
  <2> QED
    BY <2>5, <2>6 DEF B, Bs, w
<1>5. N = 1 \/ N = 2
  OBVIOUS
<1> QED
  BY <1>3, <1>4, <1>5, Zenon

(* The byte of significance s, where each order puts it. *)
LEMMA ByteInBlock ==
    ASSUME NEW w \in Nat \ {0}, NEW order \in {"LITTLE", "BIG"},
           NEW k \in 1..2, NEW s \in 0..(w - 1)
    PROVE  /\ Place(order, s, w) \in 1..w
           /\ Block(order, w, k)[Place(order, s, w)] = <<k, s>>
<1>1. Place(order, s, w) \in 1..w /\ Significance(order, Place(order, s, w), w) = s
  BY DEF Place, Significance
<1> QED
  BY <1>1 DEF Block

(* The byte of significance s, after a swap, where the other order puts it. *)
LEMMA ByteInSwapped ==
    ASSUME NEW w \in Nat \ {0}, NEW order \in {"LITTLE", "BIG"}, NEW other \in {"LITTLE", "BIG"},
           order # other, NEW k \in 1..2, NEW s \in 0..(w - 1)
    PROVE  Reverse(Block(order, w, k))[Place(other, s, w)] = <<k, s>>
<1>1. /\ Place(other, s, w) \in 1..w
      /\ (w - Place(other, s, w)) + 1 = Place(order, s, w)
  BY DEF Place
<1>2. Len(Block(order, w, k)) = w
  BY BlockSeq
<1>3. Reverse(Block(order, w, k))[Place(other, s, w)] = Block(order, w, k)[(w - Place(other, s, w)) + 1]
  BY <1>1, <1>2 DEF Reverse
<1>4. Block(order, w, k)[Place(order, s, w)] = <<k, s>>
  BY ByteInBlock
<1> QED
  BY <1>1, <1>3, <1>4, Zenon

(* load_samples: what is read, swapped if need be, is what was written.    *)
LEMMA LoadDecodes ==
    ASSUME NEW d, d.primitive_byte_count \in Nat \ {0}, d.endianness \in {"LITTLE", "BIG"},
           primitives_per_sample(d) \in 1..2, machine \in {"LITTLE", "BIG"},
           NEW t, t.size = d.primitive_byte_count, t.numbers = primitives_per_sample(d)
    PROVE  LET value == value_at(FileBytes(d), t)
           IN  as_numbers(IF d.endianness # machine THEN byte_swap(value) ELSE value, t) = Written(d)
<1> DEFINE w == d.primitive_byte_count
           N == primitives_per_sample(d)
           e == d.endianness
           value == value_at(FileBytes(d), t)
           read == IF e # machine THEN byte_swap(value) ELSE value
<1>1. w \in Nat \ {0} /\ N \in 1..2 /\ e \in {"LITTLE", "BIG"}
  OBVIOUS
<1>2. value = [k \in 1..N |-> Block(e, w, k)]
  BY FileBlocks DEF value_at
<1> HIDE DEF value
<1>3. DOMAIN read = 1..N /\ \A k \in 1..N : read[k] = IF e # machine THEN Reverse(Block(e, w, k)) ELSE Block(e, w, k)
  BY <1>2 DEF byte_swap
<1> HIDE DEF read, w, N, e
<1>4. ASSUME NEW k \in 1..N, NEW s \in 0..(w - 1)
      PROVE  read[k][Place(machine, s, w)] = <<k, s>>
  <2>1. k \in 1..2
    BY <1>1
  <2>2. CASE e # machine
    <3>1. read[k] = Reverse(Block(e, w, k))
      BY <1>3, <2>2
    <3>2. Reverse(Block(e, w, k))[Place(machine, s, w)] = <<k, s>>
      BY <1>1, <2>1, <2>2, ByteInSwapped
    <3> QED
      BY <3>1, <3>2, Zenon
  <2>3. CASE e = machine
    <3>1. read[k] = Block(e, w, k)
      BY <1>3, <2>3
    <3>2. Place(e, s, w) \in 1..w /\ Block(e, w, k)[Place(e, s, w)] = <<k, s>>
      BY <1>1, <2>1, ByteInBlock
    <3> QED
      BY <2>3, <3>1, <3>2, Zenon
  <2> QED
    BY <2>2, <2>3
<1>5. as_numbers(read, t) = [k \in 1..N |-> [s \in 0..(w - 1) |-> <<k, s>>]]
  BY <1>3, <1>4 DEF as_numbers, w
<1> QED
  BY <1>5 DEF Written, read, value, w, N, e
-----------------------------------------------------------------------------
(* What the sample is converted to: Q = 0 is added where it was real.      *)
Converted(s) == IF Len(s) = 1 /\ wanted = "complex" THEN Append(s, Zero) ELSE s

(* The inductive invariant: what was made of the name, and of the bytes.   *)
SampleInv ==
    /\ machine \in {"LITTLE", "BIG"} /\ wanted \in {"real", "complex"}
    /\ pc \in {"parse", "load", "convert", "returned", "threw"}
    /\ pc \in {"load", "convert", "returned"} =>
          Parsable(name) /\ datatype = parsed(name) /\ disk = FileBytes(datatype)
    /\ pc = "convert" => sample = Written(datatype)
    /\ pc = "returned" =>
          /\ sample = Converted(Written(datatype))
          /\ wanted = "real" => Len(Written(datatype)) = 1

(* Nothing is loaded at first. *)
LEMMA SampleInitInv == SampleInit => SampleInv
BY SampleTypesAssumption DEF SampleInit, SampleInv

(* The numbers that were written are one or two. *)
LEMMA WrittenNumbers ==
    ASSUME NEW n, Parsable(n)
    PROVE  LET d == parsed(n)
           IN  /\ Written(d) \in Seq([0..(d.primitive_byte_count - 1) -> (1..2) \X Nat])
               /\ Len(Written(d)) = primitives_per_sample(d) /\ primitives_per_sample(d) \in 1..2
<1> DEFINE d == parsed(n)
           w == d.primitive_byte_count
           N == primitives_per_sample(d)
           T == [0..(w - 1) -> (1..2) \X Nat]
<1>1. N \in 1..2 /\ w \in Nat \ {0}
  BY ParsedSizes
<1>2. ASSUME NEW k \in 1..N PROVE [s \in 0..(w - 1) |-> <<k, s>>] \in T
  <2>1. k \in 1..2 /\ \A s \in 0..(w - 1) : s \in Nat
    BY <1>1
  <2> QED
    BY <2>1
<1> HIDE DEF T
<1>3. Written(d) = [k \in 1..N |-> [s \in 0..(w - 1) |-> <<k, s>>]]
  BY DEF Written
<1> HIDE DEF N, w, d
<1>4. Written(d) \in [1..N -> T]
  BY <1>2, <1>3
<1>5. Written(d) \in Seq(T) /\ Len(Written(d)) = N
  BY <1>1, <1>4
<1> QED
  BY <1>1, <1>5 DEF T, w, N, d

(* Parsing, loading and converting keep the invariant.                     *)
LEMMA SampleNextInv == SampleInv /\ [SampleNext]_sampleVars => SampleInv'
<1> SUFFICES ASSUME SampleInv, [SampleNext]_sampleVars PROVE SampleInv'
  OBVIOUS
<1>0. machine \in {"LITTLE", "BIG"} /\ wanted \in {"real", "complex"}
  BY DEF SampleInv
<1>1. CASE Parse
  <2>0. name' = name /\ machine' = machine /\ wanted' = wanted
    BY <1>1 DEF Parse
  <2>1. CASE refused_name(name)
    BY <1>0, <1>1, <2>0, <2>1 DEF Parse, SampleInv
  <2>2. CASE ~refused_name(name)
    <3>1. pc' = "load" /\ datatype' = parsed(name) /\ disk' = FileBytes(parsed(name))
      BY <1>1, <2>2 DEF Parse
    <3>2. Parsable(name)
      BY <2>2 DEF Parsable
    <3>3. Parsable(name') /\ datatype' = parsed(name') /\ disk' = FileBytes(datatype')
      BY <2>0, <3>1, <3>2
    <3> QED
      BY <1>0, <2>0, <3>1, <3>3 DEF SampleInv
  <2> QED
    BY <2>1, <2>2
<1>2. CASE Load
  <2>0. /\ name' = name /\ machine' = machine /\ wanted' = wanted
        /\ datatype' = datatype /\ disk' = disk /\ pc = "load"
    BY <1>2 DEF Load
  <2>1. Parsable(name) /\ datatype = parsed(name) /\ disk = FileBytes(datatype)
    BY <2>0 DEF SampleInv
  <2> DEFINE t == loaded_as(datatype)
             value == value_at(disk, t)
             got == as_numbers(IF datatype.endianness # machine THEN byte_swap(value) ELSE value, t)
  <2>2. pc' = "threw" \/ (pc' = "convert" /\ sample' = got)
    BY <1>2 DEF Load
  <2>3. got = Written(datatype)
    <3>1. /\ datatype.primitive_byte_count \in Nat \ {0} /\ datatype.endianness \in {"LITTLE", "BIG"}
          /\ primitives_per_sample(datatype) \in 1..2
          /\ t.size = datatype.primitive_byte_count /\ t.numbers = primitives_per_sample(datatype)
      BY <2>1, ParsedSizes
    <3> HIDE DEF t
    <3> QED
      BY <1>0, <2>1, <3>1, LoadDecodes
  <2> HIDE DEF got
  <2>4. sample' = got => sample' = Written(datatype')
    BY <2>0, <2>3
  <2>5. Parsable(name') /\ datatype' = parsed(name') /\ disk' = FileBytes(datatype')
    BY <2>0, <2>1
  <2> QED
    BY <1>0, <2>0, <2>2, <2>4, <2>5 DEF SampleInv
<1>3. CASE Convert
  <2>0. /\ name' = name /\ machine' = machine /\ wanted' = wanted
        /\ datatype' = datatype /\ disk' = disk /\ pc = "convert"
    BY <1>3 DEF Convert
  <2>1. Parsable(name) /\ datatype = parsed(name) /\ disk = FileBytes(datatype) /\ sample = Written(datatype)
    BY <2>0 DEF SampleInv
  <2>2. \/ pc' = "threw"
        \/ pc' = "returned" /\ sample' = Converted(sample) /\ ~(Len(sample) = 2 /\ wanted = "real")
    BY <1>3 DEF Convert, Converted
  <2>3. Len(Written(datatype)) = 1 \/ Len(Written(datatype)) = 2
    <3>1. Len(Written(datatype)) \in 1..2
      BY <2>1, WrittenNumbers
    <3> QED
      BY <3>1
  <2>4. pc' = "returned" => /\ sample' = Converted(Written(datatype))'
                            /\ wanted' = "real" => Len(Written(datatype')) = 1
    <3>1. Converted(Written(datatype))' = Converted(Written(datatype))
      BY <2>0 DEF Converted
    <3> QED
      BY <2>0, <2>1, <2>2, <2>3, <3>1
  <2>5. Parsable(name') /\ datatype' = parsed(name') /\ disk' = FileBytes(datatype')
    BY <2>0, <2>1
  <2> QED
    BY <1>0, <2>0, <2>2, <2>4, <2>5 DEF SampleInv
<1>4. CASE UNCHANGED sampleVars
  BY <1>4 DEF sampleVars, SampleInv, Converted
<1> QED
  BY <1>1, <1>2, <1>3, <1>4 DEF SampleNext

(* get_samples: for every datatype the parser accepts, on machines of both *)
(* byte orders, the numbers that come out are those that were written.     *)
THEOREM AlwaysDecodesWhatWasWritten == SampleSpec => []DecodesWhatWasWritten
<1>1. SampleInv => DecodesWhatWasWritten
  <2> SUFFICES ASSUME SampleInv, pc = "returned"
               PROVE  /\ Len(sample) = IF wanted = "complex" THEN 2 ELSE 1
                      /\ SubSeq(sample, 1, primitives_per_sample(datatype)) = Written(datatype)
    BY DEF SampleInv, DecodesWhatWasWritten
  <2>1. /\ Parsable(name) /\ datatype = parsed(name) /\ wanted \in {"real", "complex"}
        /\ sample = Converted(Written(datatype))
        /\ wanted = "real" => Len(Written(datatype)) = 1
    BY DEF SampleInv
  <2> DEFINE T == [0..(datatype.primitive_byte_count - 1) -> (1..2) \X Nat]
             x == Written(datatype)
             N == primitives_per_sample(datatype)
  <2>2. x \in Seq(T) /\ Len(x) = N /\ N \in 1..2
    BY <2>1, WrittenNumbers
  <2> HIDE DEF T, x, N
  <2>3. SubSeq(x, 1, N) = x
    BY <2>2, SubSeqFull
  <2>4. CASE N = 1 /\ wanted = "complex"
    <3> DEFINE U == T \cup {Zero}
    <3>1. sample = Append(x, Zero)
      BY <2>1, <2>2, <2>4 DEF Converted, x
    <3>2. x \in Seq(U) /\ Zero \in U
      BY <2>2
    <3> HIDE DEF U
    <3>3. Len(sample) = 2 /\ sample \in Seq(U) /\ sample[1] = x[1]
      <4>1. /\ Append(x, Zero) \in Seq(U) /\ Len(Append(x, Zero)) = Len(x) + 1
            /\ \A i \in 1..Len(x) : Append(x, Zero)[i] = x[i]
        BY <3>2, AppendProperties
      <4>2. Len(x) = 1
        BY <2>2, <2>4
      <4> QED
        BY <3>1, <4>1, <4>2
    <3>4. SubSeq(sample, 1, 1) = x
      <4>1. \A i \in 1..1 : sample[i] \in U
        BY <3>3, ElementOfSeq
      <4>2. /\ SubSeq(sample, 1, 1) \in Seq(U) /\ Len(SubSeq(sample, 1, 1)) = 1
            /\ SubSeq(sample, 1, 1)[1] = sample[1]
        BY <4>1, SubSeqProperties
      <4> QED
        BY <2>2, <2>4, <3>2, <3>3, <4>2, SeqEqual
    <3> QED
      BY <2>4, <3>3, <3>4 DEF N, x
  <2>5. CASE ~(N = 1 /\ wanted = "complex")
    <3>1. sample = x
      BY <2>1, <2>2, <2>5 DEF Converted, x
    <3>2. Len(x) = IF wanted = "complex" THEN 2 ELSE 1
      BY <2>1, <2>2, <2>5 DEF x
    <3> QED
      BY <2>3, <3>1, <3>2 DEF N, x
  <2> QED
    BY <2>4, <2>5
<1> QED
  BY <1>1, SampleInitInv, SampleNextInv, PTL DEF SampleSpec

(* Datatype and get_samples: the size of the C++ type that is read, the    *)
(* parser's count of the bytes of a sample and the bytes on disk agree.    *)
THEOREM SizesAlwaysAgree == SampleSpec => []SizesAgree
<1>1. SampleInv => SizesAgree
  <2> SUFFICES ASSUME Parsable(name), datatype = parsed(name), disk = FileBytes(datatype)
               PROVE  /\ loaded_as(datatype).size * loaded_as(datatype).numbers = bytes_per_sample(datatype)
                      /\ bytes_per_sample(datatype) = Len(disk)
    BY DEF SampleInv, SizesAgree
  <2> DEFINE w == datatype.primitive_byte_count
             N == primitives_per_sample(datatype)
  <2>1. /\ w \in Nat \ {0} /\ N \in 1..2 /\ datatype.endianness \in {"LITTLE", "BIG"}
        /\ loaded_as(datatype).size = w /\ loaded_as(datatype).numbers = N
    BY ParsedSizes
  <2>2. Len(disk) = N * w
    BY <2>1, FileBlocks
  <2>3. bytes_per_sample(datatype) = w * N
    BY DEF bytes_per_sample
  <2> HIDE DEF w, N
  <2>4. N * w = w * N
    BY <2>1
  <2> QED
    BY <2>1, <2>2, <2>3, <2>4
<1> QED
  BY <1>1, SampleInitInv, SampleNextInv, PTL DEF SampleSpec

(* Datatype's parser accepts only what the schema's pattern accepts.       *)
THEOREM ParserAlwaysWithinSchema == SampleSpec => []ParserWithinSchema
<1>1. SampleInv => ParserWithinSchema
  BY ParsedSizes DEF SampleInv, ParserWithinSchema
<1> QED
  BY <1>1, SampleInitInv, SampleNextInv, PTL DEF SampleSpec
-----------------------------------------------------------------------------
(***************************************************************************)
(* Datetime: the fields of a time point and the order of two.              *)
(***************************************************************************)
(* Every set of naturals that has an element has a least one. *)
LEMMA LeastNatural ==
    ASSUME NEW T, T \subseteq Nat, T # {}
    PROVE  \E n \in T : \A m \in T : n <= m
<1>1. PICK n \in T : \A m \in T : ~(<<m, n>> \in OpToRel(<, Nat))
  BY NatLessThanWellFounded, WFMin, Zenon
<1>2. ASSUME NEW m \in T PROVE n <= m
  <2>1. ~(m < n)
    BY <1>1 DEF OpToRel
  <2> QED
    BY <2>1
<1> QED
  BY <1>2

(* A function that starts with c, is multiplied by b and added to at each  *)
(* place: the recursive functions of Datetime are such functions.          *)
Recurrence(f, lo, hi, c, b, d) ==
    /\ f \in [lo..hi -> Nat]
    /\ f[lo] = c
    /\ \A k \in (lo + 1)..hi : f[k] = b * f[k - 1] + d[k]

(* There is one, as far as its places go. *)
LEMMA RecurrenceExists ==
    ASSUME NEW lo \in Nat, NEW hi \in Nat, lo <= hi, NEW c \in Nat, NEW b \in Nat,
           NEW d, \A k \in (lo + 1)..hi : d[k] \in Nat
    PROVE  \E f : Recurrence(f, lo, hi, c, b, d)
<1> DEFINE T == { n \in lo..hi : ~ \E f : Recurrence(f, lo, n, c, b, d) }
<1>1. SUFFICES T = {}
  BY DEF T
<1>2. SUFFICES ASSUME T # {} PROVE FALSE
  OBVIOUS
<1>3. PICK n \in T : \A m \in T : n <= m
  <2>1. T \subseteq Nat
    OBVIOUS
  <2> HIDE DEF T
  <2> QED
    BY <1>2, <2>1, LeastNatural
<1>4. n \in lo..hi /\ ~ \E f : Recurrence(f, lo, n, c, b, d)
  OBVIOUS
<1>5. CASE n = lo
  <2> DEFINE f == [k \in lo..n |-> c]
  <2>1. Recurrence(f, lo, n, c, b, d)
    BY <1>5 DEF Recurrence
  <2> QED
    BY <1>4, <2>1
<1>6. CASE n # lo
  <2>1. n - 1 \in lo..hi /\ n - 1 \notin T
    BY <1>3, <1>4, <1>6
  <2>2. PICK g : Recurrence(g, lo, n - 1, c, b, d)
    BY <2>1
  <2>3. g \in [lo..(n - 1) -> Nat] /\ g[lo] = c /\ \A k \in (lo + 1)..(n - 1) : g[k] = b * g[k - 1] + d[k]
    BY <2>2 DEF Recurrence
  <2>4. PICK x \in Nat : x = b * g[n - 1] + d[n]
    <3>1. n - 1 \in lo..(n - 1) /\ n \in (lo + 1)..hi
      BY <1>4, <1>6
    <3>2. g[n - 1] \in Nat /\ d[n] \in Nat
      BY <2>3, <3>1
    <3> QED
      BY <3>2
  <2> DEFINE f == [k \in lo..n |-> IF k = n THEN x ELSE g[k]]
  <2>5. f \in [lo..n -> Nat]
    <3>1. ASSUME NEW k \in lo..n, k # n PROVE g[k] \in Nat
      BY <1>4, <2>3, <3>1
    <3> QED
      BY <3>1
  <2>6. f[lo] = c
    BY <1>4, <1>6, <2>3
  <2>7. ASSUME NEW k \in (lo + 1)..n PROVE f[k] = b * f[k - 1] + d[k]
    <3>1. k \in lo..n /\ k - 1 \in lo..n /\ k - 1 # n
      BY <1>4
    <3>2. f[k - 1] = g[k - 1]
      BY <3>1
    <3>3. CASE k = n
      BY <2>4, <3>1, <3>2, <3>3
    <3>4. CASE k # n
      <4>1. k \in (lo + 1)..(n - 1)
        BY <1>4, <3>4
      <4> QED
        BY <2>3, <3>1, <3>2, <3>4, <4>1
    <3> QED
      BY <3>3, <3>4
  <2> HIDE DEF f
  <2>8. Recurrence(f, lo, n, c, b, d)
    BY <2>5, <2>6, <2>7 DEF Recurrence
  <2> QED
    BY <1>4, <2>8
<1> QED
  BY <1>5, <1>6

(* At least one decimal is kept. *)
LEMMA SomeDigits == Digits \in Nat \ {0}
BY DatetimeAssumption

(* The digits of a fraction, as many as are kept. *)
LEMMA DigitType ==
    ASSUME NEW digits \in Seq(Digit)
    PROVE  Digits \in Nat \ {0} /\ \A k \in 1..Digits : digit(digits, k) \in 0..9
<1>1. Len(digits) \in Nat /\ \A k \in 1..Len(digits) : digits[k] \in 0..9
  <2>1. Len(digits) \in Nat /\ \A k \in 1..Len(digits) : digits[k] \in Digit
    OBVIOUS
  <2> QED
    BY <2>1 DEF Digit
<1>2. Digits \in Nat \ {0}
  BY SomeDigits
<1>3. ASSUME NEW k \in 1..Digits PROVE digit(digits, k) \in 0..9
  <2>1. CASE k <= Len(digits)
    <3>1. k \in 1..Len(digits)
      BY <1>1, <1>2, <2>1
    <3> QED
      BY <1>1, <2>1, <3>1 DEF digit
  <2>2. CASE ~(k <= Len(digits))
    BY <2>2 DEF digit
  <2> QED
    BY <2>1, <2>2
<1> QED
  BY <1>2, <1>3

(* The numbers that the first digits make: the last one is the fraction.   *)
LEMMA FractionNumbers ==
    ASSUME NEW digits \in Seq(Digit)
    PROVE  \E F : /\ F \in [0..Digits -> Nat] /\ F[0] = 0
                  /\ \A k \in 1..Digits : F[k] = 10 * F[k - 1] + digit(digits, k)
                  /\ F[Digits] = fraction(digits)
<1> DEFINE d == [k \in 1..Digits |-> digit(digits, k)]
           IsFraction(f) == f = [k \in 0..Digits |->
                                   IF k = 0 THEN 0 ELSE 10 * f[k - 1] + digit(digits, k)]
           F == CHOOSE f : IsFraction(f)
<1>1. Digits \in Nat \ {0} /\ \A k \in 1..Digits : digit(digits, k) \in 0..9
  BY DigitType
<1>2. PICK g : Recurrence(g, 0, Digits, 0, 10, d)
  <2>1. \A k \in (0 + 1)..Digits : d[k] \in Nat
    BY <1>1
  <2>2. 0 \in Nat /\ Digits \in Nat /\ 0 <= Digits /\ 10 \in Nat
    BY <1>1
  <2> HIDE DEF d
  <2> QED
    BY <2>1, <2>2, RecurrenceExists, Zenon
<1>3. IsFraction(g)
  BY <1>1, <1>2 DEF Recurrence
<1>4. IsFraction(F)
  <2> HIDE DEF IsFraction
  <2> QED
    BY <1>3
<1>5. fraction(digits) = F[Digits]
  BY DEF fraction
<1> HIDE DEF F
<1>6. /\ DOMAIN F = 0..Digits
      /\ \A k \in 0..Digits : F[k] = IF k = 0 THEN 0 ELSE 10 * F[k - 1] + digit(digits, k)
  BY <1>4
<1>7. F[0] = 0 /\ \A k \in 1..Digits : F[k] = 10 * F[k - 1] + digit(digits, k)
  BY <1>1, <1>6
<1>8. \A k \in 0..Digits : F[k] \in Nat
  <2> DEFINE T == { k \in 0..Digits : F[k] \notin Nat }
  <2>1. SUFFICES ASSUME T # {} PROVE FALSE
    OBVIOUS
  <2>2. PICK n \in T : \A m \in T : n <= m
    <3>1. T \subseteq Nat
      BY <1>1
    <3> HIDE DEF T
    <3> QED
      BY <2>1, <3>1, LeastNatural
  <2>3. n \in 1..Digits /\ n - 1 \in 0..Digits /\ n - 1 \notin T
    BY <1>1, <1>7, <2>2
  <2>4. F[n - 1] \in Nat /\ digit(digits, n) \in Nat
    BY <1>1, <2>3
  <2> QED
    BY <1>7, <2>3, <2>4
<1>9. F \in [0..Digits -> Nat]
  <2>1. F = [k \in 0..Digits |-> F[k]]
    BY <1>4, <1>6, Zenon
  <2> QED
    BY <1>8, <2>1
<1> QED
  BY <1>5, <1>7, <1>9

(* The powers of ten. *)
LEMMA Powers ==
    LET p == PowersOfTen
    IN  /\ p \in [0..Digits -> Nat \ {0}] /\ p[0] = 1
        /\ \A k \in 1..Digits : p[k] = 10 * p[k - 1]
<1> DEFINE d == [k \in 1..Digits |-> 0]
           IsPower(f) == f = [k \in 0..Digits |-> IF k = 0 THEN 1 ELSE 10 * f[k - 1]]
           p == CHOOSE f : IsPower(f)
<1>1. Digits \in Nat \ {0}
  BY SomeDigits
<1>2. PICK g : Recurrence(g, 0, Digits, 1, 10, d)
  <2>1. \A k \in (0 + 1)..Digits : d[k] \in Nat
    BY <1>1
  <2>2. 0 \in Nat /\ Digits \in Nat /\ 0 <= Digits /\ 10 \in Nat /\ 1 \in Nat
    BY <1>1
  <2> HIDE DEF d
  <2> QED
    BY <2>1, <2>2, RecurrenceExists, Zenon
<1>3. IsPower(g)
  BY <1>1, <1>2 DEF Recurrence
<1>4. IsPower(p)
  <2> HIDE DEF IsPower
  <2> QED
    BY <1>3
<1>5. PowersOfTen = p
  BY DEF PowersOfTen
<1> HIDE DEF p
<1>6. /\ DOMAIN p = 0..Digits
      /\ \A k \in 0..Digits : p[k] = IF k = 0 THEN 1 ELSE 10 * p[k - 1]
  BY <1>4
<1>7. p[0] = 1 /\ \A k \in 1..Digits : p[k] = 10 * p[k - 1]
  BY <1>1, <1>6
<1>8. \A k \in 0..Digits : p[k] \in Nat \ {0}
  <2> DEFINE T == { k \in 0..Digits : p[k] \notin Nat \ {0} }
  <2>1. SUFFICES ASSUME T # {} PROVE FALSE
    OBVIOUS
  <2>2. PICK n \in T : \A m \in T : n <= m
    <3>1. T \subseteq Nat
      BY <1>1
    <3> HIDE DEF T
    <3> QED
      BY <2>1, <3>1, LeastNatural
  <2>3. n \in 1..Digits /\ n - 1 \in 0..Digits /\ n - 1 \notin T
    BY <1>1, <1>7, <2>2
  <2>4. p[n - 1] \in Nat \ {0}
    BY <2>3
  <2> QED
    BY <1>7, <2>3, <2>4
<1>9. p \in [0..Digits -> Nat \ {0}]
  <2>1. p = [k \in 0..Digits |-> p[k]]
    BY <1>4, <1>6, Zenon
  <2> QED
    BY <1>8, <2>1
<1> QED
  BY <1>5, <1>7, <1>9

(* The days before a month, as a table: L is 1 in a leap year.             *)
LEMMA MonthTable ==
    ASSUME NEW y \in Nat
    PROVE  LET L == IF IsLeapYear(y) THEN 1 ELSE 0
           IN  /\ DaysBeforeMonth(y, 1) = 0 /\ DaysBeforeMonth(y, 2) = 31
               /\ DaysBeforeMonth(y, 3) = 59 + L /\ DaysBeforeMonth(y, 4) = 90 + L
               /\ DaysBeforeMonth(y, 5) = 120 + L /\ DaysBeforeMonth(y, 6) = 151 + L
               /\ DaysBeforeMonth(y, 7) = 181 + L /\ DaysBeforeMonth(y, 8) = 212 + L
               /\ DaysBeforeMonth(y, 9) = 243 + L /\ DaysBeforeMonth(y, 10) = 273 + L
               /\ DaysBeforeMonth(y, 11) = 304 + L /\ DaysBeforeMonth(y, 12) = 334 + L
<1> DEFINE L == IF IsLeapYear(y) THEN 1 ELSE 0
           IsDays(f) == f = [n \in 1..12 |-> IF n = 1 THEN 0 ELSE f[n - 1] + DaysIn(y, n - 1)]
           days == CHOOSE f : IsDays(f)
           d == [n \in 2..12 |-> DaysIn(y, n - 1)]
<1>1. \A n \in 1..12 : DaysIn(y, n) \in Nat
  BY DEF DaysIn
<1>2. PICK g : Recurrence(g, 1, 12, 0, 1, d)
  <2>1. \A n \in (1 + 1)..12 : d[n] \in Nat
    BY <1>1
  <2> HIDE DEF d
  <2>2. PICK lo \in Nat, hi \in Nat : lo = 1 /\ hi = 12
    OBVIOUS
  <2>3. lo <= hi /\ 0 \in Nat /\ 1 \in Nat /\ \A n \in (lo + 1)..hi : d[n] \in Nat
    BY <2>1, <2>2
  <2>4. \E g : Recurrence(g, lo, hi, 0, 1, d)
    BY <2>3, RecurrenceExists, Zenon
  <2> QED
    BY <2>2, <2>4
<1>3. IsDays(g)
  <2>1. g \in [1..12 -> Nat] /\ g[1] = 0 /\ \A n \in 2..12 : g[n] = g[n - 1] + DaysIn(y, n - 1)
    BY <1>2 DEF Recurrence
  <2> QED
    BY <2>1
<1>4. IsDays(days)
  <2> HIDE DEF IsDays
  <2> QED
    BY <1>3
<1>5. \A m : DaysBeforeMonth(y, m) = days[m]
  BY DEF DaysBeforeMonth
<1> HIDE DEF days
<1>6. days[1] = 0 /\ \A n \in 1..11 : days[n + 1] = days[n] + DaysIn(y, n)
  <2>1. \A n \in 1..12 : days[n] = IF n = 1 THEN 0 ELSE days[n - 1] + DaysIn(y, n - 1)
    BY <1>4
  <2>2. ASSUME NEW n \in 1..11 PROVE n + 1 \in 1..12 /\ n + 1 # 1 /\ (n + 1) - 1 = n
    OBVIOUS
  <2> QED
    BY <2>1, <2>2
<1>7. /\ DaysIn(y, 1) = 31 /\ DaysIn(y, 2) = 28 + L /\ DaysIn(y, 3) = 31 /\ DaysIn(y, 4) = 30
      /\ DaysIn(y, 5) = 31 /\ DaysIn(y, 6) = 30 /\ DaysIn(y, 7) = 31 /\ DaysIn(y, 8) = 31
      /\ DaysIn(y, 9) = 30 /\ DaysIn(y, 10) = 31 /\ DaysIn(y, 11) = 30
  BY DEF DaysIn
<1>8. L \in 0..1
  OBVIOUS
<1> HIDE DEF L
<1>9. /\ days[2] = 31 /\ days[3] = 59 + L /\ days[4] = 90 + L /\ days[5] = 120 + L
      /\ days[6] = 151 + L /\ days[7] = 181 + L /\ days[8] = 212 + L /\ days[9] = 243 + L
      /\ days[10] = 273 + L /\ days[11] = 304 + L /\ days[12] = 334 + L
  <2>1. /\ days[1 + 1] = days[1] + DaysIn(y, 1) /\ days[2 + 1] = days[2] + DaysIn(y, 2)
        /\ days[3 + 1] = days[3] + DaysIn(y, 3) /\ days[4 + 1] = days[4] + DaysIn(y, 4)
        /\ days[5 + 1] = days[5] + DaysIn(y, 5) /\ days[6 + 1] = days[6] + DaysIn(y, 6)
        /\ days[7 + 1] = days[7] + DaysIn(y, 7) /\ days[8 + 1] = days[8] + DaysIn(y, 8)
        /\ days[9 + 1] = days[9] + DaysIn(y, 9) /\ days[10 + 1] = days[10] + DaysIn(y, 10)
        /\ days[11 + 1] = days[11] + DaysIn(y, 11)
    BY <1>6
  <2> QED
    BY <1>6, <1>7, <1>8, <2>1
<1> QED
  BY <1>5, <1>6, <1>9 DEF L

(* The days that a leap year adds. *)
LeapDays(y) == IF IsLeapYear(y) THEN 1 ELSE 0

(* One division, of a year and of the next. *)
LEMMA DivOfNext ==
    ASSUME NEW y \in Nat, NEW c \in {4, 100, 400}
    PROVE  /\ y \div c \in Int /\ (y - 1) \div c \in Int
           /\ y \div c = (y - 1) \div c + (IF y % c = 0 THEN 1 ELSE 0)
<1>1. CASE c = 4
  BY <1>1
<1>2. CASE c = 100
  BY <1>2
<1>3. CASE c = 400
  BY <1>3
<1> QED
  BY <1>1, <1>2, <1>3

(* A year has 365 days, and one more in a leap year. *)
LEMMA YearLength ==
    ASSUME NEW y \in Nat
    PROVE  /\ DaysBeforeYear(y) \in Int
           /\ LeapDays(y) \in 0..1
           /\ DaysBeforeYear(y + 1) = DaysBeforeYear(y) + 365 + LeapDays(y)
<1>1. /\ y \div 4 \in Int /\ (y - 1) \div 4 \in Int
      /\ y \div 4 = (y - 1) \div 4 + (IF y % 4 = 0 THEN 1 ELSE 0)
  BY DivOfNext
<1>2. /\ y \div 100 \in Int /\ (y - 1) \div 100 \in Int
      /\ y \div 100 = (y - 1) \div 100 + (IF y % 100 = 0 THEN 1 ELSE 0)
  BY DivOfNext
<1>3. /\ y \div 400 \in Int /\ (y - 1) \div 400 \in Int
      /\ y \div 400 = (y - 1) \div 400 + (IF y % 400 = 0 THEN 1 ELSE 0)
  BY DivOfNext
<1>4. (y % 400 = 0 => y % 100 = 0) /\ (y % 100 = 0 => y % 4 = 0)
  OBVIOUS
<1>5. LeapDays(y) = (IF y % 4 = 0 THEN 1 ELSE 0) - (IF y % 100 = 0 THEN 1 ELSE 0) + (IF y % 400 = 0 THEN 1 ELSE 0)
  BY <1>4 DEF LeapDays, IsLeapYear
<1>6. DaysBeforeYear(y + 1) = 365 * (y + 1) + y \div 4 - y \div 100 + y \div 400
  <2>1. (y + 1) - 1 = y
    OBVIOUS
  <2> QED
    BY <2>1 DEF DaysBeforeYear
<1>7. DaysBeforeYear(y) = 365 * y + (y - 1) \div 4 - (y - 1) \div 100 + (y - 1) \div 400
  BY DEF DaysBeforeYear
<1>8. LeapDays(y) \in 0..1
  BY DEF LeapDays
<1> QED
  BY <1>1, <1>2, <1>3, <1>5, <1>6, <1>7, <1>8

(* A later year begins after the end of an earlier one. *)
LEMMA YearOrder ==
    ASSUME NEW y \in Nat, NEW z \in Nat, y < z
    PROVE  DaysBeforeYear(z) >= DaysBeforeYear(y) + 365 + LeapDays(y)
<1> DEFINE T == { n \in Nat : y < n /\ ~(DaysBeforeYear(n) >= DaysBeforeYear(y) + 365 + LeapDays(y)) }
<1>1. SUFFICES ASSUME T # {} PROVE FALSE
  OBVIOUS
<1>2. PICK n \in T : \A m \in T : n <= m
  <2>1. T \subseteq Nat
    OBVIOUS
  <2> HIDE DEF T
  <2> QED
    BY <1>1, <2>1, LeastNatural
<1>3. n \in Nat /\ y < n /\ ~(DaysBeforeYear(n) >= DaysBeforeYear(y) + 365 + LeapDays(y))
  OBVIOUS
<1>4. n # y + 1
  BY <1>3, YearLength
<1>5. PICK m \in Nat : n = m + 1 /\ y < m /\ m \notin T
  <2>1. n - 1 \in Nat /\ n = (n - 1) + 1 /\ y < n - 1 /\ n - 1 \notin T
    BY <1>2, <1>3, <1>4
  <2> QED
    BY <2>1
<1>6. DaysBeforeYear(m) >= DaysBeforeYear(y) + 365 + LeapDays(y)
  BY <1>5
<1>7. /\ DaysBeforeYear(m) \in Int /\ DaysBeforeYear(y) \in Int
      /\ LeapDays(m) \in 0..1 /\ LeapDays(y) \in 0..1
      /\ DaysBeforeYear(m + 1) = DaysBeforeYear(m) + 365 + LeapDays(m)
  BY YearLength
<1> QED
  BY <1>3, <1>5, <1>6, <1>7

(* The days of a year, by month: a month ends before the next begins, and  *)
(* the last one ends with the year.                                        *)
LEMMA MonthOrder ==
    ASSUME NEW y \in Nat, NEW m \in 1..12
    PROVE  /\ DaysBeforeMonth(y, m) \in Nat /\ DaysIn(y, m) \in 28..31
           /\ DaysBeforeMonth(y, m) + DaysIn(y, m) <= 365 + LeapDays(y)
           /\ \A n \in 1..12 : m < n => DaysBeforeMonth(y, m) + DaysIn(y, m) <= DaysBeforeMonth(y, n)
<1> DEFINE L == LeapDays(y)
           B(k) == DaysBeforeMonth(y, k)
           D(k) == DaysIn(y, k)
<1>1. /\ B(1) = 0 /\ B(2) = 31 /\ B(3) = 59 + L /\ B(4) = 90 + L /\ B(5) = 120 + L
      /\ B(6) = 151 + L /\ B(7) = 181 + L /\ B(8) = 212 + L /\ B(9) = 243 + L
      /\ B(10) = 273 + L /\ B(11) = 304 + L /\ B(12) = 334 + L
  BY MonthTable DEF LeapDays
<1>2. /\ D(1) = 31 /\ D(2) = 28 + L /\ D(3) = 31 /\ D(4) = 30 /\ D(5) = 31 /\ D(6) = 30
      /\ D(7) = 31 /\ D(8) = 31 /\ D(9) = 30 /\ D(10) = 31 /\ D(11) = 30 /\ D(12) = 31
  BY DEF DaysIn, LeapDays
<1>3. L \in 0..1
  BY DEF LeapDays
<1> HIDE DEF L, B, D
<1>4. \A k \in 1..12 : \/ k = 1 \/ k = 2 \/ k = 3 \/ k = 4 \/ k = 5 \/ k = 6
                       \/ k = 7 \/ k = 8 \/ k = 9 \/ k = 10 \/ k = 11 \/ k = 12
  OBVIOUS
<1>5. \A k \in 1..12 : B(k) \in Nat /\ D(k) \in 28..31 /\ B(k) + D(k) <= 365 + L
  BY <1>1, <1>2, <1>3, <1>4
<1>6. \A k \in 1..11 : B(k) + D(k) = B(k + 1)
  <2>1. \A k \in 1..11 : \/ k = 1 \/ k = 2 \/ k = 3 \/ k = 4 \/ k = 5 \/ k = 6
                         \/ k = 7 \/ k = 8 \/ k = 9 \/ k = 10 \/ k = 11
    OBVIOUS
  <2> QED
    BY <1>1, <1>2, <1>3, <2>1
<1>7. ASSUME NEW n \in 1..12, m < n PROVE B(m) + D(m) <= B(n)
  <2>1. m \in 1..11 /\ B(m) + D(m) = B(m + 1)
    BY <1>6, <1>7
  <2>2. B(2) <= B(3) /\ B(3) <= B(4) /\ B(4) <= B(5) /\ B(5) <= B(6) /\ B(6) <= B(7) /\ B(7) <= B(8)
        /\ B(8) <= B(9) /\ B(9) <= B(10) /\ B(10) <= B(11) /\ B(11) <= B(12)
    BY <1>1, <1>3
  <2>3. \A j, k \in 2..12 : j <= k => B(j) <= B(k)
    <3>1. \A j \in 2..12 : \/ j = 2 \/ j = 3 \/ j = 4 \/ j = 5 \/ j = 6 \/ j = 7
                           \/ j = 8 \/ j = 9 \/ j = 10 \/ j = 11 \/ j = 12
      OBVIOUS
    <3> QED
      BY <1>1, <1>3, <3>1
  <2>4. m + 1 \in 2..12 /\ n \in 2..12 /\ m + 1 <= n
    BY <1>7
  <2> QED
    BY <2>1, <2>3, <2>4
<1>8. \A n \in 1..12 : m < n => B(m) + D(m) <= B(n)
  BY <1>7
<1> QED
  BY <1>5, <1>8 DEF B, D, L

(* A date is before another when its year is, or its month in the same     *)
(* year, or its day in the same month.                                     *)
DateBefore(t, u) ==
    \/ t.year < u.year
    \/ t.year = u.year /\ t.month < u.month
    \/ t.year = u.year /\ t.month = u.month /\ t.day < u.day

SameDate(t, u) == t.year = u.year /\ t.month = u.month /\ t.day = u.day

(* The numbers in a text are natural numbers. *)
LEMMA NumbersAreNat ==
    ASSUME NEW x, x \in TwoDigits \/ x \in FourDigits
    PROVE  x \in Nat
<1>1. CASE x \in TwoDigits
  BY <1>1, SMT DEF TwoDigits
<1>2. CASE x \in FourDigits
  BY <1>2, SMT DEF FourDigits
<1> QED
  BY <1>1, <1>2

(* A date that exists has natural numbers, and a day of its month.         *)
LEMMA DateType ==
    ASSUME NEW t \in TextType, DateExists(t)
    PROVE  /\ t.year \in Nat /\ t.month \in 1..12 /\ t.day \in Nat \ {0}
           /\ t.day <= DaysIn(t.year, t.month)
<1>1. t.year \in FourDigits /\ t.month \in TwoDigits /\ t.day \in TwoDigits
  BY DEF TextType
<1>2. t.year \in Nat /\ t.month \in Nat /\ t.day \in Nat
  BY <1>1, NumbersAreNat
<1>3. t.month \in 1..12 /\ t.day \in 1..DaysIn(t.year, t.month)
  BY DEF DateExists
<1>4. DaysIn(t.year, t.month) \in Nat
  BY DEF DaysIn
<1> QED
  BY <1>2, <1>3, <1>4

(* sys_days counts up with the date, across the ends of months and years.  *)
LEMMA DaysBefore ==
    ASSUME NEW t \in TextType, NEW u \in TextType, DateExists(t), DateExists(u), DateBefore(t, u)
    PROVE  sys_days(t) < sys_days(u)
<1>1. /\ t.year \in Nat /\ t.month \in 1..12 /\ t.day \in Nat \ {0} /\ t.day <= DaysIn(t.year, t.month)
      /\ u.year \in Nat /\ u.month \in 1..12 /\ u.day \in Nat \ {0} /\ u.day <= DaysIn(u.year, u.month)
  BY DateType
<1>2. /\ DaysBeforeYear(t.year) \in Int /\ DaysBeforeYear(u.year) \in Int /\ DaysBeforeYear(1970) \in Int
  BY <1>1, YearLength
<1>3. /\ DaysBeforeMonth(t.year, t.month) \in Nat /\ DaysIn(t.year, t.month) \in 28..31
      /\ DaysBeforeMonth(t.year, t.month) + DaysIn(t.year, t.month) <= 365 + LeapDays(t.year)
      /\ \A n \in 1..12 : t.month < n =>
            DaysBeforeMonth(t.year, t.month) + DaysIn(t.year, t.month) <= DaysBeforeMonth(t.year, n)
  BY <1>1, MonthOrder
<1>4. DaysBeforeMonth(u.year, u.month) \in Nat
  BY <1>1, MonthOrder
<1>5. LeapDays(t.year) \in 0..1
  BY <1>1, YearLength
<1>6. SUFFICES DaysBeforeYear(t.year) + DaysBeforeMonth(t.year, t.month) + t.day
               < DaysBeforeYear(u.year) + DaysBeforeMonth(u.year, u.month) + u.day
  BY <1>1, <1>2, <1>3, <1>4 DEF sys_days
<1>7. CASE t.year < u.year
  <2>1. DaysBeforeYear(u.year) >= DaysBeforeYear(t.year) + 365 + LeapDays(t.year)
    BY <1>1, <1>7, YearOrder
  <2> QED
    BY <1>1, <1>2, <1>3, <1>4, <1>5, <2>1
<1>8. CASE t.year = u.year /\ t.month < u.month
  <2>1. DaysBeforeMonth(t.year, t.month) + DaysIn(t.year, t.month) <= DaysBeforeMonth(u.year, u.month)
    BY <1>1, <1>3, <1>8
  <2>2. DaysBeforeYear(u.year) = DaysBeforeYear(t.year)
    BY <1>8
  <2> QED
    BY <1>1, <1>2, <1>3, <1>4, <2>1, <2>2
<1>9. CASE t.year = u.year /\ t.month = u.month /\ t.day < u.day
  <2>1. /\ DaysBeforeMonth(t.year, t.month) = DaysBeforeMonth(u.year, u.month)
        /\ DaysBeforeYear(u.year) = DaysBeforeYear(t.year)
    BY <1>9
  <2> QED
    BY <1>1, <1>2, <1>3, <1>9, <2>1
<1> QED
  BY <1>7, <1>8, <1>9 DEF DateBefore

(* The days of two dates compare as the dates do. *)
LEMMA DateOrder ==
    ASSUME NEW t \in TextType, NEW u \in TextType, DateExists(t), DateExists(u)
    PROVE  /\ sys_days(t) \in Int /\ sys_days(u) \in Int
           /\ sys_days(t) < sys_days(u) <=> DateBefore(t, u)
           /\ sys_days(t) = sys_days(u) <=> SameDate(t, u)
<1>1. ASSUME NEW x \in TextType, DateExists(x) PROVE sys_days(x) \in Int
  <2>1. x.year \in Nat /\ x.month \in 1..12 /\ x.day \in Nat
    BY <1>1, DateType
  <2>2. DaysBeforeYear(x.year) \in Int /\ DaysBeforeYear(1970) \in Int /\ DaysBeforeMonth(x.year, x.month) \in Nat
    <3>1. 1970 \in Nat
      OBVIOUS
    <3>2. DaysBeforeYear(x.year) \in Int /\ DaysBeforeYear(1970) \in Int
      <4>1. \A y \in Nat : DaysBeforeYear(y) \in Int
        BY YearLength
      <4>2. PICK epoch \in Nat : epoch = 1970
        BY <3>1
      <4>3. DaysBeforeYear(epoch) \in Int
        BY <4>1
      <4> QED
        BY <2>1, <4>1, <4>2, <4>3, SMT
    <3>3. DaysBeforeMonth(x.year, x.month) \in Nat
      BY <2>1, MonthOrder, Zenon
    <3> QED
      BY <3>2, <3>3, SMT
  <2> QED
    BY <2>1, <2>2 DEF sys_days
<1>2. sys_days(t) \in Int /\ sys_days(u) \in Int
  BY <1>1
<1>3. DateBefore(t, u) => sys_days(t) < sys_days(u)
  BY DaysBefore
<1>4. DateBefore(u, t) => sys_days(u) < sys_days(t)
  BY DaysBefore
<1>5. SameDate(t, u) => sys_days(t) = sys_days(u)
  BY DEF SameDate, sys_days
<1>6. DateBefore(t, u) \/ DateBefore(u, t) \/ SameDate(t, u)
  <2>1. /\ t.year \in Nat /\ t.month \in 1..12 /\ t.day \in Nat
        /\ u.year \in Nat /\ u.month \in 1..12 /\ u.day \in Nat
    BY DateType
  <2> QED
    BY <2>1 DEF DateBefore, SameDate
<1> QED
  BY <1>2, <1>3, <1>4, <1>5, <1>6
-----------------------------------------------------------------------------
(* What parsing accepts. *)
LEMMA TextNumbers ==
    ASSUME NEW t \in TextType, ~refused_text(t)
    PROVE  /\ DateExists(t)
           /\ t.hour \in 0..23 /\ t.minute \in 0..59 /\ t.second \in 0..60
           /\ t.digits \in Seq(Digit)
           /\ representable_second(t) \in 0..59
           /\ is_leap_second(t) => t.second = 60 /\ representable_second(t) = 59
           /\ ~is_leap_second(t) => t.second \in 0..59 /\ representable_second(t) = t.second
<1>1. t.hour \in TwoDigits /\ t.minute \in TwoDigits /\ t.second \in TwoDigits /\ t.digits \in Seq(Digit)
  BY DEF TextType
<1>2. t.hour \in Nat /\ t.minute \in Nat /\ t.second \in Nat
  BY <1>1, NumbersAreNat
<1>3. DateExists(t) /\ ~(t.hour > 23) /\ ~(t.minute > 59) /\ ~(t.second > 60)
  BY DEF refused_text
<1>4. t.hour \in 0..23 /\ t.minute \in 0..59 /\ t.second \in 0..60
  BY <1>2, <1>3
<1> QED
  BY <1>1, <1>3, <1>4 DEF is_leap_second, representable_second

(* The clock in seconds. *)
second_of_day(t) == t.hour * 3600 + t.minute * 60 + representable_second(t)

(* An instant is the day of its date: a leap second stays in it.           *)
LEMMA InstantParts ==
    ASSUME NEW t \in TextType, ~refused_text(t)
    PROVE  /\ instant(t) = [day |-> sys_days(t), second |-> second_of_day(t), frac |-> fraction(t.digits)]
           /\ second_of_day(t) \in Nat
<1>1. PICK s \in Nat : s = second_of_day(t) /\ s < 86400
  <2>1. PICK h \in 0..23, m \in 0..59, r \in 0..59 : h = t.hour /\ m = t.minute /\ r = representable_second(t)
    BY TextNumbers
  <2>2. h * 3600 + m * 60 + r \in Nat /\ h * 3600 + m * 60 + r < 86400
    OBVIOUS
  <2> QED
    BY <2>1, <2>2 DEF second_of_day
<1>2. s \div 86400 = 0 /\ s % 86400 = s
  BY <1>1
<1>3. sys_days(t) \in Int
  BY TextNumbers, DateOrder
<1>4. sys_days(t) + second_of_day(t) \div 86400 = sys_days(t) /\ second_of_day(t) % 86400 = second_of_day(t)
  BY <1>1, <1>2, <1>3, SMT
<1>5. instant(t) = [day    |-> sys_days(t) + second_of_day(t) \div 86400,
                    second |-> second_of_day(t) % 86400,
                    frac   |-> fraction(t.digits)]
  BY DEF instant, second_of_day
<1> QED
  BY <1>1, <1>4, <1>5, SMT

(* The hour, minute and second that the accessors take out of it.          *)
LEMMA ClockFields ==
    ASSUME NEW t \in TextType, ~refused_text(t)
    PROVE  /\ second_of_day(t) \div 3600 = t.hour
           /\ (second_of_day(t) \div 60) % 60 = t.minute
           /\ second_of_day(t) % 60 = representable_second(t)
<1>1. t.hour \in 0..23 /\ t.minute \in 0..59 /\ representable_second(t) \in 0..59
  BY TextNumbers
<1>2. PICK h \in 0..23, m \in 0..59, s \in 0..59 : h = t.hour /\ m = t.minute /\ s = representable_second(t)
  BY <1>1
<1>3. (h * 3600 + m * 60 + s) \div 3600 = h /\ (h * 3600 + m * 60 + s) % 60 = s
  OBVIOUS
<1>4. (h * 3600 + m * 60 + s) \div 60 = h * 60 + m
  OBVIOUS
<1>5. (h * 60 + m) % 60 = m
  OBVIOUS
<1> QED
  BY <1>2, <1>3, <1>4, <1>5 DEF second_of_day

(* The second of the day compares as the clock does. *)
LEMMA ClockOrder ==
    ASSUME NEW t \in TextType, ~refused_text(t), NEW u \in TextType, ~refused_text(u)
    PROVE  /\ second_of_day(t) < second_of_day(u) <=>
                 \/ t.hour < u.hour
                 \/ t.hour = u.hour /\ t.minute < u.minute
                 \/ /\ t.hour = u.hour /\ t.minute = u.minute
                    /\ representable_second(t) < representable_second(u)
           /\ second_of_day(t) = second_of_day(u) <=>
                 /\ t.hour = u.hour /\ t.minute = u.minute
                 /\ representable_second(t) = representable_second(u)
<1>1. PICK h \in 0..23, m \in 0..59, s \in 0..59 : h = t.hour /\ m = t.minute /\ s = representable_second(t)
  BY TextNumbers
<1>2. PICK i \in 0..23, n \in 0..59, r \in 0..59 : i = u.hour /\ n = u.minute /\ r = representable_second(u)
  BY TextNumbers
<1>3. /\ h * 3600 + m * 60 + s < i * 3600 + n * 60 + r <=>
             h < i \/ (h = i /\ m < n) \/ (h = i /\ m = n /\ s < r)
      /\ h * 3600 + m * 60 + s = i * 3600 + n * 60 + r <=> h = i /\ m = n /\ s = r
  OBVIOUS
<1> QED
  BY <1>1, <1>2, <1>3 DEF second_of_day

(* The quotient and the remainder are the only ones. *)
LEMMA Quotient ==
    ASSUME NEW x \in Nat, NEW P \in Nat \ {0}, NEW q \in Nat, NEW r \in 0..(P - 1), x = q * P + r
    PROVE  x \div P = q
<1>1. PICK z \in Int : z = x \div P
  OBVIOUS
<1>2. P * z <= x /\ x < P * z + P
  BY <1>1
<1>3. CASE z < q
  <2>1. PICK k \in Nat : q = z + 1 + k
    <3>1. q - z - 1 \in Nat /\ q = z + 1 + (q - z - 1)
      BY <1>3
    <3> QED
      BY <3>1
  <2>2. PICK a \in Int, b \in Nat : a = P * z /\ b = k * P
    OBVIOUS
  <2>3. q * P = a + P + b
    BY <2>1, <2>2
  <2> QED
    BY <1>2, <2>2, <2>3
<1>4. CASE q < z
  <2>1. PICK k \in Nat : z = q + 1 + k
    <3>1. z - q - 1 \in Nat /\ z = q + 1 + (z - q - 1)
      BY <1>4
    <3> QED
      BY <3>1
  <2>2. PICK a \in Nat, b \in Nat : a = q * P /\ b = k * P
    OBVIOUS
  <2>3. P * z = a + P + b
    BY <2>1, <2>2
  <2> QED
    BY <1>2, <2>2, <2>3
<1> QED
  BY <1>1, <1>3, <1>4

(* The fraction without its last j digits, and what they make.             *)
LEMMA FractionSplits ==
    ASSUME NEW digits \in Seq(Digit), NEW F,
           F \in [0..Digits -> Nat], F[0] = 0,
           \A k \in 1..Digits : F[k] = 10 * F[k - 1] + digit(digits, k)
    PROVE  \A j \in 0..Digits :
              \E r \in 0..(PowersOfTen[j] - 1) : F[Digits] = F[Digits - j] * PowersOfTen[j] + r
<1> DEFINE p == PowersOfTen
           Splits(j) == \E r \in 0..(p[j] - 1) : F[Digits] = F[Digits - j] * p[j] + r
           T == { j \in 0..Digits : ~Splits(j) }
<1>1. Digits \in Nat \ {0} /\ \A k \in 1..Digits : digit(digits, k) \in 0..9
  BY DigitType
<1>2. /\ p \in [0..Digits -> Nat \ {0}] /\ p[0] = 1
      /\ \A k \in 1..Digits : p[k] = 10 * p[k - 1]
  BY Powers
<1>3. SUFFICES ASSUME T # {} PROVE FALSE
  OBVIOUS
<1>4. PICK n \in T : \A m \in T : n <= m
  <2>1. T \subseteq Nat
    BY <1>1
  <2> HIDE DEF T
  <2> QED
    BY <1>3, <2>1, LeastNatural
<1>5. n \in 0..Digits /\ ~Splits(n)
  OBVIOUS
<1> HIDE DEF p
<1>6. n # 0
  <2>1. SUFFICES Splits(0)
    BY <1>5
  <2>2. Digits - 0 = Digits /\ F[Digits] \in Nat /\ 0 \in 0..(p[0] - 1)
    BY <1>1, <1>2
  <2> QED
    BY <1>2, <2>2
<1>7. n - 1 \in 0..Digits /\ n - 1 \notin T
  <2>1. n \in 1..Digits /\ n - 1 \in 0..Digits /\ ~(n <= n - 1)
    BY <1>1, <1>5, <1>6
  <2> HIDE DEF T
  <2> QED
    BY <1>4, <2>1
<1>8. PICK r \in 0..(p[n - 1] - 1) : F[Digits] = F[Digits - (n - 1)] * p[n - 1] + r
  BY <1>7
<1> HIDE DEF T, Splits
<1>9. Digits - n \in 0..Digits /\ Digits - (n - 1) \in 1..Digits /\ (Digits - (n - 1)) - 1 = Digits - n
  BY <1>1, <1>5, <1>6
<1>10. PICK P \in Nat \ {0} : P = p[n - 1] /\ p[n] = 10 * P
  <2>1. n \in 1..Digits
    BY <1>1, <1>5, <1>6
  <2> QED
    BY <1>2, <1>7, <2>1
<1>11. PICK G \in Nat, g \in 0..9 :
          G = F[Digits - n] /\ g = digit(digits, Digits - (n - 1)) /\ F[Digits - (n - 1)] = 10 * G + g
  BY <1>1, <1>9
<1>12. r \in 0..(P - 1)
  BY <1>10
<1>13. PICK R \in Nat : R = g * P + r /\ R < 10 * P
  <2>1. g = 0 \/ g = 1 \/ g = 2 \/ g = 3 \/ g = 4 \/ g = 5 \/ g = 6 \/ g = 7 \/ g = 8 \/ g = 9
    OBVIOUS
  <2>2. g * P + r \in Nat /\ g * P + r < 10 * P
    BY <1>12, <2>1
  <2> QED
    BY <2>2
<1>14. F[Digits] = (10 * G + g) * P + r
  BY <1>8, <1>10, <1>11
<1>15. (10 * G + g) * P + r = G * (10 * P) + R
  BY <1>12, <1>13
<1>16. F[Digits] = F[Digits - n] * p[n] + R
  BY <1>10, <1>11, <1>14, <1>15, Zenon
<1>17. R \in 0..(p[n] - 1)
  BY <1>10, <1>13
<1> QED
  BY <1>5, <1>16, <1>17 DEF Splits

(* Each decimal can be read off the fraction. *)
LEMMA DecimalsReadBack ==
    ASSUME NEW digits \in Seq(Digit), NEW k \in 1..Digits
    PROVE  (fraction(digits) \div PowersOfTen[Digits - k]) % 10 = digit(digits, k)
<1>1. PICK F : /\ F \in [0..Digits -> Nat] /\ F[0] = 0
               /\ \A i \in 1..Digits : F[i] = 10 * F[i - 1] + digit(digits, i)
               /\ F[Digits] = fraction(digits)
  BY FractionNumbers
<1>2. Digits \in Nat \ {0} /\ digit(digits, k) \in 0..9
  BY DigitType
<1>3. Digits - k \in 0..Digits /\ Digits - (Digits - k) = k /\ k \in 0..Digits /\ k - 1 \in 0..Digits
  BY <1>2
<1>4. PICK P \in Nat \ {0} : P = PowersOfTen[Digits - k]
  BY <1>3, Powers
<1>5. PICK r \in 0..(P - 1) : F[Digits] = F[k] * P + r
  <2>1. \E r \in 0..(PowersOfTen[Digits - k] - 1) :
           F[Digits] = F[Digits - (Digits - k)] * PowersOfTen[Digits - k] + r
    BY <1>1, <1>3, FractionSplits
  <2> QED
    BY <1>3, <1>4, <2>1
<1>6. F[Digits] \in Nat /\ F[k] \in Nat /\ F[k - 1] \in Nat
  BY <1>1, <1>2, <1>3
<1>7. F[Digits] \div P = F[k]
  BY <1>5, <1>6, Quotient
<1>8. F[k] = 10 * F[k - 1] + digit(digits, k)
  BY <1>1
<1>9. F[k] % 10 = digit(digits, k)
  <2>1. PICK G \in Nat, g \in 0..9 : G = F[k - 1] /\ g = digit(digits, k)
    BY <1>2, <1>6
  <2>2. (10 * G + g) % 10 = g
    OBVIOUS
  <2> QED
    BY <1>8, <2>1, <2>2
<1> QED
  BY <1>1, <1>4, <1>7, <1>9

-----------------------------------------------------------------------------
(* The objects that accepted texts make: the invariant is that there are   *)
(* no others.                                                              *)
Datetimes == UNION { Parsed(t) : t \in { u \in DatetimeTexts : ~refused_text(u) } }

DatetimeInv == objects \in Seq(Datetimes)

(* Nothing is constructed at first. *)
LEMMA DatetimeInitInv == DatetimeInit => DatetimeInv
BY DEF DatetimeInit, DatetimeInv

(* A constructor appends what an accepted text makes, or throws.           *)
LEMMA DatetimeNextInv ==
    ASSUME DatetimeInv, [ConstructDatetime]_objects
    PROVE  DatetimeInv'
<1>1. CASE UNCHANGED objects
  BY <1>1 DEF DatetimeInv
<1>2. ASSUME NEW text \in DatetimeTexts, ~refused_text(text),
             NEW object \in Parsed(text), objects' = Append(objects, object)
      PROVE  DatetimeInv'
  <2>1. object \in Datetimes
    BY <1>2 DEF Datetimes
  <2> QED
    BY <1>2, <2>1 DEF DatetimeInv
<1> QED
  BY <1>1, <1>2 DEF ConstructDatetime

(* An object holds an accepted text and, in range, that text's instant.    *)
LEMMA ObjectParts ==
    ASSUME NEW a \in Datetimes
    PROVE  /\ a.raw \in TextType /\ ~refused_text(a.raw)
           /\ a.is_leap_second = is_leap_second(a.raw)
           /\ InRange(a) => a.time_point = instant(a.raw)
<1>1. PICK t \in DatetimeTexts : ~refused_text(t) /\ a \in Parsed(t)
  BY DEF Datetimes
<1>2. a.raw = t /\ a.is_leap_second = is_leap_second(t) /\ a.time_point \in time_points(t)
  BY <1>1 DEF Parsed
<1>3. t \in TextType
  BY DatetimeAssumption
<1>4. InRange(a) => a.time_point = instant(t)
  BY <1>2 DEF InRange, time_points
<1> QED
  BY <1>1, <1>2, <1>3, <1>4

(* The accessors of one object. *)
LEMMA ObjectReadsBack ==
    ASSUME NEW a \in Datetimes, InRange(a)
    PROVE  /\ a.time_point.day = sys_days(a.raw)
           /\ hour(a) = a.raw.hour /\ minute(a) = a.raw.minute /\ second(a) = a.raw.second
           /\ \A k \in 1..Digits :
                 (a.time_point.frac \div PowersOfTen[Digits - k]) % 10 = digit(a.raw.digits, k)
<1> DEFINE t == a.raw
<1>1. t \in TextType /\ ~refused_text(t) /\ a.is_leap_second = is_leap_second(t) /\ a.time_point = instant(t)
  BY ObjectParts
<1> HIDE DEF t
<1>2. /\ a.time_point.day = sys_days(t) /\ a.time_point.second = second_of_day(t)
      /\ a.time_point.frac = fraction(t.digits)
  BY <1>1, InstantParts
<1>3. hour(a) = t.hour /\ minute(a) = t.minute
  BY <1>1, <1>2, ClockFields DEF hour, minute
<1>4. second(a) = t.second
  <2>1. a.time_point.second % 60 = representable_second(t)
    BY <1>1, <1>2, ClockFields
  <2> QED
    BY <1>1, <2>1, TextNumbers DEF second
<1>5. \A k \in 1..Digits : (fraction(t.digits) \div PowersOfTen[Digits - k]) % 10 = digit(t.digits, k)
  BY <1>1, TextNumbers, DecimalsReadBack
<1> QED
  BY <1>2, <1>3, <1>4, <1>5 DEF t

(* Whatever text was parsed, with as many decimals as are kept, at the end *)
(* of a minute, a day or a year: its numbers come back, within the years   *)
(* that the time point spans.                                              *)
THEOREM FieldsAlwaysReadBack == DatetimeSpec => []FieldsReadBack
<1>1. DatetimeInv => FieldsReadBack
  BY ObjectReadsBack DEF DatetimeInv, FieldsReadBack
<1> QED
  BY <1>1, DatetimeInitInv, DatetimeNextInv, PTL DEF DatetimeSpec

-----------------------------------------------------------------------------
(* The first k digits of a come before those of b, or are the same.        *)
DigitsPrecede(a, b, k) ==
    \E n \in 1..k : digit(a, n) < digit(b, n) /\ \A m \in 1..(n - 1) : digit(a, m) = digit(b, m)

SameDigits(a, b, k) == \A n \in 1..k : digit(a, n) = digit(b, n)

(* One more digit. *)
LEMMA NextDigit ==
    ASSUME NEW a, NEW b, NEW k \in Nat \ {0},
           \A n \in 1..k : digit(a, n) \in 0..9 /\ digit(b, n) \in 0..9
    PROVE  /\ SameDigits(a, b, k) <=> SameDigits(a, b, k - 1) /\ digit(a, k) = digit(b, k)
           /\ DigitsPrecede(a, b, k) <=> \/ DigitsPrecede(a, b, k - 1)
                                         \/ SameDigits(a, b, k - 1) /\ digit(a, k) < digit(b, k)
<1>1. \A n : n \in 1..k <=> n \in 1..(k - 1) \/ n = k
  OBVIOUS
<1>2. SameDigits(a, b, k) <=> SameDigits(a, b, k - 1) /\ digit(a, k) = digit(b, k)
  BY <1>1 DEF SameDigits
<1>3. DigitsPrecede(a, b, k) <=> \/ DigitsPrecede(a, b, k - 1)
                                 \/ /\ digit(a, k) < digit(b, k)
                                    /\ \A m \in 1..(k - 1) : digit(a, m) = digit(b, m)
  BY <1>1, Zenon DEF DigitsPrecede
<1> QED
  BY <1>2, <1>3 DEF SameDigits

(* Fractions compare as their digits do, from the first on.                *)
LEMMA FractionOrder ==
    ASSUME NEW a \in Seq(Digit), NEW b \in Seq(Digit)
    PROVE  /\ fraction(a) \in Nat /\ fraction(b) \in Nat
           /\ fraction(a) < fraction(b) <=> DigitsPrecede(a, b, Digits)
           /\ fraction(a) = fraction(b) <=> SameDigits(a, b, Digits)
<1>1. PICK F : /\ F \in [0..Digits -> Nat] /\ F[0] = 0
               /\ \A i \in 1..Digits : F[i] = 10 * F[i - 1] + digit(a, i)
               /\ F[Digits] = fraction(a)
  BY FractionNumbers
<1>2. PICK G : /\ G \in [0..Digits -> Nat] /\ G[0] = 0
               /\ \A i \in 1..Digits : G[i] = 10 * G[i - 1] + digit(b, i)
               /\ G[Digits] = fraction(b)
  BY FractionNumbers
<1>3. Digits \in Nat \ {0} /\ \A i \in 1..Digits : digit(a, i) \in 0..9 /\ digit(b, i) \in 0..9
  BY DigitType
<1> DEFINE Ordered(k) == /\ F[k] < G[k] <=> DigitsPrecede(a, b, k)
                         /\ F[k] = G[k] <=> SameDigits(a, b, k)
           T == { k \in 0..Digits : ~Ordered(k) }
<1>4. SUFFICES T = {}
  <2>1. Digits \in 0..Digits
    BY <1>3
  <2>2. F[Digits] \in Nat /\ G[Digits] \in Nat
    BY <1>1, <1>2, <2>1
  <2>3. T = {} => Ordered(Digits)
    BY <2>1
  <2> QED
    BY <1>1, <1>2, <2>2, <2>3
<1>5. SUFFICES ASSUME T # {} PROVE FALSE
  OBVIOUS
<1>6. PICK n \in T : \A m \in T : n <= m
  <2>1. T \subseteq Nat
    BY <1>3
  <2> HIDE DEF T
  <2> QED
    BY <1>5, <2>1, LeastNatural
<1>7. n \in 0..Digits /\ ~Ordered(n)
  OBVIOUS
<1>8. n # 0
  <2>1. Ordered(0)
    BY <1>1, <1>2 DEF DigitsPrecede, SameDigits
  <2> QED
    BY <1>7, <2>1
<1>9. Ordered(n - 1)
  <2>1. n - 1 \in 0..Digits /\ ~(n <= n - 1)
    BY <1>3, <1>7, <1>8
  <2>2. n - 1 \notin T
    <3> HIDE DEF T
    <3> QED
      BY <1>6, <2>1
  <2> HIDE DEF Ordered
  <2> QED
    BY <2>1, <2>2
<1> HIDE DEF T
<1>10. n \in 1..Digits /\ n \in Nat \ {0} /\ n - 1 \in 0..Digits
  BY <1>3, <1>7, <1>8
<1>11. PICK f \in Nat, g \in Nat : f = F[n - 1] /\ g = G[n - 1]
  BY <1>1, <1>2, <1>10
<1>12. PICK x \in 0..9, y \in 0..9 : x = digit(a, n) /\ y = digit(b, n)
  BY <1>3, <1>10
<1>13. F[n] = 10 * f + x /\ G[n] = 10 * g + y
  BY <1>1, <1>2, <1>10, <1>11, <1>12
<1>14. /\ f < g <=> DigitsPrecede(a, b, n - 1)
       /\ f = g <=> SameDigits(a, b, n - 1)
  BY <1>9, <1>11
<1>15. /\ SameDigits(a, b, n) <=> SameDigits(a, b, n - 1) /\ x = y
       /\ DigitsPrecede(a, b, n) <=> DigitsPrecede(a, b, n - 1) \/ (SameDigits(a, b, n - 1) /\ x < y)
  <2>1. \A i \in 1..n : digit(a, i) \in 0..9 /\ digit(b, i) \in 0..9
    BY <1>3, <1>10
  <2> QED
    BY <1>10, <1>12, <2>1, NextDigit
<1>16. /\ 10 * f + x < 10 * g + y <=> f < g \/ (f = g /\ x < y)
       /\ 10 * f + x = 10 * g + y <=> f = g /\ x = y
  OBVIOUS
<1>17. Ordered(n)
  BY <1>13, <1>14, <1>15, <1>16
<1> QED
  BY <1>7, <1>17
-----------------------------------------------------------------------------
(* The clock of a text, with a leap second as a second 60.                 *)
TimeBefore(t, u) ==
    \/ t.hour < u.hour
    \/ t.hour = u.hour /\ t.minute < u.minute
    \/ t.hour = u.hour /\ t.minute = u.minute /\ t.second < u.second

SameTime(t, u) == t.hour = u.hour /\ t.minute = u.minute /\ t.second = u.second

(* The numbers of a text, by place. *)
LEMMA NumbersByPlace ==
    ASSUME NEW t \in TextType
    PROVE  LET p == text_numbers(t)
           IN  /\ p \in Seq(Nat) /\ Len(p) = 6 + Digits
               /\ p[1] = t.year /\ p[2] = t.month /\ p[3] = t.day
               /\ p[4] = t.hour /\ p[5] = t.minute /\ p[6] = t.second
               /\ \A k \in 1..Digits : p[6 + k] = digit(t.digits, k)
<1> DEFINE six  == <<t.year, t.month, t.day, t.hour, t.minute, t.second>>
           rest == [k \in 1..Digits |-> digit(t.digits, k)]
<1>1. /\ t.year \in FourDigits /\ t.month \in TwoDigits /\ t.day \in TwoDigits
      /\ t.hour \in TwoDigits /\ t.minute \in TwoDigits /\ t.second \in TwoDigits
      /\ t.digits \in Seq(Digit)
  BY DEF TextType
<1>2. /\ t.year \in Nat /\ t.month \in Nat /\ t.day \in Nat
      /\ t.hour \in Nat /\ t.minute \in Nat /\ t.second \in Nat
  BY <1>1, NumbersAreNat
<1>3. Digits \in Nat \ {0} /\ \A k \in 1..Digits : digit(t.digits, k) \in 0..9
  BY <1>1, DigitType
<1>4. six \in Seq(Nat) /\ Len(six) = 6
  BY <1>2
<1>5. rest \in Seq(Nat) /\ Len(rest) = Digits
  <2>1. rest \in [1..Digits -> Nat]
    BY <1>3
  <2> QED
    BY <1>3, <2>1
<1>6. /\ six[1] = t.year /\ six[2] = t.month /\ six[3] = t.day
      /\ six[4] = t.hour /\ six[5] = t.minute /\ six[6] = t.second
  OBVIOUS
<1>7. \A k \in 1..Digits : rest[k] = digit(t.digits, k)
  OBVIOUS
<1>8. text_numbers(t) = six \o rest
  BY DEF text_numbers
<1> HIDE DEF six, rest
<1>9. /\ six \o rest \in Seq(Nat) /\ Len(six \o rest) = 6 + Digits
      /\ \A i \in 1..(6 + Digits) : (six \o rest)[i] = IF i <= 6 THEN six[i] ELSE rest[i - 6]
  <2>1. /\ six \o rest \in Seq(Nat)
        /\ Len(six \o rest) = Len(six) + Len(rest)
        /\ \A i \in 1..(Len(six) + Len(rest)) :
              (six \o rest)[i] = IF i <= Len(six) THEN six[i] ELSE rest[i - Len(six)]
    BY <1>4, <1>5, ConcatProperties, Zenon
  <2> QED
    BY <1>4, <1>5, <2>1, Zenon
<1>10. \A i \in 1..6 : (six \o rest)[i] = six[i]
  <2>1. ASSUME NEW i \in 1..6 PROVE i \in 1..(6 + Digits) /\ i <= 6
    BY <1>3
  <2> QED
    BY <1>9, <2>1
<1>11. \A k \in 1..Digits : (six \o rest)[6 + k] = rest[k]
  <2>1. ASSUME NEW k \in 1..Digits PROVE 6 + k \in 1..(6 + Digits) /\ ~(6 + k <= 6) /\ (6 + k) - 6 = k
    BY <1>3
  <2> QED
    BY <1>9, <2>1
<1>12. /\ (six \o rest)[1] = six[1] /\ (six \o rest)[2] = six[2] /\ (six \o rest)[3] = six[3]
       /\ (six \o rest)[4] = six[4] /\ (six \o rest)[5] = six[5] /\ (six \o rest)[6] = six[6]
  <2>1. 1 \in 1..6 /\ 2 \in 1..6 /\ 3 \in 1..6 /\ 4 \in 1..6 /\ 5 \in 1..6 /\ 6 \in 1..6
    OBVIOUS
  <2> QED
    BY <1>10, <2>1, Zenon
<1>13. \A k \in 1..Digits : (six \o rest)[6 + k] = digit(t.digits, k)
  BY <1>7, <1>11
<1>14. six \o rest \in Seq(Nat) /\ Len(six \o rest) = 6 + Digits
  BY <1>9
<1> QED
  BY <1>6, <1>8, <1>12, <1>13, <1>14

(* Texts are in order when their dates are, or their clocks on the same    *)
(* date, or their decimals in the same second.                             *)
LEMMA TextPrecedes ==
    ASSUME NEW t \in TextType, NEW u \in TextType
    PROVE  Precedes(text_numbers(t), text_numbers(u)) <=>
              \/ DateBefore(t, u)
              \/ SameDate(t, u) /\ TimeBefore(t, u)
              \/ SameDate(t, u) /\ SameTime(t, u) /\ DigitsPrecede(t.digits, u.digits, Digits)
<1> DEFINE p == text_numbers(t)
           q == text_numbers(u)
           Decides(n) == p[n] < q[n] /\ \A m \in 1..(n - 1) : p[m] = q[m]
           SixSame == /\ p[1] = q[1] /\ p[2] = q[2] /\ p[3] = q[3]
                      /\ p[4] = q[4] /\ p[5] = q[5] /\ p[6] = q[6]
<1>1. Digits \in Nat \ {0}
  BY SomeDigits
<1>2. /\ Len(p) = 6 + Digits
      /\ p[1] = t.year /\ p[2] = t.month /\ p[3] = t.day
      /\ p[4] = t.hour /\ p[5] = t.minute /\ p[6] = t.second
      /\ \A k \in 1..Digits : p[6 + k] = digit(t.digits, k)
  BY NumbersByPlace
<1>3. /\ q[1] = u.year /\ q[2] = u.month /\ q[3] = u.day
      /\ q[4] = u.hour /\ q[5] = u.minute /\ q[6] = u.second
      /\ \A k \in 1..Digits : q[6 + k] = digit(u.digits, k)
  BY NumbersByPlace
<1>4. Precedes(p, q) <=> \E n \in 1..(6 + Digits) : Decides(n)
  BY <1>2 DEF Precedes
<1> HIDE DEF p, q
<1>5. /\ Decides(1) <=> p[1] < q[1]
      /\ Decides(2) <=> p[1] = q[1] /\ p[2] < q[2]
      /\ Decides(3) <=> p[1] = q[1] /\ p[2] = q[2] /\ p[3] < q[3]
      /\ Decides(4) <=> p[1] = q[1] /\ p[2] = q[2] /\ p[3] = q[3] /\ p[4] < q[4]
      /\ Decides(5) <=> p[1] = q[1] /\ p[2] = q[2] /\ p[3] = q[3] /\ p[4] = q[4] /\ p[5] < q[5]
      /\ Decides(6) <=> /\ p[1] = q[1] /\ p[2] = q[2] /\ p[3] = q[3] /\ p[4] = q[4] /\ p[5] = q[5]
                        /\ p[6] < q[6]
  <2>1. /\ \A m : m \notin 1..(1 - 1)
        /\ \A m : m \in 1..(2 - 1) <=> m = 1
        /\ \A m : m \in 1..(3 - 1) <=> m = 1 \/ m = 2
        /\ \A m : m \in 1..(4 - 1) <=> m = 1 \/ m = 2 \/ m = 3
        /\ \A m : m \in 1..(5 - 1) <=> m = 1 \/ m = 2 \/ m = 3 \/ m = 4
        /\ \A m : m \in 1..(6 - 1) <=> m = 1 \/ m = 2 \/ m = 3 \/ m = 4 \/ m = 5
    OBVIOUS
  <2> QED
    BY <2>1, Zenon
<1>6. ASSUME NEW k \in 1..Digits
      PROVE  Decides(6 + k) <=> /\ SixSame /\ digit(t.digits, k) < digit(u.digits, k)
                                /\ \A m \in 1..(k - 1) : digit(t.digits, m) = digit(u.digits, m)
  <2>1. \A m : m \in 1..((6 + k) - 1) <=>
               \/ m = 1 \/ m = 2 \/ m = 3 \/ m = 4 \/ m = 5 \/ m = 6
               \/ \E i \in 1..(k - 1) : m = 6 + i
    <3>1. ASSUME NEW m \in 1..((6 + k) - 1), ~(m = 1 \/ m = 2 \/ m = 3 \/ m = 4 \/ m = 5 \/ m = 6)
          PROVE  \E i \in 1..(k - 1) : m = 6 + i
      <4>1. m - 6 \in 1..(k - 1) /\ m = 6 + (m - 6)
        BY <1>1, <3>1
      <4> QED
        BY <4>1
    <3>2. /\ 1 \in 1..((6 + k) - 1) /\ 2 \in 1..((6 + k) - 1) /\ 3 \in 1..((6 + k) - 1)
          /\ 4 \in 1..((6 + k) - 1) /\ 5 \in 1..((6 + k) - 1) /\ 6 \in 1..((6 + k) - 1)
      BY <1>1
    <3>3. \A i \in 1..(k - 1) : 6 + i \in 1..((6 + k) - 1)
      BY <1>1
    <3> QED
      BY <3>1, <3>2, <3>3, Zenon
  <2>2. \A i \in 1..(k - 1) : i \in 1..Digits
    BY <1>1
  <2>3. p[6 + k] = digit(t.digits, k) /\ q[6 + k] = digit(u.digits, k)
    BY <1>2, <1>3
  <2>4. \A i \in 1..(k - 1) : p[6 + i] = digit(t.digits, i) /\ q[6 + i] = digit(u.digits, i)
    BY <1>2, <1>3, <2>2, Zenon
  <2>5. ASSUME \A m \in 1..((6 + k) - 1) : p[m] = q[m]
        PROVE  SixSame /\ \A i \in 1..(k - 1) : p[6 + i] = q[6 + i]
    BY <2>1, <2>5, Zenon
  <2>6. ASSUME SixSame, \A i \in 1..(k - 1) : p[6 + i] = q[6 + i]
        PROVE  \A m \in 1..((6 + k) - 1) : p[m] = q[m]
    BY <2>1, <2>6, Zenon
  <2> QED
    BY <2>3, <2>4, <2>5, <2>6, Zenon
<1>7. \A n : n \in 1..(6 + Digits) <=>
             \/ n = 1 \/ n = 2 \/ n = 3 \/ n = 4 \/ n = 5 \/ n = 6
             \/ \E k \in 1..Digits : n = 6 + k
  <2>1. ASSUME NEW m \in 1..(6 + Digits), ~(m = 1 \/ m = 2 \/ m = 3 \/ m = 4 \/ m = 5 \/ m = 6)
        PROVE  \E i \in 1..Digits : m = 6 + i
    <3>1. m - 6 \in 1..Digits /\ m = 6 + (m - 6)
      BY <1>1, <2>1
    <3> QED
      BY <3>1
  <2>2. /\ 1 \in 1..(6 + Digits) /\ 2 \in 1..(6 + Digits) /\ 3 \in 1..(6 + Digits)
        /\ 4 \in 1..(6 + Digits) /\ 5 \in 1..(6 + Digits) /\ 6 \in 1..(6 + Digits)
    BY <1>1
  <2>3. \A i \in 1..Digits : 6 + i \in 1..(6 + Digits)
    BY <1>1
  <2> QED
    BY <2>1, <2>2, <2>3, Zenon
<1>8. (\E k \in 1..Digits : Decides(6 + k)) <=> SixSame /\ DigitsPrecede(t.digits, u.digits, Digits)
  <2> HIDE DEF Decides, SixSame
  <2> QED
    BY <1>6, Zenon DEF DigitsPrecede
<1>9. Precedes(p, q) <=> \/ Decides(1) \/ Decides(2) \/ Decides(3) \/ Decides(4) \/ Decides(5) \/ Decides(6)
                         \/ SixSame /\ DigitsPrecede(t.digits, u.digits, Digits)
  <2> HIDE DEF Decides, SixSame
  <2> QED
    BY <1>4, <1>7, <1>8, Zenon
<1>10. SixSame <=> SameDate(t, u) /\ SameTime(t, u)
  BY <1>2, <1>3, Zenon DEF SameDate, SameTime
<1>11. Decides(1) \/ Decides(2) \/ Decides(3) <=> DateBefore(t, u)
  <2> HIDE DEF Decides
  <2> QED
    BY <1>2, <1>3, <1>5, Zenon DEF DateBefore
<1>12. Decides(4) \/ Decides(5) \/ Decides(6) <=> SameDate(t, u) /\ TimeBefore(t, u)
  <2> HIDE DEF Decides
  <2> QED
    BY <1>2, <1>3, <1>5, Zenon DEF SameDate, TimeBefore
<1> HIDE DEF Decides, SixSame
<1>13. Precedes(p, q) <=> \/ DateBefore(t, u)
                          \/ SameDate(t, u) /\ TimeBefore(t, u)
                          \/ SameDate(t, u) /\ SameTime(t, u) /\ DigitsPrecede(t.digits, u.digits, Digits)
  BY <1>9, <1>10, <1>11, <1>12, Zenon
<1> QED
  BY <1>13 DEF p, q

(* The parts of two texts that SameMinute compares.                        *)
LEMMA SameParts ==
    ASSUME NEW t \in TextType, NEW u \in TextType
    PROVE  LET p == text_numbers(t)
               q == text_numbers(u)
           IN  /\ SubSeq(p, 1, 5) = SubSeq(q, 1, 5) <=>
                     SameDate(t, u) /\ t.hour = u.hour /\ t.minute = u.minute
               /\ SubSeq(p, 7, Len(p)) = SubSeq(q, 7, Len(q)) <=>
                     SameDigits(t.digits, u.digits, Digits)
<1> DEFINE p == text_numbers(t)
           q == text_numbers(u)
<1>1. Digits \in Nat \ {0}
  BY SomeDigits
<1>2. /\ p \in Seq(Nat) /\ Len(p) = 6 + Digits
      /\ p[1] = t.year /\ p[2] = t.month /\ p[3] = t.day
      /\ p[4] = t.hour /\ p[5] = t.minute /\ p[6] = t.second
      /\ \A k \in 1..Digits : p[6 + k] = digit(t.digits, k)
  BY NumbersByPlace
<1>3. /\ q \in Seq(Nat) /\ Len(q) = 6 + Digits
      /\ q[1] = u.year /\ q[2] = u.month /\ q[3] = u.day
      /\ q[4] = u.hour /\ q[5] = u.minute /\ q[6] = u.second
      /\ \A k \in 1..Digits : q[6 + k] = digit(u.digits, k)
  BY NumbersByPlace
<1> HIDE DEF p, q
<1>4. ASSUME NEW s \in Seq(Nat), Len(s) = 6 + Digits
      PROVE  /\ SubSeq(s, 1, 5) \in Seq(Nat) /\ Len(SubSeq(s, 1, 5)) = 5
             /\ \A i \in 1..5 : SubSeq(s, 1, 5)[i] = s[i]
             /\ SubSeq(s, 7, Len(s)) \in Seq(Nat) /\ Len(SubSeq(s, 7, Len(s))) = Digits
             /\ \A k \in 1..Digits : SubSeq(s, 7, Len(s))[k] = s[6 + k]
  <2>1. \A i \in 1..(6 + Digits) : s[i] \in Nat
    BY <1>4
  <2>2. /\ SubSeq(s, 1, 5) \in Seq(Nat) /\ Len(SubSeq(s, 1, 5)) = 5
        /\ \A i \in 1..5 : SubSeq(s, 1, 5)[i] = s[i]
    BY <1>1, <1>4, <2>1
  <2>3. /\ SubSeq(s, 7, 6 + Digits) \in Seq(Nat) /\ Len(SubSeq(s, 7, 6 + Digits)) = Digits
        /\ \A k \in 1..Digits : SubSeq(s, 7, 6 + Digits)[k] = s[6 + k]
    BY <1>1, <1>4, <2>1
  <2> QED
    BY <1>4, <2>2, <2>3, Zenon
<1>5. SubSeq(p, 1, 5) = SubSeq(q, 1, 5) <=> \A i \in 1..5 : p[i] = q[i]
  BY <1>2, <1>3, <1>4, SeqEqual
<1>6. SubSeq(p, 7, Len(p)) = SubSeq(q, 7, Len(q)) <=> \A k \in 1..Digits : p[6 + k] = q[6 + k]
  <2> DEFINE v == SubSeq(p, 7, Len(p))
             w == SubSeq(q, 7, Len(q))
  <2>1. /\ v \in Seq(Nat) /\ Len(v) = Digits /\ \A k \in 1..Digits : v[k] = p[6 + k]
        /\ w \in Seq(Nat) /\ Len(w) = Digits /\ \A k \in 1..Digits : w[k] = q[6 + k]
    BY <1>2, <1>3, <1>4, Zenon
  <2> HIDE DEF v, w
  <2>2. v = w => \A k \in 1..Digits : p[6 + k] = q[6 + k]
    BY <2>1, Zenon
  <2>3. ASSUME \A k \in 1..Digits : p[6 + k] = q[6 + k]
        PROVE  v = w
    <3>1. \A k \in 1..Len(v) : v[k] = w[k]
      BY <2>1, <2>3, Zenon
    <3> QED
      BY <2>1, <3>1, SeqEqual
  <2>4. v = w <=> \A k \in 1..Digits : p[6 + k] = q[6 + k]
    BY <2>2, <2>3, Zenon
  <2> QED
    BY <2>4 DEF v, w
<1>7. (\A i \in 1..5 : p[i] = q[i]) <=>
         p[1] = q[1] /\ p[2] = q[2] /\ p[3] = q[3] /\ p[4] = q[4] /\ p[5] = q[5]
  OBVIOUS
<1>8. SubSeq(p, 1, 5) = SubSeq(q, 1, 5) <=> SameDate(t, u) /\ t.hour = u.hour /\ t.minute = u.minute
  BY <1>2, <1>3, <1>5, <1>7, Zenon DEF SameDate
<1>9. SubSeq(p, 7, Len(p)) = SubSeq(q, 7, Len(q)) <=> SameDigits(t.digits, u.digits, Digits)
  BY <1>2, <1>3, <1>6, Zenon DEF SameDigits
<1> QED
  BY <1>8, <1>9 DEF p, q

(* The order of two objects that are not a leap second and a time in its   *)
(* minute with another fraction is the order of their texts: both compare  *)
(* the days, then the clocks, then the fractions.                          *)
LEMMA ObjectOrder ==
    ASSUME NEW a \in Datetimes, NEW b \in Datetimes,
           InRange(a), InRange(b), ~SameMinute(a, b)
    PROVE  less(a, b) <=> Precedes(text_numbers(a.raw), text_numbers(b.raw))
<1>1. PICK t \in TextType :
          /\ t = a.raw /\ ~refused_text(t)
          /\ a.is_leap_second = is_leap_second(t) /\ a.time_point = instant(t)
  BY ObjectParts
<1>2. PICK u \in TextType :
          /\ u = b.raw /\ ~refused_text(u)
          /\ b.is_leap_second = is_leap_second(u) /\ b.time_point = instant(u)
  BY ObjectParts
<1>3. DateExists(t) /\ DateExists(u) /\ t.digits \in Seq(Digit) /\ u.digits \in Seq(Digit)
  BY <1>1, <1>2, TextNumbers
<1>4. PICK x \in Int, y \in Int :
          /\ x = sys_days(t) /\ y = sys_days(u)
          /\ DateBefore(t, u) <=> x < y
          /\ SameDate(t, u) <=> x = y
  BY <1>3, DateOrder
<1>5. PICK f \in Nat, g \in Nat :
          /\ f = fraction(t.digits) /\ g = fraction(u.digits)
          /\ DigitsPrecede(t.digits, u.digits, Digits) <=> f < g
          /\ SameDigits(t.digits, u.digits, Digits) <=> f = g
  BY <1>3, FractionOrder
<1>6. PICK h \in 0..23, m \in 0..59, s \in 0..60, r \in 0..59 :
          h = t.hour /\ m = t.minute /\ s = t.second /\ r = representable_second(t)
  <2>1. /\ t.hour \in 0..23 /\ t.minute \in 0..59 /\ t.second \in 0..60
        /\ representable_second(t) \in 0..59
    BY <1>1, TextNumbers
  <2> QED
    BY <2>1
<1>7. PICK i \in 0..23, n \in 0..59, z \in 0..60, q \in 0..59 :
          i = u.hour /\ n = u.minute /\ z = u.second /\ q = representable_second(u)
  <2>1. /\ u.hour \in 0..23 /\ u.minute \in 0..59 /\ u.second \in 0..60
        /\ representable_second(u) \in 0..59
    BY <1>2, TextNumbers
  <2> QED
    BY <2>1
<1>8. /\ r = IF s = 60 THEN 59 ELSE s
      /\ q = IF z = 60 THEN 59 ELSE z
  BY <1>6, <1>7 DEF representable_second, is_leap_second
<1>9. PICK c \in Nat, d \in Nat :
          /\ c = second_of_day(t) /\ d = second_of_day(u)
          /\ c < d <=> h < i \/ (h = i /\ m < n) \/ (h = i /\ m = n /\ r < q)
          /\ c = d <=> h = i /\ m = n /\ r = q
  <2>1. second_of_day(t) \in Nat /\ second_of_day(u) \in Nat
    BY <1>1, <1>2, InstantParts
  <2>2. /\ second_of_day(t) < second_of_day(u) <=>
               h < i \/ (h = i /\ m < n) \/ (h = i /\ m = n /\ r < q)
        /\ second_of_day(t) = second_of_day(u) <=> h = i /\ m = n /\ r = q
    <3>1. /\ second_of_day(t) < second_of_day(u) <=>
                \/ t.hour < u.hour
                \/ t.hour = u.hour /\ t.minute < u.minute
                \/ /\ t.hour = u.hour /\ t.minute = u.minute
                   /\ representable_second(t) < representable_second(u)
          /\ second_of_day(t) = second_of_day(u) <=>
                /\ t.hour = u.hour /\ t.minute = u.minute
                /\ representable_second(t) = representable_second(u)
      BY <1>1, <1>2, ClockOrder
    <3> QED
      BY <1>6, <1>7, <3>1, Zenon
  <2> QED
    BY <2>1, <2>2, Zenon
<1>10. less(a, b) <=> \/ x < y
                      \/ x = y /\ c < d
                      \/ x = y /\ c = d /\ f < g
                      \/ x = y /\ c = d /\ f = g /\ s # 60 /\ z = 60
  <2>1. /\ a.time_point = [day |-> x, second |-> c, frac |-> f]
        /\ b.time_point = [day |-> y, second |-> d, frac |-> g]
    <3>1. instant(t) = [day |-> sys_days(t), second |-> second_of_day(t), frac |-> fraction(t.digits)]
      BY <1>1, InstantParts
    <3>2. instant(u) = [day |-> sys_days(u), second |-> second_of_day(u), frac |-> fraction(u.digits)]
      BY <1>2, InstantParts
    <3> QED
      BY <1>1, <1>2, <1>4, <1>5, <1>9, <3>1, <3>2, Zenon
  <2>2. a.time_point = b.time_point <=> x = y /\ c = d /\ f = g
    BY <2>1
  <2>3. time_before(a.time_point, b.time_point) <=>
           x < y \/ (x = y /\ c < d) \/ (x = y /\ c = d /\ f < g)
    BY <2>1 DEF time_before
  <2>4. a.is_leap_second <=> s = 60
    BY <1>1, <1>6 DEF is_leap_second
  <2>5. b.is_leap_second <=> z = 60
    BY <1>2, <1>7 DEF is_leap_second
  <2>6. a.time_point = b.time_point /\ ~a.is_leap_second /\ b.is_leap_second <=>
           x = y /\ c = d /\ f = g /\ s # 60 /\ z = 60
    BY <2>2, <2>4, <2>5, Zenon
  <2> QED
    BY <2>3, <2>6, Zenon DEF less
<1>11. Precedes(text_numbers(t), text_numbers(u)) <=>
          \/ x < y
          \/ x = y /\ (h < i \/ (h = i /\ m < n) \/ (h = i /\ m = n /\ s < z))
          \/ x = y /\ h = i /\ m = n /\ s = z /\ f < g
  <2>1. TimeBefore(t, u) <=> h < i \/ (h = i /\ m < n) \/ (h = i /\ m = n /\ s < z)
    BY <1>6, <1>7, Zenon DEF TimeBefore
  <2>2. SameTime(t, u) <=> h = i /\ m = n /\ s = z
    BY <1>6, <1>7, Zenon DEF SameTime
  <2> QED
    BY <1>4, <1>5, <2>1, <2>2, TextPrecedes, Zenon
<1>12. ASSUME x = y, h = i, m = n, f # g
       PROVE  s = 60 <=> z = 60
  <2>1. SameMinute(a, b) <=>
           /\ a.is_leap_second # b.is_leap_second
           /\ SameDate(t, u) /\ t.hour = u.hour /\ t.minute = u.minute
           /\ ~SameDigits(t.digits, u.digits, Digits)
    BY <1>1, <1>2, SameParts DEF SameMinute
  <2>2. SameDate(t, u) /\ t.hour = u.hour /\ t.minute = u.minute /\ ~SameDigits(t.digits, u.digits, Digits)
    BY <1>4, <1>5, <1>6, <1>7, <1>12, Zenon
  <2>3. a.is_leap_second = b.is_leap_second
    BY <2>1, <2>2, Zenon
  <2> QED
    BY <1>1, <1>2, <1>6, <1>7, <2>3 DEF is_leap_second
<1>13. less(a, b) <=> Precedes(text_numbers(t), text_numbers(u))
  BY <1>8, <1>9, <1>10, <1>11, <1>12
<1> QED
  BY <1>1, <1>2, <1>13

(* Datetimes are ordered as their texts are, for every text that parses    *)
(* into the range of a time point; of a leap second and another time in    *)
(* its minute, when their fractions are the same.                          *)
THEOREM OrderAlwaysChronological == DatetimeSpec => []OrderIsChronological
<1>1. DatetimeInv => OrderIsChronological
  BY ObjectOrder DEF DatetimeInv, OrderIsChronological
<1> QED
  BY <1>1, DatetimeInitInv, DatetimeNextInv, PTL DEF DatetimeSpec
-----------------------------------------------------------------------------
(***************************************************************************)
(* HexValues: UUIDs and hashes, compared.                                  *)
(***************************************************************************)
(* The lowered digits, the texts of a value in them, what a pair stands    *)
(* for, and the objects whose bytes are those of their text.               *)
LowDigits == 48..57 \cup 97..102
LowTexts  == { t \in Seq(LowDigits) : Len(t) = 2 * ValueBytes }
Byte(c, d) == 16 * nibble(c) + nibble(d)
Bytes(t) == [n \in 1..ValueBytes |-> Byte(t[2 * n - 1], t[2 * n])]

HexObjects == { [text |-> t, bytes |-> Bytes(t)] : t \in LowTexts }

HexInv == uuids \in Seq(HexObjects) /\ hashes \in Seq(HexObjects)

(* Lowered digits stand for the sixteen nibbles, in their order. *)
LEMMA NibbleOrder ==
    ASSUME NEW c \in LowDigits, NEW d \in LowDigits
    PROVE  /\ c \in Int /\ d \in Int /\ nibble(c) \in 0..15
           /\ c < d <=> nibble(c) < nibble(d)
           /\ c = d <=> nibble(c) = nibble(d)
<1>1. ASSUME NEW x \in LowDigits
      PROVE  /\ x \in Int
             /\ x \in 48..57 => nibble(x) = x - 48
             /\ x \in 97..102 => nibble(x) = x - 87
  BY DEF LowDigits, nibble, tolower, Code
<1>2. (c \in 48..57 \/ c \in 97..102) /\ (d \in 48..57 \/ d \in 97..102)
  BY DEF LowDigits
<1> QED
  BY <1>1, <1>2

(* A byte is less than another when its first digit is, or when these are  *)
(* the same and its second is.                                             *)
LEMMA ByteOrder ==
    ASSUME NEW a \in LowDigits, NEW b \in LowDigits, NEW c \in LowDigits, NEW d \in LowDigits
    PROVE  /\ Byte(a, b) \in 0..255
           /\ Byte(a, b) = Byte(c, d) <=> a = c /\ b = d
           /\ Byte(a, b) < Byte(c, d) <=> a < c \/ (a = c /\ b < d)
<1>1. /\ nibble(a) \in 0..15 /\ nibble(b) \in 0..15 /\ nibble(c) \in 0..15 /\ nibble(d) \in 0..15
  BY NibbleOrder
<1>2. /\ a < c <=> nibble(a) < nibble(c)
      /\ a = c <=> nibble(a) = nibble(c)
      /\ b < d <=> nibble(b) < nibble(d)
      /\ b = d <=> nibble(b) = nibble(d)
  BY NibbleOrder
<1>3. PICK w \in 0..15, x \in 0..15, y \in 0..15, z \in 0..15 :
           w = nibble(a) /\ x = nibble(b) /\ y = nibble(c) /\ z = nibble(d)
  BY <1>1
<1>4. Byte(a, b) = 16 * w + x /\ Byte(c, d) = 16 * y + z
  BY <1>3 DEF Byte
<1>5. /\ a < c <=> w < y
      /\ a = c <=> w = y
      /\ b < d <=> x < z
      /\ b = d <=> x = z
  BY <1>2, <1>3
<1>6. 16 * w + x \in 0..255
  OBVIOUS
<1>7. /\ 16 * w + x = 16 * y + z <=> w = y /\ x = z
      /\ 16 * w + x < 16 * y + z <=> w < y \/ (w = y /\ x < z)
  <2>1. CASE w < y
    BY <2>1
  <2>2. CASE w = y
    BY <2>2
  <2>3. CASE y < w
    BY <2>3
  <2> QED
    BY <2>1, <2>2, <2>3
<1> QED
  BY <1>4, <1>5, <1>6, <1>7, Zenon

(* The digits of a text and of the pair n. *)
LEMMA TextDigits ==
    ASSUME NEW t \in LowTexts
    PROVE  /\ ValueBytes \in Nat \ {0}
           /\ t \in Seq(LowDigits) /\ Len(t) = 2 * ValueBytes /\ DOMAIN t = 1..(2 * ValueBytes)
           /\ \A n \in 1..(2 * ValueBytes) : t[n] \in LowDigits
           /\ DOMAIN Bytes(t) = 1..ValueBytes
           /\ \A n \in 1..ValueBytes : /\ 2 * n - 1 \in 1..(2 * ValueBytes) /\ 2 * n \in 1..(2 * ValueBytes)
                                       /\ Bytes(t)[n] = Byte(t[2 * n - 1], t[2 * n])
<1>1. ValueBytes \in Nat \ {0}
  BY HexAssumption
<1>2. t \in Seq(LowDigits) /\ Len(t) = 2 * ValueBytes
  BY DEF LowTexts
<1>3. \A n \in 1..(2 * ValueBytes) : t[n] \in LowDigits
  BY <1>1, <1>2, ElementOfSeq
<1>4. DOMAIN t = 1..(2 * ValueBytes)
  BY <1>2
<1>5. \A n \in 1..ValueBytes : 2 * n - 1 \in 1..(2 * ValueBytes) /\ 2 * n \in 1..(2 * ValueBytes)
  BY <1>1
<1> QED
  BY <1>1, <1>2, <1>3, <1>4, <1>5 DEF Bytes

(* Every position of a text is one of the two of a byte. *)
LEMMA PairOf ==
    ASSUME NEW n \in 1..(2 * ValueBytes)
    PROVE  \E k \in 1..ValueBytes : n = 2 * k - 1 \/ n = 2 * k
<1>1. ValueBytes \in Nat
  BY HexAssumption
<1>2. CASE n % 2 = 0
  <2>1. n \div 2 \in 1..ValueBytes /\ n = 2 * (n \div 2)
    BY <1>1, <1>2
  <2> QED
    BY <2>1
<1>3. CASE n % 2 = 1
  <2>1. (n + 1) \div 2 \in 1..ValueBytes /\ n = 2 * ((n + 1) \div 2) - 1
    BY <1>1, <1>3
  <2> QED
    BY <2>1
<1> QED
  BY <1>2, <1>3

(* Equal texts are equal bytes. *)
LEMMA SameBytes ==
    ASSUME NEW t \in LowTexts, NEW u \in LowTexts
    PROVE  t = u <=> Bytes(t) = Bytes(u)
<1> SUFFICES ASSUME Bytes(t) = Bytes(u) PROVE t = u
  OBVIOUS
<1>1. ASSUME NEW n \in 1..(2 * ValueBytes) PROVE t[n] = u[n]
  <2>1. PICK k \in 1..ValueBytes : n = 2 * k - 1 \/ n = 2 * k
    BY PairOf
  <2>2. Byte(t[2 * k - 1], t[2 * k]) = Byte(u[2 * k - 1], u[2 * k])
    BY TextDigits
  <2>3. PICK a \in LowDigits, b \in LowDigits, c \in LowDigits, d \in LowDigits :
             a = t[2 * k - 1] /\ b = t[2 * k] /\ c = u[2 * k - 1] /\ d = u[2 * k]
    <3>1. /\ t[2 * k - 1] \in LowDigits /\ t[2 * k] \in LowDigits
          /\ u[2 * k - 1] \in LowDigits /\ u[2 * k] \in LowDigits
      BY TextDigits
    <3> QED
      BY <3>1, Zenon
  <2>4. t[2 * k - 1] = u[2 * k - 1] /\ t[2 * k] = u[2 * k]
    <3>1. Byte(a, b) = Byte(c, d)
      BY <2>2, <2>3
    <3>2. a = c /\ b = d
      BY <3>1, ByteOrder
    <3> QED
      BY <2>3, <3>2
  <2> QED
    BY <2>1, <2>4
<1> QED
  BY <1>1, TextDigits, SeqEqual

(* The order of texts is the order of bytes: both are decided at the first *)
(* place where they differ, and that place lies in the same pair.          *)
LEMMA SameOrder ==
    ASSUME NEW t \in LowTexts, NEW u \in LowTexts
    PROVE  precedes(t, u) <=> precedes(Bytes(t), Bytes(u))
<1> DEFINE p == Bytes(t)
           q == Bytes(u)
<1>0. ValueBytes \in Nat \ {0}
  BY HexAssumption
<1>1. /\ DOMAIN t = 1..(2 * ValueBytes) /\ DOMAIN p = 1..ValueBytes
      /\ \A n \in 1..(2 * ValueBytes) : t[n] \in LowDigits /\ u[n] \in LowDigits
      /\ \A n \in 1..ValueBytes : p[n] = Byte(t[2 * n - 1], t[2 * n]) /\ q[n] = Byte(u[2 * n - 1], u[2 * n])
      /\ \A n \in 1..ValueBytes : 2 * n - 1 \in 1..(2 * ValueBytes) /\ 2 * n \in 1..(2 * ValueBytes)
  BY TextDigits
<1> HIDE DEF p, q
<1>2. \A n \in 1..ValueBytes :
         /\ p[n] = q[n] <=> t[2 * n - 1] = u[2 * n - 1] /\ t[2 * n] = u[2 * n]
         /\ p[n] < q[n] <=> t[2 * n - 1] < u[2 * n - 1] \/ (t[2 * n - 1] = u[2 * n - 1] /\ t[2 * n] < u[2 * n])
  <2>1. TAKE n \in 1..ValueBytes
  <2>2. /\ t[2 * n - 1] \in LowDigits /\ t[2 * n] \in LowDigits
        /\ u[2 * n - 1] \in LowDigits /\ u[2 * n] \in LowDigits
        /\ p[n] = Byte(t[2 * n - 1], t[2 * n]) /\ q[n] = Byte(u[2 * n - 1], u[2 * n])
    BY <1>1
  <2> QED
    BY <2>2, ByteOrder
<1>3. ASSUME precedes(t, u) PROVE precedes(p, q)
  <2>1. PICK n \in 1..(2 * ValueBytes) : t[n] < u[n] /\ \A m \in 1..(n - 1) : t[m] = u[m]
    BY <1>1, <1>3 DEF precedes
  <2>2. PICK k \in 1..ValueBytes : n = 2 * k - 1 \/ n = 2 * k
    BY PairOf
  <2>3. p[k] < q[k]
    <3>1. CASE n = 2 * k - 1
      BY <1>2, <2>1, <3>1
    <3>2. CASE n = 2 * k
      <4>1. 2 * k - 1 \in 1..(n - 1)
        BY <1>0, <3>2
      <4> QED
        BY <1>2, <2>1, <3>2, <4>1
    <3> QED
      BY <2>2, <3>1, <3>2
  <2>4. ASSUME NEW m \in 1..(k - 1) PROVE p[m] = q[m]
    <3>1. m \in 1..ValueBytes /\ 2 * m - 1 \in 1..(n - 1) /\ 2 * m \in 1..(n - 1)
      BY <1>0, <2>2
    <3> QED
      BY <1>2, <2>1, <3>1
  <2> QED
    BY <1>1, <2>3, <2>4 DEF precedes
<1>4. ASSUME precedes(p, q) PROVE precedes(t, u)
  <2>1. PICK k \in 1..ValueBytes : p[k] < q[k] /\ \A m \in 1..(k - 1) : p[m] = q[m]
    BY <1>1, <1>4 DEF precedes
  <2>2. ASSUME NEW j \in 1..(2 * k - 2) PROVE t[j] = u[j]
    <3>1. j \in 1..(2 * ValueBytes)
      BY <1>0
    <3>2. PICK m \in 1..ValueBytes : j = 2 * m - 1 \/ j = 2 * m
      BY <3>1, PairOf
    <3>3. m \in 1..(k - 1)
      BY <1>0, <3>2
    <3> QED
      BY <1>2, <2>1, <3>2, <3>3
  <2>3. CASE t[2 * k - 1] < u[2 * k - 1]
    <3>1. PICK n \in 1..(2 * ValueBytes) : n = 2 * k - 1
      BY <1>1
    <3>2. \A m \in 1..(n - 1) : t[m] = u[m]
      BY <1>0, <2>2, <3>1
    <3> QED
      BY <1>1, <2>3, <3>1, <3>2 DEF precedes
  <2>4. CASE t[2 * k - 1] = u[2 * k - 1] /\ t[2 * k] < u[2 * k]
    <3>1. PICK n \in 1..(2 * ValueBytes) : n = 2 * k
      BY <1>1
    <3>2. ASSUME NEW m \in 1..(n - 1) PROVE t[m] = u[m]
      <4>1. m \in 1..(2 * k - 2) \/ m = 2 * k - 1
        BY <1>0, <3>1
      <4> QED
        BY <2>2, <2>4, <4>1
    <3> QED
      BY <1>1, <2>4, <3>1, <3>2 DEF precedes
  <2> QED
    BY <1>2, <2>1, <2>3, <2>4
<1> QED
  BY <1>3, <1>4 DEF p, q

(* Lowering a text that is accepted gives lowered digits, which both       *)
(* parsers of a pair take for the same byte.                               *)
LEMMA LoweredDigits ==
    ASSUME NEW t \in HexTexts, is_valid(t)
    PROVE  /\ to_lower(t.chars) \in LowTexts
           /\ normalized(t.chars) = to_lower(t.chars)
<1>0. ValueBytes \in Nat \ {0}
  BY HexAssumption
<1>1. t.chars \in Seq(Char) /\ Len(t.chars) = 2 * ValueBytes
  BY HexAssumption DEF is_valid
<1>2. ASSUME NEW n \in 1..Len(t.chars) PROVE tolower(t.chars[n]) \in LowDigits
  <2> DEFINE c == t.chars[n]
  <2>1. c \in 48..57 \/ c \in 65..70 \/ c \in 97..102
    BY DEF is_valid, isxdigit, Code
  <2> HIDE DEF c
  <2>2. tolower(c) \in LowDigits
    <3>1. tolower(c) = IF c \in 65..90 THEN c + 32 ELSE c
      <4>1. Code.A = 65 /\ Code.A + 25 = 90
        BY DEF Code
      <4> QED
        BY <4>1 DEF tolower
    <3>2. CASE c \in 65..70
      <4>1. PICK x \in 65..70 : x = c
        BY <3>2
      <4>2. x \in 65..90 /\ x + 32 \in 97..102
        OBVIOUS
      <4> QED
        BY <3>1, <4>1, <4>2 DEF LowDigits
    <3>3. CASE c \in 48..57 \cup 97..102
      <4>1. PICK x \in 48..57 \cup 97..102 : x = c
        BY <3>3
      <4>2. x \notin 65..90
        OBVIOUS
      <4> QED
        BY <3>1, <4>1, <4>2 DEF LowDigits
    <3> QED
      BY <2>1, <3>2, <3>3
  <2> QED
    BY <2>2 DEF c
<1>3. to_lower(t.chars) \in Seq(LowDigits) /\ Len(to_lower(t.chars)) = Len(t.chars)
  <2>1. to_lower(t.chars) \in [1..(2 * ValueBytes) -> LowDigits] /\ 2 * ValueBytes \in Nat
    BY <1>0, <1>1, <1>2 DEF to_lower
  <2> QED
    BY <1>1, <2>1
<1> QED
  BY <1>1, <1>3 DEF LowTexts, normalized, to_lower

(* A text in low digits makes the bytes of its pairs, in both parsers.     *)
LEMMA ParsedBytes ==
    ASSUME NEW t \in LowTexts
    PROVE  /\ parse_bytes(t) = Bytes(t)
           /\ [n \in 1..ValueBytes |-> from_chars(t[2 * n - 1], t[2 * n])] = Bytes(t)
<1>1. ASSUME NEW n \in 1..ValueBytes
      PROVE  /\ hex_pair_to_byte(t[2 * n - 1], t[2 * n]) = Byte(t[2 * n - 1], t[2 * n])
             /\ from_chars(t[2 * n - 1], t[2 * n]) = Byte(t[2 * n - 1], t[2 * n])
  <2>1. t[2 * n - 1] \in LowDigits /\ t[2 * n] \in LowDigits
    BY TextDigits
  <2>2. Byte(t[2 * n - 1], t[2 * n]) \in 0..255
    BY <2>1, ByteOrder
  <2>3. from_chars(t[2 * n - 1], t[2 * n]) = Byte(t[2 * n - 1], t[2 * n])
    BY DEF from_chars, Byte
  <2>4. hex_pair_to_byte(t[2 * n - 1], t[2 * n]) = Byte(t[2 * n - 1], t[2 * n]) % 256
    BY DEF hex_pair_to_byte, Byte
  <2>5. \A x \in 0..255 : x % 256 = x
    OBVIOUS
  <2> QED
    BY <2>2, <2>3, <2>4, <2>5
<1> QED
  BY <1>1 DEF parse_bytes, Bytes

(* No object is constructed at first. *)
LEMMA HexInitInv == HexInit => HexInv
BY DEF HexInit, HexInv

(* A constructor appends the object of a lowered text, or throws.          *)
LEMMA HexNextInv == HexInv /\ [HexNext]_hexVars => HexInv'
<1> SUFFICES ASSUME HexInv, [HexNext]_hexVars PROVE HexInv'
  OBVIOUS
<1>1. CASE ConstructUUID
  <2>1. PICK t \in HexTexts :
           /\ is_valid(t)
           /\ uuids' = Append(uuids, [text |-> to_lower(t.chars), bytes |-> parse_bytes(to_lower(t.chars))])
           /\ hashes' = hashes
    BY <1>1 DEF ConstructUUID
  <2> DEFINE low == to_lower(t.chars)
  <2>2. low \in LowTexts /\ parse_bytes(low) = Bytes(low)
    BY <2>1, LoweredDigits, ParsedBytes
  <2>3. [text |-> low, bytes |-> parse_bytes(low)] \in HexObjects
    BY <2>2 DEF HexObjects
  <2> QED
    BY <2>1, <2>3 DEF HexInv
<1>2. CASE ConstructSHA512
  <2>1. PICK t \in HexTexts :
           /\ is_valid(t)
           /\ hashes' = Append(hashes,
                 [text |-> normalized(t.chars),
                  bytes |-> [n \in 1..ValueBytes |->
                                from_chars(normalized(t.chars)[2 * n - 1], normalized(t.chars)[2 * n])]])
           /\ uuids' = uuids
    BY <1>2 DEF ConstructSHA512
  <2> DEFINE low == normalized(t.chars)
  <2>2. low \in LowTexts
    BY <2>1, LoweredDigits
  <2> HIDE DEF low
  <2>3. [n \in 1..ValueBytes |-> from_chars(low[2 * n - 1], low[2 * n])] = Bytes(low)
    BY <2>2, ParsedBytes
  <2>4. [text |-> low, bytes |-> [n \in 1..ValueBytes |-> from_chars(low[2 * n - 1], low[2 * n])]] \in HexObjects
    BY <2>2, <2>3 DEF HexObjects
  <2> QED
    BY <2>1, <2>4 DEF HexInv, low
<1>3. CASE Refuse \/ UNCHANGED hexVars
  BY <1>3 DEF Refuse, hexVars, HexInv
<1> QED
  BY <1>1, <1>2, <1>3 DEF HexNext

(* Two constructed values have the bytes of their texts. *)
LEMMA ConstructedObject ==
    ASSUME NEW s \in Seq(HexObjects), NEW n \in DOMAIN s
    PROVE  s[n].text \in LowTexts /\ s[n].bytes = Bytes(s[n].text)
<1>1. s[n] \in HexObjects
  BY ElementOfSeq
<1>2. PICK t \in LowTexts : s[n] = [text |-> t, bytes |-> Bytes(t)]
  BY <1>1 DEF HexObjects
<1> QED
  BY <1>2

(* SHA512: equality and order of the texts are those of the digests, for   *)
(* values of any number of bytes and texts of either case.                 *)
THEOREM HashesAlwaysCompareAsDigests == HexSpec => []HashesCompareAsDigests
<1>1. HexInv => HashesCompareAsDigests
  <2> SUFFICES ASSUME hashes \in Seq(HexObjects), NEW m \in DOMAIN hashes, NEW n \in DOMAIN hashes
               PROVE  /\ hashes[m].text = hashes[n].text <=> matches(hashes[m], hashes[n].bytes)
                      /\ hash_less(hashes[m], hashes[n]) <=> precedes(hashes[m].bytes, hashes[n].bytes)
    BY DEF HexInv, HashesCompareAsDigests
  <2>1. /\ hashes[m].text \in LowTexts /\ hashes[m].bytes = Bytes(hashes[m].text)
        /\ hashes[n].text \in LowTexts /\ hashes[n].bytes = Bytes(hashes[n].text)
    BY ConstructedObject
  <2> QED
    BY <2>1, SameBytes, SameOrder DEF matches, hash_less
<1> QED
  BY <1>1, HexInitInv, HexNextInv, PTL DEF HexSpec

(* UUID: equality and order of the bytes are those of the texts.           *)
THEOREM UUIDsAlwaysCompareAsText == HexSpec => []UUIDsCompareAsText
<1>1. HexInv => UUIDsCompareAsText
  <2> SUFFICES ASSUME uuids \in Seq(HexObjects), NEW m \in DOMAIN uuids, NEW n \in DOMAIN uuids
               PROVE  /\ uuids[m].bytes = uuids[n].bytes <=> uuids[m].text = uuids[n].text
                      /\ uuid_less(uuids[m], uuids[n]) <=> precedes(uuids[m].text, uuids[n].text)
    BY DEF HexInv, UUIDsCompareAsText
  <2>1. /\ uuids[m].text \in LowTexts /\ uuids[m].bytes = Bytes(uuids[m].text)
        /\ uuids[n].text \in LowTexts /\ uuids[n].bytes = Bytes(uuids[n].text)
    BY ConstructedObject
  <2> QED
    BY <2>1, SameBytes, SameOrder DEF uuid_less
<1> QED
  BY <1>1, HexInitInv, HexNextInv, PTL DEF HexSpec
-----------------------------------------------------------------------------
(***************************************************************************)
(* Geolocation: points and the documents they are written to.              *)
(***************************************************************************)
(* The point is one whose setters were obeyed; the document has the shape  *)
(* of what is written and of what may be received.                         *)
PointInv ==
    /\ geo = Point(geo.latitude, geo.longitude, geo.altitude, geo.extra)
    /\ geo.latitude \in -90..90 /\ geo.longitude \in -180..180
    /\ geo.altitude \in Int \cup {NoAltitude}
    /\ IsValue(geo.extra)

IsDoc(j) == IsValue(j) /\ ("coordinates" \in DOMAIN j => j["coordinates"] \in Coordinates)

GeoInv == PointInv /\ IsDoc(doc)

(* An angle is an integer. *)
LEMMA AngleIsInt == ASSUME NEW x, x \in -180..180 \/ x \in -90..90 PROVE x \in Int
OBVIOUS

(* Coordinates that a point writes. *)
LEMMA WrittenCoordinates ==
    ASSUME NEW g, g.longitude \in Int, g.latitude \in Int, g.altitude \in Int \cup {NoAltitude}
    PROVE  /\ coords(g) \in Seq(Int)
           /\ coords(g)[1] = g.longitude /\ coords(g)[2] = g.latitude
           /\ g.altitude = NoAltitude => Len(coords(g)) = 2
           /\ g.altitude # NoAltitude => Len(coords(g)) = 3 /\ coords(g)[3] = g.altitude
<1>1. CASE g.altitude = NoAltitude
  <2>1. coords(g) = <<g.longitude, g.latitude>> \o <<>>
    BY <1>1 DEF coords
  <2>2. coords(g) = <<g.longitude, g.latitude>>
    BY <2>1
  <2> QED
    BY <1>1, <2>2
<1>2. CASE g.altitude # NoAltitude
  <2>1. g.altitude \in Int /\ coords(g) = <<g.longitude, g.latitude>> \o <<g.altitude>>
    BY <1>2 DEF coords
  <2>2. <<g.longitude, g.latitude>> \in Seq(Int) /\ <<g.altitude>> \in Seq(Int)
    BY <2>1
  <2>3. /\ coords(g) \in Seq(Int) /\ Len(coords(g)) = 3
        /\ coords(g)[1] = g.longitude /\ coords(g)[2] = g.latitude /\ coords(g)[3] = g.altitude
    BY <2>1, <2>2, ConcatProperties
  <2> QED
    BY <1>2, <2>3
<1> QED
  BY <1>1, <1>2

(* What is written has the two core members and those of extra. *)
LEMMA WrittenMembers ==
    ASSUME NEW g
    PROVE  /\ IsValue(to_json(g))
           /\ DOMAIN to_json(g) = Core \cup DOMAIN g.extra
           /\ to_json(g)["type"] = "Point"
           /\ to_json(g)["coordinates"] = Array(coords(g))
           /\ \A k \in DOMAIN g.extra \ Core : to_json(g)[k] = g.extra[k]
BY DEF to_json, Over, core_members, Core, IsValue

(* A point is written as a document that is accepted. *)
LEMMA WrittenIsAccepted ==
    ASSUME PointInv
    PROVE  accepted(to_json(geo)) /\ IsDoc(to_json(geo))
<1> DEFINE j == to_json(geo)
           c == coords(geo)
<1>1. /\ geo.longitude \in Int /\ geo.latitude \in Int /\ geo.altitude \in Int \cup {NoAltitude}
      /\ geo.latitude \in -90..90 /\ geo.longitude \in -180..180
  BY DEF PointInv
<1>2. /\ c \in Seq(Int)
      /\ c[1] = geo.longitude /\ c[2] = geo.latitude
      /\ Len(c) = 2 \/ Len(c) = 3
  BY <1>1, WrittenCoordinates
<1>3. /\ IsValue(j) /\ DOMAIN j = Core \cup DOMAIN geo.extra
      /\ j["type"] = "Point" /\ j["coordinates"] = Array(c)
  BY WrittenMembers
<1> HIDE DEF j, c
<1>4. j["coordinates"].array = TRUE /\ j["coordinates"].items = c
  BY <1>3 DEF Array
<1>5. \A n \in DOMAIN c : c[n] \in Int /\ c[n] # Text /\ c[n] # NaN
  BY <1>2, GeolocationAssumption
<1>6. j # NotObject
  BY <1>3, GeolocationAssumption DEF Core
<1>7. Core \subseteq DOMAIN j
  BY <1>3
<1>8. well_formed(j)
  BY <1>2, <1>3, <1>4, <1>5, <1>6, <1>7 DEF well_formed
<1>9. DOMAIN c = 1..Len(c)
  BY <1>2
<1>10. validate_longitude(c[1]) /\ validate_latitude(c[2]) /\ (Len(c) = 3 => c[3] # NaN)
  BY <1>1, <1>2, <1>5, <1>9 DEF validate_longitude, validate_latitude
<1>11. accepted(j)
  BY <1>4, <1>8, <1>10 DEF accepted
<1>12. j["coordinates"] \in Coordinates
  <2>1. c \in Seq(Int \cup {NaN, Text})
    BY <1>2
  <2> QED
    BY <1>3, <2>1 DEF Array, Coordinates
<1> QED
  BY <1>3, <1>11, <1>12 DEF j, IsDoc

(* What an accepted document says of the point. *)
LEMMA AcceptedPoint ==
    ASSUME NEW j, IsDoc(j), accepted(j)
    PROVE  \E c \in Seq(Int \cup {NaN, Text}) :
               /\ Core \subseteq DOMAIN j /\ j["type"] = "Point"
               /\ j["coordinates"].items = c /\ j["coordinates"] = Array(c)
               /\ c[1] \in -180..180 /\ c[2] \in -90..90
               /\ Len(c) = 2 \/ (Len(c) = 3 /\ c[3] \in Int)
<1> DEFINE c == j["coordinates"].items
<1>1. Core \subseteq DOMAIN j /\ j["type"] = "Point" /\ j["coordinates"].array /\ Len(c) \in 2..3
      /\ \A n \in DOMAIN c : c[n] # Text
  BY DEF accepted, well_formed
<1>2. j["coordinates"] \in Coordinates
  BY <1>1 DEF IsDoc, Core
<1>3. j["coordinates"] = Array(c) /\ c \in Seq(Int \cup {NaN, Text})
  BY <1>1, <1>2 DEF Coordinates, Array
<1>4. c[1] \in -180..180 /\ c[2] \in -90..90 /\ (Len(c) = 3 => c[3] # NaN)
  BY DEF accepted, validate_longitude, validate_latitude
<1>5. ASSUME Len(c) = 3 PROVE c[3] \in Int
  <2>1. 3 \in 1..Len(c) /\ DOMAIN c = 1..Len(c)
    BY <1>3, <1>5
  <2>2. 3 \in DOMAIN c /\ c[3] \in Int \cup {NaN, Text}
    BY <1>3, <2>1, ElementOfSeq
  <2> QED
    BY <1>1, <1>4, <1>5, <2>2
<1> HIDE DEF c
<1>6. Len(c) = 2 \/ (Len(c) = 3 /\ c[3] \in Int)
  BY <1>1, <1>5
<1>7. c = j["coordinates"].items
  BY DEF c
<1> QED
  BY <1>1, <1>3, <1>4, <1>6, <1>7

(* The point at the origin is in range, with no extra members.             *)
LEMMA GeoInitInv == GeoInit => GeoInv
<1> SUFFICES ASSUME GeoInit PROVE GeoInv
  OBVIOUS
<1>1. geo = Point(0, 0, NoAltitude, EmptyObject)
  BY DEF GeoInit
<1>2. geo.latitude = 0 /\ geo.longitude = 0 /\ geo.altitude = NoAltitude /\ geo.extra = EmptyObject
  BY <1>1 DEF Point
<1>3. IsValue(EmptyObject)
  BY DEF IsValue, EmptyObject
<1>4. PointInv
  BY <1>1, <1>2, <1>3 DEF PointInv
<1> QED
  BY <1>4, GeolocationAssumption DEF GeoInit, GeoInv, IsDoc

(* Every operation leaves a point in range and a document of its shape.    *)
LEMMA GeoNextInv == GeoInv /\ [GeoNext]_geoVars => GeoInv'
<1> SUFFICES ASSUME GeoInv, [GeoNext]_geoVars PROVE GeoInv'
  OBVIOUS
<1>0. PointInv /\ IsDoc(doc)
  BY DEF GeoInv
<1>p. ASSUME NEW lat \in -90..90, NEW lon \in -180..180, NEW alt \in Int \cup {NoAltitude},
             NEW e, IsValue(e), geo' = Point(lat, lon, alt, e)
      PROVE  PointInv'
  <2>1. geo'.latitude = lat /\ geo'.longitude = lon /\ geo'.altitude = alt /\ geo'.extra = e
    BY <1>p DEF Point
  <2> QED
    BY <1>p, <2>1 DEF PointInv
<1> DEFINE g == geo
<1>g. /\ geo = Point(geo.latitude, geo.longitude, geo.altitude, geo.extra)
      /\ geo.latitude \in -90..90 /\ geo.longitude \in -180..180
      /\ geo.altitude \in Int \cup {NoAltitude} /\ IsValue(geo.extra)
  BY <1>0 DEF PointInv
<1>d. doc' = doc => IsDoc(doc)'
  BY <1>0 DEF IsDoc
<1>1. CASE ConstructPoint
  <2>1. PICK lat, lon \in GeoDoubles, alt \in Altitudes \cup {NaN, NoAltitude} :
             /\ validate_latitude(lat) /\ validate_longitude(lon) /\ alt # NaN
             /\ geo' = Point(lat, lon, alt, EmptyObject) /\ UNCHANGED doc
    BY <1>1 DEF ConstructPoint
  <2>2. lat \in -90..90 /\ lon \in -180..180 /\ alt \in Int \cup {NoAltitude}
    BY <2>1, GeolocationAssumption DEF validate_latitude, validate_longitude
  <2>3. IsValue(EmptyObject)
    BY DEF IsValue, EmptyObject
  <2> QED
    BY <1>p, <1>d, <2>1, <2>2, <2>3 DEF GeoInv
<1>2. CASE set_latitude
  <2>1. PICK x : validate_latitude(x) /\ geo' = [geo EXCEPT !.latitude = x] /\ UNCHANGED doc
    BY <1>2 DEF set_latitude
  <2>2. x \in -90..90 /\ geo' = Point(x, geo.longitude, geo.altitude, geo.extra)
    BY <1>g, <2>1 DEF validate_latitude, Point
  <2> QED
    BY <1>p, <1>d, <1>g, <2>1, <2>2 DEF GeoInv
<1>3. CASE set_longitude
  <2>1. PICK x : validate_longitude(x) /\ geo' = [geo EXCEPT !.longitude = x] /\ UNCHANGED doc
    BY <1>3 DEF set_longitude
  <2>2. x \in -180..180 /\ geo' = Point(geo.latitude, x, geo.altitude, geo.extra)
    BY <1>g, <2>1 DEF validate_longitude, Point
  <2> QED
    BY <1>p, <1>d, <1>g, <2>1, <2>2 DEF GeoInv
<1>4. CASE set_altitude \/ clear_altitude
  <2>1. PICK x \in Int \cup {NoAltitude} : geo' = [geo EXCEPT !.altitude = x] /\ UNCHANGED doc
    BY <1>4, GeolocationAssumption DEF set_altitude, clear_altitude
  <2>2. geo' = Point(geo.latitude, geo.longitude, x, geo.extra)
    BY <1>g, <2>1 DEF Point
  <2> QED
    BY <1>p, <1>d, <1>g, <2>1, <2>2 DEF GeoInv
<1>5. CASE AssignExtra
  <2>1. PICK e \in Extras : geo' = [geo EXCEPT !.extra = e] /\ UNCHANGED doc
    BY <1>5 DEF AssignExtra
  <2>2. geo' = Point(geo.latitude, geo.longitude, geo.altitude, e) /\ IsValue(e)
    BY <1>g, <2>1, GeolocationAssumption DEF Point
  <2> QED
    BY <1>p, <1>d, <1>g, <2>1, <2>2 DEF GeoInv
<1>6. CASE Write
  <2>1. geo' = geo /\ doc' = to_json(geo)
    BY <1>6 DEF Write
  <2>2. IsDoc(to_json(geo))
    BY <1>0, WrittenIsAccepted
  <2> QED
    BY <1>0, <2>1, <2>2 DEF GeoInv, PointInv, IsDoc
<1>7. CASE Receive
  <2>1. geo' = geo /\ doc' \in Documents
    BY <1>7 DEF Receive
  <2>2. IsDoc(doc')
    BY <2>1, GeolocationAssumption DEF IsDoc
  <2> QED
    BY <1>0, <2>1, <2>2 DEF GeoInv, PointInv, IsDoc
<1>8. CASE Read
  <2>1. accepted(doc) /\ geo' = from_json(doc) /\ doc' = doc
    BY <1>8 DEF Read
  <2>2. PICK c \in Seq(Int \cup {NaN, Text}) :
            /\ doc["coordinates"].items = c
            /\ c[1] \in -180..180 /\ c[2] \in -90..90
            /\ Len(c) = 2 \/ (Len(c) = 3 /\ c[3] \in Int)
    BY <1>0, <2>1, AcceptedPoint
  <2>3. geo' = Point(c[2], c[1], IF Len(c) = 3 THEN c[3] ELSE NoAltitude, Restrict(doc, DOMAIN doc \ Core))
    BY <2>1, <2>2 DEF from_json
  <2>4. IsValue(Restrict(doc, DOMAIN doc \ Core))
    BY DEF IsValue, Restrict
  <2>5. (IF Len(c) = 3 THEN c[3] ELSE NoAltitude) \in Int \cup {NoAltitude}
    BY <2>2
  <2> QED
    BY <1>p, <1>d, <2>1, <2>2, <2>3, <2>4, <2>5 DEF GeoInv
<1>9. CASE UNCHANGED geoVars
  BY <1>0, <1>9 DEF geoVars, GeoInv, PointInv, IsDoc
<1> QED
  BY <1>1, <1>2, <1>3, <1>4, <1>5, <1>6, <1>7, <1>8, <1>9 DEF GeoNext

(* Geolocation::to_json and from_json: any point comes back from its JSON, *)
(* whatever numbers were set and whatever extra holds.                     *)
THEOREM PointsAlwaysComeBack == GeoSpec => []PointsComeBack
<1>1. GeoInv => PointsComeBack
  <2> SUFFICES ASSUME PointInv
               PROVE  /\ accepted(to_json(geo))
                      /\ from_json(to_json(geo)) =
                            [geo EXCEPT !.extra = Restrict(@, DOMAIN @ \ Core)]
    BY DEF GeoInv, PointsComeBack
  <2> DEFINE j == to_json(geo)
             c == coords(geo)
             kept == Restrict(geo.extra, DOMAIN geo.extra \ Core)
  <2>1. /\ geo = Point(geo.latitude, geo.longitude, geo.altitude, geo.extra)
        /\ geo.longitude \in Int /\ geo.latitude \in Int /\ geo.altitude \in Int \cup {NoAltitude}
    BY DEF PointInv
  <2>2. /\ c[1] = geo.longitude /\ c[2] = geo.latitude
        /\ geo.altitude = NoAltitude => Len(c) = 2
        /\ geo.altitude # NoAltitude => Len(c) = 3 /\ c[3] = geo.altitude
    BY <2>1, WrittenCoordinates
  <2>3. /\ DOMAIN j = Core \cup DOMAIN geo.extra /\ j["coordinates"] = Array(c)
        /\ \A k \in DOMAIN geo.extra \ Core : j[k] = geo.extra[k]
    BY WrittenMembers
  <2> HIDE DEF c, j
  <2>4. Restrict(j, DOMAIN j \ Core) = kept
    <3>1. DOMAIN j \ Core = DOMAIN geo.extra \ Core
      BY <2>3
    <3> QED
      BY <2>3, <3>1 DEF Restrict
  <2>5. j["coordinates"].items = c
    BY <2>3 DEF Array
  <2>6. (IF Len(c) = 3 THEN c[3] ELSE NoAltitude) = geo.altitude
    BY <2>1, <2>2
  <2>7. from_json(j) = Point(geo.latitude, geo.longitude, geo.altitude, kept)
    BY <2>2, <2>4, <2>5, <2>6 DEF from_json
  <2>8. [geo EXCEPT !.extra = Restrict(@, DOMAIN @ \ Core)]
           = Point(geo.latitude, geo.longitude, geo.altitude, kept)
    BY <2>1 DEF Point
  <2> QED
    BY <2>7, <2>8, WrittenIsAccepted DEF j
<1> QED
  BY <1>1, GeoInitInv, GeoNextInv, PTL DEF GeoSpec

(* Geolocation::from_json: a document that is read is written again member *)
(* by member, those that the class does not know included.                 *)
THEOREM DocumentsAlwaysComeBack == GeoSpec => []DocumentsComeBack
<1>1. GeoInv => DocumentsComeBack
  <2> SUFFICES ASSUME IsDoc(doc), accepted(doc) PROVE to_json(from_json(doc)) = doc
    BY DEF GeoInv, DocumentsComeBack
  <2>1. PICK c \in Seq(Int \cup {NaN, Text}) :
            /\ Core \subseteq DOMAIN doc /\ doc["type"] = "Point"
            /\ doc["coordinates"].items = c /\ doc["coordinates"] = Array(c)
            /\ c[1] \in -180..180 /\ c[2] \in -90..90
            /\ Len(c) = 2 \/ (Len(c) = 3 /\ c[3] \in Int)
    BY AcceptedPoint
  <2> DEFINE alt == IF Len(c) = 3 THEN c[3] ELSE NoAltitude
             g == from_json(doc)
             j == to_json(g)
  <2>2. /\ g.latitude = c[2] /\ g.longitude = c[1] /\ g.altitude = alt
        /\ g.extra = Restrict(doc, DOMAIN doc \ Core)
    BY <2>1 DEF from_json, Point
  <2>3. DOMAIN g.extra = DOMAIN doc \ Core /\ \A k \in DOMAIN g.extra : g.extra[k] = doc[k]
    BY <2>2 DEF Restrict
  <2> HIDE DEF g
  <2>10. c[1] \in -180..180 /\ c[2] \in -90..90 /\ (Len(c) = 2 \/ (Len(c) = 3 /\ c[3] \in Int))
    BY <2>1
  <2>11. c[1] \in Int /\ c[2] \in Int
    BY <2>10, AngleIsInt
  <2>4. /\ g.longitude \in Int /\ g.latitude \in Int /\ g.altitude \in Int \cup {NoAltitude}
        /\ Len(c) = 2 => g.altitude = NoAltitude
        /\ Len(c) = 3 => g.altitude # NoAltitude /\ g.altitude = c[3]
    BY <2>2, <2>10, <2>11, GeolocationAssumption
  <2>5. coords(g) = c
    <3>1. /\ coords(g) \in Seq(Int)
          /\ coords(g)[1] = c[1] /\ coords(g)[2] = c[2]
          /\ Len(c) = 2 => Len(coords(g)) = 2
          /\ Len(c) = 3 => Len(coords(g)) = 3 /\ coords(g)[3] = c[3]
      BY <2>2, <2>4, WrittenCoordinates
    <3> DEFINE w == coords(g)
    <3>2. w \in Seq(Int \cup {NaN, Text}) /\ w[1] = c[1] /\ w[2] = c[2]
      BY <3>1
    <3>3. (Len(c) = 2 /\ Len(w) = 2) \/ (Len(c) = 3 /\ Len(w) = 3 /\ w[3] = c[3])
      BY <2>1, <3>1
    <3> HIDE DEF w
    <3>4. w = c
      BY <3>2, <3>3, SeqEqual
    <3> QED
      BY <3>4 DEF w
  <2>6. /\ IsValue(j) /\ DOMAIN j = Core \cup DOMAIN g.extra
        /\ j["type"] = "Point" /\ j["coordinates"] = Array(coords(g))
        /\ \A k \in DOMAIN g.extra \ Core : j[k] = g.extra[k]
    BY WrittenMembers
  <2> HIDE DEF j
  <2>7. DOMAIN j = DOMAIN doc
    BY <2>1, <2>3, <2>6
  <2>8. \A k \in DOMAIN doc : j[k] = doc[k]
    BY <2>1, <2>3, <2>5, <2>6 DEF Core
  <2>9. j = doc
    BY <2>6, <2>7, <2>8 DEF IsValue, IsDoc
  <2> QED
    BY <2>9 DEF j, g
<1> QED
  BY <1>1, GeoInitInv, GeoNextInv, PTL DEF GeoSpec
=============================================================================
