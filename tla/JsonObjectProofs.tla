-------------------------- MODULE JsonObjectProofs --------------------------
(***************************************************************************)
(* Proofs about JsonObject, for any keys, scalars, checks and patches: its *)
(* document stays a document, and a key that a check has seen keeps        *)
(* passing it until it is edited without one.  The lemmas say of each      *)
(* operator of JsonDocument that it makes a document out of documents, and *)
(* which keys it leaves alone.                                             *)
(***************************************************************************)
EXTENDS JsonObject, TLAPS, SequenceTheorems

(* A prefix agrees with what it begins at all its positions.               *)
LEMMA PrefixPoints ==
    ASSUME NEW p \in Seq(Keys), NEW q \in Seq(Keys)
    PROVE  IsPrefix(p, q) <=> Len(p) <= Len(q) /\ \A i \in 1..Len(p) : p[i] = q[i]
<1>1. ASSUME Len(p) <= Len(q) PROVE SubSeq(q, 1, Len(p)) \in Seq(Keys)
                                    /\ Len(SubSeq(q, 1, Len(p))) = Len(p)
                                    /\ \A i \in 1..Len(p) : SubSeq(q, 1, Len(p))[i] = q[i]
  <2>1. Len(p) \in Nat /\ Len(q) \in Nat
    BY LenProperties
  <2>2. \A i \in 1..Len(p) : q[i] \in Keys
    BY <1>1, <2>1, ElementOfSeq
  <2> QED
    BY <2>1, <2>2, SubSeqProperties
<1>2. SubSeq(p, 1, Len(p)) = p
  BY SubSeqFull
<1>3. CASE Len(p) <= Len(q)
  <2>1. p = SubSeq(q, 1, Len(p)) <=> \A i \in 1..Len(p) : p[i] = q[i]
    BY <1>1, <1>3, SeqEqual
  <2> QED
    BY <1>2, <1>3, <2>1 DEF IsPrefix
<1>4. CASE ~(Len(p) <= Len(q))
  BY <1>4 DEF IsPrefix
<1> QED
  BY <1>3, <1>4

(* The first n keys of a path. *)
LEMMA BeginningPoints ==
    ASSUME NEW p \in Seq(Keys), NEW n \in 0..Len(p)
    PROVE  /\ SubSeq(p, 1, n) \in Seq(Keys)
           /\ Len(SubSeq(p, 1, n)) = n
           /\ \A i \in 1..n : SubSeq(p, 1, n)[i] = p[i]
<1>1. Len(p) \in Nat
  BY LenProperties
<1>2. \A i \in 1..n : p[i] \in Keys
  BY <1>1, ElementOfSeq
<1> QED
  BY <1>1, <1>2, SubSeqProperties

(* Prefixes is the set of the paths that IsPrefix accepts. *)
LEMMA PrefixSet ==
    ASSUME NEW p \in Seq(Keys)
    PROVE  \A q : q \in Prefixes(p) <=> q \in Seq(Keys) /\ IsPrefix(q, p)
<1>1. Len(p) \in Nat
  BY LenProperties
<1>2. ASSUME NEW n \in 0..Len(p) PROVE SubSeq(p, 1, n) \in Seq(Keys) /\ IsPrefix(SubSeq(p, 1, n), p)
  <2>1. /\ SubSeq(p, 1, n) \in Seq(Keys)
        /\ Len(SubSeq(p, 1, n)) = n
        /\ \A i \in 1..n : SubSeq(p, 1, n)[i] = p[i]
    BY BeginningPoints
  <2>2. Len(SubSeq(p, 1, n)) <= Len(p) /\ \A i \in 1..Len(SubSeq(p, 1, n)) : SubSeq(p, 1, n)[i] = p[i]
    BY <1>1, <2>1
  <2> QED
    BY <2>1, <2>2, PrefixPoints
<1>3. ASSUME NEW q \in Seq(Keys), IsPrefix(q, p) PROVE \E n \in 0..Len(p) : q = SubSeq(p, 1, n)
  <2>1. Len(q) \in Nat /\ Len(q) <= Len(p) /\ q = SubSeq(q, 1, Len(q))
    <3>1. Len(q) \in Nat
      BY LenProperties
    <3>2. q = SubSeq(q, 1, Len(q))
      BY SubSeqFull
    <3> QED
      BY <1>3, <3>1, <3>2 DEF IsPrefix
  <2>2. q = SubSeq(p, 1, Len(q))
    BY <1>3, <2>1 DEF IsPrefix
  <2>3. Len(q) \in 0..Len(p)
    BY <1>1, <2>1
  <2> QED
    BY <2>2, <2>3
<1> QED
  BY <1>2, <1>3 DEF Prefixes

LEMMA PrefixTransitive ==
    ASSUME NEW p \in Seq(Keys), NEW q \in Seq(Keys), NEW r \in Seq(Keys),
           IsPrefix(p, q), IsPrefix(q, r)
    PROVE  IsPrefix(p, r)
<1>1. Len(p) \in Nat /\ Len(q) \in Nat /\ Len(r) \in Nat
  BY LenProperties
<1>2. /\ Len(p) <= Len(q) /\ \A i \in 1..Len(p) : p[i] = q[i]
      /\ Len(q) <= Len(r) /\ \A i \in 1..Len(q) : q[i] = r[i]
  BY PrefixPoints
<1>3. Len(p) <= Len(r) /\ \A i \in 1..Len(p) : p[i] = r[i]
  BY <1>1, <1>2
<1> QED
  BY <1>3, PrefixPoints

(* Two prefixes of a path are prefixes of each other. *)
LEMMA PrefixesOfOnePath ==
    ASSUME NEW p \in Seq(Keys), NEW q \in Seq(Keys), NEW r \in Seq(Keys),
           IsPrefix(p, r), IsPrefix(q, r)
    PROVE  IsPrefix(p, q) \/ IsPrefix(q, p)
<1>1. Len(p) \in Nat /\ Len(q) \in Nat /\ Len(r) \in Nat
  BY LenProperties
<1>2. /\ Len(p) <= Len(r) /\ \A i \in 1..Len(p) : p[i] = r[i]
      /\ Len(q) <= Len(r) /\ \A i \in 1..Len(q) : q[i] = r[i]
  BY PrefixPoints
<1>3. CASE Len(p) <= Len(q)
  <2>1. \A i \in 1..Len(p) : p[i] = q[i]
    BY <1>1, <1>2, <1>3
  <2> QED
    BY <1>3, <2>1, PrefixPoints
<1>4. CASE Len(q) <= Len(p)
  <2>1. \A i \in 1..Len(q) : q[i] = p[i]
    BY <1>1, <1>2, <1>4
  <2> QED
    BY <1>4, <2>1, PrefixPoints
<1> QED
  BY <1>1, <1>3, <1>4

(* The root is a prefix of every path and has no other prefix.             *)
LEMMA RootIsPrefix ==
    ASSUME NEW p \in Seq(Keys)
    PROVE  /\ <<>> \in Seq(Keys) /\ IsPrefix(<<>>, p)
           /\ IsPrefix(p, <<>>) => p = <<>>
           /\ IsPrefix(p, p)
<1>1. <<>> \in Seq(Keys) /\ Len(<<>>) = 0 /\ Len(p) \in Nat
  BY EmptySeq, LenProperties
<1>2. IsPrefix(<<>>, p)
  <2>1. Len(<<>>) <= Len(p) /\ \A i \in 1..Len(<<>>) : <<>>[i] = p[i]
    BY <1>1
  <2> QED
    BY <1>1, <2>1, PrefixPoints
<1>3. ASSUME IsPrefix(p, <<>>) PROVE p = <<>>
  <2>1. Len(p) <= Len(<<>>)
    BY <1>3 DEF IsPrefix
  <2> QED
    BY <1>1, <2>1, EmptySeq
<1>4. IsPrefix(p, p)
  BY <1>1, PrefixPoints
<1> QED
  BY <1>1, <1>2, <1>3, <1>4

(* A path that begins with ptr is ptr and the rest. *)
LEMMA RestPoints ==
    ASSUME NEW ptr \in Seq(Keys), NEW p \in Seq(Keys), IsPrefix(ptr, p)
    PROVE  /\ Rest(ptr, p) \in Seq(Keys)
           /\ ptr \o Rest(ptr, p) = p
           /\ Rest(ptr, p) = <<>> <=> p = ptr
<1>1. Len(ptr) \in Nat /\ Len(p) \in Nat
  BY LenProperties
<1>2. Len(ptr) <= Len(p) /\ \A i \in 1..Len(ptr) : ptr[i] = p[i]
  BY PrefixPoints
<1>3. \A i \in (Len(ptr) + 1)..Len(p) : p[i] \in Keys
  BY <1>1, ElementOfSeq
<1>4. /\ Rest(ptr, p) \in Seq(Keys)
      /\ Len(Rest(ptr, p)) = Len(p) - Len(ptr)
      /\ \A i \in 1..(Len(p) - Len(ptr)) : Rest(ptr, p)[i] = p[Len(ptr) + i]
  BY <1>1, <1>2, <1>3, SubSeqProperties DEF Rest
<1>5. ptr \o Rest(ptr, p) = p
  <2>1. /\ ptr \o Rest(ptr, p) \in Seq(Keys)
        /\ Len(ptr \o Rest(ptr, p)) = Len(p)
        /\ \A i \in 1..Len(p) : (ptr \o Rest(ptr, p))[i] =
              IF i <= Len(ptr) THEN ptr[i] ELSE Rest(ptr, p)[i - Len(ptr)]
    BY <1>1, <1>2, <1>4, ConcatProperties
  <2>2. \A i \in 1..Len(p) : (ptr \o Rest(ptr, p))[i] = p[i]
    BY <1>1, <1>2, <1>4, <2>1
  <2> QED
    BY <2>1, <2>2, SeqEqual
<1> QED
  BY <1>4, <1>5, ConcatEqualIffEmpty

(* What ptr \o r begins with, and what it leaves. *)
LEMMA ConcatPoints ==
    ASSUME NEW ptr \in Seq(Keys), NEW r \in Seq(Keys)
    PROVE  /\ ptr \o r \in Seq(Keys)
           /\ IsPrefix(ptr, ptr \o r)
           /\ Rest(ptr, ptr \o r) = r
<1>1. Len(ptr) \in Nat /\ Len(r) \in Nat
  BY LenProperties
<1>2. /\ ptr \o r \in Seq(Keys)
      /\ Len(ptr \o r) = Len(ptr) + Len(r)
      /\ \A i \in 1..(Len(ptr) + Len(r)) : (ptr \o r)[i] = IF i <= Len(ptr) THEN ptr[i] ELSE r[i - Len(ptr)]
  BY ConcatProperties
<1>3. IsPrefix(ptr, ptr \o r)
  <2>1. Len(ptr) <= Len(ptr \o r) /\ \A i \in 1..Len(ptr) : ptr[i] = (ptr \o r)[i]
    BY <1>1, <1>2
  <2> QED
    BY <1>2, <2>1, PrefixPoints
<1>4. Rest(ptr, ptr \o r) = r
  <2>1. Rest(ptr, ptr \o r) \in Seq(Keys) /\ ptr \o Rest(ptr, ptr \o r) = ptr \o r
    BY <1>2, <1>3, RestPoints
  <2> QED
    BY <2>1, ConcatSimplifications
<1> QED
  BY <1>2, <1>3, <1>4
-----------------------------------------------------------------------------
(* Prefixes after a common beginning. *)
LEMMA ConcatPrefix ==
    ASSUME NEW ptr \in Seq(Keys), NEW q \in Seq(Keys), NEW p \in Seq(Keys), IsPrefix(q, p), q # p
    PROVE  ptr \o q \in Seq(Keys) /\ IsPrefix(ptr \o q, ptr \o p) /\ ptr \o q # ptr \o p
<1>1. Len(ptr) \in Nat /\ Len(q) \in Nat /\ Len(p) \in Nat
  BY LenProperties
<1>2. Len(q) <= Len(p) /\ \A i \in 1..Len(q) : q[i] = p[i]
  BY PrefixPoints
<1>3. /\ ptr \o q \in Seq(Keys)
      /\ Len(ptr \o q) = Len(ptr) + Len(q)
      /\ \A i \in 1..(Len(ptr) + Len(q)) : (ptr \o q)[i] = IF i <= Len(ptr) THEN ptr[i] ELSE q[i - Len(ptr)]
  BY ConcatProperties
<1>4. /\ ptr \o p \in Seq(Keys)
      /\ Len(ptr \o p) = Len(ptr) + Len(p)
      /\ \A i \in 1..(Len(ptr) + Len(p)) : (ptr \o p)[i] = IF i <= Len(ptr) THEN ptr[i] ELSE p[i - Len(ptr)]
  BY ConcatProperties
<1>5. \A i \in 1..Len(ptr \o q) : (ptr \o q)[i] = (ptr \o p)[i]
  BY <1>1, <1>2, <1>3, <1>4
<1>6. Len(ptr \o q) <= Len(ptr \o p)
  BY <1>1, <1>2, <1>3, <1>4
<1>7. IsPrefix(ptr \o q, ptr \o p)
  BY <1>3, <1>4, <1>5, <1>6, PrefixPoints
<1>8. ptr \o q # ptr \o p
  BY ConcatSimplifications
<1> QED
  BY <1>3, <1>7, <1>8

LEMMA ConcatPrefixBack ==
    ASSUME NEW ptr \in Seq(Keys), NEW q \in Seq(Keys), NEW p \in Seq(Keys),
           IsPrefix(ptr \o q, ptr \o p), ptr \o q # ptr \o p
    PROVE  IsPrefix(q, p) /\ q # p
<1>1. Len(ptr) \in Nat /\ Len(q) \in Nat /\ Len(p) \in Nat
  BY LenProperties
<1>2. /\ ptr \o q \in Seq(Keys)
      /\ Len(ptr \o q) = Len(ptr) + Len(q)
      /\ \A i \in 1..(Len(ptr) + Len(q)) : (ptr \o q)[i] = IF i <= Len(ptr) THEN ptr[i] ELSE q[i - Len(ptr)]
  BY ConcatProperties
<1>3. /\ ptr \o p \in Seq(Keys)
      /\ Len(ptr \o p) = Len(ptr) + Len(p)
      /\ \A i \in 1..(Len(ptr) + Len(p)) : (ptr \o p)[i] = IF i <= Len(ptr) THEN ptr[i] ELSE p[i - Len(ptr)]
  BY ConcatProperties
<1>4. Len(ptr \o q) <= Len(ptr \o p) /\ \A i \in 1..Len(ptr \o q) : (ptr \o q)[i] = (ptr \o p)[i]
  BY <1>2, <1>3, PrefixPoints
<1>5. Len(q) <= Len(p)
  BY <1>1, <1>2, <1>3, <1>4
<1>6. ASSUME NEW i \in 1..Len(q) PROVE q[i] = p[i]
  <2>1. Len(ptr) + i \in 1..(Len(ptr) + Len(q)) /\ Len(ptr) + i \in 1..(Len(ptr) + Len(p))
        /\ (Len(ptr) + i) - Len(ptr) = i /\ ~(Len(ptr) + i <= Len(ptr))
    BY <1>1, <1>5
  <2>2. (ptr \o q)[Len(ptr) + i] = q[i] /\ (ptr \o p)[Len(ptr) + i] = p[i]
    BY <1>2, <1>3, <2>1
  <2>3. (ptr \o q)[Len(ptr) + i] = (ptr \o p)[Len(ptr) + i]
    BY <1>2, <1>4, <2>1
  <2> QED
    BY <2>2, <2>3
<1> QED
  BY <1>5, <1>6, PrefixPoints

(* IsDocument in terms of IsPrefix. *)
LEMMA DocumentParts ==
    ASSUME NEW d, IsDocument(d)
    PROVE  /\ d = [p \in DOMAIN d |-> d[p]]
           /\ <<>> \in DOMAIN d
           /\ \A p \in DOMAIN d : p \in Seq(Keys) /\ d[p] \in Scalars \cup {Object}
           /\ \A p \in DOMAIN d : \A q \in Seq(Keys) :
                 IsPrefix(q, p) /\ q # p => q \in DOMAIN d /\ d[q] = Object
<1>1. ASSUME NEW p \in DOMAIN d, NEW q \in Seq(Keys), IsPrefix(q, p), q # p
      PROVE  q \in DOMAIN d /\ d[q] = Object
  <2>1. p \in Seq(Keys)
    BY DEF IsDocument
  <2>2. q \in Prefixes(p) \ {p}
    BY <1>1, <2>1, PrefixSet
  <2> QED
    BY <2>2 DEF IsDocument
<1> QED
  BY <1>1 DEF IsDocument

LEMMA DocumentFromParts ==
    ASSUME NEW d,
           d = [p \in DOMAIN d |-> d[p]],
           <<>> \in DOMAIN d,
           \A p \in DOMAIN d : p \in Seq(Keys) /\ d[p] \in Scalars \cup {Object},
           \A p \in DOMAIN d : \A q \in Seq(Keys) :
                 IsPrefix(q, p) /\ q # p => q \in DOMAIN d /\ d[q] = Object
    PROVE  IsDocument(d)
<1>1. ASSUME NEW p \in DOMAIN d, NEW q \in Prefixes(p) \ {p}
      PROVE  q \in DOMAIN d /\ d[q] = Object
  <2>1. p \in Seq(Keys)
    OBVIOUS
  <2>2. q \in Seq(Keys) /\ IsPrefix(q, p) /\ q # p
    BY <2>1, PrefixSet
  <2> QED
    BY <2>2
<1> QED
  BY <1>1 DEF IsDocument

(* A scalar, or the empty object, is a document. *)
LEMMA ScalarDocument ==
    ASSUME NEW v \in Scalars \cup {Object}
    PROVE  IsDocument(Scalar(v)) /\ Scalar(v)[<<>>] = v
<1> DEFINE d == Scalar(v)
<1>1. d = [p \in {<<>>} |-> v] /\ DOMAIN d = {<<>>} /\ d[<<>>] = v
  BY DEF Scalar
<1>2. <<>> \in Seq(Keys)
  BY EmptySeq
<1>3. \A q \in Seq(Keys) : IsPrefix(q, <<>>) => q = <<>>
  BY RootIsPrefix
<1>4. d = [p \in DOMAIN d |-> d[p]]
  BY <1>1
<1> HIDE DEF d
<1>5. \A p \in DOMAIN d : p \in Seq(Keys) /\ d[p] \in Scalars \cup {Object}
  BY <1>1, <1>2
<1>6. \A p \in DOMAIN d : \A q \in Seq(Keys) : IsPrefix(q, p) /\ q # p => q \in DOMAIN d /\ d[q] = Object
  BY <1>1, <1>3
<1>7. IsDocument(d)
  BY <1>1, <1>4, <1>5, <1>6, DocumentFromParts
<1> QED
  BY <1>1, <1>7 DEF d

(* jsonpointer::get with create: ptr exists afterwards. *)
LEMMA CreatedDocument ==
    ASSUME NEW d, IsDocument(d), NEW ptr \in Seq(Keys), Resolves(d, ptr)
    PROVE  IsDocument(Created(d, ptr)) /\ ptr \in DOMAIN Created(d, ptr)
<1> DEFINE c == Created(d, ptr)
           B == { SubSeq(ptr, 1, k) : k \in 0..Len(ptr) }
<1>1. /\ c = [p \in DOMAIN d \cup B |-> IF p \in DOMAIN d THEN d[p] ELSE Object]
      /\ DOMAIN c = DOMAIN d \cup B
      /\ \A p \in DOMAIN c : c[p] = IF p \in DOMAIN d THEN d[p] ELSE Object
  BY DEF Created
<1>2. B = Prefixes(ptr)
  BY DEF Prefixes
<1>3. \A q : q \in B <=> q \in Seq(Keys) /\ IsPrefix(q, ptr)
  BY <1>2, PrefixSet
<1>4. c = [p \in DOMAIN c |-> c[p]]
  BY <1>1
<1>5. /\ <<>> \in DOMAIN d
      /\ \A p \in DOMAIN d : p \in Seq(Keys) /\ d[p] \in Scalars \cup {Object}
      /\ \A p \in DOMAIN d : \A q \in Seq(Keys) :
            IsPrefix(q, p) /\ q # p => q \in DOMAIN d /\ d[q] = Object
  BY DocumentParts
<1>6. ASSUME NEW q \in Seq(Keys), IsPrefix(q, ptr), q # ptr, q \in DOMAIN d PROVE d[q] = Object
  <2>1. Len(q) \in Nat /\ Len(ptr) \in Nat /\ Len(q) <= Len(ptr)
    BY <1>6, LenProperties, PrefixPoints
  <2>2. q = SubSeq(ptr, 1, Len(q))
    BY <1>6, SubSeqFull DEF IsPrefix
  <2>3. Len(q) # Len(ptr)
    BY <1>6, <2>2, SubSeqFull
  <2>4. Len(q) \in 0..(Len(ptr) - 1)
    BY <2>1, <2>3
  <2> QED
    BY <1>6, <2>2, <2>4 DEF Resolves
<1> HIDE DEF c, B
<1>7. ASSUME NEW p \in DOMAIN c, NEW q \in Seq(Keys), IsPrefix(q, p), q # p
      PROVE  q \in DOMAIN c /\ c[q] = Object
  <2>1. CASE p \in DOMAIN d
    BY <1>1, <1>5, <1>7, <2>1
  <2>2. CASE p \in B
    <3>1. p \in Seq(Keys) /\ IsPrefix(p, ptr)
      BY <1>3, <2>2
    <3>2. IsPrefix(q, ptr)
      BY <1>7, <3>1, PrefixTransitive
    <3>3. q # ptr
      <4>1. SUFFICES ASSUME q = ptr PROVE FALSE
        OBVIOUS
      <4>2. Len(p) \in Nat /\ Len(q) \in Nat /\ Len(p) <= Len(q) /\ Len(q) <= Len(p)
        BY <1>7, <3>1, <4>1, LenProperties, PrefixPoints
      <4>3. \A i \in 1..Len(q) : q[i] = p[i]
        BY <1>7, <3>1, PrefixPoints
      <4> QED
        BY <1>7, <3>1, <4>2, <4>3, SeqEqual
    <3> QED
      BY <1>1, <1>3, <1>6, <3>2, <3>3
  <2> QED
    BY <1>1, <2>1, <2>2
<1>8. ptr \in DOMAIN c
  BY <1>1, <1>3, RootIsPrefix
<1>9. \A p \in DOMAIN c : p \in Seq(Keys) /\ c[p] \in Scalars \cup {Object}
  BY <1>1, <1>3, <1>5
<1>10. <<>> \in DOMAIN c
  BY <1>1, <1>5
<1>11. IsDocument(c)
  BY <1>4, <1>7, <1>9, <1>10, DocumentFromParts
<1> QED
  BY <1>8, <1>11 DEF c

(* The part of a document at a path. *)
LEMMA AtDocument ==
    ASSUME NEW d, IsDocument(d), NEW ptr \in DOMAIN d
    PROVE  IsDocument(At(d, ptr)) /\ At(d, ptr)[<<>>] = d[ptr]
<1> DEFINE a == At(d, ptr)
           R == { Rest(ptr, q) : q \in { q \in DOMAIN d : IsPrefix(ptr, q) } }
<1>1. /\ a = [r \in R |-> d[ptr \o r]]
      /\ DOMAIN a = R
      /\ \A r \in R : a[r] = d[ptr \o r]
  BY DEF At
<1>2. a = [r \in DOMAIN a |-> a[r]]
  BY <1>1
<1>3. /\ ptr \in Seq(Keys)
      /\ \A p \in DOMAIN d : p \in Seq(Keys) /\ d[p] \in Scalars \cup {Object}
      /\ \A p \in DOMAIN d : \A q \in Seq(Keys) :
            IsPrefix(q, p) /\ q # p => q \in DOMAIN d /\ d[q] = Object
  BY DocumentParts
<1>4. ASSUME NEW r PROVE r \in R <=> r \in Seq(Keys) /\ ptr \o r \in DOMAIN d
  <2>1. ASSUME r \in R PROVE r \in Seq(Keys) /\ ptr \o r \in DOMAIN d
    <3>1. PICK q \in DOMAIN d : IsPrefix(ptr, q) /\ r = Rest(ptr, q)
      BY <2>1
    <3> QED
      BY <1>3, <3>1, RestPoints
  <2>2. ASSUME r \in Seq(Keys), ptr \o r \in DOMAIN d PROVE r \in R
    BY <1>3, <2>2, ConcatPoints
  <2> QED
    BY <2>1, <2>2
<1> HIDE DEF a, R
<1>5. <<>> \in R /\ ptr \o <<>> = ptr
  BY <1>3, <1>4, ConcatEmptySeq, EmptySeq
<1>6. ASSUME NEW p \in DOMAIN a, NEW q \in Seq(Keys), IsPrefix(q, p), q # p
      PROVE  q \in DOMAIN a /\ a[q] = Object
  <2>1. p \in Seq(Keys) /\ ptr \o p \in DOMAIN d
    BY <1>1, <1>4
  <2>2. ptr \o q \in Seq(Keys) /\ IsPrefix(ptr \o q, ptr \o p) /\ ptr \o q # ptr \o p
    BY <1>3, <1>6, <2>1, ConcatPrefix
  <2> QED
    BY <1>1, <1>3, <1>4, <2>1, <2>2
<1>7. \A p \in DOMAIN a : p \in Seq(Keys) /\ a[p] \in Scalars \cup {Object}
  BY <1>1, <1>3, <1>4
<1>8. IsDocument(a)
  BY <1>1, <1>2, <1>5, <1>6, <1>7, DocumentFromParts
<1> QED
  BY <1>1, <1>5, <1>8 DEF a

(* Every place above a path is an object: what grafting there needs.       *)
Above(d, ptr) == \A q \in Seq(Keys) : IsPrefix(q, ptr) /\ q # ptr => q \in DOMAIN d /\ d[q] = Object

(* A document with another value at one path. *)
LEMMA GraftDocument ==
    ASSUME NEW d, IsDocument(d), NEW ptr \in Seq(Keys), Above(d, ptr), NEW v, IsDocument(v)
    PROVE  IsDocument(Graft(d, ptr, v))
<1> DEFINE g == Graft(d, ptr, v)
           D == { q \in DOMAIN d : ~IsPrefix(ptr, q) }
           V == { ptr \o r : r \in DOMAIN v }
<1>1. /\ g = [p \in D \cup V |-> IF IsPrefix(ptr, p) THEN v[Rest(ptr, p)] ELSE d[p]]
      /\ DOMAIN g = D \cup V
      /\ \A p \in DOMAIN g : g[p] = IF IsPrefix(ptr, p) THEN v[Rest(ptr, p)] ELSE d[p]
  BY DEF Graft
<1>2. g = [p \in DOMAIN g |-> g[p]]
  BY <1>1
<1>3. /\ <<>> \in DOMAIN d
      /\ \A p \in DOMAIN d : p \in Seq(Keys) /\ d[p] \in Scalars \cup {Object}
      /\ \A p \in DOMAIN d : \A q \in Seq(Keys) :
            IsPrefix(q, p) /\ q # p => q \in DOMAIN d /\ d[q] = Object
  BY DocumentParts
<1>4. /\ <<>> \in DOMAIN v
      /\ \A p \in DOMAIN v : p \in Seq(Keys) /\ v[p] \in Scalars \cup {Object}
      /\ \A p \in DOMAIN v : \A q \in Seq(Keys) :
            IsPrefix(q, p) /\ q # p => q \in DOMAIN v /\ v[q] = Object
  BY DocumentParts
<1>5. ASSUME NEW r \in DOMAIN v
      PROVE  /\ ptr \o r \in V /\ ptr \o r \in Seq(Keys)
             /\ IsPrefix(ptr, ptr \o r) /\ Rest(ptr, ptr \o r) = r
  BY <1>4, ConcatPoints
<1>6. \A p \in D : p \in DOMAIN d /\ ~IsPrefix(ptr, p)
  OBVIOUS
<1>7. \A p \in V : \E r \in DOMAIN v : p = ptr \o r
  OBVIOUS
<1>8. \A p \in DOMAIN d : ~IsPrefix(ptr, p) => p \in D
  OBVIOUS
<1> HIDE DEF g, D, V
<1>9. ASSUME NEW r \in DOMAIN v PROVE ptr \o r \in DOMAIN g /\ g[ptr \o r] = v[r]
  BY <1>1, <1>5
<1>10. ASSUME NEW p \in DOMAIN g, NEW q \in Seq(Keys), IsPrefix(q, p), q # p
       PROVE  q \in DOMAIN g /\ g[q] = Object
  <2>1. CASE p \in D
    <3>1. p \in DOMAIN d /\ ~IsPrefix(ptr, p) /\ p \in Seq(Keys)
      BY <1>3, <1>6, <2>1
    <3>2. q \in DOMAIN d /\ d[q] = Object
      BY <1>3, <1>10, <3>1
    <3>3. ~IsPrefix(ptr, q)
      BY <1>10, <3>1, PrefixTransitive
    <3> QED
      BY <1>1, <1>8, <3>2, <3>3
  <2>2. CASE p \in V
    <3>1. PICK r \in DOMAIN v : p = ptr \o r
      BY <1>7, <2>2
    <3>2. r \in Seq(Keys) /\ p \in Seq(Keys) /\ IsPrefix(ptr, p)
      BY <1>4, <1>5, <3>1
    <3>3. CASE IsPrefix(ptr, q)
      <4> DEFINE t == Rest(ptr, q)
      <4>1. t \in Seq(Keys) /\ ptr \o t = q
        BY <3>3, RestPoints
      <4> HIDE DEF t
      <4>2. IsPrefix(t, r) /\ t # r
        BY <1>10, <3>1, <3>2, <4>1, ConcatPrefixBack
      <4>3. t \in DOMAIN v /\ v[t] = Object
        BY <1>4, <3>2, <4>1, <4>2
      <4> QED
        BY <1>9, <4>1, <4>3
    <3>4. CASE ~IsPrefix(ptr, q)
      <4>1. IsPrefix(q, ptr) /\ q # ptr
        BY <1>10, <3>2, <3>4, PrefixesOfOnePath, RootIsPrefix
      <4>2. q \in DOMAIN d /\ d[q] = Object
        BY <4>1 DEF Above
      <4> QED
        BY <1>1, <1>8, <3>4, <4>2
    <3> QED
      BY <3>3, <3>4
  <2> QED
    BY <1>1, <2>1, <2>2
<1>11. \A p \in DOMAIN g : p \in Seq(Keys) /\ g[p] \in Scalars \cup {Object}
  <2>1. TAKE p \in DOMAIN g
  <2>2. CASE p \in D
    BY <1>1, <1>3, <1>6, <2>2
  <2>3. CASE p \in V
    <3>1. PICK r \in DOMAIN v : p = ptr \o r
      BY <1>7, <2>3
    <3> QED
      BY <1>4, <1>5, <1>9, <3>1
  <2> QED
    BY <1>1, <2>2, <2>3
<1>12. <<>> \in DOMAIN g
  <2>1. CASE IsPrefix(ptr, <<>>)
    <3>1. ptr = <<>>
      BY <2>1, RootIsPrefix
    <3>2. ptr \o <<>> = <<>>
      BY <3>1, ConcatEmptySeq, EmptySeq
    <3> QED
      BY <1>4, <1>9, <3>2
  <2>2. CASE ~IsPrefix(ptr, <<>>)
    BY <1>1, <1>3, <1>8, <2>2
  <2> QED
    BY <2>1, <2>2
<1>13. IsDocument(g)
  BY <1>2, <1>10, <1>11, <1>12, DocumentFromParts
<1> QED
  BY <1>13 DEF g

(* json::merge of two objects. *)
LEMMA MergedDocument ==
    ASSUME NEW d, IsDocument(d), IsObject(d), NEW v, IsDocument(v)
    PROVE  IsDocument(merged(d, v))
<1> DEFINE g == merged(d, v)
           N == { q \in DOMAIN v : q # <<>> /\ <<Head(q)>> \notin DOMAIN d }
<1>1. /\ g = [p \in DOMAIN d \cup N |-> IF p \in DOMAIN d THEN d[p] ELSE v[p]]
      /\ DOMAIN g = DOMAIN d \cup N
      /\ \A p \in DOMAIN g : g[p] = IF p \in DOMAIN d THEN d[p] ELSE v[p]
  BY DEF merged
<1>2. g = [p \in DOMAIN g |-> g[p]]
  BY <1>1
<1>3. /\ <<>> \in DOMAIN d
      /\ \A p \in DOMAIN d : p \in Seq(Keys) /\ d[p] \in Scalars \cup {Object}
      /\ \A p \in DOMAIN d : \A q \in Seq(Keys) :
            IsPrefix(q, p) /\ q # p => q \in DOMAIN d /\ d[q] = Object
  BY DocumentParts
<1>4. /\ \A p \in DOMAIN v : p \in Seq(Keys) /\ v[p] \in Scalars \cup {Object}
      /\ \A p \in DOMAIN v : \A q \in Seq(Keys) :
            IsPrefix(q, p) /\ q # p => q \in DOMAIN v /\ v[q] = Object
  BY DocumentParts
<1>5. \A p : p \in N <=> p \in DOMAIN v /\ p # <<>> /\ <<Head(p)>> \notin DOMAIN d
  OBVIOUS
<1> HIDE DEF g, N
<1>6. ASSUME NEW p \in Seq(Keys), NEW q \in Seq(Keys), IsPrefix(q, p), q # <<>>
      PROVE  p # <<>> /\ Head(q) = Head(p)
  <2>1. Len(q) \in Nat \ {0} /\ Len(p) \in Nat
    BY <1>6, EmptySeq, LenProperties
  <2>2. Len(q) <= Len(p) /\ \A i \in 1..Len(q) : q[i] = p[i]
    BY <1>6, PrefixPoints
  <2>3. q[1] = p[1] /\ p # <<>>
    BY <2>1, <2>2, EmptySeq
  <2> QED
    BY <1>6, <2>3
<1>7. ASSUME NEW q \in Seq(Keys), q # <<>>
      PROVE  <<Head(q)>> \in Seq(Keys) /\ IsPrefix(<<Head(q)>>, q)
  <2>1. Len(q) \in Nat \ {0} /\ q[1] \in Keys /\ Head(q) = q[1]
    BY <1>7, EmptySeq, ElementOfSeq
  <2>2. <<Head(q)>> \in Seq(Keys) /\ Len(<<Head(q)>>) = 1 /\ <<Head(q)>>[1] = q[1]
    BY <2>1
  <2>3. Len(<<Head(q)>>) <= Len(q) /\ \A i \in 1..Len(<<Head(q)>>) : <<Head(q)>>[i] = q[i]
    BY <2>1, <2>2
  <2> QED
    BY <2>2, <2>3, PrefixPoints
<1>8. ASSUME NEW p \in DOMAIN g, NEW q \in Seq(Keys), IsPrefix(q, p), q # p
      PROVE  q \in DOMAIN g /\ g[q] = Object
  <2>1. CASE p \in DOMAIN d
    BY <1>1, <1>3, <1>8, <2>1
  <2>2. CASE p \in N
    <3>1. p \in DOMAIN v /\ p \in Seq(Keys) /\ p # <<>> /\ <<Head(p)>> \notin DOMAIN d
      BY <1>4, <1>5, <2>2
    <3>2. CASE q = <<>>
      BY <1>1, <1>3, <3>2 DEF IsObject
    <3>3. CASE q # <<>>
      <4>1. q \in DOMAIN v /\ v[q] = Object /\ Head(q) = Head(p)
        BY <1>4, <1>6, <1>8, <3>1, <3>3
      <4>2. q \notin DOMAIN d
        BY <1>3, <1>7, <3>1, <3>3, <4>1
      <4> QED
        BY <1>1, <1>5, <3>1, <3>3, <4>1, <4>2
    <3> QED
      BY <3>2, <3>3
  <2> QED
    BY <1>1, <2>1, <2>2
<1>9. \A p \in DOMAIN g : p \in Seq(Keys) /\ g[p] \in Scalars \cup {Object}
  BY <1>1, <1>3, <1>4, <1>5
<1>10. <<>> \in DOMAIN g
  BY <1>1, <1>3
<1>11. IsDocument(g)
  BY <1>2, <1>8, <1>9, <1>10, DocumentFromParts
<1> QED
  BY <1>11 DEF g

(* apply_merge_patch of two objects. *)
LEMMA PatchedDocument ==
    ASSUME NEW d, IsDocument(d), IsObject(d), NEW v, IsDocument(v), IsObject(v)
    PROVE  IsDocument(patched(d, v)) /\ IsObject(patched(d, v))
<1> DEFINE g == patched(d, v)
           K == { p \in DOMAIN d : \A q \in DOMAIN v : IsPrefix(q, p) => v[q] = Object }
           N == { p \in DOMAIN v : v[p] # Null }
<1>1. /\ g = [p \in K \cup N |-> IF p \in N THEN v[p] ELSE d[p]]
      /\ DOMAIN g = K \cup N
      /\ \A p \in DOMAIN g : g[p] = IF p \in N THEN v[p] ELSE d[p]
  BY DEF patched
<1>2. g = [p \in DOMAIN g |-> g[p]]
  BY <1>1
<1>3. /\ <<>> \in DOMAIN d
      /\ \A p \in DOMAIN d : p \in Seq(Keys) /\ d[p] \in Scalars \cup {Object}
      /\ \A p \in DOMAIN d : \A q \in Seq(Keys) :
            IsPrefix(q, p) /\ q # p => q \in DOMAIN d /\ d[q] = Object
  BY DocumentParts
<1>4. /\ <<>> \in DOMAIN v
      /\ \A p \in DOMAIN v : p \in Seq(Keys) /\ v[p] \in Scalars \cup {Object}
      /\ \A p \in DOMAIN v : \A q \in Seq(Keys) :
            IsPrefix(q, p) /\ q # p => q \in DOMAIN v /\ v[q] = Object
  BY DocumentParts
<1>5. /\ \A p : p \in N <=> p \in DOMAIN v /\ v[p] # Null
      /\ \A p : p \in K <=> p \in DOMAIN d /\ \A q \in DOMAIN v : IsPrefix(q, p) => v[q] = Object
  OBVIOUS
<1>6. Object # Null
  BY DEF Object, Null
<1> HIDE DEF g, K, N
<1>7. ASSUME NEW p \in DOMAIN g, NEW q \in Seq(Keys), IsPrefix(q, p), q # p
      PROVE  q \in DOMAIN g /\ g[q] = Object
  <2>1. CASE p \in K
    <3>1. q \in DOMAIN d /\ d[q] = Object /\ p \in Seq(Keys)
      BY <1>3, <1>5, <1>7, <2>1
    <3>2. \A t \in DOMAIN v : IsPrefix(t, q) => v[t] = Object
      BY <1>4, <1>5, <1>7, <2>1, <3>1, PrefixTransitive
    <3>3. q \in K
      BY <1>5, <3>1, <3>2
    <3>4. q \in DOMAIN v => v[q] = Object
      BY <3>2, RootIsPrefix
    <3> QED
      BY <1>1, <1>5, <3>1, <3>3, <3>4
  <2>2. CASE p \in N
    BY <1>1, <1>4, <1>5, <1>6, <1>7, <2>2
  <2> QED
    BY <1>1, <2>1, <2>2
<1>8. \A p \in DOMAIN g : p \in Seq(Keys) /\ g[p] \in Scalars \cup {Object}
  BY <1>1, <1>3, <1>4, <1>5
<1>9. <<>> \in DOMAIN g /\ g[<<>>] = Object
  BY <1>1, <1>4, <1>5, <1>6 DEF IsObject
<1>10. IsDocument(g)
  BY <1>2, <1>7, <1>8, <1>9, DocumentFromParts
<1> QED
  BY <1>9, <1>10 DEF g, IsObject
-----------------------------------------------------------------------------
(* A path that begins a key is the root or the key. *)
LEMMA BeginsKey ==
    ASSUME NEW k \in Keys, NEW q \in Seq(Keys), IsPrefix(q, <<k>>)
    PROVE  q = <<>> \/ q = <<k>>
<1>1. <<k>> \in Seq(Keys) /\ Len(<<k>>) = 1
  OBVIOUS
<1>2. Len(q) \in Nat /\ Len(q) <= 1 /\ \A i \in 1..Len(q) : q[i] = <<k>>[i]
  BY <1>1, LenProperties, PrefixPoints
<1>3. CASE Len(q) = 0
  BY <1>3, EmptySeq
<1>4. CASE Len(q) = 1
  BY <1>1, <1>2, <1>4, SeqEqual
<1> QED
  BY <1>2, <1>3, <1>4

(* Above an existing path, and above a key of an object, all are objects.  *)
LEMMA AboveExisting ==
    ASSUME NEW d, IsDocument(d), NEW ptr \in DOMAIN d
    PROVE  Above(d, ptr)
BY DocumentParts DEF Above

LEMMA AboveKey ==
    ASSUME NEW d, IsDocument(d), IsObject(d), NEW k \in Keys
    PROVE  <<k>> \in Seq(Keys) /\ Above(d, <<k>>)
<1>1. <<k>> \in Seq(Keys)
  OBVIOUS
<1>2. \A q \in Seq(Keys) : IsPrefix(q, <<k>>) /\ q # <<k>> => q = <<>>
  BY BeginsKey
<1>3. <<>> \in DOMAIN d /\ d[<<>>] = Object
  BY DocumentParts DEF IsObject
<1> QED
  BY <1>1, <1>2, <1>3 DEF Above

(* Setting one key changes no other and leaves an object an object.        *)
LEMMA SetKey ==
    ASSUME NEW d, IsDocument(d), IsObject(d), NEW k \in Keys, NEW v \in Scalars \cup {Object}
    PROVE  LET g == Graft(d, <<k>>, Scalar(v))
           IN  /\ IsDocument(g)
               /\ <<k>> \in DOMAIN g /\ g[<<k>>] = v
               /\ \A j \in Keys \ {k} : <<j>> \in DOMAIN g <=> <<j>> \in DOMAIN d
               /\ \A j \in Keys \ {k} : <<j>> \in DOMAIN d => g[<<j>>] = d[<<j>>]
<1> DEFINE g == Graft(d, <<k>>, Scalar(v))
<1>1. <<k>> \in Seq(Keys) /\ Above(d, <<k>>)
  BY AboveKey
<1>2. IsDocument(Scalar(v)) /\ Scalar(v)[<<>>] = v /\ DOMAIN Scalar(v) = {<<>>}
  BY ScalarDocument DEF Scalar
<1>3. IsDocument(g)
  BY <1>1, <1>2, GraftDocument
<1>4. <<k>> \o <<>> = <<k>> /\ IsPrefix(<<k>>, <<k>>) /\ Rest(<<k>>, <<k>>) = <<>>
  BY <1>1, ConcatEmptySeq, RootIsPrefix, RestPoints
<1>5. /\ DOMAIN g = { q \in DOMAIN d : ~IsPrefix(<<k>>, q) } \cup {<<k>>}
      /\ \A p \in DOMAIN g : g[p] = IF IsPrefix(<<k>>, p) THEN Scalar(v)[Rest(<<k>>, p)] ELSE d[p]
  BY <1>2, <1>4 DEF Graft
<1>6. ASSUME NEW j \in Keys \ {k} PROVE ~IsPrefix(<<k>>, <<j>>) /\ <<j>> # <<k>>
  <2>1. <<j>> \in Seq(Keys) /\ Len(<<k>>) = 1 /\ <<k>>[1] # <<j>>[1]
    OBVIOUS
  <2>2. ~(\A i \in 1..Len(<<k>>) : <<k>>[i] = <<j>>[i])
    BY <2>1
  <2>3. ~IsPrefix(<<k>>, <<j>>)
    BY <1>1, <2>1, <2>2, PrefixPoints
  <2> QED
    BY <2>1, <2>3
<1>7. <<k>> \in DOMAIN g /\ g[<<k>>] = v
  BY <1>2, <1>4, <1>5
<1>8. \A j \in Keys \ {k} : /\ <<j>> \in DOMAIN g <=> <<j>> \in DOMAIN d
                            /\ <<j>> \in DOMAIN d => g[<<j>>] = d[<<j>>]
  BY <1>5, <1>6
<1> QED
  BY <1>3, <1>7, <1>8
-----------------------------------------------------------------------------
LEMMA InitType == Init => TypeOK
BY ObjectAssumption DEF Init, TypeOK, Levels

LEMMA CombineType ==
    ASSUME TypeOK, NEW ptr \in Pointers, NEW v \in Values, merge(ptr, v) \/ merge_patch(ptr, v)
    PROVE  TypeOK'
<1> DEFINE c == Created(data_, ptr)
<1>1. /\ IsDocument(data_) /\ level \in Levels /\ ok \in BOOLEAN /\ vetted \subseteq CheckedKeys
      /\ ptr \in Seq(Keys) /\ IsDocument(v)
  BY ObjectAssumption DEF TypeOK
<1>2. CASE ~Resolves(data_, ptr)
  BY <1>1, <1>2 DEF merge, merge_patch, Combine, Rejected, Throws, TypeOK
<1>3. CASE Resolves(data_, ptr)
  <2>1. IsDocument(c) /\ ptr \in DOMAIN c
    BY <1>1, <1>3, CreatedDocument
  <2>2. Above(c, ptr)
    BY <2>1, AboveExisting
  <2>3. IsDocument(At(c, ptr)) /\ At(c, ptr)[<<>>] = c[ptr]
    BY <2>1, AtDocument
  <2> HIDE DEF c
  <2>4. IsDocument(Graft(c, ptr, v))
    BY <1>1, <2>1, <2>2, GraftDocument
  <2>5. ASSUME c[ptr] = Object, IsObject(v)
        PROVE  /\ IsDocument(Graft(c, ptr, merged(At(c, ptr), v)))
               /\ IsDocument(Graft(c, ptr, patched(At(c, ptr), v)))
    <3>1. IsObject(At(c, ptr))
      BY <2>3, <2>5 DEF IsObject
    <3>2. IsDocument(merged(At(c, ptr), v)) /\ IsDocument(patched(At(c, ptr), v))
      BY <1>1, <2>3, <2>5, <3>1, MergedDocument, PatchedDocument
    <3> QED
      BY <1>1, <2>1, <2>2, <3>2, GraftDocument
  <2>6. IsDocument(data_')
    <3>1. CASE merge(ptr, v)
      BY <1>3, <2>1, <2>4, <2>5, <3>1 DEF merge, Combine, Edited, c
    <3>2. CASE merge_patch(ptr, v)
      BY <1>3, <2>1, <2>4, <2>5, <3>2 DEF merge_patch, Combine, Edited, c
    <3> QED
      BY <3>1, <3>2
  <2>7. level' = level /\ vetted' \subseteq CheckedKeys /\ ok' \in BOOLEAN
    BY <1>1, <1>3 DEF merge, merge_patch, Combine, Edited, Returns, Throws
  <2> QED
    BY <1>1, <2>6, <2>7 DEF TypeOK
<1> QED
  BY <1>2, <1>3

LEMMA NextType ==
    ASSUME TypeOK, [Next]_vars
    PROVE  TypeOK'
<1> USE DEF TypeOK
<1>1. IsDocument(data_) /\ level \in Levels /\ ok \in BOOLEAN /\ vetted \subseteq CheckedKeys
  OBVIOUS
<1>2. ASSUME NEW v \in Values, NEW lv \in Levels, NEW validator \in BOOLEAN, Construct(v, lv, validator)
      PROVE  TypeOK'
  <2>1. IsDocument(v) /\ IsDocument(Defaults) /\ IsObject(Defaults)
    BY ObjectAssumption
  <2>2. IsObject(v) => IsDocument(patched(Defaults, v))
    BY <2>1, PatchedDocument
  <2> QED
    BY <1>1, <1>2, <2>2 DEF Construct, Rejected, Throws, Returns
<1>3. ASSUME NEW ptr \in Pointers, NEW v \in Values, set(ptr, v) PROVE TypeOK'
  <2>1. ptr \in Seq(Keys) /\ IsDocument(v)
    BY ObjectAssumption
  <2>2. ASSUME Resolves(data_, ptr) PROVE IsDocument(Graft(Created(data_, ptr), ptr, v))
    <3>1. IsDocument(Created(data_, ptr)) /\ ptr \in DOMAIN Created(data_, ptr)
      BY <1>1, <2>1, <2>2, CreatedDocument
    <3> QED
      BY <2>1, <3>1, AboveExisting, GraftDocument
  <2> QED
    BY <1>1, <1>3, <2>2 DEF set, Edited, Rejected, Throws, Returns
<1>4. ASSUME NEW ptr \in Pointers, NEW v \in Values, merge(ptr, v) \/ merge_patch(ptr, v) PROVE TypeOK'
  BY <1>4, CombineType
<1>5. ASSUME NEW k \in CheckedKeys \cup UncheckedKeys, Vivify(k) PROVE TypeOK'
  <2>1. k \in Keys /\ Object \in Scalars \cup {Object} /\ Null \in Scalars \cup {Object}
    BY ObjectAssumption, JsonAssumption
  <2>2. IsObject(data_) => \A v \in {Object, Null} : IsDocument(Graft(data_, <<k>>, Scalar(v)))
    BY <1>1, <2>1, SetKey
  <2> QED
    BY <1>1, <1>5, <2>2 DEF Vivify, Edited, Rejected, Throws, Returns
<1>6. ASSUME NEW k \in CheckedKeys \cup UncheckedKeys, NEW q \in Scalars \ {Null},
             \/ k \in CheckedKeys \ UncheckedKeys /\ SetChecked(k, q)
             \/ k \in UncheckedKeys /\ SetUnchecked(k, q)
      PROVE  TypeOK'
  <2>1. k \in Keys
    BY ObjectAssumption
  <2>2. IsObject(data_) => IsDocument(Graft(data_, <<k>>, Scalar(q)))
    BY <1>1, <2>1, SetKey
  <2> QED
    BY <1>1, <1>6, <2>2 DEF SetChecked, SetUnchecked, Rejected, Throws, Returns
<1>7. ASSUME NEW lv \in Levels, NEW validator \in BOOLEAN, set_validation_context(lv, validator)
      PROVE  TypeOK'
  BY <1>1, <1>7 DEF set_validation_context, Rejected, Throws, Returns
<1>8. CASE UNCHANGED vars
  BY <1>1, <1>8 DEF vars
<1> QED
  BY <1>2, <1>3, <1>4, <1>5, <1>6, <1>7, <1>8 DEF Next

(* Whatever is set, merged, patched or vivified, at whatever pointer, the  *)
(* data_ of a JSONBase stays one JSON document, for documents of any depth. *)
THEOREM TypeCorrect == Spec => []TypeOK
<1>1. Init => TypeOK
  BY InitType
<1>2. TypeOK /\ [Next]_vars => TypeOK'
  BY NextType
<1> QED
  BY <1>1, <1>2, PTL DEF Spec
-----------------------------------------------------------------------------
(* What passes its check can be read. *)
LEMMA CheckedIsReadable ==
    ASSUME NEW d, NEW k \in CheckedKeys, check_key(d, k)
    PROVE  getter(d, k) # Unusable
<1>1. CASE <<k>> \in DOMAIN d
  <2>1. get(d, k) \in Good[k]
    BY <1>1 DEF check_key
  <2>2. Unusable \notin Good[k]
    BY ObjectAssumption
  <2> QED
    BY <1>1, <2>1, <2>2 DEF getter
<1>2. CASE <<k>> \notin DOMAIN d
  <2>1. k \notin RequiredKeys
    BY <1>2 DEF check_key
  <2> QED
    BY <1>2, <2>1, ObjectAssumption DEF getter
<1> QED
  BY <1>1, <1>2

(* Two documents that have the same at a key agree on its check.           *)
SameAt(d, g, k) ==
    /\ <<k>> \in DOMAIN g <=> <<k>> \in DOMAIN d
    /\ <<k>> \in DOMAIN d => g[<<k>>] = d[<<k>>]

LEMMA SameCheck ==
    ASSUME NEW d, NEW g, NEW k, SameAt(d, g, k), check_key(d, k)
    PROVE  check_key(g, k)
BY DEF SameAt, check_key, get

(* A path that is no beginning of a key, and that the key does not begin.  *)
LEMMA OtherKey ==
    ASSUME NEW ptr \in Seq(Keys), ptr # <<>>, NEW k \in Keys, k # Head(ptr)
    PROVE  <<k>> \in Seq(Keys) /\ ~IsPrefix(ptr, <<k>>) /\ ~IsPrefix(<<k>>, ptr)
<1>1. <<k>> \in Seq(Keys) /\ Len(<<k>>) = 1 /\ <<k>>[1] = k
  OBVIOUS
<1>2. Len(ptr) \in Nat \ {0} /\ Head(ptr) = ptr[1]
  BY EmptySeq, LenProperties
<1>3. ~IsPrefix(ptr, <<k>>)
  <2>1. 1 \in 1..Len(ptr) /\ ptr[1] # <<k>>[1]
    BY <1>1, <1>2
  <2>2. ~(\A i \in 1..Len(ptr) : ptr[i] = <<k>>[i])
    BY <2>1, Zenon
  <2> QED
    BY <1>1, <2>2, PrefixPoints
<1>4. ~IsPrefix(<<k>>, ptr)
  <2>1. 1 \in 1..Len(<<k>>) /\ <<k>>[1] # ptr[1]
    BY <1>1, <1>2
  <2>2. ~(\A i \in 1..Len(<<k>>) : <<k>>[i] = ptr[i])
    BY <2>1, Zenon
  <2> QED
    BY <1>1, <2>2, PrefixPoints
<1> QED
  BY <1>1, <1>3, <1>4

(* Neither the creation of what is missing on the way to ptr nor another   *)
(* value there touches a key that ptr does not go through.                 *)
LEMMA CreatedElsewhere ==
    ASSUME NEW d, NEW ptr \in Seq(Keys), ptr # <<>>, NEW k \in Keys, k # Head(ptr)
    PROVE  SameAt(d, Created(d, ptr), k)
<1>1. <<k>> \in Seq(Keys) /\ ~IsPrefix(<<k>>, ptr)
  BY OtherKey
<1>2. <<k>> \notin { SubSeq(ptr, 1, n) : n \in 0..Len(ptr) }
  BY <1>1, PrefixSet DEF Prefixes
<1> QED
  BY <1>2 DEF Created, SameAt

LEMMA GraftElsewhere ==
    ASSUME NEW d, NEW ptr \in Seq(Keys), ptr # <<>>, NEW k \in Keys, k # Head(ptr),
           NEW v, IsDocument(v)
    PROVE  SameAt(d, Graft(d, ptr, v), k)
<1>1. <<k>> \in Seq(Keys) /\ ~IsPrefix(ptr, <<k>>)
  BY OtherKey
<1>2. ASSUME NEW r \in DOMAIN v PROVE ptr \o r # <<k>>
  <2>1. r \in Seq(Keys)
    BY DocumentParts
  <2> QED
    BY <1>1, <2>1, ConcatPoints
<1> QED
  BY <1>1, <1>2 DEF Graft, SameAt

LEMMA EditElsewhere ==
    ASSUME NEW d, NEW ptr \in Seq(Keys), ptr # <<>>, NEW k \in Keys, k # Head(ptr),
           NEW v, IsDocument(v)
    PROVE  SameAt(d, Graft(Created(d, ptr), ptr, v), k)
<1> DEFINE c == Created(d, ptr)
<1>1. SameAt(d, c, k)
  BY CreatedElsewhere
<1> HIDE DEF c
<1>2. SameAt(c, Graft(c, ptr, v), k)
  BY GraftElsewhere
<1>3. SameAt(d, Graft(c, ptr, v), k)
  BY <1>1, <1>2 DEF SameAt
<1> QED
  BY <1>3 DEF c

(* The inductive invariant: the check alone, without what the getter does. *)
Inv == TypeOK /\ \A k \in vetted : check_key(data_, k)

LEMMA InitInv == Init => Inv
<1>1. SUFFICES ASSUME Init, NEW k \in CheckedKeys PROVE check_key(Defaults, k)
  BY InitType DEF Init, Inv
<1>2. k \in RequiredKeys => <<k>> \in DOMAIN Defaults
  BY ObjectAssumption
<1>3. ASSUME <<k>> \in DOMAIN Defaults PROVE get(Defaults, k) \in Good[k]
  <2>1. Defaults[<<k>>] \in Good[k] /\ Good[k] \subseteq Scalars \ {Null}
    BY <1>3, ObjectAssumption
  <2>2. Defaults[<<k>>] \notin {Object, Null}
    BY <2>1, JsonAssumption
  <2> QED
    BY <2>1, <2>2 DEF get
<1> QED
  BY <1>2, <1>3 DEF check_key

(* A call that leaves what it says is still vetted as it was.              *)
LEMMA StillVetted ==
    ASSUME Inv, NEW k \in vetted, SameAt(data_, data_', k)
    PROVE  check_key(data_', k)
BY SameCheck DEF Inv

(* An edit without a check, at any pointer, keeps the invariant.           *)
LEMMA UncheckedEditInv ==
    ASSUME Inv, NEW ptr \in Pointers, NEW v \in Values,
           set(ptr, v) \/ merge(ptr, v) \/ merge_patch(ptr, v),
           NEW k \in vetted'
    PROVE  check_key(data_', k)
<1> DEFINE c == Created(data_, ptr)
<1>1. ptr \in Seq(Keys) /\ IsDocument(v) /\ IsDocument(data_) /\ vetted \subseteq Keys
  BY ObjectAssumption DEF Inv, TypeOK
<1>2. CASE Rejected
  BY <1>2 DEF Rejected, Inv
<1>3. CASE ~Rejected
  <2>1. Resolves(data_, ptr)
    BY <1>3 DEF set, merge, merge_patch, Combine
  <2>2. IsDocument(c) /\ ptr \in DOMAIN c
    BY <1>1, <2>1, CreatedDocument
  <2>3. IsDocument(At(c, ptr)) /\ At(c, ptr)[<<>>] = c[ptr]
    BY <2>2, AtDocument
  <2>4. PICK w : /\ Edited(c, ptr) \/ (Edited(Graft(c, ptr, w), ptr) /\ IsDocument(w))
    <3>1. CASE set(ptr, v)
      BY <1>1, <2>1, <3>1 DEF set
    <3>2. CASE merge(ptr, v)
      <4>1. c[ptr] = Object /\ IsObject(v) => IsDocument(merged(At(c, ptr), v))
        BY <1>1, <2>3, MergedDocument DEF IsObject
      <4> QED
        BY <1>1, <2>1, <3>2, <4>1 DEF merge, Combine
    <3>3. CASE merge_patch(ptr, v)
      <4>1. c[ptr] = Object /\ IsObject(v) => IsDocument(patched(At(c, ptr), v))
        BY <1>1, <2>3, PatchedDocument DEF IsObject
      <4> QED
        BY <1>1, <2>1, <3>3, <4>1 DEF merge_patch, Combine
    <3> QED
      BY <3>1, <3>2, <3>3
  <2>5. ptr # <<>> /\ k \in vetted /\ k # Head(ptr) /\ k \in Keys
    BY <1>1, <2>4 DEF Edited
  <2>6. SameAt(data_, data_', k)
    BY <1>1, <2>4, <2>5, CreatedElsewhere, EditElsewhere DEF Edited
  <2> QED
    BY <2>5, <2>6, StillVetted
<1> QED
  BY <1>2, <1>3

(* A typed setter keeps it too: it touches one key.                        *)
LEMMA SetterInv ==
    ASSUME Inv, NEW k \in CheckedKeys \cup UncheckedKeys, NEW q \in Scalars \ {Null},
           \/ k \in CheckedKeys \ UncheckedKeys /\ SetChecked(k, q)
           \/ k \in UncheckedKeys /\ SetUnchecked(k, q),
           NEW j \in vetted'
    PROVE  check_key(data_', j)
<1>1. CASE Rejected
  BY <1>1 DEF Rejected, Inv
<1>2. CASE ~Rejected
  <2>1. /\ IsObject(data_) /\ data_' = Graft(data_, <<k>>, Scalar(q))
        /\ vetted' = vetted \ {k} \/ (vetted' = vetted \cup {k} /\ k \in CheckedKeys /\ q \in Good[k])
    BY <1>2 DEF SetChecked, SetUnchecked
  <2>2. k \in Keys /\ IsDocument(data_) /\ vetted \subseteq Keys
    BY ObjectAssumption DEF Inv, TypeOK
  <2>3. /\ <<k>> \in DOMAIN data_' /\ data_'[<<k>>] = q
        /\ \A i \in Keys \ {k} : <<i>> \in DOMAIN data_' <=> <<i>> \in DOMAIN data_
        /\ \A i \in Keys \ {k} : <<i>> \in DOMAIN data_ => data_'[<<i>>] = data_[<<i>>]
    BY <2>1, <2>2, SetKey
  <2>4. CASE j = k
    <3>1. q \in Good[k] /\ q \notin {Object, Null}
      BY <2>1, <2>4, JsonAssumption
    <3> QED
      BY <2>3, <2>4, <3>1 DEF check_key, get
  <2>5. CASE j # k
    <3>1. j \in vetted /\ j \in Keys
      BY <2>1, <2>2, <2>5
    <3>2. SameAt(data_, data_', j)
      BY <2>3, <2>5, <3>1 DEF SameAt
    <3> QED
      BY <3>1, <3>2, StillVetted
  <2> QED
    BY <2>4, <2>5
<1> QED
  BY <1>1, <1>2

LEMMA NextInv ==
    ASSUME Inv, [Next]_vars
    PROVE  Inv'
<1>1. TypeOK /\ TypeOK' /\ IsDocument(data_) /\ vetted \subseteq CheckedKeys /\ CheckedKeys \subseteq Keys
  BY NextType, ObjectAssumption DEF Inv, TypeOK
<1>2. SUFFICES ASSUME NEW j \in vetted' PROVE check_key(data_', j)
  BY <1>1 DEF Inv
<1>3. ASSUME UNCHANGED <<data_, vetted>> PROVE check_key(data_', j)
  BY <1>3 DEF Inv
<1>4. ASSUME NEW v \in Values, NEW lv \in Levels, NEW validator \in BOOLEAN, Construct(v, lv, validator)
      PROVE  check_key(data_', j)
  <2>1. CASE Rejected
    BY <1>3, <2>1 DEF Rejected
  <2>2. CASE ~Rejected
    <3>1. /\ data_' = patched(Defaults, v)
          /\ lv = "STRICT" /\ check_global(patched(Defaults, v)) /\ j \in CheckedKeys
      BY <1>4, <2>2 DEF Construct
    <3> QED
      BY <3>1 DEF check_global
  <2> QED
    BY <2>1, <2>2
<1>5. ASSUME NEW k \in CheckedKeys \cup UncheckedKeys, Vivify(k) PROVE check_key(data_', j)
  <2>1. CASE UNCHANGED <<data_, vetted>>
    BY <1>3, <2>1
  <2>2. CASE ~UNCHANGED <<data_, vetted>>
    <3>1. PICK v \in {Object, Null} : IsObject(data_) /\ Edited(Graft(data_, <<k>>, Scalar(v)), <<k>>)
      BY <1>5, <2>2 DEF Vivify, Rejected
    <3>2. k \in Keys /\ v \in Scalars \cup {Object} /\ <<k>> # <<>> /\ Head(<<k>>) = k
      BY ObjectAssumption, JsonAssumption
    <3>3. j \in vetted /\ j \in Keys \ {k}
      BY <1>1, <3>1, <3>2 DEF Edited
    <3>4. SameAt(data_, data_', j)
      BY <1>1, <3>1, <3>2, <3>3, SetKey DEF Edited, SameAt
    <3> QED
      BY <3>3, <3>4, StillVetted
  <2> QED
    BY <2>1, <2>2
<1>6. ASSUME NEW lv \in Levels, NEW validator \in BOOLEAN, set_validation_context(lv, validator)
      PROVE  check_key(data_', j)
  BY <1>3, <1>6 DEF set_validation_context, Rejected
<1>7. CASE UNCHANGED vars
  BY <1>3, <1>7 DEF vars
<1> QED
  BY <1>2, <1>4, <1>5, <1>6, <1>7, UncheckedEditInv, SetterInv DEF Next

(* VettedKeysPass: what a check has seen of a key, a load will accept and a *)
(* getter return, until the key is edited without a check, for any keys,    *)
(* checks and pointers.                                                     *)
THEOREM VettedKeysAlwaysPass == Spec => []VettedKeysPass
<1>1. Init => Inv
  BY InitInv
<1>2. Inv /\ [Next]_vars => Inv'
  BY NextInv
<1>3. Inv => VettedKeysPass
  BY CheckedIsReadable DEF Inv, TypeOK, VettedKeysPass
<1> QED
  BY <1>1, <1>2, <1>3, PTL DEF Spec
-----------------------------------------------------------------------------
(* What a patch says of a key goes in, a null takes it out, and a key that *)
(* it does not name stays as it was.                                       *)
LEMMA PatchedKey ==
    ASSUME NEW d, IsDocument(d), IsObject(d), NEW v, IsDocument(v), IsObject(v), NEW k \in Keys
    PROVE  LET g == patched(d, v)
           IN  /\ <<k>> \in DOMAIN v /\ v[<<k>>] # Null => <<k>> \in DOMAIN g /\ g[<<k>>] = v[<<k>>]
               /\ <<k>> \in DOMAIN v /\ v[<<k>>] = Null => <<k>> \notin DOMAIN g
               /\ <<k>> \notin DOMAIN v => /\ <<k>> \in DOMAIN g <=> <<k>> \in DOMAIN d
                                           /\ <<k>> \in DOMAIN d => g[<<k>>] = d[<<k>>]
<1> DEFINE g == patched(d, v)
           K == { p \in DOMAIN d : \A q \in DOMAIN v : IsPrefix(q, p) => v[q] = Object }
           N == { p \in DOMAIN v : v[p] # Null }
<1>1. /\ DOMAIN g = K \cup N
      /\ \A p \in DOMAIN g : g[p] = IF p \in N THEN v[p] ELSE d[p]
  BY DEF patched
<1>2. /\ <<k>> \in N <=> <<k>> \in DOMAIN v /\ v[<<k>>] # Null
      /\ <<k>> \in K <=> <<k>> \in DOMAIN d /\ \A q \in DOMAIN v : IsPrefix(q, <<k>>) => v[q] = Object
  OBVIOUS
<1>3. <<k>> \in Seq(Keys) /\ IsPrefix(<<k>>, <<k>>) /\ Object # Null
  <2>1. <<k>> \in Seq(Keys)
    OBVIOUS
  <2> QED
    BY <2>1, RootIsPrefix DEF Object, Null
<1>4. \A q \in DOMAIN v : q \in Seq(Keys)
  BY DocumentParts
<1>5. v[<<>>] = Object
  BY DEF IsObject
<1> HIDE DEF g, K, N
<1>6. CASE <<k>> \in DOMAIN v /\ v[<<k>>] # Null
  BY <1>1, <1>2, <1>6 DEF g
<1>7. CASE <<k>> \in DOMAIN v /\ v[<<k>>] = Null
  BY <1>1, <1>2, <1>3, <1>7 DEF g
<1>8. CASE <<k>> \notin DOMAIN v
  <2>1. \A q \in DOMAIN v : IsPrefix(q, <<k>>) => v[q] = Object
    BY <1>4, <1>5, <1>8, BeginsKey
  <2> QED
    BY <1>1, <1>2, <1>8, <2>1 DEF g
<1> QED
  BY <1>6, <1>7, <1>8

(* The first load puts in the defaults and the second finds them there,    *)
(* but for a key that a null removed: its getter's value_or agrees with    *)
(* the default that comes back, and a required key would have failed.      *)
LEMMA SecondLoad ==
    ASSUME NEW d, IsDocument(d), IsObject(d), check_global(Loaded(d)),
           NEW k \in CheckedKeys \cup UncheckedKeys
    PROVE  getter(Loaded(Loaded(d)), k) = getter(Loaded(d), k)
<1> DEFINE L  == Loaded(d)
           LL == Loaded(L)
           D  == Defaults
<1>1. k \in Keys /\ IsDocument(D) /\ IsObject(D) /\ RequiredKeys \subseteq CheckedKeys
  BY ObjectAssumption
<1>2. IsDocument(L) /\ IsObject(L)
  BY <1>1, PatchedDocument DEF Loaded
<1>3. /\ <<k>> \in DOMAIN d /\ d[<<k>>] # Null => <<k>> \in DOMAIN L /\ L[<<k>>] = d[<<k>>]
      /\ <<k>> \in DOMAIN d /\ d[<<k>>] = Null => <<k>> \notin DOMAIN L
      /\ <<k>> \notin DOMAIN d => /\ <<k>> \in DOMAIN L <=> <<k>> \in DOMAIN D
                                  /\ <<k>> \in DOMAIN D => L[<<k>>] = D[<<k>>]
  BY <1>1, PatchedKey DEF Loaded
<1>4. /\ <<k>> \in DOMAIN L /\ L[<<k>>] # Null => <<k>> \in DOMAIN LL /\ LL[<<k>>] = L[<<k>>]
      /\ <<k>> \notin DOMAIN L => /\ <<k>> \in DOMAIN LL <=> <<k>> \in DOMAIN D
                                  /\ <<k>> \in DOMAIN D => LL[<<k>>] = D[<<k>>]
  BY <1>1, <1>2, PatchedKey DEF Loaded
<1>5. k \in RequiredKeys => <<k>> \in DOMAIN L
  BY <1>1 DEF check_global, check_key
<1>6. <<k>> \in DOMAIN D => D[<<k>>] # Null
  <2>1. CASE k \in RequiredKeys
    <3>1. <<k>> \in DOMAIN D => D[<<k>>] \in Good[k] /\ Good[k] \subseteq Scalars \ {Null, Unusable}
      BY <1>1, <2>1, ObjectAssumption
    <3> QED
      BY <3>1
  <2>2. CASE k \notin RequiredKeys
    BY <2>2, ObjectAssumption
  <2> QED
    BY <2>1, <2>2
<1>7. k \notin RequiredKeys /\ <<k>> \in DOMAIN D => D[<<k>>] = Fallbacks[k] /\ D[<<k>>] \notin {Object, Null}
  BY ObjectAssumption
<1> HIDE DEF L, LL, D
<1>8. CASE <<k>> \in DOMAIN L
  <2>1. L[<<k>>] # Null
    BY <1>3, <1>6, <1>8
  <2> QED
    BY <1>4, <1>8, <2>1 DEF getter, get, L, LL
<1>9. CASE <<k>> \notin DOMAIN L
  <2>1. k \notin RequiredKeys
    BY <1>5, <1>9
  <2>2. getter(L, k) = Fallbacks[k]
    BY <1>9 DEF getter
  <2>3. getter(LL, k) = Fallbacks[k]
    BY <1>4, <1>7, <1>9, <2>1 DEF getter, get
  <2> QED
    BY <2>2, <2>3 DEF L, LL
<1> QED
  BY <1>8, <1>9

(* Whatever document passed the checks of a load, with nulls in it or      *)
(* without: after save and load each getter returns what it returned.      *)
THEOREM ReloadAlwaysReadsTheSame == Spec => []ReloadReadsTheSame
<1>1. TypeOK => ReloadReadsTheSame
  BY SecondLoad DEF TypeOK, ReloadReadsTheSame
<1> QED
  BY <1>1, TypeCorrect, PTL
=============================================================================
