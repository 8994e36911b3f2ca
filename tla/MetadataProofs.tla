--------------------------- MODULE MetadataProofs ---------------------------
(* What is proved of Metadata for every value of its constants. *)
EXTENDS Metadata, SequenceTheorems, WellFoundedInduction, TLAPS

(* Every set of naturals that has an element has a least one. *)
LEMMA LeastNatural ==
    ASSUME NEW T, T \subseteq Nat, T # {}
    PROVE  \E n \in T : \A m \in T : n <= m
<1>1. PICK n \in T : \A m \in T : ~(<<m, n>> \in OpToRel(<, Nat))
  BY NatLessThanWellFounded, WFMin, Zenon
<1>2. ASSUME NEW m \in T PROVE n <= m
  <2>1. ~(m < n)
    BY <1>1 DEF OpToRel
  <2> QED
    BY <2>1
<1> QED
  BY <1>2

(* A bounded set of naturals that has an element has a greatest one. *)
LEMMA GreatestNatural ==
    ASSUME NEW n \in Nat, NEW T, T \subseteq 0..n, T # {}
    PROVE  \E k \in T : \A j \in T : j <= k
<1> DEFINE U == { n - k : k \in T }
<1>1. U \subseteq Nat /\ U # {}
  OBVIOUS
<1>2. PICK u \in U : \A m \in U : u <= m
  BY <1>1, LeastNatural
<1>3. PICK k \in T : u = n - k
  OBVIOUS
<1>4. ASSUME NEW j \in T PROVE j <= k
  <2>1. u <= n - j
    BY <1>2
  <2> QED
    BY <1>3, <2>1
<1> QED
  BY <1>4
-----------------------------------------------------------------------------
(* InsertAt shifts what follows the position by one. *)
LEMMA InsertAtElements ==
    ASSUME NEW S, NEW s \in Seq(S), NEW p \in 1..(Len(s) + 1), NEW e \in S
    PROVE  /\ InsertAt(s, p, e) \in Seq(S)
           /\ Len(InsertAt(s, p, e)) = Len(s) + 1
           /\ \A i \in 1..(Len(s) + 1) :
                 InsertAt(s, p, e)[i] = IF i < p THEN s[i]
                                        ELSE IF i = p THEN e ELSE s[i - 1]
<1> DEFINE front == SubSeq(s, 1, p - 1)
           mid   == <<e>>
           back  == SubSeq(s, p, Len(s))
           head  == front \o mid
<1>1. front \in Seq(S) /\ Len(front) = p - 1 /\ \A i \in 1..(p - 1) : front[i] = s[i]
  BY SubSeqProperties
<1>2. /\ back \in Seq(S)
      /\ Len(back) = Len(s) - p + 1
      /\ \A i \in 1..(Len(s) - p + 1) : back[i] = s[p + i - 1]
  BY SubSeqProperties
<1>3. mid \in Seq(S) /\ Len(mid) = 1 /\ mid[1] = e
  OBVIOUS
<1>4. InsertAt(s, p, e) = head \o back
  BY DEF InsertAt
<1>5. Len(s) \in Nat
  OBVIOUS
<1> HIDE DEF front, mid, back
<1>6. /\ head \in Seq(S)
      /\ Len(head) = Len(front) + Len(mid)
      /\ \A i \in 1 .. Len(front) + Len(mid) :
            head[i] = IF i <= Len(front) THEN front[i] ELSE mid[i - Len(front)]
  BY <1>1, <1>3, ConcatProperties
<1> HIDE DEF head
<1>7. /\ head \o back \in Seq(S)
      /\ Len(head \o back) = Len(head) + Len(back)
      /\ \A i \in 1 .. Len(head) + Len(back) :
            (head \o back)[i] = IF i <= Len(head) THEN head[i] ELSE back[i - Len(head)]
  <2>1. head \in Seq(S)
    BY <1>6
  <2>2. back \in Seq(S)
    BY <1>2
  <2> QED
    BY <2>1, <2>2, ConcatProperties
<1>8. Len(head) = p /\ \A i \in 1..p : head[i] = IF i < p THEN s[i] ELSE e
  BY <1>1, <1>3, <1>5, <1>6
<1>9. Len(head \o back) = Len(s) + 1
  BY <1>2, <1>5, <1>7, <1>8
<1>10. ASSUME NEW i \in 1..(Len(s) + 1)
       PROVE  (head \o back)[i] = IF i < p THEN s[i] ELSE IF i = p THEN e ELSE s[i - 1]
  <2>1. (head \o back)[i] = IF i <= p THEN head[i] ELSE back[i - p]
    BY <1>2, <1>5, <1>7, <1>8
  <2>2. i > p => i - p \in 1..(Len(s) - p + 1) /\ p + (i - p) - 1 = i - 1
    BY <1>5
  <2> QED
    BY <2>1, <2>2, <1>2, <1>5, <1>8
<1> QED
  BY <1>4, <1>7, <1>9, <1>10

(* RemoveAt shifts what follows the position back by one. *)
LEMMA RemoveAtElements ==
    ASSUME NEW S, NEW s \in Seq(S), NEW p \in 1..Len(s)
    PROVE  /\ RemoveAt(s, p) \in Seq(S)
           /\ Len(RemoveAt(s, p)) = Len(s) - 1
           /\ \A i \in 1..(Len(s) - 1) :
                 RemoveAt(s, p)[i] = IF i < p THEN s[i] ELSE s[i + 1]
<1> DEFINE front == SubSeq(s, 1, p - 1)
           back  == SubSeq(s, p + 1, Len(s))
<1>1. front \in Seq(S) /\ Len(front) = p - 1 /\ \A i \in 1..(p - 1) : front[i] = s[i]
  BY SubSeqProperties
<1>2. /\ back \in Seq(S)
      /\ Len(back) = Len(s) - p
      /\ \A i \in 1..(Len(s) - p) : back[i] = s[p + i]
  BY SubSeqProperties
<1>3. RemoveAt(s, p) = front \o back
  BY DEF RemoveAt
<1>4. Len(s) \in Nat
  OBVIOUS
<1> HIDE DEF front, back
<1>5. /\ front \o back \in Seq(S)
      /\ Len(front \o back) = Len(front) + Len(back)
      /\ \A i \in 1 .. Len(front) + Len(back) :
            (front \o back)[i] = IF i <= Len(front) THEN front[i] ELSE back[i - Len(front)]
  BY <1>1, <1>2, ConcatProperties
<1>6. ASSUME NEW i \in 1..(Len(s) - 1)
      PROVE  (front \o back)[i] = IF i < p THEN s[i] ELSE s[i + 1]
  <2>1. (front \o back)[i] = IF i < p THEN front[i] ELSE back[i - (p - 1)]
    BY <1>1, <1>2, <1>4, <1>5
  <2>2. i >= p => i - (p - 1) \in 1..(Len(s) - p) /\ p + (i - (p - 1)) = i + 1
    BY <1>4
  <2> QED
    BY <2>1, <2>2, <1>1, <1>2, <1>4
<1> QED
  BY <1>1, <1>2, <1>3, <1>4, <1>5, <1>6
-----------------------------------------------------------------------------
(* Erasing an entry keeps a list ordered. *)
LEMMA RemoveAtOrdered ==
    ASSUME NEW s \in Seq(Item), Ordered(s), NEW p \in 1..Len(s)
    PROVE  RemoveAt(s, p) \in Seq(Item) /\ Ordered(RemoveAt(s, p))
<1> DEFINE r == RemoveAt(s, p)
<1>1. /\ r \in Seq(Item)
      /\ Len(r) = Len(s) - 1
      /\ \A i \in 1..(Len(s) - 1) : r[i] = IF i < p THEN s[i] ELSE s[i + 1]
  BY RemoveAtElements
<1>2. Len(s) \in Nat
  OBVIOUS
<1> HIDE DEF r
<1>3. Comparable(r)
  BY <1>1, <1>2 DEF Ordered, Comparable
<1>4. \A i, j \in 1..Len(r) : i < j => r[i].start <= r[j].start
  <2> SUFFICES ASSUME NEW i \in 1..Len(r), NEW j \in 1..Len(r), i < j
               PROVE  r[i].start <= r[j].start
    OBVIOUS
  <2> DEFINE ii == IF i < p THEN i ELSE i + 1
             jj == IF j < p THEN j ELSE j + 1
  <2>1. /\ r[i] = s[ii] /\ r[j] = s[jj]
        /\ ii \in 1..Len(s) /\ jj \in 1..Len(s) /\ ii < jj
    BY <1>1, <1>2
  <2> HIDE DEF ii, jj
  <2> QED
    BY <2>1 DEF Ordered
<1> QED
  BY <1>1, <1>3, <1>4 DEF Ordered, r

(* Inserting at the lower bound keeps a list ordered, whenever the binary  *)
(* search did not throw.                                                   *)
LEMMA InsertSortedOrdered ==
    ASSUME NEW s \in Seq(Item), Ordered(s), NEW item \in Item,
           ~insert_throws(s, item), NEW t \in insert_sorted(s, item)
    PROVE  t \in Seq(Item) /\ Ordered(t)
<1>1. PICK p \in lower_bound(s, item) : t = InsertAt(s, p, item)
  BY DEF insert_sorted
<1>2. Len(s) \in Nat /\ p \in 1..(Len(s) + 1)
  BY DEF lower_bound
<1>3. /\ \A i \in 1..(p - 1) : s[i].start < item.start
      /\ \A i \in p..Len(s) : item.start <= s[i].start
  BY DEF lower_bound
<1>4. /\ t \in Seq(Item)
      /\ Len(t) = Len(s) + 1
      /\ \A i \in 1..(Len(s) + 1) : t[i] = IF i < p THEN s[i] ELSE IF i = p THEN item ELSE s[i - 1]
  <2>1. /\ InsertAt(s, p, item) \in Seq(Item)
        /\ Len(InsertAt(s, p, item)) = Len(s) + 1
        /\ \A i \in 1..(Len(s) + 1) :
              InsertAt(s, p, item)[i] = IF i < p THEN s[i] ELSE IF i = p THEN item ELSE s[i - 1]
    BY <1>2, InsertAtElements
  <2> QED
    BY <1>1, <2>1
<1>5. Len(s) > 0 => item.start \in Int /\ \A i \in 1..Len(s) : s[i].start \in Int
  <2> SUFFICES ASSUME Len(s) > 0
               PROVE  item.start \in Int /\ \A i \in 1..Len(s) : s[i].start \in Int
    OBVIOUS
  <2> DEFINE a == Append(s, item)
  <2>1. /\ a \in Seq(Item) /\ Len(a) = Len(s) + 1
        /\ a[Len(s) + 1] = item /\ \A i \in 1..Len(s) : a[i] = s[i]
    OBVIOUS
  <2>2. \A i \in 1..Len(a) : a[i].start # NoStart
    BY <1>2, <2>1 DEF insert_throws, Comparable
  <2> HIDE DEF a
  <2>3. item.start # NoStart /\ \A i \in 1..Len(s) : s[i].start # NoStart
    BY <1>2, <2>1, <2>2
  <2>4. \A i \in 1..Len(s) : s[i] \in Item
    BY ElementOfSeq
  <2> QED
    BY <2>3, <2>4 DEF Item
<1>6. Comparable(t)
  <2>1. \A n \in Int : n # NoStart
    BY MetadataAssumption
  <2> SUFFICES ASSUME Len(t) > 1, NEW i \in 1..Len(t)
               PROVE  t[i].start # NoStart
    BY DEF Comparable
  <2>2. t[i] = item \/ \E j \in 1..Len(s) : t[i] = s[j]
    <3>1. t[i] = IF i < p THEN s[i] ELSE IF i = p THEN item ELSE s[i - 1]
      BY <1>4
    <3>2. CASE i < p
      BY <1>2, <3>1, <3>2
    <3>3. CASE i = p
      BY <1>2, <3>1, <3>3
    <3>4. CASE i > p
      <4>1. t[i] = s[i - 1] /\ i - 1 \in 1..Len(s)
        BY <1>2, <1>4, <3>1, <3>4
      <4> QED
        BY <4>1
    <3> QED
      BY <1>2, <3>2, <3>3, <3>4
  <2>3. Len(s) > 0
    BY <1>2, <1>4
  <2> QED
    BY <1>5, <2>1, <2>2, <2>3
<1>7. \A i, j \in 1..Len(t) : i < j => t[i].start <= t[j].start
  <2> SUFFICES ASSUME NEW i \in 1..Len(t), NEW j \in 1..Len(t), i < j
               PROVE  t[i].start <= t[j].start
    OBVIOUS
  <2>1. CASE i < p /\ j < p
    BY <1>2, <1>4, <2>1 DEF Ordered
  <2>2. CASE i < p /\ j = p
    BY <1>2, <1>3, <1>4, <1>5, <2>2
  <2>3. CASE i < p /\ j > p
    <3>1. t[i] = s[i] /\ t[j] = s[j - 1] /\ i \in 1..Len(s) /\ j - 1 \in 1..Len(s)
      BY <1>2, <1>4, <2>3
    <3>2. s[i].start < item.start /\ item.start <= s[j - 1].start
      BY <1>2, <1>3, <1>4, <2>3
    <3> QED
      BY <1>5, <3>1, <3>2
  <2>4. CASE i = p
    <3>1. t[i] = item /\ t[j] = s[j - 1] /\ j - 1 \in p..Len(s)
      BY <1>2, <1>4, <2>4
    <3> QED
      BY <1>3, <3>1
  <2>5. CASE i > p
    <3>1. t[i] = s[i - 1] /\ t[j] = s[j - 1] /\ i - 1 \in 1..Len(s) /\ j - 1 \in 1..Len(s)
      BY <1>2, <1>4, <2>5
    <3> QED
      BY <3>1 DEF Ordered
  <2> QED
    BY <1>2, <2>1, <2>2, <2>3, <2>4, <2>5
<1> QED
  BY <1>4, <1>6, <1>7 DEF Ordered

(* A stable sort of comparable entries is ordered. *)
LEMMA SortOrdered ==
    ASSUME NEW s \in Seq(Item), Comparable(s), NEW t \in sort_by_sample_start(s)
    PROVE  t \in Seq(Item) /\ Ordered(t)
<1> DEFINE n == Len(s)
<1>1. PICK q \in Bijection(1..n, 1..n) :
        /\ t = [i \in 1..n |-> s[q[i]]]
        /\ \A i, j \in 1..n : i < j => Before(s, q[i], q[j])
  BY DEF sort_by_sample_start
<1>2. n \in Nat /\ \A i \in 1..n : q[i] \in 1..n /\ s[i] \in Item
  BY ElementOfSeq DEF Bijection, Injection, Surjection
<1>3. /\ t \in Seq(Item)
      /\ Len(t) = n
      /\ \A i \in 1..n : t[i] = s[q[i]]
  BY <1>1, <1>2
<1>4. Comparable(t)
  BY <1>2, <1>3 DEF Comparable
<1>5. \A i, j \in 1..Len(t) : i < j => t[i].start <= t[j].start
  <2> SUFFICES ASSUME NEW i \in 1..n, NEW j \in 1..n, i < j
               PROVE  s[q[i]].start <= s[q[j]].start
    BY <1>3
  <2>1. n > 1
    BY <1>2
  <2>2. s[q[i]].start \in Int /\ s[q[j]].start \in Int
    BY <1>2, <2>1 DEF Comparable, Item
  <2> QED
    BY <1>1, <2>2 DEF Before
<1> QED
  BY <1>3, <1>4, <1>5 DEF Ordered

(* Building an entry or a Global from its JSON fills in the defaults and   *)
(* yields an entry or a Global.                                            *)
LEMMA DefaultsType ==
    /\ \A g \in GlobalType : GlobalWithDefaults(g) \in GlobalType
    /\ \A ls \in Lists : ListsWithDefaults(ls) \in Lists
<1>1. ASSUME NEW g \in GlobalType PROVE GlobalWithDefaults(g) \in GlobalType
  BY DEF GlobalType, GlobalWithDefaults, DefaultKey, Qualities
<1>2. ASSUME NEW item \in Item PROVE WithDefaults(item) \in Item
  BY DEF Item, WithDefaults
<1>3. ASSUME NEW ls \in Lists PROVE ListsWithDefaults(ls) \in Lists
  <2>1. ASSUME NEW k \in Kinds
        PROVE  [i \in 1..Len(ls[k]) |-> WithDefaults(ls[k][i])] \in Seq(Item)
    <3>1. ls[k] \in Seq(Item)
      BY DEF Lists
    <3>2. Len(ls[k]) \in Nat /\ \A i \in 1..Len(ls[k]) : ls[k][i] \in Item
      BY <3>1, ElementOfSeq
    <3> QED
      BY <1>2, <3>2
  <2> QED
    BY <2>1 DEF ListsWithDefaults, Lists
<1> QED
  BY <1>1, <1>3
-----------------------------------------------------------------------------
(* The inductive invariant.  Ordered is stronger than sorted: it says also *)
(* where an entry without a start may be, without which neither the binary *)
(* search nor the erasure of an entry would be known to keep the order.    *)
IInv == TypeOK /\ ListsOrdered

LEMMA InitIInv == Init => IInv
<1> SUFFICES ASSUME Init PROVE IInv
  OBVIOUS
<1>1. global \in GlobalType /\ glevel \in Levels /\ level \in Levels
  BY DEF Init, DefaultGlobal, GlobalType, Qualities, Levels
<1>2. lists \in Lists
  BY DEF Init, Lists
<1>3. files \in [Paths -> Content \cup {NoFile, Torn}]
  BY MetadataAssumption DEF Init
<1>4. path \in Paths \cup {NoPath} /\ last.ok \in BOOLEAN
  BY DEF Init
<1>5. ListsOrdered
  BY DEF Init, ListsOrdered, Ordered, Comparable
<1>6. \A p \in Paths \ MetaPaths : files[p] \in {NoFile} \cup ForeignFiles
  BY DEF Init
<1> QED
  BY <1>1, <1>2, <1>3, <1>4, <1>5, <1>6 DEF IInv, TypeOK

(* The outcome of a call is that it returned or that it threw. *)
LEMMA OutcomeType ==
    ASSUME NEW op, Returns(op) \/ Throws(op)
    PROVE  last'.ok \in BOOLEAN
<1>1. CASE Returns(op)
  <2>1. last'.ok = TRUE
    BY <1>1 DEF Returns
  <2> QED
    BY <2>1, Zenon
<1>2. CASE Throws(op)
  <2>1. last'.ok = FALSE
    BY <1>2 DEF Throws
  <2> QED
    BY <2>1, Zenon
<1> QED
  BY <1>1, <1>2

(* A call that is rejected keeps the invariant. *)
LEMMA RejectedIInv ==
    ASSUME IInv, NEW op, Rejected(op)
    PROVE  IInv'
BY OutcomeType DEF IInv, TypeOK, ListsOrdered, Rejected, object

(* A call that changes one list only, to an ordered one, keeps it too. *)
LEMMA EditIInv ==
    ASSUME IInv, NEW k \in Kinds, NEW t \in Seq(Item), Ordered(t),
           lists' = [lists EXCEPT ![k] = t],
           NEW op, Returns(op) \/ Throws(op),
           UNCHANGED <<global, glevel, level, path, files>>
    PROVE  IInv'
<1>1. lists' \in Lists
  BY DEF IInv, TypeOK, Lists
<1>2. ListsOrdered'
  <2> SUFFICES ASSUME NEW l \in Kinds PROVE Ordered(lists'[l])
    BY DEF ListsOrdered
  <2>1. lists'[l] = IF l = k THEN t ELSE lists[l]
    BY DEF IInv, TypeOK, Lists
  <2> QED
    BY <2>1 DEF IInv, ListsOrdered
<1> QED
  BY <1>1, <1>2, OutcomeType DEF IInv, TypeOK

LEMMA ConstructIInv ==
    ASSUME IInv, NEW op, NEW g \in GlobalType, NEW ls \in Lists,
           NEW ctx \in ContextType, NEW p \in Paths \cup {NoPath},
           Construct(op, g, ls, ctx, p)
    PROVE  IInv'
<1>1. CASE Rejected(op)
  BY <1>1, RejectedIInv
<1>2. CASE ~Rejected(op)
  <2>1. /\ \A k \in Kinds : Comparable(ls[k])
        /\ global' = g /\ glevel' = ctx.level /\ level' = ctx.level /\ path' = p
        /\ Returns(op) /\ UNCHANGED files
    BY <1>2 DEF Construct
  <2>2. PICK sorted \in [Kinds -> UNION {sort_by_sample_start(ls[k]) : k \in Kinds}] :
           /\ \A k \in Kinds : sorted[k] \in sort_by_sample_start(ls[k])
           /\ lists' = sorted
    BY <1>2 DEF Construct
  <2>3. ASSUME NEW k \in Kinds
        PROVE  sorted[k] \in Seq(Item) /\ Ordered(sorted[k])
    <3>1. ls[k] \in Seq(Item) /\ Comparable(ls[k]) /\ sorted[k] \in sort_by_sample_start(ls[k])
      BY <2>1, <2>2 DEF Lists
    <3> QED
      BY <3>1, SortOrdered
  <2>4. lists' \in Lists /\ ListsOrdered'
    BY <2>2, <2>3 DEF Lists, ListsOrdered
  <2>5. ctx.level \in Levels
    BY DEF ContextType
  <2> QED
    BY <2>1, <2>4, <2>5, OutcomeType DEF IInv, TypeOK
<1> QED
  BY <1>1, <1>2

(* Every argument Next enumerates is of its type. *)
LEMMA ArgumentTypes ==
    /\ Contexts \subseteq ContextType
    /\ Items \subseteq Item
    /\ Globals \subseteq GlobalType
    /\ ArgLists \subseteq Lists
BY MetadataAssumption DEF Contexts

LEMMA LoadIInv ==
    ASSUME IInv, NEW p \in Paths, NEW ctx \in ContextType, Load(p, ctx)
    PROVE  IInv'
<1>1. CASE files[p] \in {NoFile, Torn} \/ ~Loadable(files[p])
  BY <1>1, RejectedIInv DEF Load
<1>2. CASE ~(files[p] \in {NoFile, Torn} \/ ~Loadable(files[p]))
  <2>1. files[p] \in Content
    BY <1>2 DEF IInv, TypeOK
  <2>2. files[p].global \in GlobalType /\ files[p].lists \in Lists
    BY <2>1 DEF Content
  <2> DEFINE g  == GlobalWithDefaults(files[p].global)
             ls == ListsWithDefaults(files[p].lists)
  <2>3. g \in GlobalType /\ ls \in Lists
    BY <2>2, DefaultsType
  <2>4. Construct("load", g, ls, ctx, p)
    BY <1>2 DEF Load
  <2> HIDE DEF g, ls
  <2> QED
    BY <2>3, <2>4, ConstructIInv
<1> QED
  BY <1>1, <1>2

LEMMA AddIInv ==
    ASSUME IInv, NEW k \in Kinds, NEW item \in Item, AddItem(k, item)
    PROVE  IInv'
<1>1. CASE Rejected("add")
  BY <1>1, RejectedIInv
<1>2. CASE ~Rejected("add")
  <2>1. /\ ~insert_throws(lists[k], item)
        /\ Returns("add")
        /\ UNCHANGED <<global, glevel, level, path, files>>
    BY <1>2 DEF AddItem
  <2>2. PICK t \in insert_sorted(lists[k], item) : lists' = [lists EXCEPT ![k] = t]
    BY <1>2 DEF AddItem
  <2>3. lists[k] \in Seq(Item) /\ Ordered(lists[k])
    BY DEF IInv, TypeOK, Lists, ListsOrdered
  <2>4. t \in Seq(Item) /\ Ordered(t)
    BY <2>1, <2>2, <2>3, InsertSortedOrdered
  <2> QED
    BY <2>1, <2>2, <2>4, EditIInv
<1> QED
  BY <1>1, <1>2

LEMMA RemoveIInv ==
    ASSUME IInv, NEW k \in Kinds, NEW i \in Nat \ {0}, RemoveItem(k, i)
    PROVE  IInv'
<1>1. lists[k] \in Seq(Item) /\ Ordered(lists[k])
  BY DEF IInv, TypeOK, Lists, ListsOrdered
<1>2. CASE i > Len(lists[k])
  BY <1>2, RejectedIInv DEF RemoveItem
<1>3. CASE ~(i > Len(lists[k]))
  <2> DEFINE t == RemoveAt(lists[k], i)
  <2>1. lists' = [lists EXCEPT ![k] = t] /\ Returns("remove")
    BY <1>3 DEF RemoveItem
  <2>2. UNCHANGED <<global, glevel, level, path, files>>
    BY <1>3 DEF RemoveItem
  <2>3. t \in Seq(Item) /\ Ordered(t)
    BY <1>1, <1>3, RemoveAtOrdered
  <2> HIDE DEF t
  <2> QED
    BY <2>1, <2>2, <2>3, EditIInv
<1> QED
  BY <1>2, <1>3

LEMMA UpdateIInv ==
    ASSUME IInv, NEW k \in Kinds, NEW i \in Nat \ {0}, NEW item \in Item,
           UpdateItem(k, i, item)
    PROVE  IInv'
<1> DEFINE rest == RemoveAt(lists[k], i)
<1>1. lists[k] \in Seq(Item) /\ Ordered(lists[k])
  BY DEF IInv, TypeOK, Lists, ListsOrdered
<1>2. CASE Rejected("update")
  BY <1>2, RejectedIInv
<1>3. CASE ~Rejected("update")
  <2>1. ~(i > Len(lists[k]))
    BY <1>3 DEF UpdateItem
  <2>2. rest \in Seq(Item) /\ Ordered(rest)
    BY <1>1, <2>1, RemoveAtOrdered
  <2>3. UNCHANGED <<global, glevel, level, path, files>>
    BY <1>3 DEF UpdateItem
  <2>4. CASE insert_throws(rest, item)
    <3>1. lists' = [lists EXCEPT ![k] = rest] /\ Throws("update")
      BY <1>3, <2>4 DEF UpdateItem
    <3> HIDE DEF rest
    <3> QED
      BY <2>2, <2>3, <3>1, EditIInv
  <2>5. CASE ~insert_throws(rest, item)
    <3>1. Returns("update")
      BY <1>3, <2>5 DEF UpdateItem
    <3>2. PICK t \in insert_sorted(rest, item) : lists' = [lists EXCEPT ![k] = t]
      BY <1>3, <2>5 DEF UpdateItem
    <3> HIDE DEF rest
    <3>3. t \in Seq(Item) /\ Ordered(t)
      BY <2>2, <2>5, <3>2, InsertSortedOrdered
    <3> QED
      BY <2>3, <3>1, <3>2, <3>3, EditIInv
  <2> QED
    BY <2>4, <2>5
<1> QED
  BY <1>2, <1>3

(* The calls that touch neither list. *)
LEMMA SaveIInv ==
    ASSUME IInv, NEW p \in Paths, NEW overwrite \in BOOLEAN, Save(p, overwrite)
    PROVE  IInv'
<1>1. CASE Rejected("save")
  BY <1>1, RejectedIInv
<1>2. CASE ~Rejected("save")
  <2> DEFINE doc == [global |-> global, lists |-> lists, savedAt |-> level]
  <2>1. doc \in Content
    BY DEF IInv, TypeOK, Content
  <2>2. PICK f \in {Torn, doc} : files' = [files EXCEPT ![p] = f]
    BY <1>2 DEF Save
  <2>3. UNCHANGED object /\ Returns("save")
    BY <1>2 DEF Save
  <2> HIDE DEF doc
  <2>4. files' \in [Paths -> Content \cup {NoFile, Torn}]
    BY <2>1, <2>2 DEF IInv, TypeOK
  <2>5. \A q \in Paths \ MetaPaths : files'[q] \in {NoFile} \cup ForeignFiles
    <3>1. p \in MetaPaths
      BY <1>2 DEF Save, SaveRefused
    <3>2. \A q \in Paths \ MetaPaths : files'[q] = files[q]
      BY <2>2, <3>1 DEF IInv, TypeOK
    <3> QED
      BY <3>2 DEF IInv, TypeOK
  <2> QED
    BY <2>3, <2>4, <2>5, OutcomeType DEF IInv, TypeOK, ListsOrdered, object
<1> QED
  BY <1>1, <1>2

LEMMA EditGlobalIInv ==
    ASSUME IInv, EditGlobal
    PROVE  IInv'
<1>1. ASSUME NEW key \in {"checked", "defaulted"}, NEW g \in Globals,
             SetChecked(key, g[key]), g[key] # "absent"
      PROVE  IInv'
  <2>1. CASE Rejected("setter")
    BY <2>1, RejectedIInv
  <2>2. CASE ~Rejected("setter")
    <3>1. /\ global' = [global EXCEPT ![key] = g[key]]
          /\ Returns("setter")
          /\ UNCHANGED <<glevel, lists, level, path, files>>
      BY <1>1, <2>2 DEF SetChecked
    <3>2. global \in GlobalType /\ g \in GlobalType
      BY ArgumentTypes DEF IInv, TypeOK
    <3>3. CASE key = "checked"
      BY <3>1, <3>2, <3>3, OutcomeType DEF GlobalType, IInv, TypeOK, ListsOrdered
    <3>4. CASE key = "defaulted"
      BY <3>1, <3>2, <3>4, OutcomeType DEF GlobalType, IInv, TypeOK, ListsOrdered
    <3> QED
      BY <3>3, <3>4
  <2> QED
    BY <2>1, <2>2
<1>2. ASSUME NEW g \in Globals, SetUnchecked(g) PROVE IInv'
  BY <1>2, ArgumentTypes, OutcomeType DEF SetUnchecked, IInv, TypeOK, ListsOrdered
<1>3. ASSUME NEW g \in Globals, NEW ctx \in Contexts, ReplaceGlobal(g, ctx) PROVE IInv'
  <2>1. CASE Rejected("global")
    BY <2>1, RejectedIInv
  <2>2. CASE ~Rejected("global")
    <3>1. /\ global' = g /\ glevel' = ctx.level /\ Returns("global")
          /\ UNCHANGED <<lists, level, path, files>>
      BY <1>3, <2>2 DEF ReplaceGlobal
    <3>2. g \in GlobalType /\ ctx.level \in Levels
      BY ArgumentTypes DEF ContextType
    <3> QED
      BY <3>1, <3>2, OutcomeType DEF IInv, TypeOK, ListsOrdered
  <2> QED
    BY <2>1, <2>2
<1> QED
  BY <1>1, <1>2, <1>3 DEF EditGlobal

LEMMA ContextIInv ==
    ASSUME IInv, NEW ctx \in ContextType, SetValidationContext(ctx)
    PROVE  IInv'
<1>1. CASE BadContext(ctx)
  BY <1>1, RejectedIInv DEF SetValidationContext
<1>2. CASE ~BadContext(ctx)
  BY <1>2, OutcomeType DEF SetValidationContext, IInv, TypeOK, ListsOrdered, ContextType
<1> QED
  BY <1>1, <1>2

LEMMA NextIInv == IInv /\ [Next]_vars => IInv'
<1> SUFFICES ASSUME IInv, [Next]_vars PROVE IInv'
  OBVIOUS
<1>1. ASSUME NEW k \in Kinds, NEW item \in Items, AddItem(k, item) PROVE IInv'
  BY <1>1, ArgumentTypes, AddIInv
<1>2. ASSUME NEW k \in Kinds, NEW i \in 1..(MaxLen + 1), RemoveItem(k, i) PROVE IInv'
  BY <1>2, MetadataAssumption, RemoveIInv
<1>3. ASSUME NEW k \in Kinds, NEW i \in 1..(MaxLen + 1), NEW item \in Items, UpdateItem(k, i, item)
      PROVE IInv'
  BY <1>3, MetadataAssumption, ArgumentTypes, UpdateIInv
<1>4. CASE EditGlobal
  BY <1>4, EditGlobalIInv
<1>5. ASSUME NEW ctx \in Contexts, SetValidationContext(ctx) PROVE IInv'
  BY <1>5, ArgumentTypes, ContextIInv
<1>6. ASSUME NEW g \in Globals, NEW ls \in ArgLists, NEW ctx \in Contexts, ConstructFrom(g, ls, ctx)
      PROVE IInv'
  <2>1. g \in GlobalType /\ ls \in Lists /\ ctx \in ContextType /\ NoPath \in Paths \cup {NoPath}
    BY ArgumentTypes
  <2> QED
    BY <1>6, <2>1, ConstructIInv DEF ConstructFrom
<1>7. ASSUME NEW p \in Paths, NEW ctx \in Contexts, Load(p, ctx) PROVE IInv'
  BY <1>7, ArgumentTypes, LoadIInv
<1>8. ASSUME NEW p \in Paths, NEW overwrite \in BOOLEAN, Save(p, overwrite) PROVE IInv'
  BY <1>8, SaveIInv
<1>9. CASE UNCHANGED vars
  BY <1>9 DEF vars, IInv, TypeOK, ListsOrdered
<1> QED
  BY <1>1, <1>2, <1>3, <1>4, <1>5, <1>6, <1>7, <1>8, <1>9 DEF Next, EditLists

(* The inductive invariant holds in every reachable state. *)
THEOREM Invariance == Spec => []IInv
BY InitIInv, NextIInv, PTL DEF Spec

(* TypeOK: the variables of Metadata keep their shape. *)
THEOREM TypeCorrect == Spec => []TypeOK
<1>1. IInv => TypeOK
  BY DEF IInv
<1> QED
  BY <1>1, Invariance, PTL

(* ListsOrdered: captures() and annotations() are sorted whatever calls    *)
(* were made, at every level, whether they returned or threw.              *)
THEOREM ListsAlwaysOrdered == Spec => []ListsOrdered
<1>1. IInv => ListsOrdered
  BY DEF IInv
<1> QED
  BY <1>1, Invariance, PTL
-----------------------------------------------------------------------------
(* Only save() writes files. *)
LEMMA OnlySaveWrites ==
    ASSUME [Next]_vars,
           ~ \E p \in Paths, overwrite \in BOOLEAN : Save(p, overwrite)
    PROVE  UNCHANGED files
<1>1. CASE EditLists
  BY <1>1 DEF EditLists, AddItem, RemoveItem, UpdateItem, Rejected
<1>2. CASE EditGlobal
  BY <1>2 DEF EditGlobal, SetChecked, SetUnchecked, ReplaceGlobal, Rejected
<1>3. CASE \E ctx \in Contexts : SetValidationContext(ctx)
  BY <1>3 DEF SetValidationContext, Rejected
<1>4. ASSUME NEW op, NEW g, NEW ls, NEW ctx, NEW p, Construct(op, g, ls, ctx, p)
      PROVE  UNCHANGED files
  BY <1>4 DEF Construct, Rejected
<1>5. CASE \E g \in Globals, ls \in ArgLists, ctx \in Contexts : ConstructFrom(g, ls, ctx)
  BY <1>4, <1>5 DEF ConstructFrom
<1>6. CASE \E p \in Paths, ctx \in Contexts : Load(p, ctx)
  BY <1>4, <1>6 DEF Load, Rejected
<1>7. CASE UNCHANGED vars
  BY <1>7 DEF vars
<1> QED
  BY <1>1, <1>2, <1>3, <1>5, <1>6, <1>7 DEF Next

(* SavedFilesConform: what save() wrote is sorted and, unless the level    *)
(* was NONE, meets the schema.                                             *)
THEOREM SavedFilesAlwaysConform == Spec => []SavedFilesConform
<1>1. Init => SavedFilesConform
  BY MetadataAssumption DEF Init, SavedFilesConform, Saved
<1>2. IInv /\ SavedFilesConform /\ [Next]_vars => SavedFilesConform'
  <2> SUFFICES ASSUME IInv, SavedFilesConform, [Next]_vars PROVE SavedFilesConform'
    OBVIOUS
  <2>1. CASE UNCHANGED files
    BY <2>1 DEF SavedFilesConform, Saved
  <2>2. ASSUME NEW p \in Paths, NEW overwrite \in BOOLEAN, Save(p, overwrite)
        PROVE  SavedFilesConform'
    <3>1. CASE Rejected("save")
      BY <2>1, <3>1 DEF Rejected
    <3>2. CASE ~Rejected("save")
      <4> DEFINE doc == [global |-> global, lists |-> lists, savedAt |-> level]
      <4>1. PICK f \in {Torn, doc} : files' = [files EXCEPT ![p] = f]
        BY <2>2, <3>2 DEF Save
      <4>2. level \in {"STRICT", "LAZY"} => check_metadata(global, lists)
        BY <2>2, <3>2 DEF Save, SaveRefused
      <4>3. /\ \A k \in Kinds : Ordered(doc.lists[k])
            /\ doc.savedAt # "NONE" => check_metadata(doc.global, doc.lists)
        BY <4>2 DEF IInv, TypeOK, ListsOrdered, Levels
      <4> HIDE DEF doc
      <4> SUFFICES ASSUME NEW q \in Paths, Saved(q)'
                   PROVE  /\ \A k \in Kinds : Ordered(files'[q].lists[k])
                          /\ files'[q].savedAt # "NONE" =>
                                check_metadata(files'[q].global, files'[q].lists)
        BY DEF SavedFilesConform
      <4>4. files'[q] = IF q = p THEN f ELSE files[q]
        BY <4>1 DEF IInv, TypeOK
      <4>5. CASE q = p
        BY <4>1, <4>3, <4>4, <4>5 DEF Saved
      <4>6. CASE q # p
        BY <4>4, <4>6 DEF SavedFilesConform, Saved
      <4> QED
        BY <4>5, <4>6
    <3> QED
      BY <3>1, <3>2
  <2> QED
    BY <2>1, <2>2, OnlySaveWrites
<1> QED
  BY <1>1, <1>2, Invariance, PTL DEF Spec

(* An entry that check_capture or check_annotation admits can be inserted  *)
(* in what is left of an ordered list after an erasure.                    *)
LEMMA CheckedEntryInserts ==
    ASSUME NEW s \in Seq(Item), Ordered(s), NEW i \in 1..Len(s),
           NEW item \in Item, check_item(item)
    PROVE  ~insert_throws(RemoveAt(s, i), item)
<1> DEFINE rest == RemoveAt(s, i)
           a    == Append(rest, item)
<1>1. /\ rest \in Seq(Item)
      /\ Len(rest) = Len(s) - 1
      /\ \A j \in 1..(Len(s) - 1) : rest[j] = IF j < i THEN s[j] ELSE s[j + 1]
  BY RemoveAtElements
<1> HIDE DEF rest
<1>2. /\ Len(a) = Len(s) /\ a[Len(s)] = item
      /\ \A j \in 1..(Len(s) - 1) : a[j] = rest[j]
  BY <1>1
<1> HIDE DEF a
<1>3. item.start # NoStart
  BY DEF check_item, GoodStart
<1>4. ASSUME Len(s) > 1, NEW j \in 1..Len(s) PROVE a[j].start # NoStart
  <2>1. CASE j = Len(s)
    BY <1>2, <1>3, <2>1
  <2>2. CASE j # Len(s)
    <3>1. a[j] = IF j < i THEN s[j] ELSE s[j + 1]
      BY <1>1, <1>2, <2>2
    <3>2. j \in 1..Len(s) /\ j + 1 \in 1..Len(s)
      BY <2>2
    <3> QED
      BY <1>4, <3>1, <3>2 DEF Ordered, Comparable
  <2> QED
    BY <2>1, <2>2
<1>5. Comparable(a)
  BY <1>2, <1>4 DEF Comparable
<1> QED
  BY <1>5 DEF insert_throws, rest, a

(* StrictCallsAreAtomic: under STRICT a call that throws changes nothing.  *)
THEOREM StrictCallsRollBack == Spec => StrictCallsAreAtomic
<1>1. IInv /\ [Next]_vars => [level = "STRICT" /\ ~last'.ok => UNCHANGED <<object, files>>]_vars
  <2> SUFFICES ASSUME IInv, Next, level = "STRICT", ~last'.ok
               PROVE  UNCHANGED <<object, files>>
    BY DEF vars
  <2>1. ASSUME NEW op, Returns(op) PROVE FALSE
    <3>1. last'.ok = TRUE
      BY <2>1 DEF Returns
    <3> QED
      BY <3>1
  <2>2. ASSUME NEW op, Rejected(op) PROVE UNCHANGED <<object, files>>
    BY <2>2 DEF Rejected
  <2>3. ASSUME NEW k \in Kinds, NEW i \in 1..(MaxLen + 1), NEW item \in Items, UpdateItem(k, i, item)
        PROVE  UNCHANGED <<object, files>>
    <3>1. CASE i > Len(lists[k]) \/ ~check_item(item)
      BY <2>2, <2>3, <3>1 DEF UpdateItem
    <3>2. CASE ~(i > Len(lists[k])) /\ check_item(item)
      <4>1. lists[k] \in Seq(Item) /\ Ordered(lists[k])
        BY DEF IInv, TypeOK, Lists, ListsOrdered
      <4>2. i \in 1..Len(lists[k]) /\ item \in Item
        BY <3>2, <4>1, ArgumentTypes, MetadataAssumption
      <4>3. ~insert_throws(RemoveAt(lists[k], i), item)
        BY <3>2, <4>1, <4>2, CheckedEntryInserts
      <4> QED
        BY <2>1, <2>3, <3>2, <4>3 DEF UpdateItem
    <3> QED
      BY <3>1, <3>2
  <2>4. CASE EditLists
    BY <2>1, <2>2, <2>3, <2>4 DEF EditLists, AddItem, RemoveItem
  <2>5. CASE EditGlobal
    BY <2>1, <2>2, <2>5 DEF EditGlobal, SetChecked, SetUnchecked, ReplaceGlobal
  <2>6. ASSUME NEW op, NEW g, NEW ls, NEW ctx, NEW p, Construct(op, g, ls, ctx, p)
        PROVE  UNCHANGED <<object, files>>
    BY <2>1, <2>2, <2>6 DEF Construct
  <2> QED
    BY <2>1, <2>2, <2>4, <2>5, <2>6
       DEF Next, SetValidationContext, ConstructFrom, Load, Save
<1> QED
  BY <1>1, Invariance, PTL DEF Spec, StrictCallsAreAtomic
-----------------------------------------------------------------------------
(* A stable sort of an ordered list moves nothing: its permutation goes up *)
(* strictly, so neither a first index is below its place nor a last one    *)
(* above it.                                                               *)
LEMMA SortIdentity ==
    ASSUME NEW s \in Seq(Item), Ordered(s), NEW t \in sort_by_sample_start(s)
    PROVE  t = s
<1> DEFINE n == Len(s)
<1>1. PICK q \in Bijection(1..n, 1..n) :
        /\ t = [i \in 1..n |-> s[q[i]]]
        /\ \A i, j \in 1..n : i < j => Before(s, q[i], q[j])
  BY DEF sort_by_sample_start
<1>2. n \in Nat /\ \A i \in 1..n : q[i] \in 1..n /\ s[i] \in Item
  <2>1. q \in [1..n -> 1..n]
    BY <1>1 DEF Bijection, Injection
  <2>2. n \in Nat /\ \A i \in 1..n : s[i] \in Item
    BY ElementOfSeq
  <2> QED
    BY <2>1, <2>2
<1>3. ASSUME NEW i \in 1..n, NEW j \in 1..n, i < j
      PROVE  q[i] < q[j]
  <2>1. s[q[i]].start \in Int /\ s[q[j]].start \in Int
    BY <1>2, <1>3 DEF Ordered, Comparable, Item
  <2>2. q[j] < q[i] => s[q[j]].start <= s[q[i]].start
    BY <1>2 DEF Ordered
  <2>3. Before(s, q[i], q[j])
    BY <1>1, <1>3
  <2> QED
    BY <1>2, <2>1, <2>2, <2>3 DEF Before
<1> DEFINE Low  == { i \in 1..n : q[i] < i }
           High == { i \in 1..n : q[i] > i }
<1>4. Low = {}
  <2> SUFFICES ASSUME Low # {} PROVE FALSE
    OBVIOUS
  <2>0. Low \subseteq Nat
    OBVIOUS
  <2>1. PICK i \in Low : \A j \in Low : i <= j
    <3> HIDE DEF Low
    <3> QED
      BY <2>0, LeastNatural
  <2>2. i \in 1..n /\ q[i] < i /\ i - 1 \in 1..n /\ i - 1 < i /\ i - 1 \notin Low
    BY <1>2, <2>1
  <2>3. q[i - 1] < q[i] /\ ~(q[i - 1] < i - 1)
    BY <1>3, <2>2
  <2> QED
    BY <1>2, <2>2, <2>3
<1>5. High = {}
  <2> SUFFICES ASSUME High # {} PROVE FALSE
    OBVIOUS
  <2>0. High \subseteq 0..n
    OBVIOUS
  <2>1. PICK i \in High : \A j \in High : j <= i
    <3> HIDE DEF High
    <3> QED
      BY <1>2, <2>0, GreatestNatural
  <2>2. i \in 1..n /\ q[i] > i /\ i + 1 \in 1..n /\ i < i + 1 /\ i + 1 \notin High
    BY <1>2, <2>1
  <2>3. q[i] < q[i + 1] /\ ~(q[i + 1] > i + 1)
    BY <1>3, <2>2
  <2> QED
    BY <1>2, <2>2, <2>3
<1>6. \A i \in 1..n : q[i] = i
  BY <1>2, <1>4, <1>5
<1>7. s = [i \in 1..n |-> s[i]]
  OBVIOUS
<1> QED
  BY <1>1, <1>6, <1>7

(* What meets the schema has every start already, and every key of Global  *)
(* that is required; an optional key that the defaults fill in reads as    *)
(* its default before and after.                                           *)
LEMMA DefaultsUnseen ==
    ASSUME NEW g \in GlobalType, NEW ls \in Lists, check_metadata(g, ls)
    PROVE  Reads(GlobalWithDefaults(g)) = Reads(g) /\ ListsWithDefaults(ls) = ls
<1>1. Reads(GlobalWithDefaults(g)) = Reads(g)
  <2>1. g = [checked |-> g.checked, unchecked |-> g.unchecked, defaulted |-> g.defaulted]
    BY DEF GlobalType
  <2>2. g.checked # "absent" /\ g.unchecked # "absent"
    BY DEF check_metadata, SchemaPass
  <2>3. GlobalWithDefaults(g) = [checked |-> g.checked, unchecked |-> g.unchecked,
                                 defaulted |-> ValueOrDefault(g.defaulted)]
    BY <2>2 DEF GlobalWithDefaults, DefaultKey, ValueOrDefault
  <2> QED
    BY <2>1, <2>3 DEF Reads, ValueOrDefault
<1>2. ASSUME NEW k \in Kinds
      PROVE  [i \in 1..Len(ls[k]) |-> WithDefaults(ls[k][i])] = ls[k]
  <2>1. ls[k] \in Seq(Item)
    BY DEF Lists
  <2>2. \A i \in 1..Len(ls[k]) : WithDefaults(ls[k][i]) = ls[k][i]
    BY <2>1 DEF check_metadata, GoodStart, WithDefaults
  <2>3. ls[k] = [i \in 1..Len(ls[k]) |-> ls[k][i]]
    BY <2>1
  <2> QED
    BY <2>2, <2>3
<1>3. ls = [k \in Kinds |-> ls[k]]
  BY DEF Lists
<1> QED
  BY <1>1, <1>2, <1>3 DEF ListsWithDefaults

(* The outcome names the call. *)
LEMMA OutcomeNames ==
    ASSUME NEW op, Returns(op) \/ Throws(op)
    PROVE  last'.op = op
BY DEF Returns, Throws

(* Only Load reports that a load returned. *)
LEMMA OnlyLoadLoads ==
    ASSUME Next, last' = [op |-> "load", ok |-> TRUE]
    PROVE  \E p \in Paths, ctx \in Contexts : Load(p, ctx)
<1>1. ASSUME NEW op, op # "load", Returns(op) \/ Throws(op) PROVE FALSE
  <2>1. last'.op = op
    BY <1>1, OutcomeNames
  <2>2. last'.op = "load"
    OBVIOUS
  <2> QED
    BY <1>1, <2>1, <2>2
<1>2. CASE EditLists
  BY <1>1, <1>2 DEF EditLists, AddItem, RemoveItem, UpdateItem, Rejected
<1>3. CASE EditGlobal
  BY <1>1, <1>3 DEF EditGlobal, SetChecked, SetUnchecked, ReplaceGlobal, Rejected
<1>4. CASE \E ctx \in Contexts : SetValidationContext(ctx)
  BY <1>1, <1>4 DEF SetValidationContext, Rejected
<1>5. CASE \E g \in Globals, ls \in ArgLists, ctx \in Contexts : ConstructFrom(g, ls, ctx)
  BY <1>1, <1>5 DEF ConstructFrom, Construct, Rejected
<1>6. CASE \E p \in Paths, overwrite \in BOOLEAN : Save(p, overwrite)
  BY <1>1, <1>6 DEF Save, Rejected
<1> QED
  BY <1>2, <1>3, <1>4, <1>5, <1>6 DEF Next

(* ReloadRestores: what save() validated, load gives back: the lists       *)
(* unchanged, with entries that start together in the order they had, and  *)
(* a Global that reads the same, though the load may have filled in an     *)
(* optional key that the file left out.                                    *)
THEOREM ReloadAlwaysRestores == Spec => ReloadRestores
<1>1. ASSUME IInv, SavedFilesConform, Next, NEW p \in Paths,
             last' = [op |-> "load", ok |-> TRUE], path' = p, Saved(p), files[p].savedAt # "NONE"
      PROVE  Reads(global') = Reads(files[p].global) /\ lists' = files[p].lists
  <2> DEFINE g  == files[p].global
             ls == files[p].lists
  <2>1. PICK from \in Paths, ctx \in Contexts : Load(from, ctx)
    BY <1>1, OnlyLoadLoads
  <2>2. ASSUME Rejected("load") PROVE FALSE
    <3>1. last'.ok = FALSE
      BY <2>2 DEF Rejected, Throws
    <3>2. last'.ok = TRUE
      BY <1>1
    <3> QED
      BY <3>1, <3>2
  <2>3. Construct("load", GlobalWithDefaults(files[from].global),
                  ListsWithDefaults(files[from].lists), ctx, from)
    BY <2>1, <2>2 DEF Load
  <2>4. from = p
    BY <1>1, <2>2, <2>3 DEF Construct
  <2>5. g \in GlobalType /\ ls \in Lists
    <3>1. files[p] \in Content
      BY <1>1 DEF IInv, TypeOK, Saved
    <3> QED
      BY <3>1 DEF Content
  <2>6. check_metadata(g, ls) /\ \A k \in Kinds : Ordered(ls[k])
    BY <1>1 DEF SavedFilesConform
  <2>7. Reads(GlobalWithDefaults(g)) = Reads(g) /\ ListsWithDefaults(ls) = ls
    BY <2>5, <2>6, DefaultsUnseen
  <2>8. Construct("load", GlobalWithDefaults(g), ls, ctx, p)
    BY <2>3, <2>4, <2>7
  <2> HIDE DEF g, ls
  <2>9. Reads(global') = Reads(g)
    BY <2>2, <2>7, <2>8 DEF Construct
  <2>10. PICK sorted \in [Kinds -> UNION {sort_by_sample_start(ls[k]) : k \in Kinds}] :
            /\ \A k \in Kinds : sorted[k] \in sort_by_sample_start(ls[k])
            /\ lists' = sorted
    BY <2>2, <2>8 DEF Construct
  <2>11. \A k \in Kinds : sorted[k] = ls[k]
    BY <2>5, <2>6, <2>10, SortIdentity DEF Lists
  <2>12. lists' = ls
    <3>1. sorted = [k \in Kinds |-> sorted[k]] /\ ls = [k \in Kinds |-> ls[k]]
      BY <2>5, <2>10 DEF Lists
    <3> QED
      BY <2>10, <2>11, <3>1
  <2> QED
    BY <2>9, <2>12 DEF g, ls
<1>2. IInv /\ SavedFilesConform /\ [Next]_vars
        => [\A p \in Paths :
              last' = [op |-> "load", ok |-> TRUE] /\ path' = p /\ Saved(p) /\ files[p].savedAt # "NONE"
              => Reads(global') = Reads(files[p].global) /\ lists' = files[p].lists]_vars
  BY <1>1
<1> QED
  BY <1>2, Invariance, SavedFilesAlwaysConform, PTL DEF Spec, ReloadRestores
-----------------------------------------------------------------------------
(* The entries of s load: with the defaults, each passes its checks.       *)
AllLoad(s) == \A i \in 1..Len(s) : check_item(WithDefaults(s[i]))

LEMMA CheckedLoads ==
    ASSUME NEW item \in Item, check_item(item)
    PROVE  check_item(WithDefaults(item))
BY DEF check_item, GoodStart, WithDefaults

(* The defaults are given once.                                            *)
LEMMA DefaultsLoad ==
    ASSUME NEW item \in Item, check_item(WithDefaults(item))
    PROVE  WithDefaults(item) \in Item /\ check_item(WithDefaults(WithDefaults(item)))
<1>1. WithDefaults(item) \in Item
  BY DEF WithDefaults, Item
<1> QED
  BY <1>1, CheckedLoads

LEMMA InsertLoads ==
    ASSUME NEW s \in Seq(Item), AllLoad(s), NEW item \in Item, check_item(item),
           NEW t \in insert_sorted(s, item)
    PROVE  AllLoad(t)
<1>1. PICK p \in lower_bound(s, item) : t = InsertAt(s, p, item)
  BY DEF insert_sorted
<1>2. Len(s) \in Nat /\ p \in 1..(Len(s) + 1)
  BY <1>1 DEF lower_bound
<1>3. /\ Len(t) = Len(s) + 1
      /\ \A i \in 1..(Len(s) + 1) : t[i] = IF i < p THEN s[i] ELSE IF i = p THEN item ELSE s[i - 1]
  <2>1. /\ Len(InsertAt(s, p, item)) = Len(s) + 1
        /\ \A i \in 1..(Len(s) + 1) :
              InsertAt(s, p, item)[i] = IF i < p THEN s[i] ELSE IF i = p THEN item ELSE s[i - 1]
    BY <1>2, InsertAtElements
  <2> QED
    BY <1>1, <2>1
<1>4. ASSUME NEW i \in 1..Len(t) PROVE check_item(WithDefaults(t[i]))
  <2>1. CASE i < p
    <3>1. i \in 1..Len(s) /\ t[i] = s[i]
      BY <1>2, <1>3, <2>1
    <3> QED
      BY <3>1 DEF AllLoad
  <2>2. CASE i = p
    BY <1>2, <1>3, <2>2, CheckedLoads
  <2>3. CASE p < i
    <3>1. i - 1 \in 1..Len(s) /\ t[i] = s[i - 1]
      BY <1>2, <1>3, <2>3
    <3> QED
      BY <3>1 DEF AllLoad
  <2> QED
    BY <1>2, <1>3, <2>1, <2>2, <2>3
<1> QED
  BY <1>4 DEF AllLoad

LEMMA RemoveLoads ==
    ASSUME NEW s \in Seq(Item), AllLoad(s), NEW p \in 1..Len(s)
    PROVE  AllLoad(RemoveAt(s, p))
<1> DEFINE t == RemoveAt(s, p)
<1>1. Len(t) = Len(s) - 1 /\ \A i \in 1..(Len(s) - 1) : t[i] = IF i < p THEN s[i] ELSE s[i + 1]
  BY RemoveAtElements
<1> HIDE DEF t
<1>2. ASSUME NEW i \in 1..Len(t) PROVE check_item(WithDefaults(t[i]))
  <2>1. /\ i \in 1..Len(s) /\ i + 1 \in 1..Len(s)
        /\ t[i] = s[i] \/ t[i] = s[i + 1]
    BY <1>1
  <2> QED
    BY <2>1 DEF AllLoad
<1>3. AllLoad(t)
  BY <1>2 DEF AllLoad
<1> QED
  BY <1>3 DEF t

LEMMA SortLoads ==
    ASSUME NEW s \in Seq(Item), AllLoad(s), NEW t \in sort_by_sample_start(s)
    PROVE  AllLoad(t)
<1> DEFINE n == Len(s)
<1>1. PICK q \in Bijection(1..n, 1..n) : t = [i \in 1..n |-> s[q[i]]]
  BY DEF sort_by_sample_start
<1>2. q \in [1..n -> 1..n]
  BY <1>1 DEF Bijection, Injection
<1>3. n \in Nat
  OBVIOUS
<1>4. Len(t) = n /\ \A i \in 1..n : q[i] \in 1..n /\ t[i] = s[q[i]]
  BY <1>1, <1>2, <1>3
<1> QED
  BY <1>4 DEF AllLoad

(* Loadable of the document that save() would write. *)
Loads == check_global(GlobalWithDefaults(global)) /\ \A k \in Kinds : AllLoad(lists[k])

LEMMA DocumentLoads ==
    (Loadable(Document) <=> Loads) /\ (Loadable(Document') <=> Loads')
BY DEF Loadable, Document, Loads, AllLoad

(* A load makes an object whose document can be loaded back.               *)
LEMMA LoadLoads ==
    ASSUME IInv, Loads, NEW p \in Paths, NEW ctx, Load(p, ctx)
    PROVE  Loads'
<1> DEFINE g  == GlobalWithDefaults(files[p].global)
           ls == ListsWithDefaults(files[p].lists)
<1>1. CASE Rejected("load")
  BY <1>1 DEF Rejected, object, Loads
<1>2. CASE ~Rejected("load")
  <2>1. files[p] \in Content /\ Loadable(files[p])
    BY <1>2 DEF Load, IInv, TypeOK
  <2>2. files[p].global \in GlobalType /\ files[p].lists \in Lists
    BY <2>1 DEF Content
  <2>3. ls \in Lists /\ g \in GlobalType
    BY <2>2, DefaultsType
  <2>4. check_global(GlobalWithDefaults(g))
    <3>1. GlobalWithDefaults(g) = g
      BY <2>2 DEF GlobalWithDefaults, DefaultKey, GlobalType, Qualities
    <3> QED
      BY <2>1, <3>1 DEF Loadable
  <2>5. ASSUME NEW k \in Kinds PROVE AllLoad(ls[k])
    <3>1. files[p].lists[k] \in Seq(Item)
      BY <2>2 DEF Lists
    <3>2. ls[k] = [i \in 1..Len(files[p].lists[k]) |-> WithDefaults(files[p].lists[k][i])]
      BY DEF ListsWithDefaults
    <3>3. Len(files[p].lists[k]) \in Nat /\ Len(ls[k]) = Len(files[p].lists[k])
      BY <3>1, <3>2
    <3>4. ASSUME NEW i \in 1..Len(ls[k]) PROVE check_item(WithDefaults(ls[k][i]))
      <4>1. files[p].lists[k][i] \in Item /\ check_item(WithDefaults(files[p].lists[k][i]))
        BY <2>1, <3>1, <3>3, ElementOfSeq DEF Loadable
      <4>2. ls[k][i] = WithDefaults(files[p].lists[k][i])
        BY <3>2, <3>3
      <4> QED
        BY <4>1, <4>2, DefaultsLoad
    <3> QED
      BY <3>4 DEF AllLoad
  <2>6. Construct("load", g, ls, ctx, p)
    BY <1>2 DEF Load
  <2> HIDE DEF g, ls
  <2>7. global' = g /\ \A k \in Kinds : lists'[k] \in sort_by_sample_start(ls[k])
    BY <1>2, <2>6 DEF Construct
  <2>8. \A k \in Kinds : AllLoad(lists'[k])
    BY <2>3, <2>5, <2>7, SortLoads DEF Lists
  <2> QED
    BY <2>4, <2>7, <2>8 DEF Loads
<1> QED
  BY <1>1, <1>2

(* So does every edit of a list, checked as it is under STRICT.            *)
LEMMA EditLoads ==
    ASSUME IInv, Loads, level = "STRICT", EditLists
    PROVE  Loads'
<1>1. \A k \in Kinds : lists[k] \in Seq(Item) /\ AllLoad(lists[k])
  BY DEF IInv, TypeOK, Lists, Loads
<1>2. ASSUME NEW k \in Kinds, NEW t, AllLoad(t), lists' = [lists EXCEPT ![k] = t], UNCHANGED global
      PROVE  Loads'
  <2>1. \A j \in Kinds : lists'[j] = IF j = k THEN t ELSE lists[j]
    BY <1>2 DEF IInv, TypeOK, Lists
  <2>2. \A j \in Kinds : AllLoad(lists'[j])
    BY <1>1, <1>2, <2>1
  <2> QED
    BY <1>2, <2>2 DEF Loads
<1>3. ASSUME NEW op, Rejected(op) PROVE Loads'
  BY <1>3 DEF Rejected, object, Loads
<1>4. ASSUME NEW k \in Kinds, NEW item \in Items, AddItem(k, item) PROVE Loads'
  <2>1. CASE Rejected("add")
    BY <1>3, <2>1
  <2>2. CASE ~Rejected("add")
    <3>1. check_item(item) /\ UNCHANGED global
      BY <1>4, <2>2 DEF AddItem
    <3>2. PICK t \in insert_sorted(lists[k], item) : lists' = [lists EXCEPT ![k] = t]
      BY <1>4, <2>2 DEF AddItem
    <3>3. AllLoad(t)
      BY <1>1, <3>1, <3>2, ArgumentTypes, InsertLoads
    <3> QED
      BY <1>2, <3>1, <3>2, <3>3
  <2> QED
    BY <2>1, <2>2
<1>5. ASSUME NEW k \in Kinds, NEW i \in 1..(MaxLen + 1), i <= Len(lists[k])
      PROVE  /\ RemoveAt(lists[k], i) \in Seq(Item)
             /\ AllLoad(RemoveAt(lists[k], i))
  <2>1. i \in 1..Len(lists[k])
    BY <1>1, <1>5, MetadataAssumption
  <2> QED
    BY <1>1, <2>1, RemoveAtElements, RemoveLoads
<1>6. ASSUME NEW k \in Kinds, NEW i \in 1..(MaxLen + 1), RemoveItem(k, i) PROVE Loads'
  <2>1. Len(lists[k]) \in Nat /\ i \in Nat
    BY <1>1, MetadataAssumption
  <2>2. CASE i > Len(lists[k])
    BY <1>3, <1>6, <2>2 DEF RemoveItem
  <2>3. CASE i <= Len(lists[k])
    <3>1. AllLoad(RemoveAt(lists[k], i))
      BY <1>5, <2>3
    <3>2. lists' = [lists EXCEPT ![k] = RemoveAt(lists[k], i)] /\ UNCHANGED global
      BY <1>6, <2>1, <2>3 DEF RemoveItem
    <3> QED
      BY <1>2, <3>1, <3>2
  <2> QED
    BY <2>1, <2>2, <2>3
<1>7. ASSUME NEW k \in Kinds, NEW i \in 1..(MaxLen + 1), NEW item \in Items, UpdateItem(k, i, item)
      PROVE  Loads'
  <2> DEFINE rest == RemoveAt(lists[k], i)
  <2>1. Len(lists[k]) \in Nat /\ i \in Nat
    BY <1>1, MetadataAssumption
  <2>2. CASE i > Len(lists[k]) \/ ~check_item(item)
    BY <1>3, <1>7, <2>2 DEF UpdateItem
  <2>3. CASE i <= Len(lists[k]) /\ check_item(item)
    <3>1. rest \in Seq(Item) /\ AllLoad(rest)
      BY <1>5, <2>3
    <3>2. UNCHANGED global
      BY <1>7, <2>1, <2>3 DEF UpdateItem
    <3>3. \/ lists' = [lists EXCEPT ![k] = rest]
          \/ \E t \in insert_sorted(rest, item) : lists' = [lists EXCEPT ![k] = t]
      BY <1>7, <2>1, <2>3 DEF UpdateItem
    <3>4. \A t \in insert_sorted(rest, item) : AllLoad(t)
      BY <2>3, <3>1, ArgumentTypes, InsertLoads
    <3> HIDE DEF rest
    <3> QED
      BY <1>2, <3>1, <3>2, <3>3, <3>4
  <2> QED
    BY <2>1, <2>2, <2>3
<1> QED
  BY <1>4, <1>6, <1>7 DEF EditLists

(* StrictKeepsLoadable: under STRICT the per-field checks of the edits, of *)
(* load and of a new Global are together as strong as those that a later   *)
(* load of the saved document runs.                                        *)
THEOREM StrictAlwaysKeepsLoadable == Spec => StrictKeepsLoadable
<1>1. ASSUME IInv, Next, {level, glevel, level', glevel'} = {"STRICT"},
             last'.op \notin {"raw", "construct"}, Loads
      PROVE  Loads'
  <2>1. level = "STRICT" /\ glevel = "STRICT" /\ glevel' = "STRICT"
    BY <1>1
  <2>2. ASSUME NEW op, Rejected(op) PROVE Loads'
    BY <1>1, <2>2 DEF Rejected, object, Loads
  <2>3. CASE EditLists
    BY <1>1, <2>1, <2>3, EditLoads
  <2>4. ASSUME NEW key \in {"checked", "defaulted"}, NEW q, SetChecked(key, q) PROVE Loads'
    <3>1. CASE FieldsPass(q)
      <4>1. global' = [global EXCEPT ![key] = q] /\ UNCHANGED lists
        BY <2>4, <3>1 DEF SetChecked
      <4>2. global \in GlobalType
        BY <1>1 DEF IInv, TypeOK
      <4>3. /\ global'.checked = IF key = "checked" THEN q ELSE global.checked
            /\ global'.unchecked = global.unchecked
            /\ global'.defaulted = IF key = "defaulted" THEN q ELSE global.defaulted
        BY <4>1, <4>2 DEF GlobalType
      <4> QED
        BY <1>1, <3>1, <4>1, <4>3
           DEF Loads, check_global, GlobalWithDefaults, DefaultKey, ValueOrDefault, FieldsPass
    <3>2. CASE ~FieldsPass(q)
      BY <2>1, <2>2, <2>4, <3>2 DEF SetChecked
    <3> QED
      BY <3>1, <3>2
  <2>5. ASSUME NEW g, SetUnchecked(g) PROVE FALSE
    <3>1. last'.op = "raw"
      BY <2>5, OutcomeNames DEF SetUnchecked
    <3> QED
      BY <1>1, <3>1
  <2>6. ASSUME NEW g \in Globals, NEW ctx \in Contexts, ReplaceGlobal(g, ctx) PROVE Loads'
    <3>1. CASE Rejected("global")
      BY <2>2, <3>1
    <3>2. CASE ~Rejected("global")
      <4>1. global' = g /\ UNCHANGED lists /\ glevel' = ctx.level
        BY <2>6, <3>2 DEF ReplaceGlobal
      <4>2. check_global(g)
        BY <2>1, <2>6, <3>2, <4>1 DEF ReplaceGlobal
      <4> QED
        BY <1>1, <4>1, <4>2
           DEF Loads, check_global, GlobalWithDefaults, DefaultKey, ValueOrDefault, FieldsPass
    <3> QED
      BY <3>1, <3>2
  <2>7. ASSUME NEW ctx, SetValidationContext(ctx) PROVE Loads'
    BY <1>1, <2>2, <2>7 DEF SetValidationContext, Loads
  <2>8. ASSUME NEW g, NEW ls, NEW ctx, ConstructFrom(g, ls, ctx) PROVE FALSE
    <3>1. last'.op = "construct"
      BY <2>8, OutcomeNames DEF ConstructFrom, Construct, Rejected
    <3> QED
      BY <1>1, <3>1
  <2>9. ASSUME NEW p \in Paths, NEW ctx \in Contexts, Load(p, ctx) PROVE Loads'
    BY <1>1, <2>9, LoadLoads
  <2>10. ASSUME NEW p \in Paths, NEW overwrite \in BOOLEAN, Save(p, overwrite) PROVE Loads'
    BY <1>1, <2>2, <2>10 DEF Save, object, Loads
  <2> QED
    BY <1>1, <2>3, <2>4, <2>5, <2>6, <2>7, <2>8, <2>9, <2>10 DEF Next, EditGlobal
<1>2. IInv /\ [Next]_vars
        => [/\ {level, glevel, level', glevel'} = {"STRICT"}
            /\ last'.op \notin {"raw", "construct"}
            /\ Loadable(Document)
            => Loadable(Document')]_vars
  BY <1>1, DocumentLoads
<1> QED
  BY <1>2, Invariance, PTL DEF Spec, StrictKeepsLoadable
=============================================================================
