---------------------------- MODULE JsonDocument ----------------------------
(***************************************************************************)
(* JSON values and what jsoncons does to them for JSONBase.  A value is a  *)
(* function from the paths that exist in it to what lies there, an object  *)
(* or a scalar; the root is the empty path.  Nothing here looks into an    *)
(* array, which counts as a scalar.                                        *)
(***************************************************************************)
EXTENDS Naturals, Sequences, SequencesExt

CONSTANTS Keys, Scalars

Object == "{}"
Null   == "null"

ASSUME JsonAssumption == Object \notin Scalars /\ Null \in Scalars
-----------------------------------------------------------------------------
(* Whatever has a member is an object that exists. *)
IsDocument(d) ==
    /\ d = [p \in DOMAIN d |-> d[p]]
    /\ DOMAIN d \subseteq Seq(Keys)
    /\ <<>> \in DOMAIN d
    /\ \A p \in DOMAIN d : d[p] \in Scalars \cup {Object}
    /\ \A p \in DOMAIN d : \A q \in Prefixes(p) \ {p} : q \in DOMAIN d /\ d[q] = Object

Scalar(v) == [p \in {<<>>} |-> v]
IsObject(d) == d[<<>>] = Object

(* What follows path p in the path q that it begins. *)
Rest(p, q) == SubSeq(q, Len(p) + 1, Len(q))

(* The value at a path, and the document with another value there. *)
At(d, ptr) == [r \in { Rest(ptr, q) : q \in { q \in DOMAIN d : IsPrefix(ptr, q) } } |-> d[ptr \o r]]

Graft(d, ptr, v) ==
    [p \in { q \in DOMAIN d : ~IsPrefix(ptr, q) } \cup { ptr \o r : r \in DOMAIN v } |->
        IF IsPrefix(ptr, p) THEN v[Rest(ptr, p)] ELSE d[p]]
-----------------------------------------------------------------------------
(* jsonpointer::get(root, ptr, true) fails on a path through a scalar.     *)
Resolves(d, ptr) ==
    \A k \in 0..(Len(ptr) - 1) : SubSeq(ptr, 1, k) \in DOMAIN d => d[SubSeq(ptr, 1, k)] = Object

(* Fault: the objects on the way are not made. *)
Created_LastOnly(d, ptr) == [p \in DOMAIN d \cup {ptr} |-> IF p \in DOMAIN d THEN d[p] ELSE Object]

(* Otherwise it makes empty objects of everything that is missing.         *)
Created(d, ptr) ==
    [p \in DOMAIN d \cup { SubSeq(ptr, 1, k) : k \in 0..Len(ptr) } |->
        IF p \in DOMAIN d THEN d[p] ELSE Object]

(* json::merge: the members whose key the object does not have yet.        *)
merged(d, v) ==
    [p \in DOMAIN d \cup { q \in DOMAIN v : q # <<>> /\ <<Head(q)>> \notin DOMAIN d } |->
        IF p \in DOMAIN d THEN d[p] ELSE v[p]]

(* apply_merge_patch, for an object v: what v says at any depth goes in,   *)
(* unless it is null; what lies at or under a scalar of v goes out.        *)
patched(d, v) ==
    LET kept == { p \in DOMAIN d : \A q \in DOMAIN v : IsPrefix(q, p) => v[q] = Object }
        new  == { p \in DOMAIN v : v[p] # Null }
    IN  [p \in kept \cup new |-> IF p \in new THEN v[p] ELSE d[p]]
=============================================================================
