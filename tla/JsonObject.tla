----------------------------- MODULE JsonObject -----------------------------
(***************************************************************************)
(* JSONBase and, on top of it, Global: one JSON document that is edited    *)
(* through JSON pointers, merges and typed setters, and read through typed *)
(* getters.  Capture and Annotation are built the same way.  A scalar is   *)
(* good for a key when the key's per-field check passes on it.             *)
(***************************************************************************)
EXTENDS JsonDocument

CONSTANTS
    CheckedKeys,   \* keys that check_global looks at
    RequiredKeys,  \* those of them whose getter throws when they are missing
    UncheckedKeys, \* keys whose typed setter never validates: author, and
                   \* version, which check_global looks at and requires
    Good,          \* the scalars that pass the check of each checked key
    Defaults,      \* Global::default_data
    Fallbacks,     \* what a getter makes of a missing key: value_or, or throws
    Pointers, Values  \* the arguments of the untyped operations

(* What a getter comes to when as<T> throws - or, where jsoncons turns any *)
(* value into text, when it returns a text that no check passes.           *)
Unusable == "unusable"

ASSUME ObjectAssumption ==
    /\ RequiredKeys \subseteq CheckedKeys
    /\ CheckedKeys \cup UncheckedKeys \subseteq Keys
    /\ Good \in [CheckedKeys -> SUBSET (Scalars \ {Null, Unusable})]
    /\ IsDocument(Defaults) /\ IsObject(Defaults)
    /\ \A k \in RequiredKeys : <<k>> \in DOMAIN Defaults
    /\ \A k \in CheckedKeys : <<k>> \in DOMAIN Defaults => Defaults[<<k>>] \in Good[k]
    /\ \A k \in CheckedKeys : Fallbacks[k] = Unusable => k \in RequiredKeys
    \* value_or and default_data agree on a key that has both.
    /\ \A k \in (CheckedKeys \cup UncheckedKeys) \ RequiredKeys :
          <<k>> \in DOMAIN Defaults =>
              Defaults[<<k>>] = Fallbacks[k] /\ Fallbacks[k] \notin {Object, Null}
    /\ Pointers \subseteq Seq(Keys)
    /\ \A v \in Values : IsDocument(v)

VARIABLES
    data_,  \* the document
    level,  \* the level of validation_context_
    ok,     \* whether the last call returned
    vetted  \* history: the checked keys a check has seen as they are now

vars == <<data_, level, ok, vetted>>

Returns  == ok' = TRUE
Throws   == ok' = FALSE
Rejected == Throws /\ UNCHANGED <<data_, level, vetted>>
-----------------------------------------------------------------------------
(* get<T>: an object and a null are no value of any key. *)
get(d, k) == IF d[<<k>>] \in {Object, Null} THEN Unusable ELSE d[<<k>>]

(* Fault: value_or is forgotten. *)
getter_NoFallback(d, k) ==
    IF <<k>> \in DOMAIN d THEN get(d, k) ELSE IF k \in RequiredKeys THEN Unusable ELSE "nullopt"

(* The typed getter of a key: get, get_optional, get_optional.value_or.    *)
getter(d, k) == IF <<k>> \in DOMAIN d THEN get(d, k) ELSE Fallbacks[k]

(* The check of one key: of what its getter returns, if it does not throw; *)
(* a missing key reads as its fallback or as none, which pass.             *)
check_key(d, k) == IF <<k>> \in DOMAIN d THEN get(d, k) \in Good[k] ELSE k \notin RequiredKeys

check_global(d) == \A k \in CheckedKeys : check_key(d, k)
-----------------------------------------------------------------------------
Init ==
    /\ data_ = Defaults
    /\ level = "STRICT"
    /\ ok = TRUE
    /\ vetted = CheckedKeys

(* A context without a validator is refused unless its level is NONE.      *)
BadContext(lv, validator) == lv \in {"STRICT", "LAZY"} /\ ~validator

(* o = Global(overrides, ctx): the defaults patched with the overrides;    *)
(* nothing is assigned when that or the check throws.                      *)
Construct(overrides, lv, validator) ==
    IF \/ BadContext(lv, validator)
       \/ ~IsObject(overrides)
       \/ lv = "STRICT" /\ ~check_global(patched(Defaults, overrides))
    THEN Rejected
    ELSE /\ data_' = patched(Defaults, overrides)
         /\ level' = lv
         /\ vetted' = IF lv = "STRICT" THEN CheckedKeys ELSE {}
         /\ Returns

(* An edit at ptr without a check: the member it lies in, or everything.   *)
Edited(d, ptr) ==
    /\ data_' = d
    /\ vetted' = IF ptr = <<>> THEN {} ELSE vetted \ {Head(ptr)}
    /\ UNCHANGED level

set(ptr, v) ==
    IF Resolves(data_, ptr)
    THEN Edited(Graft(Created(data_, ptr), ptr, v), ptr) /\ Returns
    ELSE Rejected

(* merge and merge_patch: what is missing is created, a null replaced; two *)
(* objects are combined and anything else is refused - after the creation. *)
Combine(ptr, v, combined) ==
    LET d == Created(data_, ptr) IN
    IF ~Resolves(data_, ptr) THEN Rejected
    ELSE IF d[ptr] = Null THEN Edited(Graft(d, ptr, v), ptr) /\ Returns
    ELSE IF d[ptr] = Object /\ IsObject(v)
         THEN Edited(Graft(d, ptr, combined), ptr) /\ Returns
    ELSE Edited(d, ptr) /\ Throws

merge(ptr, v)       == Combine(ptr, v, merged(At(Created(data_, ptr), ptr), v))
merge_patch(ptr, v) == Combine(ptr, v, patched(At(Created(data_, ptr), ptr), v))

(* operator[] on an object that is not const inserts a missing key; what   *)
(* jsoncons puts there is not a scalar that any getter converts.           *)
Vivify(k) ==
    IF ~IsObject(data_) THEN Rejected
    ELSE IF <<k>> \in DOMAIN data_
         THEN Returns /\ UNCHANGED <<data_, level, vetted>>
         ELSE \E v \in {Object, Null} :
                 Edited(Graft(data_, <<k>>, Scalar(v)), <<k>>) /\ Returns

(* Fault: a setter of a checked key forgets to validate. *)
SetChecked_Forgotten(k, q) ==
    IF ~IsObject(data_)
    THEN Rejected
    ELSE /\ data_' = Graft(data_, <<k>>, Scalar(q))
         /\ vetted' = IF level = "STRICT" THEN vetted \cup {k} ELSE vetted \ {k}
         /\ UNCHANGED level
         /\ Returns

(* A typed setter that validates: set_datatype ... set_trailing_bytes. *)
SetChecked(k, q) ==
    IF (level = "STRICT" /\ q \notin Good[k]) \/ ~IsObject(data_)
    THEN Rejected
    ELSE /\ data_' = Graft(data_, <<k>>, Scalar(q))
         /\ vetted' = IF level = "STRICT" THEN vetted \cup {k} ELSE vetted \ {k}
         /\ UNCHANGED level
         /\ Returns

(* One that does not: set_author ... set_meta_doi, and set_version. *)
SetUnchecked(k, q) ==
    IF ~IsObject(data_)
    THEN Rejected
    ELSE /\ data_' = Graft(data_, <<k>>, Scalar(q))
         /\ vetted' = vetted \ {k}
         /\ UNCHANGED level
         /\ Returns

set_validation_context(lv, validator) ==
    IF BadContext(lv, validator)
    THEN Rejected
    ELSE /\ level' = lv
         /\ Returns
         /\ UNCHANGED <<data_, vetted>>

Levels == {"STRICT", "LAZY", "NONE"}

Next ==
    \/ \E v \in Values, lv \in Levels, validator \in BOOLEAN : Construct(v, lv, validator)
    \/ \E ptr \in Pointers, v \in Values :
          set(ptr, v) \/ merge(ptr, v) \/ merge_patch(ptr, v)
    \/ \E k \in CheckedKeys \cup UncheckedKeys : Vivify(k)
    \/ \E k \in CheckedKeys \ UncheckedKeys, q \in Scalars \ {Null} : SetChecked(k, q)
    \/ \E k \in UncheckedKeys, q \in Scalars \ {Null} : SetUnchecked(k, q)
    \/ \E lv \in Levels, validator \in BOOLEAN : set_validation_context(lv, validator)

Spec == Init /\ [][Next]_vars
-----------------------------------------------------------------------------
(* The document stays a document, whatever pointers, patches and operator[] *)
(* do to it: every member sits in an object.                               *)
TypeOK ==
    /\ IsDocument(data_)
    /\ level \in Levels
    /\ ok \in BOOLEAN
    /\ vetted \subseteq CheckedKeys

(* A key that a check has seen stays as the check left it until a call      *)
(* that does not check is made for it: through edits without a check        *)
(* elsewhere in the document, calls that throw half way and changes of      *)
(* level, the per-field check of a load still passes on it, and its getter  *)
(* does not throw.                                                          *)
VettedKeysPass ==
    \A k \in vetted : check_key(data_, k) /\ getter(data_, k) # Unusable

(* Loading a document fills in the defaults.  Two places hold defaults,    *)
(* default_data and value_or of the getters, and a null in a document      *)
(* removes a key: still, what was loaded once reads the same after it is   *)
(* saved and loaded again.                                                 *)
Loaded(d) == patched(Defaults, d)

ReloadReadsTheSame ==
    IsObject(data_) /\ check_global(Loaded(data_)) =>
        \A k \in CheckedKeys \cup UncheckedKeys :
            getter(Loaded(Loaded(data_)), k) = getter(Loaded(data_), k)
-----------------------------------------------------------------------------
(* json_base.cpp:60 "No existing value - just take the new value as-is     *)
(* (object or scalar)": merge_patch puts a value where there was none.     *)
MissingTakesValue ==
    [][\A ptr \in Pointers, v \in Values :
         merge_patch(ptr, v) /\ Resolves(data_, ptr) /\ ptr \notin DOMAIN data_ =>
             ptr \in DOMAIN data_' /\ At(data_', ptr) = v]_vars

(* TODO.md:123 "Eager - at value-setting time ... things throw an error    *)
(* right where they are set": under STRICT the typed setter of a key that   *)
(* check_global looks at refuses what its check refuses.                    *)
EagerSettersThrow ==
    [][\A k \in CheckedKeys : \A q \in Scalars \ (Good[k] \cup {Null}) :
         /\ level = "STRICT"
         /\ IF k \in UncheckedKeys THEN SetUnchecked(k, q) ELSE SetChecked(k, q)
         => ~ok']_vars
=============================================================================
