------------------------------ MODULE Metadata ------------------------------
(***************************************************************************)
(* The Metadata object of sigmf_io: a public Global, a list of captures    *)
(* and a list of annotations kept in ascending order of core:sample_start, *)
(* a validation context, and the .sigmf-meta files it is saved to and      *)
(* loaded from.                                                            *)
(*                                                                         *)
(* One action per public operation.  A call either returns or throws; what *)
(* it did before it threw is part of the action.  The two lists are edited *)
(* by twin functions (add_capture / add_annotation and so on), modelled    *)
(* once for a list k \in Kinds.                                            *)
(*                                                                         *)
(* Data.  A captures or annotations entry is its sample start, a tag that  *)
(* tells equal entries apart, and the quality of its other fields: whether *)
(* they pass the per-field checks (check_capture, check_annotation) and    *)
(* whether they pass the JSON schema (check_metadata).  The two verdicts   *)
(* are independent: the schema's patterns accept strings that the parsers  *)
(* of Datatype, Version or UUID refuse, and fields such as label, comment  *)
(* or author have no per-field check at all.                               *)
(***************************************************************************)
EXTENDS Integers, Sequences, SequencesExt, Functions

CONSTANTS
    Kinds,        \* the lists: "captures" and "annotations"
    Tags,         \* identities of list entries
    Items,        \* the entries a caller may pass in
    Globals,      \* the Global objects a caller may pass in
    ArgLists,     \* the pairs of lists a caller may construct from
    Paths,        \* file paths
    MetaPaths,    \* those of Paths that end with ".sigmf-meta"
    ForeignFiles, \* files that other programs left on the disk
    MaxLen,       \* bound of the model: longest list
    NoStart,      \* the sample start of an entry without core:sample_start
    NoPath,       \* the meta_path_ of an object that was not loaded
    NoFile,       \* nothing at a path
    Torn          \* a file that was truncated but not written to the end

Levels    == {"STRICT", "LAZY", "NONE"}
Qualities == {"valid", "schemaOnly", "fieldsOnly", "bad"}

(* The keys of Global by what happens to them: required, with a setter     *)
(* that validates (core:datatype); required or never looked at by          *)
(* check_global, with one that does not (core:version, core:author);       *)
(* optional, with a default (core:num_channels, core:offset,               *)
(* core:extensions).  A null override makes a key "absent".                *)
GlobalType == [checked   : Qualities \cup {"absent"},
               unchecked : Qualities \cup {"absent"},
               defaulted : Qualities \cup {"absent", "default"}]
Item  == [tag : Tags, start : Int \cup {NoStart}, quality : Qualities]
Lists == [Kinds -> Seq(Item)]
Content == [global : GlobalType, lists : Lists, savedAt : Levels \cup {"foreign"}]

(* The argument of set_validation_context: a level and whether the shared  *)
(* pointer to a validator is non-null.                                     *)
ContextType == [level : Levels, validator : BOOLEAN]

ASSUME MetadataAssumption ==
    /\ NoStart \notin Int
    /\ Items \subseteq Item
    /\ Globals \subseteq GlobalType
    /\ ArgLists \subseteq Lists
    /\ MetaPaths \subseteq Paths
    /\ ForeignFiles \subseteq Content
    /\ \A f \in ForeignFiles : f.savedAt = "foreign"
    /\ NoFile \notin Content
    /\ Torn \notin Content
    /\ MaxLen \in Nat

VARIABLES
    global,  \* Metadata::global
    glevel,  \* the level of global's own validation context
    lists,   \* captures_ and annotations_
    level,   \* the level of validation_context_
    path,    \* meta_path_
    files,   \* the file system
    last     \* the call that was made last and whether it returned

object == <<global, glevel, lists, level, path>>
vars   == <<global, glevel, lists, level, path, files, last>>
-----------------------------------------------------------------------------
(* The per-field checks: check_global, check_capture, check_annotation.    *)
(* A check on an entry without core:sample_start throws from the getter.   *)

FieldsPass(q) == q \in {"valid", "fieldsOnly", "default"}
SchemaPass(q) == q \in {"valid", "schemaOnly", "default"}

GoodStart(item)   == item.start # NoStart /\ item.start >= 0
check_item(item)  == GoodStart(item) /\ FieldsPass(item.quality)

(* num_channels() and offset(), with their value_or. *)
ValueOrDefault(q) == IF q = "absent" THEN "default" ELSE q

check_global(g) ==
    FieldsPass(g.checked) /\ FieldsPass(g.unchecked) /\ FieldsPass(ValueOrDefault(g.defaulted))

(* check_metadata: the JSON schema over the whole document. It requires    *)
(* some keys of Global and does not look at the order of the entries.      *)
check_metadata(g, ls) ==
    /\ SchemaPass(g.checked) /\ SchemaPass(g.unchecked)
    /\ g.defaulted = "absent" \/ SchemaPass(g.defaulted)
    /\ \A k \in Kinds : \A i \in DOMAIN ls[k] :
          GoodStart(ls[k][i]) /\ SchemaPass(ls[k][i].quality)

(* ValidationContext requires a validator when level is STRICT or LAZY.    *)
BadContext(ctx) == ctx.level \in {"STRICT", "LAZY"} /\ ~ctx.validator
-----------------------------------------------------------------------------
(* The order of the lists.  The comparator calls sample_start() on both    *)
(* operands, which throws when the key is missing; with fewer than two     *)
(* entries nothing is compared.                                            *)

Comparable(s) == Len(s) > 1 => \A i \in 1..Len(s) : s[i].start # NoStart

Ordered(s) ==
    /\ Comparable(s)
    /\ \A i, j \in 1..Len(s) : i < j => s[i].start <= s[j].start

(* Fault: std::sort, which may swap equal entries. *)
Before_Unstable(s, i, j) == \/ s[i].start < s[j].start
                            \/ s[i].start = s[j].start /\ i > j

(* Fault: the constructors do not sort. *)
sort_by_sample_start_Dropped(s) == {s}

(* What std::stable_sort may return for s: its one stable permutation.     *)
Before(s, i, j) == \/ s[i].start < s[j].start
                   \/ s[i].start = s[j].start /\ i < j
sort_by_sample_start(s) ==
    { [i \in 1..Len(s) |-> s[p[i]]] :
        p \in { q \in Bijection(1..Len(s), 1..Len(s)) :
                  \A i, j \in 1..Len(s) : i < j => Before(s, q[i], q[j]) } }

(* What std::lower_bound may return for item in the sorted s.              *)
lower_bound(s, item) ==
    { p \in 1..(Len(s) + 1) :
        /\ \A i \in 1..(p - 1) : s[i].start < item.start
        /\ \A i \in p..Len(s)  : item.start <= s[i].start }

insert_sorted(s, item) == { InsertAt(s, p, item) : p \in lower_bound(s, item) }
insert_throws(s, item) == ~Comparable(Append(s, item))
-----------------------------------------------------------------------------
Returns(op) == last' = [op |-> op, ok |-> TRUE]
Throws(op)  == last' = [op |-> op, ok |-> FALSE]

(* A call that throws before it has changed anything. *)
Rejected(op) == Throws(op) /\ UNCHANGED <<object, files>>

DefaultGlobal == [checked |-> "valid", unchecked |-> "valid", defaulted |-> "default"]

(* The tail of the three constructors: both lists sorted, the context set  *)
(* and propagated, the schema checked under STRICT.                        *)
Construct(op, g, ls, ctx, p) ==
    IF \/ \E k \in Kinds : ~Comparable(ls[k])
       \/ BadContext(ctx)
       \/ ctx.level = "STRICT" /\ ~check_metadata(g, ls)
    THEN Rejected(op)
    ELSE /\ global' = g
         /\ glevel' = ctx.level
         /\ level'  = ctx.level
         /\ path'   = p
         /\ \E sorted \in [Kinds -> UNION {sort_by_sample_start(ls[k]) : k \in Kinds}] :
               /\ \A k \in Kinds : sorted[k] \in sort_by_sample_start(ls[k])
               /\ lists' = sorted
         /\ Returns(op)
         /\ UNCHANGED files

(* Metadata md;  the first object, with every argument defaulted. *)
Init ==
    /\ global = DefaultGlobal
    /\ glevel = "STRICT"
    /\ lists  = [k \in Kinds |-> <<>>]
    /\ level  = "STRICT"
    /\ path   = NoPath
    /\ files \in [Paths -> {NoFile} \cup ForeignFiles]
    /\ last = [op |-> "construct", ok |-> TRUE]

(* md = Metadata(g, caps, anns, ctx) *)
ConstructFrom(g, ls, ctx) == Construct("construct", g, ls, ctx, NoPath)

(* md = Metadata(path, ctx).  The Global and each entry are first built    *)
(* from their JSON over the defaults (a missing start becomes 0, a missing *)
(* key of Global its default) and under the default context, STRICT,       *)
(* whatever ctx the caller asks for.                                       *)
WithDefaults(item) == IF item.start = NoStart THEN [item EXCEPT !.start = 0] ELSE item
DefaultKey(q) == IF q = "absent" THEN "valid" ELSE q

(* Fault: default_data and value_or disagree. *)
GlobalWithDefaults_OtherDefault(g) ==
    [ checked   |-> DefaultKey(g.checked),
      unchecked |-> DefaultKey(g.unchecked),
      defaulted |-> DefaultKey(g.defaulted) ]

GlobalWithDefaults(g) ==
    [ checked   |-> DefaultKey(g.checked),
      unchecked |-> DefaultKey(g.unchecked),
      defaulted |-> IF g.defaulted = "absent" THEN "default" ELSE g.defaulted ]

ListsWithDefaults(ls) ==
    [k \in Kinds |-> [i \in 1..Len(ls[k]) |-> WithDefaults(ls[k][i])]]

Loadable(c) ==
    /\ check_global(GlobalWithDefaults(c.global))
    /\ \A k \in Kinds : \A i \in 1..Len(c.lists[k]) : check_item(WithDefaults(c.lists[k][i]))

Load(p, ctx) ==
    IF files[p] \in {NoFile, Torn} \/ ~Loadable(files[p])
    THEN Rejected("load")
    ELSE Construct("load", GlobalWithDefaults(files[p].global),
                   ListsWithDefaults(files[p].lists), ctx, p)
-----------------------------------------------------------------------------
(* Fault: no check under STRICT. *)
AddItem_Unchecked(k, item) ==
    /\ Len(lists[k]) < MaxLen
    /\ IF insert_throws(lists[k], item)
       THEN Rejected("add")
       ELSE /\ \E s \in insert_sorted(lists[k], item) : lists' = [lists EXCEPT ![k] = s]
            /\ Returns("add")
            /\ UNCHANGED <<global, glevel, level, path, files>>

(* add_capture, add_annotation *)
AddItem(k, item) ==
    /\ Len(lists[k]) < MaxLen
    /\ IF \/ level = "STRICT" /\ ~check_item(item)
          \/ insert_throws(lists[k], item)
       THEN Rejected("add")
       ELSE /\ \E s \in insert_sorted(lists[k], item) : lists' = [lists EXCEPT ![k] = s]
            /\ Returns("add")
            /\ UNCHANGED <<global, glevel, level, path, files>>

(* remove_capture, remove_annotation *)
RemoveItem(k, i) ==
    IF i > Len(lists[k])
    THEN Rejected("remove")
    ELSE /\ lists' = [lists EXCEPT ![k] = RemoveAt(@, i)]
         /\ Returns("remove")
         /\ UNCHANGED <<global, glevel, level, path, files>>

(* Fault: the old entry is erased before the new one is checked. *)
UpdateItem_EraseFirst(k, i, item) ==
    LET rest == RemoveAt(lists[k], i) IN
    IF i > Len(lists[k])
    THEN Rejected("update")
    ELSE /\ IF (level = "STRICT" /\ ~check_item(item)) \/ insert_throws(rest, item)
            THEN lists' = [lists EXCEPT ![k] = rest] /\ Throws("update")
            ELSE /\ \E s \in insert_sorted(rest, item) : lists' = [lists EXCEPT ![k] = s]
                 /\ Returns("update")
         /\ UNCHANGED <<global, glevel, level, path, files>>

(* update_capture, update_annotation: the old entry is erased before the   *)
(* new one is inserted, so a comparator that throws loses it.              *)
UpdateItem(k, i, item) ==
    LET rest == RemoveAt(lists[k], i) IN
    IF i > Len(lists[k]) \/ (level = "STRICT" /\ ~check_item(item))
    THEN Rejected("update")
    ELSE /\ IF insert_throws(rest, item)
            THEN lists' = [lists EXCEPT ![k] = rest] /\ Throws("update")
            ELSE /\ \E s \in insert_sorted(rest, item) : lists' = [lists EXCEPT ![k] = s]
                 /\ Returns("update")
         /\ UNCHANGED <<global, glevel, level, path, files>>

SetValidationContext(ctx) ==
    IF BadContext(ctx)
    THEN Rejected("context")
    ELSE /\ level' = ctx.level
         /\ glevel' = ctx.level
         /\ Returns("context")
         /\ UNCHANGED <<global, lists, path, files>>

(* A typed setter of a checked key of Global (set_datatype, or             *)
(* set_num_channels) validates under STRICT; the other setters,            *)
(* set_version among them, set(), merge_patch() and operator[] store       *)
(* whatever they are given.                                                *)
SetChecked(key, q) ==
    IF glevel = "STRICT" /\ ~FieldsPass(q)
    THEN Rejected("setter")
    ELSE /\ global' = [global EXCEPT ![key] = q]
         /\ Returns("setter")
         /\ UNCHANGED <<glevel, lists, level, path, files>>

SetUnchecked(g) ==
    /\ global' = g
    /\ Returns("raw")
    /\ UNCHANGED <<glevel, lists, level, path, files>>

(* md.global = Global(json, ctx): the new Global brings its own context.   *)
ReplaceGlobal(g, ctx) ==
    IF BadContext(ctx) \/ (ctx.level = "STRICT" /\ ~check_global(g))
    THEN Rejected("global")
    ELSE /\ global' = g
         /\ glevel' = ctx.level
         /\ Returns("global")
         /\ UNCHANGED <<lists, level, path, files>>

(* Fault: any extension is accepted. *)
SaveRefused_AnyExtension(p, overwrite) ==
    \/ files[p] # NoFile /\ ~overwrite
    \/ level \in {"STRICT", "LAZY"} /\ ~check_metadata(global, lists)

(* Fault: the schema is checked under STRICT only, not deferred to save.   *)
SaveRefused_NoLazyCheck(p, overwrite) ==
    \/ p \notin MetaPaths
    \/ files[p] # NoFile /\ ~overwrite
    \/ level = "STRICT" /\ ~check_metadata(global, lists)

(* save: refused for a wrong extension, for an existing file unless        *)
(* overwrite, and when the schema check fails under STRICT or LAZY.  Then  *)
(* the file is truncated by opening it and written; a failure to open is   *)
(* reported, a failure to write is not.                                    *)
SaveRefused(p, overwrite) ==
    \/ p \notin MetaPaths
    \/ files[p] # NoFile /\ ~overwrite
    \/ level \in {"STRICT", "LAZY"} /\ ~check_metadata(global, lists)

Save(p, overwrite) ==
    IF SaveRefused(p, overwrite)
    THEN Rejected("save")
    ELSE \/ Rejected("save")       \* the file could not be opened
         \/ \E f \in {Torn, [global |-> global, lists |-> lists, savedAt |-> level]} :
               /\ files' = [files EXCEPT ![p] = f]
               /\ Returns("save")
               /\ UNCHANGED object
-----------------------------------------------------------------------------
Contexts == ContextType \ {c \in ContextType : c.level = "NONE" /\ c.validator}

EditLists ==
    \E k \in Kinds :
        \/ \E item \in Items : AddItem(k, item)
        \/ \E i \in 1..(MaxLen + 1) : RemoveItem(k, i)
        \/ \E i \in 1..(MaxLen + 1), item \in Items : UpdateItem(k, i, item)

EditGlobal ==
    \/ \E key \in {"checked", "defaulted"} :
          \E q \in {g[key] : g \in Globals} \ {"absent"} : SetChecked(key, q)
    \/ \E g \in Globals : SetUnchecked(g)
    \/ \E g \in Globals, ctx \in Contexts : ReplaceGlobal(g, ctx)

Next ==
    \/ EditLists
    \/ EditGlobal
    \/ \E ctx \in Contexts : SetValidationContext(ctx)
    \/ \E g \in Globals, ls \in ArgLists, ctx \in Contexts : ConstructFrom(g, ls, ctx)
    \/ \E p \in Paths, ctx \in Contexts : Load(p, ctx)
    \/ \E p \in Paths, overwrite \in BOOLEAN : Save(p, overwrite)

Spec == Init /\ [][Next]_vars
-----------------------------------------------------------------------------
(* Every variable has the shape the code gives it, and save() has written  *)
(* nothing at a path without its extension.                                *)
TypeOK ==
    /\ global \in GlobalType
    /\ glevel \in Levels
    /\ lists \in Lists
    /\ level \in Levels
    /\ path \in Paths \cup {NoPath}
    /\ files \in [Paths -> Content \cup {NoFile, Torn}]
    /\ \A p \in Paths \ MetaPaths : files[p] \in {NoFile} \cup ForeignFiles
    /\ last.ok \in BOOLEAN

(* The lists are always sorted by sample start, as metadata.h:46 promises  *)
(* and as find_capture_containing and insert_sorted's binary search assume *)
(* - through unsorted input, ties, deferred validation, and calls that     *)
(* throw half way.  An entry without a start can only be alone in a list:  *)
(* with a second entry the comparator of the binary search would throw.    *)
ListsOrdered == \A k \in Kinds : Ordered(lists[k])

Saved(p) == files[p] \notin {NoFile, Torn} /\ files[p].savedAt # "foreign"

(* A document written by save() is sorted, which the schema cannot check   *)
(* ("captures MUST be sorted"), and, unless the level was NONE, meets the  *)
(* schema, whatever was done to the object through unchecked setters.      *)
SavedFilesConform ==
    \A p \in Paths : Saved(p) =>
        /\ \A k \in Kinds : Ordered(files[p].lists[k])
        /\ files[p].savedAt # "NONE" => check_metadata(files[p].global, files[p].lists)

(* Under STRICT a call that throws has changed nothing, update_* included: *)
(* its checks come before the erase, and what they admit can be compared.  *)
StrictCallsAreAtomic ==
    [][level = "STRICT" /\ ~last'.ok => UNCHANGED <<object, files>>]_vars

(* What the getters of a Global say: an optional key that is absent reads  *)
(* as its default.                                                         *)
Reads(g) == [g EXCEPT !.defaulted = ValueOrDefault(@)]

(* Loading a file that save() validated gives back the lists exactly,      *)
(* entry by entry: the defaults add nothing and the sort moves nothing,    *)
(* equal sample starts included.  Its Global may get keys that a null had  *)
(* taken out (json_base.cpp:32), but no getter of it answers differently.  *)
ReloadRestores ==
    [][\A p \in Paths :
         last' = [op |-> "load", ok |-> TRUE] /\ path' = p /\ Saved(p) /\ files[p].savedAt # "NONE"
         => Reads(global') = Reads(files[p].global) /\ lists' = files[p].lists]_vars

(* The document that save() would write now. *)
Document == [global |-> global, lists |-> lists, savedAt |-> level]

(* A STRICT object whose document can be loaded back stays one whose       *)
(* document can be loaded back, through every call but the unchecked       *)
(* setters and the constructor from parts, which runs no per-field check.  *)
StrictKeepsLoadable ==
    [][/\ {level, glevel, level', glevel'} = {"STRICT"}
       /\ last'.op \notin {"raw", "construct"}
       /\ Loadable(Document)
       => Loadable(Document')]_vars
-----------------------------------------------------------------------------
(* What the documentation says and the code does not do.                   *)

(* metadata.h:61: an update "replaces the element at index": the list is   *)
(* as long after the call as before.                                       *)
UpdateReplaces ==
    [][last'.op = "update" => \A k \in Kinds : Len(lists'[k]) = Len(lists[k])]_vars

(* metadata.h:62 "to edit in place": when no entry's start changes, an     *)
(* update leaves the entries where they are.                               *)
Places(s)      == [i \in 1..Len(s) |-> <<s[i].tag, s[i].start>>]
AllDifferent(s) == IsInjective(Places(s))
EditKeepsPlace ==
    [][last' = [op |-> "update", ok |-> TRUE] =>
         \A k \in Kinds :
            AllDifferent(lists[k]) /\ ToSet(Places(lists'[k])) = ToSet(Places(lists[k]))
            => Places(lists'[k]) = Places(lists[k])]_vars

(* test_metadata.cpp:119 "Metadata::save writes a reloadable .sigmf-meta   *)
(* file": what a STRICT object saved can be loaded.                        *)
SavedFilesReload ==
    \A p \in Paths : Saved(p) /\ files[p].savedAt = "STRICT" => Loadable(files[p])

(* TODO.md:125 "None - never": what was saved with nothing enforced can be *)
(* loaded with nothing enforced.  Only the order of the lists is in its way *)
(* when a start is missing.  The entries are checked under STRICT whatever *)
(* context the caller of load passes in.                                   *)
NoneEnforcesNothing ==
    \A p \in Paths :
        /\ Saved(p) /\ files[p].savedAt = "NONE"
        /\ \A k \in Kinds : Comparable(files[p].lists[k])
        => Loadable(files[p])
=============================================================================
