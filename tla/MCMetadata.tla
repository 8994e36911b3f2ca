----------------------------- MODULE MCMetadata -----------------------------
(* Instances of Metadata for TLC. *)
EXTENDS Metadata

Entry(tag, start, quality) == [tag |-> tag, start |-> start, quality |-> quality]
Key(c, u, d) == [checked |-> c, unchecked |-> u, defaulted |-> d]
File(g, ls) == [global |-> g, lists |-> ls, savedAt |-> "foreign"]

(* One list, edited in every way: ties between distinguishable entries,    *)
(* entries without a start, and entries that each kind of check refuses.   *)
ListItems ==
    { Entry("a", 0, "valid"), Entry("b", 0, "valid"), Entry("a", 1, "valid"),
      Entry("b", 1, "schemaOnly"), Entry("a", 2, "fieldsOnly"),
      Entry("b", -1, "valid"), Entry("a", NoStart, "valid") }
ListArgs ==
    { [captures |-> <<>>],
      [captures |-> <<Entry("a", 1, "valid"), Entry("a", 0, "valid"), Entry("b", 0, "valid")>>],
      [captures |-> <<Entry("a", 1, "valid"), Entry("a", NoStart, "valid")>>],
      [captures |-> <<Entry("a", NoStart, "valid")>>] }
ListGlobals == { Key("valid", "valid", "default") }

(* Few edits, every level, a disk with a foreign document that is unsorted *)
(* and incomplete: the required keys of Global and one start are missing.  *)
FileItems ==
    { Entry("a", 0, "valid"), Entry("b", 0, "valid"), Entry("b", NoStart, "valid") }
FileArgs ==
    { [captures |-> <<Entry("a", 1, "schemaOnly"), Entry("a", 0, "valid")>>] }
FileGlobals ==
    { Key("valid", "valid", "default"), Key("schemaOnly", "valid", "absent") }
ForeignDocs ==
    { File(Key("absent", "valid", "absent"),
           [captures |-> <<Entry("a", 1, "valid"), Entry("b", NoStart, "valid"), Entry("a", 0, "valid")>>]) }

(* Both lists at once, loaded, constructed and edited under one level.     *)
TwoLists ==
    { [captures |-> <<Entry("a", 1, "valid"), Entry("a", 0, "valid")>>,
       annotations |-> <<Entry("b", 0, "valid"), Entry("a", 0, "valid")>>] }

(* No action reads last: two states that differ in it have the same future.*)
ObjectAndFiles == <<object, files>>
=============================================================================
