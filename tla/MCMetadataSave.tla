--------------------------- MODULE MCMetadataSave ---------------------------
(***************************************************************************)
(* Instances of MetadataSave for TLC: a short and a long document, and one *)
(* that does not meet the schema.  Either all savers save the first two    *)
(* to one path, or one alone saves any of them anywhere.                   *)
(***************************************************************************)
EXTENDS MetadataSave

SaveBlocks == [o \in Objects |-> IF o = "long" THEN 3 ELSE 1]
SaveLevels == [o \in Objects |-> IF o = "long" THEN "NONE" ELSE IF o = "bad" THEN "LAZY" ELSE "STRICT"]

VARIABLE solo  \* one saver alone

Shared == {"short", "long"}

MCInit ==
    /\ Init
    /\ solo \in BOOLEAN
    /\ IF solo
       THEN \A s \in Savers \ {Saver} : object[s] = "short"
       ELSE /\ \A s \in Savers : object[s] \in Shared
            /\ \A p \in Paths : files[p] # Document("bad")
            /\ \A p \in Paths \ MetaPaths : files[p] = NoFile

Active == IF solo THEN {Saver} ELSE Savers
Held   == IF solo THEN Objects ELSE Shared

MCNext ==
    /\ UNCHANGED solo
    /\ \E s \in Active :
          \/ \E p \in Paths, ow \in BOOLEAN : Call(s, p, ow)
          \/ Step(s)
          \/ Kill(s)
          \/ \E o \in Held : Restart(s, o)

MCSpec == MCInit /\ [][MCNext]_<<vars, solo>>

(* Every step of a save that is alone, short of being killed, is a step of *)
(* Metadata's Save, or none: it throws in the same cases, and what it      *)
(* leaves at the path is its document, the old one, or torn if writes were *)
(* lost.                                                                   *)
SoloSavesAtomically ==
    [][solo /\ pc'[Saver] # "killed" => StepOfMetadata]_<<MetaFiles, last>>
=============================================================================
