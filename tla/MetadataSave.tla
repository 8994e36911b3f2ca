---------------------------- MODULE MetadataSave ----------------------------
(***************************************************************************)
(* Metadata::save step by step, for several programs that save to the same *)
(* disk.  Each saver holds one Metadata object; its save() may throw, may  *)
(* lose a write without noticing, and its process may be killed between    *)
(* any two steps.                                                          *)
(*                                                                         *)
(* A document reaches the file block by block, as the stream's buffer      *)
(* fills; the last block is flushed when the stream is destroyed.  Each    *)
(* stream has a position of its own.                                       *)
(***************************************************************************)
EXTENDS Integers, Sequences, SequencesExt

CONSTANTS
    Savers,     \* the programs
    Objects,    \* the Metadata objects they may hold
    Blocks,     \* the number of blocks of each object's document
    Conforming, \* the objects whose document meets the schema
    LevelOf,    \* the validation level of each object
    Paths, MetaPaths,
    NoPath, NoFile,
    Hole,       \* a block that nobody wrote, before one that somebody did
    Torn        \* what Metadata calls a file that holds no whole document

ASSUME SaveAssumption ==
    /\ Blocks \in [Objects -> Nat \ {0}]
    /\ Conforming \subseteq Objects
    /\ LevelOf \in [Objects -> {"STRICT", "LAZY", "NONE"}]
    /\ MetaPaths \subseteq Paths
    /\ NoPath \notin Paths
    /\ NoFile \notin Seq((Objects \X Nat) \cup {Hole})
    /\ Savers # {}

VARIABLES
    object,    \* the object each saver holds
    pc,        \* "idle", "exists", "check", "open", "write" or "killed"
    file_path, \* the arguments of the running call
    overwrite,
    pos,       \* the blocks written so far
    last,      \* how each saver's last call ended
    files,     \* the disk: NoFile or a sequence of blocks for each path
    before,    \* history: what was at file_path when the saver opened it
    alone      \* history: no other saver has had the file open meanwhile

vars == <<object, pc, file_path, overwrite, pos, last, files, before, alone>>

Document(o) == [b \in 1..Blocks[o] |-> <<o, b>>]
-----------------------------------------------------------------------------
Init ==
    /\ object \in [Savers -> Objects]
    /\ pc = [s \in Savers |-> "idle"]
    /\ file_path = [s \in Savers |-> NoPath]
    /\ overwrite = [s \in Savers |-> FALSE]
    /\ pos = [s \in Savers |-> 0]
    /\ last = [s \in Savers |-> "none"]
    /\ files \in [Paths -> {NoFile} \cup {Document(o) : o \in Objects}]
    /\ before = [s \in Savers |-> NoFile]
    /\ alone = [s \in Savers |-> FALSE]

GoTo(s, next) ==
    /\ pc' = [pc EXCEPT ![s] = next]
    /\ UNCHANGED <<object, file_path, overwrite, pos, last, files, before, alone>>

(* The call is over, and with it its arguments and its stream. *)
Leave(s, next) ==
    /\ pc' = [pc EXCEPT ![s] = next]
    /\ file_path' = [file_path EXCEPT ![s] = NoPath]
    /\ overwrite' = [overwrite EXCEPT ![s] = FALSE]
    /\ pos' = [pos EXCEPT ![s] = 0]
    /\ before' = [before EXCEPT ![s] = NoFile]
    /\ alone' = [alone EXCEPT ![s] = FALSE]
    /\ UNCHANGED <<object, files>>

End(s, outcome) == Leave(s, "idle") /\ last' = [last EXCEPT ![s] = outcome]

(* Fault: the extension is not looked at. *)
Call_AnyExtension(s, p, ow) ==
    /\ pc[s] = "idle"
    /\ pc' = [pc EXCEPT ![s] = "exists"]
    /\ file_path' = [file_path EXCEPT ![s] = p]
    /\ overwrite' = [overwrite EXCEPT ![s] = ow]
    /\ UNCHANGED <<object, pos, last, files, before, alone>>

(* save() is called and looks at the extension. *)
Call(s, p, ow) ==
    /\ pc[s] = "idle"
    /\ IF p \in MetaPaths
       THEN /\ pc' = [pc EXCEPT ![s] = "exists"]
            /\ file_path' = [file_path EXCEPT ![s] = p]
            /\ overwrite' = [overwrite EXCEPT ![s] = ow]
            /\ UNCHANGED <<object, pos, last, files, before, alone>>
       ELSE End(s, "threw")

(* Fault: the test is the wrong way round. *)
CheckExists_Inverted(s) ==
    /\ pc[s] = "exists"
    /\ IF files[file_path[s]] # NoFile /\ overwrite[s] THEN End(s, "threw") ELSE GoTo(s, "check")

(* We don't want to overwrite good data. *)
CheckExists(s) ==
    /\ pc[s] = "exists"
    /\ IF files[file_path[s]] # NoFile /\ ~overwrite[s] THEN End(s, "threw") ELSE GoTo(s, "check")

(* The final validation against the schema. *)
Check(s) ==
    /\ pc[s] = "check"
    /\ IF LevelOf[object[s]] \in {"STRICT", "LAZY"} /\ object[s] \notin Conforming
       THEN End(s, "threw")
       ELSE GoTo(s, "open")

Writers(p) == { s \in Savers : pc[s] = "write" /\ file_path[s] = p }

(* Fault: the file is opened without truncating it. *)
Truncated_Kept(f) == IF f = NoFile THEN <<>> ELSE f

(* Opening an ofstream empties the file. *)
Truncated(f) == <<>>

Open(s) ==
    LET p == file_path[s] IN
    /\ pc[s] = "open"
    /\ \/ End(s, "threw")    \* the file could not be opened
       \/ /\ files' = [files EXCEPT ![p] = Truncated(@)]
          /\ pc' = [pc EXCEPT ![s] = "write"]
          /\ pos' = [pos EXCEPT ![s] = 0]
          /\ before' = [before EXCEPT ![s] = files[p]]
          /\ alone' = [t \in Savers |->
                         IF t = s THEN Writers(p) = {} ELSE alone[t] /\ t \notin Writers(p)]
          /\ UNCHANGED <<object, file_path, overwrite, last>>

(* File f after block b was written at position n. *)
WrittenAt(f, n, b) ==
    [k \in 1..(IF n > Len(f) THEN n ELSE Len(f)) |->
        IF k = n THEN b ELSE IF k <= Len(f) THEN f[k] ELSE Hole]

(* One block reaches the file. *)
Write(s) ==
    LET p == file_path[s]
        n == pos[s] + 1
    IN  /\ pc[s] = "write"
        /\ pos[s] < Blocks[object[s]]
        /\ files' = [files EXCEPT ![p] = WrittenAt(@, n, <<object[s], n>>)]
        /\ pos' = [pos EXCEPT ![s] = n]
        /\ UNCHANGED <<object, pc, file_path, overwrite, last, before, alone>>

(* The stream is destroyed after everything was written. *)
Close(s) ==
    /\ pc[s] = "write"
    /\ pos[s] = Blocks[object[s]]
    /\ End(s, "returned")

(* A write failed: the stream goes bad and swallows the rest.  Nobody asks *)
(* for its state, save() returns as ever.                                  *)
LoseRest(s) ==
    /\ pc[s] = "write"
    /\ pos[s] < Blocks[object[s]]
    /\ End(s, "returned")

(* The process is killed in the middle of save(); blocks still in memory   *)
(* are lost.                                                               *)
Kill(s) ==
    /\ pc[s] \in {"exists", "check", "open", "write"}
    /\ Leave(s, "killed")
    /\ UNCHANGED last

(* The program is started anew with some object. *)
Restart(s, o) ==
    /\ pc[s] = "killed"
    /\ object' = [object EXCEPT ![s] = o]
    /\ pc' = [pc EXCEPT ![s] = "idle"]
    /\ UNCHANGED <<file_path, overwrite, pos, last, files, before, alone>>

Step(s) == CheckExists(s) \/ Check(s) \/ Open(s) \/ Write(s) \/ Close(s) \/ LoseRest(s)

SaveNext ==
    \/ \E s \in Savers, p \in Paths, ow \in BOOLEAN : Call(s, p, ow)
    \/ \E s \in Savers : Step(s)

Next ==
    \/ SaveNext
    \/ \E s \in Savers : Kill(s) \/ \E o \in Objects : Restart(s, o)

Spec == Init /\ [][Next]_vars
-----------------------------------------------------------------------------
Block == (Objects \X Nat) \cup {Hole}

(* The savers and the disk keep their types: only save() writes, and only  *)
(* to paths with its extension.                                            *)
TypeOK ==
    /\ object \in [Savers -> Objects]
    /\ pc \in [Savers -> {"idle", "exists", "check", "open", "write", "killed"}]
    /\ file_path \in [Savers -> Paths \cup {NoPath}]
    /\ overwrite \in [Savers -> BOOLEAN]
    /\ pos \in [Savers -> Nat]
    /\ last \in [Savers -> {"none", "returned", "threw"}]
    /\ files \in [Paths -> Seq(Block) \cup {NoFile}]
    /\ before \in [Savers -> Seq(Block) \cup {NoFile}]
    /\ alone \in [Savers -> BOOLEAN]
    /\ \A s \in Savers :
          pc[s] \in {"exists", "check", "open", "write"} => file_path[s] \in MetaPaths

(* The file that one saver alone has open is, at every moment at which the *)
(* saver may be killed or lose a write, a beginning of its document: no    *)
(* tail of a longer document that was there, no block of an earlier save   *)
(* that was cut short.                                                     *)
SoleWriterPrefix ==
    \A s \in Savers :
        pc[s] = "write" /\ alone[s] =>
            files[file_path[s]] = SubSeq(Document(object[s]), 1, pos[s])
-----------------------------------------------------------------------------
(* The atomic action of Metadata that a step of one saver is, with the     *)
(* arguments of its call: until save() ends, the file counts as what it    *)
(* was before.                                                             *)
Saver == CHOOSE s \in Savers : TRUE

MetaDocument(o) ==
    [ global  |-> [ checked   |-> IF o \in Conforming THEN "valid" ELSE "bad",
                    unchecked |-> "valid",
                    defaulted |-> "default" ],
      lists   |-> [k \in {} |-> <<>>],
      savedAt |-> LevelOf[o] ]

MetaFile(f) ==
    IF f = NoFile THEN NoFile
    ELSE IF \E o \in Objects : f = Document(o)
         THEN MetaDocument(CHOOSE o \in Objects : f = Document(o))
         ELSE Torn

MetaFiles ==
    [p \in Paths |->
        IF pc[Saver] = "write" /\ file_path[Saver] = p
        THEN MetaFile(before[Saver])
        ELSE MetaFile(files[p])]

Meta == INSTANCE Metadata WITH
            Kinds <- {}, Tags <- {}, Items <- {}, Globals <- {}, ArgLists <- {},
            ForeignFiles <- {}, MaxLen <- 0, NoStart <- "none",
            global <- MetaDocument(object[Saver]).global,
            glevel <- LevelOf[object[Saver]],
            lists  <- MetaDocument(object[Saver]).lists,
            level  <- LevelOf[object[Saver]],
            path   <- NoPath,
            files  <- MetaFiles,
            last   <- [op |-> "save", ok |-> last[Saver] # "threw"]

StepOfMetadata ==
    IF pc[Saver] = "idle"
    THEN \E p \in Paths \ MetaPaths, ow \in BOOLEAN : Meta!Save(p, ow)
    ELSE Meta!Save(file_path[Saver], overwrite[Saver])
-----------------------------------------------------------------------------
(* What comments and tests say and the code does not do.                   *)

(* metadata.cpp:315 "we don't want to overwrite good data! a user should   *)
(* have to explicitly overwrite metadata": no save truncates a whole       *)
(* document unless it was told to overwrite.                               *)
OverwritesOnlyWhenTold ==
    [][\A s \in Savers :
         pc[s] = "open" /\ pc'[s] = "write" /\ ~overwrite[s] =>
             \A o \in Objects : files[file_path[s]] # Document(o)]_vars

(* test_metadata.cpp:119 "Metadata::save writes a reloadable .sigmf-meta   *)
(* file": when a save that nobody interfered with returns, its document    *)
(* is there.                                                               *)
ReturnedSaveIsWritten ==
    [][\A s \in Savers :
         pc[s] = "write" /\ pc'[s] = "idle" /\ alone[s] =>
             files[file_path[s]] = Document(object[s])]_vars
=============================================================================
