------------------------- MODULE MetadataSaveProofs -------------------------
(* What is proved of MetadataSave for any number of savers, whatever they  *)
(* save, lose, and whenever they are killed.                               *)
EXTENDS MCMetadataSave, SequenceTheorems, TLAPS

Running(s) == pc[s] \in {"exists", "check", "open", "write"}

(* TypeOK says that a running call has a path with the extension.  A saver *)
(* that counts as alone is the only one that has its file open: who opens  *)
(* it later takes that away.                                               *)
NobodyElse ==
    \A s, t \in Savers :
        pc[s] = "write" /\ pc[t] = "write" /\ alone[s] /\ file_path[s] = file_path[t] => s = t

PositionInDocument ==
    \A s \in Savers : pc[s] = "write" => pos[s] <= Blocks[object[s]]

OpenIsFile == \A s \in Savers : pc[s] = "write" => files[file_path[s]] \in Seq(Block)

IInv == TypeOK /\ NobodyElse /\ PositionInDocument /\ OpenIsFile /\ SoleWriterPrefix

LEMMA DocumentType ==
    ASSUME NEW o \in Objects
    PROVE  /\ Blocks[o] \in Nat \ {0}
           /\ Document(o) \in Seq(Block)
           /\ Len(Document(o)) = Blocks[o]
           /\ \A b \in 1..Blocks[o] : Document(o)[b] = <<o, b>>
<1>1. Blocks[o] \in Nat \ {0}
  BY SaveAssumption
<1>2. \A b \in 1..Blocks[o] : <<o, b>> \in Block
  BY <1>1 DEF Block
<1>3. Document(o) \in [1..Blocks[o] -> Block]
  BY <1>2 DEF Document
<1>4. Document(o) \in Seq(Block) /\ Len(Document(o)) = Blocks[o]
  BY <1>1, <1>3
<1> QED
  BY <1>1, <1>4 DEF Document

LEMMA InitIInv == Init => IInv
<1> SUFFICES ASSUME Init PROVE IInv
  OBVIOUS
<1>1. files \in [Paths -> Seq(Block) \cup {NoFile}]
  <2>1. {NoFile} \cup {Document(o) : o \in Objects} \subseteq Seq(Block) \cup {NoFile}
    BY DocumentType
  <2> QED
    BY <2>1 DEF Init
<1>2. TypeOK
  BY <1>1 DEF Init, TypeOK
<1> QED
  BY <1>2 DEF Init, IInv, NobodyElse, PositionInDocument, OpenIsFile, SoleWriterPrefix

(* A call that goes on without touching the disk, or ends, disturbs none   *)
(* of the others.                                                          *)
LEMMA LeaveIInv ==
    ASSUME IInv, NEW s \in Savers, NEW next \in {"idle", "killed"}, Leave(s, next),
           last' \in [Savers -> {"none", "returned", "threw"}]
    PROVE  IInv'
<1>1. TypeOK'
  BY DEF IInv, TypeOK, Leave
<1>2. \A t \in Savers : t # s =>
         /\ pc'[t] = pc[t] /\ pos'[t] = pos[t] /\ alone'[t] = alone[t] /\ file_path'[t] = file_path[t]
  BY DEF IInv, TypeOK, Leave
<1>3. pc'[s] # "write" /\ object' = object /\ files' = files
  BY DEF IInv, TypeOK, Leave
<1>4. NobodyElse'
  BY <1>2, <1>3 DEF IInv, NobodyElse
<1>5. PositionInDocument'
  BY <1>2, <1>3 DEF IInv, PositionInDocument
<1>6. OpenIsFile'
  BY <1>2, <1>3 DEF IInv, OpenIsFile, Block
<1>7. SoleWriterPrefix'
  <2> SUFFICES ASSUME NEW t \in Savers, pc'[t] = "write", alone'[t]
               PROVE  files[file_path'[t]] = SubSeq(Document(object[t]), 1, pos'[t])
    BY <1>3 DEF SoleWriterPrefix, Document
  <2>1. t # s
    BY <1>3
  <2>2. pc[t] = "write" /\ alone[t] /\ file_path'[t] = file_path[t] /\ pos'[t] = pos[t]
    BY <1>2, <2>1
  <2> QED
    BY <2>2 DEF IInv, SoleWriterPrefix
<1> QED
  BY <1>1, <1>4, <1>5, <1>6, <1>7 DEF IInv

LEMMA GoToIInv ==
    ASSUME IInv, NEW s \in Savers, Running(s), NEW next \in {"check", "open"}, GoTo(s, next)
    PROVE  IInv'
<1>1. TypeOK'
  BY DEF IInv, TypeOK, GoTo, Running
<1>2. \A t \in Savers : pc'[t] = "write" => pc[t] = "write"
  BY DEF IInv, TypeOK, GoTo
<1>3. UNCHANGED <<object, file_path, pos, files, alone>>
  BY DEF GoTo
<1>4. NobodyElse'
  BY <1>2, <1>3 DEF IInv, NobodyElse
<1>5. PositionInDocument' /\ OpenIsFile'
  BY <1>2, <1>3 DEF IInv, PositionInDocument, OpenIsFile, Block
<1>6. SoleWriterPrefix'
  BY <1>2, <1>3 DEF IInv, SoleWriterPrefix, Document
<1> QED
  BY <1>1, <1>4, <1>5, <1>6 DEF IInv

LEMMA EndIInv ==
    ASSUME IInv, NEW s \in Savers, NEW outcome \in {"returned", "threw"}, End(s, outcome)
    PROVE  IInv'
<1>1. last' \in [Savers -> {"none", "returned", "threw"}]
  BY DEF IInv, TypeOK, End
<1> QED
  BY <1>1, LeaveIInv DEF End

LEMMA CallIInv ==
    ASSUME IInv, NEW s \in Savers, NEW p \in Paths, NEW ow \in BOOLEAN, Call(s, p, ow)
    PROVE  IInv'
<1>1. CASE p \in MetaPaths
  <2>1. /\ pc' = [pc EXCEPT ![s] = "exists"] /\ file_path' = [file_path EXCEPT ![s] = p]
        /\ overwrite' = [overwrite EXCEPT ![s] = ow]
        /\ UNCHANGED <<object, pos, last, files, before, alone>>
    BY <1>1 DEF Call
  <2>2. TypeOK'
    BY <1>1, <2>1 DEF IInv, TypeOK
  <2>3. \A t \in Savers : pc'[t] = "write" => pc[t] = "write" /\ file_path'[t] = file_path[t]
    BY <2>1 DEF IInv, TypeOK
  <2>4. NobodyElse'
    BY <2>1, <2>3 DEF IInv, NobodyElse
  <2>5. PositionInDocument' /\ OpenIsFile'
    BY <2>1, <2>3 DEF IInv, PositionInDocument, OpenIsFile, Block
  <2>6. SoleWriterPrefix'
    BY <2>1, <2>3 DEF IInv, SoleWriterPrefix, Document
  <2> QED
    BY <2>2, <2>4, <2>5, <2>6 DEF IInv
<1>2. CASE p \notin MetaPaths
  BY <1>2, EndIInv DEF Call
<1> QED
  BY <1>1, <1>2

LEMMA OpenIInv ==
    ASSUME IInv, NEW s \in Savers, Open(s)
    PROVE  IInv'
<1> DEFINE p == file_path[s]
<1>1. CASE End(s, "threw")
  BY <1>1, EndIInv
<1>2. CASE /\ files' = [files EXCEPT ![p] = Truncated(@)]
           /\ pc' = [pc EXCEPT ![s] = "write"]
           /\ pos' = [pos EXCEPT ![s] = 0]
           /\ before' = [before EXCEPT ![s] = files[p]]
           /\ alone' = [t \in Savers |->
                          IF t = s THEN Writers(p) = {} ELSE alone[t] /\ t \notin Writers(p)]
           /\ UNCHANGED <<object, file_path, overwrite, last>>
  <2>1. p \in Paths /\ pc[s] = "open" /\ p \in MetaPaths
    BY SaveAssumption DEF Open, IInv, TypeOK
  <2>2. /\ files'[p] = <<>> /\ \A q \in Paths : q # p => files'[q] = files[q]
        /\ files' \in [Paths -> Seq(Block) \cup {NoFile}]
    BY <1>2, <2>1 DEF IInv, TypeOK, Truncated
  <2>3. /\ pc'[s] = "write" /\ pos'[s] = 0
        /\ \A t \in Savers : t # s => pc'[t] = pc[t] /\ pos'[t] = pos[t]
    BY <1>2 DEF IInv, TypeOK
  <2>4. /\ alone'[s] <=> \A t \in Savers : ~(pc[t] = "write" /\ file_path[t] = p)
        /\ \A t \in Savers : t # s =>
              (alone'[t] <=> alone[t] /\ ~(pc[t] = "write" /\ file_path[t] = p))
    BY <1>2 DEF Writers
  <2>5. TypeOK'
    <3>1. alone' \in [Savers -> BOOLEAN]
      BY <1>2 DEF IInv, TypeOK
    <3>2. before' \in [Savers -> Seq(Block) \cup {NoFile}]
      BY <1>2, <2>1 DEF IInv, TypeOK
    <3> QED
      BY <1>2, <2>1, <2>2, <3>1, <3>2 DEF IInv, TypeOK
  <2>6. NobodyElse'
    BY <1>2, <2>3, <2>4 DEF IInv, NobodyElse
  <2>7. PositionInDocument'
    <3>1. Blocks[object[s]] \in Nat
      BY DocumentType DEF IInv, TypeOK
    <3> QED
      BY <1>2, <2>3, <3>1 DEF IInv, PositionInDocument
  <2>8. OpenIsFile'
    <3> SUFFICES ASSUME NEW t \in Savers, pc'[t] = "write"
                 PROVE  files'[file_path[t]] \in Seq(Block)
      BY <1>2 DEF OpenIsFile, Block
    <3>1. CASE file_path[t] = p
      BY <2>2, <3>1, EmptySeq
    <3>2. CASE file_path[t] # p
      <4>1. pc[t] = "write" /\ file_path[t] \in Paths
        BY <2>3, <3>2, SaveAssumption DEF IInv, TypeOK
      <4> QED
        BY <2>2, <3>2, <4>1 DEF IInv, OpenIsFile
    <3> QED
      BY <3>1, <3>2
  <2>9. SoleWriterPrefix'
    <3> SUFFICES ASSUME NEW t \in Savers, pc'[t] = "write", alone'[t]
                 PROVE  files'[file_path[t]] = SubSeq(Document(object[t]), 1, pos'[t])
      BY <1>2 DEF SoleWriterPrefix, Document
    <3>1. CASE t = s
      <4>1. SubSeq(Document(object[s]), 1, 0) = <<>>
        BY DocumentType DEF IInv, TypeOK
      <4> QED
        BY <2>2, <2>3, <3>1, <4>1
    <3>2. CASE t # s
      <4>1. pc[t] = "write" /\ alone[t] /\ file_path[t] # p /\ pos'[t] = pos[t]
        BY <2>3, <2>4, <3>2
      <4>2. file_path[t] \in Paths
        BY <4>1, SaveAssumption DEF IInv, TypeOK
      <4> QED
        BY <2>2, <4>1, <4>2 DEF IInv, SoleWriterPrefix
    <3> QED
      BY <3>1, <3>2
  <2> QED
    BY <2>5, <2>6, <2>7, <2>8, <2>9 DEF IInv
<1> QED
  BY <1>1, <1>2 DEF Open

(* Writing the next block after the first n makes them the first n + 1.    *)
LEMMA NextBlock ==
    ASSUME NEW o \in Objects, NEW n \in Nat, n < Blocks[o]
    PROVE  WrittenAt(SubSeq(Document(o), 1, n), n + 1, <<o, n + 1>>)
           = SubSeq(Document(o), 1, n + 1)
<1> DEFINE D == Document(o)
           f == SubSeq(D, 1, n)
           g == SubSeq(D, 1, n + 1)
<1>1. /\ D \in Seq(Block) /\ Len(D) = Blocks[o] /\ Blocks[o] \in Nat
      /\ \A k \in 1..Blocks[o] : D[k] = <<o, k>>
  BY DocumentType
<1> HIDE DEF D
<1>2. f = [k \in 1..n |-> D[k]] /\ g = [k \in 1..(n + 1) |-> D[k]]
  BY <1>1
<1>3. /\ Len(f) = n /\ \A k \in 1..n : f[k] = <<o, k>>
      /\ g = [k \in 1..(n + 1) |-> D[k]]
      /\ \A k \in 1..(n + 1) : D[k] = <<o, k>>
  BY <1>1, <1>2
<1> HIDE DEF f, g
<1>4. WrittenAt(f, n + 1, <<o, n + 1>>)
      = [k \in 1..(n + 1) |-> IF k = n + 1 THEN <<o, n + 1>> ELSE IF k <= n THEN f[k] ELSE Hole]
  BY <1>3 DEF WrittenAt
<1>5. \A k \in 1..(n + 1) :
         (IF k = n + 1 THEN <<o, n + 1>> ELSE IF k <= n THEN f[k] ELSE Hole) = D[k]
  BY <1>3
<1> QED
  BY <1>3, <1>4, <1>5 DEF f, g, D

LEMMA WrittenAtType ==
    ASSUME NEW f \in Seq(Block), NEW n \in Nat \ {0}, NEW b \in Block
    PROVE  WrittenAt(f, n, b) \in Seq(Block)
<1> DEFINE m == IF n > Len(f) THEN n ELSE Len(f)
<1>1. m \in Nat
  OBVIOUS
<1>2. \A k \in 1..m : (IF k = n THEN b ELSE IF k <= Len(f) THEN f[k] ELSE Hole) \in Block
  BY DEF Block
<1> HIDE DEF m
<1>3. [k \in 1..m |-> IF k = n THEN b ELSE IF k <= Len(f) THEN f[k] ELSE Hole] \in Seq(Block)
  BY <1>1, <1>2
<1> QED
  BY <1>3 DEF WrittenAt, m

LEMMA WriteIInv ==
    ASSUME IInv, NEW s \in Savers, Write(s)
    PROVE  IInv'
<1> DEFINE p == file_path[s]
           o == object[s]
           n == pos[s] + 1
<1>1. /\ pc[s] = "write" /\ pos[s] \in Nat /\ pos[s] < Blocks[o] /\ o \in Objects
      /\ p \in Paths /\ p \in MetaPaths /\ n \in Nat \ {0} /\ Blocks[o] \in Nat
  BY DocumentType, SaveAssumption DEF Write, IInv, TypeOK
<1>2. /\ files' = [files EXCEPT ![p] = WrittenAt(@, n, <<o, n>>)]
      /\ pos' = [pos EXCEPT ![s] = n]
      /\ UNCHANGED <<object, pc, file_path, overwrite, last, before, alone>>
  BY DEF Write
<1>3. files[p] \in Seq(Block) /\ <<o, n>> \in Block
  BY <1>1 DEF IInv, OpenIsFile, Block
<1>4. WrittenAt(files[p], n, <<o, n>>) \in Seq(Block)
  BY <1>1, <1>3, WrittenAtType
<1>5. TypeOK'
  <2>1. files' \in [Paths -> Seq(Block) \cup {NoFile}]
    BY <1>2, <1>4 DEF IInv, TypeOK
  <2> QED
    BY <1>1, <1>2, <2>1 DEF IInv, TypeOK
<1>6. NobodyElse'
  BY <1>2 DEF IInv, NobodyElse
<1>7. PositionInDocument'
  BY <1>1, <1>2 DEF IInv, TypeOK, PositionInDocument
<1>8. OpenIsFile'
  <2> SUFFICES ASSUME NEW t \in Savers, pc[t] = "write"
               PROVE  files'[file_path[t]] \in Seq(Block)
    BY <1>2 DEF OpenIsFile, Block
  <2>1. file_path[t] \in Paths /\ files[file_path[t]] \in Seq(Block)
    BY SaveAssumption DEF IInv, TypeOK, OpenIsFile
  <2>2. files'[file_path[t]] \in {files[file_path[t]], WrittenAt(files[p], n, <<o, n>>)}
    BY <1>1, <1>2, <2>1 DEF IInv, TypeOK
  <2> QED
    BY <1>4, <2>1, <2>2
<1>9. SoleWriterPrefix'
  <2> SUFFICES ASSUME NEW t \in Savers, pc[t] = "write", alone[t]
               PROVE  files'[file_path[t]] = SubSeq(Document(object[t]), 1, pos'[t])
    BY <1>2 DEF SoleWriterPrefix, Document
  <2>1. files[file_path[t]] = SubSeq(Document(object[t]), 1, pos[t])
    BY DEF IInv, SoleWriterPrefix
  <2>2. CASE t = s
    <3>1. files'[p] = WrittenAt(files[p], n, <<o, n>>) /\ pos'[s] = n
      BY <1>1, <1>2 DEF IInv, TypeOK
    <3>2. WrittenAt(SubSeq(Document(o), 1, pos[s]), n, <<o, n>>) = SubSeq(Document(o), 1, n)
      BY <1>1, NextBlock
    <3> QED
      BY <2>1, <2>2, <3>1, <3>2
  <2>3. CASE t # s
    <3>1. file_path[t] # p /\ pos'[t] = pos[t] /\ file_path[t] \in Paths
      BY <1>1, <1>2, <2>3, SaveAssumption DEF IInv, TypeOK, NobodyElse
    <3>2. files'[file_path[t]] = files[file_path[t]]
      BY <1>1, <1>2, <3>1 DEF IInv, TypeOK
    <3> QED
      BY <2>1, <3>1, <3>2
  <2> QED
    BY <2>2, <2>3
<1> QED
  BY <1>5, <1>6, <1>7, <1>8, <1>9 DEF IInv

LEMMA NextIInv ==
    ASSUME IInv, [Next]_vars
    PROVE  IInv'
<1>1. ASSUME NEW s \in Savers, NEW p \in Paths, NEW ow \in BOOLEAN, Call(s, p, ow)
      PROVE  IInv'
  BY <1>1, CallIInv
<1>2. ASSUME NEW s \in Savers, CheckExists(s) \/ Check(s)
      PROVE  IInv'
  <2>1. CASE End(s, "threw")
    BY <2>1, EndIInv
  <2>2. CASE GoTo(s, "check") \/ GoTo(s, "open")
    BY <1>2, <2>2, GoToIInv DEF CheckExists, Check, Running
  <2> QED
    BY <1>2, <2>1, <2>2 DEF CheckExists, Check
<1>3. ASSUME NEW s \in Savers, Open(s)
      PROVE  IInv'
  BY <1>3, OpenIInv
<1>4. ASSUME NEW s \in Savers, Write(s)
      PROVE  IInv'
  BY <1>4, WriteIInv
<1>5. ASSUME NEW s \in Savers, Close(s) \/ LoseRest(s)
      PROVE  IInv'
  BY <1>5, EndIInv DEF Close, LoseRest
<1>6. ASSUME NEW s \in Savers, Kill(s)
      PROVE  IInv'
  BY <1>6, LeaveIInv DEF Kill, IInv, TypeOK
<1>7. ASSUME NEW s \in Savers, NEW o \in Objects, Restart(s, o)
      PROVE  IInv'
  <2>1. TypeOK'
    BY <1>7 DEF Restart, IInv, TypeOK
  <2>2. /\ \A t \in Savers : pc'[t] = "write" => pc[t] = "write" /\ object'[t] = object[t]
        /\ UNCHANGED <<file_path, pos, files, alone>>
    BY <1>7 DEF Restart, IInv, TypeOK
  <2>3. NobodyElse'
    BY <2>2 DEF IInv, NobodyElse
  <2>4. PositionInDocument' /\ OpenIsFile'
    BY <2>2 DEF IInv, PositionInDocument, OpenIsFile, Block
  <2>5. SoleWriterPrefix'
    BY <2>2 DEF IInv, SoleWriterPrefix, Document
  <2> QED
    BY <2>1, <2>3, <2>4, <2>5 DEF IInv
<1>8. CASE UNCHANGED vars
  BY <1>8 DEF vars, IInv, TypeOK, NobodyElse, PositionInDocument, OpenIsFile, SoleWriterPrefix, Document, Block
<1> QED
  BY <1>1, <1>2, <1>3, <1>4, <1>5, <1>6, <1>7, <1>8 DEF Next, SaveNext, Step

(* The invariant holds for any number of savers. *)
THEOREM Invariance == Spec => []IInv
<1>1. Init => IInv
  BY InitIInv
<1>2. IInv /\ [Next]_vars => IInv'
  BY NextIInv
<1> QED
  BY <1>1, <1>2, PTL DEF Spec

(* The savers and the disk keep their types: nothing but save() writes,    *)
(* and only to paths with its extension.                                   *)
THEOREM TypeCorrect == Spec => []TypeOK
BY Invariance, PTL DEF IInv

(* Whenever a saver that nobody interfered with is killed or loses a       *)
(* write, what it leaves is a beginning of its own document.               *)
THEOREM SoleWriterAlwaysPrefix == Spec => []SoleWriterPrefix
BY Invariance, PTL DEF IInv
-----------------------------------------------------------------------------
(* One program that has the file to itself: whoever else is in save()      *)
(* saves to another path.  Then what its call tested still holds.          *)
Apart ==
    \A t \in Savers \ {Saver} : Running(t) /\ Running(Saver) => file_path[t] # file_path[Saver]

TestsHold ==
    LET p == file_path[Saver]
        overwrites(f) == f = NoFile \/ overwrite[Saver]
        conforms == LevelOf[object[Saver]] \in {"STRICT", "LAZY"} => object[Saver] \in Conforming
    IN  /\ pc[Saver] \in {"check", "open"} => overwrites(files[p])
        /\ pc[Saver] \in {"open", "write"} => conforms
        /\ pc[Saver] = "write" => overwrites(before[Saver]) /\ alone[Saver]

Steps(s) ==
    \/ \E p \in Paths, ow \in BOOLEAN : Call(s, p, ow)
    \/ Step(s) \/ Kill(s)
    \/ \E o \in Objects : Restart(s, o)

LEMMA NextSteps == Next => \E s \in Savers : Steps(s)
BY DEF Next, SaveNext, Steps

LEMMA SaverSaves == Saver \in Savers
BY SaveAssumption DEF Saver

LEMMA InitTestsHold == Init => TestsHold
BY SaverSaves DEF Init, TestsHold

(* A step of another program leaves alone what concerns the saver.         *)
LEMMA OtherSteps ==
    ASSUME IInv, Apart, NEW t \in Savers \ {Saver}, Steps(t)
    PROVE  LET s == Saver
           IN  /\ pc'[s] = pc[s] /\ file_path'[s] = file_path[s] /\ overwrite'[s] = overwrite[s]
               /\ object'[s] = object[s] /\ before'[s] = before[s]
               /\ Running(s) => files'[file_path[s]] = files[file_path[s]]
               /\ Running(s) => alone'[s] = alone[s]
<1> DEFINE s == Saver
           Kept == /\ pc'[s] = pc[s] /\ file_path'[s] = file_path[s] /\ overwrite'[s] = overwrite[s]
                   /\ object'[s] = object[s] /\ before'[s] = before[s]
                   /\ Running(s) => files'[file_path[s]] = files[file_path[s]]
                   /\ Running(s) => alone'[s] = alone[s]
<1>0. s \in Savers /\ t # s /\ t \in Savers /\ (Running(s) => file_path[s] \in Paths)
  <2>1. s \in Savers /\ MetaPaths \subseteq Paths
    BY SaverSaves, SaveAssumption
  <2> QED
    BY <2>1 DEF IInv, TypeOK, Running
<1>1. Running(t) /\ Running(s) => file_path[t] # file_path[s]
  BY DEF Apart
<1> HIDE DEF s
<1>2. ASSUME NEW next, Leave(t, next) PROVE Kept
  BY <1>0, <1>2 DEF Leave, IInv, TypeOK
<1>3. ASSUME NEW next, GoTo(t, next) PROVE Kept
  BY <1>0, <1>3 DEF GoTo, IInv, TypeOK
<1>4. ASSUME NEW outcome, End(t, outcome) PROVE Kept
  BY <1>2, <1>4 DEF End
<1>5. ASSUME NEW p \in Paths, NEW ow \in BOOLEAN, Call(t, p, ow) PROVE Kept
  BY <1>0, <1>4, <1>5 DEF Call, IInv, TypeOK
<1>6. ASSUME CheckExists(t) \/ Check(t) PROVE Kept
  BY <1>3, <1>4, <1>6 DEF CheckExists, Check
<1>7. ASSUME Open(t) PROVE Kept
  <2>1. CASE End(t, "threw")
    BY <1>4, <2>1
  <2>2. CASE ~End(t, "threw")
    <3>1. /\ pc[t] = "open"
          /\ files' = [files EXCEPT ![file_path[t]] = Truncated(@)]
          /\ pc' = [pc EXCEPT ![t] = "write"]
          /\ before' = [before EXCEPT ![t] = files[file_path[t]]]
          /\ alone' = [r \in Savers |->
                         IF r = t THEN Writers(file_path[t]) = {}
                         ELSE alone[r] /\ r \notin Writers(file_path[t])]
          /\ UNCHANGED <<object, file_path, overwrite>>
      BY <1>7, <2>2 DEF Open
    <3>2. Running(s) => file_path[t] # file_path[s]
      BY <1>1, <3>1 DEF Running
    <3>3. Running(s) => s \notin Writers(file_path[t])
      BY <3>2 DEF Writers
    <3>4. Running(s) => alone'[s] = alone[s]
      BY <1>0, <3>1, <3>3 DEF IInv, TypeOK
    <3>5. Running(s) => files'[file_path[s]] = files[file_path[s]]
      BY <1>0, <3>1, <3>2 DEF IInv, TypeOK
    <3> QED
      BY <1>0, <3>1, <3>4, <3>5 DEF IInv, TypeOK
  <2> QED
    BY <2>1, <2>2
<1>8. ASSUME Write(t) PROVE Kept
  <2>1. Running(s) => file_path[t] # file_path[s]
    BY <1>1, <1>8 DEF Write, Running
  <2>2. Running(s) => files'[file_path[s]] = files[file_path[s]]
    BY <1>0, <1>8, <2>1 DEF Write, IInv, TypeOK
  <2> QED
    BY <1>8, <2>2 DEF Write
<1>9. ASSUME Close(t) \/ LoseRest(t) \/ Kill(t) PROVE Kept
  BY <1>2, <1>4, <1>9 DEF Close, LoseRest, Kill
<1>10. ASSUME NEW o \in Objects, Restart(t, o) PROVE Kept
  BY <1>0, <1>10 DEF Restart, IInv, TypeOK
<1> QED
  BY <1>5, <1>6, <1>7, <1>8, <1>9, <1>10 DEF Steps, Step, s

LEMMA NextTestsHold ==
    ASSUME IInv, Apart, TestsHold, [Next]_vars
    PROVE  TestsHold'
<1> DEFINE s == Saver
<1>0. s \in Savers
  BY SaverSaves
<1> HIDE DEF s
<1>1. ASSUME NEW next \in {"idle", "killed"}, Leave(s, next) PROVE TestsHold'
  BY <1>0, <1>1 DEF IInv, TypeOK, Leave, TestsHold, s
<1>2. ASSUME NEW outcome, End(s, outcome) PROVE TestsHold'
  BY <1>1, <1>2 DEF End
<1>3. ASSUME NEW p \in Paths, NEW ow \in BOOLEAN, Call(s, p, ow) PROVE TestsHold'
  <2>1. CASE End(s, "threw")
    BY <1>2, <2>1
  <2>2. CASE pc' = [pc EXCEPT ![s] = "exists"]
    BY <1>0, <2>2 DEF IInv, TypeOK, TestsHold, s
  <2> QED
    BY <1>3, <2>1, <2>2 DEF Call
<1>4. ASSUME CheckExists(s) PROVE TestsHold'
  <2>1. CASE End(s, "threw")
    BY <1>2, <2>1
  <2>2. CASE GoTo(s, "check") /\ (files[file_path[s]] = NoFile \/ overwrite[s])
    BY <1>0, <2>2 DEF IInv, TypeOK, GoTo, TestsHold, s
  <2> QED
    BY <1>0, <1>4, <2>1, <2>2 DEF CheckExists, IInv, TypeOK
<1>5. ASSUME Check(s) PROVE TestsHold'
  <2>1. CASE End(s, "threw")
    BY <1>2, <2>1
  <2>2. CASE /\ GoTo(s, "open")
             /\ LevelOf[object[s]] \in {"STRICT", "LAZY"} => object[s] \in Conforming
    BY <1>0, <1>5, <2>2 DEF IInv, TypeOK, Check, GoTo, TestsHold, s
  <2> QED
    BY <1>5, <2>1, <2>2 DEF Check
<1>6. ASSUME Open(s) PROVE TestsHold'
  <2>1. CASE End(s, "threw")
    BY <1>2, <2>1
  <2>2. CASE ~End(s, "threw")
    <3>1. /\ pc[s] = "open"
          /\ pc' = [pc EXCEPT ![s] = "write"]
          /\ before' = [before EXCEPT ![s] = files[file_path[s]]]
          /\ alone' = [t \in Savers |->
                         IF t = s THEN Writers(file_path[s]) = {}
                         ELSE alone[t] /\ t \notin Writers(file_path[s])]
          /\ UNCHANGED <<object, file_path, overwrite, last>>
      BY <1>6, <2>2 DEF Open
    <3>2. Writers(file_path[s]) = {}
      BY <1>0, <3>1 DEF Writers, Apart, Running, s
    <3>3. /\ pc'[s] = "write" /\ alone'[s] /\ before'[s] = files[file_path[s]]
          /\ object' = object /\ overwrite' = overwrite
      BY <1>0, <3>1, <3>2 DEF IInv, TypeOK
    <3> QED
      BY <3>1, <3>3 DEF TestsHold, s
  <2> QED
    BY <2>1, <2>2
<1>7. ASSUME Write(s) PROVE TestsHold'
  BY <1>7 DEF Write, TestsHold, s
<1>8. ASSUME Close(s) \/ LoseRest(s) \/ Kill(s) PROVE TestsHold'
  BY <1>1, <1>2, <1>8 DEF Close, LoseRest, Kill
<1>9. ASSUME NEW o \in Objects, Restart(s, o) PROVE TestsHold'
  BY <1>0, <1>9 DEF IInv, TypeOK, Restart, TestsHold, s
<1>10. CASE UNCHANGED vars
  BY <1>10 DEF vars, TestsHold
<1>11. CASE Steps(s)
  BY <1>3, <1>4, <1>5, <1>6, <1>7, <1>8, <1>9, <1>11 DEF Steps, Step
<1>12. ASSUME NEW t \in Savers \ {s}, Steps(t) PROVE TestsHold'
  BY <1>12, OtherSteps DEF TestsHold, Running, s
<1>13. CASE Next
  BY <1>11, <1>12, <1>13, NextSteps DEF s
<1> QED
  BY <1>10, <1>13

(* A whole document is read back as such, and a shorter beginning of one   *)
(* is no document at all.                                                  *)
LEMMA MetaFileOf ==
    ASSUME NEW o \in Objects
    PROVE  /\ MetaFile(Document(o)) = MetaDocument(o)
           /\ \A n \in Nat : n < Blocks[o] => MetaFile(SubSeq(Document(o), 1, n)) = Torn
<1>1. /\ Blocks[o] \in Nat \ {0} /\ Document(o) \in Seq(Block) /\ Len(Document(o)) = Blocks[o]
      /\ \A b \in 1..Blocks[o] : Document(o)[b] = <<o, b>>
  BY DocumentType
<1>2. ASSUME NEW o2 \in Objects
      PROVE  Len(Document(o2)) = Blocks[o2] /\ Blocks[o2] \in Nat \ {0} /\ Document(o2)[1] = <<o2, 1>>
  BY DocumentType
<1>3. NoFile \notin Seq(Block)
  BY SaveAssumption DEF Block
<1>4. MetaFile(Document(o)) = MetaDocument(o)
  <2>1. ASSUME NEW o2 \in Objects, Document(o) = Document(o2) PROVE o2 = o
    <3>1. <<o, 1>> = <<o2, 1>>
      BY <1>1, <1>2, <2>1
    <3> QED
      BY <3>1
  <2>2. (CHOOSE o2 \in Objects : Document(o) = Document(o2)) = o
    BY <2>1
  <2>3. Document(o) # NoFile
    BY <1>1, <1>3
  <2> QED
    BY <2>2, <2>3 DEF MetaFile
<1>5. ASSUME NEW n \in Nat, n < Blocks[o] PROVE MetaFile(SubSeq(Document(o), 1, n)) = Torn
  <2> DEFINE f == SubSeq(Document(o), 1, n)
  <2>1. f \in Seq(Block) /\ Len(f) = n /\ \A b \in 1..n : f[b] = Document(o)[b]
    BY <1>1, <1>5
  <2> HIDE DEF f
  <2>2. ASSUME NEW o2 \in Objects, f = Document(o2) PROVE FALSE
    <3>1. n = Blocks[o2] /\ 1 \in 1..n /\ 1 \in 1..Blocks[o]
      BY <1>1, <1>2, <1>5, <2>1, <2>2
    <3>2. <<o, 1>> = <<o2, 1>>
      BY <1>1, <1>2, <2>1, <2>2, <3>1
    <3>3. o = o2
      BY <3>2
    <3> QED
      BY <1>1, <1>5, <3>1, <3>3
  <2>3. f # NoFile
    BY <1>3, <2>1
  <2>4. MetaFile(f) = Torn
    BY <2>2, <2>3 DEF MetaFile
  <2> QED
    BY <2>4 DEF f
<1> QED
  BY <1>4, <1>5

(* A save that throws is refused by Metadata's Save, which may refuse any. *)
LEMMA ThrowMaps ==
    ASSUME IInv, End(Saver, "threw"), pc[Saver] # "write", NEW p, NEW ow
    PROVE  Meta!Save(p, ow)
<1> DEFINE s == Saver
<1>0. s \in Savers
  BY SaverSaves
<1> HIDE DEF s
<1>1. /\ pc'[s] = "idle" /\ last'[s] = "threw"
      /\ UNCHANGED <<object, files>>
  BY <1>0 DEF End, Leave, IInv, TypeOK, s
<1>2. MetaFiles' = MetaFiles
  BY <1>1 DEF MetaFiles, s
<1>3. Meta!Rejected("save")
  BY <1>1, <1>2 DEF Meta!Rejected, Meta!Throws, Meta!object, s
<1> QED
  BY <1>3 DEF Meta!Save

(* The call that returns writes, at once, all or a part of the document.   *)
LEMMA ReturnMaps ==
    ASSUME IInv, TestsHold, pc[Saver] = "write",
           pos[Saver] <= Blocks[object[Saver]], End(Saver, "returned")
    PROVE  Meta!Save(file_path[Saver], overwrite[Saver])
<1> DEFINE s == Saver
           p == file_path[s]
           o == object[s]
           f == MetaFile(files[p])
<1>0. s \in Savers
  BY SaverSaves
<1>1. /\ pc'[s] = "idle" /\ last'[s] = "returned"
      /\ UNCHANGED <<object, files>>
  BY <1>0 DEF End, Leave, IInv, TypeOK
<1>2. o \in Objects /\ p \in MetaPaths /\ p \in Paths /\ pos[s] \in Nat
  BY <1>0, SaveAssumption DEF IInv, TypeOK
<1>3. f \in {Torn, MetaDocument(o)}
  <2>1. files[p] = SubSeq(Document(o), 1, pos[s])
    BY <1>0 DEF IInv, SoleWriterPrefix, TestsHold
  <2>2. Blocks[o] \in Nat /\ Document(o) \in Seq(Block) /\ Len(Document(o)) = Blocks[o]
    BY <1>2, DocumentType
  <2>3. CASE pos[s] < Blocks[o]
    BY <1>2, <2>1, <2>3, MetaFileOf
  <2>4. CASE pos[s] = Blocks[o]
    <3>1. SubSeq(Document(o), 1, Len(Document(o))) = Document(o)
      BY <2>2
    <3> QED
      BY <1>2, <2>1, <2>2, <2>4, <3>1, MetaFileOf
  <2> QED
    BY <1>2, <2>2, <2>3, <2>4
<1>4. MetaFiles' = [MetaFiles EXCEPT ![p] = f]
  <2>1. MetaFiles = [q \in Paths |-> IF q = p THEN MetaFile(before[s]) ELSE MetaFile(files[q])]
    BY DEF MetaFiles
  <2>2. MetaFiles' = [q \in Paths |-> MetaFile(files[q])]
    BY <1>1 DEF MetaFiles
  <2> QED
    BY <2>1, <2>2
<1>5. ~Meta!SaveRefused(p, overwrite[s])
  <2>1. MetaFiles[p] # NoFile => overwrite[s]
    <3>1. MetaFiles[p] = MetaFile(before[s])
      BY <1>2 DEF MetaFiles
    <3> QED
      BY <3>1 DEF TestsHold, MetaFile
  <2>2. LevelOf[o] \in {"STRICT", "LAZY"}
          => Meta!check_metadata(MetaDocument(o).global, MetaDocument(o).lists)
    BY DEF TestsHold, Meta!check_metadata, Meta!SchemaPass, MetaDocument
  <2> QED
    BY <1>2, <2>1, <2>2 DEF Meta!SaveRefused
<1>6. [global |-> MetaDocument(o).global, lists |-> MetaDocument(o).lists, savedAt |-> LevelOf[o]]
        = MetaDocument(o)
  BY DEF MetaDocument
<1> HIDE DEF f
<1>7. Meta!Returns("save") /\ UNCHANGED Meta!object
  BY <1>1 DEF Meta!Returns, Meta!object
<1> QED
  BY <1>3, <1>4, <1>5, <1>6, <1>7 DEF Meta!Save

(* Every step of the saver, short of being killed, is Metadata's Save with *)
(* the path and the argument of the call, or changes nothing that Metadata *)
(* sees.                                                                   *)
LEMMA StepMaps ==
    ASSUME IInv, TestsHold, Steps(Saver), pc'[Saver] # "killed", ~(UNCHANGED <<MetaFiles, last>>)
    PROVE  StepOfMetadata
<1> DEFINE s == Saver
<1>0. s \in Savers
  BY SaverSaves
<1> HIDE DEF s
<1>1. ASSUME pc[s] # "write", pc'[s] # "write", UNCHANGED files PROVE UNCHANGED MetaFiles
  BY <1>1 DEF MetaFiles, s
<1>2. ASSUME NEW next \in {"exists", "check", "open"}, GoTo(s, next), pc[s] # "write" PROVE FALSE
  BY <1>0, <1>1, <1>2 DEF GoTo, IInv, TypeOK
<1>3. ASSUME End(s, "threw"), pc[s] \notin {"idle", "write"} PROVE StepOfMetadata
  BY <1>3, ThrowMaps DEF StepOfMetadata, s
<1>4. ASSUME NEW p \in Paths, NEW ow \in BOOLEAN, Call(s, p, ow) PROVE StepOfMetadata
  <2>1. CASE p \in MetaPaths
    BY <1>0, <1>1, <1>4, <2>1 DEF Call, IInv, TypeOK
  <2>2. CASE p \notin MetaPaths
    <3>1. pc[s] = "idle" /\ End(s, "threw")
      BY <1>4, <2>2 DEF Call
    <3>2. Meta!Save(p, ow)
      BY <3>1, ThrowMaps DEF s
    <3> QED
      BY <1>4, <2>2, <3>1, <3>2 DEF StepOfMetadata, s
  <2> QED
    BY <2>1, <2>2
<1>5. ASSUME CheckExists(s) \/ Check(s) PROVE StepOfMetadata
  BY <1>2, <1>3, <1>5 DEF CheckExists, Check
<1>6. ASSUME Open(s) PROVE StepOfMetadata
  <2>1. CASE End(s, "threw")
    BY <1>3, <1>6, <2>1 DEF Open
  <2>2. CASE ~End(s, "threw")
    <3>1. /\ pc[s] = "open"
          /\ files' = [files EXCEPT ![file_path[s]] = Truncated(@)]
          /\ pc' = [pc EXCEPT ![s] = "write"]
          /\ before' = [before EXCEPT ![s] = files[file_path[s]]]
          /\ UNCHANGED <<object, file_path, overwrite, last>>
      BY <1>6, <2>2 DEF Open
    <3>2. pc'[s] = "write" /\ before'[s] = files[file_path[s]]
      BY <1>0, <3>1 DEF IInv, TypeOK
    <3>3. \A q \in Paths : q # file_path[s] => files'[q] = files[q]
      BY <3>1 DEF IInv, TypeOK
    <3>4. UNCHANGED MetaFiles
      BY <3>1, <3>2, <3>3 DEF MetaFiles, s
    <3> QED
      BY <3>1, <3>4
  <2> QED
    BY <2>1, <2>2
<1>7. ASSUME Write(s) PROVE FALSE
  <2>1. /\ pc[s] = "write"
        /\ files' = [files EXCEPT ![file_path[s]] =
                       WrittenAt(@, pos[s] + 1, <<object[s], pos[s] + 1>>)]
        /\ UNCHANGED <<object, pc, file_path, overwrite, last, before>>
    BY <1>7 DEF Write
  <2>2. \A q \in Paths : q # file_path[s] => files'[q] = files[q]
    BY <2>1 DEF IInv, TypeOK
  <2>3. UNCHANGED MetaFiles
    BY <2>1, <2>2 DEF MetaFiles, s
  <2> QED
    BY <2>1, <2>3
<1>8. ASSUME Close(s) \/ LoseRest(s) PROVE StepOfMetadata
  <2>1. pc[s] = "write" /\ End(s, "returned") /\ pos[s] <= Blocks[object[s]]
    BY <1>0, <1>8 DEF Close, LoseRest, IInv, PositionInDocument
  <2> QED
    BY <2>1, ReturnMaps DEF StepOfMetadata, s
<1>9. ASSUME Kill(s) PROVE FALSE
  BY <1>0, <1>9 DEF Kill, Leave, IInv, TypeOK, s
<1>10. ASSUME NEW o \in Objects, Restart(s, o) PROVE FALSE
  BY <1>0, <1>1, <1>10 DEF Restart, IInv, TypeOK
<1> QED
  BY <1>4, <1>5, <1>6, <1>7, <1>8, <1>9, <1>10 DEF Steps, Step, s

(* Programs that save to paths of their own, in whatever order their steps *)
(* come and whatever they lose, save as if each were alone: every step of  *)
(* one of them, short of being killed, is that atomic action or changes    *)
(* nothing that its Metadata sees.                                         *)
THEOREM ApartSavesAtomically ==
    Spec /\ []Apart
        => [][Steps(Saver) /\ pc'[Saver] # "killed"
                => StepOfMetadata \/ UNCHANGED <<MetaFiles, last>>]_vars
<1>1. Init => IInv /\ TestsHold
  BY InitIInv, InitTestsHold
<1>2. IInv /\ TestsHold /\ Apart /\ [Next]_vars => (IInv /\ TestsHold)'
  BY NextIInv, NextTestsHold
<1>3. IInv /\ TestsHold => [Steps(Saver) /\ pc'[Saver] # "killed"
                               => StepOfMetadata \/ UNCHANGED <<MetaFiles, last>>]_vars
  BY StepMaps
<1> QED
  BY <1>1, <1>2, <1>3, PTL DEF Spec

(* One program that saves alone is apart from all others.                  *)
THEOREM AloneSavesAtomically ==
    ASSUME Savers = {Saver}
    PROVE  Spec => [][pc'[Saver] # "killed" => StepOfMetadata]_<<MetaFiles, last>>
<1>1. Init => IInv /\ TestsHold
  BY InitIInv, InitTestsHold
<1>2. Apart
  BY DEF Apart
<1>3. IInv /\ TestsHold /\ [Next]_vars => (IInv /\ TestsHold)'
  BY <1>2, NextIInv, NextTestsHold
<1>4. IInv /\ TestsHold /\ [Next]_vars
        => [pc'[Saver] # "killed" => StepOfMetadata]_<<MetaFiles, last>>
  <2>1. ASSUME Next PROVE Steps(Saver)
    BY <2>1, NextSteps
  <2>2. ASSUME UNCHANGED vars PROVE UNCHANGED <<MetaFiles, last>>
    BY <2>2 DEF vars, MetaFiles
  <2> QED
    BY <2>1, <2>2, StepMaps
<1> QED
  BY <1>1, <1>3, <1>4, PTL DEF Spec

(* So is one that saves while other programs are there but do nothing,     *)
(* which is what the run checks.                                           *)
OthersIdle == \A t \in Savers \ {Saver} : pc[t] = "idle"

LEMMA OthersStayIdle ==
    ASSUME IInv, OthersIdle, Steps(Saver)
    PROVE  OthersIdle'
<1> DEFINE s == Saver
<1>0. s \in Savers
  BY SaverSaves
<1> HIDE DEF s
<1>1. ASSUME NEW next, Leave(s, next) PROVE OthersIdle'
  BY <1>0, <1>1 DEF Leave, OthersIdle, IInv, TypeOK, s
<1>2. ASSUME NEW next, GoTo(s, next) PROVE OthersIdle'
  BY <1>0, <1>2 DEF GoTo, OthersIdle, IInv, TypeOK, s
<1>3. ASSUME NEW outcome, End(s, outcome) PROVE OthersIdle'
  BY <1>1, <1>3 DEF End
<1>4. ASSUME NEW p \in Paths, NEW ow \in BOOLEAN, Call(s, p, ow) PROVE OthersIdle'
  BY <1>0, <1>3, <1>4 DEF Call, OthersIdle, IInv, TypeOK, s
<1>5. ASSUME CheckExists(s) \/ Check(s) PROVE OthersIdle'
  BY <1>2, <1>3, <1>5 DEF CheckExists, Check
<1>6. ASSUME Open(s) PROVE OthersIdle'
  BY <1>0, <1>3, <1>6 DEF Open, OthersIdle, IInv, TypeOK, s
<1>7. ASSUME Write(s) PROVE OthersIdle'
  BY <1>7 DEF Write, OthersIdle
<1>8. ASSUME Close(s) \/ LoseRest(s) \/ Kill(s) PROVE OthersIdle'
  BY <1>1, <1>3, <1>8 DEF Close, LoseRest, Kill
<1>9. ASSUME NEW o \in Objects, Restart(s, o) PROVE OthersIdle'
  BY <1>0, <1>9 DEF Restart, OthersIdle, IInv, TypeOK, s
<1> QED
  BY <1>4, <1>5, <1>6, <1>7, <1>8, <1>9 DEF Steps, Step, s

THEOREM SoloAlwaysSavesAtomically == MCSpec => SoloSavesAtomically
<1> DEFINE SoloInv == solo => IInv /\ TestsHold /\ OthersIdle
           step == solo /\ pc'[Saver] # "killed" => StepOfMetadata
<1>1. MCInit => SoloInv
  BY InitIInv, InitTestsHold DEF MCInit, Init, OthersIdle
<1>2. ASSUME solo, MCNext PROVE Steps(Saver) /\ Next
  <2>1. Active = {Saver} /\ Held = Objects
    BY <1>2 DEF Active, Held
  <2> QED
    BY <1>2, <2>1, SaverSaves DEF MCNext, Steps, Next, SaveNext
<1>3. SoloInv /\ [MCNext]_<<vars, solo>> => SoloInv'
  <2> SUFFICES ASSUME solo', SoloInv, [MCNext]_<<vars, solo>>
               PROVE  (IInv /\ TestsHold /\ OthersIdle)'
    OBVIOUS
  <2>1. solo /\ IInv /\ TestsHold /\ OthersIdle
    BY DEF MCNext
  <2>2. Apart
    BY <2>1 DEF OthersIdle, Apart, Running
  <2>3. [Next]_vars
    BY <1>2, <2>1
  <2>4. IInv' /\ TestsHold'
    BY <2>1, <2>2, <2>3, NextIInv, NextTestsHold
  <2>5. CASE Steps(Saver)
    BY <2>1, <2>4, <2>5, OthersStayIdle
  <2>6. CASE UNCHANGED vars
    BY <2>1, <2>4, <2>6 DEF vars, OthersIdle
  <2> QED
    BY <1>2, <2>1, <2>5, <2>6
<1>4. SoloInv /\ [MCNext]_<<vars, solo>> => [step]_<<MetaFiles, last>>
  <2>1. ASSUME UNCHANGED vars PROVE UNCHANGED <<MetaFiles, last>>
    BY <2>1 DEF vars, MetaFiles
  <2> QED
    BY <1>2, <2>1, StepMaps
<1> QED
  BY <1>1, <1>3, <1>4, PTL DEF MCSpec, SoloSavesAtomically
=============================================================================
