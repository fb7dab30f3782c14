------------------------ MODULE CdfConsumerProofs ------------------------
(***************************************************************************)
(* Theorems about CdfConsumer, for every number of commits and every set   *)
(* of processes; what the overlap of two processes breaks is proved of one.*)
(***************************************************************************)
EXTENDS CdfConsumer, TLAPS

-----------------------------------------------------------------------------
(* Type correctness, and what a process relies on between its steps        *)
(* whatever the others do: a registration only follows a commit.           *)
StartedAt(n, x) ==
  /\ x.pc \in {"alter", "version"} => n > 0
  /\ x.pc \in {"lookup", "insert"} => x.start \in 1..n

Started == \A p \in Procs : StartedAt(Len(log), proc[p])

(* A longer log has room for every registration and every process.         *)
LEMMA LongerLog ==
  ASSUME NEW n \in Nat, NEW m \in Nat, n <= m
  PROVE  RegType(n) \subseteq RegType(m) /\ ProcType(n) \subseteq ProcType(m)
  BY DEF RegType, ProcType

(* A process that changes only itself stays well typed and started.        *)
LEMMA BecomeType ==
  ASSUME TypeOK, NEW p \in Procs, NEW new \in ProcType(Len(log)), Become(p, new)
  PROVE  proc' \in [Procs -> ProcType(Len(log))]
  BY DEF TypeOK, Become

LEMMA IdleType == ASSUME NEW n \in Nat PROVE Idle \in ProcType(n)
  BY DEF ProcType, Idle, NoTarget

LEMMA GotoType ==
  ASSUME TypeOK, NEW p \in Procs, NEW step \in Steps, Goto(p, step)
  PROVE  proc' \in [Procs -> ProcType(Len(log))]
<1>1. [proc[p] EXCEPT !.pc = step] \in ProcType(Len(log))
  BY DEF TypeOK, ProcType
<1> QED BY <1>1, BecomeType DEF Goto

LEMMA ReturnType ==
  ASSUME TypeOK, NEW p \in Procs, Return(p)
  PROVE  proc' \in [Procs -> ProcType(Len(log))]
<1>1. Len(log) \in Nat
  BY DEF TypeOK
<1> QED BY <1>1, IdleType, BecomeType DEF Return

(* The window a process computes ends at or before the head of the log.    *)
LEMMA EndInLog ==
  ASSUME TypeOK, NEW p \in Procs
  PROVE  EndVersion(proc[p].target) \in 0..Len(log)
  BY BoundAssumption DEF TypeOK, EndVersion, ProcType, NoTarget, Versions

(* One process moving on the same log leaves the others as started.        *)
LEMMA MoveStarted ==
  ASSUME TypeOK, Started, NEW p \in Procs, NEW new, Become(p, new),
         StartedAt(Len(log), new), log' = log
  PROVE  Started'
<1> SUFFICES ASSUME NEW q \in Procs PROVE StartedAt(Len(log), proc'[q])
  BY DEF Started
<1>1. CASE q = p
  BY <1>1 DEF Become, TypeOK
<1>2. CASE q # p
  BY <1>2 DEF Become, TypeOK, Started
<1> QED BY <1>1, <1>2

(* A commit leaves every process and the registration within the log.      *)
LEMMA CommitType ==
  ASSUME TypeOK, Started, NEW kind \in {"rows", "meta"},
         Len(log) < MaxVersion, log' = Append(log, kind)
  PROVE  /\ log' \in Seq({"rows", "meta"}) /\ Len(log') <= MaxVersion
         /\ Len(log) \in Nat /\ Len(log') = Len(log) + 1
         /\ RegType(Len(log)) \subseteq RegType(Len(log'))
         /\ ProcType(Len(log)) \subseteq ProcType(Len(log'))
         /\ \A p \in Procs : StartedAt(Len(log'), proc[p])
<1>1. /\ log' \in Seq({"rows", "meta"})
      /\ Len(log) \in Nat /\ Len(log') = Len(log) + 1
  BY DEF TypeOK
<1>2. Len(log') <= MaxVersion
  BY <1>1, BoundAssumption
<1>3. /\ RegType(Len(log)) \subseteq RegType(Len(log'))
      /\ ProcType(Len(log)) \subseteq ProcType(Len(log'))
  BY <1>1, LongerLog
<1>4. \A p \in Procs : StartedAt(Len(log'), proc[p])
  BY <1>1 DEF Started, StartedAt
<1> QED BY <1>1, <1>2, <1>3, <1>4

LEMMA TypeInit == Init => TypeOK /\ Started
<1> SUFFICES ASSUME Init PROVE TypeOK /\ Started
  OBVIOUS
<1>1. log = <<>> /\ Len(log) = 0
  BY DEF Init
<1>2. Idle \in ProcType(Len(log))
  BY <1>1, IdleType
<1>3. reg \in RegType(Len(log))
  BY <1>1 DEF Init, NoReg, RegType
<1>4. TypeOK
  BY <1>1, <1>2, <1>3, BoundAssumption DEF Init, TypeOK
<1>5. Started
  BY DEF Init, Started, StartedAt, Idle
<1> QED BY <1>4, <1>5

(* Commits and the calls of register_table.                                *)
LEMMA TypeRegistration ==
  ASSUME TypeOK, Started, NEW p \in Procs,
         \/ \E kind \in {"rows", "meta"} : Commit(kind)
         \/ StartRegister(p) \/ Alter(p) \/ ReadVersion(p)
         \/ LookUp(p) \/ InsertSource(p)
  PROVE  TypeOK' /\ Started'
<1> USE DEF At
<1>1. Len(log) \in Nat /\ (log # <<>> <=> Len(log) > 0)
  BY DEF TypeOK
<1>2. ASSUME NEW kind \in {"rows", "meta"}, Commit(kind)
      PROVE  TypeOK' /\ Started'
  BY <1>2, CommitType DEF Commit, TypeOK, Started
<1>3. CASE StartRegister(p)
  <2>1. PICK step \in {"alter", "version"} : Goto(p, step)
    BY <1>3 DEF StartRegister
  <2>2. proc' \in [Procs -> ProcType(Len(log))]
    BY <2>1, GotoType DEF Steps
  <2>3. TypeOK'
    BY <1>3, <2>2 DEF StartRegister, TypeOK
  <2>4. StartedAt(Len(log), [proc[p] EXCEPT !.pc = step])
    BY <1>1, <1>3, <2>1 DEF StartRegister, StartedAt, TypeOK, ProcType
  <2> QED BY <1>3, <2>1, <2>3, <2>4, MoveStarted DEF StartRegister, Goto
<1>4. CASE Alter(p)
  <2>1. proc' \in [Procs -> ProcType(Len(log))]
    BY <1>4, GotoType DEF Alter, Steps
  <2>2. TypeOK'
    BY <1>4, <2>1, CommitType DEF Alter, TypeOK
  <2>3. \A q \in Procs : proc'[q] = IF q = p THEN [proc[p] EXCEPT !.pc = "version"] ELSE proc[q]
    BY <1>4 DEF Alter, Goto, Become, TypeOK
  <2>4. StartedAt(Len(log'), [proc[p] EXCEPT !.pc = "version"])
    BY <1>1, <1>4, CommitType DEF Alter, StartedAt, TypeOK, ProcType
  <2> QED BY <1>4, <2>2, <2>3, <2>4, CommitType DEF Alter, Started
<1>5. CASE ReadVersion(p)
  <2> DEFINE new == [proc[p] EXCEPT !.pc = "lookup", !.start = Len(log)]
  <2>1. new \in ProcType(Len(log)) /\ Become(p, new)
    <3>1. proc[p] \in ProcType(Len(log))
      BY DEF TypeOK
    <3>2. [proc[p] EXCEPT !.start = Len(log)] \in ProcType(Len(log))
      BY <1>1, <3>1 DEF ProcType
    <3>3. [[proc[p] EXCEPT !.start = Len(log)] EXCEPT !.pc = "lookup"] \in ProcType(Len(log))
      BY <3>2 DEF ProcType, Steps
    <3>4. new = [[proc[p] EXCEPT !.start = Len(log)] EXCEPT !.pc = "lookup"]
      BY <3>1 DEF ProcType
    <3> QED BY <1>5, <3>3, <3>4 DEF ReadVersion
  <2>2. StartedAt(Len(log), new)
    BY <1>1, <1>5 DEF ReadVersion, Started, StartedAt, TypeOK, ProcType
  <2>3. TypeOK'
    BY <1>5, <2>1, BecomeType DEF ReadVersion, TypeOK
  <2> QED BY <1>5, <2>1, <2>2, <2>3, MoveStarted DEF ReadVersion
<1>6. CASE LookUp(p)
  <2>1. CASE Return(p)
    <3>1. TypeOK'
      BY <1>6, <2>1, ReturnType DEF LookUp, TypeOK
    <3> QED BY <1>6, <2>1, <3>1, MoveStarted DEF LookUp, Return, StartedAt, Idle
  <2>2. CASE Goto(p, "insert")
    <3>1. TypeOK'
      BY <1>6, <2>2, GotoType DEF LookUp, TypeOK, Steps
    <3>2. StartedAt(Len(log), [proc[p] EXCEPT !.pc = "insert"])
      BY <1>6 DEF LookUp, Started, StartedAt, TypeOK, ProcType
    <3> QED BY <1>6, <2>2, <3>1, <3>2, MoveStarted DEF LookUp, Goto
  <2> QED BY <1>6, <2>1, <2>2 DEF LookUp
<1>7. CASE InsertSource(p)
  <2>1. proc[p].start \in 1..Len(log)
    BY <1>7 DEF InsertSource, Started, StartedAt
  <2>2. reg' \in RegType(Len(log))
    BY <1>1, <1>7, <2>1 DEF InsertSource, TypeOK, RegType
  <2>3. TypeOK'
    BY <1>7, <2>2, ReturnType DEF InsertSource, TypeOK
  <2> QED BY <1>7, <2>3, MoveStarted DEF InsertSource, Return, StartedAt, Idle
<1> QED BY <1>2, <1>3, <1>4, <1>5, <1>6, <1>7

(* A process that leaves the log alone and is not registering stays well   *)
(* started, and everything it does to itself is well typed.                *)
LEMMA MoveType ==
  ASSUME TypeOK, Started, NEW p \in Procs, NEW new \in ProcType(Len(log)),
         Become(p, new), new.pc \notin {"alter", "version", "lookup", "insert"},
         log' = log, cdfFrom' = cdfFrom,
         reg' \in RegType(Len(log)), archive' \in [Versions -> Nat]
  PROVE  TypeOK' /\ Started'
<1>1. TypeOK'
  BY BecomeType DEF TypeOK
<1> QED BY <1>1, MoveStarted DEF StartedAt

(* The calls of consume_table, and death.                                  *)
LEMMA TypeConsumption ==
  ASSUME TypeOK, Started, NEW p \in Procs,
         \/ \E t \in {NoTarget} \cup Versions : StartConsume(p, t)
         \/ ReadWindow(p) \/ FindArchive(p) \/ OverwriteArchive(p) \/ MergeArchive(p)
         \/ CheckAdvance(p) \/ Advance(p) \/ Die(p)
  PROVE  TypeOK' /\ Started'
<1>1. /\ Len(log) \in Nat /\ Idle \in ProcType(Len(log)) /\ Idle.pc = "idle"
      /\ reg \in RegType(Len(log)) /\ archive \in [Versions -> Nat]
      /\ proc[p] \in ProcType(Len(log))
  <2>1. Len(log) \in Nat
    BY DEF TypeOK
  <2> QED BY <2>1, IdleType DEF TypeOK, Idle
<1>2. ASSUME NEW t \in {NoTarget} \cup Versions, StartConsume(p, t)
      PROVE  TypeOK' /\ Started'
  <2> DEFINE new == [pc |-> "window", target |-> t, start |-> reg.last + 1, end |-> 0]
  <2>1. new \in ProcType(Len(log)) /\ new.pc = "window"
    <3>1. reg.last + 1 \in 0..(Len(log) + 1) /\ 0 \in 0..Len(log)
      BY <1>1 DEF RegType
    <3> QED BY <3>1 DEF ProcType, Steps
  <2> HIDE DEF new
  <2>2. Become(p, new)
    BY <1>2 DEF StartConsume, new
  <2> QED BY <1>1, <1>2, <2>1, <2>2, MoveType DEF StartConsume
<1>3. ASSUME NEW step \in Steps, step \notin {"alter", "version", "lookup", "insert"},
             Goto(p, step), UNCHANGED <<log, cdfFrom, reg>>, archive' \in [Versions -> Nat]
      PROVE  TypeOK' /\ Started'
  <2> DEFINE new == [proc[p] EXCEPT !.pc = step]
  <2>1. new \in ProcType(Len(log)) /\ new.pc = step
    BY <1>1 DEF ProcType
  <2>2. Become(p, new)
    BY <1>3 DEF Goto
  <2> HIDE DEF new
  <2> QED BY <1>1, <1>3, <2>1, <2>2, MoveType
<1>4. ASSUME Return(p), UNCHANGED <<log, cdfFrom, archive>>, reg' \in RegType(Len(log))
      PROVE  TypeOK' /\ Started'
  BY <1>1, <1>4, MoveType DEF Return
<1>5. CASE ReadWindow(p)
  <2>1. CASE Return(p)
    BY <1>1, <1>4, <1>5, <2>1 DEF ReadWindow
  <2>2. ASSUME NEW step \in {"check", "exists"},
               Become(p, [proc[p] EXCEPT !.end = EndVersion(proc[p].target), !.pc = step])
        PROVE  TypeOK' /\ Started'
    <3> DEFINE new == [proc[p] EXCEPT !.end = EndVersion(proc[p].target), !.pc = step]
    <3>1. new \in ProcType(Len(log)) /\ new.pc = step
      BY <1>1, EndInLog DEF ProcType, Steps
    <3>2. Become(p, new)
      BY <2>2
    <3> HIDE DEF new
    <3> QED BY <1>1, <1>5, <3>1, <3>2, MoveType DEF ReadWindow
  <2> QED BY <1>5, <2>1, <2>2 DEF ReadWindow
<1>6. CASE FindArchive(p)
  BY <1>1, <1>3, <1>6 DEF FindArchive, Steps
<1>7. CASE OverwriteArchive(p)
  <2>1. archive' \in [Versions -> Nat]
    BY <1>7 DEF OverwriteArchive
  <2> QED BY <1>3, <1>7, <2>1 DEF OverwriteArchive, Steps
<1>8. CASE MergeArchive(p)
  <2>1. archive' \in [Versions -> Nat]
    BY <1>1, <1>8 DEF MergeArchive, Inserted
  <2> QED BY <1>3, <1>8, <2>1 DEF MergeArchive, Steps
<1>9. CASE CheckAdvance(p)
  BY <1>1, <1>3, <1>4, <1>9 DEF CheckAdvance, Steps
<1>10. CASE Advance(p)
  <2>1. reg' \in RegType(Len(log))
    BY <1>1, <1>10 DEF Advance, RegType, ProcType
  <2> QED BY <1>4, <1>10, <2>1 DEF Advance
<1>11. CASE Die(p)
  BY <1>1, <1>4, <1>11 DEF Die
<1> QED BY <1>2, <1>5, <1>6, <1>7, <1>8, <1>9, <1>10, <1>11

LEMMA TypeStep == TypeOK /\ Started /\ [Next]_vars => TypeOK' /\ Started'
<1> SUFFICES ASSUME TypeOK, Started, [Next]_vars PROVE TypeOK' /\ Started'
  OBVIOUS
<1>1. ASSUME NEW kind \in {"rows", "meta"}, Commit(kind) PROVE TypeOK' /\ Started'
  BY <1>1, CommitType DEF Commit, TypeOK, Started
<1>2. ASSUME NEW p \in Procs, Start(p) \/ Progress(p) \/ Die(p)
      PROVE  TypeOK' /\ Started'
  BY <1>2, TypeRegistration, TypeConsumption DEF Start, Progress
<1>3. CASE UNCHANGED vars
  BY <1>3 DEF vars, TypeOK, Started
<1> QED BY <1>1, <1>2, <1>3 DEF Next

(* However many processes interleave and die, the state is well typed, and *)
(* registration and windows never point past the log.                      *)
THEOREM TypeCorrect == Spec => []TypeOK
  BY TypeInit, TypeStep, PTL DEF Spec
-----------------------------------------------------------------------------
(* The archive holds a change row once, whatever processes overlap: its    *)
(* only writers are the overwrite and the insert-only MERGE of             *)
(* write_changes, each a single commit.                                    *)
THEOREM ArchivedOnce == Spec => []NoDuplicates
<1>1. Init => NoDuplicates
  BY DEF Init, NoDuplicates
<1>2. TypeOK /\ NoDuplicates /\ [Next]_vars => NoDuplicates'
  <2> SUFFICES ASSUME TypeOK, NoDuplicates, [Next]_vars, NEW v \in Versions
               PROVE  archive'[v] <= 1
    BY DEF NoDuplicates
  <2>1. archive \in [Versions -> Nat] /\ archive[v] <= 1
    BY DEF TypeOK, NoDuplicates
  <2>2. ASSUME NEW p \in Procs, OverwriteArchive(p) \/ MergeArchive(p)
        PROVE  archive'[v] <= 1
    BY <2>1, <2>2 DEF OverwriteArchive, MergeArchive, Inserted
  <2>3. CASE archive' = archive
    BY <2>1, <2>3
  <2> QED BY <2>2, <2>3 DEF Next, vars, Commit, Start, Progress, Die, StartRegister, Alter,
             ReadVersion, LookUp, InsertSource, StartConsume, ReadWindow, FindArchive,
             CheckAdvance, Advance
<1> QED BY <1>1, <1>2, TypeCorrect, PTL DEF Spec
-----------------------------------------------------------------------------
(* What a lone process may rely on between its steps: its window starts    *)
(* right after the checkpoint, an overwrite still finds no archive, and a  *)
(* window whose checkpoint is about to move is archived.                   *)
OneProc == \A p, q \in Procs : p = q

Inside == {"exists", "overwrite", "merge", "check", "advance"}
Archived(v) == HasRows(v) => archive[v] > 0

Consuming(p) ==
  /\ At(p, "insert") => ~Registered
  /\ proc[p].pc \in {"window"} \cup Inside => Registered /\ proc[p].start = reg.last + 1
  /\ proc[p].pc \in Inside => proc[p].start <= proc[p].end
  /\ At(p, "overwrite") => ~ArchiveExists
  /\ proc[p].pc \in {"check", "advance"} => \A v \in proc[p].start..proc[p].end : Archived(v)

ConsumerInv ==
  /\ TypeOK /\ Started
  /\ Registered => reg.start >= 1
  /\ ArchiveComplete
  /\ \A p \in Procs : Consuming(p)

(* Rows never leave the archive: a lone process overwrites nothing.        *)
LEMMA ArchiveGrows ==
  ASSUME ConsumerInv, [Next]_vars
  PROVE  \A v \in Versions : archive'[v] >= archive[v]
<1> SUFFICES ASSUME NEW v \in Versions PROVE archive'[v] >= archive[v]
  OBVIOUS
<1>1. archive \in [Versions -> Nat]
  BY DEF ConsumerInv, TypeOK
<1>2. ASSUME NEW p \in Procs, OverwriteArchive(p) PROVE archive'[v] >= archive[v]
  <2>1. ~ArchiveExists
    BY <1>2 DEF OverwriteArchive, ConsumerInv, Consuming
  <2>2. archive[v] = 0
    BY <1>1, <2>1 DEF ArchiveExists
  <2> QED BY <1>2, <2>2 DEF OverwriteArchive
<1>3. ASSUME NEW p \in Procs, MergeArchive(p) PROVE archive'[v] >= archive[v]
  BY <1>1, <1>3 DEF MergeArchive, Inserted
<1>4. CASE archive' = archive
  BY <1>1, <1>4
<1> QED BY <1>2, <1>3, <1>4 DEF Next, vars, Commit, Start, Progress, Die, StartRegister, Alter,
             ReadVersion, LookUp, InsertSource, StartConsume, ReadWindow, FindArchive,
             CheckAdvance, Advance

(* Commits are immutable: the log only grows at its end.                   *)
LEMMA LogGrows ==
  ASSUME TypeOK, [Next]_vars
  PROVE  \A v \in 1..Len(log) : log'[v] = log[v]
<1>1. ASSUME NEW kind, log' = Append(log, kind)
      PROVE  \A v \in 1..Len(log) : log'[v] = log[v]
  BY <1>1 DEF TypeOK
<1>2. CASE log' = log
  BY <1>2
<1> QED BY <1>1, <1>2 DEF Next, vars, Commit, Start, Progress, Die, StartRegister, Alter,
             ReadVersion, LookUp, InsertSource, StartConsume, ReadWindow, FindArchive,
             OverwriteArchive, MergeArchive, CheckAdvance, Advance

(* So what is archived of the log stays archived.                          *)
LEMMA StaysArchived ==
  ASSUME ConsumerInv, [Next]_vars, NEW v \in 1..Len(log), Archived(v)
  PROVE  Archived(v)'
<1>1. v \in Versions
  BY BoundAssumption DEF ConsumerInv, TypeOK, Versions
<1>2. log'[v] = log[v]
  BY LogGrows DEF ConsumerInv
<1>3. archive'[v] >= archive[v] /\ archive[v] \in Nat /\ archive'[v] \in Nat
  <2>1. TypeOK'
    BY TypeStep DEF ConsumerInv
  <2> QED BY <1>1, <2>1, ArchiveGrows DEF ConsumerInv, TypeOK
<1> QED BY <1>2, <1>3 DEF Archived, HasRows

(* While the registration stands, the archive stays complete behind it.    *)
LEMMA StaysComplete ==
  ASSUME ConsumerInv, [Next]_vars, reg' = reg
  PROVE  ArchiveComplete' /\ (Registered => reg.start >= 1)'
<1>1. (Registered => reg.start >= 1)'
  BY DEF ConsumerInv, Registered
<1>2. ASSUME Registered, NEW v \in reg.start..reg.last PROVE Archived(v)'
  <2>1. v \in 1..Len(log)
    BY <1>2 DEF ConsumerInv, TypeOK, RegType
  <2>2. Archived(v)
    BY <1>2 DEF ConsumerInv, ArchiveComplete, Archived
  <2> QED BY <2>1, <2>2, StaysArchived
<1>3. ArchiveComplete'
  BY <1>2 DEF ArchiveComplete, Registered, Archived, HasRows
<1> QED BY <1>1, <1>3

(* And a window that was archived stays archived.                          *)
LEMMA WindowStays ==
  ASSUME ConsumerInv, [Next]_vars, NEW p \in Procs, proc[p].pc \in {"check", "advance"}
  PROVE  \A v \in proc[p].start..proc[p].end : Archived(v)'
<1> SUFFICES ASSUME NEW v \in proc[p].start..proc[p].end PROVE Archived(v)'
  OBVIOUS
<1>1. proc[p].start >= 1
  BY DEF ConsumerInv, Consuming, TypeOK, RegType, Inside
<1>2. v \in 1..Len(log)
  BY <1>1 DEF ConsumerInv, TypeOK, ProcType
<1>3. Archived(v)
  BY DEF ConsumerInv, Consuming
<1> QED BY <1>2, <1>3, StaysArchived

(* The state a process enters, when it is the only one.                    *)
LEMMA LoneMove ==
  ASSUME TypeOK, OneProc, NEW p \in Procs, NEW new, Become(p, new)
  PROVE  \A q \in Procs : q = p /\ proc'[q] = new
  BY DEF TypeOK, OneProc, Become

(* A lone process outside both calls relies on nothing.                    *)
LEMMA OutsideWindow ==
  ASSUME TypeOK, OneProc, NEW p \in Procs, NEW new, Become(p, new),
         new.pc \in {"idle", "alter", "version", "lookup"}
  PROVE  \A q \in Procs : Consuming(q)'
  BY LoneMove DEF Consuming, At, Inside

LEMMA CommitStep ==
  ASSUME ConsumerInv, [Next]_vars, NEW kind \in {"rows", "meta"}, Commit(kind) \/ UNCHANGED vars
  PROVE  \A q \in Procs : Consuming(q)'
<1> SUFFICES ASSUME NEW q \in Procs PROVE Consuming(q)'
  OBVIOUS
<1>1. Consuming(q) /\ UNCHANGED <<reg, archive, proc>>
  BY DEF ConsumerInv, Commit, vars
<1>2. proc[q].pc \in {"check", "advance"} => \A v \in proc[q].start..proc[q].end : Archived(v)'
  BY WindowStays
<1> QED BY <1>1, <1>2 DEF Consuming, At, Registered, ArchiveExists

LEMMA RegistrationStep ==
  ASSUME ConsumerInv, OneProc, [Next]_vars, NEW p \in Procs,
         StartRegister(p) \/ Alter(p) \/ ReadVersion(p) \/ LookUp(p) \/ InsertSource(p) \/ Die(p)
  PROVE  \A q \in Procs : Consuming(q)'
<1>1. TypeOK /\ Idle.pc = "idle" /\ \A new : [proc[p] EXCEPT !.pc = new].pc = new
  BY DEF ConsumerInv, TypeOK, ProcType, Idle
<1>2. ASSUME NEW step \in {"alter", "version"}, Goto(p, step)
      PROVE  \A q \in Procs : Consuming(q)'
  BY <1>1, <1>2, OutsideWindow DEF Goto
<1>3. CASE Return(p)
  BY <1>1, <1>3, OutsideWindow DEF Return
<1>4. CASE ReadVersion(p)
  <2>1. [proc[p] EXCEPT !.pc = "lookup", !.start = Len(log)].pc = "lookup"
    BY <1>1 DEF TypeOK, ProcType
  <2> QED BY <1>1, <1>4, <2>1, OutsideWindow DEF ReadVersion
<1>5. CASE LookUp(p) /\ ~Registered
  <2>1. \A q \in Procs : proc'[q].pc = "insert"
    BY <1>1, <1>5, LoneMove DEF LookUp, Goto
  <2> QED BY <1>5, <2>1 DEF LookUp, Consuming, At, Inside, Registered
<1> QED BY <1>2, <1>3, <1>4, <1>5 DEF StartRegister, Alter, LookUp, InsertSource, Die

LEMMA ConsumptionStep ==
  ASSUME ConsumerInv, OneProc, [Next]_vars, NEW p \in Procs,
         \/ \E t \in {NoTarget} \cup Versions : StartConsume(p, t)
         \/ ReadWindow(p) \/ FindArchive(p) \/ OverwriteArchive(p) \/ MergeArchive(p)
         \/ CheckAdvance(p) \/ Advance(p)
  PROVE  \A q \in Procs : Consuming(q)'
<1> USE DEF At
<1>1. TypeOK /\ Consuming(p) /\ Idle.pc = "idle" /\ proc[p] \in ProcType(Len(log))
  BY DEF ConsumerInv, TypeOK, Idle
<1>2. CASE Return(p)
  BY <1>1, <1>2, OutsideWindow DEF Return
<1>3. ASSUME NEW t, StartConsume(p, t) PROVE \A q \in Procs : Consuming(q)'
  <2>1. \A q \in Procs : proc'[q].pc = "window" /\ proc'[q].start = reg.last + 1
    <3> DEFINE new == [pc |-> "window", target |-> t, start |-> reg.last + 1, end |-> 0]
    <3>1. new.pc = "window" /\ new.start = reg.last + 1
      OBVIOUS
    <3>2. Become(p, new)
      BY <1>3 DEF StartConsume
    <3> HIDE DEF new
    <3> QED BY <1>1, <3>1, <3>2, LoneMove
  <2> QED BY <1>3, <2>1 DEF StartConsume, Consuming, Inside, Registered
<1>4. ASSUME NEW step \in Inside, Goto(p, step), reg' = reg, proc[p].pc \in Inside,
             step = "overwrite" => ~ArchiveExists /\ archive' = archive,
             step \in {"check", "advance"} =>
               \A v \in proc[p].start..proc[p].end : Archived(v)'
      PROVE  \A q \in Procs : Consuming(q)'
  <2>1. \A q \in Procs : /\ proc'[q].pc = step /\ proc'[q].start = proc[p].start
                        /\ proc'[q].end = proc[p].end
    BY <1>1, <1>4, LoneMove DEF Goto, ProcType
  <2> QED BY <1>1, <1>4, <2>1 DEF Consuming, Inside, Registered, ArchiveExists
<1>5. CASE ReadWindow(p)
  <2> DEFINE end == EndVersion(proc[p].target)
  <2>1. CASE proc[p].start > end
    BY <1>2, <1>5, <2>1 DEF ReadWindow
  <2>2. ASSUME ~(proc[p].start > end), NEW step \in {"check", "exists"},
               step = "check" => Window(proc[p].start, end) = {},
               Become(p, [proc[p] EXCEPT !.end = end, !.pc = step])
        PROVE  \A q \in Procs : Consuming(q)'
    <3>1. \A q \in Procs : /\ proc'[q].pc = step /\ proc'[q].start = proc[p].start
                          /\ proc'[q].end = end
      <4> DEFINE new == [proc[p] EXCEPT !.end = end, !.pc = step]
      <4>1. new.pc = step /\ new.start = proc[p].start /\ new.end = end
        BY <1>1 DEF ProcType
      <4>2. Become(p, new)
        BY <2>2
      <4> HIDE DEF new
      <4> QED BY <1>1, <4>1, <4>2, LoneMove
    <3>2. Registered /\ proc[p].start = reg.last + 1 /\ proc[p].start \in Nat /\ end \in 0..Len(log)
      BY <1>1, <1>5, EndInLog DEF Consuming, ReadWindow, ProcType
    <3>3. step = "check" => \A v \in proc[p].start..end : Archived(v)
      <4> SUFFICES ASSUME step = "check", NEW v \in proc[p].start..end PROVE Archived(v)
        OBVIOUS
      <4>1. v \in DOMAIN log
        BY <1>1, <3>2 DEF TypeOK, RegType
      <4> QED BY <2>2, <4>1 DEF Window, Archived
    <3> HIDE DEF end
    <3>4. proc[p].start <= end
      BY <2>2, <3>2 
    <3> QED BY <1>5, <2>2, <3>1, <3>2, <3>3, <3>4
            DEF ReadWindow, Consuming, Inside, Registered, Archived, HasRows
  <2> QED BY <1>5, <2>1, <2>2 DEF ReadWindow
<1>6. CASE FindArchive(p)
  BY <1>4, <1>6 DEF FindArchive, Inside
<1>7. ASSUME OverwriteArchive(p) \/ MergeArchive(p) PROVE \A q \in Procs : Consuming(q)'
  <2>1. \A v \in proc[p].start..proc[p].end : Archived(v)'
    <3> SUFFICES ASSUME NEW v \in proc[p].start..proc[p].end, HasRows(v)'
                 PROVE  archive'[v] > 0
      BY DEF Archived
    <3>1. proc[p].start >= 1 /\ proc[p].start \in Nat
      BY <1>1, <1>7 DEF OverwriteArchive, MergeArchive, Consuming, Inside, TypeOK, RegType
    <3>2. v \in DOMAIN log /\ v \in Versions
      BY <1>1, <3>1, BoundAssumption DEF TypeOK, ProcType, Versions
    <3>3. HasRows(v)
      BY <1>7 DEF OverwriteArchive, MergeArchive, HasRows
    <3>4. v \in RowsOf(p)
      BY <3>2, <3>3 DEF RowsOf, Window
    <3>5. archive[v] \in Nat
      BY <1>1, <3>2 DEF TypeOK
    <3> QED BY <1>7, <3>2, <3>4, <3>5 DEF OverwriteArchive, MergeArchive, Inserted
  <2> QED BY <1>4, <1>7, <2>1 DEF OverwriteArchive, MergeArchive, Inside
<1>8. CASE CheckAdvance(p)
  <2>1. proc[p].pc = "check" /\ reg' = reg
    BY <1>8 DEF CheckAdvance
  <2>2. \A v \in proc[p].start..proc[p].end : Archived(v)'
    BY <2>1, WindowStays
  <2> QED BY <1>2, <1>4, <1>8, <2>1, <2>2 DEF CheckAdvance, Inside
<1> QED BY <1>2, <1>3, <1>5, <1>6, <1>7, <1>8 DEF Advance

(* The two writers of the registration, of a lone process.                 *)
LEMMA RegistrationGrows ==
  ASSUME ConsumerInv, [Next]_vars, Registered
  PROVE  /\ reg'.start = reg.start /\ reg'.last >= reg.last
         /\ reg' = reg \/ \E p \in Procs : Advance(p)
<1>1. reg \in RegType(Len(log))
  BY DEF ConsumerInv, TypeOK
<1>2. ASSUME NEW p \in Procs, Advance(p)
      PROVE  reg'.start = reg.start /\ reg'.last >= reg.last
  <2>1. /\ proc[p].start = reg.last + 1 /\ proc[p].start <= proc[p].end
        /\ proc[p].end \in Nat /\ reg.last \in Nat
    BY <1>2 DEF Advance, At, ConsumerInv, Consuming, Inside, TypeOK, ProcType, RegType
  <2> QED BY <1>1, <1>2, <2>1 DEF Advance, RegType
<1>3. CASE reg' = reg
  BY <1>1, <1>3 DEF RegType
<1> QED BY <1>2, <1>3 DEF Next, vars, Commit, Start, Progress, Die, StartRegister, Alter,
             ReadVersion, LookUp, InsertSource, StartConsume, ReadWindow, FindArchive,
             OverwriteArchive, MergeArchive, CheckAdvance

(* The checkpoint moves over rows that are archived, and a new             *)
(* registration starts with nothing to have archived.                      *)
LEMMA CompleteStep ==
  ASSUME ConsumerInv, [Next]_vars
  PROVE  ArchiveComplete' /\ (Registered => reg.start >= 1)'
<1>1. CASE reg' = reg
  BY <1>1, StaysComplete
<1>2. ASSUME NEW p \in Procs, Advance(p)
      PROVE  ArchiveComplete' /\ (Registered => reg.start >= 1)'
  <2>1. /\ Registered /\ proc[p].start = reg.last + 1
        /\ reg.start \in Nat /\ reg.last \in Nat /\ reg.last <= Len(log) /\ Len(log) \in Nat
        /\ reg.start >= 1 /\ reg'.start = reg.start /\ reg'.last = proc[p].end
    BY <1>2 DEF Advance, At, ConsumerInv, Consuming, Inside, TypeOK, RegType
  <2>2. ASSUME NEW v \in reg'.start..reg'.last PROVE Archived(v)'
    <3>1. CASE v <= reg.last
      <4>1. v \in 1..Len(log) /\ v \in reg.start..reg.last
        BY <2>1, <2>2, <3>1
      <4> QED BY <2>1, <4>1, StaysArchived DEF ConsumerInv, ArchiveComplete, Archived
    <3>2. CASE ~(v <= reg.last)
      <4>1. v \in proc[p].start..proc[p].end
        BY <2>1, <2>2, <3>2 DEF ConsumerInv, TypeOK, ProcType
      <4> QED BY <1>2, <4>1, WindowStays DEF Advance, At
    <3> QED BY <3>1, <3>2
  <2> QED BY <2>1, <2>2 DEF ArchiveComplete, Archived, HasRows
<1>3. ASSUME NEW p \in Procs, InsertSource(p)
      PROVE  ArchiveComplete' /\ (Registered => reg.start >= 1)'
  <2>1. ~Registered /\ proc[p].start \in 1..Len(log) /\ Len(log) \in Nat
    BY <1>3 DEF InsertSource, At, ConsumerInv, Consuming, Started, StartedAt, TypeOK
  <2>2. reg'.start = proc[p].start /\ reg'.last = proc[p].start - 1
    BY <1>3, <2>1 DEF InsertSource
  <2> QED BY <2>1, <2>2 DEF ArchiveComplete
<1> QED BY <1>1, <1>2, <1>3 DEF Next, vars, Commit, Start, Progress, Die, StartRegister, Alter,
             ReadVersion, LookUp, StartConsume, ReadWindow, FindArchive,
             OverwriteArchive, MergeArchive, CheckAdvance

LEMMA ConsumerInit == Init => ConsumerInv
<1> SUFFICES ASSUME Init PROVE ConsumerInv
  OBVIOUS
<1>1. TypeOK /\ Started
  BY TypeInit
<1>2. ~Registered
  BY DEF Init, Registered
<1>3. \A p \in Procs : Consuming(p)
  BY DEF Init, Consuming, At, Inside, Idle
<1> QED BY <1>1, <1>2, <1>3 DEF ConsumerInv, ArchiveComplete

LEMMA ConsumerStep == OneProc /\ ConsumerInv /\ [Next]_vars => ConsumerInv'
<1> SUFFICES ASSUME OneProc, ConsumerInv, [Next]_vars PROVE ConsumerInv'
  OBVIOUS
<1>1. TypeOK' /\ Started'
  BY TypeStep DEF ConsumerInv
<1>2. ASSUME NEW p \in Procs, Start(p) \/ Progress(p) \/ Die(p)
      PROVE  \A q \in Procs : Consuming(q)'
  BY <1>2, RegistrationStep, ConsumptionStep DEF Start, Progress
<1>3. \A q \in Procs : Consuming(q)'
  BY <1>2, CommitStep DEF Next
<1> QED BY <1>1, <1>3, CompleteStep DEF ConsumerInv

LEMMA LoneConsumer == OneProc => (Spec => []ConsumerInv)
<1> SUFFICES ASSUME OneProc PROVE Spec => []ConsumerInv
  OBVIOUS
<1>1. ConsumerInv /\ [Next]_vars => ConsumerInv'
  BY ConsumerStep
<1> QED BY <1>1, ConsumerInit, PTL DEF Spec

(* Exactly up to the checkpoint: whatever dies between the archive write   *)
(* and advance_checkpoint, a lone consumer never has a checkpoint past a   *)
(* change row it has not archived.                                         *)
THEOREM CheckpointCovered == OneProc => (Spec => []ArchiveComplete)
<1> SUFFICES ASSUME OneProc PROVE Spec => []ArchiveComplete
  OBVIOUS
<1>1. ConsumerInv => ArchiveComplete
  BY DEF ConsumerInv
<1> QED BY <1>1, LoneConsumer, PTL

(* With one consumer no row ever leaves the archive: write_changes         *)
(* overwrites only what does not exist.                                    *)
THEOREM NothingLeavesArchive == OneProc => (Spec => ArchivePermanent)
<1> SUFFICES ASSUME OneProc PROVE Spec => ArchivePermanent
  OBVIOUS
<1>1. ConsumerInv /\ [Next]_vars => [\A v \in Versions : archive'[v] >= archive[v]]_vars
  BY ArchiveGrows
<1> QED BY <1>1, LoneConsumer, PTL DEF Spec, ArchivePermanent

(* With one consumer a registration is never restarted and its checkpoint  *)
(* never moves back, by register_source or by advance_checkpoint.          *)
THEOREM CheckpointNeverBack == OneProc => (Spec => CheckpointForward)
<1> SUFFICES ASSUME OneProc PROVE Spec => CheckpointForward
  OBVIOUS
<1>1. ConsumerInv /\ [Next]_vars =>
        [Registered => reg'.start = reg.start /\ reg'.last >= reg.last]_vars
  BY RegistrationGrows
<1> QED BY <1>1, LoneConsumer, PTL DEF Spec, CheckpointForward
-----------------------------------------------------------------------------
(* The refinement of IncrementalLoad by a lone consumer.                   *)
LEMMA LoadInit == Init => IncrementalLoad!Init
<1> SUFFICES ASSUME Init PROVE IncrementalLoad!Init
  OBVIOUS
<1>1. DOMAIN log = {} /\ ~Registered /\ reg.last = 0
  BY DEF Init, Registered, NoReg
<1>2. VersionsWithRows = {} /\ VersionsArchived = {} /\ VersionBefore = 0
  BY <1>1 DEF Init, VersionsWithRows, VersionsArchived, VersionBefore
<1>3. 0 \in 0..MaxVersion /\ Registered \in BOOLEAN
  BY BoundAssumption DEF Registered
<1> QED BY <1>1, <1>2, <1>3 DEF IncrementalLoad!Init

(* What the mapping sends to positions, and what a step leaves of it.      *)
LEMMA MappedType ==
  ASSUME ConsumerInv
  PROVE  /\ VersionsWithRows \subseteq 0..MaxVersion /\ VersionsArchived \subseteq 0..MaxVersion
         /\ VersionBefore \in 0..MaxVersion /\ reg.last \in 0..MaxVersion
         /\ Registered => VersionBefore = reg.start - 1 /\ reg.start \in Nat
<1>1. /\ Len(log) \in Nat /\ Len(log) <= MaxVersion /\ DOMAIN log = 1..Len(log)
      /\ reg.start \in 0..Len(log) /\ reg.last \in 0..Len(log)
      /\ Registered => reg.start >= 1
  BY DEF ConsumerInv, TypeOK, RegType
<1> QED BY <1>1, BoundAssumption
        DEF VersionsWithRows, VersionsArchived, VersionBefore, Versions

LEMMA MappedTypeNext ==
  ASSUME ConsumerInv'
  PROVE  /\ VersionsWithRows' \subseteq 0..MaxVersion /\ VersionsArchived' \subseteq 0..MaxVersion
         /\ reg'.last \in 0..MaxVersion
         /\ Registered' => VersionBefore' = reg'.start - 1 /\ reg'.start \in Nat \ {0}
<1>1. /\ Len(log') \in Nat /\ Len(log') <= MaxVersion /\ DOMAIN log' = 1..Len(log')
      /\ reg'.start \in 0..Len(log') /\ reg'.last \in 0..Len(log')
      /\ Registered' => reg'.start >= 1
  BY DEF ConsumerInv, TypeOK, RegType
<1> QED BY <1>1, BoundAssumption
        DEF VersionsWithRows, VersionsArchived, VersionBefore, Versions

LEMMA SourceStep ==
  ASSUME ConsumerInv, ConsumerInv', [Next]_vars, reg' = reg, archive' = archive
  PROVE  IncrementalLoad!Change
<1>1. VersionsWithRows' \in SUBSET (0..MaxVersion)
  BY MappedTypeNext
<1>2. ASSUME NEW v \in VersionsWithRows' \ VersionsWithRows PROVE ~NotAfter(v, reg.last)
  <2>1. v \in DOMAIN log' /\ log'[v] = "rows" /\ (v \in DOMAIN log => log[v] # "rows")
    BY <1>2 DEF VersionsWithRows, HasRows
  <2>2. /\ DOMAIN log = 1..Len(log) /\ DOMAIN log' = 1..Len(log')
        /\ Len(log) \in Nat /\ Len(log') \in Nat /\ reg.last \in 0..Len(log)
    BY DEF ConsumerInv, TypeOK, RegType
  <2>3. v \notin 1..Len(log)
    BY <2>1, <2>2, LogGrows DEF ConsumerInv
  <2> QED BY <2>1, <2>2, <2>3 DEF NotAfter
<1>3. UNCHANGED <<VersionsArchived, Registered, VersionBefore, reg.last>>
  BY DEF VersionsArchived, Registered, VersionBefore
<1> QED BY <1>1, <1>2, <1>3 DEF IncrementalLoad!Change

LEMMA BeginStep ==
  ASSUME ConsumerInv, ConsumerInv', NEW p \in Procs, InsertSource(p), ~Registered
  PROVE  IncrementalLoad!Begin
<1>1. /\ proc[p].start \in 1..Len(log) /\ Len(log) \in Nat
      /\ reg' = [start |-> proc[p].start, last |-> proc[p].start - 1]
  BY DEF InsertSource, At, ConsumerInv, Consuming, Started, StartedAt, TypeOK
<1>2. reg'.start = proc[p].start /\ reg'.last = proc[p].start - 1 /\ Registered'
  BY <1>1 DEF Registered, NoReg
<1>3. VersionBefore' = reg'.last /\ VersionBefore' \in 0..MaxVersion
  BY <1>2, MappedTypeNext
<1>4. UNCHANGED <<VersionsWithRows, VersionsArchived>>
  BY DEF InsertSource, VersionsWithRows, VersionsArchived, HasRows
<1> QED BY <1>2, <1>3, <1>4 DEF IncrementalLoad!Begin

LEMMA DeliveryStep ==
  ASSUME ConsumerInv, ConsumerInv', [Next]_vars, NEW p \in Procs,
         OverwriteArchive(p) \/ MergeArchive(p) \/ Advance(p)
  PROVE  IncrementalLoad!Load
<1>1. Registered /\ log' = log
  BY DEF OverwriteArchive, MergeArchive, Advance, At, ConsumerInv, Consuming, Inside
<1>2. /\ reg'.start = reg.start /\ reg'.last >= reg.last
      /\ reg.last \in 0..MaxVersion /\ reg'.last \in 0..MaxVersion
  BY <1>1, RegistrationGrows, MappedType, MappedTypeNext
<1>3. Registered'
  BY <1>1, <1>2 DEF ConsumerInv, Registered, NoReg, TypeOK, RegType
<1>4. VersionsWithRows' = VersionsWithRows /\ VersionBefore' = VersionBefore
  BY <1>1, <1>2, <1>3 DEF VersionsWithRows, VersionBefore, HasRows
<1>5. VersionsArchived \subseteq VersionsArchived'
  <2> SUFFICES ASSUME NEW v \in Versions, archive[v] > 0 PROVE archive'[v] > 0
    BY DEF VersionsArchived
  <2> QED BY ArchiveGrows DEF ConsumerInv, TypeOK
<1>6. VersionsArchived' \in SUBSET (0..MaxVersion)
  BY MappedTypeNext
<1>7. ASSUME NEW v \in VersionsWithRows, IncrementalLoad!Due(v, reg'.last)
      PROVE  v \in VersionsArchived'
  <2>1. v \in DOMAIN log /\ HasRows(v)' /\ v \in Versions
    BY <1>1, <1>7, BoundAssumption DEF VersionsWithRows, HasRows, ConsumerInv, TypeOK, Versions
  <2>2. v \in reg'.start..reg'.last
    BY <1>1, <1>2, <1>7, <2>1, MappedType
       DEF IncrementalLoad!Due, NotAfter, Versions
  <2> QED BY <1>3, <2>1, <2>2 DEF ConsumerInv, ArchiveComplete, VersionsArchived, Versions
<1>8. NotAfter(reg.last, reg'.last)
  BY <1>2 DEF NotAfter
<1> QED BY <1>1, <1>2, <1>3, <1>4, <1>5, <1>6, <1>7, <1>8 DEF IncrementalLoad!Load

LEMMA LoadStep ==
  ASSUME ConsumerInv, ConsumerInv', [Next]_vars
  PROVE  IncrementalLoad!Next
<1>1. CASE reg' = reg /\ archive' = archive
  BY <1>1, SourceStep DEF IncrementalLoad!Next
<1>2. ASSUME NEW p \in Procs, InsertSource(p) PROVE IncrementalLoad!Next
  <2>1. CASE Registered
    BY <1>1, <1>2, <2>1 DEF InsertSource
  <2> QED BY <1>2, <2>1, BeginStep DEF IncrementalLoad!Next
<1>3. ASSUME NEW p \in Procs, OverwriteArchive(p) \/ MergeArchive(p) \/ Advance(p)
      PROVE  IncrementalLoad!Next
  BY <1>3, DeliveryStep DEF IncrementalLoad!Next
<1> QED BY <1>1, <1>2, <1>3 DEF Next, vars, Commit, Start, Progress, Die, StartRegister, Alter,
             ReadVersion, LookUp, StartConsume, ReadWindow, FindArchive, CheckAdvance

(* A lone consumer is an incremental load: whatever the commits of the     *)
(* source, the targets asked for and the calls that die, consume_table     *)
(* delivers for good and moves the checkpoint only over what it delivered. *)
THEOREM ConsumerIsLoad == OneProc => (Spec => ImplementsLoad)
<1> SUFFICES ASSUME OneProc PROVE Spec => ImplementsLoad
  OBVIOUS
<1>1. ConsumerInv /\ [Next]_vars => ConsumerInv'
  BY ConsumerStep
<1>2. ConsumerInv /\ ConsumerInv' /\ [Next]_vars => [IncrementalLoad!Next]_(IncrementalLoad!vars)
  BY LoadStep
<1> QED BY <1>1, <1>2, LoneConsumer, LoadInit, PTL
        DEF Spec, ImplementsLoad, IncrementalLoad!Spec
=============================================================================
