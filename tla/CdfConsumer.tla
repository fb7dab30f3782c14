---------------------------- MODULE CdfConsumer ----------------------------
(***************************************************************************)
(* Downstream consumption of Delta Change Data Feed (src/cdf): processes   *)
(* that register one source table and consume its commits into the         *)
(* permanent archive, with the SQLite checkpoint advanced last.  A commit  *)
(* of the source table is one entry of its Delta log; the change rows of   *)
(* one commit are read and archived together, so a version stands for its  *)
(* rows.  Versions count from 1 (Delta counts from 0).  Every Delta        *)
(* commit, catalog read and SQL transaction is one step; a process may die *)
(* between any two.                                                        *)
(***************************************************************************)
EXTENDS Naturals, Sequences

CONSTANTS
  Procs,      \* processes calling register_table and consume_table
  MaxVersion  \* bound: commits of the source table

ASSUME BoundAssumption == MaxVersion \in Nat

VARIABLES
  log,      \* log[v]: "rows" if commit v carries change rows, else "meta"
  cdfFrom,  \* first version under delta.enableChangeDataFeed, 0 if it is off
  reg,      \* row of cdf_consumer_state: [start, last], NoReg if absent
  archive,  \* archive[v]: copies of the change rows of commit v
  proc      \* local state of each process

vars == <<log, cdfFrom, reg, archive, proc>>
-----------------------------------------------------------------------------
Versions == 1..MaxVersion
HasRows(v) == log[v] = "rows"

NoReg == [start |-> 0, last |-> 0]
Registered == reg # NoReg

\* archive_exists: the archive is only ever written with some rows.
ArchiveExists == \E v \in Versions : archive[v] > 0

\* target_version None
NoTarget == 0

Steps == {"alter", "version", "lookup", "insert",
          "window", "exists", "overwrite", "merge", "check", "advance"}

Idle == [pc |-> "idle", target |-> NoTarget, start |-> 0, end |-> 0]

Init ==
  /\ log = <<>>
  /\ cdfFrom = 0
  /\ reg = NoReg
  /\ archive = [v \in Versions |-> 0]
  /\ proc = [p \in Procs |-> Idle]

At(p, step) == proc[p].pc = step
Become(p, new) == proc' = [proc EXCEPT ![p] = new]
Goto(p, step) == Become(p, [proc[p] EXCEPT !.pc = step])
Return(p) == Become(p, Idle)
-----------------------------------------------------------------------------
(* The source table: commits of the merge engine, table creation first.    *)
Commit(kind) ==
  /\ Len(log) < MaxVersion
  /\ log' = Append(log, kind)
  /\ UNCHANGED <<cdfFrom, reg, archive, proc>>
-----------------------------------------------------------------------------
(* register_table: the table exists; is CDF enabled? *)
StartRegister(p) ==
  /\ At(p, "idle") /\ log # <<>>
  /\ Goto(p, IF cdfFrom = 0 THEN "alter" ELSE "version")
  /\ UNCHANGED <<log, cdfFrom, reg, archive>>

(* enable_cdf: the ALTER is a commit of its own ... *)
Alter(p) ==
  /\ At(p, "alter") /\ Len(log) < MaxVersion
  /\ log' = Append(log, "meta")
  /\ cdfFrom' = IF cdfFrom = 0 THEN Len(log) + 1 ELSE cdfFrom
  /\ Goto(p, "version")
  /\ UNCHANGED <<reg, archive>>

(* ... and the version is read afterwards, from the head of the history;   *)
(* a table already enabled gives its current version, the same read.       *)
ReadVersion(p) ==
  /\ At(p, "version")
  /\ Become(p, [proc[p] EXCEPT !.pc = "lookup", !.start = Len(log)])
  /\ UNCHANGED <<log, cdfFrom, reg, archive>>

\* Mutant: a registration replaces the one before it.
LookUpNothing(p) ==
  /\ At(p, "lookup")
  /\ reg' = [start |-> proc[p].start, last |-> proc[p].start - 1]
  /\ Return(p)
  /\ UNCHANGED <<log, cdfFrom, archive>>

(* register_source: an existing registration is returned ("ignore") or     *)
(* refused ("error"), and is left alone in both.                           *)
LookUp(p) ==
  /\ At(p, "lookup")
  /\ IF Registered THEN Return(p) ELSE Goto(p, "insert")
  /\ UNCHANGED <<log, cdfFrom, reg, archive>>

\* INSERT; the primary key refuses a second row.
InsertSource(p) ==
  /\ At(p, "insert")
  /\ reg' = IF Registered THEN reg ELSE [start |-> proc[p].start, last |-> proc[p].start - 1]
  /\ Return(p)
  /\ UNCHANGED <<log, cdfFrom, archive>>
-----------------------------------------------------------------------------
(* consume_table: the registration, then the window up to the target.      *)
StartConsume(p, target) ==
  /\ At(p, "idle") /\ Registered
  /\ Become(p, [pc |-> "window", target |-> target, start |-> reg.last + 1, end |-> 0])
  /\ UNCHANGED <<log, cdfFrom, reg, archive>>

\* Mutant: the window ends at the target even if the table is not there yet.
EndVersionUnbounded(target) == IF target # NoTarget THEN target ELSE Len(log)

EndVersion(target) == IF target # NoTarget /\ target < Len(log) THEN target ELSE Len(log)

\* read_changes: commits never change, so the read is of any later moment too.
Window(s, e) == {v \in s..e : v \in DOMAIN log /\ HasRows(v)}

\* Mutant: a window with rows moves the checkpoint before the archive.
ReadWindowAdvanceFirst(p) ==
  /\ At(p, "window")
  /\ LET end == EndVersion(proc[p].target)
     IN IF proc[p].start > end
        THEN Return(p) /\ UNCHANGED reg
        ELSE /\ Become(p, [proc[p] EXCEPT !.end = end, !.pc = "exists"])
             /\ reg' = [reg EXCEPT !.last = end]
  /\ UNCHANGED <<log, cdfFrom, archive>>
\* Mutant: a window without rows leaves the checkpoint where it is.
ReadWindowEmptyReturns(p) ==
  /\ At(p, "window")
  /\ LET end == EndVersion(proc[p].target)
     IN IF proc[p].start > end \/ Window(proc[p].start, end) = {}
        THEN Return(p)
        ELSE Become(p, [proc[p] EXCEPT !.end = end, !.pc = "exists"])
  /\ UNCHANGED <<log, cdfFrom, reg, archive>>

\* No new commits: return.  No rows in the window: straight to the checkpoint.
ReadWindow(p) ==
  /\ At(p, "window")
  /\ LET end == EndVersion(proc[p].target)
     IN IF proc[p].start > end
        THEN Return(p)
        ELSE Become(p, [proc[p] EXCEPT !.end = end,
               !.pc = IF Window(proc[p].start, end) = {} THEN "check" ELSE "exists"])
  /\ UNCHANGED <<log, cdfFrom, reg, archive>>

\* Mutant: every write is an overwrite.
FindNoArchive(p) ==
  /\ At(p, "exists")
  /\ Goto(p, "overwrite")
  /\ UNCHANGED <<log, cdfFrom, reg, archive>>

(* write_changes: an absent archive is created by an overwrite ... *)
FindArchive(p) ==
  /\ At(p, "exists")
  /\ Goto(p, IF ArchiveExists THEN "merge" ELSE "overwrite")
  /\ UNCHANGED <<log, cdfFrom, reg, archive>>

RowsOf(p) == Window(proc[p].start, proc[p].end)

OverwriteArchive(p) ==
  /\ At(p, "overwrite")
  /\ archive' = [v \in Versions |-> IF v \in RowsOf(p) THEN 1 ELSE 0]
  /\ Goto(p, "check")
  /\ UNCHANGED <<log, cdfFrom, reg>>

\* Mutant: rows are appended whether or not their _change_id is there.
Appended(R) == [v \in Versions |-> archive[v] + (IF v \in R THEN 1 ELSE 0)]

(* ... an existing one by a MERGE on _change_id, inserts only.             *)
Inserted(R) == [v \in Versions |-> IF v \in R /\ archive[v] = 0 THEN 1 ELSE archive[v]]

MergeArchive(p) ==
  /\ At(p, "merge")
  /\ archive' = Inserted(RowsOf(p))
  /\ Goto(p, "check")
  /\ UNCHANGED <<log, cdfFrom, reg>>

(* advance_checkpoint: backwards is refused, by a read ... *)
CheckAdvance(p) ==
  /\ At(p, "check")
  /\ IF proc[p].end < reg.last THEN Return(p) ELSE Goto(p, "advance")
  /\ UNCHANGED <<log, cdfFrom, reg, archive>>

(* ... that comes before the UPDATE, in another transaction.               *)
Advance(p) ==
  /\ At(p, "advance")
  /\ reg' = [reg EXCEPT !.last = proc[p].end]
  /\ Return(p)
  /\ UNCHANGED <<log, cdfFrom, archive>>
-----------------------------------------------------------------------------
(* failure_hook, an engine exception or the death of the process.          *)
Die(p) ==
  /\ ~At(p, "idle")
  /\ Return(p)
  /\ UNCHANGED <<log, cdfFrom, reg, archive>>

Progress(p) ==
  \/ Alter(p) \/ ReadVersion(p) \/ LookUp(p) \/ InsertSource(p)
  \/ ReadWindow(p) \/ FindArchive(p) \/ OverwriteArchive(p) \/ MergeArchive(p)
  \/ CheckAdvance(p) \/ Advance(p)

Start(p) == StartRegister(p) \/ \E t \in {NoTarget} \cup Versions : StartConsume(p, t)

Next ==
  \/ \E kind \in {"rows", "meta"} : Commit(kind)
  \/ \E p \in Procs : Start(p) \/ Progress(p) \/ Die(p)

Spec == Init /\ [][Next]_vars

(* A call that started goes on, and consume_table without a target is      *)
(* called again and again (consume_all is meant to be scheduled).          *)
LiveSpec ==
  /\ Spec
  /\ \A p \in Procs : WF_vars(Progress(p)) /\ SF_vars(StartConsume(p, NoTarget))
-----------------------------------------------------------------------------
(* Type invariant, for a log of n commits: nobody is ahead of the log.     *)
RegType(n) == [start : 0..n, last : 0..n]
ProcType(n) == [pc : {"idle"} \cup Steps, target : {NoTarget} \cup Versions,
                start : 0..(n + 1), end : 0..n]

TypeOK ==
  /\ log \in Seq({"rows", "meta"}) /\ Len(log) <= MaxVersion
  /\ cdfFrom \in 0..Len(log)
  /\ reg \in RegType(Len(log))
  /\ archive \in [Versions -> Nat]
  /\ proc \in [Procs -> ProcType(Len(log))]

(* Up to the checkpoint, every change row is in the archive: the window    *)
(* that moved it was archived before, whatever died in between.            *)
ArchiveComplete ==
  Registered => \A v \in reg.start..reg.last : HasRows(v) => archive[v] > 0

(* A window consumed again after a crash adds no second copy of a row.     *)
NoDuplicates == \A v \in Versions : archive[v] <= 1

(* The archive is permanent: no row ever leaves it.                        *)
ArchivePermanent == [][\A v \in Versions : archive'[v] >= archive[v]]_vars

(* Registering again never restarts a consumer, and a checkpoint never     *)
(* moves backwards.                                                        *)
CheckpointForward ==
  [][Registered => reg'.start = reg.start /\ reg'.last >= reg.last]_vars

(* Registration captures the commit that enabled the feed: no change row   *)
(* recorded since lies below the first window.                             *)
NothingBeforeStart ==
  Registered => \A v \in cdfFrom..(reg.start - 1) : ~HasRows(v)

(* Once processes stop dying, every change row of a registered table is    *)
(* archived and the checkpoint reaches the head of the log.                *)
CrashesCease ==
  <>[][(\E kind \in {"rows", "meta"} : Commit(kind)) \/ \E p \in Procs : Start(p) \/ Progress(p)]_vars
CaughtUp ==
  /\ reg.last = Len(log)
  /\ \A v \in reg.start..Len(log) : HasRows(v) => archive[v] = 1
ArchiveCatchesUp == CrashesCease => <>[](Registered => CaughtUp)

(* One process at a time, the consumer is an incremental load of the log's *)
(* change rows: however calls die and are repeated, with or without a      *)
(* target, each step delivers rows for good, or moves the checkpoint over  *)
(* rows that were delivered, or changes nothing of either.                 *)
NotAfter(v, w) == v <= w

VersionsWithRows == {v \in DOMAIN log : HasRows(v)}
VersionsArchived == {v \in Versions : archive[v] > 0}
VersionBefore == IF Registered THEN reg.start - 1 ELSE 0

IncrementalLoad == INSTANCE IncrementalLoad WITH
  Positions <- 0..MaxVersion, AtMost <- NotAfter,
  available <- VersionsWithRows, loaded <- VersionsArchived,
  begun <- Registered, base <- VersionBefore, position <- reg.last

ImplementsLoad == IncrementalLoad!Spec
=============================================================================
