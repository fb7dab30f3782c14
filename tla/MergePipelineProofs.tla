------------------------ MODULE MergePipelineProofs ------------------------
(***************************************************************************)
(* Theorems about MergePipeline, for every set of keys, events, processing *)
(* sets and runners.  The invariants of a run are stated about what it may *)
(* rely on between its steps; the ledger theorems hold for any number of   *)
(* overlapping runs, ownership for the single runner of the deployment.    *)
(***************************************************************************)
EXTENDS MergePipeline, TLAPS

-----------------------------------------------------------------------------
(* What the helper operators return.                                       *)

(* A wave is part of what it is taken from: no event is merged that was    *)
(* not classified as actionable.                                           *)
LEMMA WavePart ==
  ASSUME NEW S \in SUBSET Events
  PROVE  /\ Wave(S) \in SUBSET Events /\ Wave(S) \subseteq S
         /\ Upserts(Wave(S)) \in SUBSET Wave(S)
         /\ Deletes(Wave(S)) \in SUBSET Wave(S)
  BY DEF Wave, Upserts, Deletes

(* The event a wave holds for a key or an event_id is one of the wave's.   *)
LEMMA EventOnKey ==
  ASSUME NEW W \in SUBSET Events, NEW k, On(W, k) # {}
  PROVE  EventOn(W, k) \in W /\ EventOn(W, k).key = k
<1>1. \E e \in W : e.key = k
  BY DEF On
<1> QED BY <1>1, Zenon DEF EventOn

LEMMA EventOfId ==
  ASSUME NEW W \in SUBSET Events, NEW i, \E e \in W : e.id = i
  PROVE  EventWithId(W, i) \in W /\ EventWithId(W, i).id = i
  BY Zenon DEF EventWithId

(* The fields of an event have their types.                                *)
LEMMA EventFields ==
  ASSUME NEW e \in Events
  PROVE  e.id \in EventIds /\ e.fp \in Fingerprints /\ e.key \in Keys /\ e.seq \in Nat
  BY EventAssumption

(* The applied sequences read by a run are sets of numbers.                *)
LEMMA AppliedSeqsType ==
  ASSUME TypeOK, NEW k \in Keys
  PROVE  AppliedSeqs(k) \in SUBSET Nat
<1> SUFFICES ASSUME NEW i \in EventIds, IsApplied(i)
             PROVE  ledger[i].ev.seq \in Nat
  BY DEF AppliedSeqs
<1>1. ledger[i] \in Record
  BY DEF TypeOK, IsApplied
<1> QED BY <1>1, EventFields DEF Record

(* A run that is not idle has all of its local state.                      *)
LEMMA Running ==
  ASSUME TypeOK, NEW r \in Runners, runner[r].pc # "idle"
  PROVE  runner[r] \in Active
  BY DEF TypeOK, Idle

(* Returning, raising and dying, and moving on within a run, keep the      *)
(* local states well typed.                                                *)
LEMMA LeaveType ==
  ASSUME TypeOK, NEW r \in Runners, Leave(r)
  PROVE  runner' \in [Runners -> Active \cup {Idle}]
  BY DEF Leave, Become, TypeOK

LEMMA UpdateType ==
  ASSUME TypeOK, NEW r \in Runners, NEW new \in Active,
         Become(r, new)
  PROVE  runner' \in [Runners -> Active \cup {Idle}]
  BY DEF Become, TypeOK

LEMMA GotoType ==
  ASSUME TypeOK, NEW r \in Runners, runner[r].pc # "idle",
         NEW step \in Steps, Goto(r, step)
  PROVE  runner' \in [Runners -> Active \cup {Idle}]
<1>1. [runner[r] EXCEPT !.pc = step] \in Active
  BY Running DEF Active
<1> QED BY <1>1, UpdateType DEF Goto

LEMMA MergeSeqsType ==
  ASSUME TypeOK, NEW W \in SUBSET Events
  PROVE  MergeSeqs(W) \in [Keys -> Nat]
<1> SUFFICES ASSUME NEW k \in Keys, \E e \in On(W, k) : e.seq > merged[k]
             PROVE  EventOn(W, k).seq \in Nat
  BY DEF MergeSeqs, TypeOK
<1>1. EventOn(W, k) \in Events
  BY EventOnKey
<1> QED BY <1>1, EventFields
-----------------------------------------------------------------------------
(* Type correctness.                                                       *)

LEMMA TypeInit == Init => TypeOK
<1> SUFFICES ASSUME Init PROVE TypeOK
  OBVIOUS
<1> QED BY DEF Init, TypeOK

LEMMA TypeBootstrapping ==
  ASSUME TypeOK, Bootstrapping PROVE TypeOK'
<1>1. CASE StartBootstrap
  BY <1>1 DEF StartBootstrap, TypeOK
<1>2. CASE BootstrapFails
  BY <1>2 DEF BootstrapFails, TypeOK
<1>3. ASSUME NEW t \in Tables, BootstrapTable(t) PROVE TypeOK'
  <2>1. \A k \in Keys : BootRow(k) \in Row \cup {NoRow}
    BY DEF BootRow, Row
  <2>2. target' \in [Keys -> Row \cup {NoRow}]
    BY <1>3, <2>1 DEF BootstrapTable, TypeOK
  <2>3. merged' \in [Keys -> Nat]
    BY <1>3 DEF BootstrapTable, TypeOK
  <2> QED BY <1>3, <2>2, <2>3 DEF BootstrapTable, TypeOK
<1> QED BY <1>1, <1>2, <1>3 DEF Bootstrapping

LEMMA TypeAdmission ==
  ASSUME TypeOK, NEW r \in Runners,
         \/ \E s \in Submissions, policy \in Policies : Submit(r, s, policy)
         \/ CheckPending(r) \/ ReadHistory(r) \/ Crash(r)
  PROVE  TypeOK'
<1>1. ASSUME NEW s \in Submissions, NEW policy \in Policies, Submit(r, s, policy)
      PROVE  TypeOK'
  <2>1. s.proc \in ProcIds /\ s.batch \in SUBSET Events
    BY EventAssumption
  <2>2. [pc |-> "check", proc |-> s.proc, batch |-> s.batch, policy |-> policy,
         todo |-> s.batch, seqs |-> NoSeqs, act |-> {}] \in Active
    BY <2>1 DEF Active, Steps, NoSeqs
  <2>3. runner' \in [Runners -> Active \cup {Idle}]
    BY <1>1, <2>2, UpdateType DEF Submit
  <2> QED BY <1>1, <2>3 DEF Submit, TypeOK
<1>2. CASE CheckPending(r)
  <2>1. runner[r].pc # "idle"
    BY <1>2 DEF CheckPending, At
  <2>2. runner' \in [Runners -> Active \cup {Idle}]
    BY <1>2, <2>1, GotoType, LeaveType DEF CheckPending, Steps
  <2> QED BY <1>2, <2>2 DEF CheckPending, TypeOK
<1>3. CASE ReadHistory(r)
  <2>1. [k \in Keys |-> AppliedSeqs(k)] \in [Keys -> SUBSET Nat]
    BY AppliedSeqsType
  <2>2. runner[r] \in Active
    BY <1>3, Running DEF ReadHistory, At
  <2>3. [runner[r] EXCEPT !.pc = "classify", !.seqs = [k \in Keys |-> AppliedSeqs(k)]]
          \in Active
    BY <2>1, <2>2 DEF Active, Steps
  <2>4. runner' \in [Runners -> Active \cup {Idle}]
    BY <1>3, <2>3, UpdateType DEF ReadHistory
  <2> QED BY <1>3, <2>4 DEF ReadHistory, TypeOK
<1>4. CASE Crash(r)
  <2>1. runner' \in [Runners -> Active \cup {Idle}]
    BY <1>4, LeaveType DEF Crash
  <2> QED BY <1>4, <2>1 DEF Crash, TypeOK
<1> QED BY <1>1, <1>2, <1>3, <1>4

LEMMA TypeClassification ==
  ASSUME TypeOK, NEW r \in Runners,
         \/ \E e \in Events : Skip(r, e) \/ Stage(r, e) \/ Refuse(r, e)
         \/ PlanWaves(r) \/ MissingTarget(r) \/ UpsertsRaise(r) \/ DeletesRaise(r)
  PROVE  TypeOK'
<1>0. runner[r].pc # "idle" /\ runner[r] \in Active
  <2>1. runner[r].pc # "idle"
    BY DEF Skip, Stage, Refuse, PlanWaves, MissingTarget, UpsertsRaise, DeletesRaise, At
  <2> QED BY <2>1, Running
<1>1. ASSUME NEW e \in Events, Skip(r, e) PROVE TypeOK'
  <2>1. [runner[r] EXCEPT !.todo = runner[r].todo \ {e}] \in Active
    BY <1>0 DEF Active
  <2>2. runner' \in [Runners -> Active \cup {Idle}]
    BY <1>1, <2>1, UpdateType DEF Skip
  <2> QED BY <1>1, <2>2 DEF Skip, TypeOK
<1>2. ASSUME NEW e \in Events, Stage(r, e) PROVE TypeOK'
  <2>1. [runner[r] EXCEPT !.todo = runner[r].todo \ {e}, !.act = runner[r].act \cup {e}]
          \in Active
    BY <1>0 DEF Active
  <2>2. runner' \in [Runners -> Active \cup {Idle}]
    BY <1>2, <2>1, UpdateType DEF Stage
  <2> QED BY <1>2, <2>2 DEF Stage, TypeOK
<1>3. ASSUME NEW e \in Events, Refuse(r, e) PROVE TypeOK'
  <2>1. runner' \in [Runners -> Active \cup {Idle}]
    BY <1>3, LeaveType DEF Refuse
  <2> QED BY <1>3, <2>1 DEF Refuse, TypeOK
<1>4. CASE PlanWaves(r)
  <2>1. runner' \in [Runners -> Active \cup {Idle}]
    BY <1>0, <1>4, GotoType, LeaveType DEF PlanWaves, Steps
  <2> QED BY <1>4, <2>1 DEF PlanWaves, TypeOK
<1>5. CASE MissingTarget(r) \/ UpsertsRaise(r) \/ DeletesRaise(r)
  <2>1. runner' \in [Runners -> Active \cup {Idle}]
    BY <1>5, LeaveType DEF MissingTarget, UpsertsRaise, DeletesRaise
  <2> QED BY <1>5, <2>1 DEF MissingTarget, UpsertsRaise, DeletesRaise, TypeOK
<1> QED BY <1>1, <1>2, <1>3, <1>4, <1>5

LEMMA TypeWave ==
  ASSUME TypeOK, NEW r \in Runners,
         RecordPending(r) \/ MergeUpserts(r) \/ MergeDeletes(r) \/ MarkApplied(r)
  PROVE  TypeOK'
<1> DEFINE W == Wave(runner[r].act)
<1>0. runner[r].pc # "idle" /\ runner[r] \in Active
  <2>1. runner[r].pc # "idle"
    BY DEF RecordPending, MergeUpserts, MergeDeletes, MarkApplied, At
  <2> QED BY <2>1, Running
<1>W. W \in SUBSET Events /\ Upserts(W) \in SUBSET Events /\ Deletes(W) \in SUBSET Events
  <2>1. runner[r].act \in SUBSET Events
    BY <1>0 DEF Active
  <2> QED BY <2>1, WavePart
<1>1. CASE RecordPending(r)
  <2>1. runner' \in [Runners -> Active \cup {Idle}]
    BY <1>0, <1>1, GotoType DEF RecordPending, Steps
  <2>2. ASSUME NEW i \in EventIds, \E e \in W : e.id = i
        PROVE  [ev |-> EventWithId(W, i), proc |-> runner[r].proc, status |-> "PENDING"]
                 \in Record
    <3>1. EventWithId(W, i) \in Events
      BY <1>W, <2>2, EventOfId
    <3> QED BY <1>0, <3>1 DEF Active, Record
  <2>3. ledger' \in [EventIds -> Record \cup {NoRecord}]
    BY <1>1, <2>2 DEF RecordPending, TypeOK
  <2>4. intent' \in [proc: ProcIds \cup {NoRecord}, batch: SUBSET Events]
    BY <1>0, <1>1 DEF RecordPending, Active
  <2> QED BY <1>1, <2>1, <2>3, <2>4 DEF RecordPending, TypeOK
<1>2. CASE MergeUpserts(r)
  <2>1. runner' \in [Runners -> Active \cup {Idle}]
    BY <1>0, <1>2, GotoType DEF MergeUpserts, Steps
  <2>2. merged' \in [Keys -> Nat]
    BY <1>W, <1>2, MergeSeqsType DEF MergeUpserts
  <2>3. ASSUME NEW k \in Keys, On(Upserts(W), k) # {}
        PROVE  UpsertRow(EventOn(Upserts(W), k)) \in Row
    <3>1. EventOn(Upserts(W), k) \in Events
      BY <1>W, <2>3, EventOnKey
    <3> QED BY <3>1 DEF UpsertRow, Row
  <2>4. target' \in [Keys -> Row \cup {NoRow}]
    BY <1>2, <2>3 DEF MergeUpserts, TypeOK
  <2> QED BY <1>2, <2>1, <2>2, <2>4 DEF MergeUpserts, TypeOK
<1>3. CASE MergeDeletes(r)
  <2>1. runner' \in [Runners -> Active \cup {Idle}]
    BY <1>0, <1>3, GotoType DEF MergeDeletes, Steps
  <2>2. merged' \in [Keys -> Nat]
    BY <1>W, <1>3, MergeSeqsType DEF MergeDeletes
  <2>3. ASSUME NEW k \in Keys, On(Deletes(W), k) # {}
        PROVE  DeletedRow(target[k], EventOn(Deletes(W), k), runner[r].policy)
                 \in Row \cup {NoRow}
    <3>1. EventOn(Deletes(W), k) \in Events
      BY <1>W, <2>3, EventOnKey
    <3>2. target[k] \in Row \cup {NoRow}
      BY DEF TypeOK
    <3> QED BY <3>1, <3>2 DEF DeletedRow, Row
  <2>4. target' \in [Keys -> Row \cup {NoRow}]
    BY <1>3, <2>3 DEF MergeDeletes, TypeOK
  <2> QED BY <1>3, <2>1, <2>2, <2>4 DEF MergeDeletes, TypeOK
<1>4. CASE MarkApplied(r)
  <2>1. [runner[r] EXCEPT !.pc = "record", !.act = runner[r].act \ W] \in Active
    BY <1>0 DEF Active, Steps
  <2>2. runner' \in [Runners -> Active \cup {Idle}]
    BY <1>4, <2>1 DEF MarkApplied, Become, TypeOK
  <2>3. ASSUME NEW i \in EventIds, IsPending(i)
        PROVE  [ledger[i] EXCEPT !.status = "APPLIED"] \in Record
    BY <2>3 DEF TypeOK, IsPending, Record
  <2>4. ledger' \in [EventIds -> Record \cup {NoRecord}]
    BY <1>4, <2>3 DEF MarkApplied, TypeOK
  <2> QED BY <1>4, <2>2, <2>4 DEF MarkApplied, TypeOK
<1> QED BY <1>1, <1>2, <1>3, <1>4

(* TypeOK holds in every reachable state, whatever runs overlap and        *)
(* wherever they die.                                                      *)
LEMMA TypeStep == TypeOK /\ [Next]_vars => TypeOK'
<1> SUFFICES ASSUME TypeOK, [Next]_vars PROVE TypeOK'
  OBVIOUS
<1>1. CASE Bootstrapping
  BY <1>1, TypeBootstrapping
<1>2. ASSUME NEW r \in Runners, Working(r) \/ Crash(r) PROVE TypeOK'
  BY <1>2, TypeAdmission, TypeClassification, TypeWave DEF Working, RunStep
<1>3. CASE UNCHANGED vars
  BY <1>3 DEF vars, TypeOK
<1> QED BY <1>1, <1>2, <1>3 DEF Next

THEOREM TypeCorrect == Spec => []TypeOK
  BY TypeInit, TypeStep, PTL DEF Spec
-----------------------------------------------------------------------------
(* The ledger, under any number of overlapping runs.                       *)

(* Only two steps write the ledger, and both respect LedgerStep: phase A   *)
(* leaves existing records untouched, phase C changes a PENDING status.    *)
LEMMA LedgerNext ==
  ASSUME TypeOK, [Next]_vars, NEW i \in EventIds
  PROVE  LedgerStep(i)
<1>0. ledger[i] \in Record \cup {NoRecord} /\ NoRecord \notin Record
  BY NullAssumption DEF TypeOK
<1>1. CASE ledger' = ledger
  BY <1>1 DEF LedgerStep
<1>2. ASSUME NEW r \in Runners, RecordPending(r) PROVE LedgerStep(i)
  <2> DEFINE W == Wave(runner[r].act)
  <2>1. CASE ledger[i] = NoRecord /\ \E e \in W : e.id = i
    <3>1. ledger'[i] = [ev |-> EventWithId(W, i), proc |-> runner[r].proc,
                        status |-> "PENDING"]
      BY <1>2, <2>1 DEF RecordPending
    <3>2. ledger'[i].status = "PENDING"
      BY <3>1
    <3> QED BY <2>1, <3>2 DEF LedgerStep
  <2>2. CASE ~(ledger[i] = NoRecord /\ \E e \in W : e.id = i)
    <3>1. ledger'[i] = ledger[i]
      BY <1>2, <2>2 DEF RecordPending
    <3> QED BY <3>1 DEF LedgerStep
  <2> QED BY <2>1, <2>2
<1>3. ASSUME NEW r \in Runners, MarkApplied(r) PROVE LedgerStep(i)
  <2>1. CASE ledger'[i] = ledger[i]
    BY <2>1 DEF LedgerStep
  <2>2. CASE ledger'[i] # ledger[i]
    <3>1. ledger'[i] = [ledger[i] EXCEPT !.status = "APPLIED"] /\ IsPending(i)
      BY <1>3, <2>2 DEF MarkApplied
    <3>2. ledger[i] \in Record
      BY <1>0, <3>1 DEF IsPending
    <3>3. /\ ledger'[i] \in Record
          /\ ledger'[i].ev = ledger[i].ev /\ ledger'[i].proc = ledger[i].proc
          /\ ledger'[i].status = "APPLIED"
      BY <3>1, <3>2 DEF Record
    <3> QED BY <1>0, <3>2, <3>3 DEF LedgerStep
  <2> QED BY <2>1, <2>2
<1>4. ASSUME NEW r \in Runners, Working(r) \/ Crash(r) PROVE LedgerStep(i)
  <2>1. CASE RecordPending(r) \/ MarkApplied(r)
    BY <1>2, <1>3, <2>1
  <2>2. CASE ~(RecordPending(r) \/ MarkApplied(r))
    <3>1. ledger' = ledger
      BY <1>4, <2>2 DEF Working, RunStep, Crash, Submit, CheckPending, ReadHistory, Skip,
         Stage, Refuse, PlanWaves, MergeUpserts, MissingTarget, UpsertsRaise, DeletesRaise,
         MergeDeletes
    <3> QED BY <1>1, <3>1
  <2> QED BY <2>1, <2>2
<1>5. CASE Bootstrapping
  BY <1>1, <1>5 DEF Bootstrapping, StartBootstrap, BootstrapTable, BootstrapFails
<1>6. CASE UNCHANGED vars
  BY <1>1, <1>6 DEF vars
<1> QED BY <1>4, <1>5, <1>6 DEF Next

(* The intent log is immutable and only moves forward, whatever runs       *)
(* overlap: record_pending_events and mark_events_applied are the only     *)
(* writers of event_apply_ledger.                                          *)
THEOREM LedgerNeverRewritten == Spec => LedgerImmutable
<1>1. TypeOK /\ [Next]_vars => [\A i \in EventIds : LedgerStep(i)]_vars
  BY LedgerNext
<1> QED BY <1>1, TypeCorrect, PTL DEF Spec, LedgerImmutable

-----------------------------------------------------------------------------
(* How a run moves.                                                        *)

(* A step changes the local state of one run only: its own.                *)
LEMMA OwnStep ==
  ASSUME TypeOK, [Next]_vars, NEW r \in Runners, runner'[r] # runner[r]
  PROVE  Working(r) \/ Crash(r)
<1>1. ASSUME NEW s \in Runners, Working(s) \/ Crash(s) PROVE s = r
  <2>1. PICK new : Become(s, new)
    BY <1>1, Zenon DEF Working, RunStep, Crash, Submit, CheckPending, ReadHistory, Skip,
       Stage, Refuse, PlanWaves, RecordPending, MergeUpserts, MissingTarget, UpsertsRaise,
       DeletesRaise, MergeDeletes,
       MarkApplied, Goto, Leave
  <2> QED BY <2>1 DEF Become, TypeOK
<1>2. ~Bootstrapping /\ ~(UNCHANGED vars)
  BY DEF Bootstrapping, StartBootstrap, BootstrapTable, BootstrapFails, vars
<1> QED BY <1>1, <1>2 DEF Next

LEMMA GotoEffect ==
  ASSUME TypeOK, NEW r \in Runners, runner[r].pc # "idle", NEW step, Goto(r, step)
  PROVE  /\ runner'[r].pc = step /\ runner'[r].act = runner[r].act
         /\ runner'[r].proc = runner[r].proc /\ runner'[r].batch = runner[r].batch
  BY Running DEF Goto, Become, TypeOK, Active

(* The steps that take a run to each of its program points, and what they  *)
(* keep; a run is never between phase A and phase C without them.          *)
LEMMA InsideWave ==
  ASSUME TypeOK, NEW r \in Runners, Working(r) \/ Crash(r),
         runner'[r].pc \in {"upsert", "delete", "mark"}
  PROVE  /\ RecordPending(r) \/ MergeUpserts(r) \/ MergeDeletes(r)
         /\ runner'[r].act = runner[r].act
<1>1. CASE RecordPending(r) \/ MergeUpserts(r) \/ MergeDeletes(r)
  BY <1>1, GotoEffect DEF RecordPending, MergeUpserts, MergeDeletes, At
<1>2. CASE Crash(r) \/ MissingTarget(r) \/ UpsertsRaise(r) \/ DeletesRaise(r) \/ (\E e \in Events : Refuse(r, e))
           \/ CheckPending(r) \/ PlanWaves(r)
  <2>1. runner[r].pc # "idle"
    BY <1>2 DEF Crash, MissingTarget, UpsertsRaise, DeletesRaise, CheckPending, PlanWaves,
       Refuse, At
  <2>2. Leave(r) \/ Goto(r, "history") \/ Goto(r, "record")
    BY <1>2 DEF Crash, MissingTarget, UpsertsRaise, DeletesRaise, CheckPending, PlanWaves, Refuse
  <2>3. runner'[r].pc \in {"idle", "history", "record"}
    BY <2>1, <2>2, GotoEffect DEF Leave, Become, Idle, TypeOK
  <2> QED BY <2>3
<1>3. CASE ReadHistory(r) \/ \E e \in Events : Skip(r, e) \/ Stage(r, e)
  <2>1. runner[r] \in Active
    BY <1>3, Running DEF ReadHistory, Skip, Stage, At
  <2>2. CASE ReadHistory(r)
    BY <2>1, <2>2 DEF ReadHistory, Become, TypeOK, Active
  <2>3. ASSUME NEW e \in Events, Skip(r, e) PROVE runner'[r].pc = "classify"
    BY <2>1, <2>3 DEF Skip, At, Become, TypeOK, Active
  <2>4. ASSUME NEW e \in Events, Stage(r, e) PROVE runner'[r].pc = "classify"
    BY <2>1, <2>4 DEF Stage, At, Become, TypeOK, Active
  <2> QED BY <1>3, <2>2, <2>3, <2>4
<1>4. CASE \E s \in Submissions, policy \in Policies : Submit(r, s, policy)
  <2>1. runner'[r].pc = "check"
    BY <1>4 DEF Submit, Become, TypeOK
  <2> QED BY <2>1
<1>5. CASE MarkApplied(r)
  <2>1. runner[r] \in Active
    BY <1>5, Running DEF MarkApplied, At
  <2>2. runner'[r].pc \in {"idle", "record"}
    BY <1>5, <2>1 DEF MarkApplied, Become, TypeOK, Active, Idle
  <2> QED BY <2>2
<1> QED BY <1>1, <1>2, <1>3, <1>4, <1>5 DEF Working, RunStep
-----------------------------------------------------------------------------
(* Write-ahead intents, under any number of overlapping runs.              *)

(* A run that is past phase A of a wave has recorded every event of it.    *)
Recorded ==
  \A r \in Runners : runner[r].pc \in {"upsert", "delete", "mark"} =>
    \A e \in Wave(runner[r].act) : ledger[e.id] # NoRecord

LEMMA RecordedStep ==
  ASSUME TypeOK, Recorded, [Next]_vars
  PROVE  Recorded'
<1> SUFFICES ASSUME NEW r \in Runners, runner'[r].pc \in {"upsert", "delete", "mark"},
                    NEW e \in Wave(runner'[r].act)
             PROVE  ledger'[e.id] # NoRecord
  BY DEF Recorded, Wave, WaveLE
<1>1. \A i \in EventIds : ledger[i] # NoRecord => ledger'[i] # NoRecord
  BY LedgerNext DEF LedgerStep
<1>2. CASE runner'[r] = runner[r]
  <2>1. runner[r].act \in SUBSET Events
    BY <1>2, Running DEF Active
  <2>2. e \in Events /\ ledger[e.id] # NoRecord
    BY <1>2, <2>1, WavePart DEF Recorded
  <2> QED BY <1>1, <2>2, EventFields
<1>3. CASE runner'[r] # runner[r]
  <2>1. /\ RecordPending(r) \/ MergeUpserts(r) \/ MergeDeletes(r)
        /\ runner'[r].act = runner[r].act
    BY <1>3, OwnStep, InsideWave
  <2>2. runner[r].act \in SUBSET Events
    BY <2>1, Running DEF RecordPending, MergeUpserts, MergeDeletes, At, Active
  <2>3. e \in Wave(runner[r].act) /\ e \in Events /\ e.id \in EventIds
    BY <2>1, <2>2, WavePart, EventFields
  <2>4. CASE RecordPending(r)
    <3>1. CASE ledger[e.id] # NoRecord
      BY <1>1, <2>3, <3>1
    <3>2. CASE ledger[e.id] = NoRecord
      <4>1. ledger'[e.id].status = "PENDING" /\ ledger'[e.id] # NoRecord
        <5> DEFINE rec == [ev |-> EventWithId(Wave(runner[r].act), e.id),
                           proc |-> runner[r].proc, status |-> "PENDING"]
        <5>1. ledger'[e.id] = rec
          BY <2>3, <2>4, <3>2 DEF RecordPending
        <5>2. EventWithId(Wave(runner[r].act), e.id) \in Events
          BY <2>2, <2>3, WavePart, EventOfId
        <5>3. runner[r].proc \in ProcIds
          BY <2>4, Running DEF RecordPending, At, Active
        <5>4. rec \in Record
          BY <5>2, <5>3 DEF Record
        <5> QED BY <5>1, <5>4, NullAssumption
      <4> QED BY <4>1
    <3> QED BY <3>1, <3>2
  <2>5. CASE MergeUpserts(r) \/ MergeDeletes(r)
    <3>1. ledger[e.id] # NoRecord
      BY <2>3, <2>5 DEF Recorded, MergeUpserts, MergeDeletes, At
    <3> QED BY <1>1, <2>3, <3>1
  <2> QED BY <2>1, <2>4, <2>5
<1> QED BY <1>2, <1>3

IntentInv == TypeOK /\ Recorded /\ IntentBeforeMutation

LEMMA IntentStep ==
  ASSUME IntentInv, [Next]_vars
  PROVE  IntentBeforeMutation'
<1> USE DEF IntentInv
<1> SUFFICES ASSUME NEW k \in Keys, target'[k] # NoRow, target'[k].last # Bootstrap
             PROVE  ledger'[target'[k].last.id] # NoRecord
  BY DEF IntentBeforeMutation
<1>1. \A i \in EventIds : ledger[i] # NoRecord => ledger'[i] # NoRecord
  BY LedgerNext DEF LedgerStep
<1>2. CASE target'[k] = target[k]
  <2>1. target[k].last \in Events /\ ledger[target[k].last.id] # NoRecord
    BY <1>2 DEF TypeOK, Row, IntentBeforeMutation
  <2> QED BY <1>1, <1>2, <2>1, EventFields
<1>3. ASSUME NEW r \in Runners, MergeUpserts(r) \/ MergeDeletes(r), target'[k] # target[k]
      PROVE  ledger'[target'[k].last.id] # NoRecord
  <2> DEFINE W == Wave(runner[r].act)
  <2>1. runner[r].act \in SUBSET Events
    BY <1>3, Running DEF MergeUpserts, MergeDeletes, At, Active
  <2>2. W \in SUBSET Events /\ Upserts(W) \in SUBSET W /\ Deletes(W) \in SUBSET W
    BY <2>1, WavePart
  <2>3. \A e \in W : ledger[e.id] # NoRecord
    BY <1>3 DEF Recorded, MergeUpserts, MergeDeletes, At
  <2>4. target'[k].last \in W
    <3>1. CASE MergeUpserts(r)
      <4>1. On(Upserts(W), k) # {} /\ target'[k] = UpsertRow(EventOn(Upserts(W), k))
        BY <1>3, <3>1 DEF MergeUpserts
      <4>2. EventOn(Upserts(W), k) \in W
        BY <2>2, <4>1, EventOnKey
      <4> QED BY <4>1, <4>2 DEF UpsertRow
    <3>2. CASE MergeDeletes(r)
      <4>1. /\ On(Deletes(W), k) # {}
            /\ target'[k] = DeletedRow(target[k], EventOn(Deletes(W), k), runner[r].policy)
        BY <1>3, <3>2 DEF MergeDeletes
      <4>2. EventOn(Deletes(W), k) \in W
        BY <2>2, <4>1, EventOnKey
      <4>3. target[k] \in Row
        BY <4>1 DEF DeletedRow, TypeOK
      <4> QED BY <4>1, <4>2, <4>3 DEF DeletedRow, Row
    <3> QED BY <1>3, <3>1, <3>2
  <2> QED BY <1>1, <2>2, <2>3, <2>4, EventFields
<1>4. ASSUME NEW t \in Tables, BootstrapTable(t), target'[k] # target[k]
      PROVE  FALSE
  BY <1>4 DEF BootstrapTable, BootRow
<1>5. ASSUME NEW r \in Runners, Working(r) \/ Crash(r), target'[k] # target[k]
      PROVE  MergeUpserts(r) \/ MergeDeletes(r)
  BY <1>5 DEF Working, RunStep, Crash, Submit, CheckPending, ReadHistory, Skip, Stage,
     Refuse, PlanWaves, RecordPending, MissingTarget, UpsertsRaise, DeletesRaise, MarkApplied
<1>6. CASE StartBootstrap \/ BootstrapFails \/ UNCHANGED vars
  BY <1>2, <1>6 DEF StartBootstrap, BootstrapFails, vars
<1> QED BY <1>2, <1>3, <1>4, <1>5, <1>6 DEF Next, Bootstrapping

(* No target row carries the effect of an event whose intent was not made  *)
(* durable first: phase A precedes phase B for every wave of every run,    *)
(* and no record is ever removed.                                          *)
THEOREM IntentAlwaysFirst == Spec => []IntentBeforeMutation
<1>1. Init => IntentInv
  <2>1. Init => Recorded /\ IntentBeforeMutation
    BY DEF Init, Idle, Recorded, IntentBeforeMutation
  <2> QED BY <2>1, TypeInit DEF IntentInv
<1>2. IntentInv /\ [Next]_vars => IntentInv'
  BY IntentStep, RecordedStep, TypeStep DEF IntentInv
<1> QED BY <1>1, <1>2, PTL DEF Spec, IntentInv
-----------------------------------------------------------------------------
(* Ownership of the PENDING records, for the single runner the pipeline is *)
(* written for.                                                            *)

OneRunner == \A r, s \in Runners : r = s

(* Once a run has been admitted, every PENDING record is its own.          *)
OwnPending ==
  \A r \in Runners : runner[r].pc \in Steps \ {"check"} =>
    \A i \in EventIds : IsPending(i) => ledger[i].proc = runner[r].proc

OwnerInv == TypeOK /\ OwnPending /\ SinglePendingOwner

LEMMA OwnerStep ==
  ASSUME OneRunner, OwnerInv, [Next]_vars
  PROVE  OwnPending' /\ SinglePendingOwner'
<1> USE DEF OwnerInv
<1>1. ASSUME NEW r \in Runners, RecordPending(r)
      PROVE  OwnPending' /\ SinglePendingOwner'
  <2>1. \A i \in EventIds : IsPending(i)' => ledger'[i].proc = runner[r].proc
    <3> SUFFICES ASSUME NEW i \in EventIds, IsPending(i)'
                 PROVE  ledger'[i].proc = runner[r].proc
      OBVIOUS
    <3>1. CASE ledger'[i] = ledger[i]
      BY <1>1, <3>1 DEF OwnPending, RecordPending, At, Steps, IsPending
    <3>2. CASE ledger'[i] # ledger[i]
      <4>1. ledger'[i] = [ev |-> EventWithId(Wave(runner[r].act), i),
                          proc |-> runner[r].proc, status |-> "PENDING"]
        BY <1>1, <3>2 DEF RecordPending
      <4> QED BY <4>1
    <3> QED BY <3>1, <3>2
  <2>2. runner'[r].proc = runner[r].proc
    BY <1>1, GotoEffect DEF RecordPending, At
  <2> QED BY <2>1, <2>2 DEF OneRunner, OwnPending, SinglePendingOwner
<1>2. ASSUME NEW r \in Runners, MarkApplied(r)
      PROVE  OwnPending' /\ SinglePendingOwner'
  <2>1. \A i \in EventIds : IsPending(i)' => IsPending(i) /\ ledger'[i] = ledger[i]
    <3> SUFFICES ASSUME NEW i \in EventIds, ledger'[i] # ledger[i]
                 PROVE  ~(IsPending(i)')
      BY DEF IsPending
    <3>1. ledger'[i] = [ledger[i] EXCEPT !.status = "APPLIED"] /\ ledger[i] \in Record
      BY <1>2 DEF MarkApplied, IsPending, TypeOK
    <3>2. ledger'[i].status = "APPLIED"
      BY <3>1 DEF Record
    <3> QED BY <3>2 DEF IsPending
  <2>2. runner'[r].pc \in Steps => runner'[r].proc = runner[r].proc
    <3>1. runner[r] \in Active
      BY <1>2, Running DEF MarkApplied, At
    <3> QED BY <1>2, <3>1 DEF MarkApplied, Become, TypeOK, Active, Idle, Steps
  <2>3. \A i \in EventIds : IsPending(i) => ledger[i].proc = runner[r].proc
    BY <1>2 DEF OwnPending, MarkApplied, At, Steps
  <2> QED BY <2>1, <2>2, <2>3 DEF OneRunner, OwnPending, SinglePendingOwner
<1>3. ASSUME ledger' = ledger PROVE SinglePendingOwner'
  BY <1>3 DEF SinglePendingOwner, IsPending
<1>4. ASSUME ledger' = ledger, runner' = runner PROVE OwnPending'
  BY <1>4 DEF OwnPending, IsPending
<1>5. ASSUME NEW r \in Runners, ledger' = ledger,
             \/ runner'[r].pc \notin Steps \ {"check"}
             \/ runner[r].pc \in Steps \ {"check"} /\ runner'[r].proc = runner[r].proc
      PROVE  OwnPending'
  BY <1>5 DEF OneRunner, OwnPending, IsPending
<1>6. ASSUME NEW r \in Runners, CheckPending(r) PROVE OwnPending'
  <2>1. CASE Leave(r)
    <3>1. runner'[r].pc \notin Steps
      BY <2>1 DEF Leave, Become, Idle, TypeOK, Steps
    <3> QED BY <1>5, <1>6, <3>1 DEF CheckPending
  <2>2. CASE PendingAdmits(runner[r].proc, runner[r].batch) /\ Goto(r, "history")
    <3>1. runner'[r].proc = runner[r].proc
      BY <1>6, <2>2, GotoEffect DEF CheckPending, At
    <3> QED BY <1>6, <2>2, <3>1 DEF OneRunner, OwnPending, IsPending, CheckPending, PendingAdmits
  <2> QED BY <1>6, <2>1, <2>2 DEF CheckPending
<1>7. ASSUME NEW r \in Runners,
             \/ \E s \in Submissions, policy \in Policies : Submit(r, s, policy)
             \/ Crash(r) \/ MissingTarget(r) \/ UpsertsRaise(r) \/ DeletesRaise(r) \/ \E e \in Events : Refuse(r, e)
      PROVE  OwnPending'
  <2>1. ledger' = ledger
    BY <1>7 DEF Submit, Crash, MissingTarget, UpsertsRaise, DeletesRaise, Refuse
  <2>2. runner'[r].pc \in {"check", "idle"}
    BY <1>7 DEF Submit, Crash, MissingTarget, UpsertsRaise, DeletesRaise, Refuse, Leave, Become,
       Idle, TypeOK
  <2> QED BY <1>5, <2>1, <2>2 DEF Steps
<1>8. ASSUME NEW r \in Runners,
             \/ ReadHistory(r) \/ \E e \in Events : Skip(r, e) \/ Stage(r, e)
             \/ PlanWaves(r) \/ MergeUpserts(r) \/ MergeDeletes(r)
      PROVE  OwnPending'
  <2>1. ledger' = ledger
    BY <1>8 DEF ReadHistory, Skip, Stage, PlanWaves, MergeUpserts, MergeDeletes
  <2>2. runner[r].pc \in Steps \ {"check"} /\ runner[r] \in Active
    <3>1. runner[r].pc \in Steps \ {"check"}
      BY <1>8 DEF ReadHistory, Skip, Stage, PlanWaves, MergeUpserts, MergeDeletes, At, Steps
    <3> QED BY <3>1, Running DEF Steps
  <2>3. runner'[r].pc \notin Steps \/ runner'[r].proc = runner[r].proc
    <3>1. CASE ReadHistory(r)
      BY <2>2, <3>1 DEF ReadHistory, Become, TypeOK, Active
    <3>2. ASSUME NEW e \in Events, Skip(r, e) PROVE runner'[r].proc = runner[r].proc
      BY <2>2, <3>2 DEF Skip, Become, TypeOK, Active
    <3>3. ASSUME NEW e \in Events, Stage(r, e) PROVE runner'[r].proc = runner[r].proc
      BY <2>2, <3>3 DEF Stage, Become, TypeOK, Active
    <3>4. CASE MergeUpserts(r) \/ MergeDeletes(r)
      BY <3>4, GotoEffect DEF MergeUpserts, MergeDeletes, At
    <3>5. CASE PlanWaves(r)
      <4>1. CASE Leave(r)
        BY <4>1 DEF Leave, Become, Idle, TypeOK, Steps
      <4>2. CASE Goto(r, "record")
        BY <3>5, <4>2, GotoEffect DEF PlanWaves, At
      <4> QED BY <3>5, <4>1, <4>2 DEF PlanWaves
    <3> QED BY <1>8, <3>1, <3>2, <3>3, <3>4, <3>5
  <2> QED BY <1>5, <2>1, <2>2, <2>3 DEF Steps
<1>9. ASSUME NEW r \in Runners, Working(r) \/ Crash(r)
      PROVE  OwnPending' /\ SinglePendingOwner'
  <2>1. CASE ~(RecordPending(r) \/ MarkApplied(r))
    <3>1. ledger' = ledger
      BY <1>9, <2>1 DEF Working, RunStep, Crash, Submit, CheckPending, ReadHistory, Skip,
         Stage, Refuse, PlanWaves, MergeUpserts, MissingTarget, UpsertsRaise, DeletesRaise,
         MergeDeletes
    <3>2. OwnPending'
      BY <1>6, <1>7, <1>8, <1>9, <2>1 DEF Working, RunStep
    <3> QED BY <1>3, <3>1, <3>2
  <2> QED BY <1>1, <1>2, <2>1
<1>10. CASE Bootstrapping \/ UNCHANGED vars
  <2>1. ledger' = ledger /\ runner' = runner
    BY <1>10 DEF Bootstrapping, StartBootstrap, BootstrapTable, BootstrapFails, vars
  <2> QED BY <1>3, <1>4, <2>1
<1> QED BY <1>9, <1>10 DEF Next

(* With one run at a time, an interrupted processing set shuts every other *)
(* one out: run() refuses to start over a foreign PENDING record and       *)
(* records under its own processing_id only.                               *)
THEOREM PendingHasOneOwner == OneRunner => (Spec => []SinglePendingOwner)
<1> SUFFICES ASSUME OneRunner PROVE Spec => []SinglePendingOwner
  OBVIOUS
<1>1. Init => OwnerInv
  <2>1. Init => OwnPending /\ SinglePendingOwner
    BY DEF Init, Idle, Steps, OwnPending, SinglePendingOwner, IsPending
  <2> QED BY <2>1, TypeInit DEF OwnerInv
<1>2. OwnerInv /\ [Next]_vars => OwnerInv'
  BY OwnerStep, TypeStep DEF OwnerInv
<1>3. OwnerInv => SinglePendingOwner
  BY DEF OwnerInv
<1> QED BY <1>1, <1>2, <1>3, PTL DEF Spec
=============================================================================
