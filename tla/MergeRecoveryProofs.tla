------------------------ MODULE MergeRecoveryProofs ------------------------
(***************************************************************************)
(* What the two-phase protocol of the MERGE pipeline is for: with one run  *)
(* at a time, dying anywhere, the target agrees with the ledger, a row is  *)
(* touched for pending events only, an interrupted set can always be taken *)
(* up again, and the targets implement the oracle.  For every set of keys, *)
(* events and processing sets.                                             *)
(***************************************************************************)
EXTENDS MergePipelineProofs

(* The fingerprint hashes all the fields of an event, its id included.     *)
Identified == \A e, f \in Events : e.id = f.id /\ e.fp = f.fp => e = f

(* All operations are spelt as merge_wave expects them.                    *)
Spelt == \A e \in Events : e.op \in {"INSERT", "UPDATE", "DELETE"}

-----------------------------------------------------------------------------
(* The classification matrix, in terms of the ledger alone.                *)

Open(e) == IsPending(e.id) /\ ledger[e.id].ev = e

Ahead(e) ==
  \A i \in EventIds : IsApplied(i) /\ ledger[i].ev.key = e.key => ledger[i].ev.seq < e.seq

Overtaken(e) ==
  \E i \in EventIds : IsApplied(i) /\ ledger[i].ev.key = e.key /\ e.seq < ledger[i].ev.seq

Settled(e) == Replay(e) \/ (ledger[e.id] = NoRecord /\ Overtaken(e))

Actionable(e) == Ahead(e) /\ (ledger[e.id] = NoRecord \/ Open(e))

(* Read as ReadHistory leaves them, the applied sequences mean this.       *)
LEMMA HistoryReads ==
  ASSUME TypeOK, NEW e \in Events, NEW seqs, seqs[e.key] = AppliedSeqs(e.key)
  PROVE  /\ Skipped(e, seqs) <=> Settled(e)
         /\ Fresh(e, seqs) <=> ledger[e.id] = NoRecord /\ Ahead(e)
<1>1. Stale(e, seqs) <=> ledger[e.id] = NoRecord /\ Overtaken(e)
  BY DEF Stale, Overtaken, AppliedSeqs
<1>2. Fresh(e, seqs) <=> ledger[e.id] = NoRecord /\ Ahead(e)
  BY DEF Fresh, Ahead, AppliedSeqs
<1> QED BY <1>1, <1>2 DEF Skipped, Settled

(* An event is settled or actionable, not both.                            *)
LEMMA NotBoth ==
  ASSUME TypeOK, NEW e \in Events, Actionable(e) PROVE ~Settled(e)
<1>1. ASSUME Overtaken(e) PROVE FALSE
  <2>1. PICK i \in EventIds : IsApplied(i) /\ ledger[i].ev.key = e.key /\ e.seq < ledger[i].ev.seq
    BY <1>1 DEF Overtaken
  <2>2. ledger[i].ev.seq < e.seq
    BY <2>1 DEF Actionable, Ahead
  <2>3. ledger[i].ev \in Events
    BY <2>1 DEF IsApplied, TypeOK, Record
  <2> QED BY <2>1, <2>2, <2>3, EventFields
<1>2. ~Replay(e)
  BY DEF Actionable, Open, Replay, IsPending, IsApplied
<1> QED BY <1>1, <1>2 DEF Settled
-----------------------------------------------------------------------------
(* The inductive invariant.                                                *)

(* Every PENDING event is ahead of all applied ones of its key.            *)
LedgerSound ==
  \A i \in EventIds : /\ ledger[i] # NoRecord => ledger[i].ev.id = i
                      /\ IsPending(i) => Ahead(ledger[i].ev)

Planned == {"record", "upsert", "delete", "mark"}
InWave == {"upsert", "delete", "mark"}

(* What a run knows of its processing set.  From its admission on, every   *)
(* PENDING record is one of its own; what it has classified is settled or  *)
(* to be applied; in a wave, the intents are recorded, and it is this set  *)
(* that a retry will have to submit.                                       *)
Sets(x) ==
  /\ x.batch \subseteq Events /\ x.todo \subseteq x.batch /\ x.act \subseteq x.batch
  /\ \A e, f \in x.batch : e.id = f.id => e = f
  /\ x.pc \in {"check", "history"} => x.todo = x.batch
  /\ x.pc \in Planned => x.todo = {} /\ ~Ambiguous(x.act)

Owns(x) ==
  x.pc \in Steps \ {"check"} =>
    \A i \in EventIds : IsPending(i) => ledger[i].proc = x.proc /\ ledger[i].ev \in x.batch

Sorted(x) ==
  /\ x.pc = "classify" => \A k \in Keys : x.seqs[k] = AppliedSeqs(k)
  /\ x.pc \in {"classify"} \cup Planned =>
       \A e \in x.batch : e \in x.todo \cup x.act \/ Settled(e)
  /\ \A e \in x.act : Actionable(e)

Opened(x) ==
  x.pc \in InWave =>
    (\A e \in Wave(x.act) : Open(e)) /\ intent = [proc |-> x.proc, batch |-> x.batch]

Sound(x) == Sets(x) /\ Owns(x) /\ Sorted(x) /\ Opened(x)

RunInv == TypeOK /\ LedgerSound /\ (\A r \in Runners : Sound(runner[r])) /\ RetryAdmitted

LEMMA RunType ==
  ASSUME RunInv, NEW r \in Runners
  PROVE  /\ TypeOK /\ LedgerSound /\ Sound(runner[r])
         /\ runner[r].pc # "idle" => runner[r] \in Active
BY Running DEF RunInv

(* The PENDING records of an admitted and classified run are among what it *)
(* is to apply.                                                            *)
LEMMA PendingPlanned ==
  ASSUME TypeOK, LedgerSound, NEW x, Sound(x), x.pc \in Planned, NEW i \in EventIds, IsPending(i)
  PROVE  ledger[i].ev \in x.act /\ ledger[i].ev.id = i /\ ledger[i].proc = x.proc
<1>1. /\ ledger[i].ev \in x.batch /\ ledger[i].proc = x.proc /\ ledger[i].ev.id = i
  BY DEF Sound, Owns, Planned, Steps, LedgerSound, IsPending
<1>2. ~Settled(ledger[i].ev)
  BY <1>1 DEF Settled, Replay, IsPending, IsApplied
<1> QED BY <1>1, <1>2 DEF Sound, Sorted, Sets, Planned

(* A run that could go on could also be repeated: its own set is admitted  *)
(* and nothing in it refused.                                              *)
LEMMA OwnAdmissible ==
  ASSUME TypeOK, LedgerSound, NEW x, Sound(x), x.pc \in Planned
  PROVE  Admissible(x.proc, x.batch)
<1> DEFINE seqs == [k \in Keys |-> AppliedSeqs(k)]
           staged == {e \in x.batch : Staged(e, x.proc, seqs)}
<1>1. x.batch \subseteq Events /\ x.act \subseteq x.batch /\ ~Ambiguous(x.act)
      /\ \A e, f \in x.batch : e.id = f.id => e = f
  BY DEF Sound, Sets
<1>2. \A e \in x.batch : seqs[e.key] = AppliedSeqs(e.key)
  BY <1>1, EventFields
<1> HIDE DEF seqs
<1>3. PendingAdmits(x.proc, x.batch)
  <2> SUFFICES ASSUME NEW i \in EventIds, IsPending(i)
               PROVE  /\ ledger[i].proc = x.proc
                      /\ \E e \in x.batch : e.id = i
                      /\ \A e \in x.batch : e.id = i => e.fp = ledger[i].ev.fp
    BY DEF PendingAdmits
  <2>1. ledger[i].ev \in x.act /\ ledger[i].ev.id = i /\ ledger[i].proc = x.proc
    BY PendingPlanned
  <2> QED BY <1>1, <2>1
<1>4. ASSUME NEW e \in x.act PROVE Staged(e, x.proc, seqs)
  <2>1. e \in x.batch /\ e \in Events /\ Ahead(e) /\ (ledger[e.id] = NoRecord \/ Open(e))
    BY <1>1 DEF Sound, Sorted, Actionable
  <2>2. CASE ledger[e.id] = NoRecord
    BY <1>2, <2>1, <2>2, HistoryReads DEF Staged
  <2>3. CASE Open(e)
    <3>1. e.id \in EventIds
      BY <2>1, EventFields
    <3>2. ledger[e.id].proc = x.proc
      BY <2>3, <3>1, PendingPlanned DEF Open
    <3> QED BY <2>3, <3>2 DEF Staged, Recovery, Open
  <2> QED BY <2>1, <2>2, <2>3
<1>5. ASSUME NEW e \in x.batch, e \notin x.act
      PROVE  Skipped(e, seqs) /\ ~Staged(e, x.proc, seqs)
  <2>1. e \in Events /\ Settled(e)
    BY <1>1, <1>5 DEF Sound, Sorted, Sets, Planned
  <2>2. ~Fresh(e, seqs)
    BY <1>2, <2>1, HistoryReads, NotBoth DEF Actionable
  <2>3. ~Recovery(e, x.proc)
    BY <2>1 DEF Recovery, Settled, Replay, IsPending, IsApplied
  <2> QED BY <1>2, <2>1, <2>2, <2>3, HistoryReads DEF Staged
<1>6. staged \subseteq x.act
  BY <1>5
<1>7. ~Ambiguous(staged)
  BY <1>1, <1>6 DEF Ambiguous
<1> QED BY <1>3, <1>4, <1>5, <1>7 DEF Admissible, seqs

IntentCarried ==
  \E r \in Runners :
    /\ Sound(runner[r]) /\ runner[r].pc \in Planned
    /\ intent = [proc |-> runner[r].proc, batch |-> runner[r].batch]

LEMMA IntentAdmissible ==
  TypeOK /\ LedgerSound /\ IntentCarried => RetryAdmitted
BY OwnAdmissible DEF IntentCarried, RetryAdmitted
-----------------------------------------------------------------------------
(* Steps that leave the ledger alone.                                      *)

(* A run that has returned, raised or died knows nothing and owes nothing. *)
LEMMA IdleSound == Sound(Idle)
BY DEF Sound, Sets, Owns, Sorted, Opened, Idle, Planned, InWave, Steps

LEMMA AdmissibleKept ==
  ASSUME UNCHANGED <<ledger, intent>>, Admissible(intent.proc, intent.batch)
  PROVE  Admissible(intent.proc, intent.batch)'
<1> DEFINE seqs == [k \in Keys |-> AppliedSeqs(k)]
           now == [k \in Keys |-> AppliedSeqs(k)']
<1>1. seqs = now
  BY DEF AppliedSeqs, IsApplied
<1>2. \A e : /\ Staged(e, intent.proc, seqs) <=> Staged(e, intent.proc, seqs)'
             /\ Skipped(e, seqs) <=> Skipped(e, seqs)'
  <2> HIDE DEF seqs
  <2> TAKE e
  <2>1. seqs' = seqs
    BY <1>1 DEF seqs
  <2> QED BY <2>1 DEF Staged, Skipped, Replay, Recovery, Fresh, Stale, IsPending, IsApplied
<1>3. PendingAdmits(intent.proc, intent.batch)'
  BY DEF Admissible, PendingAdmits, IsPending
<1> QED BY <1>1, <1>2, <1>3 DEF Admissible, Ambiguous

LEMMA QuietStep ==
  ASSUME OneRunner, RunInv, NEW r \in Runners, NEW new, Sound(new), runner'[r] = new,
         UNCHANGED <<ledger, intent>>
  PROVE  LedgerSound' /\ (\A s \in Runners : Sound(runner[s])') /\ RetryAdmitted'
<1>1. LedgerSound'
  BY DEF RunInv, LedgerSound, IsPending, IsApplied, Ahead
<1>2. Sound(runner[r])'
  BY DEF Sound, Sets, Owns, Sorted, Opened, Settled, Replay, Overtaken, Actionable, Ahead, Open,
         IsPending, IsApplied, AppliedSeqs, Ambiguous, Wave, WaveLE
<1>3. RetryAdmitted'
  BY AdmissibleKept DEF RunInv, RetryAdmitted, IsPending
<1> QED BY <1>1, <1>2, <1>3 DEF OneRunner

Kept == LedgerSound' /\ (\A s \in Runners : Sound(runner[s])') /\ RetryAdmitted'

LEMMA LeaveKept ==
  ASSUME OneRunner, RunInv, NEW r \in Runners, Leave(r), UNCHANGED <<ledger, intent>> PROVE Kept
<1>1. runner'[r] = Idle
  BY DEF Leave, Become, RunInv, TypeOK
<1> QED BY <1>1, IdleSound, QuietStep DEF Kept

(* On to a step from which on nothing new has to hold.                     *)
LEMMA GotoKept ==
  ASSUME OneRunner, RunInv, NEW r \in Runners, runner[r].pc # "idle",
         NEW step \in Steps, Goto(r, step), UNCHANGED <<ledger, intent>>,
         Sound([runner[r] EXCEPT !.pc = step])
  PROVE  Kept
<1>1. runner'[r] = [runner[r] EXCEPT !.pc = step]
  BY DEF Goto, Become, RunInv, TypeOK
<1> PICK new : new = [runner[r] EXCEPT !.pc = step]
  OBVIOUS
<1> QED BY <1>1, QuietStep DEF Kept

LEMMA SubmitKept ==
  ASSUME OneRunner, RunInv, NEW r \in Runners, NEW s \in Submissions, NEW policy \in Policies,
         Submit(r, s, policy)
  PROVE  Kept
<1> PICK new : new = [pc |-> "check", proc |-> s.proc, batch |-> s.batch, policy |-> policy,
                      todo |-> s.batch, seqs |-> NoSeqs, act |-> {}]
  OBVIOUS
<1>1. runner'[r] = new /\ UNCHANGED <<ledger, intent>>
  BY DEF Submit, Become, RunInv, TypeOK
<1>2. s.batch \subseteq Events /\ \A e, f \in s.batch : e.id = f.id => e = f
  BY EventAssumption
<1>3. Sound(new)
  BY <1>2 DEF Sound, Sets, Owns, Sorted, Opened, Planned, InWave, Steps
<1> QED BY <1>1, <1>3, QuietStep DEF Kept

(* Admission: each PENDING record is of an event of this very set.         *)
LEMMA CheckKept ==
  ASSUME OneRunner, Identified, RunInv, NEW r \in Runners, CheckPending(r) PROVE Kept
<1> PICK x : x = runner[r]
  OBVIOUS
<1>1. UNCHANGED <<ledger, intent>> /\ x.pc = "check" /\ x \in Active /\ Sound(x)
  BY RunType DEF CheckPending, At
<1>2. CASE Leave(r)
  BY <1>1, <1>2, LeaveKept
<1>3. CASE PendingAdmits(x.proc, x.batch) /\ Goto(r, "history")
  <2> PICK new : new = [x EXCEPT !.pc = "history"]
    OBVIOUS
  <2>1. /\ new.pc = "history" /\ new.batch = x.batch /\ new.todo = x.todo /\ new.act = x.act
        /\ new.proc = x.proc
    BY <1>1 DEF Active
  <2>2. ASSUME NEW i \in EventIds, IsPending(i)
        PROVE  ledger[i].proc = x.proc /\ ledger[i].ev \in x.batch
    <3>1. PICK e \in x.batch : e.id = i /\ e.fp = ledger[i].ev.fp
      BY <1>3, <2>2 DEF PendingAdmits
    <3>2. ledger[i].ev \in Events /\ ledger[i].ev.id = i /\ e \in Events
      BY <1>1, <2>2 DEF IsPending, RunInv, TypeOK, Record, LedgerSound, Sound, Sets
    <3>3. ledger[i].ev = e
      BY <3>1, <3>2 DEF Identified
    <3> QED BY <1>3, <2>2, <3>3 DEF PendingAdmits
  <2>3. Sound(new)
    BY <1>1, <2>1, <2>2 DEF Sound, Sets, Owns, Sorted, Opened, Planned, InWave, Steps
  <2> QED BY <1>1, <1>3, <2>3, GotoKept DEF Steps
<1> QED BY <1>2, <1>3 DEF CheckPending

LEMMA HistoryKept ==
  ASSUME OneRunner, RunInv, NEW r \in Runners, ReadHistory(r) PROVE Kept
<1> PICK x : x = runner[r]
  OBVIOUS
<1> PICK new : new = [x EXCEPT !.pc = "classify", !.seqs = [k \in Keys |-> AppliedSeqs(k)]]
  OBVIOUS
<1>1. UNCHANGED <<ledger, intent>> /\ x.pc = "history" /\ x \in Active /\ Sound(x)
  BY RunType DEF ReadHistory, At
<1>2. /\ new.pc = "classify" /\ new.batch = x.batch /\ new.todo = x.todo /\ new.act = x.act
      /\ new.proc = x.proc /\ new.seqs = [k \in Keys |-> AppliedSeqs(k)]
  BY <1>1 DEF Active
<1>3. runner'[r] = new
  BY DEF ReadHistory, Become, RunInv, TypeOK
<1>4. Sound(new)
  BY <1>1, <1>2 DEF Sound, Sets, Owns, Sorted, Opened, Planned, InWave, Steps
<1> QED BY <1>1, <1>3, <1>4, QuietStep DEF Kept

(* Classification: what is skipped is settled, what is staged actionable.  *)
LEMMA ClassifyKept ==
  ASSUME OneRunner, Identified, RunInv, NEW r \in Runners, NEW e \in Events,
         Skip(r, e) \/ Stage(r, e)
  PROVE  Kept
<1> PICK x : x = runner[r]
  OBVIOUS
<1>1. /\ UNCHANGED <<ledger, intent>> /\ x.pc = "classify" /\ x \in Active /\ Sound(x)
      /\ e \in x.todo
  BY RunType DEF Skip, Stage, At
<1>2. e.key \in Keys /\ x.seqs[e.key] = AppliedSeqs(e.key) /\ e \in x.batch /\ TypeOK
  BY <1>1, EventFields DEF Sound, Sorted, Sets, RunInv
<1>3. CASE Skip(r, e)
  <2> PICK new : new = [x EXCEPT !.todo = x.todo \ {e}]
    OBVIOUS
  <2>1. /\ new.pc = x.pc /\ new.batch = x.batch /\ new.todo = x.todo \ {e} /\ new.act = x.act
        /\ new.proc = x.proc /\ new.seqs = x.seqs
    BY <1>1 DEF Active
  <2>2. Settled(e)
    BY <1>2, <1>3, HistoryReads DEF Skip
  <2>3. Sound(new)
    BY <1>1, <2>1, <2>2 DEF Sound, Sets, Owns, Sorted, Opened, Planned, InWave
  <2>4. runner'[r] = new
    BY <1>3 DEF Skip, Become, RunInv, TypeOK
  <2> QED BY <1>1, <2>3, <2>4, QuietStep DEF Kept
<1>4. CASE Stage(r, e)
  <2> PICK new : new = [x EXCEPT !.todo = x.todo \ {e}, !.act = x.act \cup {e}]
    OBVIOUS
  <2>1. /\ new.pc = x.pc /\ new.batch = x.batch /\ new.todo = x.todo \ {e}
        /\ new.act = x.act \cup {e} /\ new.proc = x.proc /\ new.seqs = x.seqs
    BY <1>1 DEF Active
  <2>2. Actionable(e)
    <3>1. CASE Fresh(e, x.seqs)
      BY <1>2, <3>1, HistoryReads DEF Actionable
    <3>2. CASE Recovery(e, x.proc)
      <4>1. IsPending(e.id) /\ e.id \in EventIds /\ ledger[e.id].ev.fp = e.fp
        BY <3>2, EventFields DEF Recovery
      <4>2. ledger[e.id].ev \in Events /\ ledger[e.id].ev.id = e.id /\ Ahead(ledger[e.id].ev)
        BY <4>1 DEF RunInv, LedgerSound, TypeOK, Record, IsPending
      <4>3. ledger[e.id].ev = e
        BY <4>1, <4>2 DEF Identified
      <4> QED BY <4>1, <4>2, <4>3 DEF Actionable, Open
    <3> QED BY <1>4, <3>1, <3>2 DEF Stage, Staged
  <2>3. Sound(new)
    BY <1>1, <1>2, <2>1, <2>2 DEF Sound, Sets, Owns, Sorted, Opened, Planned, InWave
  <2>4. runner'[r] = new
    BY <1>4 DEF Stage, Become, RunInv, TypeOK
  <2> QED BY <1>1, <2>3, <2>4, QuietStep DEF Kept
<1> QED BY <1>3, <1>4

LEMMA PlanKept ==
  ASSUME OneRunner, RunInv, NEW r \in Runners, PlanWaves(r) PROVE Kept
<1> PICK x : x = runner[r]
  OBVIOUS
<1>1. UNCHANGED <<ledger, intent>> /\ x.pc = "classify" /\ x \in Active /\ Sound(x) /\ x.todo = {}
  BY RunType DEF PlanWaves, At
<1>2. CASE Leave(r)
  BY <1>1, <1>2, LeaveKept
<1>3. CASE ~Ambiguous(x.act) /\ Goto(r, "record")
  <2> PICK new : new = [x EXCEPT !.pc = "record"]
    OBVIOUS
  <2>1. /\ new.pc = "record" /\ new.batch = x.batch /\ new.todo = x.todo /\ new.act = x.act
        /\ new.proc = x.proc
    BY <1>1 DEF Active
  <2>2. Sound(new)
    BY <1>1, <1>3, <2>1 DEF Sound, Sets, Owns, Sorted, Opened, Planned, InWave, Steps
  <2> QED BY <1>1, <1>3, <2>2, GotoKept DEF Steps
<1> QED BY <1>2, <1>3 DEF PlanWaves

LEMMA MergeKept ==
  ASSUME OneRunner, RunInv, NEW r \in Runners, MergeUpserts(r) \/ MergeDeletes(r) PROVE Kept
<1> PICK x : x = runner[r]
  OBVIOUS
<1>1. UNCHANGED <<ledger, intent>> /\ x.pc \in {"upsert", "delete"} /\ x \in Active /\ Sound(x)
  BY RunType DEF MergeUpserts, MergeDeletes, At
<1>2. PICK step \in {"delete", "mark"} : Goto(r, step)
  BY DEF MergeUpserts, MergeDeletes
<1> PICK new : new = [x EXCEPT !.pc = step]
  OBVIOUS
<1>3. /\ new.pc = step /\ new.batch = x.batch /\ new.todo = x.todo /\ new.act = x.act
      /\ new.proc = x.proc
  BY <1>1 DEF Active
<1>4. Sound(new)
  BY <1>1, <1>3 DEF Sound, Sets, Owns, Sorted, Opened, Planned, InWave, Steps
<1> QED BY <1>1, <1>2, <1>4, GotoKept DEF Steps
-----------------------------------------------------------------------------
(* Steps that write the ledger.                                            *)

(* What phase A does: new records, for events of the wave.                 *)
LEMMA RecordEffect ==
  ASSUME RunInv, NEW r \in Runners, RecordPending(r)
  PROVE  \A i \in EventIds :
           \/ ledger'[i] = ledger[i] /\ (ledger[i] = NoRecord =>
                                           \A e \in Wave(runner[r].act) : e.id # i)
           \/ /\ ledger[i] = NoRecord /\ ledger'[i] # NoRecord
              /\ \E e \in Wave(runner[r].act) :
                   e.id = i /\ ledger'[i] = [ev |-> e, proc |-> runner[r].proc, status |-> "PENDING"]
<1> DEFINE W == Wave(runner[r].act)
<1> SUFFICES ASSUME NEW i \in EventIds, ledger[i] = NoRecord, NEW f \in W, f.id = i
             PROVE  /\ ledger'[i] # NoRecord
                    /\ \E e \in W : /\ e.id = i
                                    /\ ledger'[i] = [ev |-> e, proc |-> runner[r].proc, status |-> "PENDING"]
  <2>1. \A i \in EventIds : ~(ledger[i] = NoRecord /\ \E e \in W : e.id = i) => ledger'[i] = ledger[i]
    BY DEF RecordPending
  <2> QED BY <2>1
<1>1. runner[r] \in Active
  BY RunType DEF RecordPending, At
<1>2. W \in SUBSET Events
  BY <1>1, WavePart DEF Active
<1>3. ledger'[i] = [ev |-> EventWithId(W, i), proc |-> runner[r].proc, status |-> "PENDING"]
  BY DEF RecordPending
<1> HIDE DEF W
<1>4. EventWithId(W, i) \in W /\ EventWithId(W, i).id = i
  BY <1>2, EventOfId
<1>5. ledger'[i] \in Record
  BY <1>1, <1>2, <1>3, <1>4 DEF Record, Active
<1> QED BY <1>3, <1>4, <1>5, NullAssumption

LEMMA RecordKept ==
  ASSUME OneRunner, RunInv, NEW r \in Runners, RecordPending(r) PROVE Kept
<1> PICK x : x = runner[r]
  OBVIOUS
<1> PICK W : W = Wave(x.act)
  OBVIOUS
<1> PICK new : new = [x EXCEPT !.pc = "upsert"]
  OBVIOUS
<1>1. x.pc = "record" /\ x \in Active /\ Sound(x) /\ LedgerSound /\ TypeOK /\ TypeOK'
  BY RunType, TypeWave DEF RecordPending, At
<1>2. /\ new.pc = "upsert" /\ new.batch = x.batch /\ new.todo = x.todo /\ new.act = x.act
      /\ new.proc = x.proc
  BY <1>1 DEF Active
<1>3. runner'[r] = new /\ intent' = [proc |-> x.proc, batch |-> x.batch]
  BY <1>1 DEF RecordPending, Goto, Become, TypeOK
<1>4. /\ W \subseteq x.act /\ x.act \subseteq x.batch /\ x.batch \subseteq Events
      /\ \A e, f \in x.batch : e.id = f.id => e = f
      /\ x.todo = {} /\ ~Ambiguous(x.act)
      /\ \A e \in x.act : Actionable(e)
  BY <1>1 DEF Wave, Sound, Sets, Sorted, Planned
<1>5. \A i \in EventIds :
        \/ ledger'[i] = ledger[i] /\ (ledger[i] = NoRecord => \A e \in W : e.id # i)
        \/ /\ ledger[i] = NoRecord /\ ledger'[i] # NoRecord
           /\ \E e \in W : e.id = i /\ ledger'[i] = [ev |-> e, proc |-> x.proc, status |-> "PENDING"]
  BY RecordEffect
<1>6. \A i \in EventIds : /\ IsApplied(i)' <=> IsApplied(i)
                          /\ IsApplied(i) => ledger'[i] = ledger[i]
                          /\ IsPending(i) => ledger'[i] = ledger[i]
                          /\ IsPending(i)' => IsPending(i) \/ \E e \in W : e.id = i /\ ledger'[i].ev = e
                                                                       /\ ledger'[i].proc = x.proc
  <2> SUFFICES ASSUME NEW i \in EventIds
               PROVE  /\ IsApplied(i)' <=> IsApplied(i)
                      /\ IsApplied(i) => ledger'[i] = ledger[i]
                      /\ IsPending(i) => ledger'[i] = ledger[i]
                      /\ IsPending(i)' => IsPending(i) \/ \E e \in W : e.id = i /\ ledger'[i].ev = e
                                                                   /\ ledger'[i].proc = x.proc
    OBVIOUS
  <2>1. CASE ledger'[i] = ledger[i]
    BY <2>1 DEF IsApplied, IsPending
  <2>2. ASSUME NEW e \in W, e.id = i, ledger[i] = NoRecord,
               ledger'[i] = [ev |-> e, proc |-> x.proc, status |-> "PENDING"]
        PROVE  ~IsApplied(i)' /\ ledger'[i].ev = e /\ ledger'[i].proc = x.proc
    BY <2>2 DEF IsApplied
  <2> QED BY <1>5, <2>1, <2>2 DEF IsApplied, IsPending
<1>7. \A e \in Events : e.id \in EventIds
  BY EventFields
<1>8. \A e \in Events : Ahead(e) => Ahead(e)'
  BY <1>6 DEF Ahead
<1>9. \A e \in W : IsPending(e.id)' /\ ledger'[e.id].ev = e
  <2> SUFFICES ASSUME NEW e \in W PROVE IsPending(e.id)' /\ ledger'[e.id].ev = e
    OBVIOUS
  <2>1. e \in x.act /\ e \in Events /\ e.id \in EventIds /\ Actionable(e)
    BY <1>4, <1>7
  <2>2. CASE ledger[e.id] = NoRecord
    <3>1. PICK f \in W : /\ f.id = e.id /\ ledger'[e.id] # NoRecord
                         /\ ledger'[e.id] = [ev |-> f, proc |-> x.proc, status |-> "PENDING"]
      BY <1>5, <2>1, <2>2
    <3>2. f = e
      BY <1>4, <3>1
    <3> QED BY <3>1, <3>2 DEF IsPending
  <2>3. CASE Open(e)
    BY <1>5, <2>1, <2>3 DEF Open, IsPending
  <2> QED BY <2>1, <2>2, <2>3 DEF Actionable
<1>10. LedgerSound'
  <2> SUFFICES ASSUME NEW i \in EventIds, ledger'[i] # NoRecord
               PROVE  ledger'[i].ev.id = i /\ (IsPending(i)' => Ahead(ledger[i].ev)')
    BY DEF LedgerSound, IsPending
  <2>1. CASE ledger'[i] = ledger[i]
    <3>1. ledger[i].ev \in Events /\ (IsPending(i)' => IsPending(i))
      BY <1>1, <2>1 DEF TypeOK, Record, IsPending
    <3>2. IsPending(i) => Ahead(ledger[i].ev)
      BY <1>1 DEF LedgerSound
    <3> QED BY <1>1, <1>6, <2>1, <3>1, <3>2 DEF LedgerSound, Ahead
  <2>2. ASSUME NEW e \in W, e.id = i,
               ledger'[i] = [ev |-> e, proc |-> x.proc, status |-> "PENDING"]
        PROVE  ledger'[i].ev.id = i /\ Ahead(ledger[i].ev)'
    <3>1. e \in Events /\ Ahead(e) /\ ledger'[i].ev = e
      BY <1>4, <2>2 DEF Actionable
    <3> QED BY <1>6, <2>2, <3>1 DEF Ahead
  <2> QED BY <1>5, <2>1, <2>2
<1>11. Sound(runner[r])'
  <2>1. Sets(runner[r])'
    BY <1>1, <1>2, <1>3, <1>4 DEF Sound, Sets, Ambiguous, Planned
  <2>2. Owns(runner[r])'
    <3> SUFFICES ASSUME NEW i \in EventIds, IsPending(i)'
                 PROVE  ledger'[i].proc = x.proc /\ ledger'[i].ev \in x.batch
      BY <1>2, <1>3 DEF Owns
    <3>1. CASE IsPending(i)
      BY <1>1, <1>6, <3>1 DEF Sound, Owns, Steps
    <3>2. CASE ~IsPending(i)
      BY <1>4, <1>6, <3>2
    <3> QED BY <3>1, <3>2
  <2>3. \A e \in x.act : Actionable(e)'
    <3> SUFFICES ASSUME NEW e \in x.act PROVE Actionable(e)'
      OBVIOUS
    <3>1. e \in x.batch /\ e \in Events /\ e.id \in EventIds /\ Ahead(e)'
      BY <1>4, <1>7, <1>8 DEF Actionable
    <3>2. CASE e \in W
      BY <1>9, <3>1, <3>2 DEF Actionable, Open
    <3>3. CASE e \notin W
      <4>1. \A f \in W : f.id # e.id
        BY <1>4, <3>1, <3>3
      <4>2. ledger'[e.id] = ledger[e.id]
        BY <1>5, <3>1, <4>1
      <4> QED BY <1>4, <3>1, <4>2 DEF Actionable, Open, IsPending
    <3> QED BY <3>2, <3>3
  <2>4. \A e \in x.batch : e \in x.act \/ Settled(e)'
    <3> SUFFICES ASSUME NEW e \in x.batch, e \notin x.act PROVE Settled(e)'
      OBVIOUS
    <3>1. e \in Events /\ e.id \in EventIds /\ Settled(e)
      BY <1>1, <1>4, <1>7 DEF Sound, Sorted, Planned
    <3>2. \A f \in W : f.id # e.id
      BY <1>4
    <3>3. ledger'[e.id] = ledger[e.id]
      BY <1>5, <3>1, <3>2
    <3>4. Overtaken(e) => Overtaken(e)'
      BY <1>6 DEF Overtaken
    <3> QED BY <3>1, <3>3, <3>4 DEF Settled, Replay, IsApplied
  <2>5. Sorted(runner[r])'
    BY <1>2, <1>3, <2>3, <2>4 DEF Sorted
  <2>6. Opened(runner[r])'
    BY <1>2, <1>3, <1>9 DEF Opened, Open, Wave, WaveLE
  <2> QED BY <2>1, <2>2, <2>5, <2>6 DEF Sound
<1>12. RetryAdmitted'
  <2>1. (TypeOK /\ LedgerSound /\ IntentCarried => RetryAdmitted)'
    BY IntentAdmissible, PTL
  <2> QED BY <1>1, <1>2, <1>3, <1>10, <1>11, <2>1 DEF IntentCarried, Planned
<1> QED BY <1>10, <1>11, <1>12 DEF Kept, OneRunner

(* What phase C does: the records of the wave, all PENDING, are APPLIED.   *)
LEMMA MarkEffect ==
  ASSUME RunInv, NEW r \in Runners, MarkApplied(r)
  PROVE  \A i \in EventIds :
           \/ ledger'[i] = ledger[i] /\ \A e \in Wave(runner[r].act) : e.id # i
           \/ \E e \in Wave(runner[r].act) :
                /\ e.id = i /\ Open(e) /\ IsApplied(i)' /\ ledger'[i].ev = e
<1> DEFINE W == Wave(runner[r].act)
<1>1. \A e \in W : Open(e)
  BY RunType DEF MarkApplied, At, Sound, Opened, InWave
<1> SUFFICES ASSUME NEW i \in EventIds
             PROVE  \/ ledger'[i] = ledger[i] /\ \A e \in W : e.id # i
                    \/ \E e \in W : e.id = i /\ Open(e) /\ IsApplied(i)' /\ ledger'[i].ev = e
  OBVIOUS
<1>2. ASSUME NEW e \in W, e.id = i PROVE IsApplied(i)' /\ ledger'[i].ev = e
  <2>1. IsPending(i) /\ ledger[i].ev = e /\ ledger[i] \in Record
    BY <1>1, <1>2 DEF Open, IsPending, RunInv, TypeOK
  <2>2. ledger'[i] = [ledger[i] EXCEPT !.status = "APPLIED"]
    BY <1>2, <2>1 DEF MarkApplied
  <2>3. ledger'[i] \in Record /\ ledger'[i].status = "APPLIED" /\ ledger'[i].ev = e
    BY <2>1, <2>2 DEF Record
  <2> QED BY <2>3, NullAssumption DEF IsApplied
<1>3. (\A e \in W : e.id # i) => ledger'[i] = ledger[i]
  BY DEF MarkApplied
<1> QED BY <1>1, <1>2, <1>3

(* What is left of an unambiguous plan is ahead of its first wave.         *)
LEMMA WaveFirst ==
  ASSUME NEW S \in SUBSET Events, ~Ambiguous(S), NEW e \in Wave(S), NEW f \in S,
         e.key = f.key, e # f
  PROVE  e.seq < f.seq
<1>1. e \in S /\ WaveLE(e, f) /\ e \in Events /\ f \in Events
  BY DEF Wave
<1>2. e.seq \in Nat /\ f.seq \in Nat /\ TableOf[e.key] \in Nat
  BY <1>1, EventFields, EventAssumption
<1> QED BY <1>1, <1>2 DEF WaveLE, Ambiguous

LEMMA MarkKept ==
  ASSUME OneRunner, RunInv, NEW r \in Runners, MarkApplied(r) PROVE Kept
<1> PICK x : x = runner[r]
  OBVIOUS
<1> PICK W : W = Wave(x.act)
  OBVIOUS
<1> PICK left : left = x.act \ W
  OBVIOUS
<1>1. x.pc = "mark" /\ x \in Active /\ Sound(x) /\ LedgerSound /\ TypeOK /\ TypeOK'
  BY RunType, TypeWave DEF MarkApplied, At
<1>2. intent' = [proc |-> x.proc, batch |-> x.batch]
  BY <1>1 DEF Sound, Opened, InWave, MarkApplied
<1>3. /\ W \subseteq x.act /\ x.act \subseteq x.batch /\ x.batch \subseteq Events
      /\ \A e, f \in x.batch : e.id = f.id => e = f
      /\ x.todo = {} /\ ~Ambiguous(x.act)
      /\ \A e \in x.act : Actionable(e)
  BY <1>1 DEF Wave, Sound, Sets, Sorted, Planned
<1>4. \A i \in EventIds :
        \/ ledger'[i] = ledger[i] /\ \A e \in W : e.id # i
        \/ \E e \in W : e.id = i /\ Open(e) /\ IsApplied(i)' /\ ledger'[i].ev = e
  BY MarkEffect
<1>5. \A i \in EventIds :
        /\ IsApplied(i) => ledger'[i] = ledger[i] /\ IsApplied(i)'
        /\ IsApplied(i)' => IsApplied(i) \/ ledger'[i].ev \in W
        /\ IsPending(i)' => IsPending(i) /\ ledger'[i] = ledger[i] /\ \A e \in W : e.id # i
  BY <1>4 DEF IsApplied, IsPending, Open
<1>6. \A e \in Events : e.id \in EventIds
  BY EventFields
<1>7. ASSUME NEW f \in left PROVE Ahead(f)'
  <2> SUFFICES ASSUME NEW i \in EventIds, IsApplied(i)', ledger'[i].ev.key = f.key
               PROVE  ledger'[i].ev.seq < f.seq
    BY DEF Ahead
  <2>1. CASE IsApplied(i)
    BY <1>3, <1>5, <2>1 DEF Actionable, Ahead
  <2>2. CASE ledger'[i].ev \in W
    BY <1>3, <2>2, WaveFirst
  <2> QED BY <1>5, <2>1, <2>2
<1>8. ASSUME NEW f \in left PROVE ledger'[f.id] = ledger[f.id]
  <2>1. \A e \in W : e.id # f.id
    BY <1>3
  <2> QED BY <1>3, <1>4, <1>6, <2>1
<1>9. ASSUME NEW i \in EventIds, IsPending(i)'
      PROVE  /\ ledger'[i] = ledger[i] /\ ledger[i].ev.id = i
             /\ ledger[i].ev \in left /\ ledger[i].proc = x.proc
  <2>1. /\ ledger[i].ev \in x.act /\ ledger[i].ev.id = i /\ ledger[i].proc = x.proc
    BY <1>1, <1>5, <1>9, PendingPlanned DEF Planned
  <2> QED BY <1>5, <1>9, <2>1
<1>10. LedgerSound'
  <2> SUFFICES ASSUME NEW i \in EventIds, ledger'[i] # NoRecord
               PROVE  ledger'[i].ev.id = i /\ (IsPending(i)' => Ahead(ledger[i].ev)')
    BY DEF LedgerSound, IsPending
  <2>1. ledger'[i].ev.id = i
    BY <1>1, <1>4 DEF LedgerSound
  <2>2. ASSUME IsPending(i)' PROVE Ahead(ledger[i].ev)'
    <3>1. PICK f \in left : ledger'[i].ev = f
      BY <1>9, <2>2
    <3> QED BY <1>7, <3>1 DEF Ahead
  <2> QED BY <2>1, <2>2
<1>11. CASE left = {}
  <2>1. runner'[r] = Idle
    BY <1>1, <1>11 DEF MarkApplied, Become, TypeOK
  <2>2. Sound(runner[r])'
    BY <2>1 DEF Sound, Sets, Owns, Sorted, Opened, Idle, Planned, InWave, Steps
  <2>3. RetryAdmitted'
    BY <1>9, <1>11 DEF RetryAdmitted
  <2> QED BY <1>10, <2>2, <2>3 DEF Kept, OneRunner
<1>12. CASE left # {}
  <2> PICK new : new = [x EXCEPT !.pc = "record", !.act = left]
    OBVIOUS
  <2>1. /\ new.pc = "record" /\ new.batch = x.batch /\ new.todo = x.todo /\ new.act = left
        /\ new.proc = x.proc
    BY <1>1 DEF Active
  <2>2. runner'[r] = new
    BY <1>1, <1>12 DEF MarkApplied, Become, TypeOK
  <2>3. Sets(runner[r])'
    BY <1>3, <2>1, <2>2 DEF Sets, Ambiguous, Planned
  <2>4. Owns(runner[r])'
    BY <1>3, <1>9, <2>1, <2>2 DEF Owns
  <2>5. \A e \in left : Actionable(e)'
    <3> SUFFICES ASSUME NEW e \in left PROVE Actionable(e)'
      OBVIOUS
    <3>1. Ahead(e)' /\ ledger'[e.id] = ledger[e.id] /\ Actionable(e)
      BY <1>3, <1>7, <1>8
    <3> QED BY <3>1 DEF Actionable, Open, IsPending
  <2>6. \A e \in x.batch : e \in left \/ Settled(e)'
    <3> SUFFICES ASSUME NEW e \in x.batch, e \notin left PROVE Settled(e)'
      OBVIOUS
    <3>1. e.id \in EventIds /\ e \in Events
      BY <1>3, <1>6
    <3>2. CASE e \in W
      <4>1. IsApplied(e.id)' /\ ledger'[e.id].ev = e
        BY <1>3, <1>4, <3>1, <3>2
      <4> QED BY <4>1 DEF Settled, Replay
    <3>3. CASE e \notin W
      <4>1. Settled(e)
        BY <1>1, <3>3 DEF Sound, Sorted, Planned, Sets
      <4>2. ledger'[e.id] = ledger[e.id]
        <5>1. \A f \in W : f.id # e.id
          BY <1>3, <3>3
        <5> QED BY <1>4, <3>1, <5>1
      <4>3. Overtaken(e) => Overtaken(e)'
        BY <1>5 DEF Overtaken
      <4> QED BY <4>1, <4>2, <4>3 DEF Settled, Replay, IsApplied
    <3> QED BY <3>2, <3>3
  <2>7. Sound(runner[r])'
    BY <2>1, <2>2, <2>3, <2>4, <2>5, <2>6 DEF Sound, Sorted, Opened, InWave
  <2>8. RetryAdmitted'
    <3>1. (TypeOK /\ LedgerSound /\ IntentCarried => RetryAdmitted)'
      BY IntentAdmissible, PTL
    <3> QED BY <1>1, <1>2, <1>10, <2>1, <2>2, <2>7, <3>1 DEF IntentCarried, Planned
  <2> QED BY <1>10, <2>7, <2>8 DEF Kept, OneRunner
<1> QED BY <1>11, <1>12

LEMMA RunInit == Init => RunInv
<1> SUFFICES ASSUME Init PROVE LedgerSound /\ (\A r \in Runners : Sound(runner[r])) /\ RetryAdmitted
  BY TypeInit DEF RunInv
<1>1. \A r \in Runners : runner[r] = Idle
  BY DEF Init
<1>2. \A i \in EventIds : ledger[i] = NoRecord
  BY DEF Init
<1> QED BY <1>1, <1>2, IdleSound DEF LedgerSound, RetryAdmitted, IsPending

LEMMA RunNext ==
  ASSUME OneRunner, Identified, RunInv, [Next]_vars PROVE RunInv'
<1> SUFFICES Kept
  <2>1. TypeOK'
    BY TypeStep DEF RunInv
  <2> QED BY <2>1 DEF Kept, RunInv
<1>1. ASSUME NEW r \in Runners, Working(r) \/ Crash(r) PROVE Kept
  <2>1. CASE \E s \in Submissions, policy \in Policies : Submit(r, s, policy)
    BY <2>1, SubmitKept
  <2>2. CASE CheckPending(r) \/ ReadHistory(r) \/ PlanWaves(r)
    BY <2>2, CheckKept, HistoryKept, PlanKept
  <2>3. CASE \E e \in Events : Skip(r, e) \/ Stage(r, e)
    BY <2>3, ClassifyKept
  <2>4. CASE Crash(r) \/ MissingTarget(r) \/ UpsertsRaise(r) \/ DeletesRaise(r) \/ \E e \in Events : Refuse(r, e)
    BY <2>4, LeaveKept DEF Crash, MissingTarget, UpsertsRaise, DeletesRaise, Refuse
  <2>5. CASE MergeUpserts(r) \/ MergeDeletes(r)
    BY <2>5, MergeKept
  <2>6. CASE RecordPending(r) \/ MarkApplied(r)
    BY <2>6, RecordKept, MarkKept
  <2> QED BY <1>1, <2>1, <2>2, <2>3, <2>4, <2>5, <2>6 DEF Working, RunStep
<1>2. CASE Bootstrapping \/ UNCHANGED vars
  <2>1. UNCHANGED <<ledger, intent, runner>>
    BY <1>2 DEF Bootstrapping, StartBootstrap, BootstrapTable, BootstrapFails, vars
  <2>2. CASE Runners = {}
    BY <2>1, <2>2, AdmissibleKept DEF RunInv, LedgerSound, IsPending, IsApplied, Ahead, Kept,
       RetryAdmitted
  <2>3. ASSUME NEW r \in Runners PROVE Kept
    <3> PICK new : new = runner[r]
      OBVIOUS
    <3> QED BY <2>1, QuietStep DEF Kept, RunInv
  <2> QED BY <2>2, <2>3
<1> QED BY <1>1, <1>2 DEF Next
-----------------------------------------------------------------------------
LEMMA RunInvariant == OneRunner /\ Identified => (Spec => []RunInv)
<1> SUFFICES ASSUME OneRunner, Identified PROVE Spec => []RunInv
  OBVIOUS
<1>1. RunInv /\ [Next]_vars => RunInv'
  BY RunNext
<1> QED BY <1>1, RunInit, PTL DEF Spec

(* No two applied events of a key have the same sequence number.           *)
SequencesApart ==
  \A i, j \in EventIds :
    /\ IsApplied(i) /\ IsApplied(j)
    /\ ledger[i].ev.key = ledger[j].ev.key /\ ledger[i].ev.seq = ledger[j].ev.seq
    => i = j

LEMMA ApartStep ==
  ASSUME RunInv, SequencesApart, [Next]_vars PROVE SequencesApart'
<1> SUFFICES ASSUME NEW i \in EventIds, NEW j \in EventIds, IsApplied(i)', IsApplied(j)',
                    ledger'[i].ev.key = ledger'[j].ev.key, ledger'[i].ev.seq = ledger'[j].ev.seq
             PROVE  i = j
  BY DEF SequencesApart
<1>1. ASSUME NEW n \in EventIds, IsApplied(n)'
      PROVE  ledger'[n].ev = ledger[n].ev /\ ledger[n].ev \in Events /\ (IsApplied(n) \/ IsPending(n))
  BY <1>1, LedgerNext DEF LedgerStep, IsApplied, IsPending, RunInv, TypeOK, Record
<1>2. ledger[i].ev.key = ledger[j].ev.key /\ ledger[i].ev.seq = ledger[j].ev.seq
  BY <1>1
<1>3. ledger[i].ev.seq \in Nat /\ ledger[j].ev.seq \in Nat
  BY <1>1, EventFields
<1>4. CASE IsApplied(i) /\ IsApplied(j)
  BY <1>2, <1>4 DEF SequencesApart
<1>5. CASE IsPending(i) /\ IsApplied(j)
  BY <1>2, <1>3, <1>5 DEF RunInv, LedgerSound, Ahead
<1>6. CASE IsApplied(i) /\ IsPending(j)
  BY <1>2, <1>3, <1>6 DEF RunInv, LedgerSound, Ahead
<1>7. CASE IsPending(i) /\ IsPending(j)
  <2>1. PICK r \in Runners : MarkApplied(r)
    <3>1. ledger'[i] # ledger[i] /\ ledger[i] # NoRecord
      BY <1>7 DEF IsPending, IsApplied
    <3>2. \A r \in Runners : ~RecordPending(r)
      BY <3>1 DEF RecordPending
    <3> QED
      BY <3>1, <3>2 DEF Next, vars, Bootstrapping, StartBootstrap, BootstrapTable, BootstrapFails,
         Working, RunStep, Crash, Submit, CheckPending, ReadHistory, Skip, Stage, Refuse,
         PlanWaves, MergeUpserts, MissingTarget, UpsertsRaise, DeletesRaise, MergeDeletes
  <2>2. runner[r].pc \in Planned /\ TypeOK /\ LedgerSound /\ Sound(runner[r])
    BY <2>1 DEF MarkApplied, At, Planned, RunInv
  <2>3. /\ ledger[i].ev \in runner[r].act /\ ledger[i].ev.id = i
        /\ ledger[j].ev \in runner[r].act /\ ledger[j].ev.id = j
    <3> PICK x : x = runner[r]
      OBVIOUS
    <3> QED BY <1>7, <2>2, PendingPlanned
  <2>4. ~Ambiguous(runner[r].act)
    BY <2>2 DEF Sound, Sets
  <2> QED BY <1>2, <2>3, <2>4 DEF Ambiguous
<1> QED BY <1>1, <1>4, <1>5, <1>6, <1>7

LEMMA SequencesStayApart == OneRunner /\ Identified => (Spec => []SequencesApart)
<1> SUFFICES ASSUME OneRunner, Identified PROVE Spec => []SequencesApart
  OBVIOUS
<1>1. Init => SequencesApart
  BY DEF Init, SequencesApart, IsApplied
<1> QED BY <1>1, ApartStep, RunInvariant, PTL DEF Spec

(* A crash never wedges the ledger: the processing set that left PENDING   *)
(* records is admitted again, classified without conflict and planned      *)
(* without ambiguity, whatever was applied in the meantime.                *)
THEOREM RetryAlwaysAdmitted == OneRunner /\ Identified => (Spec => []RetryAdmitted)
<1> SUFFICES ASSUME OneRunner, Identified PROVE Spec => []RetryAdmitted
  OBVIOUS
<1>1. RunInv => RetryAdmitted
  BY DEF RunInv
<1> QED BY <1>1, RunInvariant, PTL
-----------------------------------------------------------------------------
(* Events that cannot be converted.                                        *)

(* A run that is past a merge of its wave could convert what it merged.    *)
Converted ==
  \A r \in Runners : \A e \in Wave(runner[r].act) :
    \/ runner[r].pc \in {"delete", "mark"} /\ e \in Upserts({e})
    \/ runner[r].pc = "mark" /\ e \in Deletes({e})
    => e \notin Unconvertible

LEMMA ConvertedStep ==
  ASSUME TypeOK, Converted, [Next]_vars PROVE Converted'
<1> SUFFICES ASSUME NEW r \in Runners, NEW e \in Wave(runner'[r].act), e \in Unconvertible,
                    \/ runner'[r].pc \in {"delete", "mark"} /\ e \in Upserts({e})
                    \/ runner'[r].pc = "mark" /\ e \in Deletes({e})
             PROVE  FALSE
  BY DEF Converted, Wave, WaveLE, Upserts, Deletes
<1>1. CASE runner'[r] = runner[r]
  BY <1>1 DEF Converted
<1>2. CASE runner'[r] # runner[r]
  <2>1. /\ RecordPending(r) \/ MergeUpserts(r) \/ MergeDeletes(r)
        /\ runner'[r].act = runner[r].act
    BY <1>2, OwnStep, InsideWave
  <2>2. e \in Wave(runner[r].act)
    BY <2>1
  <2>3. CASE RecordPending(r)
    BY <2>3, GotoEffect DEF RecordPending, At
  <2>4. CASE MergeUpserts(r)
    <3>1. runner'[r].pc = "delete"
      BY <2>4, GotoEffect DEF MergeUpserts, At
    <3>2. Upserts(Wave(runner[r].act)) \cap Unconvertible = {}
      BY <2>4 DEF MergeUpserts
    <3> QED BY <2>2, <3>1, <3>2 DEF Upserts
  <2>5. CASE MergeDeletes(r)
    <3>1. runner[r].pc = "delete" /\ Deletes(Wave(runner[r].act)) \cap Unconvertible = {}
      BY <2>5 DEF MergeDeletes, At
    <3> QED BY <2>2, <3>1 DEF Converted, Deletes
  <2> QED BY <2>1, <2>3, <2>4, <2>5
<1> QED BY <1>1, <1>2

LEMMA WedgedStep ==
  ASSUME RunInv, Converted, [Next]_vars, NEW i \in EventIds, IsPending(i),
         ledger[i].ev \in Unconvertible
  PROVE  IsPending(i)' /\ ledger'[i].ev \in Unconvertible
<1>1. ledger'[i] # NoRecord /\ ledger'[i].ev = ledger[i].ev
  BY LedgerNext DEF LedgerStep, IsPending, RunInv
<1>2. CASE \E r \in Runners : MarkApplied(r)
  <2>1. PICK r \in Runners : MarkApplied(r)
    BY <1>2
  <2>2. CASE ledger'[i] = ledger[i]
    BY <1>1, <2>2 DEF IsPending
  <2>3. ASSUME NEW e \in Wave(runner[r].act), e.id = i, Open(e) PROVE FALSE
    <3>1. runner[r].pc = "mark" /\ e = ledger[i].ev
      BY <2>1, <2>3 DEF MarkApplied, At, Open
    <3>2. e \in Upserts({e}) \/ e \in Deletes({e})
      BY <3>1, EventAssumption DEF Upserts, Deletes
    <3> QED BY <3>1, <3>2 DEF Converted
  <2> QED BY <2>1, <2>2, <2>3, MarkEffect
<1>3. CASE ~ \E r \in Runners : MarkApplied(r)
  <2>1. ledger'[i] = ledger[i]
    <3>1. CASE \E r \in Runners : RecordPending(r)
      BY <3>1 DEF RecordPending, IsPending
    <3>2. CASE ~ \E r \in Runners : RecordPending(r)
      BY <1>3, <3>2 DEF Next, vars, Bootstrapping, StartBootstrap, BootstrapTable, BootstrapFails,
         Working, RunStep, Crash, Submit, CheckPending, ReadHistory, Skip, Stage, Refuse,
         PlanWaves, MergeUpserts, MissingTarget, UpsertsRaise, DeletesRaise, MergeDeletes
    <3> QED BY <3>1, <3>2
  <2> QED BY <1>1, <2>1 DEF IsPending
<1> QED BY <1>2, <1>3

(* Wedged for good: with one run at a time, the record of an event that    *)
(* the merge cannot convert stays PENDING, whatever is retried, so that    *)
(* its processing set stays the only one that is admitted                  *)
(* (PendingHasOneOwner).  It is why PendingResolved needs its exception.   *)
THEOREM WedgedForGood == OneRunner /\ Identified => (Spec => [][Wedged => Wedged']_vars)
<1> SUFFICES ASSUME OneRunner, Identified PROVE Spec => [][Wedged => Wedged']_vars
  OBVIOUS
<1>1. Init => Converted
  BY DEF Init, Idle, Converted, Wave
<1>2. RunInv => TypeOK
  BY DEF RunInv
<1>3. RunInv /\ Converted /\ [Next]_vars => (Wedged => Wedged')
  BY WedgedStep DEF Wedged
<1> QED BY <1>1, <1>2, <1>3, ConvertedStep, RunInvariant, PTL DEF Spec
-----------------------------------------------------------------------------
(* What the merges of a wave do to the rows.                               *)

LEMMA OnePerKey ==
  ASSUME NEW S \in SUBSET Events, ~Ambiguous(S), NEW e \in Wave(S), NEW f \in Wave(S),
         e.key = f.key
  PROVE  e = f
<1>1. e \in S /\ f \in S /\ e.seq \in Nat /\ f.seq \in Nat
  BY EventFields DEF Wave
<1>2. e # f => e.seq < f.seq /\ f.seq < e.seq
  BY <1>1, WaveFirst
<1> QED BY <1>1, <1>2

(* A row either stays or shows the one event of the wave on its key, which *)
(* is PENDING.                                                             *)
LEMMA MergeEffect ==
  ASSUME RunInv, NEW r \in Runners, MergeUpserts(r) \/ MergeDeletes(r), NEW k \in Keys
  PROVE  /\ \/ target'[k] = target[k]
            \/ \E e \in Wave(runner[r].act) : e.key = k /\ Open(e) /\ Shows(target'[k], e)
         /\ \A e \in Wave(runner[r].act) : e.key = k =>
              /\ Shows(target[k], e) => Shows(target'[k], e)
              /\ MergeUpserts(r) /\ e.op \in {"INSERT", "UPDATE"} => Shows(target'[k], e)
              /\ MergeDeletes(r) /\ e.op = "DELETE" => Shows(target'[k], e)
<1> PICK S \in SUBSET Events : S = runner[r].act /\ ~Ambiguous(S)
  BY RunType DEF MergeUpserts, MergeDeletes, At, Sound, Sets, Planned
<1> PICK W : W = Wave(S)
  OBVIOUS
<1>1. W \subseteq Events /\ \A e \in W : Open(e)
  BY RunType DEF MergeUpserts, MergeDeletes, At, Sound, Opened, InWave, Wave
<1>2. \A e, f \in W : e.key = f.key => e = f
  BY OnePerKey
<1>3. ASSUME NEW V \in SUBSET W, NEW e \in V, e.key = k PROVE On(V, k) # {} /\ EventOn(V, k) = e
  <2>1. On(V, k) # {}
    BY <1>3 DEF On
  <2>2. EventOn(V, k) \in V /\ EventOn(V, k).key = k
    BY <1>1, <2>1, EventOnKey
  <2> QED BY <1>2, <1>3, <2>1, <2>2
<1>4. ASSUME NEW V \in SUBSET W, On(V, k) # {} PROVE \E e \in V : e.key = k /\ EventOn(V, k) = e
  BY <1>1, <1>4, EventOnKey
<1>5. CASE MergeUpserts(r)
  <2> DEFINE U == Upserts(W)
  <2>1. target'[k] = IF On(U, k) # {} THEN UpsertRow(EventOn(U, k)) ELSE target[k]
    BY <1>5 DEF MergeUpserts
  <2>2. U \in SUBSET W /\ \A e \in U : e.op # "DELETE"
    BY DEF Upserts
  <2>3. \A e \in U : Shows(UpsertRow(e), e)
    BY <2>2 DEF Shows, UpsertRow
  <2>4. \A e \in W : e.op \in {"INSERT", "UPDATE"} => e \in U
    BY DEF Upserts
  <2> HIDE DEF U
  <2>5. \A e \in U : e.key = k => Shows(target'[k], e)
    BY <1>3, <2>1, <2>2, <2>3
  <2>6. target'[k] # target[k] => \E e \in U : e.key = k
    BY <1>4, <2>1, <2>2
  <2>7. ASSUME NEW e \in W, e.key = k, Shows(target[k], e) PROVE Shows(target'[k], e)
    BY <1>2, <2>2, <2>5, <2>6, <2>7
  <2>8. ~MergeDeletes(r)
    BY <1>5 DEF MergeUpserts, MergeDeletes, At
  <2> QED BY <1>1, <2>2, <2>4, <2>5, <2>6, <2>7, <2>8
<1>6. CASE MergeDeletes(r)
  <2> DEFINE D == Deletes(W)
  <2>1. target'[k] = IF On(D, k) # {} THEN DeletedRow(target[k], EventOn(D, k), runner[r].policy)
                     ELSE target[k]
    BY <1>6 DEF MergeDeletes
  <2>2. D \in SUBSET W /\ \A e \in D : e.op = "DELETE"
    BY DEF Deletes
  <2>3. \A e \in D : Shows(DeletedRow(target[k], e, runner[r].policy), e)
    <3>1. target[k] \in Row \cup {NoRow}
      BY DEF RunInv, TypeOK
    <3> QED BY <2>2, <3>1 DEF Shows, DeletedRow, Row
  <2>4. \A e \in W : e.op = "DELETE" => e \in D
    BY DEF Deletes
  <2> HIDE DEF D
  <2>5. \A e \in D : e.key = k => Shows(target'[k], e)
    BY <1>3, <2>1, <2>2, <2>3
  <2>6. target'[k] # target[k] => \E e \in D : e.key = k
    BY <1>4, <2>1, <2>2
  <2>7. ASSUME NEW e \in W, e.key = k, Shows(target[k], e) PROVE Shows(target'[k], e)
    BY <1>2, <2>2, <2>5, <2>6, <2>7
  <2>8. ~MergeUpserts(r)
    BY <1>6 DEF MergeUpserts, MergeDeletes, At
  <2> QED BY <1>1, <2>2, <2>4, <2>5, <2>6, <2>7, <2>8
<1> QED BY <1>5, <1>6

LEMMA OpenOn ==
  ASSUME NEW e \in Events, Open(e) PROVE e \in PendingOn(e.key)
BY EventFields DEF Open, PendingOn

(* Who else changes rows: nobody but the bootstrap.                        *)
LEMMA RowWriters ==
  ASSUME [Next]_vars, NEW k \in Keys, target'[k] # target[k]
  PROVE  \/ TableOf[k] \in boot
         \/ \E r \in Runners : MergeUpserts(r) \/ MergeDeletes(r)
<1>1. ASSUME NEW t \in Tables, BootstrapTable(t) PROVE TableOf[k] \in boot
  BY <1>1 DEF BootstrapTable
<1> QED BY <1>1 DEF Next, Bootstrapping, StartBootstrap, BootstrapFails, vars, Working, RunStep,
   Crash,
       Submit, CheckPending, ReadHistory, Skip, Stage, Refuse, PlanWaves, RecordPending,
       MissingTarget, UpsertsRaise, DeletesRaise,
       MarkApplied

(* Effectively once: outside the bootstrap, a row changes only to show an  *)
(* event that is PENDING at that moment.  No replay, retry or recovery     *)
(* touches the target for an event that is APPLIED.                        *)
THEOREM AppliedOnce == OneRunner /\ Identified => (Spec => EffectivelyOnce)
<1> SUFFICES ASSUME OneRunner, Identified PROVE Spec => EffectivelyOnce
  OBVIOUS
<1>1. RunInv /\ [Next]_vars => [\A k \in Keys : MutatesOnlyForPending(k)]_vars
  <2> SUFFICES ASSUME RunInv, [Next]_vars, NEW k \in Keys, target'[k] # target[k], TableOf[k] \notin boot
               PROVE  \E e \in PendingOn(k) : Shows(target'[k], e)
    BY DEF MutatesOnlyForPending
  <2>1. PICK r \in Runners : MergeUpserts(r) \/ MergeDeletes(r)
    BY RowWriters
  <2>2. PICK e \in Wave(runner[r].act) : e.key = k /\ Open(e) /\ Shows(target'[k], e)
    BY <2>1, MergeEffect
  <2>3. e \in Events
    BY <2>1, RunType DEF MergeUpserts, MergeDeletes, At, Active, Wave
  <2> QED BY <2>2, <2>3, OpenOn
<1> QED BY <1>1, RunInvariant, PTL DEF Spec, EffectivelyOnce
-----------------------------------------------------------------------------
(* The target agrees with the ledger.                                      *)

(* An event that is APPLIED went into a table that exists; the rows of a   *)
(* wave show its events as far as its two commits have been made; and      *)
(* every row shows the ledger's latest event or one that is PENDING.       *)
Landed == \A i \in EventIds : IsApplied(i) => TableOf[ledger[i].ev.key] \in tables

Merged(x) ==
  x.pc \in {"delete", "mark"} =>
    \A e \in Wave(x.act) : /\ TableOf[e.key] \in tables
                           /\ e.op # "DELETE" \/ x.pc = "mark" => Shows(target[e.key], e)

Agrees(k) ==
  TableOf[k] \in tables => ShowsApplied(k) \/ \E e \in PendingOn(k) : Shows(target[k], e)

Agreement ==
  /\ boot \cap tables = {}
  /\ Landed
  /\ \A r \in Runners : Merged(runner[r])
  /\ \A k \in Keys : Agrees(k)

TargetInv == RunInv /\ Agreement

(* Every PENDING event is ahead, so this is the property.                  *)
LEMMA AgreementShows == TargetInv => TargetAgreesWithLedger
<1> SUFFICES ASSUME TargetInv, NEW k \in Keys, NEW e \in PendingOn(k), NEW f \in AppliedOn(k)
             PROVE  f.seq < e.seq
  BY DEF TargetInv, Agreement, Agrees, TargetAgreesWithLedger
<1>1. PICK i \in EventIds : IsPending(i) /\ ledger[i].ev = e /\ e.key = k
  BY DEF PendingOn
<1>2. PICK j \in EventIds : IsApplied(j) /\ ledger[j].ev = f /\ f.key = k
  BY DEF AppliedOn
<1>3. Ahead(e)
  BY <1>1 DEF TargetInv, RunInv, LedgerSound
<1> QED BY <1>1, <1>2, <1>3 DEF Ahead

LEMMA SameLedger ==
  ASSUME UNCHANGED ledger, NEW k
  PROVE  AppliedOn(k)' = AppliedOn(k) /\ PendingOn(k)' = PendingOn(k)
BY DEF AppliedOn, PendingOn, IsApplied, IsPending

LEMMA SameRow ==
  ASSUME UNCHANGED <<ledger, tables>>, NEW k, target'[k] = target[k], Agrees(k) PROVE Agrees(k)'
BY SameLedger DEF Agrees, ShowsApplied, Shows, BootRow

(* Steps of a run before its first merge, its end, and of the bootstrap    *)
(* until it writes a table.                                                *)
LEMMA QuietAgreement ==
  ASSUME TargetInv, UNCHANGED <<ledger, tables, target>>, (boot \cap tables)' = {},
         \A r \in Runners : runner'[r] = runner[r] \/ runner'[r].pc \notin {"delete", "mark"}
  PROVE  Agreement'
<1>1. Landed'
  BY DEF TargetInv, Agreement, Landed, IsApplied
<1>2. \A r \in Runners : Merged(runner[r])'
  BY DEF TargetInv, Agreement, Merged, Wave, WaveLE, Shows
<1>3. \A k \in Keys : Agrees(k)'
  BY SameRow DEF TargetInv, Agreement
<1> QED BY <1>1, <1>2, <1>3 DEF Agreement

(* initialize_targets writes tables that did not exist: nothing was        *)
(* applied to them.                                                        *)
LEMMA BootstrapAgreement ==
  ASSUME TargetInv, NEW t \in Tables, BootstrapTable(t) PROVE Agreement'
<1>1. t \notin tables /\ tables' = tables \cup {t} /\ boot' = boot \ {t} /\ UNCHANGED <<ledger, runner>>
  BY DEF BootstrapTable, TargetInv, Agreement
<1>2. \A k \in Keys : target'[k] = IF TableOf[k] = t THEN BootRow(k) ELSE target[k]
  BY DEF BootstrapTable
<1>3. (boot \cap tables)' = {}
  BY <1>1 DEF TargetInv, Agreement
<1>4. Landed'
  BY <1>1 DEF TargetInv, Agreement, Landed, IsApplied
<1>5. ASSUME NEW r \in Runners, runner[r].pc \in {"delete", "mark"} PROVE Merged(runner[r])'
  <2>1. Merged(runner[r]) /\ \A e \in Wave(runner[r].act) : e.key \in Keys
    BY <1>5, RunType, EventFields DEF TargetInv, Agreement, Wave, Active
  <2>2. \A e \in Wave(runner[r].act) : TableOf[e.key] # t /\ target'[e.key] = target[e.key]
    BY <1>1, <1>2, <1>5, <2>1 DEF Merged
  <2> QED BY <1>1, <1>5, <2>1, <2>2 DEF Merged, Wave, WaveLE, Shows
<1>6. \A r \in Runners : Merged(runner[r])'
  BY <1>1, <1>5 DEF Merged
<1>7. ASSUME NEW k \in Keys PROVE Agrees(k)'
  <2>1. CASE TableOf[k] = t
    <3>1. AppliedOn(k) = {}
      BY <1>1, <2>1 DEF TargetInv, Agreement, Landed, AppliedOn
    <3>2. AppliedOn(k)' = {} /\ target'[k] = BootRow(k)
      BY <1>1, <1>2, <2>1, <3>1, SameLedger
    <3> QED BY <3>2 DEF Agrees, ShowsApplied, BootRow
  <2>2. CASE TableOf[k] # t
    <3>1. target'[k] = target[k] /\ (TableOf[k] \in tables' <=> TableOf[k] \in tables) /\ Agrees(k)
      BY <1>1, <1>2, <2>2 DEF TargetInv, Agreement
    <3> QED BY <1>1, <3>1, SameLedger DEF Agrees, ShowsApplied, Shows, BootRow
  <2> QED BY <2>1, <2>2
<1> QED BY <1>3, <1>4, <1>6, <1>7 DEF Agreement

(* Phase A adds PENDING records and no other.                              *)
LEMMA RecordAgreement ==
  ASSUME TargetInv, NEW r \in Runners, OneRunner, RecordPending(r) PROVE Agreement'
<1>1. /\ UNCHANGED <<tables, boot, target>> /\ runner'[r].pc = "upsert"
      /\ \A i \in EventIds : ledger[i] # NoRecord => ledger'[i] = ledger[i]
      /\ \A i \in EventIds : ledger[i] = NoRecord => ~IsApplied(i)'
  <2>1. UNCHANGED <<tables, boot, target>> /\ runner'[r].pc = "upsert"
    BY RunType DEF RecordPending, Goto, Become, At, TargetInv, Active, TypeOK
  <2>2. \A i \in EventIds : ledger[i] # NoRecord => ledger'[i] = ledger[i]
    BY DEF RecordPending
  <2>3. \A i \in EventIds : ledger[i] = NoRecord => ~IsApplied(i)'
    BY DEF RecordPending, IsApplied
  <2> QED BY <2>1, <2>2, <2>3
<1>2. \A i \in EventIds : /\ IsApplied(i)' <=> IsApplied(i)
                          /\ IsApplied(i) => ledger'[i] = ledger[i]
                          /\ IsPending(i) => IsPending(i)' /\ ledger'[i] = ledger[i]
  BY <1>1 DEF IsApplied, IsPending
<1>3. Landed'
  BY <1>1, <1>2 DEF TargetInv, Agreement, Landed
<1>4. ASSUME NEW k \in Keys PROVE Agrees(k)'
  <2>1. AppliedOn(k)' = AppliedOn(k) /\ PendingOn(k) \subseteq PendingOn(k)'
    BY <1>2 DEF AppliedOn, PendingOn
  <2> QED BY <1>1, <2>1 DEF TargetInv, Agreement, Agrees, ShowsApplied, Shows, BootRow
<1>5. Merged(runner[r])'
  BY <1>1 DEF Merged
<1> QED BY <1>1, <1>3, <1>4, <1>5 DEF Agreement, TargetInv, OneRunner

(* Phase B: a row shows what it showed, or an event of the wave.           *)
LEMMA MergeAgreement ==
  ASSUME TargetInv, NEW r \in Runners, OneRunner, Spelt, MergeUpserts(r) \/ MergeDeletes(r)
  PROVE  Agreement'
<1> PICK W : W = Wave(runner[r].act)
  OBVIOUS
<1>1. /\ UNCHANGED <<tables, boot, ledger>> /\ runner[r] \in Active
      /\ runner'[r] = [runner[r] EXCEPT !.pc = IF MergeUpserts(r) THEN "delete" ELSE "mark"]
  BY RunType DEF MergeUpserts, MergeDeletes, Goto, Become, At, TargetInv, TypeOK
<1>2. W \subseteq Events /\ \A e \in W : e.key \in Keys /\ e.op \in {"INSERT", "UPDATE", "DELETE"}
  <2>1. W \subseteq Events
    BY <1>1 DEF Active, Wave
  <2>2. \A e \in Events : e.key \in Keys /\ e.op \in {"INSERT", "UPDATE", "DELETE"}
    BY EventAssumption DEF Spelt, Ops
  <2> QED BY <2>1, <2>2
<1>3. \A e \in W : TableOf[e.key] \in tables
  BY DEF MergeUpserts, MergeDeletes, At, TargetInv, Agreement, Merged
<1>4. Landed'
  BY <1>1 DEF TargetInv, Agreement, Landed, IsApplied
<1>5. ASSUME NEW k \in Keys PROVE Agrees(k)'
  <2>1. CASE target'[k] = target[k]
    BY <1>1, <2>1, SameRow DEF TargetInv, Agreement
  <2>2. CASE \E e \in W : e.key = k /\ Open(e) /\ Shows(target'[k], e)
    <3>1. PICK e \in W : e.key = k /\ Open(e) /\ Shows(target'[k], e)
      BY <2>2
    <3>2. e \in PendingOn(k)'
      BY <1>1, <1>2, <3>1, OpenOn, SameLedger
    <3>3. Shows(target[k], e)'
      BY <3>1 DEF Shows
    <3> QED BY <3>2, <3>3 DEF Agrees
  <2> QED BY <2>1, <2>2, MergeEffect DEF TargetInv
<1>6. ASSUME NEW e \in W, e.op # "DELETE" \/ MergeDeletes(r) PROVE Shows(target'[e.key], e)
  <2>1. CASE MergeUpserts(r)
    <3>1. ~MergeDeletes(r)
      BY <2>1 DEF MergeUpserts, MergeDeletes, At
    <3> QED BY <1>2, <1>6, <2>1, <3>1, MergeEffect DEF TargetInv
  <2>2. CASE MergeDeletes(r)
    <3>1. e.op # "DELETE" => Shows(target[e.key], e)
      BY <2>2 DEF MergeDeletes, At, TargetInv, Agreement, Merged
    <3> QED BY <1>2, <2>2, <3>1, MergeEffect DEF TargetInv
  <2> QED BY <2>1, <2>2
<1>7. runner'[r].act = runner[r].act /\ (runner'[r].pc = "mark" => MergeDeletes(r))
  BY <1>1 DEF Active
<1>8. Merged(runner[r])'
  BY <1>1, <1>3, <1>6, <1>7 DEF Merged, Wave, WaveLE, Shows
<1> QED BY <1>1, <1>4, <1>5, <1>8 DEF Agreement, TargetInv, OneRunner

(* Phase C: the events of the wave are the latest, and shown.              *)
LEMMA MarkAgreement ==
  ASSUME TargetInv, NEW r \in Runners, OneRunner, MarkApplied(r) PROVE Agreement'
<1> PICK W : W = Wave(runner[r].act)
  OBVIOUS
<1>1. UNCHANGED <<tables, boot, target>> /\ runner[r] \in Active /\ runner[r].pc = "mark"
  BY RunType DEF MarkApplied, At, TargetInv
<1>2. /\ W \subseteq Events
      /\ \A e \in W : /\ TableOf[e.key] \in tables /\ Shows(target[e.key], e)
                      /\ Open(e) /\ Ahead(e) /\ e.id \in EventIds
  BY <1>1, RunType, EventFields DEF Wave, Active, TargetInv, Agreement, Merged, Sound, Sorted,
     Opened, InWave,
     Actionable
<1>3. \A i \in EventIds :
        \/ ledger'[i] = ledger[i] /\ \A e \in W : e.id # i
        \/ \E e \in W : e.id = i /\ Open(e) /\ IsApplied(i)' /\ ledger'[i].ev = e
  BY MarkEffect DEF TargetInv
<1>4. \A i \in EventIds :
        /\ IsApplied(i) => IsApplied(i)' /\ ledger'[i] = ledger[i]
        /\ IsApplied(i)' => (IsApplied(i) /\ ledger'[i] = ledger[i]) \/ ledger'[i].ev \in W
        /\ IsPending(i) => (IsPending(i)' /\ ledger'[i] = ledger[i]) \/ ledger[i].ev \in W
  BY <1>3 DEF IsApplied, IsPending, Open
<1>5. Landed'
  BY <1>1, <1>2, <1>4 DEF TargetInv, Agreement, Landed
<1>6. runner'[r].pc \notin {"delete", "mark"}
  BY <1>1 DEF MarkApplied, Become, TargetInv, RunInv, TypeOK, Idle, Active
<1>7. ASSUME NEW k \in Keys, TableOf[k] \in tables PROVE Agrees(k)'
  <2>1. CASE \E e \in W : e.key = k
    <3>1. PICK e \in W : e.key = k
      BY <2>1
    <3>2. e \in AppliedOn(k)'
      <4>1. IsApplied(e.id)' /\ ledger'[e.id].ev = e /\ e.id \in EventIds
        BY <1>2, <1>3, <3>1 DEF Open
      <4> QED BY <3>1, <4>1 DEF AppliedOn
    <3>3. ASSUME NEW f \in AppliedOn(k)' PROVE f.seq <= e.seq
      <4>1. PICK i \in EventIds : IsApplied(i)' /\ ledger'[i].ev = f /\ f.key = k
        BY <3>3 DEF AppliedOn
      <4>2. CASE IsApplied(i) /\ ledger'[i] = ledger[i]
        <5>1. f.seq < e.seq /\ f \in Events /\ e \in Events
          BY <1>2, <3>1, <4>1, <4>2 DEF Ahead, IsApplied, TargetInv, RunInv, TypeOK, Record
        <5> QED BY <5>1, EventFields
      <4>3. CASE f \in W
        <5> PICK S \in SUBSET Events : S = runner[r].act /\ ~Ambiguous(S)
          BY <1>1, RunType DEF TargetInv, Sound, Sets, Planned, Active
        <5>1. f = e
          BY <3>1, <4>1, <4>3, OnePerKey
        <5> QED BY <1>2, <5>1, EventFields
      <4> QED BY <1>4, <4>1, <4>2, <4>3
    <3>4. Shows(target[k], e)'
      BY <1>1, <1>2, <3>1 DEF Shows
    <3> QED BY <3>2, <3>3, <3>4 DEF Agrees, ShowsApplied
  <2>2. CASE \A e \in W : e.key # k
    <3>1. AppliedOn(k)' = AppliedOn(k) /\ PendingOn(k) \subseteq PendingOn(k)'
      BY <1>4, <2>2 DEF AppliedOn, PendingOn
    <3> QED BY <1>1, <3>1 DEF TargetInv, Agreement, Agrees, ShowsApplied, Shows, BootRow
  <2> QED BY <2>1, <2>2
<1>8. \A k \in Keys : Agrees(k)'
  BY <1>1, <1>7 DEF Agrees
<1>9. Merged(runner[r])'
  BY <1>6 DEF Merged
<1> QED BY <1>1, <1>5, <1>8, <1>9 DEF Agreement, TargetInv, OneRunner

LEMMA AgreementStep ==
  ASSUME OneRunner, Identified, Spelt, ~AllowOverwrite, TargetInv, [Next]_vars PROVE Agreement'
<1>1. ASSUME NEW r \in Runners, Working(r) \/ Crash(r) PROVE Agreement'
  <2>1. CASE RecordPending(r) \/ MergeUpserts(r) \/ MergeDeletes(r) \/ MarkApplied(r)
    BY <2>1, RecordAgreement, MergeAgreement, MarkAgreement
  <2> PICK NoMerge : NoMerge <=>
        /\ UNCHANGED <<tables, boot, target, ledger>>
        /\ \A s \in Runners : runner'[s].pc \notin {"delete", "mark"}
    OBVIOUS
  <2>2. /\ \A s \in Submissions, p \in Policies : Submit(r, s, p) => NoMerge
        /\ Crash(r) \/ MissingTarget(r) \/ UpsertsRaise(r) \/ DeletesRaise(r) => NoMerge
        /\ \A e \in Events : Refuse(r, e) => NoMerge
    BY DEF OneRunner, TargetInv, RunInv, TypeOK, Submit, Crash, MissingTarget, UpsertsRaise,
       DeletesRaise, Refuse, Leave, Become, Idle
  <2>3. CheckPending(r) \/ ReadHistory(r) \/ PlanWaves(r) => NoMerge
    <3> PICK Gone : Gone <=> runner'[r].pc \notin {"delete", "mark"}
      OBVIOUS
    <3>1. \A step \in {"history", "record"} : runner[r].pc # "idle" /\ Goto(r, step) => Gone
      BY RunType DEF TargetInv, TypeOK, Goto, Become, Active
    <3>2. Leave(r) => Gone
      BY RunType DEF TargetInv, TypeOK, Leave, Become, Idle
    <3>3. ReadHistory(r) => Gone
      BY RunType DEF TargetInv, TypeOK, ReadHistory, Become, At, Active
    <3>4. CheckPending(r) \/ PlanWaves(r) => Gone
      BY <3>1, <3>2 DEF CheckPending, PlanWaves, At
    <3>5. CheckPending(r) \/ ReadHistory(r) \/ PlanWaves(r) => UNCHANGED <<tables, boot, target, ledger>>
      BY DEF CheckPending, ReadHistory, PlanWaves
    <3> QED BY <3>3, <3>4, <3>5 DEF OneRunner
  <2>4. \A e \in Events : Skip(r, e) \/ Stage(r, e) => NoMerge
    <3>1. ASSUME NEW e \in Events, Skip(r, e) \/ Stage(r, e)
          PROVE  runner'[r].pc \notin {"delete", "mark"} /\ UNCHANGED <<tables, boot, target, ledger>>
      BY <3>1, RunType DEF TargetInv, TypeOK, Skip, Stage, Become, At, Active
    <3> QED BY <3>1 DEF OneRunner
  <2>5. NoMerge => Agreement'
    BY QuietAgreement DEF TargetInv, Agreement
  <2> QED BY <1>1, <2>1, <2>2, <2>3, <2>4, <2>5 DEF Working, RunStep
<1>2. CASE UNCHANGED vars
  BY <1>2, QuietAgreement DEF vars, TargetInv, Agreement
<1>3. CASE StartBootstrap \/ BootstrapFails
  BY <1>3, QuietAgreement DEF StartBootstrap, BootstrapFails, TargetInv, Agreement
<1> QED BY <1>1, <1>2, <1>3, BootstrapAgreement DEF Next, Bootstrapping

LEMMA AgreementInit == Init => Agreement
<1> SUFFICES ASSUME Init PROVE Agreement
  OBVIOUS
<1>1. \A i \in EventIds : ~IsApplied(i)
  BY DEF Init, IsApplied
<1>2. \A r \in Runners : Merged(runner[r])
  BY DEF Init, Idle, Merged
<1> QED BY <1>1, <1>2 DEF Init, Agreement, Landed, Agrees

LEMMA TargetInvariant ==
  OneRunner /\ Identified /\ Spelt /\ ~AllowOverwrite => (Spec => []TargetInv)
<1> SUFFICES ASSUME OneRunner, Identified, Spelt, ~AllowOverwrite PROVE Spec => []TargetInv
  OBVIOUS
<1>1. Init => TargetInv
  BY RunInit, AgreementInit DEF TargetInv
<1>2. TargetInv /\ [Next]_vars => TargetInv'
  BY RunNext, AgreementStep DEF TargetInv
<1> QED BY <1>1, <1>2, PTL DEF Spec

(* With one run at a time, dying between any two of its commits, and a     *)
(* bootstrap that does not overwrite, every row of a loaded table shows    *)
(* the APPLIED event of highest sequence on its key, or the PENDING one    *)
(* that is ahead of it.                                                    *)
THEOREM TargetFollowsLedger ==
  OneRunner /\ Identified /\ Spelt /\ ~AllowOverwrite => (Spec => []TargetAgreesWithLedger)
BY TargetInvariant, AgreementShows, PTL
-----------------------------------------------------------------------------
(* The pipeline implements the oracle.                                     *)

(* A processing id is a hash of the files of its set.                      *)
ContentAddressed == \A s, u \in Submissions : s.proc = u.proc => s.batch = u.batch

IsSubmitted(x) == \E s \in Submissions : x.proc = s.proc /\ x.batch = s.batch

(* PENDING records are of the first wave that its set has left.            *)
FirstLeft ==
  \A i \in EventIds : IsPending(i) =>
    /\ IsSubmitted(intent)
    /\ \A e \in intent.batch : Settled(e) \/ WaveLE(ledger[i].ev, e)

OnFront(x) ==
  x.pc \in Planned => \A i \in EventIds : IsPending(i) => ledger[i].ev \in Wave(x.act)

MergedUp(x) ==
  x.pc \in {"delete", "mark"} =>
    \A e \in Wave(x.act) : e.op # "DELETE" \/ x.pc = "mark" => e.seq <= merged[e.key]

Follows(x) == (x.pc # "idle" => IsSubmitted(x)) /\ OnFront(x) /\ MergedUp(x)

(* The table is as far as the ledger, up to what is PENDING.               *)
Level(k) ==
  /\ TableOf[k] \notin tables => merged[k] = 0
  /\ \A f \in AppliedOn(k) : f.seq <= merged[k]
  /\ merged[k] = 0 \/ \E f \in AppliedOn(k) \cup PendingOn(k) : f.seq = merged[k]
  /\ \A p \in PendingOn(k) : p.seq <= merged[k] => ActivePayload(target[k]) = Oracle!Effect(p)

OracleInv ==
  /\ TargetInv /\ FirstLeft
  /\ \A r \in Runners : Follows(runner[r])
  /\ \A k \in Keys : Level(k)

LEMMA OnTyped ==
  ASSUME TypeOK, NEW k \in Keys
  PROVE  \A f \in AppliedOn(k) \cup PendingOn(k) : f \in Events /\ f.seq \in Nat \ {0} /\ f.key = k
<1>1. \A f \in AppliedOn(k) \cup PendingOn(k) : f \in Events /\ f.key = k
  BY DEF AppliedOn, PendingOn, IsApplied, IsPending, TypeOK, Record
<1> QED BY <1>1, EventAssumption

(* Of the wave a run is at, no event is merged but those that are PENDING, *)
(* and these have been merged last.                                        *)
LEMMA WaveFacts ==
  ASSUME OracleInv, NEW r \in Runners, runner[r].pc \in Planned
  PROVE  LET W == Wave(runner[r].act)
         IN /\ W \subseteq Events /\ W \subseteq runner[r].batch
            /\ \A e, f \in W : e.key = f.key \/ e.id = f.id => e = f
            /\ \A e \in W : /\ \A f \in PendingOn(e.key) : f \in W /\ f = e
                            /\ \A f \in AppliedOn(e.key) : f.seq < e.seq
                            /\ e.seq <= merged[e.key] => Open(e) /\ merged[e.key] = e.seq
<1> PICK x : x = runner[r]
  OBVIOUS
<1> PICK W : W = Wave(x.act)
  OBVIOUS
<1>1. x \in Active /\ Sound(x) /\ OnFront(x) /\ x.pc \in Planned /\ TypeOK /\ LedgerSound
  BY RunType DEF OracleInv, TargetInv, Follows, Planned
<1>2. W \subseteq x.act /\ x.act \subseteq x.batch /\ x.batch \subseteq Events /\ ~Ambiguous(x.act)
  BY <1>1 DEF Wave, Sound, Sets
<1>3. \A e, f \in W : e.key = f.key \/ e.id = f.id => e = f
  BY <1>1, <1>2, OnePerKey DEF Sound, Sets
<1>4. ASSUME NEW e \in W, NEW f \in PendingOn(e.key) PROVE f \in W /\ f = e
  <2>1. f \in W
    BY <1>1 DEF OnFront, PendingOn
  <2>2. f.key = e.key
    BY DEF PendingOn
  <2> QED BY <1>3, <2>1, <2>2
<1>5. ASSUME NEW e \in W, NEW f \in AppliedOn(e.key) PROVE f.seq < e.seq
  <2>1. Ahead(e)
    BY <1>1, <1>2 DEF Sound, Sorted, Actionable
  <2> QED BY <2>1 DEF Ahead, AppliedOn
<1>6. ASSUME NEW e \in W, e.seq <= merged[e.key] PROVE Open(e) /\ merged[e.key] = e.seq
  <2>1. e \in Events /\ e.key \in Keys /\ e.seq \in Nat \ {0} /\ merged[e.key] \in Nat
    BY <1>1, <1>2, EventAssumption DEF TypeOK
  <2>2. Level(e.key)
    BY <2>1 DEF OracleInv
  <2>3. PICK f \in AppliedOn(e.key) \cup PendingOn(e.key) : f.seq = merged[e.key]
    BY <1>6, <2>1, <2>2 DEF Level
  <2>4. f \notin AppliedOn(e.key)
    BY <1>1, <1>5, <1>6, <2>1, <2>3, OnTyped
  <2>5. f \in PendingOn(e.key) /\ f = e
    BY <1>4, <2>3, <2>4
  <2>6. Open(e)
    BY <1>1, <2>5 DEF PendingOn, LedgerSound, Open, IsPending
  <2> QED BY <2>3, <2>5, <2>6
<1> QED BY <1>2, <1>3, <1>4, <1>5, <1>6

(* Where the pipeline does nothing, the oracle does nothing.               *)
LEMMA Stutter ==
  ASSUME UNCHANGED <<tables, target, merged>>, MergedIds' = MergedIds PROVE UNCHANGED Oracle!vars
BY DEF Oracle!vars, ActivePayload

LEMMA SameIds ==
  ASSUME UNCHANGED <<ledger, merged>> PROVE MergedIds' = MergedIds
BY DEF MergedIds

LEMMA LevelKept ==
  ASSUME UNCHANGED <<tables, target, merged, ledger>>, NEW k, Level(k) PROVE Level(k)'
BY SameLedger DEF Level, ActivePayload, Oracle!Effect

-----------------------------------------------------------------------------
(* A step keeps the invariant and is one of the oracle, or nothing to it.  *)
Simulates ==
  /\ FirstLeft'
  /\ \A r \in Runners : Follows(runner[r])'
  /\ \A k \in Keys : Level(k)'
  /\ Oracle!Next \/ UNCHANGED Oracle!vars

(* Steps that touch neither the tables nor the ledger.                     *)
LEMMA QuietSimulates ==
  ASSUME OracleInv, UNCHANGED <<tables, target, merged, ledger, intent>>,
         \A r \in Runners : Follows(runner[r])'
  PROVE  Simulates
<1>1. \A k \in Keys : Level(k)'
  BY LevelKept DEF OracleInv
<1>2. FirstLeft'
  BY DEF OracleInv, FirstLeft, IsPending, IsSubmitted, Settled, Replay, Overtaken, IsApplied, WaveLE
<1> QED BY <1>1, <1>2, Stutter, SameIds DEF Simulates

LEMMA FollowsNext ==
  ASSUME OneRunner, NEW r \in Runners, NEW new, Follows(new), runner'[r] = new,
         UNCHANGED <<ledger, merged>>
  PROVE  \A s \in Runners : Follows(runner[s])'
<1>1. Follows(runner[r])'
  BY DEF Follows, IsSubmitted, OnFront, MergedUp, Wave, WaveLE, IsPending
<1> QED BY <1>1 DEF OneRunner

LEMMA LeaveSimulates ==
  ASSUME OneRunner, OracleInv, NEW r \in Runners, Leave(r),
         UNCHANGED <<tables, target, merged, ledger, intent>>
  PROVE  Simulates
<1>1. runner'[r] = Idle
  BY DEF Leave, Become, OracleInv, TargetInv, RunInv, TypeOK
<1>2. Follows(Idle)
  BY DEF Follows, OnFront, MergedUp, Idle, Planned
<1> QED BY <1>1, <1>2, FollowsNext, QuietSimulates

LEMMA SubmitSimulates ==
  ASSUME OneRunner, OracleInv, NEW r \in Runners, NEW s \in Submissions, NEW policy \in Policies,
         Submit(r, s, policy)
  PROVE  Simulates
<1> PICK new : new = [pc |-> "check", proc |-> s.proc, batch |-> s.batch, policy |-> policy,
                      todo |-> s.batch, seqs |-> NoSeqs, act |-> {}]
  OBVIOUS
<1>1. runner'[r] = new /\ UNCHANGED <<tables, target, merged, ledger, intent>>
  BY DEF Submit, Become, OracleInv, TargetInv, RunInv, TypeOK
<1>2. Follows(new)
  BY DEF Follows, IsSubmitted, OnFront, MergedUp, Planned
<1> QED BY <1>1, <1>2, FollowsNext, QuietSimulates

(* Admission, history and classification.                                  *)
LEMMA ReadSimulates ==
  ASSUME OneRunner, OracleInv, NEW r \in Runners,
         CheckPending(r) \/ ReadHistory(r) \/ \E e \in Events : Skip(r, e) \/ Stage(r, e)
  PROVE  Simulates
<1> PICK x : x = runner[r]
  OBVIOUS
<1>1. /\ UNCHANGED <<tables, target, merged, ledger, intent>>
      /\ x.pc \in {"check", "history", "classify"}
  BY DEF CheckPending, ReadHistory, Skip, Stage, At
<1>2. x \in Active /\ IsSubmitted(x)
  BY <1>1, RunType DEF OracleInv, TargetInv, Follows
<1>3. ASSUME NEW new, runner'[r] = new, new.proc = x.proc, new.batch = x.batch,
             new.pc \in {"history", "classify"}
      PROVE  Simulates
  <2>1. Follows(new)
    BY <1>2, <1>3 DEF Follows, IsSubmitted, OnFront, MergedUp, Planned
  <2> QED BY <1>1, <1>3, <2>1, FollowsNext, QuietSimulates
<1>4. CASE Leave(r)
  BY <1>1, <1>4, LeaveSimulates
<1>5. ASSUME ~Leave(r)
      PROVE  /\ runner'[r].proc = x.proc /\ runner'[r].batch = x.batch
             /\ runner'[r].pc \in {"history", "classify"}
  <2>1. CASE CheckPending(r)
    BY <1>2, <1>5, <2>1 DEF CheckPending, Goto, Become, At, Active, OracleInv, TargetInv, RunInv,
       TypeOK
  <2>2. CASE ReadHistory(r)
    BY <1>2, <2>2 DEF ReadHistory, Become, At, Active, OracleInv, TargetInv, RunInv, TypeOK
  <2>3. ASSUME NEW e \in Events, Skip(r, e) \/ Stage(r, e)
        PROVE  /\ runner'[r].proc = x.proc /\ runner'[r].batch = x.batch
               /\ runner'[r].pc = "classify"
    <3>1. runner \in [Runners -> Active \cup {Idle}] /\ x.pc = "classify"
      BY <2>3 DEF Skip, Stage, At, OracleInv, TargetInv, RunInv, TypeOK
    <3>2. CASE Skip(r, e)
      <4>1. runner'[r] = [x EXCEPT !.todo = @ \ {e}]
        BY <3>1, <3>2 DEF Skip, Become
      <4> QED BY <1>2, <3>1, <4>1 DEF Active
    <3>3. CASE Stage(r, e)
      <4>1. runner'[r] = [x EXCEPT !.todo = @ \ {e}, !.act = @ \cup {e}]
        BY <3>1, <3>3 DEF Stage, Become
      <4> QED BY <1>2, <3>1, <4>1 DEF Active
    <3> QED BY <2>3, <3>2, <3>3
  <2> QED BY <2>1, <2>2, <2>3
<1> QED BY <1>3, <1>4, <1>5

(* What is PENDING is of this set, which is the one that recorded it: it   *)
(* is in the first wave of the plan.                                       *)
LEMMA PlanSimulates ==
  ASSUME OneRunner, ContentAddressed, OracleInv, NEW r \in Runners, PlanWaves(r) PROVE Simulates
<1> PICK x : x = runner[r]
  OBVIOUS
<1>1. /\ UNCHANGED <<tables, target, merged, ledger, intent>> /\ x.pc = "classify"
      /\ x \in Active /\ Sound(x) /\ x.todo = {} /\ IsSubmitted(x) /\ TypeOK /\ LedgerSound
  BY RunType DEF PlanWaves, At, OracleInv, TargetInv, Follows
<1>2. CASE Leave(r)
  BY <1>1, <1>2, LeaveSimulates
<1>3. CASE ~Ambiguous(x.act) /\ Goto(r, "record")
  <2> PICK new : new = [x EXCEPT !.pc = "record"]
    OBVIOUS
  <2>1. /\ new.pc = "record" /\ new.batch = x.batch /\ new.todo = x.todo /\ new.act = x.act
        /\ new.proc = x.proc /\ runner'[r] = new
    BY <1>1, <1>3 DEF Active, Goto, Become, OracleInv, TargetInv, RunInv, TypeOK
  <2>2. Sound(new)
    BY <1>1, <1>3, <2>1 DEF Sound, Sets, Owns, Sorted, Opened, Planned, InWave, Steps
  <2>3. ASSUME NEW i \in EventIds, IsPending(i) PROVE ledger[i].ev \in Wave(new.act)
    <3>1. ledger[i].ev \in new.act /\ ledger[i].proc = new.proc
      BY <1>1, <2>1, <2>2, <2>3, PendingPlanned DEF Planned
    <3>2. ledger[i].proc = intent.proc
      BY <2>3 DEF OracleInv, TargetInv, RunInv, RetryAdmitted, Admissible, PendingAdmits
    <3>3. IsSubmitted(intent) /\ \A e \in intent.batch : Settled(e) \/ WaveLE(ledger[i].ev, e)
      BY <2>3 DEF OracleInv, FirstLeft
    <3>4. intent.batch = x.batch
      <4>1. PICK s \in Submissions : intent.proc = s.proc /\ intent.batch = s.batch
        BY <3>3 DEF IsSubmitted
      <4>2. PICK u \in Submissions : x.proc = u.proc /\ x.batch = u.batch
        BY <1>1 DEF IsSubmitted
      <4>3. s.proc = u.proc
        BY <2>1, <3>1, <3>2, <4>1, <4>2
      <4> QED BY <4>1, <4>2, <4>3 DEF ContentAddressed
    <3>5. \A e \in new.act : ~Settled(e) /\ e \in intent.batch
      BY <1>1, <2>1, <3>4, NotBoth DEF Sound, Sets, Sorted
    <3> QED BY <3>1, <3>3, <3>5 DEF Wave
  <2>4. Follows(new)
    BY <1>1, <2>1, <2>3 DEF Follows, IsSubmitted, OnFront, MergedUp
  <2> QED BY <1>1, <2>1, <2>4, FollowsNext, QuietSimulates
<1> QED BY <1>2, <1>3 DEF PlanWaves

(* Phase A records events that are above all that is merged: the oracle    *)
(* has not seen them, and still has not.                                   *)
LEMMA RecordSimulates ==
  ASSUME OneRunner, OracleInv, RunInv', NEW r \in Runners, RecordPending(r) PROVE Simulates
<1> PICK x : x = runner[r]
  OBVIOUS
<1> PICK W : W = Wave(x.act)
  OBVIOUS
<1>1. /\ UNCHANGED <<tables, target, merged>> /\ x.pc = "record" /\ x \in Active /\ Sound(x)
      /\ Follows(x) /\ TypeOK /\ TypeOK'
  BY RunType DEF RecordPending, At, OracleInv, TargetInv, RunInv
<1>2. /\ runner'[r].pc = "upsert" /\ runner'[r].act = x.act
      /\ runner'[r].proc = x.proc /\ runner'[r].batch = x.batch
  BY <1>1, GotoEffect DEF RecordPending
<1>3. \A i \in EventIds :
        \/ ledger'[i] = ledger[i]
        \/ /\ ledger[i] = NoRecord /\ IsPending(i)' /\ ledger'[i].ev \in W /\ ledger'[i].ev.id = i
  <2> SUFFICES ASSUME NEW i \in EventIds, ledger'[i] # ledger[i]
               PROVE  ledger[i] = NoRecord /\ IsPending(i)' /\ ledger'[i].ev \in W /\ ledger'[i].ev.id = i
    OBVIOUS
  <2>1. RunInv
    BY DEF OracleInv, TargetInv
  <2>2. ledger[i] = NoRecord /\ ledger'[i] # NoRecord
    BY <2>1, RecordEffect
  <2>3. PICK e \in W : e.id = i /\ ledger'[i] = [ev |-> e, proc |-> runner[r].proc, status |-> "PENDING"]
    BY <2>1, RecordEffect
  <2>4. ledger'[i].status = "PENDING" /\ ledger'[i].ev = e
    BY <2>3
  <2> QED BY <2>2, <2>3, <2>4 DEF IsPending
<1>4. \A i \in EventIds : IsPending(i)' => ledger'[i].ev \in W
  BY <1>1, <1>3 DEF Follows, OnFront, Planned, IsPending
<1>5. FirstLeft'
  <2> SUFFICES ASSUME NEW i \in EventIds, IsPending(i)', NEW e \in x.batch
               PROVE  Settled(e)' \/ WaveLE(ledger'[i].ev, e)
    <3>1. intent' = [proc |-> x.proc, batch |-> x.batch]
      BY DEF RecordPending
    <3>2. IsSubmitted(intent)'
      BY <1>1, <3>1 DEF Follows, IsSubmitted
    <3> QED BY <3>1, <3>2 DEF FirstLeft, WaveLE
  <2>1. CASE e \in x.act
    BY <1>4, <2>1 DEF Wave
  <2>2. CASE e \notin x.act
    <3>1. Sound(runner[r])'
      BY DEF RunInv
    <3> QED BY <1>2, <2>2, <3>1 DEF Sound, Sets, Sorted, Planned
  <2> QED BY <2>1, <2>2
<1>6. \A s \in Runners : Follows(runner[s])'
  <2>1. OnFront(runner[r])'
    BY <1>2, <1>4 DEF OnFront, Wave, WaveLE
  <2>2. Follows(runner[r])'
    BY <1>1, <1>2, <2>1 DEF Follows, IsSubmitted, MergedUp
  <2> QED BY <2>2 DEF OneRunner
<1>7. ASSUME NEW i \in EventIds, ledger'[i] # ledger[i]
      PROVE  /\ ledger[i] = NoRecord /\ IsPending(i)' /\ ledger'[i].ev \in W
             /\ ~(ledger'[i].ev.seq <= merged[ledger'[i].ev.key])
  <2>1. PICK e \in W : ledger[i] = NoRecord /\ IsPending(i)' /\ ledger'[i].ev = e /\ e.id = i
    BY <1>3, <1>7
  <2>2. ~Open(e)
    BY <2>1 DEF Open, IsPending
  <2> QED BY <1>1, <2>1, <2>2, WaveFacts DEF Planned
<1>8. MergedIds' = MergedIds
  <2>1. \A i \in EventIds : i \in MergedIds' <=> i \in MergedIds
    BY <1>1, <1>7 DEF MergedIds
  <2> QED BY <2>1 DEF MergedIds
<1>9. ASSUME NEW k \in Keys PROVE Level(k)'
  <2>1. AppliedOn(k)' = AppliedOn(k)
    <3>1. \A i \in EventIds : IsApplied(i)' <=> IsApplied(i)
      BY <1>7 DEF IsApplied, IsPending
    <3>2. \A i \in EventIds : IsApplied(i) => ledger'[i] = ledger[i]
      BY <1>7 DEF IsApplied
    <3> QED BY <3>1, <3>2 DEF AppliedOn
  <2>2. PendingOn(k) \subseteq PendingOn(k)'
    <3>1. \A i \in EventIds : IsPending(i) => IsPending(i)' /\ ledger'[i] = ledger[i]
      BY <1>7 DEF IsPending
    <3> QED BY <3>1 DEF PendingOn
  <2>3. ASSUME NEW p \in PendingOn(k)', p.seq <= merged[k] PROVE p \in PendingOn(k)
    <3>1. PICK i \in EventIds : IsPending(i)' /\ ledger'[i].ev = p /\ p.key = k
      BY <2>3 DEF PendingOn
    <3>2. ledger'[i] = ledger[i]
      BY <1>7, <2>3, <3>1
    <3> QED BY <3>1, <3>2 DEF PendingOn, IsPending
  <2>4. Level(k)
    BY DEF OracleInv
  <2> QED BY <1>1, <2>1, <2>2, <2>3, <2>4 DEF Level, ActivePayload, Oracle!Effect
<1> QED BY <1>1, <1>5, <1>6, <1>8, <1>9, Stutter DEF Simulates

(* Phase C: what is marked has been merged.                                *)
LEMMA MarkSimulates ==
  ASSUME OneRunner, OracleInv, TypeOK', NEW r \in Runners, MarkApplied(r) PROVE Simulates
<1> PICK x : x = runner[r]
  OBVIOUS
<1> PICK W : W = Wave(x.act)
  OBVIOUS
<1>1. /\ UNCHANGED <<tables, target, merged, intent>> /\ x.pc = "mark" /\ x \in Active /\ Sound(x)
      /\ Follows(x) /\ TypeOK
  BY RunType DEF MarkApplied, At, OracleInv, TargetInv, RunInv
<1>2. \A i \in EventIds :
        \/ ledger'[i] = ledger[i] /\ \A e \in W : e.id # i
        \/ \E e \in W : e.id = i /\ Open(e) /\ IsApplied(i)' /\ ledger'[i].ev = e
  BY MarkEffect DEF OracleInv, TargetInv
<1>3. \A i \in EventIds : IsPending(i) => ledger[i].ev \in W /\ ledger[i].ev.id = i
  BY <1>1 DEF Follows, OnFront, Planned, OracleInv, TargetInv, RunInv, LedgerSound, IsPending
<1>4. \A i \in EventIds : ~IsPending(i)'
  BY <1>2, <1>3 DEF IsPending, IsApplied
<1>5. FirstLeft'
  BY <1>4 DEF FirstLeft
<1>6. \A s \in Runners : Follows(runner[s])'
  <2>1. \/ runner'[r] = Idle
        \/ runner'[r].pc = "record" /\ runner'[r].proc = x.proc /\ runner'[r].batch = x.batch
    BY <1>1 DEF MarkApplied, Become, TypeOK, Active
  <2>2. Follows(runner[r])'
    BY <1>1, <1>4, <2>1 DEF Follows, IsSubmitted, OnFront, MergedUp, Idle, Planned
  <2> QED BY <2>2 DEF OneRunner
<1>7. \A i \in EventIds : /\ ledger'[i] # NoRecord <=> ledger[i] # NoRecord
                          /\ ledger[i] # NoRecord => ledger'[i].ev = ledger[i].ev
  BY <1>2 DEF Open, IsPending, IsApplied
<1>8. MergedIds' = MergedIds
  <2>1. \A i \in EventIds : i \in MergedIds' <=> i \in MergedIds
    BY <1>1, <1>7 DEF MergedIds
  <2> QED BY <2>1 DEF MergedIds
<1>9. ASSUME NEW k \in Keys PROVE Level(k)'
  <2>1. Level(k)
    BY DEF OracleInv
  <2>2. PendingOn(k)' = {}
    BY <1>4 DEF PendingOn
  <2>3. AppliedOn(k) \subseteq AppliedOn(k)'
    <3>1. \A i \in EventIds : IsApplied(i) => IsApplied(i)' /\ ledger'[i].ev = ledger[i].ev
      BY <1>2, <1>7 DEF IsApplied
    <3> QED BY <3>1 DEF AppliedOn
  <2>4. PendingOn(k) \subseteq AppliedOn(k)'
    <3>1. \A i \in EventIds : IsPending(i) => IsApplied(i)' /\ ledger'[i].ev = ledger[i].ev
      BY <1>2, <1>3, <1>7 DEF IsPending
    <3> QED BY <3>1 DEF AppliedOn, PendingOn
  <2>5. ASSUME NEW f \in AppliedOn(k)' PROVE f \in AppliedOn(k) \/ (f \in W /\ f.key = k)
    <3>1. PICK i \in EventIds : IsApplied(i)' /\ ledger'[i].ev = f /\ f.key = k
      BY <2>5 DEF AppliedOn
    <3> QED BY <1>2, <3>1 DEF AppliedOn, IsApplied
  <2>6. \A f \in W : f.seq <= merged[f.key]
    BY <1>1 DEF Follows, MergedUp
  <2> QED BY <1>1, <2>1, <2>2, <2>3, <2>4, <2>5, <2>6 DEF Level
<1> QED BY <1>1, <1>5, <1>6, <1>8, <1>9, Stutter DEF Simulates

(* initialize_targets: the oracle loads the table.                         *)
LEMMA BootstrapSimulates ==
  ASSUME OracleInv, NEW t \in Tables, BootstrapTable(t) PROVE Simulates
<1>1. /\ t \notin tables /\ tables' = tables \cup {t} /\ UNCHANGED <<ledger, runner, intent>>
      /\ \A k \in Keys : /\ target'[k] = IF TableOf[k] = t THEN BootRow(k) ELSE target[k]
                         /\ merged'[k] = IF TableOf[k] = t THEN 0 ELSE merged[k]
      /\ merged' = [k \in Keys |-> IF TableOf[k] = t THEN 0 ELSE merged[k]]
  BY DEF BootstrapTable, OracleInv, TargetInv, Agreement
<1>2. \A k \in Keys : Level(k) /\ merged'[k] = merged[k]
  BY <1>1 DEF OracleInv, Level, TargetInv, RunInv, TypeOK
<1>3. MergedIds' = MergedIds
  <2>1. \A i \in EventIds : ledger[i] # NoRecord => ledger[i].ev.key \in Keys
    BY EventFields DEF OracleInv, TargetInv, RunInv, TypeOK, Record
  <2>2. \A i \in EventIds : i \in MergedIds' <=> i \in MergedIds
    BY <1>1, <1>2, <2>1 DEF MergedIds
  <2> QED BY <2>2 DEF MergedIds
<1>4. ASSUME NEW k \in Keys PROVE Level(k)'
  <2>1. AppliedOn(k)' = AppliedOn(k) /\ PendingOn(k)' = PendingOn(k)
    BY <1>1, SameLedger
  <2>2. CASE TableOf[k] # t
    BY <1>1, <1>2, <2>1, <2>2 DEF Level, ActivePayload, Oracle!Effect
  <2>3. CASE TableOf[k] = t
    <3>1. merged[k] = 0
      BY <1>1, <1>2, <2>3 DEF Level
    <3>2. \A p \in PendingOn(k) : ~(p.seq <= 0)
      BY OnTyped DEF OracleInv, TargetInv, RunInv
    <3> QED BY <1>2, <2>1, <3>1, <3>2 DEF Level
  <2> QED BY <2>2, <2>3
<1>5. \A r \in Runners : Follows(runner[r])'
  <2>1. ASSUME NEW r \in Runners PROVE Follows(runner[r])'
    <3>1. Follows(runner[r]) /\ (runner[r].pc \in {"delete", "mark"} => \A e \in Wave(runner[r].act) : e.key \in Keys)
      BY RunType, EventFields DEF OracleInv, TargetInv, Wave, Active
    <3> QED BY <1>1, <1>2, <3>1 DEF Follows, IsSubmitted, OnFront, MergedUp, Wave, WaveLE, IsPending
  <2> QED BY <2>1
<1>6. FirstLeft'
  BY <1>1 DEF OracleInv, FirstLeft, IsPending, IsSubmitted, Settled, Replay, Overtaken,
     IsApplied, WaveLE
<1>7. Oracle!LoadTable(t)
  <2>1. ASSUME NEW k \in Keys
        PROVE  ActivePayload(target'[k]) = IF TableOf[k] # t THEN ActivePayload(target[k])
                                           ELSE IF k \in SnapshotKeys THEN Bootstrap ELSE NoRow
    <3>1. CASE TableOf[k] # t
      BY <1>1, <3>1
    <3>2. CASE TableOf[k] = t /\ k \in SnapshotKeys
      <4>1. /\ target'[k] \in Row /\ target'[k].payload = Bootstrap
            /\ target'[k].deleted = FALSE
        <5> PICK row : row = [payload |-> Bootstrap, last |-> Bootstrap, deleted |-> FALSE]
          OBVIOUS
        <5>1. target'[k] = row
          BY <1>1, <3>2 DEF BootRow
        <5> QED BY <5>1 DEF Row
      <4> QED BY <3>2, <4>1, NullAssumption DEF ActivePayload
    <3>3. CASE TableOf[k] = t /\ k \notin SnapshotKeys
      BY <1>1, <3>3 DEF ActivePayload, BootRow
    <3> QED BY <3>1, <3>2, <3>3
  <2> QED BY <1>1, <1>3, <2>1 DEF Oracle!LoadTable
<1> QED BY <1>4, <1>5, <1>6, <1>7 DEF Simulates, Oracle!Next

(* What one of the two merges of a wave does: its events that were not     *)
(* merged before take effect together, the others show already.            *)
LEMMA MergedTogether ==
  ASSUME OracleInv, NEW r \in Runners, runner[r].pc \in {"upsert", "delete"},
         NEW V \in SUBSET Wave(runner[r].act), \A e \in V : TableOf[e.key] \in tables,
         UNCHANGED <<tables, ledger>>, merged' = MergeSeqs(V),
         \A k \in Keys : (\A e \in V : e.key # k) => target'[k] = target[k],
         \A e \in V : ActivePayload(target'[e.key]) = Oracle!Effect(e)
  PROVE  /\ \A k \in Keys : Level(k)'
         /\ \A e \in V : merged'[e.key] = e.seq
         /\ \A k \in Keys : merged[k] <= merged'[k]
         /\ Oracle!Next \/ UNCHANGED Oracle!vars
<1> PICK W : W = Wave(runner[r].act)
  OBVIOUS
<1> DEFINE S == {e \in V : ~(e.seq <= merged[e.key])}
<1>1. /\ TypeOK /\ LedgerSound /\ V \subseteq W /\ W \subseteq Events /\ \A e \in W : Open(e)
      /\ \A e, f \in W : e.key = f.key \/ e.id = f.id => e = f
      /\ \A e \in W : /\ \A f \in PendingOn(e.key) : f = e
                      /\ \A f \in AppliedOn(e.key) : f.seq < e.seq
                      /\ e.seq <= merged[e.key] => merged[e.key] = e.seq
  <2>1. runner[r].pc \in Planned /\ runner[r].pc \in InWave
    BY DEF Planned, InWave
  <2>2. \A e \in W : Open(e)
    BY <2>1 DEF OracleInv, TargetInv, RunInv, Sound, Opened
  <2> QED BY <2>1, <2>2, WaveFacts DEF OracleInv, TargetInv, RunInv
<1>2. \A e \in V : /\ e.key \in Keys /\ e.id \in EventIds /\ e.seq \in Nat /\ merged[e.key] \in Nat
                   /\ e \in PendingOn(e.key)
  BY <1>1, EventFields, OpenOn DEF TypeOK
<1>3. ASSUME NEW k \in Keys
      PROVE  /\ \A e \in V : e.key = k => merged'[k] = e.seq
             /\ (\A e \in V : e.key # k) => merged'[k] = merged[k]
  <2>1. merged'[k] = IF \E e \in On(V, k) : e.seq > merged[k] THEN EventOn(V, k).seq ELSE merged[k]
    BY DEF MergeSeqs
  <2>2. ASSUME NEW e \in V, e.key = k PROVE merged'[k] = e.seq
    <3>1. e \in On(V, k) /\ On(V, k) # {}
      BY <2>2 DEF On
    <3>2. EventOn(V, k) \in V /\ EventOn(V, k).key = k
      BY <1>1, <3>1, EventOnKey
    <3>3. EventOn(V, k) = e /\ \A f \in On(V, k) : f = e
      BY <1>1, <2>2, <3>2 DEF On
    <3>4. CASE e.seq <= merged[k]
      <4>1. merged[k] = e.seq
        BY <1>1, <2>2, <3>4
      <4> QED BY <1>2, <2>1, <3>3, <4>1
    <3>5. CASE ~(e.seq <= merged[k])
      <4>1. e.seq > merged[k]
        BY <1>2, <2>2, <3>5
      <4> QED BY <2>1, <3>1, <3>3, <4>1
    <3> QED BY <3>4, <3>5
  <2>3. (\A e \in V : e.key # k) => On(V, k) = {}
    BY DEF On
  <2> QED BY <2>1, <2>2, <2>3
<1>4. ASSUME NEW k \in Keys PROVE Level(k)'
  <2>1. AppliedOn(k)' = AppliedOn(k) /\ PendingOn(k)' = PendingOn(k) /\ Level(k)
    BY SameLedger DEF OracleInv
  <2>2. CASE \A e \in V : e.key # k
    <3>1. merged'[k] = merged[k] /\ target'[k] = target[k]
      BY <1>3, <2>2
    <3> QED BY <2>1, <3>1 DEF Level, ActivePayload, Oracle!Effect
  <2>3. CASE \E e \in V : e.key = k
    <3>1. PICK e \in V : e.key = k
      BY <2>3
    <3>2. merged'[k] = e.seq /\ e \in PendingOn(k)' /\ TableOf[k] \in tables'
      BY <1>2, <1>3, <2>1, <3>1
    <3>3. \A f \in AppliedOn(k)' : f.seq <= e.seq
      BY <1>1, <1>2, <2>1, <3>1, OnTyped
    <3>4. \A p \in PendingOn(k)' : p = e
      BY <1>1, <2>1, <3>1
    <3>5. ActivePayload(target[k])' = Oracle!Effect(e)
      BY <3>1 DEF ActivePayload
    <3> QED BY <3>2, <3>3, <3>4, <3>5 DEF Level, Oracle!Effect
  <2> QED BY <2>2, <2>3
<1>5. \A e \in V : e \notin S => /\ ActivePayload(target[e.key]) = Oracle!Effect(e)
                               /\ merged'[e.key] = merged[e.key]
  <2> SUFFICES ASSUME NEW e \in V, e \notin S
               PROVE  /\ ActivePayload(target[e.key]) = Oracle!Effect(e)
                      /\ merged'[e.key] = merged[e.key]
    OBVIOUS
  <2>1. e.seq <= merged[e.key] /\ e \in PendingOn(e.key) /\ Level(e.key)
    BY <1>2 DEF OracleInv
  <2>2. ActivePayload(target[e.key]) = Oracle!Effect(e)
    BY <2>1 DEF Level
  <2> QED BY <1>1, <1>2, <1>3, <2>1, <2>2
<1>6. \A k \in Keys : (\A e \in S : e.key # k) =>
        /\ ActivePayload(target'[k]) = ActivePayload(target[k]) /\ merged'[k] = merged[k]
  <2> SUFFICES ASSUME NEW k \in Keys, \A e \in S : e.key # k
               PROVE  ActivePayload(target'[k]) = ActivePayload(target[k]) /\ merged'[k] = merged[k]
    OBVIOUS
  <2>1. CASE \A e \in V : e.key # k
    BY <1>3, <2>1
  <2>2. CASE \E e \in V : e.key = k
    BY <1>5, <2>2
  <2> QED BY <2>1, <2>2
<1>7. \A k \in Keys : merged[k] <= merged'[k]
  <2> SUFFICES ASSUME NEW k \in Keys PROVE merged[k] <= merged'[k]
    OBVIOUS
  <2>1. merged[k] \in Nat
    BY <1>1 DEF TypeOK
  <2>2. CASE \E e \in S : e.key = k
    BY <1>2, <1>3, <2>1, <2>2
  <2>3. CASE \A e \in S : e.key # k
    BY <1>6, <2>1, <2>3
  <2> QED BY <2>2, <2>3
<1>8. MergedIds' = MergedIds \cup {e.id : e \in S}
  <2>1. ASSUME NEW i \in EventIds, ledger[i] # NoRecord
        PROVE  i \in MergedIds' <=> i \in MergedIds \/ \E e \in S : e.id = i
    <3> PICK f : f = ledger[i].ev
      OBVIOUS
    <3>1. f.key \in Keys /\ f.seq \in Nat /\ f.id = i /\ merged[f.key] \in Nat
          /\ f \in AppliedOn(f.key) \cup PendingOn(f.key)
      <4>1. ledger[i] \in Record /\ f.id = i
        BY <1>1, <2>1 DEF TypeOK, LedgerSound
      <4>2. f \in Events /\ (IsApplied(i) \/ IsPending(i))
        BY <2>1, <4>1 DEF Record, IsApplied, IsPending
      <4> QED BY <1>1, <4>1, <4>2, EventFields DEF AppliedOn, PendingOn, TypeOK
    <3>2. (i \in MergedIds <=> f.seq <= merged[f.key]) /\ (i \in MergedIds' <=> f.seq <= merged'[f.key])
      BY <2>1 DEF MergedIds
    <3>3. \A e \in S : e.id = i => e = f
      BY <1>1 DEF Open
    <3>4. CASE \A e \in S : e.key # f.key
      BY <1>6, <3>1, <3>2, <3>3, <3>4
    <3>5. CASE \E e \in S : e.key = f.key
      <4>1. PICK e \in S : e.key = f.key
        BY <3>5
      <4>2. merged'[f.key] = e.seq /\ e.seq \in Nat
        BY <1>2, <1>3, <3>1, <4>1
      <4>3. CASE f \in AppliedOn(f.key)
        <5>1. f.seq < e.seq
          BY <1>1, <4>1, <4>3
        <5>2. Level(f.key)
          BY <3>1 DEF OracleInv
        <5>3. f.seq <= merged[f.key]
          BY <4>3, <5>2 DEF Level
        <5> QED BY <3>1, <3>2, <4>2, <5>1, <5>3
      <4>4. CASE f \in PendingOn(f.key)
        <5>1. f = e
          BY <1>1, <4>1, <4>4
        <5> QED BY <3>1, <3>2, <4>1, <4>2, <5>1
      <4> QED BY <3>1, <4>3, <4>4
    <3> QED BY <3>4, <3>5
  <2>2. \A i \in EventIds : i \in MergedIds \/ i \in MergedIds' => ledger[i] # NoRecord
    BY DEF MergedIds
  <2>3. \A e \in S : e.id \in EventIds /\ ledger[e.id] # NoRecord
    BY <1>1, <1>2 DEF Open, IsPending
  <2>4. MergedIds \subseteq EventIds /\ MergedIds' \subseteq EventIds
    BY DEF MergedIds
  <2> HIDE DEF S
  <2> QED BY <2>1, <2>2, <2>3, <2>4
<1>9. merged \in [Keys -> Nat] /\ merged' = [k \in Keys |-> merged'[k]]
  BY <1>1 DEF TypeOK, MergeSeqs
<1>10. CASE S = {}
  <2>1. merged' = merged /\ MergedIds' = MergedIds
    BY <1>6, <1>8, <1>9, <1>10
  <2>2. [k \in Keys |-> ActivePayload(target[k])]' = [k \in Keys |-> ActivePayload(target[k])]
    <3>1. \A k \in Keys : ActivePayload(target[k])' = ActivePayload(target[k])
      <4> SUFFICES ASSUME NEW k \in Keys PROVE ActivePayload(target[k])' = ActivePayload(target[k])
        OBVIOUS
      <4>1. ActivePayload(target'[k]) = ActivePayload(target[k])
        BY <1>6, <1>10
      <4> QED BY <4>1 DEF ActivePayload
    <3> QED BY <3>1
  <2>3. UNCHANGED Oracle!vars
    BY <2>1, <2>2 DEF Oracle!vars
  <2> QED BY <1>2, <1>3, <1>4, <1>7, <2>3
<1>11. CASE S # {}
  <2>1. \A e \in S : e \in V /\ e \in W /\ ~(e.seq <= merged[e.key])
    BY <1>1
  <2> HIDE DEF S
  <2>2. ASSUME NEW e \in S
        PROVE  /\ e \in Events /\ e.id \notin MergedIds /\ TableOf[e.key] \in tables /\ merged[e.key] < e.seq
    <3>1. e.id \notin MergedIds
      BY <1>1, <2>1 DEF MergedIds, Open
    <3> QED BY <1>1, <1>2, <2>1, <3>1
  <2>3. S \subseteq Oracle!Newer
    BY <2>2 DEF Oracle!Newer, Oracle!New
  <2>4. \A e, f \in S : e.key = f.key \/ e.id = f.id => e = f
    BY <1>1, <2>1
  <2>5. ASSUME NEW k \in Keys
        PROVE  /\ ActivePayload(target[k])' = IF \E e \in S : e.key = k
                                              THEN Oracle!Effect(CHOOSE e \in S : e.key = k)
                                              ELSE ActivePayload(target[k])
               /\ merged'[k] = IF \E e \in S : e.key = k THEN (CHOOSE e \in S : e.key = k).seq ELSE merged[k]
    <3>1. ActivePayload(target[k])' = ActivePayload(target'[k])
      BY DEF ActivePayload
    <3>2. CASE \A e \in S : e.key # k
      BY <1>6, <3>1, <3>2
    <3>3. CASE \E e \in S : e.key = k
      <4> PICK c : c = CHOOSE e \in S : e.key = k
        OBVIOUS
      <4>1. c \in S /\ c.key = k
        BY <3>3
      <4>2. ActivePayload(target'[k]) = Oracle!Effect(c) /\ merged'[k] = c.seq
        BY <1>3, <2>1, <4>1
      <4> QED BY <3>1, <3>3, <4>2
    <3> QED BY <3>2, <3>3
  <2>6. Oracle!ApplyEvents(S)
    BY <1>8, <1>9, <1>11, <2>3, <2>4, <2>5 DEF Oracle!ApplyEvents
  <2>7. Oracle!Next
    BY <2>3, <2>6 DEF Oracle!Next
  <2> QED BY <1>2, <1>3, <1>4, <1>7, <2>7
<1> QED BY <1>10, <1>11

LEMMA ShownEffect ==
  ASSUME NEW e \in Events, NEW row, Shows(row, e) PROVE ActivePayload(row) = Oracle!Effect(e)
<1>1. CASE e.op = "DELETE"
  BY <1>1 DEF Shows, ActivePayload, Oracle!Effect
<1>2. CASE e.op # "DELETE"
  <2> PICK new : new = [payload |-> e, last |-> e, deleted |-> FALSE]
    OBVIOUS
  <2>1. row = new /\ new \in Row /\ new.payload = e /\ new.deleted = FALSE
    BY <1>2 DEF Shows, Row
  <2> QED BY <1>2, <2>1, NullAssumption DEF ActivePayload, Oracle!Effect
<1> QED BY <1>1, <1>2

(* Phase B: each of the two commits of a wave is one step of the oracle,   *)
(* or none when it only repeats what an interrupted run had merged.        *)
LEMMA MergeSimulates ==
  ASSUME OneRunner, Spelt, OracleInv, NEW r \in Runners, MergeUpserts(r) \/ MergeDeletes(r)
  PROVE  Simulates
<1> PICK x : x = runner[r]
  OBVIOUS
<1> PICK W : W = Wave(x.act)
  OBVIOUS
<1> PICK V : V = IF MergeUpserts(r) THEN Upserts(W) ELSE Deletes(W)
  OBVIOUS
<1>1. /\ UNCHANGED <<tables, ledger, intent>> /\ x \in Active /\ Follows(x) /\ TypeOK /\ RunInv
      /\ x.pc \in {"upsert", "delete"} /\ Merged(x)
  BY RunType DEF MergeUpserts, MergeDeletes, At, OracleInv, TargetInv, Agreement
<1>2. MergeUpserts(r) <=> x.pc = "upsert"
  BY DEF MergeUpserts, MergeDeletes, At
<1>3. /\ V \in SUBSET W /\ W \subseteq Events
      /\ \A e \in V : IF MergeUpserts(r) THEN e.op \in {"INSERT", "UPDATE"} ELSE e.op = "DELETE"
  BY <1>1 DEF Upserts, Deletes, Wave, Active
<1>4. \A e \in W : /\ e.key \in Keys /\ e.seq \in Nat
                   /\ IF MergeUpserts(r) THEN e.op # "DELETE" => e \in V ELSE e.op = "DELETE" => e \in V
  <2>1. \A e \in W : e.key \in Keys /\ e.seq \in Nat /\ e.op \in {"INSERT", "UPDATE", "DELETE"}
    BY <1>3, EventAssumption DEF Spelt, Ops
  <2> QED BY <2>1 DEF Upserts, Deletes
<1>5. \A e \in W : TableOf[e.key] \in tables
  BY <1>1 DEF MergeUpserts, MergeDeletes, Merged, At
<1>6. merged' = MergeSeqs(V)
      /\ \A k \in Keys : (\A e \in V : e.key # k) => target'[k] = target[k]
  <2>1. \A k \in Keys : (\A e \in V : e.key # k) => On(V, k) = {}
    BY DEF On
  <2>2. CASE MergeUpserts(r)
    BY <2>1, <2>2 DEF MergeUpserts
  <2>3. CASE ~MergeUpserts(r)
    BY <2>1, <2>3 DEF MergeDeletes
  <2> QED BY <2>2, <2>3
<1>7. \A e \in V : ActivePayload(target'[e.key]) = Oracle!Effect(e)
  <2> SUFFICES ASSUME NEW e \in V PROVE ActivePayload(target'[e.key]) = Oracle!Effect(e)
    OBVIOUS
  <2>1. Shows(target'[e.key], e)
    BY <1>1, <1>3, <1>4, MergeEffect
  <2> QED BY <1>3, <2>1, ShownEffect
<1>8. /\ \A k \in Keys : Level(k)'
      /\ \A e \in V : merged'[e.key] = e.seq
      /\ \A k \in Keys : merged[k] <= merged'[k]
      /\ Oracle!Next \/ UNCHANGED Oracle!vars
  BY <1>1, <1>3, <1>5, <1>6, <1>7, MergedTogether
<1>9. FirstLeft'
  BY <1>1 DEF OracleInv, FirstLeft, IsPending, IsSubmitted, Settled, Replay, Overtaken,
     IsApplied, WaveLE
<1>10. \A s \in Runners : Follows(runner[s])'
  <2>1. /\ runner'[r].pc = IF MergeUpserts(r) THEN "delete" ELSE "mark"
        /\ runner'[r].act = x.act /\ runner'[r].proc = x.proc /\ runner'[r].batch = x.batch
    BY <1>1, GotoEffect DEF MergeUpserts, MergeDeletes
  <2>2. OnFront(runner[r])'
    BY <1>1, <2>1 DEF Follows, OnFront, Planned, Wave, WaveLE, IsPending
  <2>3. ASSUME NEW e \in W, e.op # "DELETE" \/ ~MergeUpserts(r) PROVE e.seq <= merged'[e.key]
    <3>1. merged[e.key] \in Nat /\ merged[e.key] <= merged'[e.key] /\ merged'[e.key] \in Nat
      <4>1. merged' \in [Keys -> Nat]
        BY <1>1, <1>3, <1>6, MergeSeqsType
      <4> QED BY <1>1, <1>4, <1>8, <4>1 DEF TypeOK
    <3>2. CASE e \in V
      BY <1>4, <1>8, <3>2
    <3>3. CASE e \notin V
      <4>1. ~MergeUpserts(r) /\ e.op # "DELETE"
        BY <1>4, <2>3, <3>3
      <4>2. e.seq <= merged[e.key]
        BY <1>1, <1>2, <4>1 DEF Follows, MergedUp
      <4> QED BY <1>4, <3>1, <4>2
    <3> QED BY <3>2, <3>3
  <2>4. MergedUp(runner[r])'
    <3>1. Wave(runner'[r].act) = W
      BY <2>1
    <3>2. \A e \in W : e.op # "DELETE" \/ runner'[r].pc = "mark" => e.seq <= merged'[e.key]
      BY <2>1, <2>3
    <3> QED BY <3>1, <3>2 DEF MergedUp, Wave, WaveLE
  <2>5. Follows(runner[r])'
    BY <1>1, <2>1, <2>2, <2>4 DEF Follows, IsSubmitted
  <2> QED BY <2>5 DEF OneRunner
<1> QED BY <1>8, <1>9, <1>10 DEF Simulates
-----------------------------------------------------------------------------
LEMMA OracleInit == Init => OracleInv /\ Oracle!Init
<1> SUFFICES ASSUME Init PROVE OracleInv /\ Oracle!Init
  OBVIOUS
<1>1. \A i \in EventIds : ledger[i] = NoRecord
  BY DEF Init
<1>2. \A i \in EventIds : ~IsPending(i) /\ ~IsApplied(i)
  BY <1>1 DEF IsPending, IsApplied
<1>3. FirstLeft
  BY <1>2 DEF FirstLeft
<1>4. \A r \in Runners : Follows(runner[r])
  BY DEF Init, Idle, Follows, OnFront, MergedUp, Planned
<1>5. \A k \in Keys : Level(k)
  <2>1. \A k \in Keys : AppliedOn(k) = {} /\ PendingOn(k) = {}
    BY <1>2 DEF AppliedOn, PendingOn
  <2> QED BY <2>1 DEF Level, Init
<1>6. MergedIds = {}
  BY <1>1 DEF MergedIds
<1>7. [k \in Keys |-> ActivePayload(target[k])] = [k \in Keys |-> NoRow]
  BY DEF Init, ActivePayload
<1> QED BY <1>3, <1>4, <1>5, <1>6, <1>7, RunInit, AgreementInit
        DEF OracleInv, TargetInv, Oracle!Init, Init

LEMMA OracleStep ==
  ASSUME OneRunner, Identified, ContentAddressed, Spelt, ~AllowOverwrite, OracleInv, [Next]_vars
  PROVE  OracleInv' /\ [Oracle!Next]_(Oracle!vars)
<1>1. RunInv' /\ Agreement' /\ TypeOK'
  BY RunNext, AgreementStep DEF OracleInv, TargetInv, RunInv
<1>2. ASSUME NEW r \in Runners, Working(r) \/ Crash(r) PROVE Simulates
  <2>1. CASE \E s \in Submissions, policy \in Policies : Submit(r, s, policy)
    BY <2>1, SubmitSimulates
  <2>2. CASE CheckPending(r) \/ ReadHistory(r) \/ \E e \in Events : Skip(r, e) \/ Stage(r, e)
    BY <2>2, ReadSimulates
  <2>3. CASE Crash(r) \/ MissingTarget(r) \/ UpsertsRaise(r) \/ DeletesRaise(r) \/ \E e \in Events : Refuse(r, e)
    BY <2>3, LeaveSimulates DEF Crash, MissingTarget, UpsertsRaise, DeletesRaise, Refuse
  <2>4. CASE PlanWaves(r) \/ RecordPending(r) \/ MarkApplied(r)
    BY <1>1, <2>4, PlanSimulates, RecordSimulates, MarkSimulates
  <2>5. CASE MergeUpserts(r) \/ MergeDeletes(r)
    BY <2>5, MergeSimulates
  <2> QED BY <1>2, <2>1, <2>2, <2>3, <2>4, <2>5 DEF Working, RunStep
<1>3. Simulates
  <2>1. CASE \E t \in Tables : BootstrapTable(t)
    BY <2>1, BootstrapSimulates
  <2>2. CASE StartBootstrap \/ BootstrapFails \/ UNCHANGED vars
    <3>1. UNCHANGED <<tables, target, merged, ledger, intent, runner>>
      BY <2>2 DEF StartBootstrap, BootstrapFails, vars
    <3>2. \A r \in Runners : Follows(runner[r])'
      BY <3>1 DEF OracleInv, Follows, IsSubmitted, OnFront, MergedUp, Wave, WaveLE, IsPending
    <3> QED BY <3>1, <3>2, QuietSimulates
  <2> QED BY <1>2, <2>1, <2>2 DEF Next, Bootstrapping
<1> QED BY <1>1, <1>3 DEF Simulates, OracleInv, TargetInv

(* With one run at a time, a bootstrap that does not overwrite and content *)
(* addressed sets, the two-phase pipeline implements the source mutation   *)
(* engine: whatever is submitted, wherever a run dies and however often it *)
(* is repeated, the active rows of the targets move exactly as the oracle  *)
(* moves when it applies each event once, in the order of its key.         *)
THEOREM ImplementsOracle ==
  OneRunner /\ Identified /\ ContentAddressed /\ Spelt /\ ~AllowOverwrite
    => (Spec => ImplementsCurrentState)
<1> SUFFICES ASSUME OneRunner, Identified, ContentAddressed, Spelt, ~AllowOverwrite
             PROVE  Spec => ImplementsCurrentState
  OBVIOUS
<1>1. Init => OracleInv /\ Oracle!Init
  BY OracleInit
<1>2. OracleInv /\ [Next]_vars => OracleInv' /\ [Oracle!Next]_(Oracle!vars)
  BY OracleStep
<1> QED BY <1>1, <1>2, PTL DEF Spec, ImplementsCurrentState, Oracle!Spec

(* The active row of a key moves only when its table is loaded, or to an   *)
(* event of higher sequence than all that were merged into it: that is how *)
(* the oracle moves.                                                       *)
LEMMA OracleMovesUp ==
  ASSUME TypeOK, [Next]_vars, [Oracle!Next]_(Oracle!vars), NEW k \in Keys,
         ActivePayload(target'[k]) # ActivePayload(target[k])
  PROVE  TableOf[k] \in boot \/ merged'[k] > merged[k]
<1> DEFINE rows == [n \in Keys |-> ActivePayload(target[n])]
<1>1. rows'[k] # rows[k]
  BY DEF ActivePayload
<1>2. ~UNCHANGED Oracle!vars
  BY <1>1 DEF Oracle!vars
<1>3. CASE \E t \in Tables : Oracle!LoadTable(t)
  <2>1. PICK t \in Tables : Oracle!LoadTable(t)
    BY <1>3
  <2>2. t \notin tables /\ tables' = tables \cup {t} /\ (TableOf[k] # t => rows'[k] = rows[k])
    BY <2>1 DEF Oracle!LoadTable
  <2>3. PICK u \in Tables : BootstrapTable(u)
    BY <2>2 DEF Next, vars, Bootstrapping, StartBootstrap, BootstrapFails, Working, RunStep, Crash,
       Submit, CheckPending, ReadHistory, Skip, Stage, Refuse, PlanWaves, RecordPending,
       MergeUpserts, MissingTarget, UpsertsRaise, DeletesRaise, MergeDeletes, MarkApplied
  <2>4. u \in boot /\ u = t
    BY <2>2, <2>3 DEF BootstrapTable
  <2> QED BY <1>1, <2>2, <2>4
<1>4. CASE \E S \in SUBSET Oracle!Newer : Oracle!ApplyEvents(S)
  <2>1. PICK S \in SUBSET Oracle!Newer : Oracle!ApplyEvents(S)
    BY <1>4
  <2>2. \E e \in S : e.key = k
    BY <1>1, <2>1 DEF Oracle!ApplyEvents
  <2>3. PICK e \in S : e.key = k /\ e = CHOOSE f \in S : f.key = k
    BY <2>2
  <2>4. merged'[k] = e.seq
    BY <2>1, <2>2, <2>3 DEF Oracle!ApplyEvents
  <2>5. e \in Events /\ merged[k] < e.seq
    BY <2>3 DEF Oracle!Newer, Oracle!New
  <2>6. e.seq \in Nat /\ merged[k] \in Nat
    BY <2>5, EventFields DEF TypeOK
  <2> QED BY <2>4, <2>5, <2>6
<1>5. CASE \E e \in Events : Oracle!IgnoreStale(e)
  BY <1>1, <1>5 DEF Oracle!IgnoreStale
<1> QED BY <1>2, <1>3, <1>4, <1>5 DEF Oracle!Next

(* So with one run at a time no row ever goes back to an older event,      *)
(* which a slow run does to its own retry when two may overlap.            *)
THEOREM NeverStale ==
  OneRunner /\ Identified /\ ContentAddressed /\ Spelt /\ ~AllowOverwrite
    => (Spec => NoStaleOverwrite)
<1> SUFFICES ASSUME OneRunner, Identified, ContentAddressed, Spelt, ~AllowOverwrite
             PROVE  Spec => NoStaleOverwrite
  OBVIOUS
<1>1. Init => OracleInv
  BY OracleInit
<1>2. OracleInv /\ [Next]_vars => OracleInv'
  BY OracleStep
<1>3. OracleInv /\ [Next]_vars =>
        [\A k \in Keys : ActivePayload(target'[k]) # ActivePayload(target[k])
                            => TableOf[k] \in boot \/ merged'[k] > merged[k]]_vars
  BY OracleStep, OracleMovesUp DEF OracleInv, TargetInv, RunInv
<1> QED BY <1>1, <1>2, <1>3, PTL DEF Spec, NoStaleOverwrite
=============================================================================
