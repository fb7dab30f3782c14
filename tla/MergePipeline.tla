--------------------------- MODULE MergePipeline ---------------------------
(***************************************************************************)
(* The two-phase Delta MERGE pipeline (src/merge): durable target tables   *)
(* and a durable event_apply_ledger, mutated by runs of                    *)
(* DeltaMergePipeline.run.  A run checks the ledger's PENDING records,     *)
(* reads the applied sequences, classifies its events one by one, plans    *)
(* waves of equal (table, sequence), and for each wave records PENDING     *)
(* (phase A), merges upserts and then deletes into the target (phase B,    *)
(* two Delta commits) and marks the wave APPLIED (phase C).  Each Delta    *)
(* read or commit is one atomic step; a run may die between any two.       *)
(*                                                                         *)
(* Runners is the set of processes that may execute run() at the same      *)
(* time: one in the deployment the code is written for (it takes no lock), *)
(* two to study overlapping runs.                                          *)
(***************************************************************************)
EXTENDS Naturals, FiniteSets

CONSTANTS
  Keys,           \* primary keys of all tables; the entity_sequence_key of an event
  Tables,         \* target tables, numbered in the order of their names
  TableOf,        \* the table of each key
  EventIds,       \* event_id values
  Fingerprints,   \* event_fingerprint values
  Events,         \* accepted events: [id, fp, key, seq, op]
  Unconvertible,  \* those whose image convert_events_to_spark_df raises on
  ProcIds,        \* processing_id values
  Submissions,    \* [proc, batch]: the processing sets run() is called with
  Policies,       \* delete policies a pipeline may be built with
  SnapshotKeys,   \* keys with a row in the source snapshot
  AllowOverwrite, \* whether initialize_targets(overwrite=True) may be called
  Runners,        \* processes that may execute run()
  Bootstrap,      \* "snapshot_init": event and payload of a snapshot row
  NoRow, NoRecord \* absence of a target row, of a ledger record

Ops == {"INSERT", "UPDATE", "DELETE", "insert", "update", "delete"}

(* Events as the normalizer's accepted.jsonl delivers them: positive       *)
(* sequence numbers, and within one processing set no event_id twice.      *)
(* An operation in lower case stands for any spelling but the upper-case   *)
(* one; the normalizer accepts them all.  Of an image it looks at the      *)
(* primary key only: an event is unconvertible if a column that must have  *)
(* a value has none, or one that is no decimal, date or timestamp.         *)
ASSUME EventAssumption ==
  /\ Tables \subseteq Nat
  /\ TableOf \in [Keys -> Tables]
  /\ Events \subseteq [id: EventIds, fp: Fingerprints, key: Keys, seq: Nat \ {0}, op: Ops]
  /\ Unconvertible \subseteq {e \in Events : e.op \in {"INSERT", "UPDATE", "DELETE"}}
  /\ Submissions \subseteq [proc: ProcIds, batch: SUBSET Events]
  /\ \A s \in Submissions : \A e, f \in s.batch : e.id = f.id => e = f

ASSUME ValueAssumption ==
  /\ SnapshotKeys \subseteq Keys
  /\ Policies \subseteq {"HARD", "SOFT"}
  /\ AllowOverwrite \in BOOLEAN
  /\ Bootstrap \notin Events

VARIABLES
  tables,   \* target tables that exist
  boot,     \* tables a running initialize_targets has still to write
  target,   \* target[k]: row of key k in its table, or NoRow
  ledger,   \* ledger[i]: record of event_id i, or NoRecord
  runner,   \* local state of each run
  merged,   \* history: highest sequence merged into the table for each key
  intent    \* history: processing set of the run that last recorded PENDING

vars == <<tables, boot, target, ledger, runner, merged, intent>>

-----------------------------------------------------------------------------
(* Data.  A row's payload is the event whose after-image it carries, last  *)
(* the event of its _last_* lineage columns.  A soft delete moves last and *)
(* keeps payload.                                                          *)

Row    == [payload: Events \cup {Bootstrap}, last: Events \cup {Bootstrap}, deleted: BOOLEAN]
Record == [ev: Events, proc: ProcIds, status: {"PENDING", "APPLIED"}]
Steps  == {"check", "history", "classify", "record", "upsert", "delete", "mark"}

ASSUME NullAssumption ==
  /\ NoRow \notin Row
  /\ NoRecord \notin Record \cup ProcIds

NoSeqs == [k \in Keys |-> {}]

Active == [pc: Steps, proc: ProcIds, batch: SUBSET Events, policy: Policies,
           todo: SUBSET Events, seqs: [Keys -> SUBSET Nat], act: SUBSET Events]

Idle == [pc |-> "idle", proc |-> NoRecord, batch |-> {}, policy |-> NoRecord,
         todo |-> {}, seqs |-> NoSeqs, act |-> {}]

BootRow(k) == IF k \in SnapshotKeys
              THEN [payload |-> Bootstrap, last |-> Bootstrap, deleted |-> FALSE]
              ELSE NoRow

IsPending(i) == ledger[i] # NoRecord /\ ledger[i].status = "PENDING"
IsApplied(i) == ledger[i] # NoRecord /\ ledger[i].status = "APPLIED"

(* get_applied_max_sequences.  The code keeps the maximum of each set; the *)
(* three comparisons it makes with it are quantified over the set below.   *)
AppliedSeqs(k) == {ledger[i].ev.seq : i \in {j \in EventIds : IsApplied(j) /\ ledger[j].ev.key = k}}
-----------------------------------------------------------------------------
(* Initial state and bootstrap of the targets.                             *)

Init ==
  /\ tables = {}
  /\ boot = {}
  /\ target = [k \in Keys |-> NoRow]
  /\ ledger = [i \in EventIds |-> NoRecord]
  /\ runner = [r \in Runners |-> Idle]
  /\ merged = [k \in Keys |-> 0]
  /\ intent = [proc |-> NoRecord, batch |-> {}]

(* initialize_targets without overwrite refuses to start when any table    *)
(* exists; it then writes the tables one Delta commit at a time.           *)
StartBootstrap ==
  /\ boot = {}
  /\ AllowOverwrite \/ tables = {}
  /\ boot' = Tables
  /\ UNCHANGED <<tables, target, ledger, runner, merged, intent>>

BootstrapTable(t) ==
  /\ t \in boot
  /\ boot' = boot \ {t}
  /\ tables' = tables \cup {t}
  /\ target' = [k \in Keys |-> IF TableOf[k] = t THEN BootRow(k) ELSE target[k]]
  /\ merged' = [k \in Keys |-> IF TableOf[k] = t THEN 0 ELSE merged[k]]
  /\ UNCHANGED <<ledger, runner, intent>>

(* The bootstrap process dies: the tables it has written stay. *)
BootstrapFails ==
  /\ boot # {}
  /\ boot' = {}
  /\ UNCHANGED <<tables, target, ledger, runner, merged, intent>>
-----------------------------------------------------------------------------
(* One run: admission.                                                     *)

At(r, step) == runner[r].pc = step
Become(r, new) == runner' = [runner EXCEPT ![r] = new]
Goto(r, step) == Become(r, [runner[r] EXCEPT !.pc = step])

(* A MergeError, a normal return and the death of the process all leave    *)
(* only what is durable.                                                   *)
Leave(r) == Become(r, Idle)

Submit(r, s, policy) ==
  /\ At(r, "idle")
  /\ Become(r,
       [pc |-> "check", proc |-> s.proc, batch |-> s.batch, policy |-> policy,
        todo |-> s.batch, seqs |-> NoSeqs, act |-> {}])
  /\ UNCHANGED <<tables, boot, target, ledger, merged, intent>>

\* Mutant: only the PENDING records of the set's own events are looked at.
AdmitsUnrelated(proc, batch) ==
  \A e \in batch : IsPending(e.id) => ledger[e.id].proc = proc /\ e.fp = ledger[e.id].ev.fp

\* Mutant: any PENDING record bars every run.
AdmitsNone(proc, batch) == \A i \in EventIds : ~IsPending(i)

(* Step 1 of run(): every PENDING record must be owned by this processing  *)
(* set, be present in its input, and carry the same fingerprint.           *)
PendingAdmits(proc, batch) ==
  \A i \in EventIds : IsPending(i) =>
    /\ ledger[i].proc = proc
    /\ \E e \in batch : e.id = i
    /\ \A e \in batch : e.id = i => e.fp = ledger[i].ev.fp

CheckPending(r) ==
  /\ At(r, "check")
  /\ \/ PendingAdmits(runner[r].proc, runner[r].batch) /\ Goto(r, "history")
     \/ ~PendingAdmits(runner[r].proc, runner[r].batch) /\ Leave(r)
  /\ UNCHANGED <<tables, boot, target, ledger, merged, intent>>

ReadHistory(r) ==
  /\ At(r, "history")
  /\ Become(r, [runner[r] EXCEPT !.pc = "classify",
                                 !.seqs = [k \in Keys |-> AppliedSeqs(k)]])
  /\ UNCHANGED <<tables, boot, target, ledger, merged, intent>>
-----------------------------------------------------------------------------
(* One run: classification of an event e against its ledger record, read   *)
(* now, and the applied sequences seqs read in ReadHistory.                *)

Replay(e)   == IsApplied(e.id) /\ ledger[e.id].ev.fp = e.fp
Recovery(e, proc) ==
  IsPending(e.id) /\ ledger[e.id].ev.fp = e.fp /\ ledger[e.id].proc = proc
Stale(e, seqs) == ledger[e.id] = NoRecord /\ \E n \in seqs[e.key] : e.seq < n
\* Mutant: the applied sequences are not consulted.
FreshAlways(e, seqs) == ledger[e.id] = NoRecord
Fresh(e, seqs) == ledger[e.id] = NoRecord /\ \A n \in seqs[e.key] : n < e.seq

Skipped(e, seqs)      == Replay(e) \/ Stale(e, seqs)
\* Mutant: an exact replay is applied again.
StagedReplay(e, proc, seqs) == Replay(e) \/ Recovery(e, proc) \/ Fresh(e, seqs)
Staged(e, proc, seqs) == Recovery(e, proc) \/ Fresh(e, seqs)

(* EXACT_REPLAY_APPLIED or STALE_SKIPPED: nothing to do for this event. *)
Skip(r, e) ==
  /\ At(r, "classify") /\ e \in runner[r].todo
  /\ Skipped(e, runner[r].seqs)
  /\ Become(r, [runner[r] EXCEPT !.todo = @ \ {e}])
  /\ UNCHANGED <<tables, boot, target, ledger, merged, intent>>

(* FRESH or RECOVERY_PENDING: the event is actionable. *)
Stage(r, e) ==
  /\ At(r, "classify") /\ e \in runner[r].todo
  /\ Staged(e, runner[r].proc, runner[r].seqs)
  /\ Become(r, [runner[r] EXCEPT !.todo = @ \ {e}, !.act = @ \cup {e}])
  /\ UNCHANGED <<tables, boot, target, ledger, merged, intent>>

(* AppliedEventConflictError, PendingRecoveryError or                      *)
(* AppliedSequenceConflictError: the whole run is refused.                 *)
Refuse(r, e) ==
  /\ At(r, "classify") /\ e \in runner[r].todo
  /\ ~Skipped(e, runner[r].seqs) /\ ~Staged(e, runner[r].proc, runner[r].seqs)
  /\ Leave(r)
  /\ UNCHANGED <<tables, boot, target, ledger, merged, intent>>
-----------------------------------------------------------------------------
(* One run: waves.                                                         *)

\* Mutant: waves in descending sequence.
WaveGE(e, f) == \/ TableOf[e.key] < TableOf[f.key]
                \/ TableOf[e.key] = TableOf[f.key] /\ e.seq >= f.seq

WaveLE(e, f) == \/ TableOf[e.key] < TableOf[f.key]
                \/ TableOf[e.key] = TableOf[f.key] /\ e.seq <= f.seq

(* The actionable events of least (table, sequence). *)
Wave(S) == {e \in S : \A f \in S : WaveLE(e, f)}

(* Two events of one wave on one primary key: MergeAmbiguityError. *)
Ambiguous(S) == \E e, f \in S : e # f /\ e.key = f.key /\ e.seq = f.seq

Upserts(W) == {e \in W : e.op \in {"INSERT", "UPDATE"}}
Deletes(W) == {e \in W : e.op = "DELETE"}
On(W, k) == {e \in W : e.key = k}
EventOn(W, k) == CHOOSE e \in W : e.key = k
EventWithId(W, i) == CHOOSE e \in W : e.id = i

\* Mutant: the ambiguity check is left to the merge.
PlanUnchecked(r) ==
  /\ At(r, "classify") /\ runner[r].todo = {}
  /\ \/ runner[r].act = {} /\ Leave(r)
     \/ runner[r].act # {} /\ Goto(r, "record")
  /\ UNCHANGED <<tables, boot, target, ledger, merged, intent>>

\* Mutant: the first wave is merged before its intents are recorded.
PlanMergeFirst(r) ==
  /\ At(r, "classify") /\ runner[r].todo = {}
  /\ \/ runner[r].act = {} /\ Leave(r)
     \/ Ambiguous(runner[r].act) /\ Leave(r)
     \/ runner[r].act # {} /\ ~Ambiguous(runner[r].act) /\ Goto(r, "upsert")
  /\ UNCHANGED <<tables, boot, target, ledger, merged, intent>>

(* The early return without actionable events, the ambiguity check over    *)
(* every wave before the first mutation, or the first wave.                *)
PlanWaves(r) ==
  /\ At(r, "classify") /\ runner[r].todo = {}
  /\ \/ runner[r].act = {} /\ Leave(r)
     \/ Ambiguous(runner[r].act) /\ Leave(r)
     \/ runner[r].act # {} /\ ~Ambiguous(runner[r].act) /\ Goto(r, "record")
  /\ UNCHANGED <<tables, boot, target, ledger, merged, intent>>

\* Mutant: the records are written in overwrite mode instead of merged.
RecordOverwriting(r) ==
  LET W == Wave(runner[r].act) IN
  /\ At(r, "record")
  /\ ledger' = [i \in EventIds |->
       IF \E e \in W : e.id = i
       THEN [ev |-> EventWithId(W, i), proc |-> runner[r].proc, status |-> "PENDING"]
       ELSE NoRecord]
  /\ intent' = [proc |-> runner[r].proc, batch |-> runner[r].batch]
  /\ Goto(r, "upsert")
  /\ UNCHANGED <<tables, boot, target, merged>>

(* Phase A, record_pending_events: existing records are left untouched. *)
RecordPending(r) ==
  LET W == Wave(runner[r].act) IN
  /\ At(r, "record")
  /\ ledger' = [i \in EventIds |->
       IF ledger[i] = NoRecord /\ \E e \in W : e.id = i
       THEN [ev |-> EventWithId(W, i), proc |-> runner[r].proc, status |-> "PENDING"]
       ELSE ledger[i]]
  /\ intent' = [proc |-> runner[r].proc, batch |-> runner[r].batch]
  /\ Goto(r, "upsert")
  /\ UNCHANGED <<tables, boot, target, merged>>

MergeSeqs(W) ==
  [k \in Keys |-> IF \E e \in On(W, k) : e.seq > merged[k]
                  THEN EventOn(W, k).seq ELSE merged[k]]

\* Mutant: the lineage columns are not written.
UpsertNoLineage(e) == [payload |-> e, last |-> NoRow, deleted |-> FALSE]

(* Phase B, first commit: INSERT and UPDATE, matched or not. *)
UpsertRow(e) == [payload |-> e, last |-> e, deleted |-> FALSE]

\* Mutant: an event that cannot be converted is left out of its wave.
MergeUpsertsConvertible(r) ==
  LET W == Wave(runner[r].act)
      U == Upserts(W) \ Unconvertible
  IN
  /\ At(r, "upsert")
  /\ \A e \in W : TableOf[e.key] \in tables
  /\ target' = [k \in Keys |-> IF On(U, k) # {} THEN UpsertRow(EventOn(U, k)) ELSE target[k]]
  /\ merged' = MergeSeqs(U)
  /\ Goto(r, "delete")
  /\ UNCHANGED <<tables, boot, ledger, intent>>

(* The upserts of the wave are converted together, then merged.            *)
MergeUpserts(r) ==
  LET W == Wave(runner[r].act)
      U == Upserts(W)
  IN
  /\ At(r, "upsert")
  /\ \A e \in W : TableOf[e.key] \in tables
  /\ U \cap Unconvertible = {}
  /\ target' = [k \in Keys |-> IF On(U, k) # {} THEN UpsertRow(EventOn(U, k)) ELSE target[k]]
  /\ merged' = MergeSeqs(U)
  /\ Goto(r, "delete")
  /\ UNCHANGED <<tables, boot, ledger, intent>>

(* merge_wave finds no target table, after the intents were recorded. *)
MissingTarget(r) ==
  /\ At(r, "upsert")
  /\ \E e \in Wave(runner[r].act) : TableOf[e.key] \notin tables
  /\ Leave(r)
  /\ UNCHANGED <<tables, boot, target, ledger, merged, intent>>

(* The conversion of the wave's upserts raises: nothing of it is merged.   *)
UpsertsRaise(r) ==
  LET W == Wave(runner[r].act) IN
  /\ At(r, "upsert")
  /\ \A e \in W : TableOf[e.key] \in tables
  /\ Upserts(W) \cap Unconvertible # {}
  /\ Leave(r)
  /\ UNCHANGED <<tables, boot, target, ledger, merged, intent>>

(* That of its deletes raises, after its upserts were committed.           *)
DeletesRaise(r) ==
  /\ At(r, "delete")
  /\ Deletes(Wave(runner[r].act)) \cap Unconvertible # {}
  /\ Leave(r)
  /\ UNCHANGED <<tables, boot, target, ledger, merged, intent>>

(* Phase B, second commit: DELETE, on matched rows only. *)
DeletedRow(row, e, policy) ==
  IF row = NoRow \/ policy = "HARD" THEN NoRow
  ELSE [row EXCEPT !.last = e, !.deleted = TRUE]

MergeDeletes(r) ==
  LET D == Deletes(Wave(runner[r].act)) IN
  /\ At(r, "delete")
  /\ D \cap Unconvertible = {}
  /\ target' = [k \in Keys |-> IF On(D, k) # {}
                               THEN DeletedRow(target[k], EventOn(D, k), runner[r].policy)
                               ELSE target[k]]
  /\ merged' = MergeSeqs(D)
  /\ Goto(r, "mark")
  /\ UNCHANGED <<tables, boot, ledger, intent>>

(* Phase C, mark_events_applied, and on to the next wave or the end. *)
MarkApplied(r) ==
  LET W == Wave(runner[r].act)
      left == runner[r].act \ W
  IN
  /\ At(r, "mark")
  /\ ledger' = [i \in EventIds |-> IF IsPending(i) /\ \E e \in W : e.id = i
                                   THEN [ledger[i] EXCEPT !.status = "APPLIED"] ELSE ledger[i]]
  /\ Become(r, IF left = {} THEN Idle
                ELSE [runner[r] EXCEPT !.pc = "record", !.act = left])
  /\ UNCHANGED <<tables, boot, target, merged, intent>>

(* The process dies, or a failure hook fires, between two steps. *)
Crash(r) ==
  /\ ~At(r, "idle")
  /\ Leave(r)
  /\ UNCHANGED <<tables, boot, target, ledger, merged, intent>>
-----------------------------------------------------------------------------
RunStep(r) ==
  \/ CheckPending(r) \/ ReadHistory(r)
  \/ \E e \in Events : Skip(r, e) \/ Stage(r, e) \/ Refuse(r, e)
  \/ PlanWaves(r) \/ RecordPending(r)
  \/ MissingTarget(r) \/ UpsertsRaise(r) \/ MergeUpserts(r)
  \/ DeletesRaise(r) \/ MergeDeletes(r) \/ MarkApplied(r)

Bootstrapping ==
  StartBootstrap \/ BootstrapFails \/ \E t \in Tables : BootstrapTable(t)

Working(r) ==
  \/ RunStep(r)
  \/ \E s \in Submissions, policy \in Policies : Submit(r, s, policy)

Next == \/ Bootstrapping
        \/ \E r \in Runners : Working(r) \/ Crash(r)

Spec == Init /\ [][Next]_vars

(* A started run keeps executing, and the scheduler keeps handing every    *)
(* processing set to some run: recovery has no other trigger than the      *)
(* resubmission of the interrupted set.                                    *)
Fairness ==
  /\ \A r \in Runners : WF_vars(RunStep(r))
  /\ \A s \in Submissions :
       SF_vars(\E r \in Runners, policy \in Policies : Submit(r, s, policy))

LiveSpec == Spec /\ Fairness
-----------------------------------------------------------------------------
(* Properties.                                                             *)

(* Type invariant. *)
TypeOK ==
  /\ tables \subseteq Tables
  /\ boot \subseteq Tables
  /\ target \in [Keys -> Row \cup {NoRow}]
  /\ ledger \in [EventIds -> Record \cup {NoRecord}]
  /\ runner \in [Runners -> Active \cup {Idle}]
  /\ merged \in [Keys -> Nat]
  /\ intent \in [proc: ProcIds \cup {NoRecord}, batch: SUBSET Events]

(* The intent log is write-ahead, immutable and only moves forward: no     *)
(* step, of any number of runs, re-assigns a recorded event to another     *)
(* content or owner, forgets it, or takes APPLIED back; and no record is   *)
(* born APPLIED.                                                           *)
LedgerStep(i) ==
  /\ ledger[i] # NoRecord =>
       /\ ledger'[i] # NoRecord
       /\ ledger'[i].ev = ledger[i].ev /\ ledger'[i].proc = ledger[i].proc
       /\ ledger[i].status = "APPLIED" => ledger'[i].status = "APPLIED"
  /\ ledger[i] = NoRecord /\ ledger'[i] # NoRecord => ledger'[i].status = "PENDING"

LedgerImmutable == [][\A i \in EventIds : LedgerStep(i)]_vars

(* No target row carries the effect of an event whose intent was not made  *)
(* durable first, whatever runs interleave and wherever they die.          *)
IntentBeforeMutation ==
  \A k \in Keys : target[k] # NoRow /\ target[k].last # Bootstrap
                     => ledger[target[k].last.id] # NoRecord

(* All PENDING records have one owner: an interrupted processing set shuts *)
(* every other one out until it is recovered.                              *)
SinglePendingOwner ==
  \A i, j \in EventIds : IsPending(i) /\ IsPending(j) => ledger[i].proc = ledger[j].proc

(* A crash never wedges the ledger: resubmitting the processing set that   *)
(* left the PENDING records is admitted, and none of its events, nor its   *)
(* wave plan, is refused.  Whether its events can then be converted is     *)
(* another matter, see PendingResolved.                                    *)
Admissible(proc, batch) ==
  LET seqs == [k \in Keys |-> AppliedSeqs(k)]
      staged == {e \in batch : Staged(e, proc, seqs)}
  IN /\ PendingAdmits(proc, batch)
     /\ \A e \in batch : Skipped(e, seqs) \/ Staged(e, proc, seqs)
     /\ ~Ambiguous(staged)

RetryAdmitted ==
  (\E i \in EventIds : IsPending(i)) => Admissible(intent.proc, intent.batch)

(* The target agrees with the ledger: row k shows the APPLIED event of     *)
(* highest sequence on k (the bootstrap row if there is none), or the one  *)
(* PENDING event on k that is ahead of it.                                 *)
Shows(row, e) ==
  IF e.op = "DELETE" THEN row = NoRow \/ (row.deleted /\ row.last = e)
  ELSE row = [payload |-> e, last |-> e, deleted |-> FALSE]

AppliedOn(k) == {ledger[i].ev : i \in {j \in EventIds : IsApplied(j) /\ ledger[j].ev.key = k}}
PendingOn(k) == {ledger[i].ev : i \in {j \in EventIds : IsPending(j) /\ ledger[j].ev.key = k}}

ShowsApplied(k) ==
  \/ AppliedOn(k) = {} /\ target[k] = BootRow(k)
  \/ \E e \in AppliedOn(k) : /\ \A f \in AppliedOn(k) : f.seq <= e.seq
                             /\ Shows(target[k], e)

TargetAgreesWithLedger ==
  \A k \in Keys : TableOf[k] \in tables =>
    \/ ShowsApplied(k)
    \/ \E e \in PendingOn(k) : /\ \A f \in AppliedOn(k) : f.seq < e.seq
                               /\ Shows(target[k], e)

(* Effectively once: a row changes only for an event that is still PENDING *)
(* (or is loaded by the bootstrap); once APPLIED, no replay, retry or      *)
(* recovery touches the target for it again.                               *)
MutatesOnlyForPending(k) ==
  \/ target'[k] = target[k]
  \/ TableOf[k] \in boot
  \/ PendingOn(k) # {} /\ \E e \in PendingOn(k) : Shows(target'[k], e)

EffectivelyOnce == [][\A k \in Keys : MutatesOnlyForPending(k)]_vars

(* A stale sequence applied after a newer one has been merged is a no-op:  *)
(* the active payload of a key changes only to a higher sequence.          *)
ActivePayload(row) == IF row = NoRow THEN NoRow
                      ELSE IF row.deleted THEN NoRow ELSE row.payload

NoStaleOverwrite ==
  [][\A k \in Keys : ActivePayload(target'[k]) # ActivePayload(target[k])
                       => TableOf[k] \in boot \/ merged'[k] > merged[k]]_vars

(* If processes eventually stop dying, every interrupted intent is carried *)
(* through once the target tables exist, whichever sets the scheduler      *)
(* hands over in between; unless one of the PENDING events cannot be       *)
(* converted.  Nothing but such an event stays PENDING for good, and one   *)
(* does: no retry converts it, no operation removes its record, and no     *)
(* other set is admitted any more (Wedged), although the normalizer took   *)
(* it for valid.                                                           *)
CrashesCease == <>[][Bootstrapping \/ \E r \in Runners : Working(r)]_vars
Wedged == \E i \in EventIds : IsPending(i) /\ ledger[i].ev \in Unconvertible

PendingResolved ==
  CrashesCease =>
    \/ []<>(tables # Tables \/ \A i \in EventIds : ~IsPending(i))
    \/ <>[]Wedged

(* The pipeline implements the oracle: seen through the active payloads,   *)
(* every behaviour with crashes and retries is one of CurrentState.  The   *)
(* oracle has seen the recorded events whose effect is in the target.      *)
MergedIds == {i \in EventIds : ledger[i] # NoRecord /\ ledger[i].ev.seq <= merged[ledger[i].ev.key]}

Oracle == INSTANCE CurrentState WITH
  SnapshotRow <- Bootstrap, loaded <- tables, maxSeq <- merged, seen <- MergedIds,
  rows <- [k \in Keys |-> ActivePayload(target[k])]

ImplementsCurrentState == Oracle!Spec
=============================================================================
