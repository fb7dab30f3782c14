----------------------------- MODULE Watermark -----------------------------
(***************************************************************************)
(* Incremental extraction of one source table by composite watermark       *)
(* (src/watermark): workers executing run_table_extraction against a       *)
(* SQLite control store (watermark_state and watermark_run_audit), the     *)
(* landing directory, and a source table that changes all the while.  A    *)
(* run registers its audit record, reads LOW and its version, recovers an  *)
(* unfinished window or captures a fresh HIGH, extracts LOW < cursor <=    *)
(* HIGH, lands the rows in the file of the window, verifies the file and   *)
(* commits by compare-and-swap.  Every SQL transaction, source read and    *)
(* file operation is one step; a run may raise or die between any two.     *)
(* Tables share nothing, so one table stands for all of them.              *)
(***************************************************************************)
EXTENDS Naturals, Sequences, FiniteSets

CONSTANTS
  Keys,       \* primary keys, numbered in their order
  LastCursor, \* bound: the highest cursor <<updated_at, key>> the source may show
  MaxRuns,    \* bound: audit records
  Workers,    \* processes that may execute run_table_extraction
  Ordered,    \* rows become visible in the order of their cursors
  Moves       \* rows may be updated or deleted after their insertion

ASSUME ParameterAssumption ==
  /\ Keys \subseteq Nat \ {0} /\ IsFiniteSet(Keys)
  /\ LastCursor \in (Nat \ {0}) \X Keys
  /\ MaxRuns \in Nat
  /\ Ordered \in BOOLEAN /\ Moves \in BOOLEAN

VARIABLES
  source,   \* source[k]: updated_at of row k, 0 if there is no such row
  top,      \* history: highest cursor ever written to the source
  state,    \* watermark_state: [wm, ver]
  audit,    \* watermark_run_audit, in the order of insertion
  landing,  \* landing[b]: row versions in the file of batch b, {} if none
  worker    \* local state of each worker

vars == <<source, top, state, audit, landing, worker>>
-----------------------------------------------------------------------------
(* Cursors: (updated_at, primary key), the initial watermark below all.    *)

Initial == <<0, 0>>
Less(c, d) == c[1] < d[1] \/ (c[1] = d[1] /\ c[2] < d[2])
AtMost(c, d) == c = d \/ Less(c, d)

Cursors == {Initial} \cup {c \in (1..LastCursor[1]) \X Keys : AtMost(c, LastCursor)}

\* The rows of the source, each as the cursor that identifies its version.
SourceRows == {<<source[k], k>> : k \in {j \in Keys : source[j] > 0}}

HighOf(S) == IF S = {} THEN Initial ELSE CHOOSE c \in S : \A d \in S : AtMost(d, c)

\* generate_deterministic_batch_id: the hash of the window, as the window.
Batches == Cursors \X Cursors
NoBatch == <<>>

Statuses == {"RUNNING", "SUCCESS", "NO_DATA", "FAILED"}
Steps == {"low", "current", "candidate", "supersede", "capture", "window", "extract",
          "land", "verify", "commit", "nodata"}

\* ver 0 and NoBatch are SQL NULL.
NewAudit == [status |-> "RUNNING", ver |-> 0, low |-> Initial, high |-> Initial,
             batch |-> NoBatch, rows |-> 0]

NoState == [wm |-> Initial, ver |-> 0]

Idle == [pc |-> "idle", run |-> 0, low |-> Initial, ver |-> 0, cur |-> NoState,
         high |-> Initial, batch |-> NoBatch, old |-> 0, rows |-> {}]

Init ==
  /\ source = [k \in Keys |-> 0]
  /\ top = Initial
  /\ state = [wm |-> Initial, ver |-> 1]
  /\ audit = <<>>
  /\ landing = [b \in Batches |-> {}]
  /\ worker = [w \in Workers |-> Idle]
-----------------------------------------------------------------------------
(* The source, outside this code: updated_at never goes back, and with     *)
(* Ordered no row appears below a cursor that was already visible.         *)

Write(k, ts) ==
  /\ source[k] # ts /\ <<ts, k>> \in Cursors
  /\ source[k] > 0 => Moves
  /\ IF Ordered THEN Less(top, <<ts, k>>) ELSE top[1] <= ts
  /\ source' = [source EXCEPT ![k] = ts]
  /\ top' = IF Less(top, <<ts, k>>) THEN <<ts, k>> ELSE top
  /\ UNCHANGED <<state, audit, landing, worker>>

Delete(k) ==
  /\ Moves /\ source[k] > 0
  /\ source' = [source EXCEPT ![k] = 0]
  /\ UNCHANGED <<top, state, audit, landing, worker>>
-----------------------------------------------------------------------------
At(w, step) == worker[w].pc = step
Become(w, new) == worker' = [worker EXCEPT ![w] = new]
Goto(w, step) == Become(w, [worker[w] EXCEPT !.pc = step])

(* Step 1: the audit record, before any work. *)
StartAudit(w) ==
  /\ At(w, "idle")
  /\ Len(audit) < MaxRuns
  /\ audit' = Append(audit, NewAudit)
  /\ Become(w, [Idle EXCEPT !.pc = "low", !.run = Len(audit) + 1])
  /\ UNCHANGED <<source, top, state, landing>>

(* Step 2: LOW and the version the commit will expect, in one transaction. *)
ReadLow(w) ==
  /\ At(w, "low")
  /\ Become(w, [worker[w] EXCEPT !.pc = "current", !.low = state.wm, !.ver = state.ver])
  /\ UNCHANGED <<source, top, state, audit, landing>>

(* Step 3, get_recoverable_window: the state once more, ... *)
ReadCurrent(w) ==
  /\ At(w, "current")
  /\ Become(w, [worker[w] EXCEPT !.pc = "candidate", !.cur = state])
  /\ UNCHANGED <<source, top, state, audit, landing>>

(* ... then the latest unfinished attempt that has a HIGH.                 *)
Unfinished(n) ==
  audit[n].status \in {"FAILED", "RUNNING"} /\ audit[n].ver > 0 /\ audit[n].high # Initial

Candidates == {n \in DOMAIN audit : Unfinished(n) /\ \A m \in DOMAIN audit : m > n => ~Unfinished(m)}

\* Mutant: an attempt is recoverable whatever has been committed since.
EligibleAny(n, cur) == Less(audit[n].low, audit[n].high) /\ audit[n].batch # NoBatch

\* Mutant: an attempt is recoverable only while the source stands still.
EligibleIfCurrent(n, cur) ==
  /\ audit[n].ver = cur.ver /\ audit[n].low = cur.wm
  /\ audit[n].high = HighOf(SourceRows)
  /\ audit[n].batch # NoBatch

Eligible(n, cur) ==
  /\ audit[n].ver = cur.ver /\ audit[n].low = cur.wm
  /\ Less(audit[n].low, audit[n].high)
  /\ audit[n].batch # NoBatch

\* Recover: reuse its HIGH and batch_id; close it first if it is RUNNING.
Recover(w) ==
  /\ At(w, "candidate")
  /\ \E n \in Candidates :
       /\ Eligible(n, worker[w].cur)
       /\ Become(w, [worker[w] EXCEPT
            !.pc = IF audit[n].status = "RUNNING" THEN "supersede" ELSE "window",
            !.high = audit[n].high, !.batch = audit[n].batch,
            !.old = IF audit[n].status = "RUNNING" THEN n ELSE 0, !.cur = NoState])
  /\ UNCHANGED <<source, top, state, audit, landing>>

NothingToRecover(w) ==
  /\ At(w, "candidate")
  /\ \A n \in Candidates : ~Eligible(n, worker[w].cur)
  /\ Become(w, [worker[w] EXCEPT !.pc = "capture", !.cur = NoState])
  /\ UNCHANGED <<source, top, state, audit, landing>>

\* Mutant: a status of its own, which the queries do not know.
MarkSupersededAs(w) ==
  /\ At(w, "supersede")
  /\ audit' = [audit EXCEPT ![worker[w].old].status = IF @ = "RUNNING" THEN "SUPERSEDED" ELSE @]
  /\ Become(w, [worker[w] EXCEPT !.pc = "window", !.old = 0])
  /\ UNCHANGED <<source, top, state, landing>>

(* mark_superseded: only a record that is still RUNNING. *)
MarkSuperseded(w) ==
  /\ At(w, "supersede")
  /\ audit' = [audit EXCEPT ![worker[w].old].status = IF @ = "RUNNING" THEN "FAILED" ELSE @]
  /\ Become(w, [worker[w] EXCEPT !.pc = "window", !.old = 0])
  /\ UNCHANGED <<source, top, state, landing>>

(* capture_source_high_watermark and the batch_id of the window. *)
CaptureHigh(w) ==
  LET high == HighOf(SourceRows) IN
  /\ At(w, "capture")
  /\ Become(w, [worker[w] EXCEPT !.pc = "window", !.high = high,
                                 !.batch = <<worker[w].low, high>>])
  /\ UNCHANGED <<source, top, state, audit, landing>>

(* Steps 4 and 5: the window goes into the audit record; HIGH <= LOW is    *)
(* NO_DATA.                                                                *)
UpdateWindow(w) ==
  LET me == worker[w] IN
  /\ At(w, "window")
  /\ audit' = [audit EXCEPT ![me.run] =
       [audit[me.run] EXCEPT !.ver = me.ver, !.low = me.low, !.high = me.high,
                             !.batch = me.batch]]
  /\ Goto(w, IF Less(me.low, me.high) THEN "extract" ELSE "nodata")
  /\ UNCHANGED <<source, top, state, landing>>

\* Mutant: HIGH is exclusive.
ExtractBelow(w) ==
  LET rows == {c \in SourceRows : Less(worker[w].low, c) /\ Less(c, worker[w].high)} IN
  /\ At(w, "extract")
  /\ Become(w, [worker[w] EXCEPT !.pc = IF rows = {} THEN "nodata" ELSE "land",
                                 !.rows = rows])
  /\ UNCHANGED <<source, top, state, audit, landing>>

\* Mutant: LOW is ignored.
ExtractAll(w) ==
  LET rows == {c \in SourceRows : AtMost(c, worker[w].high)} IN
  /\ At(w, "extract")
  /\ Become(w, [worker[w] EXCEPT !.pc = IF rows = {} THEN "nodata" ELSE "land",
                                 !.rows = rows])
  /\ UNCHANGED <<source, top, state, audit, landing>>

(* Step 6, extract_bounded_window: the rows as they are now. *)
Extract(w) ==
  LET rows == {c \in SourceRows : Less(worker[w].low, c) /\ AtMost(c, worker[w].high)} IN
  /\ At(w, "extract")
  /\ Become(w, [worker[w] EXCEPT !.pc = IF rows = {} THEN "nodata" ELSE "land",
                                 !.rows = rows])
  /\ UNCHANGED <<source, top, state, audit, landing>>

(* complete_run_audit, whatever the record's status is by now. *)
Complete(w, status) ==
  /\ audit' = [audit EXCEPT ![worker[w].run] =
                 [audit[worker[w].run] EXCEPT !.status = status, !.rows = 0]]
  /\ Become(w, Idle)
  /\ UNCHANGED <<source, top, state, landing>>

NoData(w) == At(w, "nodata") /\ Complete(w, "NO_DATA")

(* Step 8: the file of the batch is replaced atomically. *)
WriteLanding(w) ==
  /\ At(w, "land")
  /\ landing' = [landing EXCEPT ![worker[w].batch] = worker[w].rows]
  /\ Goto(w, "verify")
  /\ UNCHANGED <<source, top, state, audit>>

(* Step 9: the file is read back and its rows are counted. *)
Verified(w) == Cardinality(landing[worker[w].batch]) = Cardinality(worker[w].rows)

VerifyLanding(w) ==
  /\ At(w, "verify") /\ Verified(w)
  /\ Goto(w, "commit")
  /\ UNCHANGED <<source, top, state, audit, landing>>

CountMismatch(w) == At(w, "verify") /\ ~Verified(w) /\ Complete(w, "FAILED")

\* Mutant: an update instead of a compare-and-swap.
CommitBlind(w) ==
  LET me == worker[w] IN
  /\ At(w, "commit")
  /\ state' = [wm |-> me.high, ver |-> state.ver + 1]
  /\ audit' = [audit EXCEPT ![me.run] =
       [audit[me.run] EXCEPT !.status = "SUCCESS", !.rows = Cardinality(me.rows)]]
  /\ Become(w, Idle)
  /\ UNCHANGED <<source, top, landing>>

(* Step 11, commit_successful_run: compare-and-swap and SUCCESS at once. *)
Commit(w) ==
  LET me == worker[w] IN
  /\ At(w, "commit")
  /\ state.ver = me.ver
  /\ state' = [wm |-> me.high, ver |-> me.ver + 1]
  /\ audit' = [audit EXCEPT ![me.run] =
       [audit[me.run] EXCEPT !.status = "SUCCESS", !.rows = Cardinality(me.rows)]]
  /\ Become(w, Idle)
  /\ UNCHANGED <<source, top, landing>>

(* WatermarkConcurrencyError: another worker has advanced the version. *)
Conflict(w) == At(w, "commit") /\ state.ver # worker[w].ver /\ Complete(w, "FAILED")

(* Any step inside the try may raise instead, for the handler to record    *)
(* FAILED.  An exception has no effect of its own, so a run that has       *)
(* raised and a run that is about to are not told apart.                   *)
Raise(w) == ~At(w, "idle") /\ Complete(w, "FAILED")

(* The process dies: its audit record stays RUNNING. *)
Die(w) ==
  /\ ~At(w, "idle")
  /\ Become(w, Idle)
  /\ UNCHANGED <<source, top, state, audit, landing>>
-----------------------------------------------------------------------------
Progress(w) ==
  \/ ReadLow(w) \/ ReadCurrent(w) \/ Recover(w) \/ NothingToRecover(w)
  \/ MarkSuperseded(w) \/ CaptureHigh(w) \/ UpdateWindow(w) \/ Extract(w) \/ NoData(w)
  \/ WriteLanding(w) \/ VerifyLanding(w) \/ CountMismatch(w)
  \/ Commit(w) \/ Conflict(w)

SourceStep == \E k \in Keys : Delete(k) \/ \E ts \in 1..LastCursor[1] : Write(k, ts)

Next ==
  \/ SourceStep
  \/ \E w \in Workers : StartAudit(w) \/ Progress(w) \/ Raise(w) \/ Die(w)

Spec == Init /\ [][Next]_vars
-----------------------------------------------------------------------------
(* Properties.                                                             *)

(* Type invariant. *)
AuditType == [status: Statuses, ver: Nat, low: Cursors, high: Cursors,
              batch: Batches \cup {NoBatch}, rows: Nat]
WorkerType == [pc: Steps \cup {"idle"}, run: Nat, low: Cursors, ver: Nat,
               cur: [wm: Cursors, ver: Nat], high: Cursors,
               batch: Batches \cup {NoBatch}, old: Nat, rows: SUBSET Cursors]

TypeOK ==
  /\ source \in [Keys -> 0..LastCursor[1]]
  /\ top \in Cursors
  /\ state \in [wm: Cursors, ver: Nat]
  /\ audit \in Seq(AuditType)
  /\ landing \in [Batches -> SUBSET Cursors]
  /\ worker \in [Workers -> WorkerType]
  /\ \A w \in Workers : ~At(w, "idle") => worker[w].run \in DOMAIN audit

(* The committed windows tile the history of the watermark: one SUCCESS    *)
(* record per version, each starting at the HIGH of the one before, the    *)
(* last ending at the watermark.  So no interleaving of workers, recovery  *)
(* or crash commits a window twice, leaves a gap, or advances the          *)
(* watermark without its SUCCESS record.                                   *)
Successes == {n \in DOMAIN audit : audit[n].status = "SUCCESS"}

HighAt(v) == IF v = 0 THEN Initial
             ELSE audit[CHOOSE n \in Successes : audit[n].ver = v].high

CommittedChain ==
  /\ \A v \in 1..(state.ver - 1) : \E n \in Successes : audit[n].ver = v
  /\ \A n \in Successes :
       /\ audit[n].ver < state.ver
       /\ audit[n].low = HighAt(audit[n].ver - 1)
       /\ \A m \in Successes : audit[m].ver = audit[n].ver => m = n
  /\ state.wm = HighAt(state.ver - 1)

(* The watermark only moves forward, by one version at a time, and never   *)
(* past a row the source has not shown yet.                                *)
WatermarkAdvances ==
  [][state' # state => /\ Less(state.wm, state'.wm) /\ AtMost(state'.wm, top)
                       /\ state'.ver = state.ver + 1]_vars

(* No row is skipped: every row of the source at or below the watermark is *)
(* in the landing file of a committed batch, whatever ran concurrently.    *)
NothingSkipped ==
  \A c \in SourceRows : AtMost(c, state.wm) =>
    \E n \in Successes : c \in landing[audit[n].batch]

(* The recoverable window contract: until one of them commits, all         *)
(* attempts at the current version that may be recovered or committed are  *)
(* for one window, with one batch_id, however far the source has moved on. *)
OneWindowPerVersion ==
  \A m, n \in DOMAIN audit :
    (/\ Unfinished(m) /\ Unfinished(n)
     /\ audit[m].ver = state.ver /\ audit[n].ver = state.ver
     /\ Less(audit[m].low, audit[m].high) /\ Less(audit[n].low, audit[n].high))
      => audit[m].high = audit[n].high /\ audit[m].batch = audit[n].batch

(* What was verified is what was committed: the file of a committed batch  *)
(* has the audited number of rows, all of them inside the window.          *)
LandedAsAudited ==
  \A n \in Successes :
    /\ Cardinality(landing[audit[n].batch]) = audit[n].rows
    /\ \A c \in landing[audit[n].batch] : Less(audit[n].low, c) /\ AtMost(c, audit[n].high)

(* Liveness is stated of a scheduler that keeps starting runs and of a     *)
(* platform whose faults cease.  CaughtUp: nothing waits above the         *)
(* watermark.  Starved: the window to be recovered next has lost all its   *)
(* rows, so that every run from here on recovers it and finds NO_DATA.     *)
CaughtUp == \A c \in SourceRows : AtMost(c, state.wm)

Starved ==
  \E n \in Candidates :
    /\ audit[n].ver = state.ver /\ audit[n].low = state.wm /\ Less(state.wm, audit[n].high)
    /\ \A c \in SourceRows : ~(Less(state.wm, c) /\ AtMost(c, audit[n].high))

(* One worker at a time, the extraction is an incremental load of the rows *)
(* of the table: the files of the windows the watermark has passed never   *)
(* lose a row, and the watermark passes a row only when one of them has it.*)
IncrementalLoad == INSTANCE IncrementalLoad WITH
  Positions <- Cursors, available <- SourceRows,
  loaded <- UNION {landing[b] : b \in {b \in Batches : AtMost(b[2], state.wm)}},
  begun <- TRUE, base <- Initial, position <- state.wm

ImplementsLoad == IncrementalLoad!Spec
=============================================================================
