-------------------------- MODULE WatermarkProofs --------------------------
(***************************************************************************)
(* Theorems about Watermark, for any table, number of workers and of runs, *)
(* wherever they raise, die or take over one another's windows.            *)
(***************************************************************************)
EXTENDS Watermark, FiniteSetTheorems, WellFoundedInduction, TLAPS

-----------------------------------------------------------------------------
(* Cursors are ordered, and finitely many of them have a highest.          *)
LEMMA CursorType == Initial \in Cursors /\ \A c \in Cursors : c \in Nat \X Nat
<1>1. Keys \subseteq Nat /\ LastCursor[1] \in Nat
  BY ParameterAssumption
<1> DEFINE Times == 1..LastCursor[1]
<1>2. Times \subseteq Nat
  OBVIOUS
<1> HIDE DEF Times
<1>3. \A c \in Times \X Keys : c \in Nat \X Nat
  BY <1>1, <1>2
<1> USE DEF Times
<1> QED BY <1>3 DEF Cursors, Initial

LEMMA Order ==
  ASSUME NEW c \in Cursors, NEW d \in Cursors, NEW e \in Cursors
  PROVE  /\ AtMost(c, c) /\ ~Less(c, c)
         /\ AtMost(c, d) \/ Less(d, c)
         /\ Less(c, d) => AtMost(c, d) /\ ~AtMost(d, c)
         /\ AtMost(c, d) /\ AtMost(d, e) => AtMost(c, e)
         /\ AtMost(c, d) /\ Less(d, e) => Less(c, e)
         /\ Less(c, d) /\ AtMost(d, e) => Less(c, e)
         /\ AtMost(Initial, c)
<1>1. /\ c = <<c[1], c[2]>> /\ c[1] \in Nat /\ c[2] \in Nat
      /\ d = <<d[1], d[2]>> /\ d[1] \in Nat /\ d[2] \in Nat
      /\ e = <<e[1], e[2]>> /\ e[1] \in Nat /\ e[2] \in Nat
  BY CursorType
<1>2. c = d <=> c[1] = d[1] /\ c[2] = d[2]
  BY <1>1
<1>3. d = e <=> d[1] = e[1] /\ d[2] = e[2]
  BY <1>1
<1>4. c = e <=> c[1] = e[1] /\ c[2] = e[2]
  BY <1>1
<1>5. AtMost(Initial, c)
  <2>1. c[1] = 0 /\ c[2] = 0 => c = <<0, 0>>
    BY <1>1
  <2> QED BY <1>1, <2>1 DEF AtMost, Less, Initial
<1> QED BY <1>1, <1>2, <1>3, <1>4, <1>5 DEF AtMost, Less

LEMMA HighestExists ==
  ASSUME NEW S \in SUBSET Cursors, IsFiniteSet(S), S # {}
  PROVE  \E c \in S : \A d \in S : AtMost(d, c)
<1> DEFINE Topless == {T \in FiniteSubsetsOf(Cursors) :
                         T # {} /\ ~ \E c \in T : \A d \in T : AtMost(d, c)}
<1> SUFFICES ASSUME S \in Topless PROVE FALSE
  BY DEF FiniteSubsetsOf
<1>1. PICK T \in Topless :
        \A U \in Topless : ~ <<U, T>> \in StrictSubsetOrdering(Cursors)
  <2>1. IsWellFoundedOn(StrictSubsetOrdering(Cursors), FiniteSubsetsOf(Cursors))
    BY FS_StrictSubsetOrderingWellFounded
  <2>2. Topless \subseteq FiniteSubsetsOf(Cursors) /\ Topless # {}
    OBVIOUS
  <2> HIDE DEF Topless
  <2> QED BY <2>1, <2>2, WFMin
<1>2. PICK x : x \in T
  OBVIOUS
<1> DEFINE U == T \ {x}
<1>3. T \in SUBSET Cursors /\ IsFiniteSet(T)
  BY DEF FiniteSubsetsOf
<1>4. IsFiniteSet(U)
  BY <1>3, FS_RemoveElement
<1>5. U # {}
  <2> SUFFICES ASSUME U = {} PROVE FALSE
    OBVIOUS
  <2>1. \A d \in T : AtMost(d, x)
    BY <1>2 DEF AtMost
  <2> QED BY <1>2, <2>1
<1>6. <<U, T>> \in StrictSubsetOrdering(Cursors)
  BY <1>2, <1>3 DEF StrictSubsetOrdering
<1>7. U \notin Topless
  BY <1>1, <1>6
<1>8. U \in FiniteSubsetsOf(Cursors)
  BY <1>3, <1>4 DEF FiniteSubsetsOf
<1>9. PICK y \in U : \A d \in U : AtMost(d, y)
  BY <1>5, <1>7, <1>8
<1>10. x \in Cursors /\ y \in Cursors
  BY <1>2, <1>3, <1>9
<1>11. CASE AtMost(x, y)
  BY <1>1, <1>9, <1>11
<1>12. CASE Less(y, x)
  <2>1. \A d \in T : AtMost(d, x)
    BY <1>3, <1>9, <1>10, <1>12, Order
  <2> QED BY <1>1, <1>2, <2>1
<1> QED BY <1>10, <1>11, <1>12, Order

(* The rows of the source are finitely many cursors.                       *)
LEMMA SourceCursors ==
  ASSUME source \in [Keys -> 0..LastCursor[1]], SourceRows \subseteq Cursors
  PROVE  IsFiniteSet(SourceRows) /\ HighOf(SourceRows) \in Cursors
<1> DEFINE K == {k \in Keys : source[k] > 0}
           f == [k \in K |-> <<source[k], k>>]
<1>1. IsFiniteSet(K)
  BY ParameterAssumption, FS_Subset
<1>2. f \in Surjection(K, SourceRows)
  BY DEF Surjection, SourceRows
<1>3. IsFiniteSet(SourceRows)
  BY <1>1, <1>2, FS_Surjection
<1>4. HighOf(SourceRows) \in Cursors
  <2>1. CASE SourceRows = {}
    BY <2>1, CursorType DEF HighOf
  <2>2. CASE SourceRows # {}
    BY <1>3, <2>2, HighestExists DEF HighOf
  <2> QED BY <2>1, <2>2
<1> QED BY <1>3, <1>4
-----------------------------------------------------------------------------
(* The inductive invariant.  What a worker, or an audit record, knows of   *)
(* the watermark: LOW is the watermark of its version, so that it is the   *)
(* watermark as long as the version is the current one.                    *)
Knows(ver, low) ==
  /\ ver \in 1..state.ver
  /\ AtMost(low, state.wm)
  /\ ver = state.ver => low = state.wm

(* The batch of a window that is still the next one starts at LOW; that of *)
(* a window somebody has overtaken may start above it.                     *)
Spans(ver, low, high, batch) ==
  /\ batch \in Batches /\ batch[2] = high
  /\ AtMost(low, batch[1]) /\ AtMost(high, top)
  /\ ver = state.ver => batch[1] = low

Windowed == {"supersede", "window", "extract", "land", "verify", "commit", "nodata"}
Extracting == {"extract", "land", "verify", "commit"}

Sound(x) ==
  /\ x.pc \notin {"idle", "low"} => Knows(x.ver, x.low)
  /\ x.pc = "candidate" => /\ Knows(x.cur.ver, x.cur.wm)
                           /\ x.ver <= x.cur.ver /\ AtMost(x.low, x.cur.wm)
  /\ x.pc \in Windowed => Spans(x.ver, x.low, x.high, x.batch)
  /\ x.pc \in Extracting =>
       /\ Less(x.low, x.high)
       /\ audit[x.run].ver = x.ver /\ audit[x.run].low = x.low
       /\ audit[x.run].high = x.high /\ audit[x.run].batch = x.batch
  /\ IsFiniteSet(x.rows)

WorkersSound == \A w \in Workers : Sound(worker[w])

RecordSound(a) == a.ver > 0 => Knows(a.ver, a.low) /\ Spans(a.ver, a.low, a.high, a.batch)

RecordsSound == \A n \in DOMAIN audit : RecordSound(audit[n])

(* A record belongs to one worker until it is completed.                   *)
Owned ==
  \A w \in Workers : ~At(w, "idle") =>
    /\ audit[worker[w].run].status \in {"RUNNING", "FAILED"}
    /\ \A u \in Workers \ {w} : ~At(u, "idle") => worker[u].run # worker[w].run

SourceShown ==
  /\ SourceRows \subseteq Cursors
  /\ \A c \in SourceRows : AtMost(c, top)
  /\ AtMost(state.wm, top) /\ state.ver >= 1

(* CommittedChain, with HighAt replaced by the record it names.            *)
Tiled ==
  /\ \A v \in 1..(state.ver - 1) : \E n \in Successes : audit[n].ver = v
  /\ \A n \in Successes :
       /\ audit[n].ver \in 1..(state.ver - 1)
       /\ audit[n].ver = 1 => audit[n].low = Initial
       /\ \A m \in Successes : /\ audit[m].ver = audit[n].ver => m = n
                               /\ audit[n].ver = audit[m].ver + 1 => audit[n].low = audit[m].high
       /\ audit[n].ver = state.ver - 1 => state.wm = audit[n].high
  /\ state.ver = 1 => state.wm = Initial

WInv == TypeOK /\ WorkersSound /\ RecordsSound /\ Owned /\ SourceShown /\ Tiled

-----------------------------------------------------------------------------
(* Updates of local states and of the log.                                 *)
LEMMA NullTypes ==
  /\ Idle \in WorkerType /\ Idle.pc = "idle" /\ IsFiniteSet(Idle.rows)
  /\ NoState \in [wm : Cursors, ver : Nat]
  /\ NewAudit \in AuditType /\ NewAudit.ver = 0 /\ NewAudit.status = "RUNNING"
BY CursorType, FS_EmptySet DEF Idle, WorkerType, NoState, NewAudit, AuditType, Statuses

(* The log after a record was replaced. *)
Replaced(i, rec) ==
  /\ audit' \in Seq(AuditType) /\ DOMAIN audit' = DOMAIN audit
  /\ audit'[i] = rec /\ \A n \in DOMAIN audit \ {i} : audit'[n] = audit[n]

LEMMA ReplaceRecord ==
  ASSUME audit \in Seq(AuditType), NEW i \in DOMAIN audit, NEW rec \in AuditType,
         audit' = [audit EXCEPT ![i] = rec]
  PROVE  Replaced(i, rec)
BY DEF Replaced

(* The local states after one has changed. *)
Moved(w, new) ==
  /\ worker' \in [Workers -> WorkerType]
  /\ worker'[w] = new /\ \A u \in Workers \ {w} : worker'[u] = worker[u]

LEMMA MoveWorker ==
  ASSUME worker \in [Workers -> WorkerType], NEW w \in Workers, NEW new \in WorkerType,
         Become(w, new)
  PROVE  Moved(w, new)
BY DEF Moved, Become

(* A step that only changes the local state of a worker.                   *)
LEMMA QuietStep ==
  ASSUME WInv, NEW w \in Workers, NEW new, Moved(w, new), Sound(new),
         new.pc = "idle" \/ (~At(w, "idle") /\ new.run = worker[w].run),
         UNCHANGED <<source, top, state, audit>>,
         landing' \in [Batches -> SUBSET Cursors]
  PROVE  WInv'
<1>1. TypeOK'
  BY DEF WInv, TypeOK, Moved, At
<1>2. WorkersSound'
  <2> SUFFICES ASSUME NEW u \in Workers PROVE Sound(worker[u])'
    BY DEF WorkersSound
  <2>1. worker'[u] = new \/ worker'[u] = worker[u]
    BY DEF Moved
  <2> QED BY <2>1 DEF WInv, WorkersSound, Sound, Knows, Spans
<1>3. RecordsSound'
  BY DEF WInv, RecordsSound, RecordSound, Knows, Spans
<1>4. Owned'
  BY DEF WInv, Owned, Moved, At
<1>5. SourceShown'
  BY DEF WInv, SourceShown, SourceRows
<1>6. Tiled'
  BY DEF WInv, Tiled, Successes
<1> QED BY <1>1, <1>2, <1>3, <1>4, <1>5, <1>6 DEF WInv
-----------------------------------------------------------------------------
(* Steps of a worker that change nothing but its local state.              *)
LEMMA Busy ==
  ASSUME WInv, NEW w \in Workers
  PROVE  worker[w] \in WorkerType /\ Sound(worker[w])
BY DEF WInv, TypeOK, WorkersSound

LEMMA ReadLowInv == ASSUME WInv, NEW w \in Workers, ReadLow(w) PROVE WInv'
<1> DEFINE me == worker[w]
           new == [me EXCEPT !.pc = "current", !.low = state.wm, !.ver = state.ver]
<1>1. me \in WorkerType /\ Sound(me) /\ me.pc = "low"
  BY Busy DEF ReadLow, At
<1>2. state.wm \in Cursors /\ state.ver \in Nat /\ state.ver >= 1
  BY DEF WInv, TypeOK, SourceShown
<1>3. /\ new \in WorkerType /\ new.pc = "current" /\ new.low = state.wm /\ new.ver = state.ver
      /\ new.run = me.run /\ new.rows = me.rows
  BY <1>1, <1>2 DEF WorkerType, Steps
<1>4. Moved(w, new)
  BY <1>3, MoveWorker DEF WInv, TypeOK, ReadLow
<1> HIDE DEF new
<1>5. Knows(new.ver, new.low)
  BY <1>2, <1>3, Order DEF Knows
<1>6. Sound(new)
  BY <1>1, <1>3, <1>5 DEF Sound, Windowed, Extracting
<1> QED BY <1>1, <1>3, <1>4, <1>6, QuietStep DEF WInv, TypeOK, ReadLow, At

LEMMA ReadCurrentInv == ASSUME WInv, NEW w \in Workers, ReadCurrent(w) PROVE WInv'
<1> DEFINE me == worker[w]
           new == [me EXCEPT !.pc = "candidate", !.cur = state]
<1>1. me \in WorkerType /\ Sound(me) /\ me.pc = "current"
  BY Busy DEF ReadCurrent, At
<1>2. state \in [wm : Cursors, ver : Nat] /\ state.ver >= 1
  BY DEF WInv, TypeOK, SourceShown
<1>3. /\ new \in WorkerType /\ new.pc = "candidate" /\ new.cur = state
      /\ new.low = me.low /\ new.ver = me.ver /\ new.run = me.run /\ new.rows = me.rows
  BY <1>1, <1>2 DEF WorkerType, Steps
<1>4. Moved(w, new)
  BY <1>3, MoveWorker DEF WInv, TypeOK, ReadCurrent
<1> HIDE DEF new
<1>5. Knows(me.ver, me.low)
  BY <1>1 DEF Sound
<1>6. Knows(state.ver, state.wm)
  BY <1>2, Order DEF Knows
<1>7. Sound(new)
  BY <1>1, <1>2, <1>3, <1>5, <1>6 DEF Sound, Windowed, Extracting, Knows
<1> QED BY <1>1, <1>3, <1>4, <1>7, QuietStep DEF WInv, TypeOK, ReadCurrent, At

(* What Recover reuses starts at or above the worker's own LOW, and at it  *)
(* if the worker can still commit.                                         *)
LEMMA RecoverInv == ASSUME WInv, NEW w \in Workers, Recover(w) PROVE WInv'
<1> DEFINE me == worker[w]
<1>1. me \in WorkerType /\ Sound(me) /\ me.pc = "candidate"
  BY Busy DEF Recover, At
<1>2. PICK n \in Candidates :
        /\ Eligible(n, me.cur)
        /\ Become(w, [me EXCEPT
             !.pc = IF audit[n].status = "RUNNING" THEN "supersede" ELSE "window",
             !.high = audit[n].high, !.batch = audit[n].batch,
             !.old = IF audit[n].status = "RUNNING" THEN n ELSE 0, !.cur = NoState])
  BY DEF Recover
<1> DEFINE new == [me EXCEPT
             !.pc = IF audit[n].status = "RUNNING" THEN "supersede" ELSE "window",
             !.high = audit[n].high, !.batch = audit[n].batch,
             !.old = IF audit[n].status = "RUNNING" THEN n ELSE 0, !.cur = NoState]
<1>3. n \in DOMAIN audit /\ audit[n] \in AuditType /\ RecordSound(audit[n]) /\ n \in Nat
  BY DEF Candidates, WInv, TypeOK, RecordsSound
<1>4. /\ audit[n].ver \in Nat /\ audit[n].low \in Cursors /\ audit[n].high \in Cursors
      /\ audit[n].batch \in Batches \cup {NoBatch}
  BY <1>3 DEF AuditType
<1>5. /\ new \in WorkerType /\ new.pc \in {"supersede", "window"}
      /\ new.high = audit[n].high /\ new.batch = audit[n].batch
      /\ new.low = me.low /\ new.ver = me.ver /\ new.run = me.run /\ new.rows = me.rows
  BY <1>1, <1>3, <1>4, NullTypes DEF WorkerType, Steps
<1>6. Moved(w, new)
  BY <1>2, <1>5, MoveWorker DEF WInv, TypeOK
<1> HIDE DEF new
<1>7. /\ me.low \in Cursors /\ me.ver \in Nat /\ me.cur.wm \in Cursors /\ me.cur.ver \in Nat
      /\ state.ver \in Nat /\ state.wm \in Cursors
  BY <1>1 DEF WorkerType, WInv, TypeOK
<1>8. /\ Knows(me.ver, me.low) /\ Knows(me.cur.ver, me.cur.wm)
      /\ me.ver <= me.cur.ver /\ AtMost(me.low, me.cur.wm)
  BY <1>1 DEF Sound
<1>9. audit[n].ver = me.cur.ver /\ audit[n].low = me.cur.wm
  BY <1>2 DEF Eligible
<1>10. Spans(audit[n].ver, audit[n].low, audit[n].high, audit[n].batch)
  BY <1>3, <1>7, <1>8, <1>9 DEF RecordSound, Knows
<1>11. audit[n].batch[1] \in Cursors
  BY <1>10 DEF Spans, Batches
<1>12. AtMost(me.low, audit[n].batch[1])
  BY <1>7, <1>8, <1>9, <1>10, <1>11, Order DEF Spans
<1>13. me.ver = state.ver => audit[n].batch[1] = me.low
  BY <1>7, <1>8, <1>9, <1>10 DEF Spans, Knows
<1>14. Spans(new.ver, new.low, new.high, new.batch)
  BY <1>5, <1>10, <1>12, <1>13 DEF Spans
<1>15. Sound(new)
  BY <1>1, <1>5, <1>8, <1>14 DEF Sound, Extracting
<1> QED BY <1>1, <1>5, <1>6, <1>15, QuietStep DEF WInv, TypeOK, Recover, At

LEMMA NothingToRecoverInv == ASSUME WInv, NEW w \in Workers, NothingToRecover(w) PROVE WInv'
<1> DEFINE me == worker[w]
           new == [me EXCEPT !.pc = "capture", !.cur = NoState]
<1>1. me \in WorkerType /\ Sound(me) /\ me.pc = "candidate"
  BY Busy DEF NothingToRecover, At
<1>2. /\ new \in WorkerType /\ new.pc = "capture"
      /\ new.low = me.low /\ new.ver = me.ver /\ new.run = me.run /\ new.rows = me.rows
  BY <1>1, NullTypes DEF WorkerType, Steps
<1>3. Moved(w, new)
  BY <1>2, MoveWorker DEF WInv, TypeOK, NothingToRecover
<1> HIDE DEF new
<1>4. Sound(new)
  BY <1>1, <1>2 DEF Sound, Windowed, Extracting
<1> QED BY <1>1, <1>2, <1>3, <1>4, QuietStep DEF WInv, TypeOK, NothingToRecover, At

LEMMA HighShown == ASSUME WInv PROVE HighOf(SourceRows) \in Cursors /\ AtMost(HighOf(SourceRows), top)
<1>1. /\ source \in [Keys -> 0..LastCursor[1]] /\ SourceRows \subseteq Cursors
      /\ top \in Cursors /\ \A c \in SourceRows : AtMost(c, top)
  BY DEF WInv, TypeOK, SourceShown
<1>2. IsFiniteSet(SourceRows) /\ HighOf(SourceRows) \in Cursors
  BY <1>1, SourceCursors
<1>3. CASE SourceRows = {}
  BY <1>1, <1>2, <1>3, Order DEF HighOf
<1>4. CASE SourceRows # {}
  <2>1. HighOf(SourceRows) \in SourceRows
    BY <1>1, <1>2, <1>4, HighestExists DEF HighOf
  <2> QED BY <1>1, <1>2, <2>1
<1> QED BY <1>2, <1>3, <1>4

LEMMA CaptureHighInv == ASSUME WInv, NEW w \in Workers, CaptureHigh(w) PROVE WInv'
<1> DEFINE me == worker[w]
           high == HighOf(SourceRows)
           new == [me EXCEPT !.pc = "window", !.high = high, !.batch = <<me.low, high>>]
<1>1. me \in WorkerType /\ Sound(me) /\ me.pc = "capture"
  BY Busy DEF CaptureHigh, At
<1>2. high \in Cursors /\ AtMost(high, top)
  BY HighShown
<1>3. Become(w, new)
  BY DEF CaptureHigh
<1> HIDE DEF high
<1>4. me.low \in Cursors /\ <<me.low, high>> \in Batches
  BY <1>1, <1>2 DEF WorkerType, Batches
<1>5. /\ new \in WorkerType /\ new.pc = "window" /\ new.high = high
      /\ new.batch = <<me.low, high>>
      /\ new.low = me.low /\ new.ver = me.ver /\ new.run = me.run /\ new.rows = me.rows
  BY <1>1, <1>2, <1>4 DEF WorkerType, Steps
<1>6. Moved(w, new)
  BY <1>3, <1>5, MoveWorker DEF WInv, TypeOK
<1> HIDE DEF new
<1>7. Spans(new.ver, new.low, new.high, new.batch)
  BY <1>2, <1>4, <1>5, Order DEF Spans
<1>8. Sound(new)
  BY <1>1, <1>5, <1>7 DEF Sound, Extracting
<1> QED BY <1>1, <1>5, <1>6, <1>8, QuietStep DEF WInv, TypeOK, CaptureHigh, At

LEMMA ExtractInv == ASSUME WInv, NEW w \in Workers, Extract(w) PROVE WInv'
<1> DEFINE me == worker[w]
           rows == {c \in SourceRows : Less(me.low, c) /\ AtMost(c, me.high)}
           new == [me EXCEPT !.pc = IF rows = {} THEN "nodata" ELSE "land", !.rows = rows]
<1>1. me \in WorkerType /\ Sound(me) /\ me.pc = "extract"
  BY Busy DEF Extract, At
<1>2. rows \in SUBSET Cursors /\ IsFiniteSet(rows)
  <2>1. source \in [Keys -> 0..LastCursor[1]] /\ SourceRows \subseteq Cursors
    BY DEF WInv, TypeOK, SourceShown
  <2>2. IsFiniteSet(SourceRows)
    BY <2>1, SourceCursors
  <2> QED BY <2>1, <2>2, FS_Subset
<1>3. Become(w, new)
  BY DEF Extract
<1> HIDE DEF rows
<1>4. /\ new \in WorkerType /\ new.pc \in {"nodata", "land"} /\ new.rows = rows
      /\ new.low = me.low /\ new.ver = me.ver /\ new.run = me.run
      /\ new.high = me.high /\ new.batch = me.batch
  BY <1>1, <1>2 DEF WorkerType, Steps
<1>5. Moved(w, new)
  BY <1>3, <1>4, MoveWorker DEF WInv, TypeOK
<1> HIDE DEF new
<1>6. Sound(new)
  BY <1>1, <1>2, <1>4 DEF Sound, Windowed, Extracting
<1> QED BY <1>1, <1>4, <1>5, <1>6, QuietStep DEF WInv, TypeOK, Extract, At

(* A step within an attempt: its window stays. *)
LEMMA GotoMoved ==
  ASSUME WInv, NEW w \in Workers, NEW step \in Steps, Goto(w, step)
  PROVE  \E new \in WorkerType :
           /\ Moved(w, new) /\ new.pc = step
           /\ new.low = worker[w].low /\ new.ver = worker[w].ver /\ new.run = worker[w].run
           /\ new.high = worker[w].high /\ new.batch = worker[w].batch
           /\ new.rows = worker[w].rows /\ new.cur = worker[w].cur
<1> DEFINE new == [worker[w] EXCEPT !.pc = step]
<1>1. /\ new \in WorkerType /\ new.pc = step
      /\ new.low = worker[w].low /\ new.ver = worker[w].ver /\ new.run = worker[w].run
      /\ new.high = worker[w].high /\ new.batch = worker[w].batch
      /\ new.rows = worker[w].rows /\ new.cur = worker[w].cur
  BY Busy DEF WorkerType
<1>2. Moved(w, new)
  BY <1>1, MoveWorker DEF Goto, WInv, TypeOK
<1> HIDE DEF new
<1> QED BY <1>1, <1>2

LEMMA WriteLandingInv == ASSUME WInv, NEW w \in Workers, WriteLanding(w) PROVE WInv'
<1>1. worker[w] \in WorkerType /\ Sound(worker[w]) /\ worker[w].pc = "land"
  BY Busy DEF WriteLanding, At
<1>2. PICK new \in WorkerType :
        /\ Moved(w, new) /\ new.pc = "verify"
        /\ new.low = worker[w].low /\ new.ver = worker[w].ver /\ new.run = worker[w].run
        /\ new.high = worker[w].high /\ new.batch = worker[w].batch
        /\ new.rows = worker[w].rows
  BY GotoMoved DEF WriteLanding, Steps
<1>3. Sound(new)
  BY <1>1, <1>2 DEF Sound, Windowed, Extracting
<1>4. landing' \in [Batches -> SUBSET Cursors]
  BY <1>1 DEF WriteLanding, WInv, TypeOK, WorkerType
<1> QED BY <1>1, <1>2, <1>3, <1>4, QuietStep DEF WriteLanding, At

LEMMA VerifyLandingInv == ASSUME WInv, NEW w \in Workers, VerifyLanding(w) PROVE WInv'
<1>1. worker[w] \in WorkerType /\ Sound(worker[w]) /\ worker[w].pc = "verify"
  BY Busy DEF VerifyLanding, At
<1>2. PICK new \in WorkerType :
        /\ Moved(w, new) /\ new.pc = "commit"
        /\ new.low = worker[w].low /\ new.ver = worker[w].ver /\ new.run = worker[w].run
        /\ new.high = worker[w].high /\ new.batch = worker[w].batch
        /\ new.rows = worker[w].rows
  BY GotoMoved DEF VerifyLanding, Steps
<1>3. Sound(new)
  BY <1>1, <1>2 DEF Sound, Windowed, Extracting
<1> QED BY <1>1, <1>2, <1>3, QuietStep DEF VerifyLanding, At, WInv, TypeOK

LEMMA IdleSound == Sound(Idle)
BY NullTypes DEF Sound, Windowed, Extracting

LEMMA DieInv == ASSUME WInv, NEW w \in Workers, Die(w) PROVE WInv'
<1>1. Moved(w, Idle)
  BY NullTypes, MoveWorker DEF Die, WInv, TypeOK
<1> QED BY <1>1, NullTypes, IdleSound, QuietStep DEF Die, WInv, TypeOK

-----------------------------------------------------------------------------
(* Steps that also write to the log.                                       *)

(* A record that is not a success is replaced by another such record. Only *)
(* its owner may change the window in it.                                  *)
LEMMA RecordStep ==
  ASSUME WInv, NEW w \in Workers, NEW new, Moved(w, new), Sound(new)',
         ~At(w, "idle"), new.pc = "idle" \/ new.run = worker[w].run,
         UNCHANGED <<source, top, state, landing>>,
         NEW i \in DOMAIN audit, NEW rec, Replaced(i, rec),
         audit[i].status # "SUCCESS", RecordSound(rec),
         rec.status # "SUCCESS", rec.status = "NO_DATA" => i = worker[w].run /\ new.pc = "idle",
         \/ i = worker[w].run
         \/ /\ rec.ver = audit[i].ver /\ rec.low = audit[i].low
            /\ rec.high = audit[i].high /\ rec.batch = audit[i].batch
  PROVE  WInv'
<1>1. TypeOK'
  BY DEF WInv, TypeOK, Moved, Replaced, At
<1>2. WorkersSound'
  <2> SUFFICES ASSUME NEW u \in Workers \ {w} PROVE Sound(worker[u])'
    BY DEF WorkersSound, Moved
  <2>1. worker'[u] = worker[u] /\ Sound(worker[u]) /\ worker[u] \in WorkerType
    BY DEF Moved, WInv, WorkersSound, TypeOK
  <2>2. ASSUME worker[u].pc \in Extracting
        PROVE  /\ audit'[worker[u].run].ver = worker[u].ver
               /\ audit'[worker[u].run].low = worker[u].low
               /\ audit'[worker[u].run].high = worker[u].high
               /\ audit'[worker[u].run].batch = worker[u].batch
    <3>1. ~At(u, "idle")
      BY <2>2 DEF Extracting, At
    <3>2. worker[u].run \in DOMAIN audit /\ worker[u].run # worker[w].run
      BY <3>1 DEF WInv, TypeOK, Owned
    <3>3. /\ audit[worker[u].run].ver = worker[u].ver
          /\ audit[worker[u].run].low = worker[u].low
          /\ audit[worker[u].run].high = worker[u].high
          /\ audit[worker[u].run].batch = worker[u].batch
      BY <2>1, <2>2 DEF Sound
    <3> QED BY <3>2, <3>3 DEF Replaced
  <2> QED BY <2>1, <2>2 DEF Sound, Knows, Spans
<1>3. RecordsSound'
  <2> SUFFICES ASSUME NEW n \in DOMAIN audit' PROVE RecordSound(audit[n])'
    BY DEF RecordsSound
  <2>1. n \in DOMAIN audit /\ (audit'[n] = rec \/ audit'[n] = audit[n])
    BY DEF Replaced
  <2> QED BY <2>1 DEF WInv, RecordsSound, RecordSound, Knows, Spans
<1>4. Owned'
  <2> SUFFICES ASSUME NEW u \in Workers, worker'[u].pc # "idle"
               PROVE  /\ audit'[worker'[u].run].status \in {"RUNNING", "FAILED"}
                      /\ \A v \in Workers \ {u} : worker'[v].pc # "idle" =>
                           worker'[v].run # worker'[u].run
    BY DEF Owned, At
  <2>1. \A v \in Workers : worker'[v].pc # "idle" =>
          worker[v].pc # "idle" /\ worker'[v].run = worker[v].run
    BY DEF Moved, At
  <2>2. /\ worker[u].run \in DOMAIN audit
        /\ audit[worker[u].run].status \in {"RUNNING", "FAILED"}
        /\ \A v \in Workers \ {u} : worker[v].pc # "idle" => worker[v].run # worker[u].run
    BY <2>1 DEF WInv, Owned, TypeOK, At
  <2>3. audit'[worker[u].run].status \in {"RUNNING", "FAILED"}
    <3>1. CASE worker[u].run # i
      BY <2>2, <3>1 DEF Replaced
    <3>2. CASE worker[u].run = i
      <4>1. rec \in AuditType /\ audit'[i] = rec
        BY DEF Replaced
      <4>2. rec.status # "NO_DATA"
        BY <2>1, <2>2, <3>2 DEF Moved, At
      <4> QED BY <3>2, <4>1, <4>2 DEF AuditType, Statuses
    <3> QED BY <3>1, <3>2
  <2> QED BY <2>1, <2>2, <2>3
<1>5. SourceShown'
  BY DEF WInv, SourceShown, SourceRows
<1>6. Tiled'
  <2>1. Successes' = Successes /\ \A n \in Successes : audit'[n] = audit[n]
    BY DEF Successes, Replaced
  <2> QED BY <2>1 DEF WInv, Tiled
<1> QED BY <1>1, <1>2, <1>3, <1>4, <1>5, <1>6 DEF WInv

(* The record of a busy worker. *)
LEMMA OwnRecord ==
  ASSUME WInv, NEW w \in Workers, ~At(w, "idle")
  PROVE  /\ worker[w].run \in DOMAIN audit /\ audit[worker[w].run] \in AuditType
         /\ RecordSound(audit[worker[w].run])
         /\ audit[worker[w].run].status \in {"RUNNING", "FAILED"}
BY DEF WInv, TypeOK, Owned, RecordsSound

LEMMA UpdateWindowInv == ASSUME WInv, NEW w \in Workers, UpdateWindow(w) PROVE WInv'
<1> DEFINE me == worker[w]
           i == me.run
           rec == [audit[i] EXCEPT !.ver = me.ver, !.low = me.low, !.high = me.high,
                                   !.batch = me.batch]
           step == IF Less(me.low, me.high) THEN "extract" ELSE "nodata"
<1>1. me \in WorkerType /\ Sound(me) /\ me.pc = "window" /\ ~At(w, "idle")
  BY Busy DEF UpdateWindow, At
<1>2. /\ i \in DOMAIN audit /\ audit[i] \in AuditType
      /\ audit[i].status \in {"RUNNING", "FAILED"}
  BY <1>1, OwnRecord
<1>3. audit' = [audit EXCEPT ![i] = rec] /\ Goto(w, step)
  BY DEF UpdateWindow
<1>4. /\ rec \in AuditType /\ rec.status = audit[i].status
      /\ rec.ver = me.ver /\ rec.low = me.low /\ rec.high = me.high /\ rec.batch = me.batch
  BY <1>1, <1>2 DEF AuditType, WorkerType
<1> HIDE DEF rec
<1>5. Replaced(i, rec)
  BY <1>2, <1>3, <1>4, ReplaceRecord DEF WInv, TypeOK
<1>6. step \in Steps /\ step \in {"extract", "nodata"} /\ (step = "extract" => Less(me.low, me.high))
  BY DEF Steps
<1> HIDE DEF step
<1>7. PICK new \in WorkerType :
        /\ Moved(w, new) /\ new.pc = step
        /\ new.low = me.low /\ new.ver = me.ver /\ new.run = i
        /\ new.high = me.high /\ new.batch = me.batch /\ new.rows = me.rows
  BY <1>3, <1>6, GotoMoved
<1>8. Knows(me.ver, me.low) /\ Spans(me.ver, me.low, me.high, me.batch) /\ IsFiniteSet(me.rows)
  BY <1>1 DEF Sound, Windowed
<1>9. UNCHANGED <<source, top, state, landing>>
  BY DEF UpdateWindow
<1>10. Sound(new)'
  BY <1>5, <1>6, <1>7, <1>4, <1>8, <1>9 DEF Sound, Windowed, Extracting, Knows, Spans, Replaced
<1>11. RecordSound(rec)
  BY <1>4, <1>8 DEF RecordSound
<1> QED BY <1>1, <1>2, <1>4, <1>5, <1>7, <1>9, <1>10, <1>11, RecordStep

LEMMA MarkSupersededInv == ASSUME WInv, NEW w \in Workers, MarkSuperseded(w) PROVE WInv'
<1> DEFINE me == worker[w]
           i == me.old
           status == IF audit[i].status = "RUNNING" THEN "FAILED" ELSE audit[i].status
           rec == [audit[i] EXCEPT !.status = status]
<1> PICK new : new = [me EXCEPT !.pc = "window", !.old = 0]
  OBVIOUS
<1>1. me \in WorkerType /\ Sound(me) /\ me.pc = "supersede" /\ ~At(w, "idle")
  BY Busy DEF MarkSuperseded, At
<1>2. /\ new \in WorkerType /\ new.pc = "window"
      /\ new.low = me.low /\ new.ver = me.ver /\ new.run = me.run
      /\ new.high = me.high /\ new.batch = me.batch /\ new.rows = me.rows
  BY <1>1 DEF WorkerType, Steps
<1>3. Moved(w, new) /\ UNCHANGED <<source, top, state, landing>>
  BY <1>2, MoveWorker DEF MarkSuperseded, WInv, TypeOK
<1>4. Sound(new)
  BY <1>1, <1>2 DEF Sound, Windowed, Extracting
<1>5. Sound(new)'
  BY <1>2, <1>3, <1>4 DEF Sound, Knows, Spans, Extracting
<1>6. CASE i \in DOMAIN audit /\ audit[i].status = "RUNNING"
  <2>1. audit[i] \in AuditType /\ RecordSound(audit[i])
    BY <1>6 DEF WInv, TypeOK, RecordsSound
  <2>2. /\ rec \in AuditType /\ rec.status = "FAILED"
        /\ rec.ver = audit[i].ver /\ rec.low = audit[i].low /\ rec.high = audit[i].high
        /\ rec.batch = audit[i].batch
    BY <1>6, <2>1 DEF AuditType, Statuses
  <2>3. audit' = [audit EXCEPT ![i] = rec]
    BY <1>6 DEF MarkSuperseded
  <2> HIDE DEF rec
  <2>4. Replaced(i, rec)
    BY <1>6, <2>2, <2>3, ReplaceRecord DEF WInv, TypeOK
  <2>5. RecordSound(rec)
    BY <2>1, <2>2 DEF RecordSound
  <2> QED BY <1>1, <1>2, <1>3, <1>5, <1>6, <2>2, <2>4, <2>5, RecordStep
<1>7. CASE ~(i \in DOMAIN audit /\ audit[i].status = "RUNNING")
  <2>1. audit' = audit
    <3>1. audit \in Seq(AuditType)
      BY DEF WInv, TypeOK
    <3>2. \A n \in DOMAIN audit : audit[n] \in AuditType
      BY <3>1
    <3>3. CASE i \notin DOMAIN audit
      BY <3>1, <3>3 DEF MarkSuperseded
    <3>4. CASE i \in DOMAIN audit
      <4>1. [audit[i] EXCEPT !.status = audit[i].status] = audit[i]
        BY <3>2, <3>4 DEF AuditType
      <4>2. audit' = [audit EXCEPT ![i] = [audit[i] EXCEPT !.status = audit[i].status]]
        BY <1>7, <3>4 DEF MarkSuperseded
      <4> QED BY <3>1, <3>4, <4>1, <4>2
    <3> QED BY <3>3, <3>4
  <2> QED BY <1>1, <1>2, <1>3, <1>4, <2>1, QuietStep DEF WInv, TypeOK
<1> QED BY <1>6, <1>7

(* Completed without a success. *)
LEMMA CompleteInv ==
  ASSUME WInv, NEW w \in Workers, ~At(w, "idle"), NEW status \in {"NO_DATA", "FAILED"},
         Complete(w, status)
  PROVE  WInv'
<1> DEFINE i == worker[w].run
           rec == [audit[i] EXCEPT !.status = status, !.rows = 0]
<1>1. /\ i \in DOMAIN audit /\ audit[i] \in AuditType /\ RecordSound(audit[i])
      /\ audit[i].status \in {"RUNNING", "FAILED"}
  BY OwnRecord
<1>2. /\ rec \in AuditType /\ rec.status = status
      /\ rec.ver = audit[i].ver /\ rec.low = audit[i].low /\ rec.high = audit[i].high
      /\ rec.batch = audit[i].batch
  BY <1>1 DEF AuditType, Statuses
<1>3. audit' = [audit EXCEPT ![i] = rec] /\ UNCHANGED <<source, top, state, landing>>
  BY DEF Complete
<1>4. Moved(w, Idle)
  BY NullTypes, MoveWorker DEF Complete, WInv, TypeOK
<1> HIDE DEF rec
<1>5. Replaced(i, rec)
  BY <1>1, <1>2, <1>3, ReplaceRecord DEF WInv, TypeOK
<1>6. RecordSound(rec)
  BY <1>1, <1>2 DEF RecordSound
<1>7. Sound(Idle)'
  BY NullTypes DEF Sound, Windowed, Extracting, Idle
<1> QED BY <1>1, <1>2, <1>3, <1>4, <1>5, <1>6, <1>7, NullTypes, RecordStep

LEMMA StartAuditInv == ASSUME WInv, NEW w \in Workers, StartAudit(w) PROVE WInv'
<1> DEFINE i == Len(audit) + 1
<1> PICK new : new = [Idle EXCEPT !.pc = "low", !.run = i]
  OBVIOUS
<1>1. audit \in Seq(AuditType) /\ Len(audit) \in Nat /\ DOMAIN audit = 1..Len(audit)
  BY DEF WInv, TypeOK
<1>2. /\ audit' = Append(audit, NewAudit)
      /\ audit' \in Seq(AuditType) /\ DOMAIN audit' = DOMAIN audit \cup {i}
      /\ audit'[i] = NewAudit /\ i \notin DOMAIN audit
      /\ \A n \in DOMAIN audit : audit'[n] = audit[n]
  BY <1>1, NullTypes DEF StartAudit
<1>13. i \in Nat
  BY <1>1
<1> HIDE DEF i
<1>3. /\ new \in WorkerType /\ new.pc = "low" /\ new.run = i /\ new.rows = Idle.rows
  <2>1. Idle \in WorkerType /\ "low" \in Steps \cup {"idle"}
    BY NullTypes DEF Steps
  <2> QED BY <1>13, <2>1 DEF WorkerType
<1>4. Moved(w, new) /\ UNCHANGED <<source, top, state, landing>> /\ worker[w].pc = "idle"
  BY <1>3, MoveWorker DEF StartAudit, WInv, TypeOK, At, i
<1>5. Sound(new)'
  BY <1>3, NullTypes DEF Sound, Windowed, Extracting
<1>6. TypeOK'
  BY <1>2, <1>3, <1>4 DEF WInv, TypeOK, Moved, At
<1>7. WorkersSound'
  <2> SUFFICES ASSUME NEW u \in Workers \ {w} PROVE Sound(worker[u])'
    BY <1>4, <1>5 DEF WorkersSound, Moved
  <2>1. worker'[u] = worker[u] /\ Sound(worker[u])
    BY <1>4 DEF Moved, WInv, WorkersSound
  <2>2. worker[u].pc \in Extracting => audit'[worker[u].run] = audit[worker[u].run]
    BY <1>2 DEF WInv, TypeOK, Extracting, At
  <2> QED BY <1>4, <2>1, <2>2 DEF Sound, Knows, Spans
<1>8. RecordsSound'
  BY <1>2, <1>4, NullTypes DEF WInv, RecordsSound, RecordSound, Knows, Spans
<1>9. Owned'
  <2>1. /\ worker'[w].pc = "low" /\ worker'[w].run = i /\ audit'[i].status = "RUNNING"
        /\ \A u \in Workers \ {w} : worker'[u] = worker[u]
    BY <1>2, <1>3, <1>4, NullTypes DEF Moved
  <2>2. \A u \in Workers : worker[u].pc # "idle" =>
          /\ worker[u].run \in DOMAIN audit /\ worker[u].run # i
          /\ audit'[worker[u].run].status \in {"RUNNING", "FAILED"}
          /\ \A v \in Workers \ {u} : worker[v].pc # "idle" => worker[v].run # worker[u].run
    BY <1>2 DEF WInv, TypeOK, Owned, At
  <2> SUFFICES ASSUME NEW u \in Workers, worker'[u].pc # "idle"
               PROVE  /\ audit'[worker'[u].run].status \in {"RUNNING", "FAILED"}
                      /\ \A v \in Workers \ {u} : worker'[v].pc # "idle" =>
                           worker'[v].run # worker'[u].run
    BY DEF Owned, At
  <2>3. CASE u = w
    BY <2>1, <2>2, <2>3
  <2>4. CASE u # w
    BY <2>1, <2>2, <2>4
  <2> QED BY <2>3, <2>4
<1>10. SourceShown'
  BY <1>4 DEF WInv, SourceShown, SourceRows
<1>11. Tiled'
  <2>1. Successes' = Successes /\ \A n \in Successes : audit'[n] = audit[n]
    BY <1>2, NullTypes DEF Successes
  <2> QED BY <1>4, <2>1 DEF WInv, Tiled
<1> QED BY <1>6, <1>7, <1>8, <1>9, <1>10, <1>11 DEF WInv

(* The compare-and-swap: the worker's LOW is the watermark, its window is  *)
(* the next tile, and whoever was at this version is now behind.           *)
LEMMA CommitFacts ==
  ASSUME WInv, NEW w \in Workers, Commit(w)
  PROVE  /\ worker[w].ver = state.ver /\ worker[w].low = state.wm
         /\ Less(state.wm, worker[w].high) /\ AtMost(worker[w].high, top)
         /\ state' = [wm |-> worker[w].high, ver |-> state.ver + 1]
         /\ state'.wm \in Cursors /\ state'.ver \in Nat
         /\ worker[w].batch[1] = state.wm /\ worker[w].batch[2] = worker[w].high
<1>1. worker[w] \in WorkerType /\ Sound(worker[w]) /\ worker[w].pc = "commit"
  BY Busy DEF Commit, At
<1>2. Knows(worker[w].ver, worker[w].low) /\ Less(worker[w].low, worker[w].high)
  BY <1>1 DEF Sound, Extracting
<1>3. Spans(worker[w].ver, worker[w].low, worker[w].high, worker[w].batch)
  BY <1>1 DEF Sound, Windowed
<1>4. worker[w].ver = state.ver /\ state' = [wm |-> worker[w].high, ver |-> worker[w].ver + 1]
  BY DEF Commit
<1>5. worker[w].high \in Cursors /\ state.ver \in Nat
  BY <1>1 DEF WorkerType, WInv, TypeOK
<1> QED BY <1>2, <1>3, <1>4, <1>5 DEF Knows, Spans

LEMMA CommitRecord ==
  ASSUME WInv, NEW w \in Workers, Commit(w)
  PROVE  /\ worker[w].run \in DOMAIN audit /\ worker[w].run \notin Successes
         /\ \E rec : /\ Replaced(worker[w].run, rec) /\ rec.status = "SUCCESS"
                     /\ rec.ver = state.ver /\ rec.low = state.wm
                     /\ rec.high = worker[w].high /\ rec.batch = worker[w].batch
         /\ RecordSound(audit[worker[w].run])
         /\ Moved(w, Idle) /\ UNCHANGED <<source, top, landing>>
<1> DEFINE me == worker[w]
           i == me.run
           rec == [audit[i] EXCEPT !.status = "SUCCESS", !.rows = Cardinality(me.rows)]
<1>1. me \in WorkerType /\ Sound(me) /\ me.pc = "commit" /\ ~At(w, "idle")
  BY Busy DEF Commit, At
<1>2. /\ i \in DOMAIN audit /\ audit[i] \in AuditType /\ RecordSound(audit[i])
      /\ audit[i].status \in {"RUNNING", "FAILED"}
  BY <1>1, OwnRecord
<1>3. Cardinality(me.rows) \in Nat
  BY <1>1, FS_CardinalityType DEF Sound
<1>4. /\ audit[i].ver = me.ver /\ audit[i].low = me.low
      /\ audit[i].high = me.high /\ audit[i].batch = me.batch
  BY <1>1 DEF Sound, Extracting
<1>5. /\ rec \in AuditType /\ rec.status = "SUCCESS"
      /\ rec.ver = audit[i].ver /\ rec.low = audit[i].low /\ rec.high = audit[i].high
      /\ rec.batch = audit[i].batch
  BY <1>2, <1>3 DEF AuditType, Statuses
<1>6. audit' = [audit EXCEPT ![i] = rec] /\ UNCHANGED <<source, top, landing>>
  BY DEF Commit
<1>7. Moved(w, Idle)
  BY NullTypes, MoveWorker DEF Commit, WInv, TypeOK
<1> HIDE DEF rec
<1>8. Replaced(i, rec)
  BY <1>2, <1>5, <1>6, ReplaceRecord DEF WInv, TypeOK
<1>9. i \notin Successes
  BY <1>2 DEF Successes
<1> QED BY <1>2, <1>4, <1>5, <1>6, <1>7, <1>8, <1>9, CommitFacts

(* Knowledge of a version outlives the commit of the next.                 *)
LEMMA KnowledgeKept ==
  ASSUME WInv, NEW w \in Workers, Commit(w),
         NEW ver \in Nat, NEW low \in Cursors, Knows(ver, low)
  PROVE  /\ ver \in 1..state'.ver /\ AtMost(low, state'.wm) /\ ver # state'.ver
<1>1. state.wm \in Cursors /\ state.ver \in Nat
  BY DEF WInv, TypeOK
<1>2. AtMost(state.wm, state'.wm) /\ state'.wm \in Cursors /\ state'.ver = state.ver + 1
  BY <1>1, CommitFacts, Order
<1> QED BY <1>1, <1>2, Order DEF Knows

LEMMA CommitTiles == ASSUME WInv, NEW w \in Workers, Commit(w) PROVE Tiled'
<1> DEFINE i == worker[w].run
<1>1. PICK rec : /\ Replaced(i, rec) /\ rec.status = "SUCCESS"
                 /\ rec.ver = state.ver /\ rec.low = state.wm /\ rec.high = worker[w].high
  BY CommitRecord
<1>2. i \in DOMAIN audit /\ i \notin Successes
  BY CommitRecord
<1>3. state'.ver = state.ver + 1 /\ state'.wm = worker[w].high /\ state.ver \in Nat /\ state.ver >= 1
  BY CommitFacts DEF WInv, TypeOK, SourceShown
<1>4. /\ Successes' = Successes \cup {i} /\ audit'[i] = rec
      /\ \A n \in Successes : audit'[n] = audit[n]
  BY <1>1, <1>2 DEF Successes, Replaced
<1>5. \A n \in Successes : audit[n].ver \in 1..(state.ver - 1)
  BY DEF WInv, Tiled
<1> HIDE DEF i
<1>6. \A v \in 1..(state'.ver - 1) : \E n \in Successes' : audit'[n].ver = v
  <2> SUFFICES ASSUME NEW v \in 1..(state'.ver - 1)
               PROVE  \E n \in Successes' : audit'[n].ver = v
    OBVIOUS
  <2>1. CASE v = state.ver
    BY <1>1, <1>4, <2>1
  <2>2. CASE v # state.ver
    <3>1. v \in 1..(state.ver - 1)
      BY <1>3, <2>2
    <3>2. PICK n \in Successes : audit[n].ver = v
      BY <3>1 DEF WInv, Tiled
    <3> QED BY <1>4, <3>2
  <2> QED BY <2>1, <2>2
<1>7. ASSUME NEW n \in Successes'
      PROVE  /\ audit'[n].ver \in 1..(state'.ver - 1)
             /\ audit'[n].ver = 1 => audit'[n].low = Initial
             /\ \A m \in Successes' :
                  /\ audit'[m].ver = audit'[n].ver => m = n
                  /\ audit'[n].ver = audit'[m].ver + 1 => audit'[n].low = audit'[m].high
             /\ audit'[n].ver = state'.ver - 1 => state'.wm = audit'[n].high
  <2>1. CASE n = i
    <3>1. rec.ver = 1 => rec.low = Initial
      BY <1>1 DEF WInv, Tiled
    <3>2. \A m \in Successes : audit[m].ver # rec.ver
      BY <1>1, <1>3, <1>5
    <3>3. \A m \in Successes : rec.ver = audit[m].ver + 1 => rec.low = audit[m].high
      BY <1>1, <1>3, <1>5 DEF WInv, Tiled
    <3>4. ASSUME NEW m \in Successes'
          PROVE  /\ audit'[m].ver = rec.ver => m = i
                 /\ rec.ver = audit'[m].ver + 1 => rec.low = audit'[m].high
      <4>1. CASE m = i
        BY <1>1, <1>3, <1>4, <4>1
      <4>2. CASE m # i
        BY <1>4, <3>2, <3>3, <4>2
      <4> QED BY <4>1, <4>2
    <3>5. rec.ver \in 1..(state'.ver - 1) /\ state'.wm = rec.high
      BY <1>1, <1>3
    <3> QED BY <1>4, <2>1, <3>1, <3>4, <3>5
  <2>2. CASE n \in Successes
    <3>1. /\ audit[n].ver \in 1..(state.ver - 1)
          /\ audit[n].ver = 1 => audit[n].low = Initial
          /\ \A m \in Successes :
               /\ audit[m].ver = audit[n].ver => m = n
               /\ audit[n].ver = audit[m].ver + 1 => audit[n].low = audit[m].high
      BY <2>2 DEF WInv, Tiled
    <3>2. audit'[n] = audit[n]
      BY <1>4, <2>2
    <3>3. audit[n].ver \in 1..(state'.ver - 1) /\ audit[n].ver # state'.ver - 1 /\ audit[n].ver # rec.ver
      BY <1>1, <1>3, <3>1
    <3>4. \A m \in Successes' : m = i \/ (m \in Successes /\ audit'[m] = audit[m])
      BY <1>4
    <3>5. ASSUME NEW m \in Successes'
          PROVE  /\ audit'[m].ver = audit[n].ver => m = n
                 /\ audit[n].ver = audit'[m].ver + 1 => audit[n].low = audit'[m].high
      <4>1. CASE m = i
        BY <1>1, <1>3, <1>4, <3>1, <4>1
      <4>2. CASE m # i
        BY <3>1, <3>4, <4>2
      <4> QED BY <4>1, <4>2
    <3> QED BY <3>1, <3>2, <3>3, <3>5
  <2> QED BY <1>4, <2>1, <2>2
<1>8. state'.ver # 1
  BY <1>3
<1> QED BY <1>6, <1>7, <1>8 DEF Tiled

LEMMA CommitInv == ASSUME WInv, NEW w \in Workers, Commit(w) PROVE WInv'
<1> DEFINE i == worker[w].run
<1>1. PICK rec : /\ Replaced(i, rec) /\ rec.status = "SUCCESS"
                 /\ rec.ver = state.ver /\ rec.low = state.wm /\ rec.high = worker[w].high
                 /\ rec.batch = worker[w].batch
  BY CommitRecord
<1>2. /\ i \in DOMAIN audit /\ Moved(w, Idle) /\ UNCHANGED <<source, top, landing>>
      /\ RecordSound(audit[i]) /\ ~At(w, "idle")
  BY CommitRecord DEF Commit, At
<1>3. /\ state'.ver = state.ver + 1 /\ state'.wm = worker[w].high /\ state'.wm \in Cursors
      /\ state' \in [wm : Cursors, ver : Nat]
      /\ AtMost(state'.wm, top) /\ state.ver \in Nat /\ state.ver >= 1
      /\ state.wm \in Cursors /\ worker[w].ver = state.ver /\ worker[w].low = state.wm
  BY CommitFacts DEF WInv, TypeOK, SourceShown
<1>4. TypeOK'
  BY <1>1, <1>2, <1>3, NullTypes DEF WInv, TypeOK, Moved, Replaced, At
<1>5. ASSUME NEW ver \in Nat, NEW low \in Cursors, Knows(ver, low)
      PROVE  /\ ver \in 1..state'.ver /\ AtMost(low, state'.wm) /\ ver # state'.ver
  BY <1>5, KnowledgeKept
<1>6. WorkersSound'
  <2> SUFFICES ASSUME NEW u \in Workers PROVE Sound(worker[u])'
    BY DEF WorkersSound
  <2>1. CASE u = w
    BY <1>2, <2>1, NullTypes DEF Sound, Moved, Windowed, Extracting
  <2>2. CASE u # w
    <3>1. worker'[u] = worker[u] /\ worker[u] \in WorkerType /\ Sound(worker[u])
      BY <1>2, <2>2, Busy DEF Moved
    <3>2. /\ worker[u].ver \in Nat /\ worker[u].low \in Cursors
          /\ worker[u].cur.ver \in Nat /\ worker[u].cur.wm \in Cursors
      BY <3>1 DEF WorkerType
    <3>3. ASSUME worker[u].pc \in Extracting PROVE audit'[worker[u].run] = audit[worker[u].run]
      <4>1. worker[u].run \in DOMAIN audit /\ worker[u].run # i
        BY <1>2, <2>2, <3>3 DEF WInv, TypeOK, Owned, Extracting, At
      <4> QED BY <1>1, <4>1 DEF Replaced
    <3>4. ASSUME worker[u].pc \notin {"idle", "low"}
          PROVE  /\ worker[u].ver \in 1..state'.ver /\ AtMost(worker[u].low, state'.wm)
                 /\ worker[u].ver # state'.ver
      BY <1>5, <3>1, <3>2, <3>4 DEF Sound
    <3>5. ASSUME worker[u].pc = "candidate"
          PROVE  /\ worker[u].cur.ver \in 1..state'.ver /\ AtMost(worker[u].cur.wm, state'.wm)
                 /\ worker[u].cur.ver # state'.ver
      BY <1>5, <3>1, <3>2, <3>5 DEF Sound
    <3>6. ASSUME worker[u].pc \in Windowed
          PROVE  Spans(worker[u].ver, worker[u].low, worker[u].high, worker[u].batch)'
      BY <1>2, <3>1, <3>4, <3>6 DEF Sound, Spans, Windowed
    <3> QED BY <3>1, <3>3, <3>4, <3>5, <3>6 DEF Sound, Knows
  <2> QED BY <2>1, <2>2
<1>7. RecordsSound'
  <2> SUFFICES ASSUME NEW n \in DOMAIN audit', audit'[n].ver > 0
               PROVE  /\ Knows(audit[n].ver, audit[n].low)'
                      /\ Spans(audit[n].ver, audit[n].low, audit[n].high, audit[n].batch)'
    BY DEF RecordsSound, RecordSound
  <2>1. CASE n # i
    <3>1. n \in DOMAIN audit /\ audit'[n] = audit[n]
      BY <1>1, <2>1 DEF Replaced
    <3>2. audit[n] \in AuditType /\ RecordSound(audit[n])
      BY <3>1 DEF WInv, TypeOK, RecordsSound
    <3>3. audit[n].ver \in Nat /\ audit[n].low \in Cursors
      BY <3>2 DEF AuditType
    <3>4. /\ Knows(audit[n].ver, audit[n].low)
          /\ Spans(audit[n].ver, audit[n].low, audit[n].high, audit[n].batch)
      BY <3>1, <3>2 DEF RecordSound
    <3>5. /\ audit[n].ver \in 1..state'.ver /\ AtMost(audit[n].low, state'.wm)
          /\ audit[n].ver # state'.ver
      BY <1>5, <3>3, <3>4
    <3> QED BY <1>2, <3>1, <3>4, <3>5 DEF Knows, Spans
  <2>2. CASE n = i
    <3>1. audit'[n] = rec
      BY <1>1, <2>2 DEF Replaced
    <3>2. Knows(state.ver, state.wm)
      BY <1>3, Order DEF Knows
    <3>3. /\ rec.ver \in 1..state'.ver /\ AtMost(rec.low, state'.wm) /\ rec.ver # state'.ver
      BY <1>1, <1>3, <1>5, <3>2
    <3>4. Spans(worker[w].ver, worker[w].low, worker[w].high, worker[w].batch)
      BY Busy DEF Sound, Windowed, Commit, At
    <3> QED BY <1>1, <1>2, <1>3, <3>1, <3>3, <3>4 DEF Knows, Spans
  <2> QED BY <2>1, <2>2
<1>8. Owned'
  <2> SUFFICES ASSUME NEW u \in Workers, worker'[u].pc # "idle"
               PROVE  /\ audit'[worker'[u].run].status \in {"RUNNING", "FAILED"}
                      /\ \A v \in Workers \ {u} : worker'[v].pc # "idle" =>
                           worker'[v].run # worker'[u].run
    BY DEF Owned, At
  <2>1. \A v \in Workers : worker'[v].pc # "idle" => v # w /\ worker'[v] = worker[v]
    BY <1>2, NullTypes DEF Moved
  <2>2. /\ worker[u].run \in DOMAIN audit /\ worker[u].run # i
        /\ audit[worker[u].run].status \in {"RUNNING", "FAILED"}
        /\ \A v \in Workers \ {u} : worker[v].pc # "idle" => worker[v].run # worker[u].run
    BY <1>2, <2>1 DEF WInv, Owned, TypeOK, At
  <2> QED BY <1>1, <2>1, <2>2 DEF Replaced
<1>9. SourceShown'
  BY <1>2, <1>3 DEF WInv, SourceShown, SourceRows
<1> QED BY <1>4, <1>6, <1>7, <1>8, <1>9, CommitTiles DEF WInv

-----------------------------------------------------------------------------
(* Steps of the source.                                                    *)
LEMMA WriteFacts ==
  ASSUME WInv, NEW k \in Keys, NEW ts \in 1..LastCursor[1], Write(k, ts)
  PROVE  /\ source' \in [Keys -> 0..LastCursor[1]]
         /\ <<ts, k>> \in Cursors
         /\ SourceRows' \subseteq SourceRows \cup {<<ts, k>>}
         /\ top' \in Cursors /\ AtMost(top, top') /\ AtMost(<<ts, k>>, top')
         /\ Ordered => Less(top, <<ts, k>>)
         /\ UNCHANGED <<state, audit, landing, worker>>
<1>1. /\ source' = [source EXCEPT ![k] = ts] /\ <<ts, k>> \in Cursors
      /\ top' = IF Less(top, <<ts, k>>) THEN <<ts, k>> ELSE top
      /\ UNCHANGED <<state, audit, landing, worker>>
      /\ Ordered => Less(top, <<ts, k>>)
  BY DEF Write
<1>2. source \in [Keys -> 0..LastCursor[1]] /\ top \in Cursors /\ ts \in 0..LastCursor[1]
  BY DEF WInv, TypeOK
<1>3. SourceRows' \subseteq SourceRows \cup {<<ts, k>>}
  BY <1>1, <1>2 DEF SourceRows
<1>4. top' \in Cursors /\ AtMost(top, top') /\ AtMost(<<ts, k>>, top')
  BY <1>1, <1>2, Order
<1> QED BY <1>1, <1>2, <1>3, <1>4

LEMMA SourceInv ==
  ASSUME WInv, source' \in [Keys -> 0..LastCursor[1]], SourceRows' \subseteq Cursors,
         top' \in Cursors, AtMost(top, top'), \A c \in SourceRows' : AtMost(c, top'),
         UNCHANGED <<state, audit, landing, worker>>
  PROVE  WInv'
<1>1. TypeOK'
  BY DEF WInv, TypeOK, At
<1>2. ASSUME NEW ver, NEW low, NEW high \in Cursors, NEW batch, Spans(ver, low, high, batch)
      PROVE  AtMost(high, top')
  BY <1>2, Order DEF WInv, TypeOK, Spans
<1>3. WorkersSound'
  <2> SUFFICES ASSUME NEW w \in Workers PROVE Sound(worker[w])'
    BY DEF WorkersSound
  <2>1. worker[w] \in WorkerType /\ Sound(worker[w])
    BY Busy
  <2>2. worker[w].high \in Cursors
    BY <2>1 DEF WorkerType
  <2>3. ASSUME worker[w].pc \in Windowed
        PROVE  Spans(worker[w].ver, worker[w].low, worker[w].high, worker[w].batch)'
    BY <1>2, <2>1, <2>2, <2>3 DEF Sound, Spans
  <2> QED BY <2>1, <2>3 DEF Sound, Knows
<1>4. RecordsSound'
  <2> SUFFICES ASSUME NEW n \in DOMAIN audit PROVE RecordSound(audit[n])'
    BY DEF RecordsSound
  <2>1. audit[n] \in AuditType /\ RecordSound(audit[n])
    BY DEF WInv, TypeOK, RecordsSound
  <2>2. audit[n].high \in Cursors
    BY <2>1 DEF AuditType
  <2> QED BY <1>2, <2>1, <2>2 DEF RecordSound, Knows, Spans
<1>5. Owned' /\ Tiled'
  BY DEF WInv, Owned, At, Tiled, Successes
<1>6. SourceShown'
  BY Order DEF WInv, TypeOK, SourceShown
<1> QED BY <1>1, <1>3, <1>4, <1>5, <1>6 DEF WInv

LEMMA WriteInv ==
  ASSUME WInv, NEW k \in Keys, NEW ts \in 1..LastCursor[1], Write(k, ts) PROVE WInv'
<1>1. \A c \in SourceRows : c \in Cursors /\ AtMost(c, top) /\ top \in Cursors
  BY DEF WInv, TypeOK, SourceShown
<1>2. /\ <<ts, k>> \in Cursors /\ SourceRows' \subseteq SourceRows \cup {<<ts, k>>}
      /\ top' \in Cursors /\ AtMost(top, top') /\ AtMost(<<ts, k>>, top')
  BY WriteFacts
<1>3. \A c \in SourceRows : AtMost(c, top')
  BY <1>1, <1>2, Order
<1>4. SourceRows' \subseteq Cursors /\ \A c \in SourceRows' : AtMost(c, top')
  BY <1>1, <1>2, <1>3
<1> QED BY <1>4, WriteFacts, SourceInv

LEMMA DeleteInv == ASSUME WInv, NEW k \in Keys, Delete(k) PROVE WInv'
<1>1. /\ source' = [source EXCEPT ![k] = 0] /\ UNCHANGED <<top, state, audit, landing, worker>>
      /\ source \in [Keys -> 0..LastCursor[1]] /\ top \in Cursors
  BY DEF Delete, WInv, TypeOK
<1>2. source' \in [Keys -> 0..LastCursor[1]]
  BY <1>1, ParameterAssumption
<1>3. SourceRows' \subseteq SourceRows
  BY <1>1 DEF SourceRows
<1>4. SourceRows' \subseteq Cursors /\ \A c \in SourceRows' : AtMost(c, top')
  BY <1>1, <1>3 DEF WInv, SourceShown
<1> QED BY <1>1, <1>2, <1>4, Order, SourceInv

-----------------------------------------------------------------------------
LEMMA InitInv == Init => WInv
<1> SUFFICES ASSUME Init PROVE WInv
  OBVIOUS
<1>1. /\ source = [k \in Keys |-> 0] /\ top = Initial /\ state = [wm |-> Initial, ver |-> 1]
      /\ audit = <<>> /\ landing = [b \in Batches |-> {}] /\ worker = [w \in Workers |-> Idle]
  BY DEF Init
<1>2. SourceRows = {} /\ Successes = {}
  BY <1>1 DEF SourceRows, Successes
<1>3. TypeOK
  <2>1. source \in [Keys -> 0..LastCursor[1]]
    BY <1>1, ParameterAssumption
  <2> QED BY <1>1, <2>1, NullTypes, CursorType DEF TypeOK, At
<1>4. WorkersSound
  BY <1>1, IdleSound DEF WorkersSound
<1>5. RecordsSound /\ Owned
  BY <1>1, NullTypes DEF RecordsSound, Owned, At
<1>6. SourceShown
  BY <1>1, <1>2, CursorType, Order DEF SourceShown
<1>7. Tiled
  BY <1>1, <1>2 DEF Tiled
<1> QED BY <1>3, <1>4, <1>5, <1>6, <1>7 DEF WInv

LEMMA NextInv == WInv /\ [Next]_vars => WInv'
<1> SUFFICES ASSUME WInv, [Next]_vars PROVE WInv'
  OBVIOUS
<1>1. CASE UNCHANGED vars
  BY <1>1 DEF vars, WInv, TypeOK, WorkersSound, Sound, RecordsSound, RecordSound, Knows, Spans,
              Owned, At, SourceShown, SourceRows, Tiled, Successes
<1>2. CASE SourceStep
  BY <1>2, WriteInv, DeleteInv DEF SourceStep
<1>3. ASSUME NEW w \in Workers, StartAudit(w) PROVE WInv'
  BY <1>3, StartAuditInv
<1>4. ASSUME NEW w \in Workers, Progress(w) PROVE WInv'
  <2>1. CASE ReadLow(w) \/ ReadCurrent(w) \/ Recover(w) \/ NothingToRecover(w)
    BY <2>1, ReadLowInv, ReadCurrentInv, RecoverInv, NothingToRecoverInv
  <2>2. CASE MarkSuperseded(w) \/ CaptureHigh(w) \/ UpdateWindow(w) \/ Extract(w)
    BY <2>2, MarkSupersededInv, CaptureHighInv, UpdateWindowInv, ExtractInv
  <2>3. CASE NoData(w) \/ CountMismatch(w) \/ Conflict(w)
    <3>1. ~At(w, "idle")
      BY <2>3 DEF NoData, CountMismatch, Conflict, At
    <3> QED BY <2>3, <3>1, CompleteInv DEF NoData, CountMismatch, Conflict
  <2>4. CASE WriteLanding(w) \/ VerifyLanding(w) \/ Commit(w)
    BY <2>4, WriteLandingInv, VerifyLandingInv, CommitInv
  <2> QED BY <1>4, <2>1, <2>2, <2>3, <2>4 DEF Progress
<1>5. ASSUME NEW w \in Workers, Raise(w) PROVE WInv'
  BY <1>5, CompleteInv DEF Raise
<1>6. ASSUME NEW w \in Workers, Die(w) PROVE WInv'
  BY <1>6, DieInv
<1> QED BY <1>1, <1>2, <1>3, <1>4, <1>5, <1>6 DEF Next

LEMMA Invariant == Spec => []WInv
BY InitInv, NextInv, PTL DEF Spec
-----------------------------------------------------------------------------
(* In every reachable state the audit log, the control row and the local   *)
(* state of the workers have their types; a busy worker has a record.      *)
THEOREM TypeCorrect == Spec => []TypeOK
<1>1. WInv => TypeOK
  BY DEF WInv
<1> QED BY <1>1, Invariant, PTL

LEMMA ChosenHigh ==
  ASSUME Tiled, NEW n \in Successes, audit[n].ver # 0
  PROVE  HighAt(audit[n].ver) = audit[n].high
<1> DEFINE m == CHOOSE m \in Successes : audit[m].ver = audit[n].ver
<1>1. m \in Successes /\ audit[m].ver = audit[n].ver
  OBVIOUS
<1>2. m = n
  <2> HIDE DEF m
  <2> QED BY <1>1 DEF Tiled
<1> QED BY <1>2 DEF HighAt

LEMMA ChainFromTiles == WInv => CommittedChain
<1> SUFFICES ASSUME WInv PROVE CommittedChain
  OBVIOUS
<1>1. Tiled /\ state.ver \in Nat /\ state.ver >= 1
  BY DEF WInv, TypeOK, SourceShown
<1>2. ASSUME NEW v \in 1..(state.ver - 1)
      PROVE  \E n \in Successes : audit[n].ver = v /\ HighAt(v) = audit[n].high
  BY <1>1, ChosenHigh DEF Tiled
<1>3. HighAt(0) = Initial
  BY DEF HighAt
<1>4. ASSUME NEW n \in Successes
      PROVE  /\ audit[n].ver < state.ver /\ audit[n].low = HighAt(audit[n].ver - 1)
             /\ \A m \in Successes : audit[m].ver = audit[n].ver => m = n
  <2>1. audit[n].ver \in 1..(state.ver - 1)
    BY <1>1 DEF Tiled
  <2>2. CASE audit[n].ver = 1
    BY <1>1, <1>3, <2>1, <2>2 DEF Tiled
  <2>3. CASE audit[n].ver # 1
    <3>1. audit[n].ver - 1 \in 1..(state.ver - 1)
      BY <1>1, <2>1, <2>3
    <3>2. PICK m \in Successes : /\ audit[m].ver = audit[n].ver - 1
                                 /\ HighAt(audit[n].ver - 1) = audit[m].high
      BY <1>2, <3>1
    <3>3. audit[n].ver = audit[m].ver + 1
      BY <2>1, <3>2
    <3> QED BY <1>1, <2>1, <3>2, <3>3 DEF Tiled
  <2> QED BY <2>2, <2>3
<1>5. state.wm = HighAt(state.ver - 1)
  <2>1. CASE state.ver = 1
    BY <1>1, <1>3, <2>1 DEF Tiled
  <2>2. CASE state.ver # 1
    <3>1. state.ver - 1 \in 1..(state.ver - 1)
      BY <1>1, <2>2
    <3>2. PICK n \in Successes : /\ audit[n].ver = state.ver - 1
                                 /\ HighAt(state.ver - 1) = audit[n].high
      BY <1>2, <3>1
    <3> QED BY <1>1, <3>2 DEF Tiled
  <2> QED BY <2>1, <2>2
<1>6. \A v \in 1..(state.ver - 1) : \E n \in Successes : audit[n].ver = v
  BY <1>2
<1> QED BY <1>4, <1>5, <1>6 DEF CommittedChain

(* However many workers race, recover one another's windows, raise or die: *)
(* the committed windows are one chain, without gap and without overlap,   *)
(* from the beginning to the watermark.                                    *)
THEOREM WindowsTile == Spec => []CommittedChain
BY Invariant, ChainFromTiles, PTL

(* The watermark never moves back, skips no version and never passes what  *)
(* the source has shown.                                                   *)
THEOREM WatermarkOnlyAdvances == Spec => WatermarkAdvances
<1> DEFINE Step == state' # state => /\ Less(state.wm, state'.wm) /\ AtMost(state'.wm, top)
                                    /\ state'.ver = state.ver + 1
<1>1. WInv /\ [Next]_vars => [Step]_vars
  <2> SUFFICES ASSUME WInv, Next, state' # state PROVE Step
    OBVIOUS
  <2>1. PICK w \in Workers : Commit(w)
    BY DEF Next, SourceStep, Write, Delete, StartAudit, Progress, ReadLow, ReadCurrent, Recover,
           NothingToRecover, MarkSuperseded, CaptureHigh, UpdateWindow, Extract, NoData,
           WriteLanding,
           VerifyLanding, CountMismatch, Conflict, Raise, Complete, Die
  <2> QED BY <2>1, CommitFacts
<1> QED BY <1>1, Invariant, PTL DEF Spec, WatermarkAdvances
-----------------------------------------------------------------------------
(* No row is skipped, provided rows become visible in the order of their   *)
(* cursors.  A window, once extracted, has lost no row of the source since:*)
(* new rows are above TOP, and HIGH is not.  Its file therefore covers it, *)
(* whoever wrote the file, and so do the files of the committed windows,   *)
(* one of which spans any row the watermark has passed.                    *)
Inside(b, c) == Less(b[1], c) /\ AtMost(c, b[2])

Covers(b) == \A c \in SourceRows : Inside(b, c) => c \in landing[b]

Full(x) ==
  /\ x.pc \in {"land", "verify", "commit"} =>
       \A c \in SourceRows : Less(x.low, c) /\ AtMost(c, x.high) => c \in x.rows
  /\ x.pc \in {"verify", "commit"} => Covers(x.batch)

WorkersFull == \A w \in Workers : Full(worker[w])

CommittedFull == \A n \in Successes : Covers(audit[n].batch)

Passed ==
  \A c \in SourceRows : AtMost(c, state.wm) => \E n \in Successes : Inside(audit[n].batch, c)

CInv == WInv /\ WorkersFull /\ CommittedFull /\ Passed

(* A worker that neither lands nor commits leaves all of this as it is.    *)
LEMMA FullStep ==
  ASSUME CInv, NEW w \in Workers, \A u \in Workers \ {w} : worker'[u] = worker[u],
         Full(worker[w])',
         UNCHANGED <<source, state, landing>>,
         Successes' = Successes, \A n \in Successes : audit'[n].batch = audit[n].batch
  PROVE  (WorkersFull /\ CommittedFull /\ Passed)'
<1>1. SourceRows' = SourceRows
  BY DEF SourceRows
<1>2. WorkersFull'
  <2> SUFFICES ASSUME NEW u \in Workers, u # w PROVE Full(worker[u])'
    BY DEF WorkersFull
  <2> QED BY <1>1 DEF CInv, WorkersFull, Full, Covers
<1>3. CommittedFull' /\ Passed'
  BY <1>1 DEF CInv, CommittedFull, Covers, Passed
<1> QED BY <1>2, <1>3

(* Everything a worker does, but for landing and committing. *)
LEMMA ProgressFull ==
  ASSUME CInv, NEW w \in Workers,
         \/ StartAudit(w) \/ ReadLow(w) \/ ReadCurrent(w) \/ Recover(w) \/ NothingToRecover(w)
         \/ CaptureHigh(w) \/ MarkSuperseded(w) \/ UpdateWindow(w) \/ Extract(w)
         \/ VerifyLanding(w) \/ Die(w)
         \/ (~At(w, "idle") /\ \E status \in {"NO_DATA", "FAILED"} : Complete(w, status))
  PROVE  (WorkersFull /\ CommittedFull /\ Passed)'
<1>1. UNCHANGED <<source, state, landing>>
  BY DEF StartAudit, ReadLow, ReadCurrent, Recover, NothingToRecover, CaptureHigh, MarkSuperseded,
         UpdateWindow, Extract, VerifyLanding, Die, Complete
<1>2. \A u \in Workers \ {w} : worker'[u] = worker[u]
  BY DEF StartAudit, ReadLow, ReadCurrent, Recover, NothingToRecover, CaptureHigh, MarkSuperseded,
         UpdateWindow, Extract, VerifyLanding, Die, Complete, Become, Goto, CInv, WInv, TypeOK
<1>3. Full(worker[w])'
  <2>1. CASE VerifyLanding(w)
    <3>1. worker[w].pc = "verify" /\ Full(worker[w]) /\ Goto(w, "commit") /\ worker[w] \in WorkerType
      BY <2>1, Busy DEF VerifyLanding, At, CInv, WorkersFull
    <3>2. /\ worker'[w].pc = "commit" /\ worker'[w].low = worker[w].low
          /\ worker'[w].high = worker[w].high /\ worker'[w].rows = worker[w].rows
          /\ worker'[w].batch = worker[w].batch
      BY <3>1 DEF Goto, Become, WorkerType, CInv, WInv, TypeOK
    <3> QED BY <1>1, <3>1, <3>2 DEF Full, Covers, SourceRows
  <2>2. CASE Extract(w)
    <3> DEFINE rows == {c \in SourceRows : Less(worker[w].low, c) /\ AtMost(c, worker[w].high)}
    <3>1. worker[w] \in WorkerType
      BY Busy DEF CInv
    <3>2. /\ worker'[w].pc \in {"nodata", "land"} /\ worker'[w].low = worker[w].low
          /\ worker'[w].high = worker[w].high /\ worker'[w].rows = rows
      <4>1. Become(w, [worker[w] EXCEPT !.pc = IF rows = {} THEN "nodata" ELSE "land", !.rows = rows])
        BY <2>2 DEF Extract
      <4> HIDE DEF rows
      <4> QED BY <3>1, <4>1 DEF Become, WorkerType, CInv, WInv, TypeOK
    <3> QED BY <1>1, <3>2 DEF Full, SourceRows
  <2>3. CASE ~VerifyLanding(w) /\ ~Extract(w)
    <3>1. worker[w] \in WorkerType /\ worker \in [Workers -> WorkerType]
      BY Busy DEF CInv, WInv, TypeOK
    <3>2. worker'[w].pc \in {"idle", "low", "current", "candidate", "supersede", "window", "capture",
                             "extract", "nodata"}
      <4>1. CASE ReadLow(w)
        BY <3>1, <4>1 DEF ReadLow, Become, WorkerType
      <4>2. CASE ReadCurrent(w)
        BY <3>1, <4>2 DEF ReadCurrent, Become, WorkerType
      <4>3. CASE NothingToRecover(w)
        BY <3>1, <4>3 DEF NothingToRecover, Become, WorkerType
      <4>4. CASE MarkSuperseded(w)
        BY <3>1, <4>4 DEF MarkSuperseded, Become, WorkerType
      <4>5. CASE UpdateWindow(w)
        <5>1. PICK step \in {"extract", "nodata"} : Goto(w, step)
          BY <4>5 DEF UpdateWindow
        <5> QED BY <3>1, <5>1 DEF Goto, Become, WorkerType
      <4>6. CASE CaptureHigh(w)
        <5>1. PICK high : Become(w, [worker[w] EXCEPT !.pc = "window", !.high = high,
                                                      !.batch = <<worker[w].low, high>>])
          BY <4>6 DEF CaptureHigh
        <5> QED BY <3>1, <5>1 DEF Become, WorkerType
      <4>7. CASE StartAudit(w)
        <5>1. worker'[w] = [Idle EXCEPT !.pc = "low", !.run = Len(audit) + 1]
          BY <3>1, <4>7 DEF StartAudit, Become
        <5> QED BY <5>1 DEF Idle
      <4>8. CASE Recover(w)
        <5>1. PICK n \in Candidates : Become(w, [worker[w] EXCEPT
                !.pc = IF audit[n].status = "RUNNING" THEN "supersede" ELSE "window",
                !.high = audit[n].high, !.batch = audit[n].batch,
                !.old = IF audit[n].status = "RUNNING" THEN n ELSE 0, !.cur = NoState])
          BY <4>8 DEF Recover
        <5>2. worker'[w].pc = IF audit[n].status = "RUNNING" THEN "supersede" ELSE "window"
          BY <3>1, <5>1 DEF Become, WorkerType
        <5> QED BY <5>2
      <4>9. CASE Die(w) \/ \E status \in {"NO_DATA", "FAILED"} : Complete(w, status)
        BY <3>1, <4>9, NullTypes DEF Die, Complete, Become
      <4> QED BY <2>3, <4>1, <4>2, <4>3, <4>4, <4>5, <4>6, <4>7, <4>8, <4>9
    <3> QED BY <3>2 DEF Full
  <2> QED BY <2>1, <2>2, <2>3
<1>4. Successes' = Successes /\ \A n \in Successes : audit'[n].batch = audit[n].batch
  <2>1. audit \in Seq(AuditType) /\ DOMAIN audit = 1..Len(audit) /\ Len(audit) \in Nat
    BY DEF CInv, WInv, TypeOK
  <2>2. CASE StartAudit(w)
    <3>1. /\ DOMAIN audit' = DOMAIN audit \cup {Len(audit) + 1}
          /\ audit'[Len(audit) + 1].status = "RUNNING"
          /\ \A n \in DOMAIN audit : audit'[n] = audit[n]
      BY <2>1, <2>2, NullTypes DEF StartAudit
    <3> QED BY <3>1 DEF Successes
  <2>3. CASE MarkSuperseded(w)
    <3>1. /\ DOMAIN audit' = DOMAIN audit
          /\ \A n \in DOMAIN audit : audit[n] \in AuditType
          /\ audit' = [audit EXCEPT ![worker[w].old].status =
                         IF audit[worker[w].old].status = "RUNNING" THEN "FAILED"
                         ELSE audit[worker[w].old].status]
      BY <2>1, <2>3 DEF MarkSuperseded
    <3>2. \A n \in DOMAIN audit : /\ audit'[n].batch = audit[n].batch
                                  /\ audit'[n].status = "SUCCESS" <=> audit[n].status = "SUCCESS"
      BY <3>1 DEF AuditType
    <3> QED BY <3>1, <3>2 DEF Successes
  <2>4. CASE ~At(w, "idle") /\ (UpdateWindow(w) \/ \E status \in {"NO_DATA", "FAILED"} : Complete(w, status))
    <3>1. /\ worker[w].run \in DOMAIN audit /\ audit[worker[w].run] \in AuditType
          /\ audit[worker[w].run].status # "SUCCESS"
      BY <2>4, OwnRecord DEF CInv
    <3>2. /\ DOMAIN audit' = DOMAIN audit
          /\ audit'[worker[w].run].status # "SUCCESS"
          /\ \A n \in DOMAIN audit \ {worker[w].run} : audit'[n] = audit[n]
      <4>1. CASE UpdateWindow(w)
        BY <2>1, <3>1, <4>1 DEF UpdateWindow, AuditType
      <4>2. CASE \E status \in {"NO_DATA", "FAILED"} : Complete(w, status)
        BY <2>1, <3>1, <4>2 DEF Complete, AuditType
      <4> QED BY <2>4, <4>1, <4>2
    <3> QED BY <3>1, <3>2 DEF Successes
  <2>5. CASE audit' = audit
    BY <2>5 DEF Successes
  <2> QED BY <2>2, <2>3, <2>4, <2>5 DEF ReadLow, ReadCurrent, Recover, NothingToRecover,
     CaptureHigh,
         UpdateWindow, Extract, VerifyLanding, Die, At
<1> QED BY <1>1, <1>2, <1>3, <1>4, FullStep

(* A worker that lands its rows covers its window, and every window it was *)
(* given the same name.                                                    *)
LEMMA LandingFull ==
  ASSUME CInv, NEW w \in Workers, WriteLanding(w)
  PROVE  (WorkersFull /\ CommittedFull /\ Passed)'
<1> DEFINE me == worker[w]
<1>1. /\ me \in WorkerType /\ Sound(me) /\ me.pc = "land" /\ Full(me)
  BY Busy DEF WriteLanding, At, CInv, WorkersFull
<1>2. Spans(me.ver, me.low, me.high, me.batch)
  BY <1>1 DEF Sound, Windowed
<1>3. /\ me.batch \in Batches /\ me.batch[1] \in Cursors /\ me.batch[2] = me.high
      /\ me.low \in Cursors /\ AtMost(me.low, me.batch[1])
  BY <1>1, <1>2 DEF Spans, Batches, WorkerType
<1>4. /\ landing' = [landing EXCEPT ![me.batch] = me.rows]
      /\ landing \in [Batches -> SUBSET Cursors]
      /\ UNCHANGED <<source, state, audit>> /\ SourceRows' = SourceRows
  BY DEF WriteLanding, CInv, WInv, TypeOK, SourceRows
<1>5. \A c \in SourceRows : Inside(me.batch, c) => c \in me.rows
  <2> SUFFICES ASSUME NEW c \in SourceRows, Inside(me.batch, c) PROVE c \in me.rows
    OBVIOUS
  <2>1. c \in Cursors
    BY DEF CInv, WInv, SourceShown
  <2>2. Less(me.low, c)
    BY <1>3, <2>1, Order DEF Inside
  <2> QED BY <1>1, <1>3, <2>2 DEF Full, Inside
<1>6. ASSUME NEW b, Covers(b)
      PROVE  \A c \in SourceRows : Inside(b, c) => c \in landing'[b]
  <2>1. CASE b = me.batch
    BY <1>3, <1>4, <1>5, <2>1
  <2>2. CASE b # me.batch
    BY <1>4, <1>6, <2>2 DEF Covers
  <2> QED BY <2>1, <2>2
<1>7. \A c \in SourceRows : Inside(me.batch, c) => c \in landing'[me.batch]
  <2>1. landing'[me.batch] = me.rows
    BY <1>3, <1>4
  <2> QED BY <1>5, <2>1
<1>8. PICK new \in WorkerType :
        /\ Moved(w, new) /\ new.pc = "verify" /\ new.low = me.low
        /\ new.high = me.high /\ new.batch = me.batch /\ new.rows = me.rows
  BY GotoMoved DEF WriteLanding, Steps, CInv
<1>9. WorkersFull'
  <2> SUFFICES ASSUME NEW u \in Workers PROVE Full(worker[u])'
    BY DEF WorkersFull
  <2>1. CASE u = w
    <3>1. worker'[w] = new
      BY <1>8 DEF Moved
    <3> QED BY <1>1, <1>4, <1>7, <1>8, <2>1, <3>1 DEF Full, Covers, Inside
  <2>2. CASE u # w
    <3>1. worker'[u] = worker[u] /\ Full(worker[u])
      BY <1>8, <2>2 DEF Moved, CInv, WorkersFull
    <3>2. worker[u].pc \in {"verify", "commit"} =>
            \A c \in SourceRows : Inside(worker[u].batch, c) => c \in landing'[worker[u].batch]
      BY <1>6, <3>1 DEF Full
    <3> QED BY <1>4, <3>1, <3>2 DEF Full, Covers, Inside
  <2> QED BY <2>1, <2>2
<1>10. CommittedFull'
  <2> SUFFICES ASSUME NEW n \in Successes' PROVE Covers(audit[n].batch)'
    BY DEF CommittedFull
  <2>1. n \in Successes /\ audit'[n] = audit[n] /\ Covers(audit[n].batch)
    BY <1>4 DEF Successes, CInv, CommittedFull
  <2>2. \A c \in SourceRows : Inside(audit[n].batch, c) => c \in landing'[audit[n].batch]
    BY <1>6, <2>1
  <2> QED BY <1>4, <2>1, <2>2 DEF Covers, Inside
<1>11. Passed'
  BY <1>4 DEF CInv, Passed, Successes
<1> QED BY <1>9, <1>10, <1>11

(* What a commit adds to the committed windows spans what the watermark    *)
(* has just passed.                                                        *)
LEMMA CommitFull ==
  ASSUME CInv, NEW w \in Workers, Commit(w)
  PROVE  (WorkersFull /\ CommittedFull /\ Passed)'
<1> DEFINE i == worker[w].run
<1> USE DEF CInv
<1>1. PICK rec : /\ Replaced(i, rec) /\ rec.status = "SUCCESS" /\ rec.batch = worker[w].batch
  BY CommitRecord
<1>2. /\ i \in DOMAIN audit /\ i \notin Successes /\ Moved(w, Idle)
      /\ UNCHANGED <<source, landing>> /\ SourceRows' = SourceRows
  BY CommitRecord DEF SourceRows
<1>3. /\ state'.wm = worker[w].high /\ state.wm \in Cursors
      /\ worker[w].batch[1] = state.wm /\ worker[w].batch[2] = worker[w].high
  BY CommitFacts DEF WInv, TypeOK
<1>4. Successes' = Successes \cup {i} /\ audit'[i].batch = worker[w].batch
      /\ \A n \in Successes : audit'[n] = audit[n]
  BY <1>1, <1>2 DEF Successes, Replaced
<1>5. Covers(worker[w].batch)
  BY DEF Commit, At, WorkersFull, Full
<1>6. WorkersFull'
  <2> SUFFICES ASSUME NEW u \in Workers PROVE Full(worker[u])'
    BY DEF WorkersFull
  <2>1. CASE u = w
    BY <1>2, <2>1, NullTypes DEF Moved, Full
  <2>2. CASE u # w
    BY <1>2, <2>2 DEF Moved, WorkersFull, Full, Covers
  <2> QED BY <2>1, <2>2
<1>7. CommittedFull'
  BY <1>2, <1>4, <1>5 DEF CommittedFull, Covers
<1>8. Passed'
  <2> SUFFICES ASSUME NEW c \in SourceRows, AtMost(c, state'.wm)
               PROVE  \E n \in Successes' : Inside(audit'[n].batch, c)
    BY <1>2 DEF Passed, Inside
  <2>1. c \in Cursors
    BY DEF WInv, SourceShown
  <2>2. CASE AtMost(c, state.wm)
    BY <1>4, <2>2 DEF Passed
  <2>3. CASE Less(state.wm, c)
    BY <1>3, <1>4, <2>3 DEF Inside
  <2> QED BY <1>3, <2>1, <2>2, <2>3, Order
<1> QED BY <1>6, <1>7, <1>8

(* The source only adds rows above everything shown, hence above every     *)
(* window and the watermark.                                               *)
LEMMA SourceFull ==
  ASSUME CInv, Ordered, SourceStep PROVE (WorkersFull /\ CommittedFull /\ Passed)'
<1>1. /\ UNCHANGED <<state, audit, landing, worker>>
      /\ \A c \in SourceRows' \ SourceRows : c \in Cursors /\ Less(top, c)
  <2>1. ASSUME NEW k \in Keys, Delete(k)
        PROVE  SourceRows' \subseteq SourceRows /\ UNCHANGED <<state, audit, landing, worker>>
    BY <2>1 DEF Delete, SourceRows, CInv, WInv, TypeOK
  <2>2. ASSUME NEW k \in Keys, NEW ts \in 1..LastCursor[1], Write(k, ts)
        PROVE  /\ SourceRows' \subseteq SourceRows \cup {<<ts, k>>}
               /\ <<ts, k>> \in Cursors /\ Less(top, <<ts, k>>)
               /\ UNCHANGED <<state, audit, landing, worker>>
    BY <2>2, WriteFacts DEF CInv
  <2> QED BY <2>1, <2>2 DEF SourceStep
<1>2. /\ top \in Cursors /\ state.wm \in Cursors /\ AtMost(state.wm, top)
      /\ Successes' = Successes
  BY <1>1 DEF CInv, WInv, TypeOK, SourceShown, Successes
<1>3. ASSUME NEW h \in Cursors, AtMost(h, top), NEW c \in SourceRows', AtMost(c, h)
      PROVE  c \in SourceRows
  <2> SUFFICES ASSUME c \notin SourceRows PROVE FALSE
    OBVIOUS
  <2>1. c \in Cursors /\ Less(top, c)
    BY <1>1
  <2>2. Less(h, c)
    BY <1>2, <1>3, <2>1, Order
  <2> QED BY <1>3, <2>1, <2>2, Order
<1>4. ASSUME NEW b \in Batches, AtMost(b[2], top), Covers(b)
      PROVE  \A c \in SourceRows' : Inside(b, c) => c \in landing'[b]
  <2>1. b[2] \in Cursors
    BY DEF Batches
  <2> QED BY <1>1, <1>3, <1>4, <2>1 DEF Covers, Inside
<1>5. WorkersFull'
  <2> SUFFICES ASSUME NEW u \in Workers, worker[u].pc \in {"land", "verify", "commit"}
               PROVE  Full(worker[u])'
    BY <1>1 DEF WorkersFull, Full
  <2>1. worker[u] \in WorkerType /\ Sound(worker[u]) /\ Full(worker[u])
    BY Busy DEF CInv, WorkersFull
  <2>2. worker[u].high \in Cursors /\ AtMost(worker[u].high, top)
        /\ worker[u].batch \in Batches /\ worker[u].batch[2] = worker[u].high
    BY <2>1 DEF Sound, Windowed, Spans, WorkerType
  <2>3. worker[u].pc \in {"verify", "commit"} =>
          \A c \in SourceRows' : Inside(worker[u].batch, c) => c \in landing'[worker[u].batch]
    BY <1>4, <2>1, <2>2 DEF Full
  <2>4. \A c \in SourceRows' : Less(worker[u].low, c) /\ AtMost(c, worker[u].high)
          => c \in worker[u].rows
    BY <1>3, <2>1, <2>2 DEF Full
  <2> QED BY <1>1, <2>3, <2>4 DEF Full, Covers, Inside
<1>6. CommittedFull'
  <2> SUFFICES ASSUME NEW n \in Successes PROVE Covers(audit[n].batch)'
    BY <1>1, <1>2 DEF CommittedFull, Covers
  <2>1. /\ n \in DOMAIN audit /\ audit[n] \in AuditType /\ RecordSound(audit[n])
        /\ audit[n].ver \in 1..(state.ver - 1) /\ Covers(audit[n].batch)
    BY DEF CInv, WInv, TypeOK, RecordsSound, Successes, Tiled, CommittedFull
  <2>2. Spans(audit[n].ver, audit[n].low, audit[n].high, audit[n].batch)
    BY <2>1 DEF RecordSound, CInv, WInv, TypeOK
  <2>3. \A c \in SourceRows' : Inside(audit[n].batch, c) => c \in landing'[audit[n].batch]
    BY <1>4, <2>1, <2>2 DEF Spans
  <2> QED BY <1>1, <2>3 DEF Covers, Inside
<1>7. Passed'
  <2> SUFFICES ASSUME NEW c \in SourceRows', AtMost(c, state.wm)
               PROVE  \E n \in Successes : Inside(audit[n].batch, c)
    BY <1>1, <1>2 DEF Passed, Inside
  <2>1. c \in SourceRows
    BY <1>2, <1>3
  <2> QED BY <2>1 DEF CInv, Passed
<1> QED BY <1>5, <1>6, <1>7

LEMMA CoveredInvariant == Ordered => (Spec => []CInv)
<1> SUFFICES ASSUME Ordered PROVE Spec => []CInv
  OBVIOUS
<1>1. Init => CInv
  <2> SUFFICES ASSUME Init PROVE WorkersFull /\ CommittedFull /\ Passed
    BY InitInv DEF CInv
  <2>1. SourceRows = {} /\ Successes = {} /\ \A w \in Workers : worker[w].pc = "idle"
    BY NullTypes DEF Init, SourceRows, Successes
  <2> QED BY <2>1 DEF WorkersFull, Full, CommittedFull, Passed
<1>2. CInv /\ [Next]_vars => CInv'
  <2> SUFFICES ASSUME CInv, [Next]_vars PROVE (WorkersFull /\ CommittedFull /\ Passed)'
    BY NextInv DEF CInv
  <2>1. CASE UNCHANGED vars
    BY <2>1 DEF vars, CInv, WorkersFull, Full, CommittedFull, Passed, Covers, SourceRows, Successes
  <2>2. CASE SourceStep
    BY <2>2, SourceFull
  <2>3. ASSUME NEW w \in Workers, StartAudit(w) \/ Progress(w) \/ Raise(w) \/ Die(w)
        PROVE  (WorkersFull /\ CommittedFull /\ Passed)'
    <3>1. CASE WriteLanding(w)
      BY <3>1, LandingFull
    <3>2. CASE Commit(w)
      BY <3>2, CommitFull
    <3>3. CASE NoData(w) \/ CountMismatch(w) \/ Conflict(w) \/ Raise(w)
      <4>1. ~At(w, "idle") /\ \E status \in {"NO_DATA", "FAILED"} : Complete(w, status)
        BY <3>3 DEF NoData, CountMismatch, Conflict, Raise, At
      <4> QED BY <4>1, ProgressFull
    <3> QED BY <2>3, <3>1, <3>2, <3>3, ProgressFull DEF Progress
  <2> QED BY <2>1, <2>2, <2>3 DEF Next
<1> QED BY <1>1, <1>2, PTL DEF Spec

(* However many workers race, recover windows, raise or die, and whatever  *)
(* is updated or deleted meanwhile: no row at or below the watermark is    *)
(* missing from the committed files, if rows become visible in the order   *)
(* of their cursors.                                                       *)
THEOREM NoRowSkipped == Ordered => (Spec => []NothingSkipped)
<1>1. CInv => NothingSkipped
  BY DEF CInv, NothingSkipped, Passed, CommittedFull, Covers
<1> QED BY <1>1, CoveredInvariant, PTL
-----------------------------------------------------------------------------
(* One worker at a time.                                                   *)
OneWorker == \A u, w \in Workers : u = w

LEMMA LatestExists ==
  ASSUME NEW S \in SUBSET Nat, IsFiniteSet(S), S # {}
  PROVE  \E c \in S : \A d \in S : d <= c
<1> DEFINE Topless == {T \in FiniteSubsetsOf(Nat) : T # {} /\ ~ \E c \in T : \A d \in T : d <= c}
<1> SUFFICES ASSUME S \in Topless PROVE FALSE
  BY DEF FiniteSubsetsOf
<1>1. PICK T \in Topless : \A U \in Topless : ~ <<U, T>> \in StrictSubsetOrdering(Nat)
  <2>1. IsWellFoundedOn(StrictSubsetOrdering(Nat), FiniteSubsetsOf(Nat))
    BY FS_StrictSubsetOrderingWellFounded
  <2>2. Topless \subseteq FiniteSubsetsOf(Nat) /\ Topless # {}
    OBVIOUS
  <2> HIDE DEF Topless
  <2> QED BY <2>1, <2>2, WFMin
<1>2. PICK x : x \in T
  OBVIOUS
<1> DEFINE U == T \ {x}
<1>3. T \in SUBSET Nat /\ IsFiniteSet(T)
  BY DEF FiniteSubsetsOf
<1>4. U \in FiniteSubsetsOf(Nat)
  BY <1>3, FS_RemoveElement DEF FiniteSubsetsOf
<1>5. <<U, T>> \in StrictSubsetOrdering(Nat)
  BY <1>2, <1>3 DEF StrictSubsetOrdering
<1>6. CASE U = {}
  BY <1>2, <1>3, <1>6
<1>7. CASE U # {}
  <2>1. PICK y \in U : \A d \in U : d <= y
    BY <1>1, <1>4, <1>5, <1>7
  <2>2. CASE x <= y
    BY <1>3, <2>1, <2>2
  <2>3. CASE y < x
    BY <1>2, <1>3, <2>1, <2>3
  <2> QED BY <1>2, <1>3, <2>1, <2>2, <2>3
<1> QED BY <1>6, <1>7

(* An attempt at the next window that could be recovered.                  *)
Proper(n) == Unfinished(n) /\ audit[n].ver = state.ver /\ Less(audit[n].low, audit[n].high)

(* What a lone worker relies on: nobody has moved the watermark since it   *)
(* read it, the window it takes is that of every attempt before, and the   *)
(* file it verifies is its own.                                            *)
Lone(x) ==
  /\ x.pc \notin {"idle", "low"} => x.ver = state.ver
  /\ x.pc # "idle" => x.run = Len(audit)
  /\ x.pc = "candidate" => x.cur = state
  /\ x.pc = "capture" => \A n \in DOMAIN audit : ~Proper(n)
  /\ x.pc \in {"supersede", "window"} =>
       \A n \in DOMAIN audit : Proper(n) => audit[n].high = x.high /\ audit[n].batch = x.batch
  /\ x.pc \in {"land", "verify", "commit"} => \A c \in x.rows : Less(x.low, c) /\ AtMost(c, x.high)
  /\ x.pc \in {"verify", "commit"} => landing[x.batch] = x.rows

(* Once there is such an attempt, the later ones that remain are for its   *)
(* window too, so that the latest of all, which is the one looked at, is.  *)
LaterProper ==
  \A m, n \in DOMAIN audit : m < n /\ Proper(m) /\ Unfinished(n) => Proper(n)

OneWindow ==
  \A m, n \in DOMAIN audit :
    Proper(m) /\ Proper(n) => audit[m].high = audit[n].high /\ audit[m].batch = audit[n].batch

(* The file of a committed batch ends where the watermark has been.        *)
CommittedLanded ==
  \A n \in Successes :
    /\ AtMost(audit[n].high, state.wm) /\ audit[n].batch[2] = audit[n].high
    /\ Cardinality(landing[audit[n].batch]) = audit[n].rows
    /\ \A c \in landing[audit[n].batch] : Less(audit[n].low, c) /\ AtMost(c, audit[n].high)

LoneInv ==
  /\ WInv /\ LaterProper /\ OneWindow /\ CommittedLanded
  /\ \A w \in Workers : Lone(worker[w])

(* Steps that add no attempt and no committed window.                      *)
LEMMA LoneStep ==
  ASSUME OneWorker, LoneInv, NEW w \in Workers, Lone(worker[w])', UNCHANGED <<state, landing>>,
         \A n \in (DOMAIN audit)' : Unfinished(n)' =>
           /\ n \in DOMAIN audit /\ Unfinished(n)
           /\ audit'[n].ver = audit[n].ver /\ audit'[n].low = audit[n].low
           /\ audit'[n].high = audit[n].high /\ audit'[n].batch = audit[n].batch,
         \A n \in Successes' : n \in Successes /\ audit'[n] = audit[n]
  PROVE  (LaterProper /\ OneWindow /\ CommittedLanded /\ \A u \in Workers : Lone(worker[u]))'
<1>1. \A n \in (DOMAIN audit)' : Proper(n)' => n \in DOMAIN audit /\ Proper(n)
  BY DEF Proper
<1>2. LaterProper'
  BY <1>1 DEF LoneInv, LaterProper, Proper
<1>3. OneWindow'
  BY <1>1 DEF LoneInv, OneWindow, Proper
<1>4. CommittedLanded'
  BY DEF LoneInv, CommittedLanded
<1> QED BY <1>2, <1>3, <1>4 DEF OneWorker

LEMMA LoneQuiet ==
  ASSUME OneWorker, LoneInv, NEW w \in Workers, NEW new, worker'[w] = new, Lone(new),
         UNCHANGED <<state, landing, audit>>
  PROVE  (LaterProper /\ OneWindow /\ CommittedLanded /\ \A u \in Workers : Lone(worker[u]))'
<1>1. Lone(worker[w])'
  BY DEF Lone, Proper, Unfinished
<1> QED BY <1>1, LoneStep DEF Unfinished, Successes

LEMMA LoneFacts ==
  ASSUME LoneInv, NEW w \in Workers
  PROVE  /\ worker[w] \in WorkerType /\ Sound(worker[w]) /\ Lone(worker[w]) /\ WInv
         /\ worker \in [Workers -> WorkerType]
         /\ audit \in Seq(AuditType) /\ DOMAIN audit = 1..Len(audit) /\ Len(audit) \in Nat
         /\ \A n \in DOMAIN audit : audit[n] \in AuditType
BY Busy DEF LoneInv, WInv, TypeOK

KeptLone == (LaterProper /\ OneWindow /\ CommittedLanded /\ \A u \in Workers : Lone(worker[u]))'

LEMMA LoneReads ==
  ASSUME OneWorker, LoneInv, NEW w \in Workers,
         ReadLow(w) \/ ReadCurrent(w) \/ Extract(w) \/ VerifyLanding(w) \/ Die(w)
  PROVE  KeptLone
<1> PICK x : x = worker[w]
  OBVIOUS
<1>1. /\ x \in WorkerType /\ Sound(x) /\ Lone(x) /\ worker \in [Workers -> WorkerType]
      /\ UNCHANGED <<state, landing, audit>>
  BY LoneFacts DEF ReadLow, ReadCurrent, Extract, VerifyLanding, Die
<1>2. CASE ReadLow(w)
  <2> PICK new : new = [x EXCEPT !.pc = "current", !.low = state.wm, !.ver = state.ver]
    OBVIOUS
  <2>1. x.pc = "low" /\ worker'[w] = new
    BY <1>1, <1>2 DEF ReadLow, At, Become
  <2>2. new.pc = "current" /\ new.ver = state.ver /\ new.run = x.run
    BY <1>1 DEF WorkerType
  <2>3. Lone(new)
    BY <1>1, <2>1, <2>2 DEF Lone
  <2> QED BY <1>1, <2>1, <2>3, LoneQuiet DEF KeptLone
<1>3. CASE ReadCurrent(w)
  <2> PICK new : new = [x EXCEPT !.pc = "candidate", !.cur = state]
    OBVIOUS
  <2>1. x.pc = "current" /\ worker'[w] = new
    BY <1>1, <1>3 DEF ReadCurrent, At, Become
  <2>2. new.pc = "candidate" /\ new.cur = state /\ new.ver = x.ver /\ new.run = x.run
    BY <1>1 DEF WorkerType
  <2>3. Lone(new)
    BY <1>1, <2>1, <2>2 DEF Lone
  <2> QED BY <1>1, <2>1, <2>3, LoneQuiet DEF KeptLone
<1>4. CASE Extract(w)
  <2> PICK rows : rows = {c \in SourceRows : Less(x.low, c) /\ AtMost(c, x.high)}
    OBVIOUS
  <2> PICK new : new = [x EXCEPT !.pc = IF rows = {} THEN "nodata" ELSE "land", !.rows = rows]
    OBVIOUS
  <2>1. x.pc = "extract" /\ worker'[w] = new
    BY <1>1, <1>4 DEF Extract, At, Become
  <2>2. /\ new.pc \in {"nodata", "land"} /\ new.ver = x.ver /\ new.run = x.run /\ new.rows = rows
        /\ new.low = x.low /\ new.high = x.high
    BY <1>1 DEF WorkerType
  <2>3. Lone(new)
    BY <1>1, <2>1, <2>2 DEF Lone
  <2> QED BY <1>1, <2>1, <2>3, LoneQuiet DEF KeptLone
<1>5. CASE VerifyLanding(w)
  <2> PICK new : new = [x EXCEPT !.pc = "commit"]
    OBVIOUS
  <2>1. x.pc = "verify" /\ worker'[w] = new
    BY <1>1, <1>5 DEF VerifyLanding, At, Goto, Become
  <2>2. /\ new.pc = "commit" /\ new.ver = x.ver /\ new.run = x.run /\ new.rows = x.rows
        /\ new.low = x.low /\ new.high = x.high /\ new.batch = x.batch
    BY <1>1 DEF WorkerType
  <2>3. Lone(new)
    BY <1>1, <2>1, <2>2 DEF Lone
  <2> QED BY <1>1, <2>1, <2>3, LoneQuiet DEF KeptLone
<1>6. CASE Die(w)
  <2>1. worker'[w] = Idle /\ Lone(Idle)
    BY <1>1, <1>6, NullTypes DEF Die, Become, Lone
  <2> QED BY <1>1, <2>1, LoneQuiet DEF KeptLone
<1> QED BY <1>2, <1>3, <1>4, <1>5, <1>6

(* Recovery: if an attempt can be recovered, the latest is one.            *)
LEMMA LatestProper ==
  ASSUME LoneInv, NEW w \in Workers, At(w, "candidate"), NEW m \in DOMAIN audit, Proper(m)
  PROVE  \E n \in Candidates : Proper(n) /\ Eligible(n, worker[w].cur)
<1> DEFINE U == {n \in DOMAIN audit : Unfinished(n)}
<1>1. /\ DOMAIN audit = 1..Len(audit) /\ Len(audit) \in Nat /\ WInv /\ worker[w].cur = state
  BY LoneFacts DEF At, Lone
<1>2. U \in SUBSET Nat /\ IsFiniteSet(U) /\ m \in U
  <2>1. IsFiniteSet(DOMAIN audit)
    BY <1>1, FS_Interval
  <2>2. IsFiniteSet(U)
    BY <2>1, FS_Subset
  <2> QED BY <1>1, <2>2 DEF Proper
<1> HIDE DEF U
<1>3. PICK n \in U : \A d \in U : d <= n
  BY <1>2, LatestExists
<1>4. n \in DOMAIN audit /\ Unfinished(n) /\ n \in Nat /\ m \in Nat /\ m <= n
  BY <1>2, <1>3 DEF U
<1>5. n \in Candidates
  <2>1. \A d \in DOMAIN audit : d > n => ~Unfinished(d)
    <3> SUFFICES ASSUME NEW d \in DOMAIN audit, Unfinished(d), d > n PROVE FALSE
      OBVIOUS
    <3>1. d \in U /\ d \in Nat
      BY <1>1 DEF U
    <3> QED BY <1>3, <1>4, <3>1
  <2> QED BY <1>4, <2>1 DEF Candidates
<1>6. Proper(n)
  BY <1>4 DEF LoneInv, LaterProper
<1>7. Knows(audit[n].ver, audit[n].low)
      /\ Spans(audit[n].ver, audit[n].low, audit[n].high, audit[n].batch)
  BY <1>1, <1>4 DEF WInv, RecordsSound, RecordSound, Unfinished
<1>8. audit[n].batch # NoBatch
  BY <1>7 DEF Spans, Batches, NoBatch
<1>9. Eligible(n, state)
  BY <1>6, <1>7, <1>8 DEF Eligible, Proper, Knows
<1> QED BY <1>1, <1>5, <1>6, <1>9

LEMMA LoneRecovers ==
  ASSUME OneWorker, LoneInv, NEW w \in Workers,
         Recover(w) \/ NothingToRecover(w) \/ CaptureHigh(w)
  PROVE  KeptLone
<1> PICK x : x = worker[w]
  OBVIOUS
<1>1. /\ x \in WorkerType /\ Sound(x) /\ Lone(x) /\ worker \in [Workers -> WorkerType]
      /\ UNCHANGED <<state, landing, audit>>
  BY LoneFacts DEF Recover, NothingToRecover, CaptureHigh
<1>2. CASE Recover(w)
  <2>1. PICK n \in Candidates :
          /\ Eligible(n, x.cur)
          /\ Become(w, [x EXCEPT
               !.pc = IF audit[n].status = "RUNNING" THEN "supersede" ELSE "window",
               !.high = audit[n].high, !.batch = audit[n].batch,
               !.old = IF audit[n].status = "RUNNING" THEN n ELSE 0, !.cur = NoState])
    BY <1>2 DEF Recover
  <2> PICK new : new = [x EXCEPT
               !.pc = IF audit[n].status = "RUNNING" THEN "supersede" ELSE "window",
               !.high = audit[n].high, !.batch = audit[n].batch,
               !.old = IF audit[n].status = "RUNNING" THEN n ELSE 0, !.cur = NoState]
    OBVIOUS
  <2>2. worker'[w] = new
    BY <1>1, <2>1 DEF Become
  <2>3. /\ new.pc \in {"supersede", "window"} /\ new.ver = x.ver /\ new.run = x.run
        /\ new.high = audit[n].high /\ new.batch = audit[n].batch
    BY <1>1 DEF WorkerType
  <2>4. x.cur = state /\ x.pc = "candidate"
    BY <1>1, <1>2 DEF Recover, At, Lone
  <2>5. Proper(n) /\ n \in DOMAIN audit
    BY <2>1, <2>4 DEF Proper, Eligible, Candidates
  <2>6. Lone(new)
    BY <1>1, <2>3, <2>4, <2>5 DEF Lone, LoneInv, OneWindow
  <2> QED BY <1>1, <2>2, <2>6, LoneQuiet DEF KeptLone
<1>3. CASE NothingToRecover(w)
  <2> PICK new : new = [x EXCEPT !.pc = "capture", !.cur = NoState]
    OBVIOUS
  <2>1. x.pc = "candidate" /\ worker'[w] = new
    BY <1>1, <1>3 DEF NothingToRecover, At, Become
  <2>2. new.pc = "capture" /\ new.ver = x.ver /\ new.run = x.run
    BY <1>1 DEF WorkerType
  <2>3. \A n \in DOMAIN audit : ~Proper(n)
    BY <1>3, LatestProper DEF NothingToRecover
  <2>4. Lone(new)
    BY <1>1, <2>1, <2>2, <2>3 DEF Lone
  <2> QED BY <1>1, <2>1, <2>4, LoneQuiet DEF KeptLone
<1>4. CASE CaptureHigh(w)
  <2> PICK new : new = [x EXCEPT !.pc = "window", !.high = HighOf(SourceRows),
                                 !.batch = <<x.low, HighOf(SourceRows)>>]
    OBVIOUS
  <2>1. x.pc = "capture" /\ worker'[w] = new
    BY <1>1, <1>4 DEF CaptureHigh, At, Become
  <2>2. new.pc = "window" /\ new.ver = x.ver /\ new.run = x.run
    BY <1>1 DEF WorkerType
  <2>3. Lone(new)
    BY <1>1, <2>1, <2>2 DEF Lone
  <2> QED BY <1>1, <2>1, <2>3, LoneQuiet DEF KeptLone
<1> QED BY <1>2, <1>3, <1>4

(* Records are opened, closed and superseded.                              *)
LEMMA LoneRecords ==
  ASSUME OneWorker, LoneInv, NEW w \in Workers,
         \/ StartAudit(w) \/ MarkSuperseded(w)
         \/ ~At(w, "idle") /\ \E status \in {"NO_DATA", "FAILED"} : Complete(w, status)
  PROVE  KeptLone
<1> PICK x : x = worker[w]
  OBVIOUS
<1>1. /\ x \in WorkerType /\ Sound(x) /\ Lone(x) /\ worker \in [Workers -> WorkerType]
      /\ UNCHANGED <<state, landing>>
      /\ DOMAIN audit = 1..Len(audit) /\ Len(audit) \in Nat /\ audit \in Seq(AuditType)
      /\ \A n \in DOMAIN audit : audit[n] \in AuditType
  BY LoneFacts DEF StartAudit, MarkSuperseded, Complete
<1>2. CASE StartAudit(w)
  <2> PICK new : new = [Idle EXCEPT !.pc = "low", !.run = Len(audit) + 1]
    OBVIOUS
  <2>1. worker'[w] = new /\ new.pc = "low" /\ new.run = Len(audit) + 1
    BY <1>1, <1>2 DEF StartAudit, Become, Idle
  <2>2. /\ Len(audit)' = Len(audit) + 1 /\ DOMAIN audit' = DOMAIN audit \cup {Len(audit) + 1}
        /\ audit'[Len(audit) + 1] = NewAudit /\ \A n \in DOMAIN audit : audit'[n] = audit[n]
    BY <1>1, <1>2, NullTypes DEF StartAudit
  <2>3. Lone(worker[w])'
    BY <2>1, <2>2 DEF Lone
  <2>4. \A n \in (DOMAIN audit)' : Unfinished(n)' => n \in DOMAIN audit
    BY <2>2, NullTypes DEF Unfinished
  <2>5. \A n \in Successes' : n \in DOMAIN audit
    BY <2>2, NullTypes DEF Successes
  <2> QED BY <1>1, <2>2, <2>3, <2>4, <2>5, LoneStep DEF Unfinished, Successes, KeptLone
<1>3. CASE MarkSuperseded(w)
  <2> PICK new : new = [x EXCEPT !.pc = "window", !.old = 0]
    OBVIOUS
  <2>1. /\ worker'[w] = new /\ x.pc = "supersede" /\ new.pc = "window" /\ new.run = x.run
        /\ new.ver = x.ver /\ new.high = x.high /\ new.batch = x.batch
    BY <1>1, <1>3 DEF MarkSuperseded, At, Become, WorkerType
  <2>2. /\ DOMAIN audit' = DOMAIN audit /\ Len(audit)' = Len(audit)
        /\ audit' = [audit EXCEPT ![x.old].status = IF audit[x.old].status = "RUNNING" THEN "FAILED"
                                                    ELSE audit[x.old].status]
    BY <1>1, <1>3 DEF MarkSuperseded
  <2>3. ASSUME NEW n \in DOMAIN audit
        PROVE  /\ audit'[n].ver = audit[n].ver /\ audit'[n].low = audit[n].low
               /\ audit'[n].high = audit[n].high /\ audit'[n].batch = audit[n].batch
               /\ Unfinished(n)' <=> Unfinished(n)
               /\ audit'[n].status = "SUCCESS" => audit'[n] = audit[n]
    <3>1. CASE n = x.old
      <4> PICK a : a = audit[n]
        OBVIOUS
      <4>1. audit'[n] = [a EXCEPT !.status = IF a.status = "RUNNING" THEN "FAILED" ELSE a.status]
        BY <2>2, <3>1
      <4> QED BY <1>1, <4>1 DEF AuditType, Unfinished
    <3>2. CASE n # x.old
      <4>1. audit'[n] = audit[n]
        BY <2>2, <3>2
      <4> QED BY <4>1 DEF Unfinished
    <3> QED BY <3>1, <3>2
  <2>4. \A n \in DOMAIN audit : Proper(n)' <=> Proper(n)
    BY <1>1, <2>3 DEF Proper
  <2>5. Lone(worker[w])'
    BY <1>1, <2>1, <2>2, <2>3, <2>4 DEF Lone
  <2>6. \A n \in Successes' : n \in Successes /\ audit'[n] = audit[n]
    BY <2>2, <2>3 DEF Successes
  <2> QED BY <1>1, <2>2, <2>3, <2>5, <2>6, LoneStep DEF KeptLone
<1>4. ASSUME ~At(w, "idle"), NEW status \in {"NO_DATA", "FAILED"}, Complete(w, status)
      PROVE  KeptLone
  <2>1. worker'[w] = Idle /\ Idle.pc = "idle"
    BY <1>1, <1>4, NullTypes DEF Complete, Become
  <2>2. /\ x.run \in DOMAIN audit /\ audit[x.run].status \in {"RUNNING", "FAILED"}
        /\ DOMAIN audit' = DOMAIN audit
        /\ audit' = [audit EXCEPT ![x.run] = [audit[x.run] EXCEPT !.status = status, !.rows = 0]]
    BY <1>1, <1>4, OwnRecord DEF Complete, LoneInv
  <2>3. ASSUME NEW n \in DOMAIN audit
        PROVE  /\ audit'[n].ver = audit[n].ver /\ audit'[n].low = audit[n].low
               /\ audit'[n].high = audit[n].high /\ audit'[n].batch = audit[n].batch
               /\ Unfinished(n)' => Unfinished(n)
               /\ audit'[n].status = "SUCCESS" => audit'[n] = audit[n]
    <3>1. CASE n = x.run
      <4> PICK a : a = audit[n]
        OBVIOUS
      <4>1. audit'[n] = [a EXCEPT !.status = status, !.rows = 0]
        BY <2>2, <3>1
      <4> QED BY <1>1, <1>4, <2>2, <3>1, <4>1 DEF AuditType, Unfinished
    <3>2. CASE n # x.run
      <4>1. audit'[n] = audit[n]
        BY <2>2, <3>2
      <4> QED BY <4>1 DEF Unfinished
    <3> QED BY <3>1, <3>2
  <2>4. Lone(worker[w])'
    BY <2>1 DEF Lone
  <2>5. \A n \in Successes' : n \in Successes /\ audit'[n] = audit[n]
    BY <2>2, <2>3 DEF Successes
  <2> QED BY <1>1, <2>2, <2>3, <2>4, <2>5, LoneStep DEF KeptLone
<1> QED BY <1>2, <1>3, <1>4

(* The window goes into the last record: it is that of the attempts before *)
(* it.                                                                     *)
LEMMA LoneWindow ==
  ASSUME OneWorker, LoneInv, NEW w \in Workers, UpdateWindow(w) PROVE KeptLone
<1> PICK x : x = worker[w]
  OBVIOUS
<1> PICK i : i = x.run
  OBVIOUS
<1>1. /\ x \in WorkerType /\ Sound(x) /\ Lone(x) /\ worker \in [Workers -> WorkerType]
      /\ UNCHANGED <<state, landing>> /\ x.pc = "window" /\ ~At(w, "idle")
      /\ DOMAIN audit = 1..Len(audit) /\ Len(audit) \in Nat /\ audit \in Seq(AuditType)
      /\ \A n \in DOMAIN audit : audit[n] \in AuditType
  BY LoneFacts DEF UpdateWindow, At
<1>2. i = Len(audit) /\ x.ver = state.ver /\ x.low = state.wm /\ i \in DOMAIN audit
      /\ audit[i].status # "SUCCESS"
  <2>1. x.ver = state.ver /\ x.low = state.wm
    BY <1>1 DEF Lone, Sound, Knows
  <2> QED BY <1>1, <2>1, OwnRecord DEF Lone, LoneInv
<1>3. \E step \in {"extract", "nodata"} : Goto(w, step)
  BY DEF UpdateWindow
<1>4. /\ worker'[w].pc \in {"extract", "nodata"} /\ worker'[w].ver = x.ver /\ worker'[w].run = i
  BY <1>1, <1>3 DEF Goto, Become, WorkerType
<1>5. /\ DOMAIN audit' = DOMAIN audit /\ Len(audit)' = Len(audit)
      /\ \A n \in DOMAIN audit \ {i} : audit'[n] = audit[n]
      /\ audit'[i].ver = x.ver /\ audit'[i].low = x.low /\ audit'[i].high = x.high
      /\ audit'[i].batch = x.batch /\ audit'[i].status = audit[i].status
  <2> PICK rec : rec = [audit[i] EXCEPT !.ver = x.ver, !.low = x.low, !.high = x.high,
                                        !.batch = x.batch]
    OBVIOUS
  <2>1. audit' = [audit EXCEPT ![i] = rec]
    BY DEF UpdateWindow
  <2>2. /\ rec \in AuditType /\ rec.ver = x.ver /\ rec.low = x.low /\ rec.high = x.high
        /\ rec.batch = x.batch /\ rec.status = audit[i].status
    BY <1>1, <1>2 DEF AuditType, WorkerType
  <2>3. Replaced(i, rec)
    BY <1>1, <1>2, <2>1, <2>2, ReplaceRecord
  <2>4. DOMAIN audit' = DOMAIN audit /\ Len(audit)' = Len(audit)
    BY <1>1, <2>1
  <2> QED BY <2>2, <2>3, <2>4 DEF Replaced
<1>6. ASSUME NEW n \in DOMAIN audit, n # i
      PROVE  (Proper(n)' <=> Proper(n)) /\ (Unfinished(n)' <=> Unfinished(n))
  BY <1>1, <1>5, <1>6 DEF Proper, Unfinished
<1>7. ASSUME NEW m \in DOMAIN audit, Proper(m)
      PROVE  /\ audit[m].high = x.high /\ audit[m].batch = x.batch /\ Less(x.low, x.high)
  <2>1. audit[m].high = x.high /\ audit[m].batch = x.batch
    BY <1>1, <1>7 DEF Lone
  <2>2. Knows(audit[m].ver, audit[m].low)
    BY <1>7 DEF Proper, Unfinished, LoneInv, WInv, RecordsSound, RecordSound
  <2>3. audit[m].low = x.low
    BY <1>2, <1>7, <2>2 DEF Proper, Knows
  <2> QED BY <1>7, <2>1, <2>3 DEF Proper
<1>8. ASSUME NEW m \in DOMAIN audit, NEW n \in DOMAIN audit, m < n, Proper(m)', Unfinished(n)'
      PROVE  Proper(n)'
  <2>1. m # i
    BY <1>1, <1>2, <1>8
  <2>2. Proper(m)
    BY <1>6, <1>8, <2>1
  <2>3. CASE n = i
    BY <1>1, <1>2, <1>5, <1>7, <1>8, <2>2, <2>3 DEF Proper
  <2>4. CASE n # i
    BY <1>6, <1>8, <2>2, <2>4 DEF LoneInv, LaterProper
  <2> QED BY <2>3, <2>4
<1>9. ASSUME NEW m \in DOMAIN audit, Proper(m)'
      PROVE  audit'[m].high = x.high /\ audit'[m].batch = x.batch
  <2>1. CASE m = i
    BY <1>5, <2>1
  <2>2. CASE m # i
    BY <1>5, <1>6, <1>7, <1>9, <2>2
  <2> QED BY <2>1, <2>2
<1>10. LaterProper'
  BY <1>5, <1>8 DEF LaterProper
<1>11. OneWindow'
  BY <1>5, <1>9 DEF OneWindow
<1>12. CommittedLanded'
  <2>1. \A n \in Successes' : n \in Successes /\ audit'[n] = audit[n]
    BY <1>2, <1>5 DEF Successes
  <2> QED BY <1>1, <2>1 DEF LoneInv, CommittedLanded
<1>13. Lone(worker[w])'
  BY <1>1, <1>2, <1>4, <1>5 DEF Lone
<1> QED BY <1>10, <1>11, <1>12, <1>13 DEF KeptLone, OneWorker

(* The file of a window that is still ahead of the watermark is not that   *)
(* of a committed one.                                                     *)
LEMMA LoneLands ==
  ASSUME OneWorker, LoneInv, NEW w \in Workers, WriteLanding(w)
  PROVE  /\ KeptLone
         /\ worker[w].batch \in Batches /\ Less(state.wm, worker[w].batch[2])
         /\ landing' = [landing EXCEPT ![worker[w].batch] = worker[w].rows]
         /\ landing \in [Batches -> SUBSET Cursors]
<1> PICK x : x = worker[w]
  OBVIOUS
<1> PICK new : new = [x EXCEPT !.pc = "verify"]
  OBVIOUS
<1>1. /\ x \in WorkerType /\ Sound(x) /\ Lone(x) /\ worker \in [Workers -> WorkerType]
      /\ UNCHANGED <<state, audit>> /\ x.pc = "land" /\ worker'[w] = new
      /\ landing' = [landing EXCEPT ![x.batch] = x.rows]
      /\ landing \in [Batches -> SUBSET Cursors] /\ state.wm \in Cursors
  BY LoneFacts DEF WriteLanding, At, Goto, Become, LoneInv, WInv, TypeOK
<1>2. /\ new.pc = "verify" /\ new.ver = x.ver /\ new.run = x.run /\ new.rows = x.rows
      /\ new.low = x.low /\ new.high = x.high /\ new.batch = x.batch
  BY <1>1 DEF WorkerType
<1>3. /\ x.batch \in Batches /\ x.batch[2] = x.high /\ x.high \in Cursors
      /\ x.low = state.wm /\ Less(state.wm, x.high)
  BY <1>1 DEF Sound, Windowed, Extracting, Spans, Knows, Lone, WorkerType
<1>4. Lone(worker[w])'
  BY <1>1, <1>2, <1>3 DEF Lone
<1>5. LaterProper' /\ OneWindow'
  BY <1>1 DEF LoneInv, LaterProper, OneWindow, Proper, Unfinished
<1>6. CommittedLanded'
  <2>1. ASSUME NEW n \in Successes PROVE landing'[audit[n].batch] = landing[audit[n].batch]
    <3>1. AtMost(audit[n].high, state.wm) /\ audit[n].batch[2] = audit[n].high
      BY DEF LoneInv, CommittedLanded
    <3>2. audit[n].high \in Cursors
      BY LoneFacts DEF Successes, AuditType
    <3>3. audit[n].batch # x.batch
      BY <1>1, <1>3, <3>1, <3>2, Order
    <3> QED BY <1>1, <3>3
  <2>2. Successes' = Successes
    BY <1>1 DEF Successes
  <2> QED BY <1>1, <2>1, <2>2 DEF LoneInv, CommittedLanded
<1> QED BY <1>1, <1>3, <1>4, <1>5, <1>6 DEF KeptLone, OneWorker

LEMMA LoneCommits ==
  ASSUME OneWorker, LoneInv, NEW w \in Workers, Commit(w) PROVE KeptLone
<1> PICK x : x = worker[w]
  OBVIOUS
<1> PICK i : i = x.run
  OBVIOUS
<1>1. /\ x \in WorkerType /\ Sound(x) /\ Lone(x) /\ x.pc = "commit" /\ WInv
      /\ \A n \in DOMAIN audit : audit[n] \in AuditType
  BY LoneFacts DEF Commit, At
<1>2. /\ i \in DOMAIN audit /\ i \notin Successes
      /\ Moved(w, Idle) /\ UNCHANGED <<source, top, landing>>
      /\ x.low = state.wm /\ Less(state.wm, x.high) /\ x.batch[2] = x.high
      /\ state' = [wm |-> x.high, ver |-> state.ver + 1] /\ state.wm \in Cursors /\ state.ver \in Nat
  BY <1>1, CommitFacts, CommitRecord DEF WInv, TypeOK
<1>3. PICK rec : /\ Replaced(i, rec) /\ rec.status = "SUCCESS"
                 /\ rec.ver = state.ver /\ rec.low = state.wm
                 /\ rec.high = x.high /\ rec.batch = x.batch
  BY <1>1, CommitRecord
<1>4. rec.rows = Cardinality(x.rows)
  <2> PICK a : a = audit[i]
    OBVIOUS
  <2>1. audit' = [audit EXCEPT ![i] = [a EXCEPT !.status = "SUCCESS", !.rows = Cardinality(x.rows)]]
    BY DEF Commit
  <2>2. a \in AuditType
    BY <1>1, <1>2
  <2>3. audit'[i].rows = Cardinality(x.rows)
    BY <1>2, <2>1, <2>2 DEF AuditType
  <2> QED BY <1>3, <2>3 DEF Replaced
<1>5. ASSUME NEW n \in (DOMAIN audit)' PROVE ~Proper(n)'
  <2>1. CASE n = i
    BY <1>3, <2>1 DEF Proper, Unfinished, Replaced
  <2>2. CASE n # i
    <3>1. audit'[n] = audit[n] /\ n \in DOMAIN audit /\ audit[n] \in AuditType
      BY <1>1, <1>3, <2>2 DEF Replaced
    <3>2. audit[n].ver > 0 => audit[n].ver <= state.ver
      BY <1>1, <1>2, <3>1 DEF WInv, RecordsSound, RecordSound, Knows
    <3>3. audit[n].ver # state'.ver
      BY <1>2, <3>1, <3>2 DEF AuditType
    <3> QED BY <3>1, <3>3 DEF Proper
  <2> QED BY <2>1, <2>2
<1>6. LaterProper' /\ OneWindow'
  BY <1>5 DEF LaterProper, OneWindow
<1>7. CommittedLanded'
  <2> SUFFICES ASSUME NEW n \in Successes'
               PROVE  /\ AtMost(audit'[n].high, state'.wm) /\ audit'[n].batch[2] = audit'[n].high
                      /\ Cardinality(landing[audit'[n].batch]) = audit'[n].rows
                      /\ \A c \in landing[audit'[n].batch] :
                           Less(audit'[n].low, c) /\ AtMost(c, audit'[n].high)
    BY <1>2 DEF CommittedLanded
  <2>1. CASE n = i
    <3>1. audit'[n] = rec
      BY <1>3, <2>1 DEF Replaced
    <3>2. landing[x.batch] = x.rows /\ \A c \in x.rows : Less(x.low, c) /\ AtMost(c, x.high)
      BY <1>1 DEF Lone
    <3> QED BY <1>2, <1>3, <1>4, <3>1, <3>2 DEF AtMost
  <2>2. CASE n # i
    <3>1. n \in Successes /\ audit'[n] = audit[n] /\ audit[n].high \in Cursors
      BY <1>1, <1>3, <2>2 DEF Replaced, Successes, AuditType
    <3>2. AtMost(audit[n].high, state.wm)
      BY <3>1 DEF LoneInv, CommittedLanded
    <3>3. x.high \in Cursors
      BY <1>1 DEF WorkerType
    <3>4. AtMost(audit[n].high, x.high)
      BY <1>2, <3>1, <3>2, <3>3, Order
    <3> QED BY <1>2, <3>1, <3>4 DEF LoneInv, CommittedLanded
  <2> QED BY <2>1, <2>2
<1>8. Lone(worker[w])'
  BY <1>2, NullTypes DEF Moved, Lone
<1> QED BY <1>6, <1>7, <1>8 DEF KeptLone, OneWorker

LEMMA LoneInit == Init => LoneInv
<1> SUFFICES ASSUME Init
             PROVE  LaterProper /\ OneWindow /\ CommittedLanded /\ \A w \in Workers : Lone(worker[w])
  BY InitInv DEF LoneInv
<1>1. DOMAIN audit = {} /\ Successes = {}
  BY DEF Init, Successes
<1> QED BY <1>1, NullTypes DEF Init, LaterProper, OneWindow, CommittedLanded, Lone

LEMMA LoneNext == ASSUME OneWorker, LoneInv, [Next]_vars PROVE LoneInv'
<1> SUFFICES KeptLone
  BY NextInv DEF LoneInv, KeptLone
<1>1. CASE SourceStep \/ UNCHANGED vars
  <2>1. UNCHANGED <<state, audit, landing, worker>>
    BY <1>1 DEF SourceStep, Write, Delete, vars
  <2> QED BY <2>1 DEF KeptLone, LoneInv, LaterProper, OneWindow, CommittedLanded, Lone, Proper,
                      Unfinished, Successes
<1>2. ASSUME NEW w \in Workers, StartAudit(w) \/ Progress(w) \/ Raise(w) \/ Die(w) PROVE KeptLone
  <2>1. CASE ReadLow(w) \/ ReadCurrent(w) \/ Extract(w) \/ VerifyLanding(w) \/ Die(w)
    BY <2>1, LoneReads
  <2>2. CASE Recover(w) \/ NothingToRecover(w) \/ CaptureHigh(w)
    BY <2>2, LoneRecovers
  <2>3. CASE UpdateWindow(w) \/ WriteLanding(w) \/ Commit(w)
    BY <2>3, LoneWindow, LoneLands, LoneCommits
  <2>4. CASE NoData(w) \/ CountMismatch(w) \/ Conflict(w) \/ Raise(w) \/ StartAudit(w) \/ MarkSuperseded(w)
    <3>1. NoData(w) \/ CountMismatch(w) \/ Conflict(w) \/ Raise(w) =>
            ~At(w, "idle") /\ \E status \in {"NO_DATA", "FAILED"} : Complete(w, status)
      BY DEF NoData, CountMismatch, Conflict, Raise, At
    <3> QED BY <2>4, <3>1, LoneRecords
  <2> QED BY <1>2, <2>1, <2>2, <2>3, <2>4 DEF Progress
<1> QED BY <1>1, <1>2 DEF Next

LEMMA LoneWorker == OneWorker => (Spec => []LoneInv)
<1> SUFFICES ASSUME OneWorker PROVE Spec => []LoneInv
  OBVIOUS
<1>1. LoneInv /\ [Next]_vars => LoneInv'
  BY LoneNext
<1> QED BY <1>1, LoneInit, PTL DEF Spec

(* One worker at a time, dying anywhere: until one of them commits, all    *)
(* attempts at the current version that may be recovered are for one       *)
(* window with one batch_id, however far the source has moved on.          *)
THEOREM OneWindowEach == OneWorker => (Spec => []OneWindowPerVersion)
<1>1. LoneInv => OneWindowPerVersion
  BY DEF LoneInv, OneWindow, OneWindowPerVersion, Proper
<1> QED BY <1>1, LoneWorker, PTL

(* One worker at a time: the file of a committed batch keeps the audited   *)
(* number of rows, all of them inside the window.                          *)
THEOREM LandedIsAudited == OneWorker => (Spec => []LandedAsAudited)
<1>1. LoneInv => LandedAsAudited
  BY DEF LoneInv, CommittedLanded, LandedAsAudited
<1> QED BY <1>1, LoneWorker, PTL
-----------------------------------------------------------------------------
(* What the files of the windows passed by the watermark hold.             *)
Delivered == UNION {landing[b] : b \in {b \in Batches : AtMost(b[2], state.wm)}}

LEMMA DeliveredRows ==
  /\ \A c : c \in Delivered <=> \E b \in Batches : AtMost(b[2], state.wm) /\ c \in landing[b]
  /\ \A c : c \in Delivered' <=> \E b \in Batches : AtMost(b[2], state'.wm) /\ c \in landing'[b]
BY DEF Delivered

LoadVars == <<SourceRows, Delivered, state.wm>>

LEMMA LoadStays ==
  ASSUME UNCHANGED LoadVars PROVE UNCHANGED IncrementalLoad!vars
BY DEF LoadVars, Delivered, IncrementalLoad!vars

(* The source changes above the watermark.                                 *)
LEMMA ChangeStep ==
  ASSUME CInv, Ordered, SourceStep PROVE IncrementalLoad!Change
<1>1. /\ UNCHANGED <<state, landing>>
      /\ \A c \in SourceRows' : c \in Cursors /\ (c \in SourceRows \/ Less(top, c))
  <2>1. ASSUME NEW k \in Keys, Delete(k)
        PROVE  SourceRows' \subseteq SourceRows /\ UNCHANGED <<state, landing>>
    BY <2>1 DEF Delete, SourceRows, CInv, WInv, TypeOK
  <2>2. ASSUME NEW k \in Keys, NEW ts \in 1..LastCursor[1], Write(k, ts)
        PROVE  /\ SourceRows' \subseteq SourceRows \cup {<<ts, k>>}
               /\ <<ts, k>> \in Cursors /\ Less(top, <<ts, k>>) /\ UNCHANGED <<state, landing>>
    BY <2>2, WriteFacts DEF CInv
  <2>3. SourceRows \subseteq Cursors
    BY DEF CInv, WInv, SourceShown
  <2> QED BY <2>1, <2>2, <2>3 DEF SourceStep
<1>2. top \in Cursors /\ state.wm \in Cursors /\ AtMost(state.wm, top)
  BY DEF CInv, WInv, TypeOK, SourceShown
<1>3. \A c \in SourceRows' \ SourceRows : ~AtMost(c, state.wm)
  <2> SUFFICES ASSUME NEW c \in SourceRows' \ SourceRows PROVE ~AtMost(c, state.wm)
    OBVIOUS
  <2>1. c \in Cursors /\ Less(top, c)
    BY <1>1
  <2> QED BY <1>2, <2>1, Order
<1>4. Delivered' = Delivered
  BY <1>1 DEF Delivered
<1> QED BY <1>1, <1>3, <1>4 DEF IncrementalLoad!Change, Delivered

(* A commit passes the rows of its window, which its file has.             *)
LEMMA LoadCommit ==
  ASSUME CInv, LoneInv, NEW w \in Workers, Commit(w) PROVE IncrementalLoad!Load
<1> PICK x : x = worker[w]
  OBVIOUS
<1>1. /\ x.low = state.wm /\ Less(state.wm, x.high) /\ x.high \in Cursors /\ state.wm \in Cursors
      /\ state'.wm = x.high /\ UNCHANGED <<source, landing>> /\ SourceRows' = SourceRows
      /\ x.batch[1] = state.wm /\ x.batch[2] = x.high /\ x.batch \in Batches /\ Covers(x.batch)
  <2>1. x \in WorkerType /\ x.pc = "commit" /\ Sound(x) /\ Full(x)
    BY Busy DEF CInv, WorkersFull, Commit, At
  <2>2. x.batch \in Batches /\ Covers(x.batch) /\ x.high \in Cursors
    BY <2>1 DEF Sound, Windowed, Spans, Full, WorkerType
  <2>3. state.wm \in Cursors /\ UNCHANGED <<source, landing>>
    BY DEF CInv, WInv, TypeOK, Commit
  <2> QED BY <2>2, <2>3, CommitFacts DEF CInv, SourceRows
<1>2. AtMost(state.wm, state'.wm)
  BY <1>1, Order
<1>3. Delivered \subseteq Delivered'
  <2> SUFFICES ASSUME NEW b \in Batches, AtMost(b[2], state.wm) PROVE AtMost(b[2], state'.wm)
    BY <1>1, DeliveredRows
  <2>1. b[2] \in Cursors
    BY DEF Batches
  <2> QED BY <1>1, <1>2, <2>1, Order
<1>4. Delivered' \subseteq Cursors
  BY <1>1, DeliveredRows DEF CInv, WInv, TypeOK
<1>5. ASSUME NEW c \in SourceRows, AtMost(c, state'.wm) PROVE c \in Delivered'
  <2>1. c \in Cursors
    BY DEF CInv, WInv, SourceShown
  <2>2. CASE AtMost(c, state.wm)
    <3>1. PICK n \in Successes : Inside(audit[n].batch, c)
      BY <2>2 DEF CInv, Passed
    <3>2. Covers(audit[n].batch)
      BY DEF CInv, CommittedFull
    <3>3. audit[n].ver \in 1..(state.ver - 1) /\ RecordSound(audit[n])
      BY DEF CInv, WInv, Tiled, RecordsSound, Successes
    <3>4. audit[n].batch \in Batches /\ audit[n].batch[2] = audit[n].high
      BY <3>3 DEF RecordSound, Spans, CInv, WInv, TypeOK
    <3>5. AtMost(audit[n].high, state.wm)
      BY DEF LoneInv, CommittedLanded
    <3>6. c \in Delivered
      BY <3>1, <3>2, <3>4, <3>5, DeliveredRows DEF Covers
    <3> QED BY <1>3, <3>6
  <2>3. CASE Less(state.wm, c)
    <3>1. c \in landing'[x.batch]
      BY <1>1, <1>5, <2>3 DEF Covers, Inside
    <3> QED BY <1>1, <3>1, <1>2, DeliveredRows DEF AtMost
  <2> QED BY <1>1, <2>1, <2>2, <2>3, Order
<1> QED BY <1>1, <1>2, <1>3, <1>4, <1>5 DEF IncrementalLoad!Load, IncrementalLoad!Due, Delivered

LEMMA LoadStep ==
  ASSUME OneWorker, Ordered, CInv, LoneInv, [Next]_vars
  PROVE  [IncrementalLoad!Next]_(IncrementalLoad!vars)
<1>1. CASE SourceStep
  BY <1>1, ChangeStep DEF IncrementalLoad!Next
<1>2. ASSUME NEW w \in Workers, Commit(w) PROVE IncrementalLoad!Next
  BY <1>2, LoadCommit DEF IncrementalLoad!Next
<1>3. ASSUME NEW w \in Workers, WriteLanding(w) PROVE UNCHANGED IncrementalLoad!vars
  <2> PICK x : x = worker[w]
    OBVIOUS
  <2>1. /\ UNCHANGED <<source, state>> /\ SourceRows' = SourceRows
        /\ x.batch \in Batches /\ Less(state.wm, x.batch[2]) /\ state.wm \in Cursors
        /\ landing' = [landing EXCEPT ![x.batch] = x.rows] /\ landing \in [Batches -> SUBSET Cursors]
    BY <1>3, LoneLands DEF WriteLanding, SourceRows, CInv, WInv, TypeOK
  <2>2. \A b \in Batches : AtMost(b[2], state.wm) => landing'[b] = landing[b]
    <3> SUFFICES ASSUME NEW b \in Batches, AtMost(b[2], state.wm), b = x.batch PROVE FALSE
      BY <2>1
    <3>1. b[2] \in Cursors
      BY DEF Batches
    <3> QED BY <2>1, <3>1, Order
  <2>3. Delivered' = Delivered
    BY <2>1, <2>2, DeliveredRows
  <2> QED BY <2>1, <2>3, LoadStays DEF LoadVars
<1>4. CASE UNCHANGED <<source, state, landing>>
  BY <1>4, LoadStays DEF LoadVars, SourceRows, Delivered
<1> QED BY <1>1, <1>2, <1>3, <1>4 DEF Next, vars, StartAudit, Progress, Raise, Die, ReadLow,
   ReadCurrent,
       Recover, NothingToRecover, MarkSuperseded, CaptureHigh, UpdateWindow, Extract, NoData,
       VerifyLanding, CountMismatch, Conflict, Complete

LEMMA LoadInit == Init => IncrementalLoad!Init
<1> SUFFICES ASSUME Init PROVE IncrementalLoad!Init
  OBVIOUS
<1>1. SourceRows = {}
  BY DEF Init, SourceRows
<1>2. Delivered = {}
  BY DeliveredRows DEF Init
<1>3. state.wm = Initial
  BY DEF Init
<1> QED BY <1>1, <1>2, <1>3, CursorType DEF IncrementalLoad!Init, Delivered

(* One worker at a time, on a source whose rows become visible in the      *)
(* order of their cursors: the extraction is an incremental load, wherever *)
(* its runs die.  The files of the windows passed by the watermark never   *)
(* lose a row, and the watermark only passes what one of them has.         *)
THEOREM WatermarkIsLoad == OneWorker /\ Ordered => (Spec => ImplementsLoad)
<1> SUFFICES ASSUME OneWorker, Ordered PROVE Spec => ImplementsLoad
  OBVIOUS
<1>1. CInv /\ LoneInv /\ [Next]_vars => [IncrementalLoad!Next]_(IncrementalLoad!vars)
  BY LoadStep
<1> QED BY <1>1, LoadInit, LoneWorker, CoveredInvariant, PTL
        DEF Spec, ImplementsLoad, IncrementalLoad!Spec
=============================================================================
