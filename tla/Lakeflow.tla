------------------------------ MODULE Lakeflow ------------------------------
(***************************************************************************)
(* The Lakeflow pipeline (databricks/lakeflow): for every table a flow     *)
(* that hydrates the current-state table once from the snapshot and a      *)
(* flow that streams the accepted files of all processing sets into it.    *)
(* Both are declared here and run by the engine, side by side: Auto Loader *)
(* gives each stream every file once, in micro-batches of its own, and     *)
(* AUTO CDC keeps the row with the highest sequence_number of a key and,   *)
(* for a while, a tombstone of a deleted one.                              *)
(*                                                                         *)
(* An accepted file is replaced by equal bytes only, unless its run read   *)
(* other bytes than it had hashed (Normalization!OutputsDetermined); here  *)
(* it is written once.                                                     *)
(***************************************************************************)
EXTENDS Naturals, FiniteSets

CONSTANTS
  Tables,       \* TABLE_CDC_SPECS; the primary key column of a table is named after it
  Keys, TableOf, \* primary keys, and the table of each
  Values,       \* values of the business columns
  Null,         \* no value
  Files,        \* accepted files: [path, lines]
  Backlog,      \* those that are there when the pipeline is deployed
  SnapshotKeys, \* keys with a row in snapshot.parquet
  Bootstrap,    \* the business columns of such a row
  NoRow,        \* the absence of a target row
  MaxLong       \* largest value of Spark's LongType

(* payload, before_payload and business_key, by primary key column: the    *)
(* payload of a subscription holds the account_id as well.  That the       *)
(* operations are spelt in upper case is assumed of the source: the        *)
(* normalizer takes any spelling, and apply_as_deletes compares with       *)
(* 'DELETE'.                                                               *)
Images == [Tables -> Keys \cup {Null}]
Lines == [table : Tables, op : {"INSERT", "UPDATE", "DELETE"}, seq : 1..MaxLong,
          after : Images, before : Images, key : Images, value : Values \cup {Null}]

(* What the normalizer lets through (Normalization!AcceptedKeyed): a       *)
(* business_key, repeated by the after-image of what is inserted or        *)
(* updated, and by the before-image of what is updated or deleted; nothing *)
(* after a deletion.  The before-image of an INSERT may hold anything.     *)
WellFormed(x) ==
  LET k == x.key[x.table]
  IN /\ k \in Keys /\ TableOf[k] = x.table
     /\ IF x.op = "DELETE" THEN \A t \in Tables : x.after[t] = Null ELSE x.after[x.table] = k
     /\ x.op # "INSERT" => x.before[x.table] = k

ASSUME FileAssumption ==
  /\ TableOf \in [Keys -> Tables] /\ SnapshotKeys \subseteq Keys
  /\ Backlog \subseteq Files
  /\ \A f \in Files : f.lines \subseteq Lines /\ \A x \in f.lines : WellFormed(x)
  /\ \A f, g \in Files : f.path = g.path => f = g
  /\ MaxLong \in Nat /\ Null \notin Keys

VARIABLES
  landed,   \* accepted files in the volume
  read,     \* read[t]: files the continuous flow of table t has taken in
  hydrated, \* tables whose once-only flow has run
  current   \* current[k]: row or tombstone of key k, or NoRow

vars == <<landed, read, hydrated, current>>

Row == [value : Values \cup {Null, Bootstrap}, seq : 0..MaxLong, deleted : BOOLEAN]

ASSUME NullAssumption == NoRow \notin Row

Init ==
  /\ landed = Backlog
  /\ read = [t \in Tables |-> {}]
  /\ hydrated = {}
  /\ current = [k \in Keys |-> NoRow]

Land(f) ==
  /\ f \notin landed
  /\ landed' = landed \cup {f}
  /\ UNCHANGED <<read, hydrated, current>>
-----------------------------------------------------------------------------
(* The projections.                                                        *)

\* Mutant: the primary key is taken from the payload.
PrimaryKeyPayload(t, x) == x.after[t]

\* coalesce(payload.pk, before_payload.pk, business_key.pk)
PrimaryKey(t, x) ==
  IF x.after[t] # Null THEN x.after[t]
  ELSE IF x.before[t] # Null THEN x.before[t] ELSE x.key[t]

\* Mutant: the files are not filtered by table.
OfTableAll(t, x) == TRUE
OfTable(t, x) == x.table = t

CdcRows(t, S) ==
  {[key |-> PrimaryKey(t, x), op |-> x.op, seq |-> x.seq, value |-> x.value] :
     x \in {x \in UNION {f.lines : f \in S} : OfTable(t, x) /\ PrimaryKey(t, x) # Null}}

\* Mutant: the snapshot rows have a sequence number of an event.
SnapshotRowsLate(t) ==
  {[key |-> k, op |-> "SNAPSHOT", seq |-> 1, value |-> Bootstrap] :
     k \in {k \in SnapshotKeys : TableOf[k] = t}}

SnapshotRows(t) ==
  {[key |-> k, op |-> "SNAPSHOT", seq |-> 0, value |-> Bootstrap] :
     k \in {k \in SnapshotKeys : TableOf[k] = t}}

\* Mutant: without cloudFiles.includeExistingFiles.
ToReadNew(t) == landed \ (read[t] \cup Backlog)

\* Mutant: the glob takes the temporary files of the writer for accepted ones.
ToReadTemporary(t) == Files \ read[t]

\* A path is given to each stream once; files found at the start count.
ToRead(t) == landed \ read[t]
-----------------------------------------------------------------------------
(* AUTO CDC, as the flows use it: keys, sequence_by, apply_as_deletes,     *)
(* SCD type 1, nulls not ignored.  Of rows with one key and sequence       *)
(* number any may win.                                                     *)

\* Mutant: ignore_null_updates.
StoredIgnoring(r, old) ==
  [value |-> IF r.value = Null /\ old # NoRow THEN old.value ELSE r.value,
   seq |-> r.seq, deleted |-> r.op = "DELETE"]

Stored(r, old) == [value |-> r.value, seq |-> r.seq, deleted |-> r.op = "DELETE"]

Latest(R) == {r \in R : \A s \in R : s.seq <= r.seq}
Outcomes(k, R) ==
  LET on == Latest({r \in R : r.key = k})
      new == {Stored(r, current[k]) : r \in on}
  IN IF current[k] = NoRow THEN IF on = {} THEN {NoRow} ELSE new
     ELSE {n \in new : n.seq >= current[k].seq}
          \cup IF \A n \in new : n.seq <= current[k].seq THEN {current[k]} ELSE {}

Merge(R) ==
  current' \in {c \in [Keys -> UNION {Outcomes(k, R) : k \in Keys}] :
                  \A k \in Keys : c[k] \in Outcomes(k, R)}

(* The flow with once=True.                                                *)
Hydrate(t) ==
  /\ t \notin hydrated
  /\ Merge(SnapshotRows(t))
  /\ hydrated' = hydrated \cup {t}
  /\ UNCHANGED <<landed, read>>

(* A micro-batch of the continuous flow; its checkpoint and the target     *)
(* move together.                                                          *)
Ingest(t) ==
  /\ \E S \in (SUBSET ToRead(t)) \ {{}} :
       /\ Merge(CdcRows(t, S))
       /\ read' = [read EXCEPT ![t] = @ \cup S]
  /\ UNCHANGED <<landed, hydrated>>

\* Mutant: tombstones are not kept.
LaggingNot(k) == FALSE

(* tombstone_gc_threshold_seconds "must exceed max event lag": a tombstone *)
(* outlives every older row of its key that is still to come, from any     *)
(* file, be it a copy of one that was read, and from the snapshot.         *)
Lagging(k) ==
  \/ k \in SnapshotKeys /\ TableOf[k] \notin hydrated
  \/ \E f \in Files \ read[TableOf[k]] : \E x \in f.lines :
       x.key[TableOf[k]] = k /\ x.seq < current[k].seq

CollectTombstone(k) ==
  /\ current[k] # NoRow /\ current[k].deleted
  /\ ~Lagging(k)
  /\ current' = [current EXCEPT ![k] = NoRow]
  /\ UNCHANGED <<landed, read, hydrated>>
-----------------------------------------------------------------------------
Next ==
  \/ \E f \in Files : Land(f)
  \/ \E t \in Tables : Hydrate(t) \/ Ingest(t)
  \/ \E k \in Keys : CollectTombstone(k)

(* The engine keeps every declared flow running.                           *)
Spec == Init /\ [][Next]_vars
Fairness == \A t \in Tables : WF_vars(Hydrate(t)) /\ WF_vars(Ingest(t))
LiveSpec == Spec /\ Fairness
-----------------------------------------------------------------------------
(* Type invariant. *)
TypeOK ==
  /\ landed \subseteq Files
  /\ read \in [Tables -> SUBSET landed]
  /\ hydrated \subseteq Tables
  /\ current \in [Keys -> Row \cup {NoRow}]

(* What a reader sees of a key is the effect of the line with the highest  *)
(* sequence number, said of the lines themselves: their business_key, and  *)
(* whether they delete.                                                    *)
Visible(k) == IF current[k] = NoRow \/ (current[k] # NoRow /\ current[k].deleted)
              THEN NoRow ELSE current[k].value
EffectOf(x) == IF x.op = "DELETE" THEN NoRow ELSE x.value
LinesOn(k, S) == {x \in UNION {f.lines : f \in S} : x.table = TableOf[k] /\ x.key[x.table] = k}

Effects(k, S, loaded) ==
  IF LinesOn(k, S) # {} THEN {EffectOf(x) : x \in Latest(LinesOn(k, S))}
  ELSE IF loaded /\ k \in SnapshotKeys THEN {Bootstrap} ELSE {NoRow}

(* At any moment, the current-state table is what the files taken in and   *)
(* the snapshot, if it was, should give, in whatever micro-batches and     *)
(* order they came, whether hydration ran first, last or between, and      *)
(* whichever tombstones have been dropped.                                 *)
CurrentIsLatest ==
  \A k \in Keys : Visible(k) \in Effects(k, read[TableOf[k]], TableOf[k] \in hydrated)

(* And in the end it is what the snapshot and all the files in the volume  *)
(* give, those of before the deployment included: the state the MERGE      *)
(* pipeline reaches from the same files (Platform!GroupingIndependent).    *)
Converges ==
  <>[](\A k \in Keys : Visible(k) \in Effects(k, landed, TRUE))
=============================================================================
