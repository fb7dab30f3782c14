---------------------------- MODULE CurrentState ----------------------------
(***************************************************************************)
(* What the platform promises about current state: the source mutation     *)
(* engine (src/source/mutation_engine.py), the oracle that the Delta       *)
(* targets are reconciled against.  The engine is built from the snapshot  *)
(* (every table loaded once, at sequence 0); afterwards an event whose     *)
(* event_id is new takes effect on its key exactly when its sequence       *)
(* number exceeds every earlier one of the key, an INSERT or UPDATE        *)
(* replacing the row's payload and a DELETE removing the row.  So rows[k]  *)
(* is always the payload of the event with the highest sequence number     *)
(* among those accepted for k.  A payload is the event it came with: the   *)
(* updated_at that an UPDATE without one is given is not told apart.       *)
(***************************************************************************)
EXTENDS Naturals

CONSTANTS
  Keys,           \* business keys, of all tables
  Tables,         \* current-state tables
  TableOf,        \* the table of each key
  Events,         \* CDC events: [id, fp, key, seq, op]
  SnapshotKeys,   \* keys with a row in the initial snapshot
  SnapshotRow,    \* the payload of a snapshot row
  NoRow           \* the absence of a row

VARIABLES
  loaded,         \* tables load_snapshot has filled
  rows,           \* active payload of each key, or NoRow
  maxSeq,         \* _entity_sequences: highest sequence applied to each key
  seen            \* _seen_event_ids

vars == <<loaded, rows, maxSeq, seen>>

Init ==
  /\ loaded = {}
  /\ rows = [k \in Keys |-> NoRow]
  /\ maxSeq = [k \in Keys |-> 0]
  /\ seen = {}

(* load_snapshot: one table replaced by its snapshot rows, at sequence 0.  *)
(* The engine may load one again; here it is done once.                    *)
LoadTable(t) ==
  /\ t \in Tables \ loaded
  /\ loaded' = loaded \cup {t}
  /\ rows' = [k \in Keys |-> IF TableOf[k] # t THEN rows[k]
                             ELSE IF k \in SnapshotKeys THEN SnapshotRow ELSE NoRow]
  /\ maxSeq' = [k \in Keys |-> IF TableOf[k] = t THEN 0 ELSE maxSeq[k]]
  /\ UNCHANGED seen

Effect(e) == IF e.op = "DELETE" THEN NoRow ELSE e

New == {e \in Events : e.id \notin seen /\ TableOf[e.key] \in loaded}
Newer == {e \in New : maxSeq[e.key] < e.seq}

(* apply_event, for a set of events on distinct keys of loaded tables:     *)
(* such events commute, so a whole wave may take effect at once.           *)
ApplyEvents(S) ==
  /\ S # {} /\ S \subseteq Newer
  /\ \A e, f \in S : e.key = f.key \/ e.id = f.id => e = f
  /\ rows' = [k \in Keys |-> IF \E e \in S : e.key = k
                             THEN Effect(CHOOSE e \in S : e.key = k) ELSE rows[k]]
  /\ maxSeq' = [k \in Keys |-> IF \E e \in S : e.key = k
                               THEN (CHOOSE e \in S : e.key = k).seq ELSE maxSeq[k]]
  /\ seen' = seen \cup {e.id : e \in S}
  /\ UNCHANGED loaded

(* A stale event is only remembered.                                       *)
IgnoreStale(e) ==
  /\ e \in New \ Newer
  /\ seen' = seen \cup {e.id}
  /\ UNCHANGED <<loaded, rows, maxSeq>>

Next == \/ \E t \in Tables : LoadTable(t)
        \/ \E S \in SUBSET Newer : ApplyEvents(S)
        \/ \E e \in Events : IgnoreStale(e)

Spec == Init /\ [][Next]_vars
=============================================================================
