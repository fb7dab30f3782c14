-------------------------- MODULE MCMergePipeline --------------------------
(***************************************************************************)
(* Instances of MergePipeline for TLC: two tables, two keys in the first   *)
(* and one in the second, and processing sets that between them hold every *)
(* classification of the ledger matrix.                                    *)
(***************************************************************************)
EXTENDS MergePipeline

MCKeys == {"k1", "k2", "k3"}
MCTables == {1, 2}
MCTableOf == [k \in MCKeys |-> IF k = "k3" THEN 2 ELSE 1]
MCSnapshotKeys == {"k2", "k3"}

Ev(id, fp, key, seq, op) == [id |-> id, fp |-> fp, key |-> key, seq |-> seq, op |-> op]

a1 == Ev("a1", "f", "k1", 1, "INSERT")
a2 == Ev("a2", "f", "k1", 2, "UPDATE")
a3 == Ev("a3", "f", "k1", 3, "DELETE")
b2 == Ev("b2", "f", "k2", 2, "DELETE")
c1 == Ev("c1", "f", "k3", 1, "UPDATE")
c2 == Ev("c2", "f", "k3", 2, "UPDATE")

\* stale against b2 (a resurrection attempt), equal or stale against a2 and a3
b1 == Ev("b1", "f", "k2", 1, "UPDATE")
x2 == Ev("x2", "f", "k1", 2, "UPDATE")
\* event_ids a1 and b2 again, with another fingerprint and an image without a
\* column that must have a value; x2 is merged in the wave of the second
a1Forged == Ev("a1", "g", "k1", 1, "INSERT")
b2Forged == Ev("b2", "g", "k2", 2, "DELETE")
\* same key and sequence as c2
y2 == Ev("y2", "f", "k3", 2, "UPDATE")
\* an operation spelt in lower case
low == Ev("low", "f", "k1", 4, "insert")

Set(p, batch) == [proc |-> p, batch |-> batch]
IdsOf(E) == {e.id : e \in E}

\* Content-addressed sets: one batch per processing_id.
MCSubmissions ==
  {Set("p1", {a1, a2, b2, c1}), Set("p2", {a2, a3, c2}),
   Set("p3", {b1, x2}), Set("p4", {a1Forged}), Set("p5", {c2, y2}),
   Set("p6", {x2, b2Forged})}
MCUnconvertible == {a1Forged, b2Forged}
MCEvents == UNION {s.batch : s \in MCSubmissions}
MCEventIds == IdsOf(MCEvents)

\* A slow run and the retry of the same processing set.
RetrySubmissions == {Set("p1", {a1, a2})}
RetryEvents == UNION {s.batch : s \in RetrySubmissions}
RetryEventIds == IdsOf(RetryEvents)

\* An accepted event whose operation is spelt in lower case.
LowerSubmissions == {Set("p1", {a1}), Set("p2", {low})}
LowerEvents == UNION {s.batch : s \in LowerSubmissions}
LowerEventIds == IdsOf(LowerEvents)
=============================================================================
