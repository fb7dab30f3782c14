--------------------------- MODULE LakeflowProofs ---------------------------
(***************************************************************************)
(* The current-state tables of the Lakeflow pipeline, for any tables,      *)
(* files and micro-batches: whatever order the flows take the files in,    *)
(* a table is what its files say, and dropping tombstones does not show.   *)
(***************************************************************************)
EXTENDS Lakeflow, TLAPS, WellFoundedInduction

-----------------------------------------------------------------------------
(* Sequence numbers are bounded, so that a set of them has a highest one.  *)
LEMMA HighestExists ==
  ASSUME NEW N, N # {}, \A x \in N : x.seq \in 1..MaxLong
  PROVE  \E x \in N : \A y \in N : y.seq <= x.seq
<1> DEFINE R == OpToRel(<, Nat)
           T == {MaxLong - x.seq : x \in N}
<1>1. MaxLong \in Nat
  BY FileAssumption
<1>2. T \subseteq Nat /\ T # {}
  BY <1>1
<1>3. \A x, y \in Nat : x < y => <<x, y>> \in R
  BY DEF OpToRel
<1>4. IsWellFoundedOn(R, Nat)
  BY NatLessThanWellFounded
<1> HIDE DEF R
<1>5. PICK n \in T : \A m \in T : ~(<<m, n>> \in R)
  <2> HIDE DEF T
  <2> QED BY <1>2, <1>4, WFMin
<1>6. PICK x \in N : n = MaxLong - x.seq
  OBVIOUS
<1>7. ASSUME NEW y \in N PROVE y.seq <= x.seq
  <2>1. ~(MaxLong - y.seq < MaxLong - x.seq)
    BY <1>2, <1>3, <1>5, <1>6
  <2> QED BY <1>1, <2>1
<1> QED BY <1>7

(* What a flow reads of a line is what the line says: its projection gives *)
(* the business_key, whichever image it is taken from.                     *)
LEMMA Projection ==
  ASSUME NEW t \in Tables, NEW x \in Lines, WellFormed(x), x.table = t
  PROVE  PrimaryKey(t, x) = x.key[t] /\ x.key[t] \in Keys /\ TableOf[x.key[t]] = t
BY FileAssumption DEF WellFormed, PrimaryKey

RowOf(x, k) == [key |-> k, op |-> x.op, seq |-> x.seq, value |-> x.value]

LEMMA RowsOf ==
  ASSUME NEW t \in Tables, NEW S \in SUBSET Files, NEW k \in Keys
  PROVE  {r \in CdcRows(t, S) : r.key = k}
           = IF TableOf[k] = t THEN {RowOf(x, k) : x \in LinesOn(k, S)} ELSE {}
<1> DEFINE X == UNION {f.lines : f \in S}
<1>1. \A x \in X : x \in Lines /\ WellFormed(x)
  BY FileAssumption
<1>2. \A r : r \in CdcRows(t, S) <=> \E x \in X : /\ x.table = t /\ PrimaryKey(t, x) # Null
                                                  /\ r = RowOf(x, PrimaryKey(t, x))
  BY DEF CdcRows, OfTable, RowOf
<1>3. \A x : x \in LinesOn(k, S) <=> x \in X /\ x.table = TableOf[k] /\ x.key[x.table] = k
  BY DEF LinesOn
<1> HIDE DEF X
<1>4. \A x \in X : x.table = t => /\ PrimaryKey(t, x) = x.key[t] /\ x.key[t] \in Keys
                                  /\ x.key[t] # Null /\ TableOf[x.key[t]] = t
  BY <1>1, Projection, FileAssumption
<1>5. \A x : RowOf(x, k).key = k
  BY DEF RowOf
<1>6. \A x \in X : RowOf(x, PrimaryKey(t, x)).key = PrimaryKey(t, x)
  BY DEF RowOf
<1>7. ASSUME NEW r \in CdcRows(t, S), r.key = k
      PROVE  TableOf[k] = t /\ \E x \in LinesOn(k, S) : r = RowOf(x, k)
  BY <1>2, <1>3, <1>4, <1>6, <1>7
<1>8. ASSUME TableOf[k] = t, NEW x \in LinesOn(k, S)
      PROVE  RowOf(x, k) \in CdcRows(t, S) /\ RowOf(x, k).key = k
  BY <1>2, <1>3, <1>4, <1>5, <1>8
<1> QED BY <1>7, <1>8

(* What the lines on a key are.                                            *)
LEMMA LinesTyped ==
  ASSUME NEW k \in Keys, NEW S \in SUBSET Files
  PROVE  \A x \in LinesOn(k, S) :
           x \in Lines /\ x.seq \in 1..MaxLong /\ x.value \in Values \cup {Null}
BY FileAssumption DEF LinesOn, Lines

LEMMA LinesAdd ==
  ASSUME NEW k, NEW S, NEW T PROVE LinesOn(k, S \cup T) = LinesOn(k, S) \cup LinesOn(k, T)
BY DEF LinesOn
-----------------------------------------------------------------------------
(* The inductive invariant.  A row is of the highest line taken in, or of  *)
(* the snapshot if there is none; a key without a row has had nothing, or  *)
(* a tombstone that no line still to come can get behind.                  *)
TakenIn(k) == LinesOn(k, read[TableOf[k]])
Seeded(k) == k \in SnapshotKeys /\ TableOf[k] \in hydrated

RowFor(x) == [value |-> x.value, seq |-> x.seq, deleted |-> x.op = "DELETE"]
SnapshotRow == [value |-> Bootstrap, seq |-> 0, deleted |-> FALSE]

LEMMA RowDeleted ==
  ASSUME NEW x PROVE RowFor(x).deleted <=> x.op = "DELETE"
<1>1. RowFor(x).deleted = (x.op = "DELETE")
  BY Zenon DEF RowFor
<1> QED BY <1>1, Zenon

Holds(k, N, row, seeded) ==
  /\ row # NoRow
  /\ \A x \in N : x.seq <= row.seq
  /\ (\E x \in N : row = RowFor(x)) \/ (seeded /\ row = SnapshotRow)

Untouched(k) == current[k] = NoRow /\ TakenIn(k) = {} /\ ~Seeded(k)

Collected(k) ==
  /\ current[k] = NoRow /\ (k \in SnapshotKeys => TableOf[k] \in hydrated)
  /\ \E d \in TakenIn(k) :
       /\ d.op = "DELETE" /\ \A x \in TakenIn(k) : x.seq <= d.seq
       /\ \A x \in LinesOn(k, Files \ read[TableOf[k]]) : d.seq <= x.seq

Reflects(k) ==
  Untouched(k) \/ Collected(k) \/ Holds(k, TakenIn(k), current[k], Seeded(k))

IInv == TypeOK /\ \A k \in Keys : Reflects(k)

LEMMA ReflectsLatest == IInv => CurrentIsLatest
<1> SUFFICES ASSUME IInv, NEW k \in Keys
             PROVE  Visible(k) \in Effects(k, read[TableOf[k]], TableOf[k] \in hydrated)
  BY DEF CurrentIsLatest
<1> DEFINE L == TakenIn(k)
<1>1. \A x \in L : x.seq \in 1..MaxLong
  BY LinesTyped, FileAssumption DEF IInv, TypeOK, TakenIn
<1>2. L = LinesOn(k, read[TableOf[k]])
  BY DEF TakenIn
<1>3. CASE Untouched(k)
  BY <1>2, <1>3 DEF Untouched, Visible, Effects, Seeded
<1>4. CASE Collected(k)
  <2>1. PICK d \in L : d.op = "DELETE" /\ \A x \in L : x.seq <= d.seq
    BY <1>4 DEF Collected
  <2>2. d \in Latest(L) /\ EffectOf(d) = NoRow
    BY <2>1 DEF Latest, EffectOf
  <2> QED BY <1>2, <1>4, <2>1, <2>2 DEF Collected, Visible, Effects
<1>5. CASE Holds(k, L, current[k], Seeded(k))
  <2>1. CASE \E x \in L : current[k] = RowFor(x)
    <3>1. PICK x \in L : current[k] = RowFor(x)
      BY <2>1
    <3>2. x \in Latest(L)
      BY <1>5, <3>1 DEF Holds, RowFor, Latest
    <3>3. Visible(k) = EffectOf(x)
      <4>1. /\ current[k] # NoRow /\ current[k].value = x.value
            /\ current[k].deleted <=> x.op = "DELETE"
        <5>1. RowFor(x).value = x.value
          BY DEF RowFor
        <5> QED BY <1>5, <3>1, <5>1, RowDeleted DEF Holds
      <4>2. CASE x.op = "DELETE"
        BY <4>1, <4>2 DEF Visible, EffectOf
      <4>3. CASE x.op # "DELETE"
        BY <4>1, <4>3 DEF Visible, EffectOf
      <4> QED BY <4>2, <4>3
    <3> QED BY <1>2, <3>1, <3>2, <3>3 DEF Effects
  <2>2. CASE Seeded(k) /\ current[k] = SnapshotRow
    <3>1. L = {}
      BY <1>1, <1>5, <2>2, FileAssumption DEF Holds, SnapshotRow
    <3>2. Visible(k) = Bootstrap
      BY <1>5, <2>2 DEF Holds, SnapshotRow, Visible
    <3> QED BY <1>2, <2>2, <3>1, <3>2 DEF Effects, Seeded
  <2> QED BY <1>5, <2>1, <2>2 DEF Holds
<1> QED BY <1>3, <1>4, <1>5 DEF IInv, Reflects
-----------------------------------------------------------------------------
(* What AUTO CDC makes of one key.                                         *)

(* No row of the key: nothing changes.                                     *)
LEMMA NothingFor ==
  ASSUME NEW R, NEW k \in Keys, {r \in R : r.key = k} = {}, Merge(R) PROVE current'[k] = current[k]
<1>1. Latest({r \in R : r.key = k}) = {}
  BY DEF Latest
<1>2. Outcomes(k, R) = {current[k]}
  BY <1>1 DEF Outcomes
<1> QED BY <1>2 DEF Merge

(* Rows of the key, from lines N: one of the highest replaces what is not  *)
(* higher, unless what is there is not lower.                              *)
LEMMA SomethingFor ==
  ASSUME NEW R, NEW k \in Keys, NEW N, {r \in R : r.key = k} = {RowOf(x, k) : x \in N}, Merge(R)
  PROVE  \/ \E x \in N : /\ \A y \in N : y.seq <= x.seq
                         /\ current'[k] = RowFor(x)
                         /\ current[k] = NoRow \/ x.seq >= current[k].seq
         \/ /\ current'[k] = current[k]
            /\ \A x \in N : (\A y \in N : y.seq <= x.seq) => current[k] # NoRow /\ x.seq <= current[k].seq
<1> DEFINE On == {r \in R : r.key = k}
           top == Latest(On)
           new == {Stored(r, current[k]) : r \in top}
           High(x) == \A y \in N : y.seq <= x.seq
<1>1. \A x \in N : Stored(RowOf(x, k), current[k]) = RowFor(x) /\ RowOf(x, k).seq = x.seq
  BY DEF Stored, RowOf, RowFor
<1>2. top = {RowOf(x, k) : x \in {x \in N : High(x)}}
  <2>1. top = {r \in {RowOf(x, k) : x \in N} : \A s \in {RowOf(x, k) : x \in N} : s.seq <= r.seq}
    BY DEF Latest
  <2> QED BY <1>1, <2>1
<1>3. new = {RowFor(x) : x \in {x \in N : High(x)}}
  <2> HIDE DEF top, High
  <2> QED BY <1>1, <1>2
<1>4. \A x \in N : RowFor(x).seq = x.seq
  BY DEF RowFor
<1>5. current'[k] \in Outcomes(k, R)
  BY DEF Merge
<1>6. Outcomes(k, R) = IF current[k] = NoRow THEN IF top = {} THEN {NoRow} ELSE new
                       ELSE {n \in new : n.seq >= current[k].seq}
                            \cup IF \A n \in new : n.seq <= current[k].seq THEN {current[k]} ELSE {}
  BY DEF Outcomes
<1> HIDE DEF top, new, High
<1>7. CASE current[k] = NoRow /\ top = {}
  <2>1. current'[k] = current[k]
    BY <1>5, <1>6, <1>7
  <2>2. \A x \in N : ~High(x)
    BY <1>2, <1>7
  <2> QED BY <2>1, <2>2 DEF High
<1>8. CASE current[k] = NoRow /\ top # {}
  <2>1. PICK x \in N : High(x) /\ current'[k] = RowFor(x)
    BY <1>3, <1>5, <1>6, <1>8
  <2> QED BY <1>8, <2>1 DEF High
<1>9. CASE current[k] # NoRow
  <2>1. \/ \E x \in N : High(x) /\ current'[k] = RowFor(x) /\ RowFor(x).seq >= current[k].seq
        \/ current'[k] = current[k] /\ \A x \in N : High(x) => RowFor(x).seq <= current[k].seq
    BY <1>3, <1>5, <1>6, <1>9
  <2> QED BY <1>4, <1>9, <2>1 DEF High
<1> QED BY <1>7, <1>8, <1>9
-----------------------------------------------------------------------------
(* Steps.                                                                  *)
LEMMA LinesRows ==
  ASSUME NEW x \in Lines
  PROVE  RowFor(x) \in Row /\ RowFor(x) # NoRow /\ RowFor(x).seq = x.seq /\ x.seq \in 1..MaxLong
<1>1. RowFor(x) \in Row
  BY FileAssumption DEF RowFor, Row, Lines
<1> QED BY <1>1, NullAssumption DEF RowFor, Lines

LEMMA SnapshotRowTyped == SnapshotRow \in Row /\ SnapshotRow # NoRow
<1>1. SnapshotRow \in Row
  BY FileAssumption DEF SnapshotRow, Row
<1> QED BY <1>1, NullAssumption

LEMMA StillThere ==
  ASSUME IInv, UNCHANGED <<read, hydrated, current>> PROVE \A k \in Keys : Reflects(k)'
BY DEF IInv, Reflects, Untouched, Collected, TakenIn, Seeded, LinesOn

LEMMA LandInvariant ==
  ASSUME IInv, NEW f \in Files, Land(f) PROVE IInv'
<1>1. landed \subseteq landed' /\ landed' \subseteq Files /\ UNCHANGED <<read, hydrated, current>>
  BY DEF Land, IInv, TypeOK
<1>2. TypeOK'
  BY <1>1 DEF IInv, TypeOK
<1> QED BY <1>1, <1>2, StillThere DEF IInv

(* The tombstone that is dropped is of the highest line taken in, and no   *)
(* line to come is behind it.                                              *)
LEMMA CollectInvariant ==
  ASSUME IInv, NEW c \in Keys, CollectTombstone(c) PROVE IInv'
<1>1. /\ UNCHANGED <<landed, read, hydrated>> /\ current' = [current EXCEPT ![c] = NoRow]
      /\ current[c] # NoRow /\ current[c].deleted /\ ~Lagging(c)
  BY DEF CollectTombstone
<1>2. TypeOK'
  BY <1>1 DEF IInv, TypeOK
<1>3. ASSUME NEW k \in Keys PROVE Reflects(k)'
  <2>1. TakenIn(k)' = TakenIn(k) /\ Seeded(k)' = Seeded(k)
    BY <1>1 DEF TakenIn, Seeded, LinesOn
  <2>2. CASE k # c
    <3>1. current'[k] = current[k]
      BY <1>1, <2>2 DEF IInv, TypeOK
    <3> QED BY <1>1, <2>1, <3>1 DEF IInv, Reflects, Untouched, Collected, LinesOn
  <2>3. CASE k = c
    <3>1. Holds(k, TakenIn(k), current[k], Seeded(k))
      BY <1>1, <2>3 DEF IInv, Reflects, Untouched, Collected
    <3>2. PICK d \in TakenIn(k) : current[k] = RowFor(d)
      BY <1>1, <2>3, <3>1 DEF Holds, SnapshotRow
    <3>3. d.op = "DELETE" /\ current[k].seq = d.seq
      <4>1. RowFor(d).seq = d.seq
        BY DEF RowFor
      <4> QED BY <1>1, <2>3, <3>2, <4>1, RowDeleted
    <3>4. \A x \in TakenIn(k) : x.seq <= d.seq
      BY <3>1, <3>3 DEF Holds
    <3>5. k \in SnapshotKeys => TableOf[k] \in hydrated
      BY <1>1, <2>3 DEF Lagging
    <3>6. ASSUME NEW x \in LinesOn(k, Files \ read[TableOf[k]]) PROVE d.seq <= x.seq
      <4>1. ~(x.seq < current[k].seq)
        BY <1>1, <2>3 DEF Lagging, LinesOn
      <4>2. x.seq \in 1..MaxLong /\ d.seq \in 1..MaxLong
        BY LinesTyped, FileAssumption DEF IInv, TypeOK, TakenIn
      <4> QED BY <3>3, <4>1, <4>2, FileAssumption
    <3>7. current'[k] = NoRow
      BY <1>1, <2>3 DEF IInv, TypeOK
    <3>8. Collected(k)'
      BY <1>1, <2>1, <3>3, <3>4, <3>5, <3>6, <3>7 DEF Collected, LinesOn
    <3> QED BY <3>8 DEF Reflects
  <2> QED BY <2>2, <2>3
<1> QED BY <1>2, <1>3 DEF IInv

LEMMA IngestReflects ==
  ASSUME IInv, NEW t \in Tables, NEW S \in SUBSET ToRead(t), Merge(CdcRows(t, S)),
         read' = [read EXCEPT ![t] = @ \cup S], UNCHANGED hydrated, NEW k \in Keys
  PROVE  Reflects(k)' /\ current'[k] \in Row \cup {NoRow}
<1> DEFINE N == LinesOn(k, S)
           L == TakenIn(k)
<1>1. S \subseteq Files /\ S \cap read[t] = {} /\ read[t] \subseteq Files /\ TableOf[k] \in Tables
      /\ read[TableOf[k]] \subseteq Files
  BY FileAssumption DEF ToRead, IInv, TypeOK
<1>2. current[k] \in Row \cup {NoRow} /\ Seeded(k)' = Seeded(k)
  BY DEF IInv, TypeOK, Seeded
<1>3. /\ \A x \in L : x \in Lines /\ x.seq \in 1..MaxLong
      /\ \A x \in N : x \in Lines /\ x.seq \in 1..MaxLong
  BY <1>1, LinesTyped DEF TakenIn
<1>4. CASE TableOf[k] # t
  <2>1. current'[k] = current[k]
    BY <1>1, <1>4, RowsOf, NothingFor
  <2>2. read'[TableOf[k]] = read[TableOf[k]]
    BY <1>1, <1>4 DEF IInv, TypeOK
  <2> QED BY <1>2, <2>1, <2>2 DEF IInv, Reflects, Untouched, Collected, TakenIn, Seeded, LinesOn
<1>5. CASE TableOf[k] = t
  <2>1. read'[t] = read[t] \cup S
    BY DEF IInv, TypeOK
  <2>2. TakenIn(k)' = L \cup N
    <3>1. TakenIn(k)' = LinesOn(k, read[t] \cup S)
      BY <1>5, <2>1 DEF TakenIn, LinesOn
    <3> QED BY <1>5, <3>1, LinesAdd DEF TakenIn
  <2>3. Files \ read'[t] \subseteq Files \ read[t]
    BY <2>1
  <2>4. {r \in CdcRows(t, S) : r.key = k} = {RowOf(x, k) : x \in N}
    BY <1>1, <1>5, RowsOf
  <2>5. CASE N = {}
    <3>1. current'[k] = current[k]
      BY <2>4, <2>5, NothingFor
    <3>2. \A x \in LinesOn(k, Files \ read'[t]) : x \in LinesOn(k, Files \ read[t])
      BY <2>3 DEF LinesOn
    <3>3. TakenIn(k)' = L
      BY <2>2, <2>5
    <3>4. Untouched(k) => Untouched(k)'
      BY <1>2, <3>1, <3>3 DEF Untouched
    <3>5. Collected(k) => Collected(k)'
      <4> SUFFICES ASSUME Collected(k) PROVE Collected(k)'
        OBVIOUS
      <4>1. LinesOn(k, Files \ read[TableOf[k]])' = LinesOn(k, Files \ read'[t])
        BY <1>5 DEF LinesOn
      <4> QED BY <1>5, <3>1, <3>2, <3>3, <4>1 DEF Collected
    <3>6. Holds(k, L, current[k], Seeded(k)) => Holds(k, TakenIn(k), current[k], Seeded(k))'
      BY <1>2, <3>1, <3>3 DEF Holds
    <3> QED BY <1>2, <3>1, <3>4, <3>5, <3>6 DEF IInv, Reflects
  <2>6. CASE N # {}
    <3>1. PICK top \in N : \A y \in N : y.seq <= top.seq
      BY <1>3, <2>6, HighestExists
    <3>2. CASE \E x \in N : /\ \A y \in N : y.seq <= x.seq
                            /\ current'[k] = RowFor(x)
                            /\ current[k] = NoRow \/ x.seq >= current[k].seq
      <4>1. PICK x \in N : /\ \A y \in N : y.seq <= x.seq
                           /\ current'[k] = RowFor(x)
                           /\ current[k] = NoRow \/ x.seq >= current[k].seq
        BY <3>2
      <4>2. x \in Lines /\ x.seq \in 1..MaxLong /\ x \in LinesOn(k, Files \ read[t])
        BY <1>1, <1>3 DEF LinesOn
      <4>3. \A y \in L : y.seq <= x.seq
        <5>1. CASE Untouched(k)
          BY <5>1 DEF Untouched
        <5>2. CASE Collected(k)
          <6>1. PICK d \in L : (\A y \in L : y.seq <= d.seq) /\ d.seq <= x.seq
            BY <1>5, <4>2, <5>2 DEF Collected
          <6> QED BY <1>3, <4>2, <6>1, FileAssumption
        <5>3. CASE Holds(k, L, current[k], Seeded(k))
          <6>1. current[k] \in Row /\ x.seq >= current[k].seq /\ \A y \in L : y.seq <= current[k].seq
            BY <1>2, <4>1, <5>3 DEF Holds
          <6> QED BY <1>3, <4>2, <6>1, FileAssumption DEF Row
        <5> QED BY <5>1, <5>2, <5>3 DEF IInv, Reflects
      <4>4. RowFor(x) \in Row /\ RowFor(x) # NoRow /\ RowFor(x).seq = x.seq
        BY <4>2, LinesRows
      <4>5. Holds(k, TakenIn(k), current[k], Seeded(k))'
        BY <2>2, <4>1, <4>3, <4>4 DEF Holds, RowFor
      <4> QED BY <4>1, <4>4, <4>5 DEF Reflects
    <3>3. CASE /\ current'[k] = current[k]
               /\ \A x \in N : (\A y \in N : y.seq <= x.seq) => current[k] # NoRow /\ x.seq <= current[k].seq
      <4>1. current[k] # NoRow /\ top.seq <= current[k].seq
        BY <3>1, <3>3
      <4>2. Holds(k, L, current[k], Seeded(k))
        BY <4>1 DEF IInv, Reflects, Untouched, Collected
      <4>3. \A y \in N : y.seq <= current[k].seq
        BY <1>2, <1>3, <3>1, <4>1, FileAssumption DEF Row
      <4>4. Holds(k, TakenIn(k), current[k], Seeded(k))'
        BY <1>2, <2>2, <3>3, <4>2, <4>3 DEF Holds
      <4> QED BY <1>2, <3>3, <4>4 DEF Reflects
    <3> QED BY <2>4, <3>2, <3>3, SomethingFor
  <2> QED BY <2>5, <2>6
<1> QED BY <1>4, <1>5

LEMMA IngestInvariant ==
  ASSUME IInv, NEW t \in Tables, Ingest(t) PROVE IInv'
<1>1. PICK S \in SUBSET ToRead(t) : Merge(CdcRows(t, S)) /\ read' = [read EXCEPT ![t] = @ \cup S]
  BY DEF Ingest
<1>2. UNCHANGED <<landed, hydrated>>
  BY DEF Ingest
<1>3. \A k \in Keys : Reflects(k)' /\ current'[k] \in Row \cup {NoRow}
  BY <1>1, <1>2, IngestReflects
<1>4. current' \in [Keys -> Row \cup {NoRow}]
  BY <1>1, <1>3 DEF Merge
<1>5. read' \in [Tables -> SUBSET landed']
  BY <1>1, <1>2 DEF IInv, TypeOK, ToRead
<1> QED BY <1>2, <1>3, <1>4, <1>5 DEF IInv, TypeOK

(* The snapshot goes in below every line.                                  *)
LEMMA HydrateReflects ==
  ASSUME IInv, NEW t \in Tables, t \notin hydrated, Merge(SnapshotRows(t)),
         hydrated' = hydrated \cup {t}, UNCHANGED read, NEW k \in Keys
  PROVE  Reflects(k)' /\ current'[k] \in Row \cup {NoRow}
<1> DEFINE L == TakenIn(k)
           seed == [op |-> "SNAPSHOT", seq |-> 0, value |-> Bootstrap]
<1>1. TakenIn(k)' = L /\ current[k] \in Row \cup {NoRow}
  BY DEF TakenIn, LinesOn, IInv, TypeOK
<1>2. \A x \in L : x.seq \in 1..MaxLong
  BY LinesTyped, FileAssumption DEF TakenIn, IInv, TypeOK
<1>3. CASE ~(k \in SnapshotKeys /\ TableOf[k] = t)
  <2>1. {r \in SnapshotRows(t) : r.key = k} = {}
    BY <1>3 DEF SnapshotRows
  <2>2. current'[k] = current[k]
    BY <2>1, NothingFor
  <2>3. Seeded(k)' = Seeded(k)
    BY <1>3 DEF Seeded
  <2>4. Collected(k) => Collected(k)'
    BY <1>1, <2>2 DEF Collected, LinesOn
  <2> QED BY <1>1, <2>2, <2>3, <2>4 DEF IInv, Reflects, Untouched
<1>4. CASE k \in SnapshotKeys /\ TableOf[k] = t
  <2>1. {r \in SnapshotRows(t) : r.key = k} = {RowOf(x, k) : x \in {seed}}
    BY <1>4, FileAssumption DEF SnapshotRows, RowOf
  <2>2. RowFor(seed) = SnapshotRow /\ seed.seq = 0
    BY DEF RowFor, SnapshotRow
  <2>3. Seeded(k)' /\ ~Seeded(k) /\ ~Collected(k)
    BY <1>4 DEF Seeded, Collected
  <2>4. CASE current'[k] = SnapshotRow /\ (current[k] = NoRow \/ 0 >= current[k].seq)
    <3>1. L = {}
      <4>1. CASE Untouched(k)
        BY <4>1 DEF Untouched
      <4>2. CASE Holds(k, L, current[k], Seeded(k))
        <5>1. current[k].seq \in 0..MaxLong /\ 0 >= current[k].seq /\ \A x \in L : x.seq <= current[k].seq
          BY <1>1, <2>4, <4>2 DEF Holds, Row
        <5> QED BY <1>2, <5>1, FileAssumption
      <4> QED BY <2>3, <4>1, <4>2 DEF IInv, Reflects
    <3>2. Holds(k, TakenIn(k), current[k], Seeded(k))'
      BY <1>1, <2>3, <2>4, <3>1, SnapshotRowTyped DEF Holds
    <3> QED BY <2>4, <3>2, SnapshotRowTyped DEF Reflects
  <2>5. CASE current'[k] = current[k] /\ current[k] # NoRow
    <3>1. Holds(k, L, current[k], Seeded(k))
      BY <2>5 DEF IInv, Reflects, Untouched, Collected
    <3>2. Holds(k, TakenIn(k), current[k], Seeded(k))'
      BY <1>1, <2>3, <2>5, <3>1 DEF Holds
    <3> QED BY <1>1, <2>5, <3>2 DEF Reflects
  <2> HIDE DEF seed
  <2>6. \/ /\ current'[k] = RowFor(seed)
           /\ current[k] = NoRow \/ seed.seq >= current[k].seq
        \/ current'[k] = current[k] /\ current[k] # NoRow
    <3>1. PICK N : N = {seed}
      OBVIOUS
    <3>2. {r \in SnapshotRows(t) : r.key = k} = {RowOf(x, k) : x \in N}
      BY <2>1, <3>1
    <3>3. \/ \E x \in N : /\ \A y \in N : y.seq <= x.seq
                          /\ current'[k] = RowFor(x)
                          /\ current[k] = NoRow \/ x.seq >= current[k].seq
          \/ /\ current'[k] = current[k]
             /\ \A x \in N : (\A y \in N : y.seq <= x.seq)
                              => current[k] # NoRow /\ x.seq <= current[k].seq
      BY <3>2, SomethingFor
    <3>4. seed \in N /\ \A x \in N : x = seed
      BY <3>1
    <3>5. \A y \in N : y.seq <= seed.seq
      BY <2>2, <3>4
    <3>6. CASE \E x \in N : /\ current'[k] = RowFor(x)
                            /\ current[k] = NoRow \/ x.seq >= current[k].seq
      <4>1. PICK x \in N : /\ current'[k] = RowFor(x)
                           /\ current[k] = NoRow \/ x.seq >= current[k].seq
        BY <3>6
      <4>2. x = seed
        BY <3>4
      <4> QED BY <4>1, <4>2
    <3>7. CASE current'[k] = current[k] /\ current[k] # NoRow
      BY <3>7
    <3> QED BY <3>3, <3>4, <3>5, <3>6, <3>7
  <2> QED BY <2>2, <2>4, <2>5, <2>6
<1> QED BY <1>3, <1>4

LEMMA HydrateInvariant ==
  ASSUME IInv, NEW t \in Tables, Hydrate(t) PROVE IInv'
<1>1. \A k \in Keys : Reflects(k)' /\ current'[k] \in Row \cup {NoRow}
  BY HydrateReflects DEF Hydrate
<1>2. current' \in [Keys -> Row \cup {NoRow}]
  BY <1>1 DEF Hydrate, Merge
<1> QED BY <1>1, <1>2 DEF IInv, TypeOK, Hydrate

LEMMA Invariant == Spec => []IInv
<1>1. Init => IInv
  <2> SUFFICES ASSUME Init PROVE IInv
    OBVIOUS
  <2>1. TypeOK
    BY FileAssumption DEF Init, TypeOK
  <2>2. \A k \in Keys : Untouched(k)
    BY FileAssumption DEF Init, Untouched, TakenIn, Seeded, LinesOn
  <2> QED BY <2>1, <2>2 DEF IInv, Reflects
<1>2. IInv /\ [Next]_vars => IInv'
  <2> SUFFICES ASSUME IInv, [Next]_vars PROVE IInv'
    OBVIOUS
  <2>1. CASE UNCHANGED vars
    BY <2>1, StillThere DEF vars, IInv, TypeOK
  <2> QED BY <2>1, LandInvariant, HydrateInvariant, IngestInvariant, CollectInvariant DEF Next
<1> QED BY <1>1, <1>2, PTL DEF Spec
-----------------------------------------------------------------------------
(* The files taken in are files in the volume, and the rows have their     *)
(* types.                                                                  *)
THEOREM TypeCorrect == Spec => []TypeOK
<1>1. IInv => TypeOK
  BY DEF IInv
<1> QED BY <1>1, Invariant, PTL

(* In whatever micro-batches and order the files come, whether hydration   *)
(* runs first, last or between, and whichever tombstones have been dropped *)
(* that no older row can still get behind, a reader sees the effect of the *)
(* line of highest sequence number taken in.                               *)
THEOREM LatestIsShown == Spec => []CurrentIsLatest
BY Invariant, ReflectsLatest, PTL
=============================================================================
