--------------------- MODULE NormalizationOutputProofs ---------------------
(***************************************************************************)
(* What normalization computes, for any contents, lists and number of      *)
(* runs, rewrites and crashes: the accepted file of a processing id        *)
(* depends on the bytes it was hashed from and on nothing else, and every  *)
(* line goes to exactly one of the two outputs.                            *)
(***************************************************************************)
EXTENDS NormalizationProofs, WellFoundedInduction

(* Every nonempty set on which F takes numbers has an element of least F.  *)
LEMMA LeastBy ==
  ASSUME NEW S, S # {}, NEW F \in [S -> Nat]
  PROVE  \E s \in S : \A t \in S : F[s] <= F[t]
<1> DEFINE R == OpToRel(<, Nat)
           T == {F[s] : s \in S}
<1>1. IsWellFoundedOn(R, Nat)
  BY NatLessThanWellFounded
<1>2. T \subseteq Nat /\ T # {}
  OBVIOUS
<1>3. \A x, y \in Nat : x < y => <<x, y>> \in R
  BY DEF OpToRel
<1> HIDE DEF R, T
<1>4. \E x \in T : \A y \in T : ~(<<y, x>> \in R)
  BY <1>1, <1>2, WFMin
<1>5. \E x \in T : \A y \in T : x <= y
  <2>1. PICK x \in T : \A y \in T : ~(<<y, x>> \in R)
    BY <1>4
  <2>2. ASSUME NEW y \in T PROVE x <= y
    <3>1. x \in Nat /\ y \in Nat /\ ~(<<y, x>> \in R)
      BY <1>2, <2>1
    <3> QED BY <1>3, <3>1
  <2> QED BY <2>2
<1> QED BY <1>5 DEF T

(* Of deliveries that file and position tell apart, one comes first.       *)
LEMMA FirstDelivery ==
  ASSUME NEW D, D # {}, Placed(D),
         \A d, e \in D : d.file = e.file /\ d.pos = e.pos => d = e
  PROVE  \E d \in D : \A e \in D \ {d} : Precedes(Provenance(d), Provenance(e))
<1> DEFINE P == [d \in D |-> Provenance(d)]
<1>1. \A d \in D : P[d] \in [1..5 -> Nat] /\ P[d][3] = d.file /\ P[d][5] = d.pos
  BY DEF Placed, Provenance, IngestionBatch
<1>2. \A d \in D : P[d] = Provenance(d)
  OBVIOUS
<1> HIDE DEF P
<1> DEFINE Lowest(S, i) == {d \in S : \A e \in S : P[d][i] <= P[e][i]}
<1>3. ASSUME NEW S \in SUBSET D, S # {}, NEW i \in 1..5
      PROVE  /\ Lowest(S, i) # {} /\ Lowest(S, i) \in SUBSET D /\ Lowest(S, i) \subseteq S
             /\ \A d \in Lowest(S, i), e \in S :
                  IF e \in Lowest(S, i) THEN P[d][i] = P[e][i] ELSE P[d][i] < P[e][i]
  <2> DEFINE F == [d \in S |-> P[d][i]]
  <2>1. F \in [S -> Nat]
    BY <1>1
  <2>2. \E s \in S : \A t \in S : F[s] <= F[t]
    BY <1>3, <2>1, LeastBy
  <2>3. ASSUME NEW d \in Lowest(S, i), NEW e \in S
        PROVE  IF e \in Lowest(S, i) THEN P[d][i] = P[e][i] ELSE P[d][i] < P[e][i]
    <3>1. \A x \in S : P[x][i] \in Nat
      BY <1>1
    <3>2. CASE e \in Lowest(S, i)
      BY <3>1, <3>2
    <3>3. CASE e \notin Lowest(S, i)
      <4>1. PICK x \in S : ~(P[e][i] <= P[x][i])
        BY <3>3
      <4> QED BY <3>1, <3>3, <4>1
    <3> QED BY <3>2, <3>3
  <2> QED BY <2>2, <2>3
<1> HIDE DEF Lowest
<1>4. PICK S1 \in SUBSET D : S1 = Lowest(D, 1) /\ S1 # {}
  BY <1>3
<1>5. PICK S2 \in SUBSET D : S2 = Lowest(S1, 2) /\ S2 # {}
  BY <1>3, <1>4
<1>6. PICK S3 \in SUBSET D : S3 = Lowest(S2, 3) /\ S3 # {}
  BY <1>3, <1>5
<1>7. PICK S4 \in SUBSET D : S4 = Lowest(S3, 4) /\ S4 # {}
  BY <1>3, <1>6
<1>8. PICK S5 \in SUBSET D : S5 = Lowest(S4, 5) /\ S5 # {}
  BY <1>3, <1>7
<1>9. PICK d : d \in S5
  BY <1>8
<1>10. d \in D /\ d \in S1 /\ d \in S2 /\ d \in S3 /\ d \in S4
  BY <1>3, <1>4, <1>5, <1>6, <1>7, <1>8, <1>9
<1> SUFFICES ASSUME NEW e \in D \ {d} PROVE Precedes(P[d], P[e])
  BY <1>2, <1>10
<1> SUFFICES \E i \in 1..5 : P[d][i] < P[e][i] /\ \A j \in 1..(i - 1) : P[d][j] = P[e][j]
  <2>1. DOMAIN P[d] = 1..5
    BY <1>1, <1>10
  <2> QED BY <2>1 DEF Precedes
<1>11. IF e \in S1 THEN P[d][1] = P[e][1] ELSE P[d][1] < P[e][1]
  BY <1>3, <1>4, <1>10
<1>12. e \in S1 => IF e \in S2 THEN P[d][2] = P[e][2] ELSE P[d][2] < P[e][2]
  BY <1>3, <1>4, <1>5, <1>10
<1>13. e \in S2 => IF e \in S3 THEN P[d][3] = P[e][3] ELSE P[d][3] < P[e][3]
  BY <1>3, <1>5, <1>6, <1>10
<1>14. e \in S3 => IF e \in S4 THEN P[d][4] = P[e][4] ELSE P[d][4] < P[e][4]
  BY <1>3, <1>6, <1>7, <1>10
<1>15. e \in S4 => IF e \in S5 THEN P[d][5] = P[e][5] ELSE P[d][5] < P[e][5]
  BY <1>3, <1>7, <1>8, <1>9
<1>16. P[d][3] # P[e][3] \/ P[d][5] # P[e][5]
  BY <1>1, <1>10
<1>17. /\ 1..0 = {} /\ 1..1 = {1} /\ 1..2 = {1, 2} /\ 1..3 = {1, 2, 3} /\ 1..4 = {1, 2, 3, 4}
  OBVIOUS
<1>18. CASE P[d][1] < P[e][1]
  BY <1>17, <1>18
<1>19. CASE P[d][1] = P[e][1] /\ P[d][2] < P[e][2]
  BY <1>17, <1>19
<1>20. CASE P[d][1] = P[e][1] /\ P[d][2] = P[e][2] /\ P[d][3] < P[e][3]
  BY <1>17, <1>20
<1>21. CASE P[d][1] = P[e][1] /\ P[d][2] = P[e][2] /\ P[d][3] = P[e][3] /\ P[d][4] < P[e][4]
  BY <1>17, <1>21
<1>22. CASE /\ P[d][1] = P[e][1] /\ P[d][2] = P[e][2] /\ P[d][3] = P[e][3] /\ P[d][4] = P[e][4]
            /\ P[d][5] < P[e][5]
  BY <1>17, <1>22
<1> QED BY <1>11, <1>12, <1>13, <1>14, <1>15, <1>16, <1>18, <1>19, <1>20, <1>21, <1>22
-----------------------------------------------------------------------------
(* The rank of a file in the list decides nothing: two deliveries with the *)
(* same lines of the same files have the same fate.                        *)
Pair(d, e) == d.x = e.x /\ d.file = e.file /\ d.pos = e.pos
Distinct(D) == \A d, e \in D : d.file = e.file /\ d.pos = e.pos => d = e
Ranked(D) == \A d, e \in D : d.file = e.file => d.rank = e.rank

Relisted(D, E) ==
  /\ Placed(D) /\ Distinct(D) /\ Ranked(D)
  /\ Placed(E) /\ Distinct(E) /\ Ranked(E)
  /\ \A d \in D : \E e \in E : Pair(d, e)
  /\ \A e \in E : \E d \in D : Pair(d, e)

LEMMA RelistedBack ==
  ASSUME NEW D, NEW E, Relisted(D, E) PROVE Relisted(E, D)
<1>1. \A d, e : Pair(d, e) <=> Pair(e, d)
  BY DEF Pair
<1> QED BY <1>1 DEF Relisted

LEMMA OrderKept ==
  ASSUME NEW D, NEW E, Relisted(D, E), NEW c \in D, NEW d \in D, NEW u \in E, NEW v \in E,
         Pair(c, u), Pair(d, v), Precedes(Provenance(c), Provenance(d))
  PROVE  Precedes(Provenance(u), Provenance(v))
<1>1. PICK i \in 1..5 : /\ Provenance(c)[i] < Provenance(d)[i]
                        /\ \A j \in 1..(i - 1) : Provenance(c)[j] = Provenance(d)[j]
  BY DEF Precedes, Provenance
<1>2. \A j \in {1, 2, 3, 5} : /\ Provenance(u)[j] = Provenance(c)[j]
                              /\ Provenance(v)[j] = Provenance(d)[j]
  BY DEF Pair, Provenance, IngestionBatch
<1>3. /\ Provenance(c)[3] = c.file /\ Provenance(d)[3] = d.file
      /\ Provenance(u)[4] = u.rank /\ Provenance(v)[4] = v.rank
      /\ Provenance(c)[4] = c.rank /\ Provenance(d)[4] = d.rank
  BY DEF Provenance
<1>4. i > 3 => c.rank = d.rank /\ u.rank = v.rank
  <2>1. i > 3 => c.file = d.file
    BY <1>1, <1>3
  <2> QED BY <2>1 DEF Relisted, Ranked, Pair
<1>5. i # 4
  <2>1. c.rank \in Nat /\ d.rank \in Nat
    BY DEF Relisted, Placed
  <2> QED BY <1>1, <1>3, <1>4, <2>1
<1>6. Provenance(u)[i] < Provenance(v)[i]
  BY <1>1, <1>2, <1>5
<1>7. \A j \in 1..(i - 1) : Provenance(u)[j] = Provenance(v)[j]
  BY <1>1, <1>2, <1>3, <1>4
<1>8. DOMAIN Provenance(u) = 1..5
  BY DEF Provenance
<1> QED BY <1>6, <1>7, <1>8 DEF Precedes

LEMMA ValidKept ==
  ASSUME NEW D, NEW E, Relisted(D, E) PROVE Relisted(Valid(D), Valid(E))
<1>1. \A d \in Valid(D) : d \in D /\ Code(d.x) = "VALID"
  BY DEF Valid
<1>2. \A e \in Valid(E) : e \in E /\ Code(e.x) = "VALID"
  BY DEF Valid
<1>3. \A d \in Valid(D) : \E e \in Valid(E) : Pair(d, e)
  BY <1>1 DEF Relisted, Valid, Pair
<1>4. \A e \in Valid(E) : \E d \in Valid(D) : Pair(d, e)
  BY <1>2 DEF Relisted, Valid, Pair
<1> QED BY <1>1, <1>2, <1>3, <1>4 DEF Relisted, Placed, Distinct, Ranked

LEMMA ConflictKept ==
  ASSUME NEW V, NEW W, Relisted(V, W), NEW d \in V, NEW e \in W, Pair(d, e), d \in Conflicting(V)
  PROVE  e \in Conflicting(W)
<1>1. PICK c \in V : c.x.id = d.x.id /\ Fingerprint(c.x) # Fingerprint(d.x)
  BY DEF Conflicting, SameId
<1>2. PICK u \in W : Pair(c, u)
  BY DEF Relisted
<1> QED BY <1>1, <1>2 DEF Pair, Conflicting, SameId

LEMMA RetainedKept ==
  ASSUME NEW V, NEW W, Relisted(V, W), NEW d \in V, NEW e \in W, Pair(d, e), d \in Retained(V)
  PROVE  e \in Retained(W)
<1>1. e \notin Conflicting(W)
  <2>1. Relisted(W, V) /\ Pair(e, d)
    BY RelistedBack DEF Pair
  <2> QED BY <2>1, ConflictKept DEF Retained
<1>2. ASSUME NEW u \in SameId(e, W) \ {e} PROVE Precedes(Provenance(e), Provenance(u))
  <2>1. PICK c \in V : Pair(c, u)
    BY DEF Relisted, SameId
  <2>2. c \in SameId(d, V) \ {d}
    BY <2>1 DEF SameId, Pair, Relisted, Distinct
  <2>3. Precedes(Provenance(d), Provenance(c))
    BY <2>2 DEF Retained
  <2> QED BY <2>1, <2>3, OrderKept DEF SameId
<1> QED BY <1>1, <1>2 DEF Retained

LEMMA CollisionKept ==
  ASSUME NEW V, NEW W, Relisted(V, W), NEW d \in V, NEW e \in W, Pair(d, e),
         d \in Colliding(Retained(V))
  PROVE  e \in Colliding(Retained(W))
<1>1. d \in Retained(V)
  BY DEF Colliding
<1>2. PICK c \in Retained(V) \ {d} : c.x.entity = d.x.entity /\ c.x.seq = d.x.seq
  BY DEF Colliding
<1>3. c \in V
  BY DEF Retained
<1>4. PICK u \in W : Pair(c, u)
  BY <1>3 DEF Relisted
<1>5. u \in Retained(W) /\ e \in Retained(W)
  BY <1>1, <1>3, <1>4, RetainedKept
<1>6. u # e
  BY <1>2, <1>3, <1>4 DEF Pair, Relisted, Distinct
<1> QED BY <1>2, <1>4, <1>5, <1>6 DEF Colliding, Pair

LEMMA AcceptedKept ==
  ASSUME NEW V, NEW W, Relisted(V, W) PROVE Accepted(V) \subseteq Accepted(W)
<1> SUFFICES ASSUME NEW d \in Retained(V), d \notin Colliding(Retained(V))
             PROVE  [x |-> d.x, file |-> d.file, late |-> Late(d, V)] \in Accepted(W)
  BY DEF Accepted
<1>1. d \in V
  BY DEF Retained
<1>2. PICK e \in W : Pair(d, e)
  BY <1>1 DEF Relisted
<1>3. Relisted(W, V) /\ Pair(e, d)
  BY <1>2, RelistedBack DEF Pair
<1>4. e \in Retained(W) \ Colliding(Retained(W))
  BY <1>1, <1>2, <1>3, RetainedKept, CollisionKept
<1>5. Late(d, V) = Late(e, W)
  <2>1. \A c \in V : \E u \in W : c.x = u.x /\ IngestionBatch(c) = IngestionBatch(u)
    BY DEF Relisted, Pair, IngestionBatch
  <2>2. \A u \in W : \E c \in V : c.x = u.x /\ IngestionBatch(c) = IngestionBatch(u)
    BY DEF Relisted, Pair, IngestionBatch
  <2>3. d.x = e.x /\ IngestionBatch(d) = IngestionBatch(e)
    BY <1>2 DEF Pair, IngestionBatch
  <2> QED BY <2>1, <2>2, <2>3 DEF Late
<1> QED BY <1>2, <1>4, <1>5 DEF Accepted, Pair

(* Why a delivery is in the quarantine.                                    *)
Reject(code, d) == [code |-> code, x |-> d.x, file |-> d.file, pos |-> d.pos]

Reason(code, d, D) ==
  \/ d \in D \ Valid(D) /\ code = Code(d.x)
  \/ d \in Conflicting(Valid(D)) /\ code = "DUPLICATE_EVENT_CONFLICT"
  \/ d \in Colliding(Retained(Valid(D))) /\ code = "SEQUENCE_CONFLICT"

LEMMA QuarantineElements ==
  ASSUME NEW D, NEW q
  PROVE  q \in Quarantine(D) <=> \E d \in D : \E code : Reason(code, d, D) /\ q = Reject(code, d)
<1> DEFINE V == Valid(D)
           Invalid == UNION {Rejected(Code(d.x), {d}) : d \in D \ V}
<1>1. V \subseteq D /\ Conflicting(V) \subseteq D /\ Colliding(Retained(V)) \subseteq D
  BY DEF Valid, Conflicting, Colliding, Retained
<1>2. q \in Invalid <=> \E d \in D \ V : q = Reject(Code(d.x), d)
  BY DEF Rejected, Reject
<1>3. \A code, S : q \in Rejected(code, S) <=> \E d \in S : q = Reject(code, d)
  BY DEF Rejected, Reject
<1>4. q \in Quarantine(D) <=> \/ q \in Invalid
                              \/ q \in Rejected("DUPLICATE_EVENT_CONFLICT", Conflicting(V))
                              \/ q \in Rejected("SEQUENCE_CONFLICT", Colliding(Retained(V)))
  <2>1. Quarantine(D) = Invalid \cup Rejected("DUPLICATE_EVENT_CONFLICT", Conflicting(V))
                                \cup Rejected("SEQUENCE_CONFLICT", Colliding(Retained(V)))
    BY Zenon DEF Quarantine
  <2> HIDE DEF Invalid, V
  <2> QED BY <2>1
<1> HIDE DEF Invalid, V
<1>5. q \in Quarantine(D) => \E d \in D : \E code : Reason(code, d, D) /\ q = Reject(code, d)
  BY <1>1, <1>2, <1>3, <1>4 DEF Reason, V
<1>6. ASSUME NEW d \in D, NEW code, Reason(code, d, D), q = Reject(code, d) PROVE q \in Quarantine(D)
  BY <1>2, <1>3, <1>4, <1>6 DEF Reason, V
<1> QED BY <1>5, <1>6

LEMMA QuarantineKept ==
  ASSUME NEW D, NEW E, Relisted(D, E) PROVE Quarantine(D) \subseteq Quarantine(E)
<1> DEFINE V == Valid(D)
           W == Valid(E)
<1>1. Relisted(V, W)
  BY ValidKept
<1> SUFFICES ASSUME NEW d \in D, NEW code, Reason(code, d, D)
             PROVE  \E e \in E : Reason(code, e, E) /\ Reject(code, d) = Reject(code, e)
  BY QuarantineElements
<1>2. \A e : Pair(d, e) => Reject(code, d) = Reject(code, e)
  BY DEF Pair, Reject
<1>3. V \subseteq D /\ W \subseteq E
  BY DEF Valid
<1>4. CASE d \in D \ V /\ code = Code(d.x)
  <2>1. PICK e \in E : Pair(d, e)
    BY DEF Relisted
  <2>2. e \in E \ W /\ Code(e.x) = Code(d.x)
    BY <1>4, <2>1 DEF Valid, Pair
  <2> QED BY <1>2, <1>4, <2>1, <2>2 DEF Reason
<1>5. CASE d \in Conflicting(V) /\ code = "DUPLICATE_EVENT_CONFLICT"
  <2>1. d \in V
    BY <1>5 DEF Conflicting
  <2>2. PICK e \in W : Pair(d, e)
    BY <1>1, <2>1 DEF Relisted
  <2>3. e \in Conflicting(W)
    BY <1>1, <1>5, <2>1, <2>2, ConflictKept
  <2> QED BY <1>2, <1>3, <1>5, <2>2, <2>3 DEF Reason
<1>6. CASE d \in Colliding(Retained(V)) /\ code = "SEQUENCE_CONFLICT"
  <2>1. d \in V
    BY <1>6 DEF Colliding, Retained
  <2>2. PICK e \in W : Pair(d, e)
    BY <1>1, <2>1 DEF Relisted
  <2>3. e \in Colliding(Retained(W))
    BY <1>1, <1>6, <2>1, <2>2, CollisionKept
  <2> QED BY <1>2, <1>3, <1>6, <2>2, <2>3 DEF Reason
<1> QED BY <1>4, <1>5, <1>6 DEF Reason

(* The lines of a manifest, delivered in the order of their file names.    *)
Canon(m) ==
  UNION {{[x |-> m[f][n], file |-> f, rank |-> f, pos |-> n] : n \in DOMAIN m[f]} : f \in DOMAIN m}

(* A list that names each file of the manifest, and none twice.            *)
Enumerates(paths, m) ==
  /\ paths \in Seq(Files)
  /\ \A i, j \in DOMAIN paths : paths[i] = paths[j] => i = j
  /\ \A f \in DOMAIN m : \E i \in DOMAIN paths : paths[i] = f

LEMMA CanonElements ==
  ASSUME NEW m \in Manifests
  PROVE  /\ Placed(Canon(m)) /\ Distinct(Canon(m)) /\ Ranked(Canon(m))
         /\ \A d \in Canon(m) : /\ d.x \in Lines /\ d.file \in DOMAIN m
                                /\ d.pos \in DOMAIN m[d.file] /\ d.x = m[d.file][d.pos]
         /\ \A f \in DOMAIN m : \A n \in DOMAIN m[f] :
              [x |-> m[f][n], file |-> f, rank |-> f, pos |-> n] \in Canon(m)
<1>1. \A f \in DOMAIN m : f \in Nat /\ m[f] \in Seq(Lines)
  <2>1. PICK F \in SUBSET Files : m \in [F -> Contents]
    BY DEF Manifests
  <2> QED BY <2>1, InputAssumption
<1>2. ASSUME NEW d \in Canon(m)
      PROVE  /\ d.file \in DOMAIN m /\ d.pos \in DOMAIN m[d.file] /\ d.rank = d.file
             /\ d = [x |-> m[d.file][d.pos], file |-> d.file, rank |-> d.file, pos |-> d.pos]
  BY DEF Canon
<1>3. ASSUME NEW d \in Canon(m)
      PROVE  /\ d.file \in Nat /\ d.rank \in Nat /\ d.pos \in Nat /\ d.x \in Lines
             /\ d.x.batch \in Nat /\ d.x = m[d.file][d.pos]
  <2>1. d.file \in Nat /\ d.rank = d.file /\ m[d.file] \in Seq(Lines) /\ d.pos \in DOMAIN m[d.file]
    BY <1>1, <1>2
  <2>2. d.x = m[d.file][d.pos]
    BY <1>2
  <2>3. d.pos \in Nat /\ d.x \in Lines
    BY <2>1, <2>2
  <2> QED BY <2>1, <2>2, <2>3 DEF Lines
<1>4. \A f \in DOMAIN m : \A n \in DOMAIN m[f] :
        [x |-> m[f][n], file |-> f, rank |-> f, pos |-> n] \in Canon(m)
  BY DEF Canon
<1>5. Distinct(Canon(m)) /\ Ranked(Canon(m))
  BY <1>2 DEF Distinct, Ranked
<1> QED BY <1>2, <1>3, <1>4, <1>5 DEF Placed

LEMMA DeliveryElements ==
  ASSUME NEW m \in Manifests, NEW paths, Enumerates(paths, m)
  PROVE  Relisted(Delivered(paths, m), Canon(m))
<1> DEFINE D == Delivered(paths, m)
<1>1. Placed(D)
  BY DeliveriesTyped DEF Enumerates
<1>2. ASSUME NEW d \in D
      PROVE  /\ d.rank \in DOMAIN paths /\ d.file = paths[d.rank] /\ d.file \in DOMAIN m
             /\ d.pos \in DOMAIN m[d.file]
             /\ d = [x |-> m[d.file][d.pos], file |-> d.file, rank |-> d.rank, pos |-> d.pos]
  <2>1. PICK i \in DOMAIN paths : /\ paths[i] \in DOMAIN m
                                  /\ \E n \in DOMAIN m[paths[i]] :
                                       d = [x |-> m[paths[i]][n], file |-> paths[i],
                                            rank |-> i, pos |-> n]
    BY DEF Delivered
  <2> QED BY <2>1
<1>3. ASSUME NEW f \in DOMAIN m, NEW n \in DOMAIN m[f]
      PROVE  \E d \in D : d.x = m[f][n] /\ d.file = f /\ d.pos = n
  <2>1. PICK i \in DOMAIN paths : paths[i] = f
    BY DEF Enumerates
  <2>2. [x |-> m[paths[i]][n], file |-> paths[i], rank |-> i, pos |-> n] \in D
    BY <2>1 DEF Delivered
  <2> QED BY <2>1, <2>2
<1> HIDE DEF D
<1>4. Ranked(D)
  BY <1>2 DEF Ranked, Enumerates
<1>5. Distinct(D)
  BY <1>2, <1>4 DEF Distinct, Ranked
<1>6. \A d \in D : \E e \in Canon(m) : Pair(d, e)
  <2> SUFFICES ASSUME NEW d \in D PROVE \E e \in Canon(m) : Pair(d, e)
    OBVIOUS
  <2>1. d.file \in DOMAIN m /\ d.pos \in DOMAIN m[d.file] /\ d.x = m[d.file][d.pos]
    BY <1>2
  <2>2. [x |-> m[d.file][d.pos], file |-> d.file, rank |-> d.file, pos |-> d.pos] \in Canon(m)
    BY <2>1, CanonElements
  <2> QED BY <2>1, <2>2 DEF Pair
<1>7. \A e \in Canon(m) : \E d \in D : Pair(d, e)
  BY <1>3, CanonElements DEF Pair
<1> QED BY <1>1, <1>4, <1>5, <1>6, <1>7, CanonElements DEF Relisted, D

(* Outputs of a run that read what it had hashed.                          *)
LEMMA OutputsOf ==
  ASSUME NEW m \in Manifests, NEW paths, Enumerates(paths, m)
  PROVE  /\ Accepted(Valid(Delivered(paths, m))) = Accepted(Valid(Canon(m)))
         /\ Quarantine(Delivered(paths, m)) = Quarantine(Canon(m))
<1>1. Relisted(Delivered(paths, m), Canon(m)) /\ Relisted(Canon(m), Delivered(paths, m))
  BY DeliveryElements, RelistedBack
<1>2. Quarantine(Delivered(paths, m)) = Quarantine(Canon(m))
  <2>1. Quarantine(Delivered(paths, m)) \subseteq Quarantine(Canon(m))
    BY <1>1, QuarantineKept
  <2>2. Quarantine(Canon(m)) \subseteq Quarantine(Delivered(paths, m))
    BY <1>1, QuarantineKept
  <2> QED BY <2>1, <2>2
<1>3. /\ Relisted(Valid(Delivered(paths, m)), Valid(Canon(m)))
      /\ Relisted(Valid(Canon(m)), Valid(Delivered(paths, m)))
  BY <1>1, ValidKept
<1>4. Accepted(Valid(Delivered(paths, m))) = Accepted(Valid(Canon(m)))
  BY <1>3, AcceptedKept
<1> QED BY <1>2, <1>4
-----------------------------------------------------------------------------
(* Who wins.  Of the copies of an event that agree, one is retained.       *)
LEMMA RetainedExists ==
  ASSUME NEW V, Placed(V), Distinct(V), NEW d \in V, d \notin Conflicting(V)
  PROVE  \E r \in Retained(V) : r.x.id = d.x.id /\ Fingerprint(r.x) = Fingerprint(d.x)
<1> DEFINE S == SameId(d, V)
<1>1. S \subseteq V /\ d \in S /\ \A e \in S : e.x.id = d.x.id
  BY DEF SameId
<1>2. \A e \in S : Fingerprint(e.x) = Fingerprint(d.x)
  BY DEF Conflicting
<1>3. \A e \in S : SameId(e, V) = S
  BY <1>1 DEF SameId
<1>4. PICK r \in S : \A e \in S \ {r} : Precedes(Provenance(r), Provenance(e))
  <2> HIDE DEF S
  <2>1. Placed(S) /\ S # {} /\ \A c, e \in S : c.file = e.file /\ c.pos = e.pos => c = e
    BY <1>1 DEF Placed, Distinct
  <2> QED BY <2>1, FirstDelivery
<1>5. r \notin Conflicting(V)
  BY <1>2, <1>3, <1>4 DEF Conflicting
<1>6. r \in Retained(V)
  BY <1>1, <1>3, <1>4, <1>5 DEF Retained
<1> QED BY <1>1, <1>2, <1>4, <1>6

(* Copies with one fingerprint have one entity and one sequence number.    *)
LEMMA SameFingerprint ==
  ASSUME NEW x, NEW y, Fingerprint(x) = Fingerprint(y)
  PROVE  /\ x.id = y.id /\ x.entity = y.entity /\ x.op = y.op /\ x.seq = y.seq /\ x.ts = y.ts
         /\ x.after = y.after /\ x.before = y.before /\ x.data = y.data
BY DEF Fingerprint

(* The first by batch, path and position is the first by provenance.       *)
Place(c) == <<c.x.batch, IngestionBatch(c), c.file, c.pos>>

LEMMA PlaceOrder ==
  ASSUME NEW m \in Manifests, NEW d \in Canon(m), NEW e \in Canon(m), NEW c, NEW u,
         Pair(d, c), Pair(e, u)
  PROVE  Precedes(Provenance(d), Provenance(e)) <=> Precedes(Place(c), Place(u))
<1>1. \A k \in {1, 2, 3} : Provenance(d)[k] = Place(c)[k] /\ Provenance(e)[k] = Place(u)[k]
  BY DEF Pair, Provenance, Place, IngestionBatch
<1>2. /\ Provenance(d)[3] = d.file /\ Provenance(e)[3] = e.file
      /\ Provenance(d)[4] = d.file /\ Provenance(e)[4] = e.file
      /\ Provenance(d)[5] = Place(c)[4] /\ Provenance(e)[5] = Place(u)[4]
      /\ d.file \in Nat /\ e.file \in Nat
  <2>1. d.rank = d.file /\ e.rank = e.file
    BY DEF Canon
  <2>2. d.file \in Nat /\ e.file \in Nat
    BY CanonElements DEF Placed
  <2> QED BY <2>1, <2>2 DEF Pair, Provenance, Place
<1>3. DOMAIN Provenance(d) = 1..5 /\ DOMAIN Place(c) = 1..4
  BY DEF Provenance, Place
<1>4. ASSUME Precedes(Provenance(d), Provenance(e)) PROVE Precedes(Place(c), Place(u))
  <2>1. PICK i \in 1..5 : /\ Provenance(d)[i] < Provenance(e)[i]
                          /\ \A j \in 1..(i - 1) : Provenance(d)[j] = Provenance(e)[j]
    BY <1>3, <1>4 DEF Precedes
  <2>2. i # 4
    BY <1>2, <2>1
  <2>3. CASE i = 5
    <3>1. Place(c)[4] < Place(u)[4] /\ \A j \in 1..3 : Place(c)[j] = Place(u)[j]
      BY <1>1, <1>2, <2>1, <2>3
    <3> QED BY <1>3, <3>1 DEF Precedes
  <2>4. CASE i \in {1, 2, 3}
    <3>1. Place(c)[i] < Place(u)[i] /\ \A j \in 1..(i - 1) : Place(c)[j] = Place(u)[j]
      BY <1>1, <2>1, <2>4
    <3> QED BY <1>3, <2>4, <3>1 DEF Precedes
  <2> QED BY <2>2, <2>3, <2>4
<1>5. ASSUME Precedes(Place(c), Place(u)) PROVE Precedes(Provenance(d), Provenance(e))
  <2>1. PICK i \in 1..4 : /\ Place(c)[i] < Place(u)[i]
                          /\ \A j \in 1..(i - 1) : Place(c)[j] = Place(u)[j]
    BY <1>3, <1>5 DEF Precedes
  <2>2. CASE i = 4
    <3>1. Provenance(d)[5] < Provenance(e)[5]
      BY <1>2, <2>1, <2>2
    <3>2. \A j \in 1..3 : Provenance(d)[j] = Provenance(e)[j]
      BY <1>1, <2>1, <2>2
    <3>3. \A j \in 1..4 : Provenance(d)[j] = Provenance(e)[j]
      BY <1>2, <3>2
    <3> QED BY <1>3, <3>1, <3>3 DEF Precedes
  <2>3. CASE i \in {1, 2, 3}
    <3>1. Provenance(d)[i] < Provenance(e)[i] /\ \A j \in 1..(i - 1) : Provenance(d)[j] = Provenance(e)[j]
      BY <1>1, <2>1, <2>3
    <3> QED BY <1>3, <2>3, <3>1 DEF Precedes
  <2> QED BY <2>2, <2>3
<1> QED BY <1>4, <1>5

(* What should be accepted, said of the lines, is what the processor       *)
(* accepts, which drops the copies before it looks for collisions.         *)
Agreeing(C) == {c \in C : \A d \in C : d.x.id = c.x.id => Fingerprint(d.x) = Fingerprint(c.x)}

Winner(c, C) ==
  \A d \in Agreeing(C) \ {c} : IF d.x.id = c.x.id THEN Precedes(Place(c), Place(d))
                               ELSE d.x.entity = c.x.entity => d.x.seq # c.x.seq

LEMMA ExpectedWinners ==
  ASSUME NEW m
  PROVE  Expected(m) = {[x |-> c.x, file |-> c.file, late |-> Late(c, Copies(m))] :
                          c \in {c \in Agreeing(Copies(m)) : Winner(c, Copies(m))}}
BY DEF Expected, Agreeing, Winner, Place

LEMMA CopiesOf ==
  ASSUME NEW m \in Manifests
  PROVE  /\ \A d \in Valid(Canon(m)) : \E c \in Copies(m) : Pair(d, c)
         /\ \A c \in Copies(m) : \E d \in Valid(Canon(m)) : Pair(d, c)
         /\ \A b, c \in Copies(m) : b.file = c.file /\ b.pos = c.pos => b = c
<1> DEFINE All == UNION {{[x |-> m[f][n], file |-> f, pos |-> n] : n \in DOMAIN m[f]} : f \in DOMAIN m}
<1>1. ASSUME NEW c \in All
      PROVE  /\ c.file \in DOMAIN m /\ c.pos \in DOMAIN m[c.file]
             /\ c = [x |-> m[c.file][c.pos], file |-> c.file, pos |-> c.pos]
  OBVIOUS
<1>2. \A f \in DOMAIN m : \A n \in DOMAIN m[f] : [x |-> m[f][n], file |-> f, pos |-> n] \in All
  OBVIOUS
<1>3. Copies(m) = Valid(All)
  BY DEF Copies
<1> HIDE DEF All
<1>4. ASSUME NEW d \in Valid(Canon(m)) PROVE \E c \in Copies(m) : Pair(d, c)
  <2>1. d \in Canon(m) /\ Code(d.x) = "VALID"
    BY DEF Valid
  <2>2. d.file \in DOMAIN m /\ d.pos \in DOMAIN m[d.file] /\ d.x = m[d.file][d.pos]
    BY <2>1, CanonElements
  <2>3. [x |-> m[d.file][d.pos], file |-> d.file, pos |-> d.pos] \in All
    BY <1>2, <2>2
  <2> QED BY <1>3, <2>1, <2>2, <2>3 DEF Pair, Valid
<1>5. ASSUME NEW c \in Copies(m) PROVE \E d \in Valid(Canon(m)) : Pair(d, c)
  <2>1. c \in All /\ Code(c.x) = "VALID"
    BY <1>3 DEF Valid
  <2>2. c.file \in DOMAIN m /\ c.pos \in DOMAIN m[c.file] /\ c.x = m[c.file][c.pos]
    BY <1>1, <2>1
  <2>3. [x |-> m[c.file][c.pos], file |-> c.file, rank |-> c.file, pos |-> c.pos] \in Canon(m)
    BY <2>2, CanonElements
  <2> QED BY <2>1, <2>2, <2>3 DEF Pair, Valid
<1>6. \A b, c \in Copies(m) : b.file = c.file /\ b.pos = c.pos => b = c
  BY <1>1, <1>3 DEF Valid
<1> QED BY <1>4, <1>5, <1>6

LEMMA WinnerAccepted ==
  ASSUME NEW m \in Manifests, NEW d \in Valid(Canon(m)), NEW c \in Copies(m), Pair(d, c)
  PROVE  d \in Retained(Valid(Canon(m))) \ Colliding(Retained(Valid(Canon(m))))
           <=> c \in Agreeing(Copies(m)) /\ Winner(c, Copies(m))
<1> DEFINE V == Valid(Canon(m))
           C == Copies(m)
<1>1. Placed(V) /\ Distinct(V) /\ V \subseteq Canon(m)
  BY CanonElements DEF Valid, Placed, Distinct
<1>2. ASSUME NEW e \in V, NEW u \in C, Pair(e, u) PROVE e \notin Conflicting(V) <=> u \in Agreeing(C)
  <2>1. ASSUME e \notin Conflicting(V), NEW w \in C, w.x.id = u.x.id PROVE Fingerprint(w.x) = Fingerprint(u.x)
    <3>1. PICK f \in V : Pair(f, w)
      BY CopiesOf
    <3> QED BY <1>2, <2>1, <3>1 DEF Conflicting, SameId, Pair
  <2>2. ASSUME u \in Agreeing(C), NEW f \in V, f.x.id = e.x.id PROVE Fingerprint(f.x) = Fingerprint(e.x)
    <3>1. PICK w \in C : Pair(f, w)
      BY CopiesOf
    <3> QED BY <1>2, <2>2, <3>1 DEF Agreeing, Pair
  <2> QED BY <2>1, <2>2 DEF Agreeing, Conflicting, SameId
<1>3. ASSUME NEW e \in V, NEW u \in C, Pair(e, u) PROVE e = d <=> u = c
  BY <1>1, <1>3, CopiesOf DEF Pair, Distinct
<1>4. ASSUME NEW e \in V, NEW u \in C, Pair(e, u)
      PROVE  Precedes(Provenance(d), Provenance(e)) <=> Precedes(Place(c), Place(u))
  BY <1>1, <1>4, PlaceOrder
<1>5. ASSUME d \in Retained(V), d \notin Colliding(Retained(V)) PROVE c \in Agreeing(C) /\ Winner(c, C)
  <2>1. c \in Agreeing(C)
    BY <1>2, <1>5 DEF Retained
  <2>2. ASSUME NEW u \in Agreeing(C) \ {c}
        PROVE  IF u.x.id = c.x.id THEN Precedes(Place(c), Place(u))
               ELSE u.x.entity = c.x.entity => u.x.seq # c.x.seq
    <3>1. PICK e \in V : Pair(e, u)
      BY CopiesOf DEF Agreeing
    <3>2. e # d /\ e \notin Conflicting(V) /\ u \in C
      BY <1>2, <1>3, <3>1 DEF Agreeing
    <3>3. CASE u.x.id = c.x.id
      <4>1. e \in SameId(d, V) \ {d}
        BY <3>1, <3>2, <3>3 DEF SameId, Pair
      <4> QED BY <1>4, <1>5, <3>1, <3>2, <3>3, <4>1 DEF Retained
    <3>4. CASE u.x.id # c.x.id
      <4>1. PICK r \in Retained(V) : r.x.id = e.x.id /\ Fingerprint(r.x) = Fingerprint(e.x)
        BY <1>1, <3>2, RetainedExists
      <4>2. r # d /\ r.x.entity = u.x.entity /\ r.x.seq = u.x.seq
        BY <3>1, <3>4, <4>1, SameFingerprint DEF Pair
      <4>3. ~(r.x.entity = d.x.entity /\ r.x.seq = d.x.seq)
        BY <1>5, <4>2 DEF Colliding
      <4> QED BY <3>4, <4>2, <4>3 DEF Pair
    <3> QED BY <3>3, <3>4
  <2> QED BY <2>1, <2>2 DEF Winner
<1>6. ASSUME c \in Agreeing(C), Winner(c, C) PROVE d \in Retained(V) \ Colliding(Retained(V))
  <2>1. d \notin Conflicting(V)
    BY <1>2, <1>6
  <2>2. ASSUME NEW e \in SameId(d, V) \ {d} PROVE Precedes(Provenance(d), Provenance(e))
    <3>1. e \in V /\ e.x.id = d.x.id
      BY DEF SameId
    <3>2. PICK u \in C : Pair(e, u)
      BY <3>1, CopiesOf
    <3>3. e \notin Conflicting(V)
      BY <2>1, <3>1 DEF Conflicting, SameId
    <3>4. u \in Agreeing(C) \ {c} /\ u.x.id = c.x.id
      BY <1>2, <1>3, <3>1, <3>2, <3>3 DEF Pair
    <3> QED BY <1>4, <1>6, <3>1, <3>2, <3>4 DEF Winner
  <2>3. d \in Retained(V)
    BY <2>1, <2>2 DEF Retained
  <2>4. ASSUME NEW e \in Retained(V) \ {d} PROVE ~(e.x.entity = d.x.entity /\ e.x.seq = d.x.seq)
    <3>1. e \in V /\ e \notin Conflicting(V)
      BY DEF Retained
    <3>2. PICK u \in C : Pair(e, u)
      BY <3>1, CopiesOf
    <3>3. e.x.id # d.x.id
      BY <1>1, <2>3, <2>4, RetainedOnce
    <3>4. u \in Agreeing(C) \ {c} /\ u.x.id # c.x.id
      BY <1>2, <1>3, <3>1, <3>2, <3>3 DEF Pair
    <3>5. ~(u.x.entity = c.x.entity /\ u.x.seq = c.x.seq)
      BY <1>6, <3>4 DEF Winner
    <3> QED BY <3>2, <3>5 DEF Pair
  <2> QED BY <2>3, <2>4 DEF Colliding
<1> QED BY <1>5, <1>6

LEMMA AcceptedExpected ==
  ASSUME NEW m \in Manifests PROVE Accepted(Valid(Canon(m))) = Expected(m)
<1> DEFINE V == Valid(Canon(m))
           C == Copies(m)
           Wins(d) == d \in Retained(V) \ Colliding(Retained(V))
<1>1. ASSUME NEW d \in V, NEW c \in C, Pair(d, c) PROVE Late(d, V) = Late(c, C)
  <2>1. \A e \in V : \E u \in C : e.x = u.x /\ IngestionBatch(e) = IngestionBatch(u)
    BY CopiesOf DEF Pair, IngestionBatch
  <2>2. \A u \in C : \E e \in V : e.x = u.x /\ IngestionBatch(e) = IngestionBatch(u)
    BY CopiesOf DEF Pair, IngestionBatch
  <2>3. d.x = c.x /\ IngestionBatch(d) = IngestionBatch(c)
    BY <1>1 DEF Pair, IngestionBatch
  <2> QED BY <2>1, <2>2, <2>3 DEF Late
<1>2. ASSUME NEW d \in V, Wins(d)
      PROVE  [x |-> d.x, file |-> d.file, late |-> Late(d, V)] \in Expected(m)
  <2>1. PICK c \in C : Pair(d, c)
    BY CopiesOf
  <2>2. c \in Agreeing(C) /\ Winner(c, C)
    BY <1>2, <2>1, WinnerAccepted
  <2>3. Late(d, V) = Late(c, C)
    BY <1>1, <2>1
  <2> QED BY <2>1, <2>2, <2>3, ExpectedWinners DEF Pair
<1>3. ASSUME NEW c \in Agreeing(C), Winner(c, C)
      PROVE  [x |-> c.x, file |-> c.file, late |-> Late(c, C)] \in Accepted(V)
  <2>1. c \in C
    BY DEF Agreeing
  <2>2. PICK d \in V : Pair(d, c)
    BY <2>1, CopiesOf
  <2>3. Wins(d)
    BY <1>3, <2>1, <2>2, WinnerAccepted
  <2>4. Late(d, V) = Late(c, C)
    BY <1>1, <2>1, <2>2
  <2> QED BY <2>2, <2>3, <2>4 DEF Accepted, Pair
<1>4. Retained(V) \subseteq V
  BY DEF Retained
<1>5. Accepted(V) \subseteq Expected(m)
  <2> HIDE DEF V, C
  <2> QED BY <1>2, <1>4 DEF Accepted
<1>6. Expected(m) \subseteq Accepted(V)
  BY <1>3, ExpectedWinners
<1> QED BY <1>5, <1>6
(* What is accepted are lines of the files, and if these contradict one    *)
(* another nowhere, then some copy of each of them.                        *)
LEMMA ExpectedLine ==
  ASSUME NEW m, NEW a \in Expected(m) PROVE \E c \in Copies(m) : a.x = c.x
BY ExpectedWinners DEF Agreeing

LEMMA ExpectedCopy ==
  ASSUME NEW m \in Manifests,
         \A b, c \in Copies(m) : b.x.id = c.x.id \/ (b.x.entity = c.x.entity /\ b.x.seq = c.x.seq)
                                  => Fingerprint(b.x) = Fingerprint(c.x),
         NEW c \in Copies(m)
  PROVE  \E a \in Expected(m) : Fingerprint(a.x) = Fingerprint(c.x)
<1> DEFINE V == Valid(Canon(m))
<1>1. Placed(V) /\ Distinct(V)
  BY CanonElements DEF Valid, Placed, Distinct
<1>2. \A d, e \in V : d.x.id = e.x.id \/ (d.x.entity = e.x.entity /\ d.x.seq = e.x.seq)
                        => Fingerprint(d.x) = Fingerprint(e.x)
  <2>1. ASSUME NEW d \in V PROVE \E b \in Copies(m) : d.x = b.x
    BY CopiesOf DEF Pair
  <2> QED BY <2>1
<1>3. PICK d \in V : d.x = c.x
  BY CopiesOf DEF Pair
<1>4. d \notin Conflicting(V)
  BY <1>2 DEF Conflicting, SameId
<1>5. PICK r \in Retained(V) : Fingerprint(r.x) = Fingerprint(d.x)
  BY <1>1, <1>4, RetainedExists
<1>6. r \notin Colliding(Retained(V))
  <2> SUFFICES ASSUME NEW e \in Retained(V) \ {r}, e.x.entity = r.x.entity, e.x.seq = r.x.seq
               PROVE  FALSE
    BY DEF Colliding
  <2>1. r \in V /\ e \in V
    BY DEF Retained
  <2>2. e.x.id = r.x.id
    BY <1>2, <2>1, SameFingerprint
  <2> QED BY <1>1, <2>2, RetainedOnce
<1>7. [x |-> r.x, file |-> r.file, late |-> Late(r, V)] \in Accepted(V)
  BY <1>6 DEF Accepted
<1> QED BY <1>3, <1>5, <1>7, AcceptedExpected
-----------------------------------------------------------------------------
(* Every line goes somewhere, and nowhere twice.                           *)
LEMMA ValidImages ==
  ASSUME NEW x \in Lines
  PROVE  Code(x) = "VALID" <=> x.text = "object" /\ x.fails = {} /\ ImageCode(x) = "VALID"
<1>1. x.text = "object" /\ x.fails = {} => Code(x) = ImageCode(x)
  BY DEF Code
<1>2. Code(x) = "VALID" => x.text = "object" /\ x.fails = {}
  BY ValidLine DEF Passed
<1> QED BY <1>1, <1>2

(* A line and its copy in another batch.                                   *)
LEMMA SameEventFields ==
  ASSUME NEW x \in Lines, NEW y \in Lines
  PROVE  SameEvent(x, y) <=> /\ x.text = y.text /\ x.fails = y.fails
                             /\ Fingerprint(x) = Fingerprint(y)
<1> DEFINE z == [y EXCEPT !.batch = x.batch]
<1>1. z \in Lines /\ z.batch = x.batch
  BY DEF Lines
<1>2. /\ z.text = y.text /\ z.fails = y.fails /\ z.id = y.id /\ z.entity = y.entity /\ z.op = y.op
      /\ z.seq = y.seq /\ z.ts = y.ts /\ z.after = y.after /\ z.before = y.before /\ z.data = y.data
  BY DEF Lines
<1> HIDE DEF z
<1>3. x = z <=> /\ x.text = z.text /\ x.fails = z.fails /\ x.id = z.id /\ x.entity = z.entity
                /\ x.op = z.op /\ x.seq = z.seq /\ x.ts = z.ts /\ x.after = z.after
                /\ x.before = z.before /\ x.data = z.data
  BY <1>1 DEF Lines
<1>4. SameEvent(x, y) <=> x = z
  BY DEF SameEvent, z
<1>5. Fingerprint(x) = Fingerprint(y) <=>
        /\ x.id = y.id /\ x.entity = y.entity /\ x.op = y.op /\ x.seq = y.seq /\ x.ts = y.ts
        /\ x.after = y.after /\ x.before = y.before /\ x.data = y.data
  BY DEF Fingerprint
<1> QED BY <1>2, <1>3, <1>4, <1>5

LEMMA SameEventValid ==
  ASSUME NEW x \in Lines, NEW y \in Lines, SameEvent(x, y), Code(x) = "VALID"
  PROVE  Code(y) = "VALID"
<1>1. /\ x.text = y.text /\ x.fails = y.fails
      /\ x.op = y.op /\ x.after = y.after /\ x.before = y.before
  BY SameEventFields, SameFingerprint
<1>2. ImageCode(x) = ImageCode(y)
  BY <1>1 DEF ImageCode, Present, Upper
<1> QED BY <1>1, <1>2, ValidImages

(* No check gives the code of a collision.                                 *)
LEMMA CodeOfCheck ==
  ASSUME NEW x \in Lines PROVE Code(x) # "SEQUENCE_CONFLICT"
<1> DEFINE failed == {i \in DOMAIN Codes : Codes[i] \in x.fails}
           first == CHOOSE i \in failed : \A j \in failed : i <= j
<1>1. DOMAIN Codes = 1..13 /\ \A i \in 1..13 : Codes[i] # "SEQUENCE_CONFLICT"
  BY DEF Codes
<1>2. x.text \in {"object", "malformed", "unreadable"}
  BY DEF Lines
<1>3. Code(x) = CASE x.text = "unreadable" -> "UnicodeDecodeError"
                  [] x.text = "malformed" -> "MALFORMED_JSON"
                  [] x.text = "object" /\ failed # {} -> Codes[first]
                  [] OTHER -> ImageCode(x)
  BY DEF Code
<1>4. failed # {} => first \in 1..13
  <2>1. failed \in SUBSET (1..13)
    BY <1>1
  <2> HIDE DEF failed
  <2> QED BY <2>1, LeastIndex
<1>5. ImageCode(x) # "SEQUENCE_CONFLICT"
  BY DEF ImageCode
<1> HIDE DEF failed, first
<1> QED BY <1>1, <1>2, <1>3, <1>4, <1>5

IsAccepted(x, m) == \E a \in Expected(m) : SameEvent(a.x, x)

IsQuarantined(f, n, m) ==
  \E q \in Quarantine(Canon(m)) :
    \/ q.file = f /\ q.pos = n /\ q.x = m[f][n]
    \/ q.code = "SEQUENCE_CONFLICT" /\ SameEvent(q.x, m[f][n])

LEMMA OneFate ==
  ASSUME NEW m \in Manifests, NEW f \in DOMAIN m, NEW n \in DOMAIN m[f]
  PROVE  IsAccepted(m[f][n], m) # IsQuarantined(f, n, m)
<1> DEFINE D == Canon(m)
           V == Valid(D)
           R == Retained(V)
<1> PICK d \in D : d.x = m[f][n] /\ d.file = f /\ d.pos = n
  BY CanonElements
<1>1. /\ Placed(V) /\ Distinct(D) /\ Distinct(V) /\ V \subseteq D /\ R \subseteq V
      /\ \A e \in D : e.x \in Lines
  BY CanonElements DEF Valid, Placed, Distinct, Retained
<1>2. IsAccepted(m[f][n], m) <=> \E e \in R \ Colliding(R) : SameEvent(e.x, d.x)
  <2>1. Expected(m) = Accepted(V)
    BY AcceptedExpected
  <2>2. \A a \in Accepted(V) : \E e \in R \ Colliding(R) : a.x = e.x
    BY DEF Accepted
  <2>3. ASSUME NEW e \in R \ Colliding(R) PROVE \E a \in Accepted(V) : a.x = e.x
    <3>1. [x |-> e.x, file |-> e.file, late |-> Late(e, V)] \in Accepted(V)
      BY DEF Accepted
    <3> QED BY <3>1
  <2> HIDE DEF R, V
  <2> QED BY <2>1, <2>2, <2>3 DEF IsAccepted
<1>3. IsQuarantined(f, n, m) <=>
        \E e \in D : \E code : Reason(code, e, D) /\ (e = d \/ (code = "SEQUENCE_CONFLICT" /\ SameEvent(e.x, d.x)))
  <2>1. ASSUME NEW e \in D, NEW code, Reason(code, e, D),
               e = d \/ (code = "SEQUENCE_CONFLICT" /\ SameEvent(e.x, d.x))
        PROVE  IsQuarantined(f, n, m)
    <3>1. Reject(code, e) \in Quarantine(D)
      BY <2>1, QuarantineElements
    <3> QED BY <2>1, <3>1 DEF IsQuarantined, Reject
  <2>2. ASSUME NEW q \in Quarantine(D),
               \/ q.file = f /\ q.pos = n /\ q.x = m[f][n]
               \/ q.code = "SEQUENCE_CONFLICT" /\ SameEvent(q.x, m[f][n])
        PROVE  \E e \in D : \E code :
                 Reason(code, e, D) /\ (e = d \/ (code = "SEQUENCE_CONFLICT" /\ SameEvent(e.x, d.x)))
    <3>1. PICK e \in D : \E code : Reason(code, e, D) /\ q = Reject(code, e)
      BY QuarantineElements
    <3>2. PICK code : Reason(code, e, D) /\ q = Reject(code, e)
      BY <3>1
    <3>3. q.code = code /\ q.x = e.x /\ q.file = e.file /\ q.pos = e.pos
      BY <3>2 DEF Reject
    <3> QED BY <1>1, <2>2, <3>2, <3>3 DEF Distinct
  <2> QED BY <2>1, <2>2 DEF IsQuarantined
<1>4. ASSUME NEW e \in V, SameEvent(e.x, d.x) \/ e = d
      PROVE  d \in V /\ e.x.id = d.x.id /\ Fingerprint(e.x) = Fingerprint(d.x)
  <2>1. e.x \in Lines /\ d.x \in Lines /\ Code(e.x) = "VALID"
    BY <1>1 DEF Valid
  <2> QED BY <1>4, <2>1, SameEventFields, SameEventValid, SameFingerprint DEF Valid
<1>5. \A e \in D : Reason("SEQUENCE_CONFLICT", e, D) <=> e \in Colliding(R)
  BY <1>1, CodeOfCheck DEF Reason
<1>6. CASE d \notin V
  <2>1. Reason(Code(d.x), d, D)
    BY <1>6 DEF Reason
  <2> QED BY <1>1, <1>2, <1>3, <1>4, <1>6, <2>1
<1>7. CASE d \in Conflicting(V)
  <2>1. Reason("DUPLICATE_EVENT_CONFLICT", d, D)
    BY <1>7 DEF Reason
  <2>2. ASSUME NEW e \in R, SameEvent(e.x, d.x) PROVE FALSE
    <3>1. PICK c \in V : c.x.id = d.x.id /\ Fingerprint(c.x) # Fingerprint(d.x)
      BY <1>7 DEF Conflicting, SameId
    <3>2. e \in V /\ e.x.id = d.x.id /\ Fingerprint(e.x) = Fingerprint(d.x)
      BY <1>1, <1>4, <2>2
    <3>3. e \in Conflicting(V)
      BY <3>1, <3>2 DEF Conflicting, SameId
    <3> QED BY <3>3 DEF Retained
  <2> QED BY <1>2, <1>3, <2>1, <2>2
<1>8. CASE d \in V /\ d \notin Conflicting(V)
  <2>1. PICK r \in R : r.x.id = d.x.id /\ Fingerprint(r.x) = Fingerprint(d.x)
    BY <1>1, <1>8, RetainedExists
  <2>2. SameEvent(r.x, d.x)
    <3>1. r.x \in Lines /\ d.x \in Lines /\ Code(r.x) = "VALID" /\ Code(d.x) = "VALID"
      BY <1>1, <1>8 DEF Valid
    <3>2. r.x.text = d.x.text /\ r.x.fails = d.x.fails
      BY <3>1, ValidImages
    <3> QED BY <2>1, <3>1, <3>2, SameEventFields
  <2>3. ASSUME NEW e \in R, SameEvent(e.x, d.x) \/ e = d PROVE e = r
    <3>1. e.x.id = r.x.id
      BY <1>1, <1>4, <2>1, <2>3
    <3> QED BY <1>1, <3>1, RetainedOnce
  <2>4. Colliding(R) \subseteq R
    BY DEF Colliding
  <2>5. CASE r \in Colliding(R)
    <3>1. Reason("SEQUENCE_CONFLICT", r, D)
      BY <2>5 DEF Reason
    <3> QED BY <1>1, <1>2, <1>3, <2>2, <2>3, <2>5, <3>1
  <2>6. CASE r \notin Colliding(R)
    <3>1. ASSUME NEW code, Reason(code, d, D) PROVE FALSE
      BY <1>8, <2>3, <2>4, <2>6, <3>1 DEF Reason
    <3>2. ASSUME NEW e \in D, Reason("SEQUENCE_CONFLICT", e, D), SameEvent(e.x, d.x) PROVE FALSE
      BY <1>5, <2>3, <2>4, <2>6, <3>2
    <3> QED BY <1>2, <1>3, <2>1, <2>2, <2>6, <3>1, <3>2
  <2> QED BY <2>5, <2>6
<1> QED BY <1>6, <1>7, <1>8
-----------------------------------------------------------------------------
(* The inductive invariant: runs list what they hashed; one that read what *)
(* it had hashed writes what the manifest determines, and a returned id    *)
(* has both of its files.                                                  *)
Listed == \A r \in Runners : run[r] # Idle => Enumerates(run[r].paths, run[r].id)

Clean(r) == run[r].id \notin tainted

ReadAsHashed ==
  \A r \in Runners : run[r].pc \in {"accept", "quarantine"} /\ Clean(r) => run[r].read = run[r].id

AcceptedWritten ==
  \A r \in Runners : run[r].pc = "quarantine" /\ Clean(r) =>
    At(accepted, run[r].id) = Expected(run[r].id)

QuarantineDetermined ==
  \A id \in DOMAIN quarantined \ tainted : quarantined[id] = Quarantine(Canon(id))

ReturnedWritten ==
  \A id \in returned \ tainted : /\ At(accepted, id) = Expected(id)
                                 /\ At(quarantined, id) = Quarantine(Canon(id))

Determined ==
  /\ Listed /\ ReadAsHashed /\ AcceptedWritten
  /\ OutputsDetermined /\ QuarantineDetermined /\ ReturnedWritten

OInv == IInv /\ Determined

(* A list of the landing directory, less the files that are not there.     *)
LEMMA StartedLists ==
  ASSUME TypeOK, NEW paths \in Submissions PROVE Enumerates(paths, Manifest(Existing(paths)))
<1>1. paths \in Seq(Files) /\ \A i, j \in DOMAIN paths : paths[i] = paths[j] => i = j
  BY InputAssumption
<1>2. DOMAIN Manifest(Existing(paths)) = Existing(paths)
  BY DEF Manifest
<1> QED BY <1>1, <1>2 DEF Enumerates, Existing

(* A run that ends, or has yet to read, has nothing to answer for.         *)
LEMMA RunsKept ==
  ASSUME OInv, NEW r \in Runners, run' = [run EXCEPT ![r] = run'[r]],
         run'[r] = Idle \/ (run'[r].pc = "read" /\ Enumerates(run'[r].paths, run'[r].id)),
         UNCHANGED <<accepted, tainted>>
  PROVE  Listed' /\ ReadAsHashed' /\ AcceptedWritten'
<1>1. \A q \in Runners \ {r} : run'[q] = run[q]
  BY DEF OInv, IInv, TypeOK
<1>2. run'[r].pc \notin {"accept", "quarantine"}
  BY DEF Idle
<1>3. Listed'
  BY <1>1 DEF OInv, Determined, Listed, Enumerates
<1>4. ReadAsHashed' /\ AcceptedWritten'
  BY <1>1, <1>2 DEF OInv, Determined, ReadAsHashed, AcceptedWritten, Clean, At
<1> QED BY <1>3, <1>4

LEMMA OutputsKept ==
  ASSUME OInv, UNCHANGED <<accepted, quarantined, returned, tainted>>
  PROVE  OutputsDetermined' /\ QuarantineDetermined' /\ ReturnedWritten'
BY DEF OInv, Determined, OutputsDetermined, QuarantineDetermined, ReturnedWritten, At

LEMMA StartDetermined ==
  ASSUME OInv, NEW r \in Runners, NEW paths \in Submissions, StartRun(r, paths) PROVE Determined'
<1> PICK m : m = Manifest(Existing(paths))
  OBVIOUS
<1>1. run' = [run EXCEPT ![r] = [pc |-> "read", paths |-> paths, id |-> m, read |-> m]]
  BY DEF StartRun, Become
<1>2. run'[r] = [pc |-> "read", paths |-> paths, id |-> m, read |-> m]
  BY <1>1 DEF OInv, IInv, TypeOK
<1>3. Enumerates(paths, m) /\ UNCHANGED <<accepted, quarantined, returned, tainted>>
  BY StartedLists DEF OInv, IInv, StartRun
<1>4. run'[r].pc = "read" /\ run'[r].paths = paths /\ run'[r].id = m
  BY <1>2
<1>5. run' = [run EXCEPT ![r] = run'[r]]
  <2> PICK new : new = [pc |-> "read", paths |-> paths, id |-> m, read |-> m]
    OBVIOUS
  <2> QED BY <1>1, <1>2
<1> QED BY <1>3, <1>4, <1>5, RunsKept, OutputsKept DEF Determined

(* Dying, and everything else that ends a run without an output.           *)
LEMMA LeaveDetermined ==
  ASSUME OInv, NEW r \in Runners, Become(r, Idle), UNCHANGED <<accepted, quarantined, returned, tainted>>
  PROVE  Determined'
<1>1. run' = [run EXCEPT ![r] = Idle] /\ run'[r] = Idle
  BY DEF Become, OInv, IInv, TypeOK
<1> QED BY <1>1, RunsKept, OutputsKept DEF Determined

(* A run that reads other bytes than it has hashed taints its id.          *)
LEMMA ReadDetermined ==
  ASSUME OInv, NEW r \in Runners, ReadFiles(r) PROVE Determined'
<1> PICK m : m = Manifest(DOMAIN run[r].id)
  OBVIOUS
<1>1. /\ UNCHANGED <<accepted, quarantined, returned>>
      /\ tainted' = IF m = run[r].id THEN tainted ELSE tainted \cup {run[r].id}
      /\ Become(r, Idle) \/ Become(r, [run[r] EXCEPT !.pc = "accept", !.read = m])
  BY DEF ReadFiles
<1>2. run[r] \in Runs /\ run[r] # Idle /\ Enumerates(run[r].paths, run[r].id)
  BY BusyRun DEF ReadFiles, OInv, IInv, Determined, Listed
<1>3. tainted \subseteq tainted' /\ (run[r].id \notin tainted' => m = run[r].id)
  BY <1>1
<1>4. OutputsDetermined' /\ QuarantineDetermined' /\ ReturnedWritten'
  BY <1>1, <1>3 DEF OInv, Determined, OutputsDetermined, QuarantineDetermined, ReturnedWritten, At
<1>5. run'[r] = Idle \/ (/\ run'[r].pc = "accept" /\ run'[r].read = m
                         /\ run'[r].id = run[r].id /\ run'[r].paths = run[r].paths)
  <2>1. CASE Become(r, Idle)
    BY <2>1 DEF Become, OInv, IInv, TypeOK
  <2> PICK new : new = [run[r] EXCEPT !.pc = "accept", !.read = m]
    OBVIOUS
  <2>2. /\ new.pc = "accept" /\ new.read = m
        /\ new.id = run[r].id /\ new.paths = run[r].paths
    BY <1>2 DEF Runs
  <2>3. CASE Become(r, new)
    <3>1. run'[r] = new
      BY <2>3 DEF Become, OInv, IInv, TypeOK
    <3> QED BY <2>2, <3>1
  <2> QED BY <1>1, <2>1, <2>3
<1>6. \A q \in Runners \ {r} : run'[q] = run[q]
  BY <1>1 DEF Become, OInv, IInv, TypeOK
<1>7. Listed'
  BY <1>2, <1>5, <1>6 DEF OInv, Determined, Listed, Enumerates
<1>8. ReadAsHashed'
  BY <1>3, <1>5, <1>6 DEF OInv, Determined, ReadAsHashed, Clean, Idle
<1>9. AcceptedWritten'
  BY <1>1, <1>3, <1>5, <1>6 DEF OInv, Determined, AcceptedWritten, Clean, At, Idle
<1> QED BY <1>4, <1>7, <1>8, <1>9 DEF Determined

LEMMA AcceptDetermined ==
  ASSUME OInv, NEW r \in Runners, WriteAccepted(r) PROVE Determined'
<1> PICK id : id = run[r].id
  OBVIOUS
<1> PICK A : A = Accepted(Valid(Read(r)))
  OBVIOUS
<1>1. /\ run[r] \in Runs /\ run[r] # Idle /\ Enumerates(run[r].paths, id) /\ id \in Manifests
      /\ run[r].pc = "accept"
  BY BusyRun DEF WriteAccepted, OInv, IInv, Determined, Listed, Runs
<1>2. UNCHANGED <<quarantined, returned, tainted>>
  BY DEF WriteAccepted
<1>3. CASE Become(r, Idle) /\ UNCHANGED accepted
  BY <1>2, <1>3, LeaveDetermined
<1>4. CASE /\ Become(r, [run[r] EXCEPT !.pc = "quarantine"])
           /\ accepted' = IF A = {} THEN accepted ELSE Put(accepted, id, A)
  <2>1. id \notin tainted => A = Expected(id)
    <3>1. id \notin tainted => run[r].read = id
      BY <1>1 DEF OInv, Determined, ReadAsHashed, Clean
    <3> QED BY <1>1, <3>1, OutputsOf, AcceptedExpected DEF Read
  <2>2. \A i \in DOMAIN accepted' : \/ i = id /\ accepted'[i] = A
                                    \/ i \in DOMAIN accepted /\ accepted'[i] = accepted[i]
    BY <1>4 DEF Put
  <2>3. \A i : i # id => At(accepted', i) = At(accepted, i)
    BY <1>4 DEF At, Put
  <2>4. OutputsDetermined'
    BY <1>2, <2>1, <2>2 DEF OInv, Determined, OutputsDetermined
  <2>5. id \notin tainted => At(accepted', id) = Expected(id)
    <3>1. A # {} => id \in DOMAIN accepted'
      BY <1>4 DEF Put
    <3>2. id \notin DOMAIN accepted' => At(accepted', id) = A
      BY <3>1 DEF At
    <3> QED BY <1>2, <2>1, <2>4, <3>2 DEF OutputsDetermined, At
  <2>6. QuarantineDetermined'
    BY <1>2 DEF OInv, Determined, QuarantineDetermined
  <2>7. ReturnedWritten'
    BY <1>2, <2>3, <2>5 DEF OInv, Determined, ReturnedWritten, At
  <2>8. /\ run'[r].pc = "quarantine" /\ run'[r].id = id /\ run'[r].paths = run[r].paths
        /\ run'[r].read = run[r].read
        /\ \A q \in Runners \ {r} : run'[q] = run[q]
    BY <1>1, <1>4 DEF Become, OInv, IInv, TypeOK, Runs
  <2>9. Listed'
    BY <1>1, <2>8 DEF OInv, Determined, Listed, Enumerates
  <2>10. ReadAsHashed'
    BY <1>1, <1>2, <2>8 DEF OInv, Determined, ReadAsHashed, Clean
  <2>11. AcceptedWritten'
    <3> SUFFICES ASSUME NEW q \in Runners, run'[q].pc = "quarantine", run'[q].id \notin tainted
                 PROVE  At(accepted', run'[q].id) = Expected(run'[q].id)
      BY <1>2 DEF AcceptedWritten, Clean
    <3>1. CASE run'[q].id = id
      BY <2>5, <3>1
    <3>2. CASE run'[q].id # id
      <4>1. run'[q] = run[q]
        BY <2>8, <3>2
      <4>2. At(accepted, run[q].id) = Expected(run[q].id)
        BY <4>1 DEF OInv, Determined, AcceptedWritten, Clean
      <4>3. At(accepted', run[q].id) = At(accepted, run[q].id)
        BY <2>3, <3>2, <4>1
      <4> QED BY <4>1, <4>2, <4>3
    <3> QED BY <3>1, <3>2
  <2> QED BY <2>4, <2>6, <2>7, <2>9, <2>10, <2>11 DEF Determined
<1> QED BY <1>3, <1>4 DEF WriteAccepted

LEMMA QuarantineStepDetermined ==
  ASSUME OInv, NEW r \in Runners, WriteQuarantine(r) PROVE Determined'
<1> PICK id : id = run[r].id
  OBVIOUS
<1> PICK Q : Q = Quarantine(Read(r))
  OBVIOUS
<1>1. /\ run[r] \in Runs /\ Enumerates(run[r].paths, id) /\ id \in Manifests /\ run[r].pc = "quarantine"
  BY BusyRun DEF WriteQuarantine, OInv, IInv, Determined, Listed, Runs
<1>2. /\ UNCHANGED <<accepted, tainted>> /\ Become(r, Idle)
      /\ returned' = returned \cup {id}
      /\ quarantined' = IF Q = {} THEN quarantined ELSE Put(quarantined, id, Q)
  BY DEF WriteQuarantine
<1>3. id \notin tainted => Q = Quarantine(Canon(id)) /\ At(accepted, id) = Expected(id)
  <2>1. id \notin tainted => run[r].read = id /\ At(accepted, id) = Expected(id)
    BY <1>1 DEF OInv, Determined, ReadAsHashed, AcceptedWritten, Clean
  <2> QED BY <1>1, <2>1, OutputsOf DEF Read
<1>4. \A i \in DOMAIN quarantined' : \/ i = id /\ quarantined'[i] = Q
                                     \/ i \in DOMAIN quarantined /\ quarantined'[i] = quarantined[i]
  BY <1>2 DEF Put
<1>5. \A i : i # id => At(quarantined', i) = At(quarantined, i)
  BY <1>2 DEF At, Put
<1>6. QuarantineDetermined'
  BY <1>2, <1>3, <1>4 DEF OInv, Determined, QuarantineDetermined
<1>7. id \notin tainted => At(quarantined', id) = Quarantine(Canon(id))
  <2>1. Q # {} => id \in DOMAIN quarantined'
    BY <1>2 DEF Put
  <2>2. id \notin DOMAIN quarantined' => At(quarantined', id) = Q
    BY <2>1 DEF At
  <2> QED BY <1>2, <1>3, <1>6, <2>2 DEF QuarantineDetermined, At
<1>8. ReturnedWritten'
  BY <1>2, <1>3, <1>5, <1>7 DEF OInv, Determined, ReturnedWritten, At
<1>9. OutputsDetermined'
  BY <1>2 DEF OInv, Determined, OutputsDetermined
<1>10. run' = [run EXCEPT ![r] = run'[r]] /\ run'[r] = Idle
  BY <1>2 DEF Become, OInv, IInv, TypeOK
<1> QED BY <1>2, <1>6, <1>8, <1>9, <1>10, RunsKept DEF Determined

(* The landing writer touches no output.                                   *)
LEMMA OtherDetermined ==
  ASSUME OInv, UNCHANGED <<accepted, quarantined, run, returned, tainted>> PROVE Determined'
<1>1. Listed' /\ ReadAsHashed' /\ AcceptedWritten'
  BY DEF OInv, Determined, Listed, Enumerates, ReadAsHashed, AcceptedWritten, Clean, At
<1> QED BY <1>1, OutputsKept DEF Determined

LEMMA OutputInvariant == Spec => []OInv
<1>1. Init => OInv
  <2> SUFFICES ASSUME Init PROVE Determined
    BY InitInvariant DEF OInv
  <2> QED BY DEF Init, Determined, Listed, ReadAsHashed, AcceptedWritten, OutputsDetermined,
             QuarantineDetermined, ReturnedWritten, EmptyFn, Idle
<1>2. OInv /\ [Next]_vars => OInv'
  <2> SUFFICES ASSUME OInv, [Next]_vars PROVE Determined'
    BY NextInvariant DEF OInv
  <2>1. CASE UNCHANGED vars
    BY <2>1, OtherDetermined DEF vars
  <2>2. CASE \E f \in Files, c \in Rewrites : Rewrite(f, c)
    BY <2>2, OtherDetermined DEF Rewrite
  <2>3. ASSUME NEW r \in Runners, Die(r) PROVE Determined'
    BY <2>3, LeaveDetermined DEF Die
  <2>4. CASE \E r \in Runners, paths \in Submissions : StartRun(r, paths)
    BY <2>4, StartDetermined
  <2>5. CASE \E r \in Runners : ReadFiles(r) \/ WriteAccepted(r) \/ WriteQuarantine(r)
    BY <2>5, ReadDetermined, AcceptDetermined, QuarantineStepDetermined
  <2> QED BY <2>1, <2>2, <2>3, <2>4, <2>5 DEF Next
<1> QED BY <1>1, <1>2, PTL DEF Spec
-----------------------------------------------------------------------------
(* The accepted file of a processing id is the one its files should give:  *)
(* one copy, the first by batch, path and position, of each valid event    *)
(* whose copies agree and whose sequence number nobody else claims.  Not   *)
(* the order of the list, nor the overlap, death or repetition of runs, nor *)
(* what is written over the files in the meantime changes it, unless a run *)
(* read other bytes than it had hashed.                                    *)
THEOREM OutputsAreDetermined == Spec => []OutputsDetermined
<1>1. OInv => OutputsDetermined
  BY DEF OInv, Determined
<1> QED BY <1>1, OutputInvariant, PTL

(* Of a processing id that was returned, every line of every file is       *)
(* accounted for exactly once: it is, or copies, an accepted event, or it  *)
(* is quarantined or copies what lost its sequence number.                 *)
THEOREM NoLineLost == Spec => []NothingLost
<1>1. OInv => NothingLost
  <2> SUFFICES ASSUME OInv, NEW id \in returned \ tainted, NEW f \in DOMAIN id, NEW n \in DOMAIN id[f]
               PROVE  (\E a \in At(accepted, id) : SameEvent(a.x, id[f][n]))
                        # (\E q \in At(quarantined, id) :
                             \/ q.file = f /\ q.pos = n /\ q.x = id[f][n]
                             \/ q.code = "SEQUENCE_CONFLICT" /\ SameEvent(q.x, id[f][n]))
    BY DEF NothingLost
  <2>1. id \in Manifests
    BY DEF OInv, IInv, TypeOK
  <2>2. At(accepted, id) = Expected(id) /\ At(quarantined, id) = Quarantine(Canon(id))
    BY DEF OInv, Determined, ReturnedWritten
  <2> QED BY <2>1, <2>2, OneFate DEF IsAccepted, IsQuarantined
<1> QED BY <1>1, OutputInvariant, PTL
=============================================================================
