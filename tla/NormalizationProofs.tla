------------------------ MODULE NormalizationProofs ------------------------
(***************************************************************************)
(* Theorems about Normalization, for any files, contents, lists and number *)
(* of runs, rewrites and crashes: what the MERGE pipeline takes for        *)
(* granted of an accepted file.                                            *)
(***************************************************************************)
EXTENDS Normalization, TLAPS

-----------------------------------------------------------------------------
(* The provenance of a delivery is a key that orders deliveries.           *)
Placed(D) ==
  \A d \in D : d.x.batch \in Nat /\ d.file \in Nat /\ d.rank \in Nat /\ d.pos \in Nat

LEMMA PrecedesAsymmetric ==
  ASSUME NEW s \in [1..5 -> Nat], NEW t \in [1..5 -> Nat], Precedes(s, t)
  PROVE  ~Precedes(t, s)
<1> SUFFICES ASSUME Precedes(t, s) PROVE FALSE
  OBVIOUS
<1>1. PICK i \in 1..5 : s[i] < t[i] /\ \A j \in 1..(i - 1) : s[j] = t[j]
  BY DEF Precedes
<1>2. PICK k \in 1..5 : t[k] < s[k] /\ \A j \in 1..(k - 1) : t[j] = s[j]
  BY DEF Precedes
<1>3. i \in Nat /\ k \in Nat /\ s[i] \in Nat /\ t[i] \in Nat /\ s[k] \in Nat /\ t[k] \in Nat
  OBVIOUS
<1>4. CASE i < k
  BY <1>1, <1>2, <1>3, <1>4
<1>5. CASE ~(i < k)
  BY <1>1, <1>2, <1>3, <1>5
<1> QED BY <1>4, <1>5

(* One delivery of an event_id is retained.                                *)
LEMMA RetainedOnce ==
  ASSUME NEW V, Placed(V), NEW d \in Retained(V), NEW e \in Retained(V), d.x.id = e.x.id
  PROVE  d = e
<1> SUFFICES ASSUME d # e PROVE FALSE
  OBVIOUS
<1>1. d \in V /\ e \in V
  BY DEF Retained
<1>2. e \in SameId(d, V) \ {d} /\ d \in SameId(e, V) \ {e}
  BY <1>1 DEF SameId
<1>3. Precedes(Provenance(d), Provenance(e)) /\ Precedes(Provenance(e), Provenance(d))
  BY <1>2 DEF Retained
<1>4. Provenance(d) \in [1..5 -> Nat] /\ Provenance(e) \in [1..5 -> Nat]
  BY <1>1 DEF Placed, Provenance, IngestionBatch
<1> QED BY <1>3, <1>4, PrecedesAsymmetric

(* So what is accepted of any deliveries is unambiguous.                   *)
Unambiguous(A) ==
  \A a, b \in A : a # b => a.x.id # b.x.id /\ <<a.x.entity, a.x.seq>> # <<b.x.entity, b.x.seq>>

LEMMA AcceptedApart ==
  ASSUME NEW V, Placed(V)
  PROVE  Unambiguous(Accepted(V))
<1> SUFFICES ASSUME NEW a \in Accepted(V), NEW b \in Accepted(V), a # b
             PROVE  a.x.id # b.x.id /\ <<a.x.entity, a.x.seq>> # <<b.x.entity, b.x.seq>>
  BY DEF Unambiguous
<1>1. PICK d \in Retained(V) \ Colliding(Retained(V)) :
        a = [x |-> d.x, file |-> d.file, late |-> Late(d, V)]
  BY DEF Accepted
<1>2. PICK e \in Retained(V) \ Colliding(Retained(V)) :
        b = [x |-> e.x, file |-> e.file, late |-> Late(e, V)]
  BY DEF Accepted
<1>3. d # e /\ a.x = d.x /\ b.x = e.x
  BY <1>1, <1>2
<1>4. d.x.id # e.x.id
  BY <1>1, <1>2, <1>3, RetainedOnce
<1>5. ~(d.x.entity = e.x.entity /\ d.x.seq = e.x.seq)
  BY <1>1, <1>2, <1>3 DEF Colliding
<1> QED BY <1>3, <1>4, <1>5

(* What the validator lets through.                                        *)
ImagesFit(x) ==
  /\ IF Upper(x.op) = "DELETE" THEN x.after = "none" ELSE Keyed(x.after)
  /\ IF Upper(x.op) = "INSERT" THEN x.before \in {"none", "pairs", "scalar"} \/ Keyed(x.before)
                               ELSE Keyed(x.before)

Passed(x) == x.text = "object" /\ x.fails = {} /\ ImagesFit(x)

LEMMA ImagesPassed ==
  ASSUME NEW x \in Lines, ImageCode(x) = "VALID"
  PROVE  ImagesFit(x)
<1>1. x.after \in Images /\ x.before \in Images
  BY DEF Lines
<1>2. Upper(x.op) \in {"INSERT", "UPDATE", "DELETE"}
  BY DEF Lines, Operations, Upper
<1> QED BY <1>1, <1>2 DEF ImageCode, Images, Present, ImagesFit, Keyed

LEMMA LeastIndex ==
  ASSUME NEW S \in SUBSET (1..13), S # {}
  PROVE  \E i \in S : \A j \in S : i <= j
<1> SUFFICES ASSUME \A i \in S : \E j \in S : j < i PROVE FALSE
  OBVIOUS
<1>1. S \cap 1..3 = {}
  OBVIOUS
<1>2. S \cap 1..6 = {}
  BY <1>1
<1>3. S \cap 1..9 = {}
  BY <1>2
<1>4. S \cap 1..13 = {}
  BY <1>3
<1> QED BY <1>4

LEMMA ValidLine ==
  ASSUME NEW x \in Lines, Code(x) = "VALID"
  PROVE  Passed(x)
<1> DEFINE failed == {i \in DOMAIN Codes : Codes[i] \in x.fails}
           first == CHOOSE i \in failed : \A j \in failed : i <= j
<1>1. DOMAIN Codes = 1..13 /\ \A i \in 1..13 : Codes[i] # "VALID"
  BY DEF Codes
<1>2. x.text \in {"object", "malformed", "unreadable"} /\ x.fails \in SUBSET {Codes[i] : i \in DOMAIN Codes}
  BY DEF Lines
<1>3. Code(x) = CASE x.text = "unreadable" -> "UnicodeDecodeError"
                  [] x.text = "malformed" -> "MALFORMED_JSON"
                  [] x.text = "object" /\ failed # {} -> Codes[first]
                  [] OTHER -> ImageCode(x)
  BY DEF Code
<1>4. failed # {} => first \in failed
  <2>1. failed \in SUBSET (1..13)
    BY <1>1
  <2> HIDE DEF failed
  <2> QED BY <2>1, LeastIndex
<1> HIDE DEF failed, first
<1>5. x.text = "object"
  BY <1>2, <1>3
<1>6. failed = {}
  BY <1>1, <1>2, <1>3, <1>4, <1>5 DEF failed
<1>7. x.fails = {}
  BY <1>2, <1>6 DEF failed
<1>8. ImageCode(x) = "VALID"
  BY <1>3, <1>5, <1>6
<1> QED BY <1>5, <1>7, <1>8, ImagesPassed DEF Passed
-----------------------------------------------------------------------------
(* Deliveries of a run are placed, and their lines typed.                  *)
LEMMA DeliveriesTyped ==
  ASSUME NEW paths \in Seq(Files), NEW m \in Manifests
  PROVE  Placed(Delivered(paths, m)) /\ \A d \in Delivered(paths, m) : d.x \in Lines
<1> SUFFICES ASSUME NEW d \in Delivered(paths, m)
             PROVE  /\ d.x \in Lines
                    /\ d.x.batch \in Nat /\ d.file \in Nat /\ d.rank \in Nat /\ d.pos \in Nat
  BY DEF Placed
<1>1. PICK i \in DOMAIN paths : /\ paths[i] \in DOMAIN m
                                /\ \E n \in DOMAIN m[paths[i]] :
                                     d = [x |-> m[paths[i]][n], file |-> paths[i],
                                          rank |-> i, pos |-> n]
  BY DEF Delivered
<1>2. PICK n \in DOMAIN m[paths[i]] :
        d = [x |-> m[paths[i]][n], file |-> paths[i], rank |-> i, pos |-> n]
  BY <1>1
<1>3. i \in Nat /\ paths[i] \in Files /\ paths[i] \in Nat
  BY <1>1, InputAssumption
<1>4. m[paths[i]] \in Seq(Lines)
  <2>1. PICK F \in SUBSET Files : m \in [F -> Contents]
    BY DEF Manifests
  <2>2. m[paths[i]] \in Contents
    BY <1>1, <2>1
  <2> QED BY <2>2, InputAssumption
<1>5. n \in Nat /\ m[paths[i]][n] \in Lines
  BY <1>2, <1>4
<1>6. d.x \in Lines /\ d.file \in Nat /\ d.rank \in Nat /\ d.pos \in Nat
  BY <1>2, <1>3, <1>5
<1>7. d.x.batch \in Nat
  BY <1>6 DEF Lines
<1> QED BY <1>6, <1>7

(* A line that can be accepted is keyed, when it passed the schema and     *)
(* could be written.                                                       *)
KeyedLine(x) ==
  /\ x.text = "object" /\ x.fails = {} /\ x.seq <= MaxLong
  /\ IF Upper(x.op) = "DELETE" THEN x.after = "none" ELSE Keyed(x.after)
  /\ IF Upper(x.op) = "INSERT" THEN x.before \in {"none", "pairs"} \/ Keyed(x.before)
                               ELSE Keyed(x.before)

LEMMA AcceptedLines ==
  ASSUME NEW D, \A d \in D : d.x \in Lines,
         \A d \in Valid(D) : ~(d.x.seq > MaxLong),
         ~ \E a \in Accepted(Valid(D)) : a.x.before = "scalar"
  PROVE  \A a \in Accepted(Valid(D)) : KeyedLine(a.x)
<1> SUFFICES ASSUME NEW a \in Accepted(Valid(D)) PROVE KeyedLine(a.x)
  OBVIOUS
<1>1. PICK d \in Valid(D) : a.x = d.x
  <2>1. PICK d \in Retained(Valid(D)) :
          a = [x |-> d.x, file |-> d.file, late |-> Late(d, Valid(D))]
    BY DEF Accepted
  <2>2. d \in Valid(D)
    BY DEF Retained
  <2> QED BY <2>1, <2>2
<1>2. d.x \in Lines /\ Code(d.x) = "VALID"
  BY <1>1 DEF Valid
<1>3. Passed(d.x)
  BY <1>2, ValidLine
<1>4. d.x.seq \in Nat /\ MaxLong \in Nat
  BY <1>2, InputAssumption DEF Lines
<1>5. d.x.seq <= MaxLong
  BY <1>1, <1>4
<1>6. a.x.before # "scalar"
  OBVIOUS
<1> QED BY <1>1, <1>3, <1>5, <1>6 DEF Passed, ImagesFit, KeyedLine

-----------------------------------------------------------------------------
(* The inductive invariant.  A file a run has hashed stays there, so that  *)
(* what it reads is a manifest; what it is about to accept has passed the  *)
(* schema.                                                                 *)
HashedThere ==
  \A r \in Runners : run[r] # Idle => \A f \in DOMAIN run[r].id : content[f] # NoFile

SchemaPassed ==
  \A r \in Runners : run[r].pc = "accept" =>
    \A d \in Valid(Read(r)) : ~(d.x.seq > MaxLong)

IInv == TypeOK /\ HashedThere /\ SchemaPassed /\ AcceptedUnambiguous /\ AcceptedKeyed

(* A busy run is a record of Runs.                                         *)
LEMMA BusyRun ==
  ASSUME TypeOK, NEW r \in Runners, run[r].pc \in {"read", "accept", "quarantine"}
  PROVE  run[r] \in Runs /\ run[r] # Idle
BY DEF TypeOK, Idle

LEMMA ManifestTyped ==
  ASSUME TypeOK, NEW S \in SUBSET Files, \A f \in S : content[f] # NoFile
  PROVE  Manifest(S) \in Manifests /\ DOMAIN Manifest(S) = S
<1>1. Manifest(S) \in [S -> Contents]
  BY DEF TypeOK, Manifest
<1> QED BY <1>1 DEF Manifests

LEMMA InitInvariant == Init => IInv
<1> SUFFICES ASSUME Init PROVE IInv
  OBVIOUS
<1>1. TypeOK
  BY InputAssumption DEF Init, TypeOK, EmptyFn
<1>2. HashedThere
  BY DEF Init, HashedThere
<1>3. SchemaPassed
  BY DEF Init, SchemaPassed, Idle
<1>4. AcceptedUnambiguous /\ AcceptedKeyed
  BY DEF Init, AcceptedUnambiguous, AcceptedKeyed, EmptyFn
<1> QED BY <1>1, <1>2, <1>3, <1>4 DEF IInv

(* StartRun hashes only files that are there.                              *)
LEMMA StartRunInvariant ==
  ASSUME IInv, NEW r \in Runners, NEW paths \in Submissions, StartRun(r, paths)
  PROVE  IInv'
<1> DEFINE m == Manifest(Existing(paths))
           new == [pc |-> "read", paths |-> paths, id |-> m, read |-> m]
<1>1. run' = [run EXCEPT ![r] = new]
  BY DEF StartRun, Become
<1>2. paths \in Seq(Files)
  BY InputAssumption
<1>3. Existing(paths) \in SUBSET Files /\ \A f \in Existing(paths) : content[f] # NoFile
  BY <1>2 DEF Existing
<1>4. m \in Manifests /\ DOMAIN m = Existing(paths)
  BY <1>3, ManifestTyped DEF IInv
<1> HIDE DEF m
<1>5. new \in Runs
  BY <1>2, <1>4 DEF Runs
<1>6. run \in [Runners -> {Idle} \cup Runs]
  BY DEF IInv, TypeOK
<1>7. run'[r] = new /\ \A q \in Runners \ {r} : run'[q] = run[q]
  BY <1>1, <1>6
<1>8. run' \in [Runners -> {Idle} \cup Runs]
  BY <1>1, <1>5, <1>6
<1>9. TypeOK'
  BY <1>8 DEF IInv, TypeOK, StartRun
<1>10. HashedThere'
  BY <1>3, <1>4, <1>7 DEF IInv, HashedThere, StartRun
<1>11. SchemaPassed'
  BY <1>7 DEF IInv, SchemaPassed, Read
<1>12. AcceptedUnambiguous' /\ AcceptedKeyed'
  BY DEF IInv, AcceptedUnambiguous, AcceptedKeyed, StartRun
<1> QED BY <1>9, <1>10, <1>11, <1>12 DEF IInv

(* A run that ends leaves nothing to check.                                *)
LEMMA IdleInvariant ==
  ASSUME IInv, NEW r \in Runners, Become(r, Idle)
  PROVE  /\ run' \in [Runners -> {Idle} \cup Runs]
         /\ SchemaPassed'
         /\ content' = content => HashedThere'
<1>1. run \in [Runners -> {Idle} \cup Runs] /\ run' = [run EXCEPT ![r] = Idle]
  BY DEF IInv, TypeOK, Become
<1>2. run'[r] = Idle /\ \A q \in Runners \ {r} : run'[q] = run[q]
  BY <1>1
<1>3. SchemaPassed'
  BY <1>2 DEF IInv, SchemaPassed, Read, Idle
<1>4. content' = content => HashedThere'
  BY <1>2 DEF IInv, HashedThere
<1> QED BY <1>1, <1>3, <1>4

(* ReadFiles finds every file it has hashed, and passes on what the schema *)
(* can hold.                                                               *)
LEMMA ReadFilesInvariant ==
  ASSUME IInv, NEW r \in Runners, ReadFiles(r)
  PROVE  IInv'
<1> DEFINE m == Manifest(DOMAIN run[r].id)
           D == Delivered(run[r].paths, m)
           new == [run[r] EXCEPT !.pc = "accept", !.read = m]
<1>1. run \in [Runners -> {Idle} \cup Runs] /\ run[r] \in Runs /\ run[r] # Idle
  BY BusyRun DEF IInv, TypeOK, ReadFiles
<1>2. run[r].paths \in Seq(Files) /\ run[r].id \in Manifests
  BY <1>1 DEF Runs
<1>3. m \in Manifests
  <2>1. DOMAIN run[r].id \in SUBSET Files
    BY <1>2 DEF Manifests
  <2>2. \A f \in DOMAIN run[r].id : content[f] # NoFile
    BY <1>1 DEF IInv, HashedThere
  <2> QED BY <2>1, <2>2, ManifestTyped DEF IInv
<1>4. AcceptedUnambiguous' /\ AcceptedKeyed'
  BY DEF IInv, AcceptedUnambiguous, AcceptedKeyed, ReadFiles
<1>5. /\ tainted' \in SUBSET Manifests
      /\ content' = content /\ rewrites' = rewrites
      /\ accepted' = accepted /\ quarantined' = quarantined /\ returned' = returned
  BY <1>2 DEF IInv, TypeOK, ReadFiles
<1>6. CASE \E d \in D : Raises(d.x)
  <2>1. Become(r, Idle)
    BY <1>6 DEF ReadFiles
  <2> QED BY <1>4, <1>5, <2>1, IdleInvariant DEF IInv, TypeOK
<1>7. CASE ~ \E d \in D : Raises(d.x)
  <2>1. run' = [run EXCEPT ![r] = new]
    BY <1>7 DEF ReadFiles, Become
  <2> HIDE DEF m
  <2>2. new = [pc |-> "accept", paths |-> run[r].paths, id |-> run[r].id, read |-> m]
    <3> DEFINE old == [run[r] EXCEPT !.pc = "accept"]
    <3>1. old = [pc |-> "accept", paths |-> run[r].paths, id |-> run[r].id, read |-> run[r].read]
      BY <1>1 DEF Runs
    <3>2. new = [old EXCEPT !.read = m]
      OBVIOUS
    <3> HIDE DEF old, new
    <3> QED BY <3>1, <3>2
  <2>3. new \in Runs
    BY <1>2, <1>3, <2>2 DEF Runs
  <2> HIDE DEF new
  <2>4. run' \in [Runners -> {Idle} \cup Runs]
    BY <1>1, <2>1, <2>3
  <2>5. run'[r] = new /\ \A q \in Runners \ {r} : run'[q] = run[q]
    BY <1>1, <2>1
  <2>6. TypeOK'
    BY <1>5, <2>4 DEF IInv, TypeOK
  <2>7. HashedThere'
    BY <1>1, <1>5, <2>2, <2>5 DEF IInv, HashedThere
  <2>8. SchemaPassed'
    <3>1. \A d \in Valid(D) : ~(d.x.seq > MaxLong)
      BY <1>7 DEF Valid, Raises
    <3>2. Read(r)' = D
      BY <2>2, <2>5 DEF Read
    <3> HIDE DEF D
    <3> QED BY <2>5, <3>1, <3>2 DEF IInv, SchemaPassed, Read
  <2> QED BY <1>4, <2>6, <2>7, <2>8 DEF IInv
<1> QED BY <1>6, <1>7

(* WriteAccepted puts an unambiguous, keyed set in place of another.   *)
LEMMA WriteAcceptedInvariant ==
  ASSUME IInv, NEW r \in Runners, WriteAccepted(r)
  PROVE  IInv'
<1> DEFINE D == Read(r)
           A == Accepted(Valid(D))
           new == [run[r] EXCEPT !.pc = "quarantine"]
<1>1. run \in [Runners -> {Idle} \cup Runs] /\ run[r] \in Runs /\ run[r].pc = "accept"
  BY BusyRun DEF IInv, TypeOK, WriteAccepted
<1>2. run[r].paths \in Seq(Files) /\ run[r].id \in Manifests /\ run[r].read \in Manifests
  BY <1>1 DEF Runs
<1>3. Placed(D) /\ \A d \in D : d.x \in Lines
  BY <1>2, DeliveriesTyped DEF Read
<1>4. \A d \in Valid(D) : ~(d.x.seq > MaxLong)
  BY <1>1 DEF IInv, SchemaPassed
<1>5. Unambiguous(A)
  <2>1. Placed(Valid(D))
    BY <1>3 DEF Placed, Valid
  <2> QED BY <2>1, AcceptedApart
<1>6. /\ content' = content /\ rewrites' = rewrites /\ quarantined' = quarantined
      /\ returned' = returned /\ tainted' = tainted
  BY DEF WriteAccepted
<1> HIDE DEF D
<1>7. CASE \E a \in A : a.x.before = "scalar"
  <2>1. Become(r, Idle) /\ accepted' = accepted
    BY <1>7 DEF WriteAccepted, D
  <2>2. AcceptedUnambiguous' /\ AcceptedKeyed'
    BY <2>1 DEF IInv, AcceptedUnambiguous, AcceptedKeyed
  <2> QED BY <1>6, <2>1, <2>2, IdleInvariant DEF IInv, TypeOK
<1>8. CASE ~ \E a \in A : a.x.before = "scalar"
  <2>1. /\ run' = [run EXCEPT ![r] = new]
        /\ accepted' = IF A = {} THEN accepted ELSE Put(accepted, run[r].id, A)
    BY <1>8 DEF WriteAccepted, Become, D
  <2>2. \A a \in A : KeyedLine(a.x)
    BY <1>3, <1>4, <1>8, AcceptedLines
  <2> HIDE DEF A
  <2>3. /\ DOMAIN accepted' \in SUBSET Manifests
        /\ \A id \in DOMAIN accepted' :
             accepted'[id] = A \/ (id \in DOMAIN accepted /\ accepted'[id] = accepted[id])
    BY <1>2, <2>1 DEF IInv, TypeOK, Put
  <2>4. AcceptedUnambiguous'
    BY <1>5, <2>3 DEF IInv, AcceptedUnambiguous, Unambiguous
  <2>5. AcceptedKeyed'
    BY <2>2, <2>3 DEF IInv, AcceptedKeyed, KeyedLine
  <2>6. new = [pc |-> "quarantine", paths |-> run[r].paths, id |-> run[r].id,
               read |-> run[r].read]
    BY <1>1 DEF Runs
  <2>7. new \in Runs
    BY <1>2, <2>6 DEF Runs
  <2> HIDE DEF new
  <2>8. run' \in [Runners -> {Idle} \cup Runs]
    BY <1>1, <2>1, <2>7
  <2>9. run'[r] = new /\ \A q \in Runners \ {r} : run'[q] = run[q]
    BY <1>1, <2>1
  <2>10. TypeOK'
    BY <1>6, <2>3, <2>8 DEF IInv, TypeOK
  <2>11. HashedThere'
    BY <1>1, <1>6, <2>6, <2>9 DEF IInv, HashedThere, Idle
  <2>12. SchemaPassed'
    BY <2>6, <2>9 DEF IInv, SchemaPassed, Read
  <2> QED BY <2>4, <2>5, <2>10, <2>11, <2>12 DEF IInv
<1> QED BY <1>7, <1>8

LEMMA WriteQuarantineInvariant ==
  ASSUME IInv, NEW r \in Runners, WriteQuarantine(r)
  PROVE  IInv'
<1>1. Become(r, Idle) /\ run[r].id \in Manifests
  BY BusyRun DEF IInv, WriteQuarantine, Runs
<1>2. /\ content' = content /\ rewrites' = rewrites /\ accepted' = accepted
      /\ tainted' = tainted /\ returned' = returned \cup {run[r].id}
      /\ \E Q : quarantined' = IF Q = {} THEN quarantined ELSE Put(quarantined, run[r].id, Q)
  BY DEF WriteQuarantine
<1>3. DOMAIN quarantined' \in SUBSET Manifests
  BY <1>1, <1>2 DEF IInv, TypeOK, Put
<1>4. TypeOK'
  BY <1>1, <1>2, <1>3, IdleInvariant DEF IInv, TypeOK
<1>5. AcceptedUnambiguous' /\ AcceptedKeyed'
  BY <1>2 DEF IInv, AcceptedUnambiguous, AcceptedKeyed
<1> QED BY <1>1, <1>2, <1>4, <1>5, IdleInvariant DEF IInv

LEMMA DieInvariant ==
  ASSUME IInv, NEW r \in Runners, Die(r)
  PROVE  IInv'
<1>1. /\ Become(r, Idle)
      /\ content' = content /\ rewrites' = rewrites /\ accepted' = accepted
      /\ quarantined' = quarantined /\ returned' = returned /\ tainted' = tainted
  BY DEF Die
<1>2. TypeOK'
  BY <1>1, IdleInvariant DEF IInv, TypeOK
<1>3. AcceptedUnambiguous' /\ AcceptedKeyed'
  BY <1>1 DEF IInv, AcceptedUnambiguous, AcceptedKeyed
<1> QED BY <1>1, <1>2, <1>3, IdleInvariant DEF IInv

(* A file is written over, never removed.                                  *)
LEMMA RewriteInvariant ==
  ASSUME IInv, NEW f \in Files, NEW c \in Rewrites, Rewrite(f, c)
  PROVE  IInv'
<1>1. c \in Contents /\ c # NoFile
  BY InputAssumption
<1>2. content' = [content EXCEPT ![f] = c] /\ content \in [Files -> Contents \cup {NoFile}]
  BY DEF Rewrite, IInv, TypeOK
<1>3. rewrites' \in 0..MaxRewrites
  BY InputAssumption DEF Rewrite, IInv, TypeOK
<1>4. TypeOK'
  BY <1>1, <1>2, <1>3 DEF Rewrite, IInv, TypeOK
<1>5. \A g \in Files : content[g] # NoFile => content'[g] # NoFile
  BY <1>1, <1>2
<1>6. HashedThere'
  <2> SUFFICES ASSUME NEW r \in Runners, run[r] # Idle, NEW g \in DOMAIN run[r].id
               PROVE  content'[g] # NoFile
    BY DEF HashedThere, Rewrite
  <2>1. run[r].id \in Manifests
    BY DEF IInv, TypeOK, Runs
  <2>2. g \in Files
    BY <2>1 DEF Manifests
  <2> QED BY <1>5, <2>2 DEF IInv, HashedThere
<1>7. SchemaPassed' /\ AcceptedUnambiguous' /\ AcceptedKeyed'
  BY DEF Rewrite, IInv, SchemaPassed, Read, AcceptedUnambiguous, AcceptedKeyed
<1> QED BY <1>4, <1>6, <1>7 DEF IInv

LEMMA NextInvariant == IInv /\ [Next]_vars => IInv'
<1> SUFFICES ASSUME IInv, [Next]_vars PROVE IInv'
  OBVIOUS
<1>1. CASE UNCHANGED vars
  BY <1>1 DEF vars, IInv, TypeOK, HashedThere, SchemaPassed, Read, AcceptedUnambiguous,
              AcceptedKeyed
<1>2. CASE \E f \in Files, c \in Rewrites : Rewrite(f, c)
  BY <1>2, RewriteInvariant
<1>3. CASE \E r \in Runners, paths \in Submissions : StartRun(r, paths)
  BY <1>3, StartRunInvariant
<1>4. CASE \E r \in Runners : ReadFiles(r)
  BY <1>4, ReadFilesInvariant
<1>5. CASE \E r \in Runners : WriteAccepted(r)
  BY <1>5, WriteAcceptedInvariant
<1>6. CASE \E r \in Runners : WriteQuarantine(r)
  BY <1>6, WriteQuarantineInvariant
<1>7. CASE \E r \in Runners : Die(r)
  BY <1>7, DieInvariant
<1> QED BY <1>1, <1>2, <1>3, <1>4, <1>5, <1>6, <1>7 DEF Next

LEMMA Invariant == Spec => []IInv
BY InitInvariant, NextInvariant, PTL DEF Spec
-----------------------------------------------------------------------------
(* In every reachable state the landing directory, the output files and    *)
(* the local state of the runs have their types: a run that opens again    *)
(* the files it has hashed finds them all.                                 *)
THEOREM TypeCorrect == Spec => []TypeOK
<1>1. IInv => TypeOK
  BY DEF IInv
<1> QED BY <1>1, Invariant, PTL

(* Every accepted.jsonl, a tainted one included, names each event_id once  *)
(* and gives no two events of an entity the same sequence number: the      *)
(* retained delivery of an event_id is the unique least by provenance, and *)
(* what collides among the retained is dropped.                            *)
THEOREM AcceptedIsUnambiguous == Spec => []AcceptedUnambiguous
<1>1. IInv => AcceptedUnambiguous
  BY DEF IInv
<1> QED BY <1>1, Invariant, PTL

(* In every event of every accepted.jsonl, however its operation is spelt, *)
(* the images whose primary key merge and Lakeflow take have the one of    *)
(* the business_key, and its sequence number fits a LongType.  It may      *)
(* still be one the merge does not apply, or cannot convert.               *)
THEOREM AcceptedIsKeyed == Spec => []AcceptedKeyed
<1>1. IInv => AcceptedKeyed
  BY DEF IInv
<1> QED BY <1>1, Invariant, PTL
=============================================================================
