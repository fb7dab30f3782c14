--------------------------- MODULE PlatformProofs ---------------------------
(***************************************************************************)
(* Theorems about Platform: put together, normalization and the MERGE      *)
(* pipeline are still what each of them is alone, for any files, contents, *)
(* lists and number of processes.                                          *)
(***************************************************************************)
EXTENDS Platform, WellFoundedInduction, NaturalsInduction, TLAPS

-----------------------------------------------------------------------------
(* What the two components assume of their constants is true here.         *)
LEMMA NormalizationAssumption ==
  /\ Files \subseteq Nat
  /\ NoFile \notin Contents /\ Contents \subseteq Seq(N!Lines) /\ Rewrites \subseteq Contents
  /\ Lists \subseteq Seq(Files)
  /\ \A s \in Lists : \A i, j \in DOMAIN s : s[i] = s[j] => i = j
  /\ MaxLong \in Nat /\ MaxRewrites \in Nat
BY FilesAssumption

LEMMA ValidLineTyped ==
  ASSUME NEW x \in ValidLines
  PROVE  /\ x \in N!Lines /\ N!Code(x) = "VALID"
         /\ x.entity \in Keys /\ x.seq \in Nat \ {0}
         /\ x.op \in N!Operations
<1>1. PICK c \in Contents : \E n \in DOMAIN c : x = c[n]
  BY DEF ValidLines
<1>2. c \in Seq(N!Lines)
  BY FilesAssumption
<1>3. x \in N!Lines
  BY <1>1, <1>2
<1>4. x.seq \in Nat /\ x.op \in N!Operations
  BY <1>3 DEF N!Lines
<1>5. N!Code(x) = "VALID"
  BY DEF ValidLines
<1> QED BY <1>3, <1>4, <1>5, LinesAssumption

LEMMA EventTyped ==
  ASSUME NEW e \in Events
  PROVE  e \in [id : EventIds, fp : Fingerprints, key : Keys, seq : Nat \ {0}, op : M!Ops]
<1>1. PICK x \in ValidLines : e = EventOf(x)
  BY DEF Events
<1>2. e.id \in EventIds /\ e.fp \in Fingerprints
  BY DEF EventIds, Fingerprints
<1> QED BY <1>1, <1>2, ValidLineTyped DEF EventOf, M!Ops, N!Operations

LEMMA MergeAssumption ==
  /\ Tables \subseteq Nat /\ TableOf \in [Keys -> Tables]
  /\ Events \subseteq [id : EventIds, fp : Fingerprints, key : Keys, seq : Nat \ {0}, op : M!Ops]
  /\ Unconvertible \subseteq {e \in Events : e.op \in {"INSERT", "UPDATE", "DELETE"}}
  /\ Submissions \subseteq [proc : ProcIds, batch : SUBSET Events]
  /\ \A s \in Submissions : \A e, f \in s.batch : e.id = f.id => e = f
<1>1. Tables \subseteq Nat /\ TableOf \in [Keys -> Tables]
  BY DEF Tables, TableOf
<1>2. Events \subseteq [id : EventIds, fp : Fingerprints, key : Keys, seq : Nat \ {0}, op : M!Ops]
  BY EventTyped
<1>3. Unconvertible \subseteq {e \in Events : e.op \in {"INSERT", "UPDATE", "DELETE"}}
  BY DEF Unconvertible, Events, EventOf
<1> QED BY <1>1, <1>2, <1>3 DEF Submissions
-----------------------------------------------------------------------------
(* Normalization within the platform.                                      *)
LEMMA NormalizationStep == [Next]_vars => [N!Next]_N!vars
<1> SUFFICES ASSUME [Next]_vars PROVE [N!Next]_N!vars
  OBVIOUS
<1>1. CASE UNCHANGED vars
  BY <1>1 DEF vars, normalization, N!vars
<1>2. CASE Land
  BY <1>2 DEF Land, N!Next
<1>3. CASE InitializeTargets
  BY <1>3 DEF InitializeTargets, normalization, N!vars
<1>4. CASE BootstrapFails
  BY <1>4 DEF BootstrapFails, normalization, N!vars
<1>5. ASSUME NEW r \in Normalizers, Normalize(r) PROVE [N!Next]_N!vars
  BY <1>5 DEF Normalize, N!Next
<1>6. ASSUME NEW r \in Normalizers, NEW paths \in Lists, RunPipeline(r, paths)
      PROVE  [N!Next]_N!vars
  BY <1>6 DEF RunPipeline, N!Next
<1>7. ASSUME NEW r \in Normalizers, NormalizerDies(r) PROVE [N!Next]_N!vars
  BY <1>7 DEF NormalizerDies, N!Next
<1>8. ASSUME NEW m, MergeStep(m) PROVE [N!Next]_N!vars
  BY <1>8 DEF MergeStep, normalization, N!vars
<1>9. ASSUME NEW m, NEW id, NEW policy, RunFromFile(m, id, policy) PROVE [N!Next]_N!vars
  BY <1>9 DEF RunFromFile, normalization, N!vars
<1>10. ASSUME NEW m, MergerDies(m) PROVE [N!Next]_N!vars
  BY <1>10 DEF MergerDies, normalization, N!vars
<1> QED
  BY <1>1, <1>2, <1>3, <1>4, <1>5, <1>6, <1>7, <1>8, <1>9, <1>10 DEF Next, Work, Faults

(* Merging never disturbs normalization: what is proved of it alone holds  *)
(* of it here.                                                             *)
THEOREM PlatformIsNormalization == Spec => N!Spec
<1>1. Init => N!Init
  BY DEF Init
<1> QED BY <1>1, NormalizationStep, PTL DEF Spec, N!Spec

LEMMA NormalizationHolds == Spec => []N!IInv
BY PlatformIsNormalization, N!Invariant, NormalizationAssumption, PTL

-----------------------------------------------------------------------------
(* Every line of an accepted file is a valid line of some landed content.  *)
LinesKnown == \A id \in DOMAIN accepted : LinesIn(id) \subseteq ValidLines

LEMMA DeliveredLines ==
  ASSUME NEW paths, NEW m \in N!Manifests, NEW d \in N!Valid(N!Delivered(paths, m))
  PROVE  d.x \in ValidLines
<1>1. d \in N!Delivered(paths, m) /\ N!Code(d.x) = "VALID"
  BY DEF N!Valid
<1>2. PICK i \in {i \in DOMAIN paths : paths[i] \in DOMAIN m} : \E n \in DOMAIN m[paths[i]] :
        d = [x |-> m[paths[i]][n], file |-> paths[i], rank |-> i, pos |-> n]
  BY <1>1 DEF N!Delivered
<1>3. PICK n \in DOMAIN m[paths[i]] : d.x = m[paths[i]][n]
  BY <1>2
<1>4. m[paths[i]] \in Contents
  BY <1>2 DEF N!Manifests
<1> QED BY <1>1, <1>3, <1>4 DEF ValidLines

LEMMA WriteAcceptedKnown ==
  ASSUME N!IInv, LinesKnown, NEW r \in Normalizers, N!WriteAccepted(r)
  PROVE  LinesKnown'
<1> DEFINE V == N!Valid(N!Read(r))
           A == N!Accepted(V)
<1>1. run[r].read \in N!Manifests
  <2>1. run \in [Normalizers -> {N!Idle} \cup N!Runs] /\ run[r].pc = "accept"
    BY DEF N!IInv, N!TypeOK, N!WriteAccepted
  <2> QED BY <2>1 DEF N!Idle, N!Runs
<1>2. \A a \in A : a.x \in ValidLines
  <2> SUFFICES ASSUME NEW a \in A PROVE a.x \in ValidLines
    OBVIOUS
  <2>1. PICK d \in N!Retained(V) : a.x = d.x
    BY DEF N!Accepted
  <2>2. d \in V
    BY DEF N!Retained
  <2> QED BY <1>1, <2>1, <2>2, DeliveredLines DEF N!Read
<1>3. accepted' = accepted \/ accepted' = N!Put(accepted, run[r].id, A)
  BY DEF N!WriteAccepted
<1> HIDE DEF A
<1>4. \A id \in DOMAIN accepted' :
        accepted'[id] = A \/ (id \in DOMAIN accepted /\ accepted'[id] = accepted[id])
  BY <1>3 DEF N!Put
<1> QED BY <1>2, <1>4 DEF LinesKnown, LinesIn

LEMMA KnownStep == N!IInv /\ LinesKnown /\ [N!Next]_N!vars => LinesKnown'
<1> SUFFICES ASSUME N!IInv, LinesKnown, [N!Next]_N!vars PROVE LinesKnown'
  OBVIOUS
<1>1. CASE \E r \in Normalizers : N!WriteAccepted(r)
  BY <1>1, WriteAcceptedKnown
<1>2. CASE ~ \E r \in Normalizers : N!WriteAccepted(r)
  <2>1. accepted' = accepted
    BY <1>2 DEF N!Next, N!vars, N!Rewrite, N!StartRun, N!ReadFiles, N!WriteQuarantine, N!Die
  <2> QED BY <2>1 DEF LinesKnown, LinesIn
<1> QED BY <1>1, <1>2

LEMMA KnownHolds == Spec => []LinesKnown
<1>1. Init => LinesKnown
  BY DEF Init, N!Init, N!EmptyFn, LinesKnown
<1> QED BY <1>1, KnownStep, NormalizationStep, NormalizationHolds, PTL DEF Spec

(* So what run_from_file reads is a processing set.                        *)
LEMMA FileIsSubmission ==
  ASSUME N!IInv, LinesKnown, NEW id \in DOMAIN accepted
  PROVE  [proc |-> id, batch |-> EventsIn(id)] \in Submissions
<1>1. id \in ProcIds
  BY DEF N!IInv, N!TypeOK, ProcIds
<1>2. EventsIn(id) \subseteq Events
  BY DEF LinesKnown, EventsIn, Events
<1>3. ASSUME NEW e \in EventsIn(id), NEW f \in EventsIn(id), e.id = f.id PROVE e = f
  <2>1. PICK a \in accepted[id] : e = EventOf(a.x)
    BY DEF EventsIn, LinesIn
  <2>2. PICK b \in accepted[id] : f = EventOf(b.x)
    BY DEF EventsIn, LinesIn
  <2>3. a.x.id = b.x.id
    BY <1>3, <2>1, <2>2 DEF EventOf
  <2>4. a = b
    BY <2>3 DEF N!IInv, N!AcceptedUnambiguous
  <2> QED BY <2>1, <2>2, <2>4
<1> QED BY <1>1, <1>2, <1>3 DEF Submissions

(* But for the sets it hands over, the platform leaves merging alone.      *)
LEMMA MergeSteps ==
  [Next]_vars =>
    \/ \E m \in Mergers, id \in DOMAIN accepted, policy \in Policies : RunFromFile(m, id, policy)
    \/ M!Bootstrapping
    \/ \E m \in Mergers : M!RunStep(m) \/ M!Crash(m)
    \/ UNCHANGED M!vars
<1> SUFFICES ASSUME [Next]_vars,
                    ~ \E m \in Mergers, id \in DOMAIN accepted, policy \in Policies :
                        RunFromFile(m, id, policy)
             PROVE  \/ M!Bootstrapping
                    \/ \E m \in Mergers : M!RunStep(m) \/ M!Crash(m)
                    \/ UNCHANGED M!vars
  OBVIOUS
<1>1. CASE \/ UNCHANGED vars \/ Land
           \/ \E r \in Normalizers : \/ Normalize(r) \/ NormalizerDies(r)
                                     \/ \E paths \in Lists : RunPipeline(r, paths)
  BY <1>1 DEF vars, Land, Normalize, NormalizerDies, RunPipeline, merging, M!vars
<1>2. CASE InitializeTargets \/ BootstrapFails
  BY <1>2 DEF InitializeTargets, BootstrapFails, M!Bootstrapping
<1>3. CASE \E m \in Mergers : MergeStep(m) \/ MergerDies(m)
  BY <1>3 DEF MergeStep, MergerDies
<1> QED BY <1>1, <1>2, <1>3 DEF Next, Work, Faults

LEMMA MergeNext == N!IInv /\ LinesKnown /\ [Next]_vars => [M!Next]_M!vars
<1> SUFFICES ASSUME N!IInv, LinesKnown, [Next]_vars PROVE [M!Next]_M!vars
  OBVIOUS
<1>1. ASSUME NEW m \in Mergers, NEW id \in DOMAIN accepted, NEW policy \in Policies,
             RunFromFile(m, id, policy)
      PROVE  [M!Next]_M!vars
  BY <1>1, FileIsSubmission DEF RunFromFile, M!Next, M!Working
<1> QED BY <1>1, MergeSteps DEF M!Next, M!Working

(* Every set that reaches the MERGE pipeline through a file is one its     *)
(* specification allows, whatever was landed, rewritten, normalized twice  *)
(* or left half-written by a crash: the platform implements MergePipeline. *)
THEOREM PlatformIsMerge == Spec => ImplementsMerge
<1>1. Init => M!Init
  BY DEF Init
<1> QED BY <1>1, MergeNext, NormalizationHolds, KnownHolds, PTL DEF Spec, ImplementsMerge, M!Spec

(* So the ledger the platform keeps is never rewritten, and no target row  *)
(* shows an event it does not record, for any number of normalizations and *)
(* overlapping merges.                                                     *)
THEOREM LedgerOfPlatform == Spec => M!LedgerImmutable /\ []M!IntentBeforeMutation
<1>1. M!Spec => M!LedgerImmutable
  BY MergeAssumption, RowsAssumption, M!LedgerNeverRewritten
<1>2. M!Spec => []M!IntentBeforeMutation
  BY MergeAssumption, RowsAssumption, M!IntentAlwaysFirst
<1> QED BY <1>1, <1>2, PlatformIsMerge, PTL DEF ImplementsMerge

-----------------------------------------------------------------------------
(* One merge at a time.                                                    *)
OneMerger == \A m, n \in Mergers : m = n

LEMMA FingerprintIdentifies == M!Identified
<1> SUFFICES ASSUME NEW e \in Events, NEW f \in Events, e.fp = f.fp PROVE e = f
  BY DEF M!Identified
<1>1. PICK x \in ValidLines : e = EventOf(x)
  BY DEF Events
<1>2. PICK y \in ValidLines : f = EventOf(y)
  BY DEF Events
<1>3. N!Fingerprint(x) = N!Fingerprint(y)
  BY <1>1, <1>2 DEF EventOf
<1>4. x.id = y.id /\ x.entity = y.entity /\ x.op = y.op /\ x.seq = y.seq
  BY <1>3 DEF N!Fingerprint
<1> QED BY <1>1, <1>2, <1>3, <1>4 DEF EventOf

(* What the rows show depends on it: the source spells every operation in  *)
(* upper case, which the normalizer does not ask for.                      *)
OperationsSpelt == \A x \in ValidLines : x.op \in {"INSERT", "UPDATE", "DELETE"}

LEMMA SpeltEvents == OperationsSpelt => M!Spelt
BY DEF OperationsSpelt, M!Spelt, Events, EventOf

(* With one merge at a time the recovery protocol does in the platform     *)
(* what it does alone: whatever sets overlap, are merged again or are      *)
(* interrupted, a row is touched for pending events only, and the set that *)
(* left pending records would be taken up again.                           *)
THEOREM MergedOncePerEvent == OneMerger => (Spec => M!EffectivelyOnce /\ []M!RetryAdmitted)
<1> SUFFICES ASSUME OneMerger PROVE Spec => M!EffectivelyOnce /\ []M!RetryAdmitted
  OBVIOUS
<1>1. M!OneRunner /\ M!Identified
  BY FingerprintIdentifies DEF OneMerger, M!OneRunner
<1>2. M!Spec => M!EffectivelyOnce
  BY <1>1, MergeAssumption, RowsAssumption, M!AppliedOnce
<1>3. M!Spec => []M!RetryAdmitted
  BY <1>1, MergeAssumption, RowsAssumption, M!RetryAlwaysAdmitted
<1> QED BY <1>2, <1>3, PlatformIsMerge, PTL DEF ImplementsMerge

(* And each row shows the highest applied event of its key or a pending    *)
(* one ahead of it.                                                        *)
THEOREM TargetsOfPlatform ==
  OneMerger /\ OperationsSpelt => (Spec => []M!TargetAgreesWithLedger)
<1> SUFFICES ASSUME OneMerger, OperationsSpelt PROVE Spec => []M!TargetAgreesWithLedger
  OBVIOUS
<1>1. M!OneRunner /\ M!Identified /\ M!Spelt
  BY FingerprintIdentifies, SpeltEvents DEF OneMerger, M!OneRunner
<1>2. M!Spec => []M!TargetAgreesWithLedger
  BY <1>1, MergeAssumption, RowsAssumption, M!TargetFollowsLedger
<1> QED BY <1>2, PlatformIsMerge, PTL DEF ImplementsMerge

-----------------------------------------------------------------------------
(* Type correctness of the whole.  The oracle is fed only what a file held *)
(* when a merge of it started, whose sequence numbers are bounded because  *)
(* normalization had to write them.                                        *)
HistoryTyped ==
  /\ input \in [Mergers -> [id : ProcIds \cup {NoRecord}, lines : SUBSET ValidLines]]
  /\ delivered \in SUBSET [id : ProcIds, lines : SUBSET ValidLines]
  /\ oracle \in [rows : [Keys -> Events \cup {Bootstrap, NoRow}], maxSeq : [Keys -> Nat],
                 seen : SUBSET EventIds]

BusyInput ==
  \A m \in Mergers : /\ runner[m].pc # "idle" => input[m].id \in ProcIds
                     /\ \A x \in input[m].lines : x.seq <= MaxLong

LEMMA HighestLine ==
  ASSUME NEW L \in SUBSET ValidLines, L # {}, \A x \in L : x.seq <= MaxLong
  PROVE  Highest(L) \in L /\ \A y \in L : y.seq <= Highest(L).seq
<1> DEFINE R == OpToRel(<, Nat)
           T == {MaxLong - x.seq : x \in L}
<1>1. MaxLong \in Nat /\ \A x \in L : x.seq \in Nat
  BY FilesAssumption, ValidLineTyped
<1>2. T \subseteq Nat /\ T # {}
  BY <1>1
<1>3. \A a, b \in Nat : a < b => <<a, b>> \in R
  BY DEF OpToRel
<1>4. IsWellFoundedOn(R, Nat)
  BY NatLessThanWellFounded
<1> HIDE DEF R
<1>5. PICK n \in T : \A j \in T : ~(<<j, n>> \in R)
  <2> HIDE DEF T
  <2> QED BY <1>2, <1>4, WFMin
<1>6. PICK x \in L : n = MaxLong - x.seq
  OBVIOUS
<1>7. ASSUME NEW y \in L PROVE y.seq <= x.seq
  <2>1. ~(MaxLong - y.seq < MaxLong - x.seq)
    BY <1>2, <1>3, <1>5, <1>6
  <2> QED BY <1>1, <2>1
<1> QED BY <1>7 DEF Highest

LEMMA FedTyped ==
  ASSUME HistoryTyped, NEW L \in SUBSET ValidLines, \A x \in L : x.seq <= MaxLong
  PROVE  Fed(oracle, L) \in [rows : [Keys -> Events \cup {Bootstrap, NoRow}],
                             maxSeq : [Keys -> Nat], seen : SUBSET EventIds]
<1> DEFINE on == [k \in Keys |-> {x \in Newer(oracle, L) : x.entity = k}]
<1>1. ASSUME NEW k \in Keys, on[k] # {}
      PROVE  Highest(on[k]) \in ValidLines
  <2>1. on[k] \subseteq L
    BY DEF Newer
  <2> HIDE DEF on
  <2> QED BY <1>1, <2>1, HighestLine
<1>2. \A x \in ValidLines : EventOf(x) \in Events /\ x.id \in EventIds /\ x.seq \in Nat
  BY ValidLineTyped DEF Events, EventIds, EventOf
<1>3. \A k \in Keys : (IF on[k] = {} THEN oracle.rows[k] ELSE Effect(Highest(on[k])))
                        \in Events \cup {Bootstrap, NoRow}
  <2> HIDE DEF on
  <2> QED BY <1>1, <1>2 DEF HistoryTyped, Effect
<1>4. \A k \in Keys : (IF on[k] = {} THEN oracle.maxSeq[k] ELSE Highest(on[k]).seq) \in Nat
  <2> HIDE DEF on
  <2> QED BY <1>1, <1>2 DEF HistoryTyped
<1>5. oracle.seen \cup {x.id : x \in {x \in L : OracleAdmits(x)}} \subseteq EventIds
  BY <1>2 DEF HistoryTyped
<1> QED BY <1>3, <1>4, <1>5 DEF Fed

(* A step of one merger is of that merger alone.                           *)
LEMMA OtherMergers ==
  ASSUME M!TypeOK, NEW m \in Mergers, NEW n \in Mergers, n # m,
         M!RunStep(m) \/ M!Crash(m) \/ \E s \in Submissions, policy \in Policies : M!Submit(m, s, policy)
  PROVE  runner'[n] = runner[n]
<1>1. PICK new : M!Become(m, new)
  BY Zenon DEF M!RunStep, M!Crash, M!Submit, M!CheckPending, M!ReadHistory, M!Skip,
     M!Stage, M!Refuse, M!PlanWaves, M!RecordPending, M!MergeUpserts, M!MissingTarget,
     M!UpsertsRaise, M!DeletesRaise, M!MergeDeletes, M!MarkApplied, M!Goto, M!Leave
<1> QED BY <1>1 DEF M!Become, M!TypeOK

LEMMA BusyMerger == \A m \in Mergers : M!RunStep(m) => runner[m].pc # "idle"
BY DEF M!RunStep, M!CheckPending, M!ReadHistory, M!Skip, M!Stage, M!Refuse, M!PlanWaves,
   M!RecordPending, M!MergeUpserts, M!MissingTarget, M!UpsertsRaise, M!DeletesRaise,
   M!MergeDeletes, M!MarkApplied, M!At

HistoryInv == HistoryTyped /\ BusyInput

LEMMA RunFromFileHistory ==
  ASSUME N!IInv, LinesKnown, M!TypeOK, HistoryInv,
         NEW m \in Mergers, NEW id \in DOMAIN accepted, NEW policy \in Policies,
         RunFromFile(m, id, policy)
  PROVE  HistoryInv'
<1>1. id \in ProcIds /\ LinesIn(id) \in SUBSET ValidLines
  BY DEF N!IInv, N!TypeOK, ProcIds, LinesKnown
<1>2. \A x \in LinesIn(id) : x.seq <= MaxLong
  BY DEF N!IInv, N!AcceptedKeyed, LinesIn
<1>3. /\ input' = [input EXCEPT ![m] = [id |-> id, lines |-> LinesIn(id)]]
      /\ UNCHANGED <<delivered, oracle>>
  BY DEF RunFromFile
<1>4. HistoryTyped'
  BY <1>1, <1>3 DEF HistoryInv, HistoryTyped
<1>5. M!Submit(m, [proc |-> id, batch |-> EventsIn(id)], policy)
  BY DEF RunFromFile
<1>6. ASSUME NEW n \in Mergers, n # m PROVE runner'[n] = runner[n]
  BY <1>5, <1>6, FileIsSubmission, OtherMergers
<1>7. ASSUME NEW n \in Mergers
      PROVE  /\ runner'[n].pc # "idle" => input'[n].id \in ProcIds
             /\ \A x \in input'[n].lines : x.seq <= MaxLong
  <2>1. CASE n = m
    BY <1>1, <1>2, <1>3, <2>1 DEF HistoryInv, HistoryTyped
  <2>2. CASE n # m
    BY <1>3, <1>6, <2>2 DEF HistoryInv, HistoryTyped, BusyInput
  <2> QED BY <2>1, <2>2
<1> QED BY <1>4, <1>7 DEF HistoryInv, BusyInput

(* A merger that keeps its input or, at rest, has none.                    *)
LEMMA InputKept ==
  ASSUME M!TypeOK, HistoryInv, NEW m \in Mergers, M!RunStep(m) \/ M!Crash(m),
         input' = input \/ (runner'[m].pc = "idle" /\ input' = [input EXCEPT ![m] = NoInput]),
         input' = input => runner[m].pc # "idle"
  PROVE  /\ BusyInput'
         /\ input' \in [Mergers -> [id : ProcIds \cup {NoRecord}, lines : SUBSET ValidLines]]
<1>1. input' \in [Mergers -> [id : ProcIds \cup {NoRecord}, lines : SUBSET ValidLines]]
  BY DEF HistoryInv, HistoryTyped, NoInput
<1>2. ASSUME NEW n \in Mergers
      PROVE  /\ runner'[n].pc # "idle" => input'[n].id \in ProcIds
             /\ \A x \in input'[n].lines : x.seq <= MaxLong
  <2>1. CASE n = m /\ input' = input
    BY <2>1 DEF HistoryInv, BusyInput
  <2>2. CASE n = m /\ input' # input
    BY <2>2 DEF HistoryInv, HistoryTyped, NoInput
  <2>3. CASE n # m
    <3>1. runner'[n] = runner[n]
      BY <2>3, OtherMergers
    <3>2. input'[n] = input[n]
      BY <2>3 DEF HistoryInv, HistoryTyped
    <3> QED BY <3>1, <3>2 DEF HistoryInv, BusyInput
  <2> QED BY <2>1, <2>2, <2>3
<1> QED BY <1>1, <1>2 DEF BusyInput

LEMMA MergeStepHistory ==
  ASSUME M!TypeOK, HistoryInv, NEW m \in Mergers, MergeStep(m)
  PROVE  HistoryInv'
<1>1. M!RunStep(m) /\ runner[m].pc # "idle"
  BY BusyMerger DEF MergeStep
<1>2. \/ input' = input
      \/ runner'[m].pc = "idle" /\ input' = [input EXCEPT ![m] = NoInput]
  BY DEF MergeStep
<1>3. /\ BusyInput'
      /\ input' \in [Mergers -> [id : ProcIds \cup {NoRecord}, lines : SUBSET ValidLines]]
  BY <1>1, <1>2, InputKept
<1>4. CASE Returns(m)
  <2>1. input[m] \in [id : ProcIds, lines : SUBSET ValidLines]
    BY <1>1 DEF HistoryInv, HistoryTyped, BusyInput
  <2>2. Fed(oracle, input[m].lines) \in
          [rows : [Keys -> Events \cup {Bootstrap, NoRow}], maxSeq : [Keys -> Nat],
           seen : SUBSET EventIds]
    BY <2>1, FedTyped DEF HistoryInv, BusyInput
  <2>3. delivered' = delivered \cup {input[m]} /\ oracle' = Fed(oracle, input[m].lines)
    BY <1>4 DEF MergeStep
  <2> QED BY <1>3, <2>1, <2>2, <2>3 DEF HistoryInv, HistoryTyped
<1>5. CASE ~Returns(m)
  <2>1. UNCHANGED <<delivered, oracle>>
    BY <1>5 DEF MergeStep
  <2> QED BY <1>3, <2>1 DEF HistoryInv, HistoryTyped
<1> QED BY <1>4, <1>5

LEMMA MergerDiesHistory ==
  ASSUME M!TypeOK, HistoryInv, NEW m \in Mergers, MergerDies(m)
  PROVE  HistoryInv'
<1>1. M!Crash(m) /\ runner[m].pc # "idle" /\ runner'[m].pc = "idle"
  BY DEF MergerDies, M!Crash, M!At, M!Leave, M!Become, M!Idle, M!TypeOK
<1>2. input' = [input EXCEPT ![m] = NoInput] /\ UNCHANGED <<delivered, oracle>>
  BY DEF MergerDies
<1>3. /\ BusyInput'
      /\ input' \in [Mergers -> [id : ProcIds \cup {NoRecord}, lines : SUBSET ValidLines]]
  BY <1>1, <1>2, InputKept
<1> QED BY <1>2, <1>3 DEF HistoryInv, HistoryTyped

LEMMA HistoryStep ==
  N!IInv /\ LinesKnown /\ M!TypeOK /\ HistoryInv /\ [Next]_vars => HistoryInv'
<1> SUFFICES ASSUME N!IInv, LinesKnown, M!TypeOK, HistoryInv, [Next]_vars
             PROVE  HistoryInv'
  OBVIOUS
<1>1. CASE UNCHANGED <<history, runner>>
  BY <1>1 DEF history, HistoryInv, HistoryTyped, BusyInput
<1>2. CASE Land \/ (\E r \in Normalizers : \/ Normalize(r) \/ NormalizerDies(r)
                                           \/ \E paths \in Lists : RunPipeline(r, paths))
  <2>1. UNCHANGED <<history, runner>>
    BY <1>2 DEF Land, Normalize, NormalizerDies, RunPipeline, merging
  <2> QED BY <1>1, <2>1
<1>3. CASE InitializeTargets \/ BootstrapFails
  <2>1. UNCHANGED <<history, runner>>
    BY <1>3 DEF InitializeTargets, BootstrapFails, M!StartBootstrap, M!BootstrapTable,
       M!BootstrapFails
  <2> QED BY <1>1, <2>1
<1>4. CASE \E m \in Mergers, id \in DOMAIN accepted, policy \in Policies :
             RunFromFile(m, id, policy)
  BY <1>4, RunFromFileHistory
<1>5. CASE \E m \in Mergers : MergeStep(m)
  BY <1>5, MergeStepHistory
<1>6. CASE \E m \in Mergers : MergerDies(m)
  BY <1>6, MergerDiesHistory
<1>7. CASE UNCHANGED vars
  BY <1>1, <1>7 DEF vars, merging
<1> QED BY <1>2, <1>3, <1>4, <1>5, <1>6, <1>7 DEF Next, Work, Faults

LEMMA MergeTypes == Spec => []M!TypeOK
<1>1. M!Spec => []M!TypeOK
  BY MergeAssumption, RowsAssumption, M!TypeCorrect
<1> QED BY <1>1, PlatformIsMerge, PTL DEF ImplementsMerge

LEMMA HistoryHolds == Spec => []HistoryInv
<1>1. Init => HistoryInv
  <2> SUFFICES ASSUME Init PROVE HistoryInv
    OBVIOUS
  <2>1. input = [m \in Mergers |-> NoInput] /\ delivered = {}
        /\ \A m \in Mergers : runner[m].pc = "idle"
    BY DEF Init, M!Init, M!Idle
  <2>2. oracle = [rows |-> [k \in Keys |-> IF k \in SnapshotKeys THEN Bootstrap ELSE NoRow],
                  maxSeq |-> [k \in Keys |-> 0], seen |-> {}]
    BY DEF Init
  <2> QED BY <2>1, <2>2 DEF HistoryInv, HistoryTyped, BusyInput, NoInput
<1> QED BY <1>1, MergeTypes, HistoryStep, NormalizationHolds, KnownHolds, PTL DEF Spec

(* Every variable of the platform keeps its type, the fed oracle included. *)
THEOREM TypeCorrect == Spec => []TypeOK
<1>1. N!IInv /\ M!TypeOK /\ HistoryInv => TypeOK
  BY DEF N!IInv, HistoryInv, HistoryTyped, TypeOK
<1> QED BY <1>1, MergeTypes, HistoryHolds, NormalizationHolds, PTL

-----------------------------------------------------------------------------
(* A processing set that its accepted file still gives: it may be written  *)
(* again, but unless the files were changed under a run always with the    *)
(* same lines.                                                             *)
Given(id, batch) ==
  /\ id \in DOMAIN accepted
  /\ id \notin tainted => batch = EventsIn(id)

FilesKept ==
  /\ \A m \in Mergers : runner[m].pc # "idle" => Given(runner[m].proc, runner[m].batch)
  /\ intent.proc # NoRecord => Given(intent.proc, intent.batch)

LEMMA OutputsHold == Spec => []N!OutputsDetermined
BY PlatformIsNormalization, N!OutputsAreDetermined, NormalizationAssumption, PTL

LEMMA WrittenAgain ==
  ASSUME [N!Next]_N!vars, N!OutputsDetermined, N!OutputsDetermined', NEW id, NEW batch, Given(id, batch)
  PROVE  Given(id, batch)'
<1>1. DOMAIN accepted \subseteq DOMAIN accepted' /\ tainted \subseteq tainted'
  <2>1. CASE \E r \in Normalizers : N!WriteAccepted(r)
    BY <2>1 DEF N!WriteAccepted, N!Put
  <2>2. CASE \E r \in Normalizers : N!ReadFiles(r)
    <3>1. PICK r \in Normalizers : N!ReadFiles(r)
      BY <2>2
    <3>2. accepted' = accepted
      BY <3>1 DEF N!ReadFiles
    <3>3. tainted' = tainted \/ tainted' = tainted \cup {run[r].id}
      BY <3>1 DEF N!ReadFiles
    <3> QED BY <3>2, <3>3
  <2>3. CASE ~ \E r \in Normalizers : N!WriteAccepted(r) \/ N!ReadFiles(r)
    BY <2>3 DEF N!Next, N!vars, N!Rewrite, N!StartRun, N!WriteQuarantine, N!Die
  <2> QED BY <2>1, <2>2, <2>3
<1>2. ASSUME id \notin tainted' PROVE accepted'[id] = accepted[id]
  <2>1. accepted[id] = N!Expected(id)
    BY <1>1, <1>2 DEF Given, N!OutputsDetermined
  <2>2. accepted'[id] = N!Expected(id)
    BY <1>1, <1>2 DEF Given, N!OutputsDetermined, N!Expected, N!Copies, N!Valid
  <2> QED BY <2>1, <2>2
<1>3. ASSUME id \notin tainted' PROVE EventsIn(id)' = EventsIn(id)
  BY <1>2, <1>3 DEF EventsIn, LinesIn
<1> QED BY <1>1, <1>3 DEF Given

(* A run keeps its processing set, and records none but its own.           *)
LEMMA SetKept ==
  ASSUME M!TypeOK, NEW m \in Mergers, M!RunStep(m)
  PROVE  /\ \/ runner'[m].pc = "idle"
            \/ runner'[m].proc = runner[m].proc /\ runner'[m].batch = runner[m].batch
         /\ \/ intent' = intent
            \/ intent' = [proc |-> runner[m].proc, batch |-> runner[m].batch]
<1>1. runner \in [Mergers -> M!Active \cup {M!Idle}] /\ runner[m].pc # "idle"
  BY BusyMerger DEF M!TypeOK
<1>2. runner[m] \in M!Active
  BY <1>1 DEF M!Idle
<1>3. ASSUME NEW step, M!Goto(m, step)
      PROVE  runner'[m].proc = runner[m].proc /\ runner'[m].batch = runner[m].batch
  BY <1>1, <1>2, <1>3 DEF M!Goto, M!Become, M!Active
<1>4. M!Leave(m) => runner'[m].pc = "idle"
  BY <1>1 DEF M!Leave, M!Become, M!Idle
<1>5. CASE M!CheckPending(m)
  BY <1>3, <1>4, <1>5 DEF M!CheckPending
<1>6. CASE M!ReadHistory(m)
  BY <1>1, <1>2, <1>6 DEF M!ReadHistory, M!Become, M!Active
<1>7. CASE \E e \in Events : M!Skip(m, e) \/ M!Stage(m, e)
  BY <1>1, <1>2, <1>7 DEF M!Skip, M!Stage, M!Become, M!Active
<1>8. CASE \E e \in Events : M!Refuse(m, e)
  BY <1>4, <1>8 DEF M!Refuse
<1>9. CASE M!PlanWaves(m)
  BY <1>3, <1>4, <1>9 DEF M!PlanWaves
<1>10. CASE M!RecordPending(m)
  BY <1>3, <1>10 DEF M!RecordPending
<1>11. CASE M!MergeUpserts(m) \/ M!MergeDeletes(m)
  BY <1>3, <1>11 DEF M!MergeUpserts, M!MergeDeletes
<1>12. CASE M!MissingTarget(m) \/ M!UpsertsRaise(m) \/ M!DeletesRaise(m)
  BY <1>4, <1>12 DEF M!MissingTarget, M!UpsertsRaise, M!DeletesRaise
<1>13. CASE M!MarkApplied(m)
  <2>1. intent' = intent
    BY <1>13 DEF M!MarkApplied
  <2>2. \/ M!Become(m, M!Idle)
        \/ \E left : M!Become(m, [runner[m] EXCEPT !.pc = "record", !.act = left])
    BY <1>13, Zenon DEF M!MarkApplied
  <2>3. CASE M!Become(m, M!Idle)
    BY <1>4, <2>1, <2>3 DEF M!Leave
  <2>4. ASSUME NEW left, M!Become(m, [runner[m] EXCEPT !.pc = "record", !.act = left])
        PROVE  runner'[m].proc = runner[m].proc /\ runner'[m].batch = runner[m].batch
    BY <1>1, <1>2, <2>4 DEF M!Become, M!Active
  <2> QED BY <2>1, <2>2, <2>3, <2>4
<1> QED BY <1>5, <1>6, <1>7, <1>8, <1>9, <1>10, <1>11, <1>12, <1>13 DEF M!RunStep

LEMMA FilesKeptByMerger ==
  ASSUME M!TypeOK, FilesKept, NEW m \in Mergers, M!RunStep(m) \/ M!Crash(m),
         UNCHANGED <<accepted, tainted>>
  PROVE  FilesKept'
<1>1. runner[m].pc # "idle"
  BY BusyMerger DEF M!Crash, M!At
<1>2. /\ \/ runner'[m].pc = "idle"
         \/ runner'[m].proc = runner[m].proc /\ runner'[m].batch = runner[m].batch
      /\ \/ intent' = intent
         \/ intent' = [proc |-> runner[m].proc, batch |-> runner[m].batch]
  <2>1. CASE M!RunStep(m)
    BY <2>1, SetKept
  <2>2. CASE M!Crash(m)
    BY <2>2 DEF M!Crash, M!Leave, M!Become, M!Idle, M!TypeOK
  <2> QED BY <2>1, <2>2
<1>3. ASSUME NEW n \in Mergers, runner'[n].pc # "idle"
      PROVE  /\ runner'[n].proc = runner[n].proc /\ runner'[n].batch = runner[n].batch
             /\ Given(runner[n].proc, runner[n].batch)
  <2>1. CASE n = m
    BY <1>1, <1>2, <1>3, <2>1 DEF FilesKept
  <2>2. CASE n # m
    BY <1>3, <2>2, OtherMergers DEF FilesKept
  <2> QED BY <2>1, <2>2
<1>4. ASSUME NEW n \in Mergers, runner'[n].pc # "idle"
      PROVE  Given(runner[n].proc, runner[n].batch)'
  BY <1>3, <1>4 DEF Given, EventsIn, LinesIn
<1>5. ASSUME intent'.proc # NoRecord PROVE Given(intent.proc, intent.batch)'
  <2>1. CASE intent' = intent
    BY <1>5, <2>1 DEF FilesKept, Given, EventsIn, LinesIn
  <2>2. CASE intent' # intent
    BY <1>1, <1>2, <2>2 DEF FilesKept, Given, EventsIn, LinesIn
  <2> QED BY <2>1, <2>2
<1> QED BY <1>4, <1>5 DEF FilesKept

LEMMA FilesKeptByStart ==
  ASSUME N!IInv, LinesKnown, M!TypeOK, FilesKept,
         NEW m \in Mergers, NEW id \in DOMAIN accepted, NEW policy \in Policies,
         RunFromFile(m, id, policy)
  PROVE  FilesKept'
<1>1. /\ M!Submit(m, [proc |-> id, batch |-> EventsIn(id)], policy)
      /\ UNCHANGED <<accepted, tainted, intent>>
  BY DEF RunFromFile, normalization, M!Submit
<1>2. ASSUME NEW n \in Mergers, runner'[n].pc # "idle"
      PROVE  Given(runner[n].proc, runner[n].batch)'
  <2>1. CASE n = m
    <3>1. runner'[m].proc = id /\ runner'[m].batch = EventsIn(id)
      BY <1>1 DEF M!Submit, M!Become, M!TypeOK
    <3> QED BY <1>1, <2>1, <3>1 DEF Given, EventsIn, LinesIn
  <2>2. CASE n # m
    <3>1. runner'[n] = runner[n]
      BY <1>1, <2>2, FileIsSubmission, OtherMergers
    <3> QED BY <1>1, <1>2, <3>1 DEF FilesKept, Given, EventsIn, LinesIn
  <2> QED BY <2>1, <2>2
<1>3. intent'.proc # NoRecord => Given(intent.proc, intent.batch)'
  BY <1>1 DEF FilesKept, Given, EventsIn, LinesIn
<1> QED BY <1>2, <1>3 DEF FilesKept

LEMMA FilesKeptByNormalizer ==
  ASSUME FilesKept, [N!Next]_N!vars, N!OutputsDetermined, N!OutputsDetermined',
         UNCHANGED <<runner, intent>>
  PROVE  FilesKept'
<1>1. \A id, batch : Given(id, batch) => Given(id, batch)'
  BY WrittenAgain
<1>2. ASSUME NEW m \in Mergers, runner'[m].pc # "idle"
      PROVE  Given(runner[m].proc, runner[m].batch)'
  <2>1. Given(runner[m].proc, runner[m].batch)
    BY <1>2 DEF FilesKept
  <2> QED BY <1>1, <2>1 DEF Given, EventsIn, LinesIn
<1>3. ASSUME intent'.proc # NoRecord PROVE Given(intent.proc, intent.batch)'
  <2>1. Given(intent.proc, intent.batch)
    BY <1>3 DEF FilesKept
  <2> QED BY <1>1, <2>1 DEF Given, EventsIn, LinesIn
<1> QED BY <1>2, <1>3 DEF FilesKept

LEMMA FilesKeptStep ==
  N!IInv /\ LinesKnown /\ M!TypeOK /\ N!OutputsDetermined /\ N!OutputsDetermined'
    /\ FilesKept /\ [Next]_vars => FilesKept'
<1> SUFFICES ASSUME N!IInv, LinesKnown, M!TypeOK, N!OutputsDetermined, N!OutputsDetermined',
                    FilesKept, [Next]_vars
             PROVE  FilesKept'
  OBVIOUS
<1>1. [N!Next]_N!vars
  BY NormalizationStep
<1>2. CASE \E m \in Mergers, id \in DOMAIN accepted, policy \in Policies :
             RunFromFile(m, id, policy)
  BY <1>2, FilesKeptByStart
<1>3. CASE \E m \in Mergers : MergeStep(m) \/ MergerDies(m)
  <2>1. PICK m \in Mergers : MergeStep(m) \/ MergerDies(m)
    BY <1>3
  <2>2. /\ M!RunStep(m) \/ M!Crash(m)
        /\ UNCHANGED <<accepted, tainted>>
    BY <2>1 DEF MergeStep, MergerDies, normalization
  <2> QED BY <2>2, FilesKeptByMerger
<1>4. CASE \/ Land \/ InitializeTargets \/ BootstrapFails \/ UNCHANGED vars
           \/ \E r \in Normalizers : \/ Normalize(r) \/ NormalizerDies(r)
                                     \/ \E paths \in Lists : RunPipeline(r, paths)
  <2>1. UNCHANGED <<runner, intent>>
    BY <1>4 DEF Land, Normalize, NormalizerDies, RunPipeline, merging, vars, InitializeTargets,
       BootstrapFails, M!StartBootstrap, M!BootstrapTable, M!BootstrapFails
  <2> QED BY <1>1, <2>1, FilesKeptByNormalizer
<1> QED BY <1>2, <1>3, <1>4 DEF Next, Work, Faults

(* With one merge at a time, an interrupted merge can be recovered from    *)
(* disk for good: however often its set is normalized again, by however    *)
(* many runs, its file is there and gives the set that was interrupted,    *)
(* which the ledger admits.                                                *)
THEOREM RecoveredFromFile == OneMerger => (Spec => []RecoverableFromFile)
<1> SUFFICES ASSUME OneMerger PROVE Spec => []RecoverableFromFile
  OBVIOUS
<1>1. Init => FilesKept
  BY DEF Init, M!Init, M!Idle, FilesKept
<1>2. Spec => []FilesKept
  BY <1>1, MergeTypes, FilesKeptStep, NormalizationHolds, KnownHolds, OutputsHold, PTL DEF Spec
<1>3. Spec => []M!RetryAdmitted
  BY MergedOncePerEvent, PTL
<1>4. M!TypeOK /\ FilesKept /\ M!RetryAdmitted => RecoverableFromFile
  <2> SUFFICES ASSUME M!TypeOK, FilesKept, M!RetryAdmitted, NEW i \in EventIds, M!IsPending(i)
               PROVE  /\ ledger[i].proc \in DOMAIN accepted
                      /\ ledger[i].proc \notin tainted =>
                           M!Admissible(ledger[i].proc, EventsIn(ledger[i].proc))
    BY DEF RecoverableFromFile
  <2>1. M!Admissible(intent.proc, intent.batch)
    BY DEF M!RetryAdmitted
  <2>2. ledger[i].proc = intent.proc
    BY <2>1 DEF M!Admissible, M!PendingAdmits
  <2>3. ledger[i] \in M!Record
    BY DEF M!TypeOK, M!IsPending
  <2>4. intent.proc # NoRecord
    BY <2>2, <2>3, RowsAssumption DEF M!Record
  <2>5. Given(intent.proc, intent.batch)
    BY <2>4 DEF FilesKept
  <2> QED BY <2>1, <2>2, <2>5 DEF Given
<1> QED BY <1>2, <1>3, <1>4, MergeTypes, PTL

-----------------------------------------------------------------------------
(* What the oracle knows, for one merge at a time.  A line it was fed was  *)
(* applied, or stale, when its run returned, and is so for good; the row   *)
(* of a key is that of a line it was fed, and of its highest one; and what *)
(* the ledger has applied the oracle has reached as soon as it has seen    *)
(* it, unless the id was used for two events.                              *)
FedLines == UNION {d.lines : d \in delivered}

Done(e) == M!Replay(e) \/ M!Overtaken(e)

SnapshotRow(k) == IF k \in SnapshotKeys THEN Bootstrap ELSE NoRow

RowFed(k) ==
  \/ oracle.maxSeq[k] = 0 /\ oracle.rows[k] = SnapshotRow(k)
  \/ \E x \in FedLines : /\ x.entity = k /\ x.seq = oracle.maxSeq[k]
                         /\ oracle.rows[k] = Effect(x)

Reached(k) ==
  Reused(k) \/ \A i \in EventIds :
    M!IsApplied(i) /\ ledger[i].ev.key = k /\ i \in oracle.seen
      => ledger[i].ev.seq <= oracle.maxSeq[k]

FedDone == \A x \in FedLines : Done(EventOf(x))
SeenFed == \A i \in oracle.seen : \E x \in FedLines : x.id = i
SetRead ==
  \A m \in Mergers : runner[m].pc # "idle"
                       => runner[m].batch = {EventOf(x) : x \in input[m].lines}

FedInv == FedDone /\ SeenFed /\ SetRead /\ \A k \in Keys : RowFed(k) /\ Reached(k)

LEMMA EventOfLine ==
  ASSUME NEW x \in ValidLines
  PROVE  /\ EventOf(x) \in Events /\ EventOf(x).id = x.id /\ x.id \in EventIds
         /\ EventOf(x).key = x.entity /\ EventOf(x).seq = x.seq /\ EventOf(x).op = x.op
         /\ x.seq \in Nat \ {0} /\ x.entity \in Keys
BY ValidLineTyped DEF Events, EventOf, EventIds

LEMMA FedLinesValid == HistoryTyped => FedLines \subseteq ValidLines
BY DEF HistoryTyped, FedLines

(* The ledger forgets nothing, so that what is done stays done.            *)
LEMMA LedgerKept ==
  ASSUME M!TypeOK, [M!Next]_M!vars, NEW i \in EventIds
  PROVE  /\ M!LedgerStep(i)
         /\ ledger[i] # NoRecord => ledger'[i] # NoRecord /\ ledger'[i].ev = ledger[i].ev
         /\ M!IsApplied(i) => M!IsApplied(i)'
<1>1. M!LedgerStep(i)
  BY MergeAssumption, RowsAssumption, M!LedgerNext
<1> QED BY <1>1 DEF M!LedgerStep, M!IsApplied

LEMMA DoneStays ==
  ASSUME M!TypeOK, [M!Next]_M!vars, NEW e \in Events, Done(e) PROVE Done(e)'
<1>1. e.id \in EventIds
  BY DEF EventIds
<1>2. CASE M!Replay(e)
  BY <1>1, <1>2, LedgerKept DEF M!Replay, M!IsApplied, Done
<1>3. CASE M!Overtaken(e)
  <2>1. PICK i \in EventIds : /\ M!IsApplied(i) /\ ledger[i].ev.key = e.key
                              /\ e.seq < ledger[i].ev.seq
    BY <1>3 DEF M!Overtaken
  <2>2. M!IsApplied(i)' /\ ledger'[i].ev = ledger[i].ev
    BY <2>1, LedgerKept DEF M!IsApplied
  <2>3. M!Overtaken(e)'
    BY <2>1, <2>2 DEF M!Overtaken
  <2> QED BY <2>3 DEF Done
<1> QED BY <1>2, <1>3 DEF Done

(* A pending event was not fed before, unless under a reused id.           *)
LEMMA PendingUnseen ==
  ASSUME M!RunInv, HistoryTyped, FedDone, SeenFed,
         NEW i \in EventIds, M!IsPending(i), i \in oracle.seen
  PROVE  Reused(ledger[i].ev.key)
<1>1. PICK x \in FedLines : x.id = i
  BY DEF SeenFed
<1>2. PICK d \in delivered : x \in d.lines
  BY DEF FedLines
<1>3. SUFFICES ASSUME EventOf(x) = ledger[i].ev PROVE FALSE
  BY <1>1, <1>2 DEF Reused, M!IsPending
<1>4. x \in ValidLines /\ Done(EventOf(x)) /\ EventOf(x).id = i
  BY <1>1, FedLinesValid, EventOfLine DEF FedDone
<1>5. M!Overtaken(EventOf(x))
  BY <1>4 DEF Done, M!Replay, M!IsApplied, M!IsPending
<1>6. PICK j \in EventIds : /\ M!IsApplied(j) /\ ledger[j].ev.key = ledger[i].ev.key
                            /\ ledger[i].ev.seq < ledger[j].ev.seq
  BY <1>3, <1>5 DEF M!Overtaken
<1>7. ledger[j].ev.seq < ledger[i].ev.seq
  BY <1>6 DEF M!RunInv, M!LedgerSound, M!Ahead
<1>8. ledger[i].ev \in Events /\ ledger[j].ev \in Events
  BY <1>6 DEF M!IsPending, M!IsApplied, M!RunInv, M!TypeOK, M!Record
<1>9. ledger[i].ev.seq \in Nat /\ ledger[j].ev.seq \in Nat
  BY <1>8, EventTyped
<1> QED BY <1>6, <1>7, <1>9

LEMMA FedEffect ==
  ASSUME HistoryTyped, NEW L \in SUBSET ValidLines, \A x \in L : x.seq <= MaxLong,
         NEW o, o = Fed(oracle, L), NEW k \in Keys
  PROVE  /\ oracle.maxSeq[k] <= o.maxSeq[k]
         /\ \A x \in L : OracleAdmits(x) /\ x.id \notin oracle.seen /\ x.entity = k
                         => x.seq <= o.maxSeq[k]
         /\ \/ o.maxSeq[k] = oracle.maxSeq[k] /\ o.rows[k] = oracle.rows[k]
            \/ \E x \in L : x.entity = k /\ x.seq = o.maxSeq[k] /\ o.rows[k] = Effect(x)
<1> DEFINE on == {x \in Newer(oracle, L) : x.entity = k}
<1>1. /\ o.maxSeq[k] = IF on = {} THEN oracle.maxSeq[k] ELSE Highest(on).seq
      /\ o.rows[k] = IF on = {} THEN oracle.rows[k] ELSE Effect(Highest(on))
  BY DEF Fed
<1>2. on \subseteq L /\ \A x \in on : x.entity = k /\ oracle.maxSeq[k] < x.seq
  BY DEF Newer
<1>3. \A x \in L : OracleAdmits(x) /\ x.id \notin oracle.seen /\ x.entity = k
                   => x \in on \/ ~(oracle.maxSeq[k] < x.seq)
  BY DEF Newer
<1>4. oracle.maxSeq[k] \in Nat /\ \A x \in L : x.seq \in Nat
  BY ValidLineTyped DEF HistoryTyped
<1> HIDE DEF on
<1>5. CASE on = {}
  BY <1>1, <1>3, <1>4, <1>5
<1>6. CASE on # {}
  <2>1. Highest(on) \in on /\ \A y \in on : y.seq <= Highest(on).seq
    BY <1>2, <1>6, HighestLine
  <2>2. o.maxSeq[k] = Highest(on).seq /\ o.rows[k] = Effect(Highest(on))
    BY <1>1, <1>6
  <2>3. Highest(on) \in L /\ Highest(on).entity = k /\ oracle.maxSeq[k] < Highest(on).seq
    BY <1>2, <2>1
  <2>4. ASSUME NEW x \in L, OracleAdmits(x), x.id \notin oracle.seen, x.entity = k
        PROVE  x.seq <= Highest(on).seq
    BY <1>3, <1>4, <2>1, <2>3, <2>4
  <2> QED BY <1>4, <2>2, <2>3, <2>4
<1> QED BY <1>5, <1>6

(* A run that returns has applied or skipped all of its set.               *)
LEMMA ReturnedDone ==
  ASSUME M!RunInv, NEW m \in Mergers, M!RunStep(m), Returns(m), [M!Next]_M!vars,
         NEW e \in runner[m].batch
  PROVE  Done(e)'
<1>1. M!TypeOK /\ M!Sound(runner[m])
  BY DEF M!RunInv
<1>2. e \in Events
  BY <1>1 DEF M!Sound, M!Sets
<1>3. CASE M!Settled(e)
  <2>1. Done(e)
    BY <1>3 DEF M!Settled, Done
  <2> QED BY <1>1, <1>2, <2>1, DoneStays
<1>4. CASE ~M!Settled(e)
  <2>1. runner[m].pc \in {"classify"} \cup M!Planned
    BY DEF Returns, M!At, M!Planned
  <2>2. e \in runner[m].todo \cup runner[m].act
    BY <1>1, <1>4, <2>1 DEF M!Sound, M!Sorted
  <2>3. /\ runner[m].pc = "mark" /\ e \in runner[m].act
        /\ runner[m].act = M!Wave(runner[m].act)
    BY <1>1, <2>2 DEF Returns, M!At, M!Sound, M!Sets, M!Planned
  <2>4. M!Open(e) /\ e \in M!Wave(runner[m].act)
    BY <1>1, <2>3 DEF M!Sound, M!Opened, M!InWave
  <2>5. M!MarkApplied(m)
    BY <2>3 DEF M!RunStep, M!CheckPending, M!ReadHistory, M!Skip, M!Stage, M!Refuse,
       M!PlanWaves, M!RecordPending, M!MergeUpserts, M!MissingTarget, M!UpsertsRaise,
       M!DeletesRaise, M!MergeDeletes, M!At
  <2>6. e.id \in EventIds
    BY <1>2 DEF EventIds
  <2>7. ledger'[e.id] = [ledger[e.id] EXCEPT !.status = "APPLIED"]
    BY <2>4, <2>5, <2>6 DEF M!MarkApplied, M!Open
  <2>8. ledger[e.id] \in M!Record
    BY <1>1, <2>4, <2>6 DEF M!TypeOK, M!Open, M!IsPending
  <2>9. /\ ledger'[e.id] \in M!Record /\ ledger'[e.id].ev = ledger[e.id].ev
        /\ ledger'[e.id].status = "APPLIED"
    BY <2>7, <2>8 DEF M!Record
  <2>10. M!Replay(e)'
    BY <2>4, <2>9, RowsAssumption DEF M!Replay, M!IsApplied, M!Open
  <2> QED BY <2>10 DEF Done
<1> QED BY <1>3, <1>4

(* Steps that feed the oracle nothing.                                     *)
LEMMA FedKept ==
  ASSUME M!RunInv, HistoryTyped, FedInv, [M!Next]_M!vars, UNCHANGED <<delivered, oracle>>
  PROVE  FedDone' /\ SeenFed' /\ \A k \in Keys : RowFed(k)' /\ Reached(k)'
<1>1. FedLines' = FedLines
  BY DEF FedLines
<1>2. M!TypeOK
  BY DEF M!RunInv
<1>3. FedDone'
  <2>1. ASSUME NEW x \in FedLines PROVE Done(EventOf(x))'
    BY <1>2, <2>1, FedLinesValid, EventOfLine, DoneStays DEF FedInv, FedDone
  <2> QED BY <1>1, <2>1 DEF FedDone
<1>4. SeenFed'
  BY <1>1 DEF FedInv, SeenFed
<1>5. ASSUME NEW k \in Keys PROVE RowFed(k)'
  BY <1>1 DEF FedInv, RowFed, SnapshotRow
<1>6. ASSUME NEW k \in Keys PROVE Reached(k)'
  <2>1. Reused(k) => Reused(k)'
    BY <1>2, LedgerKept DEF Reused
  <2>2. SUFFICES ASSUME ~Reused(k), NEW i \in EventIds, M!IsApplied(i)', ledger'[i].ev.key = k,
                        i \in oracle.seen
                 PROVE  ledger'[i].ev.seq <= oracle.maxSeq[k]
    BY <2>1 DEF Reached
  <2>3. ledger'[i].ev = ledger[i].ev /\ (M!IsApplied(i) \/ M!IsPending(i))
    BY <1>2, <2>2, LedgerKept DEF M!LedgerStep, M!IsApplied, M!IsPending, M!TypeOK, M!Record
  <2>4. ~M!IsPending(i)
    BY <2>2, <2>3, PendingUnseen DEF FedInv
  <2> QED BY <2>2, <2>3, <2>4 DEF FedInv, Reached
<1> QED BY <1>3, <1>4, <1>5, <1>6

(* A run returns, and the oracle is fed its lines.                         *)
LEMMA FedByReturn ==
  ASSUME M!RunInv, M!RunInv', HistoryInv, HistoryInv', FedInv, NEW m \in Mergers,
         M!RunStep(m), Returns(m), [M!Next]_M!vars,
         delivered' = delivered \cup {input[m]}, oracle' = Fed(oracle, input[m].lines)
  PROVE  FedDone' /\ SeenFed' /\ \A k \in Keys : RowFed(k)' /\ Reached(k)'
<1> DEFINE L == input[m].lines
<1>1. /\ M!TypeOK /\ HistoryTyped /\ runner[m].pc # "idle"
      /\ L \in SUBSET ValidLines /\ \A x \in L : x.seq <= MaxLong
  BY BusyMerger DEF M!RunInv, HistoryInv, HistoryTyped, BusyInput
<1>2. FedLines' = FedLines \cup L
  BY DEF FedLines
<1>3. oracle'.seen = oracle.seen \cup {x.id : x \in {x \in L : OracleAdmits(x)}}
  BY DEF Fed
<1>4. \A k \in Keys :
        /\ oracle.maxSeq[k] <= oracle'.maxSeq[k]
        /\ \A x \in L : OracleAdmits(x) /\ x.id \notin oracle.seen /\ x.entity = k
                        => x.seq <= oracle'.maxSeq[k]
        /\ \/ oracle'.maxSeq[k] = oracle.maxSeq[k] /\ oracle'.rows[k] = oracle.rows[k]
           \/ \E x \in L : /\ x.entity = k /\ x.seq = oracle'.maxSeq[k]
                            /\ oracle'.rows[k] = Effect(x)
  BY <1>1, FedEffect
<1>5. \A k \in Keys : oracle.maxSeq[k] \in Nat /\ oracle'.maxSeq[k] \in Nat
  BY DEF HistoryInv, HistoryTyped
<1>6. L = input[m].lines
  OBVIOUS
<1> HIDE DEF L
<1>7. FedDone'
  <2>1. ASSUME NEW x \in FedLines PROVE Done(EventOf(x))'
    BY <1>1, <2>1, FedLinesValid, EventOfLine, DoneStays DEF FedInv, FedDone
  <2>2. ASSUME NEW x \in L PROVE Done(EventOf(x))'
    <3>1. EventOf(x) \in runner[m].batch
      BY <1>1, <1>6 DEF FedInv, SetRead
    <3> QED BY <3>1, ReturnedDone
  <2> QED BY <1>2, <2>1, <2>2 DEF FedDone
<1>8. SeenFed'
  <2>1. ASSUME NEW i \in oracle'.seen PROVE \E x \in FedLines' : x.id = i
    BY <1>2, <1>3 DEF FedInv, SeenFed
  <2> QED BY <2>1 DEF SeenFed
<1>9. ASSUME NEW k \in Keys PROVE RowFed(k)'
  <2>1. CASE oracle'.maxSeq[k] = oracle.maxSeq[k] /\ oracle'.rows[k] = oracle.rows[k]
    <3>1. RowFed(k)
      BY DEF FedInv
    <3> QED BY <1>2, <2>1, <3>1 DEF RowFed, SnapshotRow
  <2>2. CASE \E x \in L : /\ x.entity = k /\ x.seq = oracle'.maxSeq[k]
                           /\ oracle'.rows[k] = Effect(x)
    BY <1>2, <2>2 DEF RowFed
  <2> QED BY <1>4, <2>1, <2>2
<1>10. ASSUME NEW k \in Keys PROVE Reached(k)'
  <2>1. Reused(k) => Reused(k)'
    BY <1>1, LedgerKept DEF Reused
  <2>2. SUFFICES ASSUME ~Reused(k)', NEW i \in EventIds, M!IsApplied(i)', ledger'[i].ev.key = k,
                        i \in oracle'.seen
                 PROVE  ledger'[i].ev.seq <= oracle'.maxSeq[k]
    BY DEF Reached
  <2>3. /\ ledger'[i].ev = ledger[i].ev /\ ledger[i].ev \in Events
        /\ M!IsApplied(i) \/ M!IsPending(i)
    BY <1>1, <2>2, LedgerKept DEF M!LedgerStep, M!IsApplied, M!IsPending, M!TypeOK, M!Record
  <2>4. ledger[i].ev.seq \in Nat
    BY <2>3, EventTyped
  <2>5. CASE i \in oracle.seen
    <3>1. ~M!IsPending(i)
      BY <1>1, <2>1, <2>2, <2>3, <2>5, PendingUnseen DEF FedInv
    <3>2. ledger[i].ev.seq <= oracle.maxSeq[k]
      BY <2>1, <2>2, <2>3, <2>5, <3>1 DEF FedInv, Reached
    <3> QED BY <1>4, <1>5, <2>3, <2>4, <3>2
  <2>6. CASE i \notin oracle.seen
    <3>1. PICK x \in L : x.id = i /\ OracleAdmits(x)
      BY <1>3, <2>2, <2>6
    <3>2. input[m] \in delivered' /\ x \in input[m].lines /\ ledger'[i] # NoRecord
      BY <1>6, <2>2, <3>1 DEF M!IsApplied
    <3>3. EventOf(x) = ledger'[i].ev
      BY <2>2, <3>1, <3>2 DEF Reused
    <3>4. x.entity = k /\ x.seq = ledger'[i].ev.seq
      BY <1>1, <2>2, <3>1, <3>3, EventOfLine
    <3> QED BY <1>4, <2>6, <3>1, <3>4
  <2> QED BY <2>5, <2>6
<1> QED BY <1>7, <1>8, <1>9, <1>10

LEMMA SetReadStep ==
  ASSUME OneMerger, M!TypeOK, HistoryInv, SetRead, [Next]_vars PROVE SetRead'
<1>1. CASE UNCHANGED <<input, runner>>
  BY <1>1 DEF SetRead
<1>2. ASSUME NEW m \in Mergers, NEW id \in DOMAIN accepted, NEW policy \in Policies,
             RunFromFile(m, id, policy)
      PROVE  SetRead'
  <2>1. runner'[m].batch = EventsIn(id)
    BY <1>2 DEF RunFromFile, M!Submit, M!Become, M!TypeOK
  <2>2. input'[m].lines = LinesIn(id)
    BY <1>2 DEF RunFromFile, HistoryInv, HistoryTyped
  <2>3. \A n \in Mergers : n = m
    BY DEF OneMerger
  <2> QED BY <2>1, <2>2, <2>3 DEF SetRead, EventsIn
<1>3. ASSUME NEW m \in Mergers, MergeStep(m) PROVE SetRead'
  <2>1. M!RunStep(m) /\ runner[m].pc # "idle"
    BY <1>3, BusyMerger DEF MergeStep
  <2>2. runner'[m].pc # "idle" => runner'[m].batch = runner[m].batch /\ input' = input
    BY <1>3, <2>1, SetKept DEF MergeStep
  <2>3. \A n \in Mergers : n = m
    BY DEF OneMerger
  <2> QED BY <2>1, <2>2, <2>3 DEF SetRead
<1>4. ASSUME NEW m \in Mergers, MergerDies(m) PROVE SetRead'
  <2>1. runner'[m].pc = "idle"
    BY <1>4 DEF MergerDies, M!Crash, M!Leave, M!Become, M!Idle, M!TypeOK
  <2>2. \A n \in Mergers : n = m
    BY DEF OneMerger
  <2> QED BY <2>1, <2>2 DEF SetRead
<1>5. CASE \/ Land \/ InitializeTargets \/ BootstrapFails \/ UNCHANGED vars
           \/ \E r \in Normalizers : \/ Normalize(r) \/ NormalizerDies(r)
                                     \/ \E paths \in Lists : RunPipeline(r, paths)
  <2>1. UNCHANGED <<input, runner>>
    BY <1>5 DEF Land, Normalize, NormalizerDies, RunPipeline, merging, history, vars,
       InitializeTargets, BootstrapFails, M!StartBootstrap, M!BootstrapTable, M!BootstrapFails
  <2> QED BY <1>1, <2>1
<1> QED BY <1>2, <1>3, <1>4, <1>5 DEF Next, Work, Faults

LEMMA FedStep ==
  ASSUME OneMerger, N!IInv, LinesKnown, M!RunInv, M!RunInv', HistoryInv, HistoryInv', FedInv,
         [Next]_vars
  PROVE  FedInv'
<1>1. [M!Next]_M!vars /\ M!TypeOK /\ HistoryTyped
  BY MergeNext DEF M!RunInv, HistoryInv
<1>2. SetRead'
  BY <1>1, SetReadStep DEF FedInv
<1>3. CASE UNCHANGED <<delivered, oracle>>
  BY <1>1, <1>2, <1>3, FedKept DEF FedInv
<1>4. CASE ~UNCHANGED <<delivered, oracle>>
  <2>1. PICK m \in Mergers : MergeStep(m)
    BY <1>4 DEF Next, Work, Faults, Land, Normalize, NormalizerDies, RunPipeline, history, vars,
       InitializeTargets, BootstrapFails, RunFromFile, MergerDies
  <2>2. /\ M!RunStep(m) /\ Returns(m)
        /\ delivered' = delivered \cup {input[m]} /\ oracle' = Fed(oracle, input[m].lines)
    BY <1>4, <2>1 DEF MergeStep
  <2>3. FedDone' /\ SeenFed' /\ \A k \in Keys : RowFed(k)' /\ Reached(k)'
    BY <1>1, <2>2, FedByReturn
  <2> QED BY <1>2, <2>3 DEF FedInv
<1> QED BY <1>3, <1>4

LEMMA RowThere ==
  ASSUME NEW p \in Events \cup {Bootstrap}
  PROVE  [payload |-> p, last |-> p, deleted |-> FALSE] # NoRow
<1>1. [payload |-> p, last |-> p, deleted |-> FALSE] \in M!Row
  BY DEF M!Row
<1>2. NoRow \notin M!Row
  BY RowsAssumption
<1> QED BY <1>1, <1>2

(* A row that shows the event of a line is the effect of the line.         *)
LEMMA ShownLine ==
  ASSUME NEW row, NEW x \in ValidLines, M!Shows(row, EventOf(x))
  PROVE  M!ActivePayload(row) = Effect(x)
<1>1. EventOf(x) \in Events /\ EventOf(x).op = x.op
  BY EventOfLine
<1>2. CASE x.op = "DELETE"
  BY <1>1, <1>2 DEF M!Shows, M!ActivePayload, Effect
<1>3. CASE x.op # "DELETE"
  <2>1. row = [payload |-> EventOf(x), last |-> EventOf(x), deleted |-> FALSE]
    BY <1>1, <1>3 DEF M!Shows
  <2>2. row # NoRow
    BY <1>1, <2>1, RowThere
  <2> QED BY <1>3, <2>1, <2>2 DEF M!ActivePayload, Effect
<1> QED BY <1>2, <1>3

(* The row of the target is the effect of the highest applied event, the   *)
(* row of the oracle that of the highest line it was fed: they are one.    *)
LEMMA KeyReconciled ==
  ASSUME M!TypeOK, HistoryTyped, FedInv, M!SequencesApart, M!TargetAgreesWithLedger,
         tables = Tables, NEW k \in Keys, ~Unsettled(k), ~Reused(k)
  PROVE  M!ActivePayload(target[k]) = oracle.rows[k]
<1>1. M!ShowsApplied(k)
  <2>1. \A i \in EventIds : ledger[i] # NoRecord /\ ledger[i].ev.key = k => ~M!IsPending(i)
    BY DEF Unsettled, M!IsApplied, M!IsPending
  <2>2. M!PendingOn(k) = {}
    BY <2>1 DEF M!PendingOn, M!IsPending
  <2>3. TableOf[k] \in tables
    BY DEF TableOf, Tables
  <2> QED BY <2>2, <2>3 DEF M!TargetAgreesWithLedger
<1>2. /\ \A i \in EventIds : M!IsApplied(i) => ledger[i].ev \in Events /\ ledger[i].ev.seq \in Nat \ {0}
      /\ oracle.maxSeq[k] \in Nat
  BY EventTyped DEF M!TypeOK, M!IsApplied, M!Record, HistoryTyped
<1>3. RowFed(k) /\ Reached(k)
  BY DEF FedInv
<1>4. ASSUME NEW x \in FedLines, x.entity = k
      PROVE  /\ EventOf(x).key = k /\ EventOf(x).seq = x.seq /\ EventOf(x).op = x.op
             /\ x.seq \in Nat
             /\ \/ x.id \in EventIds /\ M!IsApplied(x.id) /\ ledger[x.id].ev = EventOf(x)
                \/ \E i \in EventIds : /\ M!IsApplied(i) /\ ledger[i].ev.key = k
                                       /\ x.seq < ledger[i].ev.seq
  <2>1. x \in ValidLines /\ Done(EventOf(x))
    BY FedLinesValid DEF FedInv, FedDone
  <2>2. /\ EventOf(x) \in Events /\ EventOf(x).id = x.id /\ x.id \in EventIds
        /\ EventOf(x).key = k /\ EventOf(x).seq = x.seq /\ EventOf(x).op = x.op /\ x.seq \in Nat
    BY <1>4, <2>1, EventOfLine
  <2>3. CASE M!Replay(EventOf(x))
    <3>1. M!IsApplied(x.id) /\ ledger[x.id].ev.fp = EventOf(x).fp
      BY <2>2, <2>3 DEF M!Replay
    <3>2. ledger[x.id].ev \in Events
      BY <1>2, <2>2, <3>1
    <3>3. ledger[x.id].ev = EventOf(x)
      <4>1. PICK y \in ValidLines : ledger[x.id].ev = EventOf(y)
        BY <3>2 DEF Events
      <4>2. N!Fingerprint(x) = N!Fingerprint(y)
        BY <3>1, <4>1 DEF EventOf
      <4>3. x.id = y.id /\ x.entity = y.entity /\ x.op = y.op /\ x.seq = y.seq
        BY <4>2 DEF N!Fingerprint
      <4> QED BY <4>1, <4>2, <4>3 DEF EventOf
    <3> QED BY <2>2, <3>1, <3>3
  <2>4. CASE M!Overtaken(EventOf(x))
    BY <2>2, <2>4 DEF M!Overtaken
  <2> QED BY <2>1, <2>2, <2>3, <2>4 DEF Done
<1>5. CASE M!AppliedOn(k) = {} /\ target[k] = M!BootRow(k)
  <2>1. \A i \in EventIds : ~(M!IsApplied(i) /\ ledger[i].ev.key = k)
    BY <1>5 DEF M!AppliedOn
  <2>2. \A x \in FedLines : x.entity # k
    BY <1>4, <2>1
  <2>3. oracle.rows[k] = SnapshotRow(k)
    BY <1>3, <2>2 DEF RowFed
  <2>4. CASE k \in SnapshotKeys
    <3>1. target[k] = [payload |-> Bootstrap, last |-> Bootstrap, deleted |-> FALSE]
      BY <1>5, <2>4 DEF M!BootRow
    <3>2. target[k] # NoRow
      BY <3>1, RowThere
    <3> QED BY <2>3, <2>4, <3>1, <3>2 DEF M!ActivePayload, SnapshotRow
  <2>5. CASE k \notin SnapshotKeys
    BY <1>5, <2>3, <2>5 DEF M!BootRow, M!ActivePayload, SnapshotRow
  <2> QED BY <2>4, <2>5
<1>6. ASSUME NEW e \in M!AppliedOn(k), \A f \in M!AppliedOn(k) : f.seq <= e.seq,
             M!Shows(target[k], e)
      PROVE  M!ActivePayload(target[k]) = oracle.rows[k]
  <2>1. PICK i \in EventIds : M!IsApplied(i) /\ ledger[i].ev.key = k /\ e = ledger[i].ev
    BY DEF M!AppliedOn
  <2>2. \A j \in EventIds : M!IsApplied(j) /\ ledger[j].ev.key = k => ledger[j].ev.seq <= e.seq
    BY <1>6 DEF M!AppliedOn
  <2>3. i \in oracle.seen
    BY <2>1 DEF Unsettled, M!IsApplied
  <2>4. e.seq <= oracle.maxSeq[k] /\ e.seq \in Nat \ {0}
    BY <1>2, <1>3, <2>1, <2>3 DEF Reached
  <2>5. PICK x \in FedLines : /\ x.entity = k /\ x.seq = oracle.maxSeq[k]
                              /\ oracle.rows[k] = Effect(x)
    BY <1>2, <1>3, <2>4 DEF RowFed
  <2>6. ~ \E j \in EventIds : M!IsApplied(j) /\ ledger[j].ev.key = k /\ x.seq < ledger[j].ev.seq
    BY <1>2, <2>2, <2>4, <2>5
  <2>7. x.id \in EventIds /\ M!IsApplied(x.id) /\ ledger[x.id].ev = EventOf(x)
    BY <1>4, <2>5, <2>6
  <2>8. EventOf(x).key = k /\ EventOf(x).seq = x.seq /\ EventOf(x).op = x.op
    BY <1>4, <2>5
  <2>9. ledger[x.id].ev.seq = e.seq
    BY <1>2, <2>2, <2>4, <2>5, <2>7, <2>8
  <2>10. e = EventOf(x)
    BY <2>1, <2>7, <2>8, <2>9 DEF M!SequencesApart
  <2>11. M!ActivePayload(target[k]) = Effect(x)
    BY <1>6, <2>5, <2>10, FedLinesValid, ShownLine
  <2> QED BY <2>5, <2>11
<1> QED BY <1>1, <1>5, <1>6 DEF M!ShowsApplied

LEMMA RunsHold == OneMerger => (Spec => []M!RunInv)
<1> SUFFICES ASSUME OneMerger PROVE Spec => []M!RunInv
  OBVIOUS
<1>1. M!Spec => []M!RunInv
  BY FingerprintIdentifies, MergeAssumption, RowsAssumption, M!RunInvariant
     DEF OneMerger, M!OneRunner
<1> QED BY <1>1, PlatformIsMerge, PTL DEF ImplementsMerge

LEMMA FedHolds == OneMerger => (Spec => []FedInv)
<1> SUFFICES ASSUME OneMerger PROVE Spec => []FedInv
  OBVIOUS
<1>1. Init => FedInv
  <2> SUFFICES ASSUME Init PROVE FedInv
    OBVIOUS
  <2>1. FedLines = {} /\ oracle.seen = {}
    BY DEF Init, FedLines
  <2>2. \A m \in Mergers : runner[m].pc = "idle"
    BY DEF Init, M!Init, M!Idle
  <2>3. \A k \in Keys : RowFed(k)
    BY DEF Init, RowFed, SnapshotRow
  <2> QED BY <2>1, <2>2, <2>3 DEF FedInv, FedDone, SeenFed, SetRead, Reached
<1> QED BY <1>1, RunsHold, HistoryHolds, FedStep, NormalizationHolds, KnownHolds, PTL DEF Spec

(* With one merge at a time and operations in upper case, reconciliation   *)
(* reports a key only while its events are under way, or the oracle did    *)
(* not take them, or an event_id was used for two events: for any files,   *)
(* however they are grouped, merged again and interrupted.                 *)
THEOREM ReconciledAlways == OneMerger /\ OperationsSpelt => (Spec => []Reconciled)
<1> SUFFICES ASSUME OneMerger, OperationsSpelt PROVE Spec => []Reconciled
  OBVIOUS
<1>1. M!Spec => []M!SequencesApart
  BY FingerprintIdentifies, MergeAssumption, RowsAssumption, M!SequencesStayApart
     DEF OneMerger, M!OneRunner
<1>2. Spec => []M!SequencesApart
  BY <1>1, PlatformIsMerge, PTL DEF ImplementsMerge
<1>3. Spec => []M!TargetAgreesWithLedger
  BY TargetsOfPlatform, PTL
<1>4. M!RunInv /\ M!SequencesApart /\ HistoryInv /\ FedInv /\ M!TargetAgreesWithLedger => Reconciled
  BY KeyReconciled DEF Reconciled, Mismatches, M!RunInv, HistoryInv
<1> QED BY <1>2, <1>3, <1>4, RunsHold, HistoryHolds, FedHolds, PTL

-----------------------------------------------------------------------------
(* What a run was given and what was delivered is, of an id no run read    *)
(* other bytes of, what its files should give; and the ledger holds no     *)
(* event of such an id but one of these lines.                             *)
CleanLines(id, lines) == id \notin tainted => lines = {a.x : a \in N!Expected(id)}

SetsClean ==
  /\ \A m \in Mergers : runner[m].pc # "idle" =>
       runner[m].proc = input[m].id /\ CleanLines(input[m].id, input[m].lines)
  /\ \A d \in delivered : CleanLines(d.id, d.lines)

RecordsClean ==
  \A i \in EventIds : ledger[i] # NoRecord /\ ledger[i].proc \notin tainted =>
    \E a \in N!Expected(ledger[i].proc) : ledger[i].ev = EventOf(a.x)

LEMMA TaintedForGood == [N!Next]_N!vars => tainted \subseteq tainted'
<1> SUFFICES ASSUME [N!Next]_N!vars PROVE tainted \subseteq tainted'
  OBVIOUS
<1>1. CASE \E r \in Normalizers : N!ReadFiles(r)
  <2>1. PICK r \in Normalizers : N!ReadFiles(r)
    BY <1>1
  <2>2. tainted' = tainted \/ tainted' = tainted \cup {run[r].id}
    BY <2>1 DEF N!ReadFiles
  <2> QED BY <2>2
<1>2. CASE ~ \E r \in Normalizers : N!ReadFiles(r)
  BY <1>2 DEF N!Next, N!vars, N!Rewrite, N!StartRun, N!WriteAccepted, N!WriteQuarantine, N!Die
<1> QED BY <1>1, <1>2

LEMMA CleanKept ==
  ASSUME [Next]_vars, NEW id, NEW lines, CleanLines(id, lines) PROVE CleanLines(id, lines)'
<1>1. tainted \subseteq tainted'
  BY NormalizationStep, TaintedForGood
<1> QED BY <1>1 DEF CleanLines, N!Expected, N!Copies, N!Valid

LEMMA SetsCleanStep ==
  N!OutputsDetermined /\ N!IInv /\ LinesKnown /\ M!TypeOK /\ HistoryInv /\ SetsClean /\ [Next]_vars
    => SetsClean'
<1> SUFFICES ASSUME N!OutputsDetermined, N!IInv, LinesKnown, M!TypeOK, HistoryInv, SetsClean,
                    [Next]_vars
             PROVE  SetsClean'
  OBVIOUS
<1>1. \A id, lines : CleanLines(id, lines) => CleanLines(id, lines)'
  BY CleanKept
<1>2. CASE UNCHANGED <<input, runner, delivered>>
  <2>1. ASSUME NEW m \in Mergers, runner'[m].pc # "idle"
        PROVE  runner'[m].proc = input'[m].id /\ CleanLines(input[m].id, input[m].lines)'
    BY <1>1, <1>2, <2>1 DEF SetsClean, CleanLines
  <2>2. ASSUME NEW d \in delivered' PROVE CleanLines(d.id, d.lines)'
    BY <1>1, <1>2 DEF SetsClean
  <2> QED BY <2>1, <2>2 DEF SetsClean
<1>3. ASSUME NEW m \in Mergers, NEW id \in DOMAIN accepted, NEW policy \in Policies,
             RunFromFile(m, id, policy)
      PROVE  SetsClean'
  <2>1. /\ M!Submit(m, [proc |-> id, batch |-> EventsIn(id)], policy)
        /\ input' = [input EXCEPT ![m] = [id |-> id, lines |-> LinesIn(id)]]
        /\ delivered' = delivered
    BY <1>3 DEF RunFromFile
  <2>2. CleanLines(id, LinesIn(id))
    BY DEF N!OutputsDetermined, CleanLines, LinesIn
  <2>3. input'[m] = [id |-> id, lines |-> LinesIn(id)] /\ runner'[m].proc = id
    BY <2>1 DEF M!Submit, M!Become, M!TypeOK, HistoryInv, HistoryTyped
  <2>4. ASSUME NEW n \in Mergers, n # m
        PROVE  input'[n] = input[n] /\ runner'[n] = runner[n]
    BY <2>1, <2>4, FileIsSubmission, OtherMergers DEF HistoryInv, HistoryTyped
  <2>5. ASSUME NEW n \in Mergers, runner'[n].pc # "idle"
        PROVE  runner'[n].proc = input'[n].id /\ CleanLines(input[n].id, input[n].lines)'
    <3>1. CASE n = m
      <4>1. CleanLines(input'[m].id, input'[m].lines)
        BY <2>2, <2>3
      <4> QED BY <1>1, <2>3, <3>1, <4>1 DEF CleanLines
    <3>2. CASE n # m
      BY <1>1, <2>4, <2>5, <3>2 DEF SetsClean, CleanLines
    <3> QED BY <3>1, <3>2
  <2>6. ASSUME NEW d \in delivered' PROVE CleanLines(d.id, d.lines)'
    BY <1>1, <2>1 DEF SetsClean
  <2> QED BY <2>5, <2>6 DEF SetsClean
<1>4. ASSUME NEW m \in Mergers, MergeStep(m) \/ MergerDies(m) PROVE SetsClean'
  <2>1. /\ M!RunStep(m) \/ M!Crash(m)
        /\ runner[m].pc # "idle"
    BY <1>4, BusyMerger DEF MergeStep, MergerDies, M!Crash, M!At
  <2>2. /\ delivered' = delivered \/ delivered' = delivered \cup {input[m]}
        /\ \A n \in Mergers : n # m => input'[n] = input[n]
        /\ runner'[m].pc # "idle" => runner'[m].proc = runner[m].proc /\ input'[m] = input[m]
    <3>1. CASE MergeStep(m)
      <4>1. delivered' = delivered \/ delivered' = delivered \cup {input[m]}
        BY <3>1 DEF MergeStep
      <4> QED BY <2>1, <3>1, <4>1, SetKept DEF MergeStep, HistoryInv, HistoryTyped
    <3>2. CASE MergerDies(m)
      BY <3>2 DEF MergerDies, M!Crash, M!Leave, M!Become, M!Idle, M!TypeOK, HistoryInv, HistoryTyped
    <3> QED BY <1>4, <3>1, <3>2
  <2>3. ASSUME NEW n \in Mergers, runner'[n].pc # "idle"
        PROVE  runner'[n].proc = input'[n].id /\ CleanLines(input[n].id, input[n].lines)'
    <3>1. runner'[n].proc = runner[n].proc /\ input'[n] = input[n] /\ runner[n].pc # "idle"
      <4>1. CASE n = m
        BY <2>1, <2>2, <2>3, <4>1
      <4>2. CASE n # m
        BY <2>1, <2>2, <2>3, <4>2, OtherMergers
      <4> QED BY <4>1, <4>2
    <3> QED BY <1>1, <3>1 DEF SetsClean, CleanLines
  <2>4. ASSUME NEW d \in delivered' PROVE CleanLines(d.id, d.lines)'
    BY <1>1, <2>1, <2>2 DEF SetsClean
  <2> QED BY <2>3, <2>4 DEF SetsClean
<1>5. CASE \/ Land \/ InitializeTargets \/ BootstrapFails \/ UNCHANGED vars
           \/ \E r \in Normalizers : \/ Normalize(r) \/ NormalizerDies(r)
                                     \/ \E paths \in Lists : RunPipeline(r, paths)
  <2>1. UNCHANGED <<input, runner, delivered>>
    BY <1>5 DEF Land, Normalize, NormalizerDies, RunPipeline, merging, history, vars,
       InitializeTargets, BootstrapFails, M!StartBootstrap, M!BootstrapTable, M!BootstrapFails
  <2> QED BY <1>2, <2>1
<1> QED BY <1>3, <1>4, <1>5 DEF Next, Work, Faults

(* Only phase A of a run makes records.                                    *)
LEMMA RecordedBy ==
  ASSUME [Next]_vars, NEW i \in EventIds, ledger[i] = NoRecord, ledger'[i] # NoRecord
  PROVE  \E m \in Mergers : M!RecordPending(m)
<1>1. CASE \E m \in Mergers, id \in DOMAIN accepted, policy \in Policies : RunFromFile(m, id, policy)
  BY <1>1 DEF RunFromFile, M!Submit
<1>2. CASE M!Bootstrapping \/ UNCHANGED M!vars
  BY <1>2 DEF M!Bootstrapping, M!StartBootstrap, M!BootstrapTable, M!BootstrapFails, M!vars
<1>3. ASSUME NEW m \in Mergers, M!RunStep(m) \/ M!Crash(m), ~M!RecordPending(m) PROVE FALSE
  <2>1. CASE M!MarkApplied(m)
    BY <2>1 DEF M!MarkApplied, M!IsPending
  <2>2. CASE ~M!MarkApplied(m)
    BY <1>3, <2>2 DEF M!RunStep, M!Crash, M!CheckPending, M!ReadHistory, M!Skip, M!Stage, M!Refuse,
       M!PlanWaves, M!MergeUpserts, M!MissingTarget, M!UpsertsRaise, M!DeletesRaise,
       M!MergeDeletes
  <2> QED BY <2>1, <2>2
<1> QED BY <1>1, <1>2, <1>3, MergeSteps

LEMMA RecordsCleanStep ==
  M!RunInv /\ SetsClean /\ SetRead /\ RecordsClean /\ N!IInv /\ LinesKnown /\ [Next]_vars
    => RecordsClean'
<1> SUFFICES ASSUME M!RunInv, SetsClean, SetRead, RecordsClean, N!IInv, LinesKnown, [Next]_vars,
                    NEW i \in EventIds, ledger'[i] # NoRecord, ledger'[i].proc \notin tainted'
             PROVE  \E a \in N!Expected(ledger'[i].proc) : ledger'[i].ev = EventOf(a.x)
  BY DEF RecordsClean, EventOf, N!Fingerprint, N!Expected, N!Copies, N!Valid
<1>1. ledger'[i].proc \notin tainted
  BY NormalizationStep, TaintedForGood
<1>2. CASE ledger[i] # NoRecord
  <2>1. M!LedgerStep(i)
    BY MergeNext, LedgerKept DEF M!RunInv
  <2> QED BY <1>1, <1>2, <2>1 DEF M!LedgerStep, RecordsClean
<1>3. CASE ledger[i] = NoRecord
  <2>1. PICK m \in Mergers : M!RecordPending(m)
    BY <1>3, RecordedBy
  <2>2. PICK e \in M!Wave(runner[m].act) :
          ledger'[i] = [ev |-> e, proc |-> runner[m].proc, status |-> "PENDING"]
    BY <1>3, <2>1, MergeAssumption, RowsAssumption, M!RecordEffect
  <2>3. runner[m].pc # "idle" /\ e \in runner[m].batch
    BY <2>1, <2>2 DEF M!RecordPending, M!At, M!RunInv, M!Sound, M!Sets, M!Wave
  <2>4. PICK x \in input[m].lines : e = EventOf(x)
    BY <2>3 DEF SetRead
  <2>5. runner[m].proc = input[m].id /\ CleanLines(input[m].id, input[m].lines)
    BY <2>3 DEF SetsClean
  <2>6. x \in {a.x : a \in N!Expected(input[m].id)}
    BY <1>1, <2>2, <2>4, <2>5 DEF CleanLines
  <2> QED BY <2>2, <2>4, <2>5, <2>6
<1> QED BY <1>2, <1>3

(* The lines of one fingerprint are one event.                             *)
LEMMA OneEvent ==
  ASSUME NEW x, NEW y, N!Fingerprint(x) = N!Fingerprint(y)
  PROVE  /\ EventOf(x) = EventOf(y) /\ Effect(x) = Effect(y)
         /\ x.id = y.id /\ x.entity = y.entity /\ x.seq = y.seq
<1>1. x.id = y.id /\ x.entity = y.entity /\ x.op = y.op /\ x.seq = y.seq
  BY NormalizationAssumption, N!SameFingerprint
<1> QED BY <1>1 DEF EventOf, Effect

LEMMA CopyLines ==
  ASSUME NEW id \in ProcIds, NEW x \in LinesOf(id) PROVE x \in ValidLines
<1>1. PICK c \in N!Copies(id) : x = c.x
  BY DEF LinesOf
<1>2. N!Code(x) = "VALID" /\ \E f \in DOMAIN id : \E n \in DOMAIN id[f] : x = id[f][n]
  BY <1>1 DEF N!Copies, N!Valid
<1>3. \A f \in DOMAIN id : id[f] \in Contents
  BY DEF ProcIds, N!Manifests
<1> QED BY <1>2, <1>3 DEF ValidLines

(* What was delivered under its own name: every valid line of the files    *)
(* has a delivered copy, and nothing else was delivered.                   *)
LEMMA DeliveredCopies ==
  ASSUME HistoryTyped, SetsClean, {d.id : d \in delivered} \cap tainted = {},
         Undisputed(UNION {LinesOf(d.id) : d \in delivered})
  PROVE  LET All == UNION {LinesOf(d.id) : d \in delivered}
         IN /\ All \subseteq ValidLines /\ FedLines \subseteq All
            /\ \A x \in All : \E y \in FedLines : N!Fingerprint(y) = N!Fingerprint(x)
<1> DEFINE All == UNION {LinesOf(d.id) : d \in delivered}
<1>1. ASSUME NEW d \in delivered
      PROVE  d.id \in ProcIds /\ d.lines = {a.x : a \in N!Expected(d.id)}
  BY DEF HistoryTyped, SetsClean, CleanLines
<1>2. All \subseteq ValidLines
  BY <1>1, CopyLines
<1>3. ASSUME NEW x \in FedLines PROVE x \in All
  <2>1. PICK d \in delivered : x \in d.lines
    BY DEF FedLines
  <2>2. PICK a \in N!Expected(d.id) : x = a.x
    BY <1>1, <2>1
  <2>3. \E c \in N!Copies(d.id) : x = c.x
    BY <2>2, NormalizationAssumption, N!ExpectedLine
  <2> QED BY <2>3 DEF LinesOf
<1>4. ASSUME NEW x \in All PROVE \E y \in FedLines : N!Fingerprint(y) = N!Fingerprint(x)
  <2>1. PICK d \in delivered : x \in LinesOf(d.id)
    OBVIOUS
  <2>2. PICK c \in N!Copies(d.id) : x = c.x
    BY <2>1 DEF LinesOf
  <2>3. \A b, e \in N!Copies(d.id) :
          b.x.id = e.x.id \/ (b.x.entity = e.x.entity /\ b.x.seq = e.x.seq)
            => N!Fingerprint(b.x) = N!Fingerprint(e.x)
    BY DEF Undisputed, LinesOf
  <2>4. d.id \in N!Manifests
    BY <1>1 DEF ProcIds
  <2>5. PICK a \in N!Expected(d.id) : N!Fingerprint(a.x) = N!Fingerprint(c.x)
    BY <2>3, <2>4, NormalizationAssumption, N!ExpectedCopy
  <2>6. a.x \in FedLines
    BY <1>1, <2>5 DEF FedLines
  <2> QED BY <2>2, <2>5, <2>6
<1> QED BY <1>2, <1>3, <1>4

(* A key all of whose records are delivered lines shows the highest of     *)
(* them: none is pending, and the others have been applied or overtaken.   *)
LEMMA KeyGrouped ==
  ASSUME M!TargetInv, HistoryTyped, FedInv, SetsClean, RecordsClean, NEW k \in Keys,
         MergedLines(k) # {}, Undisputed(UNION {LinesOf(d.id) : d \in delivered}),
         ~Partial(k), {d.id : d \in delivered} \cap tainted = {}
  PROVE  M!ActivePayload(target[k]) = Effect(Highest(MergedLines(k)))
<1> DEFINE All == UNION {LinesOf(d.id) : d \in delivered}
           L == MergedLines(k)
<1>1. /\ All \subseteq ValidLines /\ FedLines \subseteq All
      /\ \A x \in All : \E y \in FedLines : N!Fingerprint(y) = N!Fingerprint(x)
      /\ L = {x \in All : x.entity = k}
  BY DeliveredCopies DEF MergedLines
<1>2. M!TypeOK /\ M!LedgerSound /\ M!Landed /\ M!Agrees(k)
  BY DEF M!TargetInv, M!RunInv, M!Agreement
<1>3. Undisputed(All)
  OBVIOUS
<1> HIDE DEF All, L
<1>4. \A x \in ValidLines : /\ EventOf(x).id = x.id /\ EventOf(x).key = x.entity
                            /\ EventOf(x).seq = x.seq /\ x.seq \in Nat
  BY EventOfLine
<1>5. \A i \in EventIds : ledger[i] # NoRecord =>
        /\ ledger[i].ev \in Events /\ ledger[i].ev.seq \in Nat /\ ledger[i].ev.id = i
        /\ M!IsApplied(i) \/ M!IsPending(i)
  BY <1>2, EventTyped DEF M!TypeOK, M!LedgerSound, M!Record, M!IsApplied, M!IsPending
<1>6. ASSUME NEW i \in EventIds, ledger[i] # NoRecord, ledger[i].ev.key = k
      PROVE  \E y \in FedLines : ledger[i].ev = EventOf(y)
  <2>1. PICK d \in delivered : ledger[i].proc = d.id
    BY <1>6 DEF Partial
  <2>2. PICK a \in N!Expected(d.id) : ledger[i].ev = EventOf(a.x)
    BY <1>6, <2>1 DEF RecordsClean
  <2>3. d.lines = {b.x : b \in N!Expected(d.id)}
    BY DEF SetsClean, CleanLines
  <2> QED BY <2>2, <2>3 DEF FedLines
<1>7. M!PendingOn(k) = {}
  <2> SUFFICES ASSUME NEW i \in EventIds, M!IsPending(i), ledger[i].ev.key = k PROVE FALSE
    BY DEF M!PendingOn
  <2>1. PICK y \in FedLines : ledger[i].ev = EventOf(y)
    BY <1>6 DEF M!IsPending
  <2>2. Done(ledger[i].ev) /\ ledger[i].ev.id = i
    BY <1>5, <2>1 DEF FedInv, FedDone, M!IsPending
  <2>3. PICK j \in EventIds : /\ M!IsApplied(j) /\ ledger[j].ev.key = k
                              /\ ledger[i].ev.seq < ledger[j].ev.seq
    BY <2>2 DEF Done, M!Replay, M!Overtaken, M!IsApplied, M!IsPending
  <2>4. ledger[j].ev.seq < ledger[i].ev.seq
    BY <1>2, <2>3 DEF M!LedgerSound, M!Ahead
  <2> QED BY <1>5, <2>3, <2>4 DEF M!IsApplied, M!IsPending
<1>8. ASSUME NEW y \in FedLines, y.entity = k
      PROVE  \E f \in M!AppliedOn(k) : y.seq <= f.seq
  <2>1. y \in ValidLines /\ Done(EventOf(y))
    BY <1>1 DEF FedInv, FedDone
  <2>2. CASE M!Replay(EventOf(y))
    <3>1. y.id \in EventIds /\ M!IsApplied(y.id) /\ ledger[y.id].ev.fp = EventOf(y).fp
      BY <1>4, <2>1, <2>2, EventOfLine DEF M!Replay
    <3>2. EventOf(y) \in Events /\ ledger[y.id].ev \in Events
      BY <1>5, <2>1, <3>1, EventOfLine DEF M!IsApplied
    <3>3. ledger[y.id].ev = EventOf(y)
      BY <1>4, <1>5, <2>1, <3>1, <3>2, FingerprintIdentifies DEF M!Identified, M!IsApplied
    <3>4. EventOf(y) \in M!AppliedOn(k)
      BY <1>4, <1>8, <2>1, <3>1, <3>3 DEF M!AppliedOn
    <3> QED BY <1>4, <2>1, <3>4
  <2>3. CASE M!Overtaken(EventOf(y))
    <3>1. PICK j \in EventIds : /\ M!IsApplied(j) /\ ledger[j].ev.key = k
                                /\ y.seq < ledger[j].ev.seq
      BY <1>4, <1>8, <2>1, <2>3 DEF M!Overtaken
    <3>2. ledger[j].ev \in M!AppliedOn(k) /\ ledger[j].ev.seq \in Nat /\ y.seq \in Nat
      BY <1>4, <1>5, <2>1, <3>1 DEF M!AppliedOn, M!IsApplied
    <3> QED BY <3>1, <3>2
  <2> QED BY <2>1, <2>2, <2>3 DEF Done
<1>9. ASSUME NEW x \in L
      PROVE  x \in ValidLines /\ \E f \in M!AppliedOn(k) : x.seq <= f.seq
  <2>1. PICK y \in FedLines : N!Fingerprint(y) = N!Fingerprint(x)
    BY <1>1
  <2>2. y.entity = k /\ y.seq = x.seq
    BY <1>1, <2>1, OneEvent
  <2> QED BY <1>1, <1>8, <2>2
<1>10. \A f \in M!AppliedOn(k) : /\ f.seq \in Nat
                                 /\ \E y \in FedLines : f = EventOf(y) /\ y \in L /\ y.seq = f.seq
  <2> SUFFICES ASSUME NEW f \in M!AppliedOn(k)
               PROVE  f.seq \in Nat /\ \E y \in FedLines : f = EventOf(y) /\ y \in L /\ y.seq = f.seq
    OBVIOUS
  <2>1. PICK i \in EventIds : M!IsApplied(i) /\ ledger[i].ev.key = k /\ f = ledger[i].ev
    BY DEF M!AppliedOn
  <2>2. PICK y \in FedLines : f = EventOf(y)
    BY <1>6, <2>1 DEF M!IsApplied
  <2>3. y \in ValidLines /\ y \in All /\ y.entity = k /\ y.seq = f.seq
    BY <1>1, <1>4, <2>1, <2>2
  <2> QED BY <1>1, <1>4, <2>2, <2>3
<1>11. M!AppliedOn(k) # {} /\ TableOf[k] \in tables
  <2>1. M!AppliedOn(k) # {}
    BY <1>9 DEF L
  <2> QED BY <1>2, <2>1 DEF M!AppliedOn, M!Landed
<1>12. PICK e \in M!AppliedOn(k) : (\A f \in M!AppliedOn(k) : f.seq <= e.seq) /\ M!Shows(target[k], e)
  BY <1>2, <1>7, <1>11 DEF M!Agrees, M!ShowsApplied
<1>13. PICK y \in FedLines : e = EventOf(y) /\ y \in L /\ y.seq = e.seq
  BY <1>10
<1>14. \A x \in L : x.seq <= y.seq
  BY <1>4, <1>9, <1>10, <1>12, <1>13
<1>15. Highest(L) \in L /\ y.seq <= Highest(L).seq
  BY <1>13, <1>14 DEF Highest
<1>16. Highest(L).seq = y.seq
  BY <1>4, <1>9, <1>13, <1>14, <1>15
<1>17. N!Fingerprint(Highest(L)) = N!Fingerprint(y)
  BY <1>1, <1>3, <1>13, <1>15, <1>16 DEF Undisputed
<1>18. M!ActivePayload(target[k]) = Effect(y)
  BY <1>9, <1>12, <1>13, ShownLine
<1> QED BY <1>17, <1>18, OneEvent DEF L

(* Again so, the row of a key whose records all come from                  *)
(* sets that were merged to their end, no id of which was read differently *)
(* than hashed, is the effect of the highest valid line on it in all the   *)
(* files of these sets: however the files were grouped into sets, in       *)
(* whatever order and however often these were merged, and whichever sets  *)
(* had died in between, as long as no two lines contradict one another.    *)
THEOREM GroupingDoesNotMatter == OneMerger /\ OperationsSpelt => (Spec => []GroupingIndependent)
<1> SUFFICES ASSUME OneMerger, OperationsSpelt PROVE Spec => []GroupingIndependent
  OBVIOUS
<1>1. M!Spec => []M!TargetInv
  BY FingerprintIdentifies, SpeltEvents, MergeAssumption, RowsAssumption, M!TargetInvariant
     DEF OneMerger, M!OneRunner
<1>2. Spec => []M!TargetInv
  BY <1>1, PlatformIsMerge, PTL DEF ImplementsMerge
<1>3. Init => SetsClean /\ RecordsClean
  BY DEF Init, M!Init, M!Idle, SetsClean, RecordsClean
<1>4. Spec => []SetsClean
  BY <1>3, SetsCleanStep, OutputsHold, NormalizationHolds, KnownHolds, MergeTypes, HistoryHolds,
     PTL DEF Spec
<1>5. FedInv => SetRead
  BY DEF FedInv
<1>6. Spec => []RecordsClean
  BY <1>3, <1>4, <1>5, RecordsCleanStep, RunsHold, FedHolds, NormalizationHolds, KnownHolds,
     PTL DEF Spec
<1>7. M!TargetInv /\ HistoryInv /\ FedInv /\ SetsClean /\ RecordsClean => GroupingIndependent
  BY KeyGrouped DEF GroupingIndependent, HistoryInv
<1> QED BY <1>2, <1>4, <1>6, <1>7, HistoryHolds, FedHolds, PTL

-----------------------------------------------------------------------------
(* As long as no run has read other bytes than it had hashed, a processing *)
(* id names one set, and the merge pipeline is at work on a content        *)
(* addressed catalogue: for that it implements the mutation engine.        *)
CleanSubmissions == {s \in Submissions : s.batch = {EventOf(a.x) : a \in N!Expected(s.proc)}}

Clean == INSTANCE MergeRecoveryProofs WITH
  AllowOverwrite <- FALSE, Runners <- Mergers, Submissions <- CleanSubmissions

LEMMA CleanAssumption ==
  /\ Tables \subseteq Nat /\ TableOf \in [Keys -> Tables]
  /\ Events \subseteq [id : EventIds, fp : Fingerprints, key : Keys, seq : Nat \ {0}, op : Clean!Ops]
  /\ Unconvertible \subseteq {e \in Events : e.op \in {"INSERT", "UPDATE", "DELETE"}}
  /\ CleanSubmissions \subseteq [proc : ProcIds, batch : SUBSET Events]
  /\ \A s \in CleanSubmissions : \A e, f \in s.batch : e.id = f.id => e = f
  /\ NoRow \notin Clean!Row /\ NoRecord \notin Clean!Record \cup ProcIds
BY MergeAssumption, RowsAssumption DEF CleanSubmissions, Clean!Ops, M!Ops, Clean!Row, M!Row,
   Clean!Record, M!Record

LEMMA CleanPremises ==
  OneMerger /\ OperationsSpelt =>
    /\ Clean!OneRunner /\ Clean!Identified /\ Clean!ContentAddressed /\ Clean!Spelt
    /\ ~FALSE
<1>1. Clean!ContentAddressed
  BY DEF Clean!ContentAddressed, CleanSubmissions
<1>2. OneMerger => Clean!OneRunner
  BY DEF OneMerger, Clean!OneRunner
<1>3. OperationsSpelt => Clean!Identified /\ Clean!Spelt
  BY FingerprintIdentifies, SpeltEvents DEF M!Identified, M!Spelt, Clean!Identified, Clean!Spelt
<1> QED BY <1>1, <1>2, <1>3

LEMMA CleanFile ==
  ASSUME N!IInv, LinesKnown, N!OutputsDetermined, NEW id \in DOMAIN accepted, tainted = {}
  PROVE  [proc |-> id, batch |-> EventsIn(id)] \in CleanSubmissions
<1>1. accepted[id] = N!Expected(id)
  BY DEF N!OutputsDetermined
<1>2. EventsIn(id) = {EventOf(a.x) : a \in N!Expected(id)}
  BY <1>1 DEF EventsIn, LinesIn
<1> QED BY <1>2, FileIsSubmission DEF CleanSubmissions

LEMMA CleanRun == ASSUME NEW m \in Mergers, M!RunStep(m) PROVE Clean!RunStep(m)
<1>1. CASE M!CheckPending(m) \/ M!ReadHistory(m)
  BY <1>1 DEF M!CheckPending, M!ReadHistory, M!PendingAdmits, M!IsPending, M!AppliedSeqs,
     M!IsApplied, M!At, M!Goto, M!Leave, M!Become, M!Idle, M!NoSeqs, Clean!RunStep,
     Clean!CheckPending, Clean!ReadHistory, Clean!PendingAdmits, Clean!IsPending,
     Clean!AppliedSeqs, Clean!IsApplied, Clean!At, Clean!Goto, Clean!Leave, Clean!Become,
     Clean!Idle, Clean!NoSeqs
<1>2. ASSUME NEW e \in Events, M!Skip(m, e) \/ M!Stage(m, e) \/ M!Refuse(m, e)
      PROVE  Clean!Skip(m, e) \/ Clean!Stage(m, e) \/ Clean!Refuse(m, e)
  BY <1>2 DEF M!Skip, M!Stage, M!Refuse, M!Skipped, M!Staged, M!Replay, M!Stale, M!Recovery,
     M!Fresh, M!IsPending, M!IsApplied, M!At, M!Leave, M!Become, M!Idle, M!NoSeqs,
     Clean!Skip, Clean!Stage, Clean!Refuse, Clean!Skipped, Clean!Staged, Clean!Replay,
     Clean!Stale, Clean!Recovery, Clean!Fresh, Clean!IsPending, Clean!IsApplied, Clean!At,
     Clean!Leave, Clean!Become, Clean!Idle, Clean!NoSeqs
<1>3. CASE M!PlanWaves(m)
  BY <1>3 DEF M!PlanWaves, M!Ambiguous, M!At, M!Goto, M!Leave, M!Become, M!Idle, M!NoSeqs,
     Clean!RunStep, Clean!PlanWaves, Clean!Ambiguous, Clean!At, Clean!Goto, Clean!Leave,
     Clean!Become, Clean!Idle, Clean!NoSeqs
<1>4. CASE M!RecordPending(m) \/ M!MarkApplied(m)
  BY <1>4 DEF M!RecordPending, M!MarkApplied, M!Wave, M!WaveLE, M!EventWithId, M!IsPending,
     M!At, M!Goto, M!Become, M!Idle, M!NoSeqs, Clean!RunStep, Clean!RecordPending,
     Clean!MarkApplied, Clean!Wave, Clean!WaveLE, Clean!EventWithId, Clean!IsPending,
     Clean!At, Clean!Goto, Clean!Become, Clean!Idle, Clean!NoSeqs
<1>5. CASE M!MergeUpserts(m) \/ M!MissingTarget(m)
  BY <1>5 DEF M!MergeUpserts, M!MissingTarget, M!Wave, M!WaveLE, M!Upserts, M!On, M!EventOn,
     M!UpsertRow, M!MergeSeqs, M!At, M!Goto, M!Leave, M!Become, M!Idle, M!NoSeqs,
     Clean!RunStep, Clean!MergeUpserts, Clean!MissingTarget, Clean!Wave, Clean!WaveLE,
     Clean!Upserts, Clean!On, Clean!EventOn, Clean!UpsertRow, Clean!MergeSeqs, Clean!At,
     Clean!Goto, Clean!Leave, Clean!Become, Clean!Idle, Clean!NoSeqs
<1>6. CASE M!UpsertsRaise(m) \/ M!DeletesRaise(m)
  BY <1>6 DEF M!UpsertsRaise, M!DeletesRaise, M!Wave, M!WaveLE, M!Upserts, M!Deletes, M!At,
     M!Leave, M!Become, M!Idle, M!NoSeqs, Clean!RunStep, Clean!UpsertsRaise, Clean!DeletesRaise,
     Clean!Wave, Clean!WaveLE, Clean!Upserts, Clean!Deletes, Clean!At, Clean!Leave,
     Clean!Become, Clean!Idle, Clean!NoSeqs
<1>7. CASE M!MergeDeletes(m)
  BY <1>7 DEF M!MergeDeletes, M!Wave, M!WaveLE, M!Deletes, M!On, M!EventOn, M!DeletedRow,
     M!MergeSeqs, M!At, M!Goto, M!Become, Clean!RunStep, Clean!MergeDeletes, Clean!Wave,
     Clean!WaveLE, Clean!Deletes, Clean!On, Clean!EventOn, Clean!DeletedRow, Clean!MergeSeqs,
     Clean!At, Clean!Goto, Clean!Become
<1> QED BY <1>1, <1>2, <1>3, <1>4, <1>5, <1>6, <1>7 DEF M!RunStep, Clean!RunStep

LEMMA CleanNext ==
  ASSUME N!IInv, LinesKnown, N!OutputsDetermined, tainted = {}, [Next]_vars
  PROVE  [Clean!Next]_Clean!vars
<1>1. ASSUME NEW m \in Mergers, NEW id \in DOMAIN accepted, NEW policy \in Policies,
             RunFromFile(m, id, policy)
      PROVE  Clean!Next
  <2>1. Clean!Submit(m, [proc |-> id, batch |-> EventsIn(id)], policy)
    BY <1>1 DEF RunFromFile, M!Submit, Clean!Submit, M!At, Clean!At, M!Become, Clean!Become,
       M!NoSeqs, Clean!NoSeqs
  <2> QED BY <2>1, CleanFile DEF Clean!Next, Clean!Working
<1>2. CASE M!Bootstrapping
  BY <1>2 DEF M!Bootstrapping, M!StartBootstrap, M!BootstrapFails, M!BootstrapTable, M!BootRow,
     Clean!Next, Clean!Bootstrapping, Clean!StartBootstrap, Clean!BootstrapFails,
     Clean!BootstrapTable, Clean!BootRow
<1>3. ASSUME NEW m \in Mergers, M!RunStep(m) PROVE Clean!Next
  BY <1>3, CleanRun DEF Clean!Next, Clean!Working
<1>4. ASSUME NEW m \in Mergers, M!Crash(m) PROVE Clean!Next
  BY <1>4 DEF M!Crash, M!At, M!Leave, M!Become, M!Idle, M!NoSeqs, Clean!Next, Clean!Crash,
     Clean!At, Clean!Leave, Clean!Become, Clean!Idle, Clean!NoSeqs
<1>5. CASE UNCHANGED M!vars
  BY <1>5 DEF M!vars, Clean!vars
<1> QED BY <1>1, <1>2, <1>3, <1>4, <1>5, MergeSteps

CurrentInv == tainted = {} => Clean!OracleInv

LEMMA CurrentStep ==
  ASSUME OneMerger, OperationsSpelt, N!IInv, LinesKnown, N!OutputsDetermined, CurrentInv,
         [Next]_vars, tainted' = {}
  PROVE  Clean!OracleInv /\ Clean!OracleInv' /\ [Clean!Oracle!Next]_(Clean!Oracle!vars)
<1>1. tainted = {}
  BY NormalizationStep, TaintedForGood
<1>2. [Clean!Next]_Clean!vars /\ Clean!OracleInv
  BY <1>1, CleanNext DEF CurrentInv
<1> QED BY <1>2, CleanAssumption, RowsAssumption, CleanPremises, Clean!OracleStep

LEMMA OneOracle ==
  /\ Clean!Oracle!Init <=> M!Oracle!Init
  /\ Clean!Oracle!Next <=> M!Oracle!Next
  /\ UNCHANGED Clean!Oracle!vars <=> UNCHANGED M!Oracle!vars
<1>1. Clean!MergedIds = M!MergedIds /\ Clean!MergedIds' = M!MergedIds'
  BY DEF Clean!MergedIds, M!MergedIds
<1>2. /\ [k \in Keys |-> Clean!ActivePayload(target[k])] = [k \in Keys |-> M!ActivePayload(target[k])]
      /\ [k \in Keys |-> Clean!ActivePayload(target[k])]' = [k \in Keys |-> M!ActivePayload(target[k])]'
  BY DEF Clean!ActivePayload, M!ActivePayload
<1>3. Clean!Oracle!Init <=> M!Oracle!Init
  BY <1>1, <1>2 DEF Clean!Oracle!Init, M!Oracle!Init
<1>4. UNCHANGED Clean!Oracle!vars <=> UNCHANGED M!Oracle!vars
  BY <1>1, <1>2 DEF Clean!Oracle!vars, M!Oracle!vars
<1>5. Clean!Oracle!New = M!Oracle!New /\ Clean!Oracle!Newer = M!Oracle!Newer
  BY <1>1 DEF Clean!Oracle!New, M!Oracle!New, Clean!Oracle!Newer, M!Oracle!Newer
<1>6. \A t \in Tables : Clean!Oracle!LoadTable(t) <=> M!Oracle!LoadTable(t)
  BY <1>1, <1>2 DEF Clean!Oracle!LoadTable, M!Oracle!LoadTable
<1>7. \A S \in SUBSET M!Oracle!Newer : Clean!Oracle!ApplyEvents(S) <=> M!Oracle!ApplyEvents(S)
  BY <1>1, <1>2, <1>5 DEF Clean!Oracle!ApplyEvents, M!Oracle!ApplyEvents, Clean!Oracle!Effect,
     M!Oracle!Effect
<1>8. \A e \in Events : Clean!Oracle!IgnoreStale(e) <=> M!Oracle!IgnoreStale(e)
  BY <1>1, <1>2, <1>5 DEF Clean!Oracle!IgnoreStale, M!Oracle!IgnoreStale
<1> QED BY <1>3, <1>4, <1>5, <1>6, <1>7, <1>8 DEF Clean!Oracle!Next, M!Oracle!Next

(* Again so, and until some run reads other bytes than it                  *)
(* had hashed, the active rows of the targets move exactly as the mutation *)
(* engine moves when it applies each event once, in the order of its key:  *)
(* from any files, however often they are normalized, grouped, merged      *)
(* again and interrupted.                                                  *)
THEOREM PlatformIsCurrent == OneMerger /\ OperationsSpelt => (Spec => CurrentUnlessTainted)
<1> SUFFICES ASSUME OneMerger, OperationsSpelt PROVE Spec => CurrentUnlessTainted
  OBVIOUS
<1>1. Init => CurrentInv /\ M!Oracle!Init
  <2> SUFFICES ASSUME Init PROVE CurrentInv /\ M!Oracle!Init
    OBVIOUS
  <2>1. Clean!Init
    BY DEF Init, M!Init, Clean!Init, M!Idle, Clean!Idle, M!NoSeqs, Clean!NoSeqs
  <2>2. Clean!OracleInv /\ Clean!Oracle!Init
    BY <2>1, CleanAssumption, RowsAssumption, Clean!OracleInit
  <2> QED BY <2>2, OneOracle DEF CurrentInv
<1>2. /\ N!IInv /\ LinesKnown /\ N!OutputsDetermined /\ CurrentInv /\ [Next]_vars
      => CurrentInv' /\ [tainted' = {} => M!Oracle!Next]_(M!Oracle!vars)
  BY CurrentStep, OneOracle DEF CurrentInv
<1> QED BY <1>1, <1>2, NormalizationHolds, KnownHolds, OutputsHold, PTL
        DEF Spec, CurrentUnlessTainted

-----------------------------------------------------------------------------
(* Of a file that contradicts nothing every event is a replay, overtaken   *)
(* or fresh, and the plan has one event of a key for each of its sequence  *)
(* numbers.                                                                *)
LEMMA OnlyContradictions ==
  ASSUME N!IInv, LinesKnown, M!TypeOK, \A i \in EventIds : ~M!IsPending(i),
         NEW id \in DOMAIN accepted, ~Contradicts(id)
  PROVE  M!Admissible(id, EventsIn(id))
<1> DEFINE seqs == [k \in Keys |-> M!AppliedSeqs(k)]
<1>1. [proc |-> id, batch |-> EventsIn(id)] \in Submissions
  BY FileIsSubmission
<1>2. ASSUME NEW e \in EventsIn(id) PROVE M!Skipped(e, seqs) \/ M!Staged(e, id, seqs)
  <2>1. e \in Events /\ e.id \in EventIds /\ e.key \in Keys /\ e.seq \in Nat
    BY <1>1, EventTyped DEF Submissions
  <2>2. CASE ledger[e.id] # NoRecord
    <3>1. M!IsApplied(e.id)
      BY <2>1, <2>2 DEF M!TypeOK, M!Record, M!IsPending, M!IsApplied
    <3>2. ledger[e.id].ev.fp = e.fp
      BY <2>1, <2>2 DEF Contradicts
    <3> QED BY <3>1, <3>2 DEF M!Skipped, M!Replay
  <2>3. CASE ledger[e.id] = NoRecord
    <3>1. ASSUME NEW n \in seqs[e.key] PROVE n \in Nat /\ n # e.seq
      <4>1. PICK i \in EventIds : M!IsApplied(i) /\ ledger[i].ev.key = e.key /\ n = ledger[i].ev.seq
        BY <2>1 DEF M!AppliedSeqs
      <4>2. ledger[i].ev \in Events
        BY <4>1 DEF M!TypeOK, M!Record, M!IsApplied
      <4>3. i # e.id /\ ledger[i] # NoRecord
        BY <2>3, <4>1 DEF M!IsApplied
      <4> QED BY <4>1, <4>2, <4>3, EventTyped DEF Contradicts
    <3>2. (\E n \in seqs[e.key] : e.seq < n) \/ \A n \in seqs[e.key] : n < e.seq
      <4> HIDE DEF seqs
      <4> QED BY <2>1, <3>1
    <3> QED BY <2>3, <3>2 DEF M!Skipped, M!Staged, M!Stale, M!Fresh
  <2> QED BY <2>2, <2>3
<1>3. ~M!Ambiguous({e \in EventsIn(id) : M!Staged(e, id, seqs)})
  <2> SUFFICES ASSUME NEW e \in EventsIn(id), NEW f \in EventsIn(id), e.key = f.key, e.seq = f.seq
               PROVE  e = f
    BY DEF M!Ambiguous
  <2>1. PICK a \in accepted[id] : e = EventOf(a.x)
    BY DEF EventsIn, LinesIn
  <2>2. PICK b \in accepted[id] : f = EventOf(b.x)
    BY DEF EventsIn, LinesIn
  <2>3. a.x.entity = b.x.entity /\ a.x.seq = b.x.seq
    BY <2>1, <2>2 DEF EventOf
  <2>4. a = b
    BY <2>3 DEF N!IInv, N!AcceptedUnambiguous
  <2> QED BY <2>1, <2>2, <2>4
<1>4. M!PendingAdmits(id, EventsIn(id))
  BY DEF M!PendingAdmits
<1> QED BY <1>2, <1>3, <1>4 DEF M!Admissible

(* While nothing is pending, a contradiction with the ledger is all that   *)
(* can bar an accepted file: for any files and any number of overlapping   *)
(* normalizations and merges.                                              *)
THEOREM NothingElseRefused == Spec => []OnlyContradictionsRefused
<1>1. N!IInv /\ LinesKnown /\ M!TypeOK => OnlyContradictionsRefused
  BY OnlyContradictions DEF OnlyContradictionsRefused
<1> QED BY <1>1, NormalizationHolds, KnownHolds, MergeTypes, PTL
=============================================================================
