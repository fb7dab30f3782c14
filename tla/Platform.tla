------------------------------ MODULE Platform ------------------------------
(***************************************************************************)
(* The platform from landed files to current state: normalization runs     *)
(* (Normalization) leave one accepted.jsonl per processing id, runs of the *)
(* MERGE pipeline (MergePipeline) are started from these files             *)
(* (run_from_file), and the source mutation engine, the oracle of          *)
(* merge/reconciliation.py, is fed the events of every merge run that      *)
(* returns.  Nothing but the files connects the three: no lock and no      *)
(* catalogue says which set was merged, so sets overlap, are merged again, *)
(* in any order, and are written while a run is at work.                   *)
(***************************************************************************)
EXTENDS Naturals, Sequences, FiniteSets

CONSTANTS
  NoFile, Files, Contents, Rewrites, MaxLong, MaxRewrites, \* as in Normalization
  Landings,       \* contents of the files at the start
  Lists,          \* lists of files passed to run_pipeline
  Normalizers,    \* processes that run it
  Keys, SnapshotKeys, Policies, Bootstrap, NoRow, NoRecord, \* as in MergePipeline
  Mergers         \* processes that call run_from_file

VARIABLES
  content, rewrites, accepted, quarantined, run, returned, tainted, \* Normalization
  tables, boot, target, ledger, runner, merged, intent,             \* MergePipeline
  input,     \* input[m]: the id and the lines merger m was started with
  delivered, \* history: inputs of the merge runs that returned
  oracle     \* the mutation engine: rows, maxSeq and seen of CurrentState

\* Normalization with its theorems.
N == INSTANCE NormalizationOutputProofs WITH Submissions <- Lists, Runners <- Normalizers

(* One table holds all keys.  An event is what the merge looks at of an    *)
(* accepted line.                                                          *)
EventOf(x) ==
  [id |-> x.id, fp |-> N!Fingerprint(x), key |-> x.entity, seq |-> x.seq, op |-> x.op]

ValidLines ==
  {x \in UNION {{c[n] : n \in DOMAIN c} : c \in Contents} : N!Code(x) = "VALID"}
Events == {EventOf(x) : x \in ValidLines}
EventIds == {e.id : e \in Events}

(* What the merge converts of a line: its before-image if it is a DELETE,  *)
(* else the other.  Only an operation in upper case gets that far.         *)
Effective(x) == IF x.op = "DELETE" THEN x.before ELSE x.after
Unconvertible ==
  {EventOf(x) : x \in {y \in ValidLines : /\ y.op \in {"INSERT", "UPDATE", "DELETE"}
                                          /\ Effective(y) = "partial"}}
Fingerprints == {e.fp : e \in Events}
ProcIds == N!Manifests
Tables == {1}
TableOf == [k \in Keys |-> 1]

(* Sets in which an event_id stands for one event.                         *)
Submissions ==
  {s \in [proc : ProcIds, batch : SUBSET Events] : \A e, f \in s.batch : e.id = f.id => e = f}

\* MergePipeline with its theorems.
M == INSTANCE MergeRecoveryProofs WITH AllowOverwrite <- FALSE, Runners <- Mergers

ASSUME FilesAssumption ==
  /\ Files \subseteq Nat
  /\ NoFile \notin Contents /\ Contents \subseteq Seq(N!Lines) /\ Rewrites \subseteq Contents
  /\ Lists \subseteq Seq(Files)
  /\ \A s \in Lists : \A i, j \in DOMAIN s : s[i] = s[j] => i = j
  /\ MaxLong \in Nat /\ MaxRewrites \in Nat

(* A sequence number that is not positive is one of the checks that fail.  *)
ASSUME LinesAssumption == \A x \in ValidLines : x.entity \in Keys /\ x.seq > 0

ASSUME RowsAssumption ==
  /\ SnapshotKeys \subseteq Keys /\ Policies \subseteq {"HARD", "SOFT"}
  /\ Bootstrap \notin Events
  /\ NoRow \notin M!Row /\ NoRecord \notin M!Record \cup ProcIds

normalization == <<content, rewrites, accepted, quarantined, run, returned, tainted>>
merging == <<tables, boot, target, ledger, runner, merged, intent>>
history == <<input, delivered, oracle>>
vars == <<normalization, merging, history>>
-----------------------------------------------------------------------------
NoInput == [id |-> NoRecord, lines |-> {}]

Init ==
  /\ N!Init /\ content \in Landings
  /\ M!Init
  /\ input = [m \in Mergers |-> NoInput]
  /\ delivered = {}
  /\ oracle = [rows |-> [k \in Keys |-> IF k \in SnapshotKeys THEN Bootstrap ELSE NoRow],
               maxSeq |-> [k \in Keys |-> 0], seen |-> {}]

Normalize(r) ==
  /\ UNCHANGED <<merging, history>>
  /\ N!ReadFiles(r) \/ N!WriteAccepted(r) \/ N!WriteQuarantine(r)

RunPipeline(r, paths) == UNCHANGED <<merging, history>> /\ N!StartRun(r, paths)

NormalizerDies(r) == UNCHANGED <<merging, history>> /\ N!Die(r)

Land == /\ UNCHANGED <<merging, history>>
        /\ \E f \in Files, c \in Rewrites : N!Rewrite(f, c)

InitializeTargets ==
  /\ UNCHANGED <<normalization, history>>
  /\ M!StartBootstrap \/ \E t \in Tables : M!BootstrapTable(t)

BootstrapFails == UNCHANGED <<normalization, history>> /\ M!BootstrapFails

LinesIn(id) == {a.x : a \in accepted[id]}
EventsIn(id) == {EventOf(x) : x \in LinesIn(id)}

\* Mutant: the lines of the file are not converted to events.
RunFromFileRaw(m, id, policy) ==
  /\ id \in DOMAIN accepted
  /\ UNCHANGED <<normalization, delivered, oracle>>
  /\ M!Submit(m, [proc |-> id, batch |-> LinesIn(id)], policy)
  /\ input' = [input EXCEPT ![m] = [id |-> id, lines |-> LinesIn(id)]]

\* Mutant: every file is merged under one processing id of the caller's.
RunFromFileAs(m, id, policy) ==
  /\ UNCHANGED <<normalization, delivered, oracle>>
  /\ id \in DOMAIN accepted
  /\ M!Submit(m, [proc |-> N!EmptyFn, batch |-> EventsIn(id)], policy)
  /\ input' = [input EXCEPT ![m] = [id |-> id, lines |-> LinesIn(id)]]

(* run_from_file: the processing id is the one in the path of the file.    *)
(* A caller may pass another one; that is left out, and what it breaks is  *)
(* what the mutant above breaks.                                           *)
RunFromFile(m, id, policy) ==
  /\ UNCHANGED <<normalization, delivered, oracle>>
  /\ id \in DOMAIN accepted
  /\ M!Submit(m, [proc |-> id, batch |-> EventsIn(id)], policy)
  /\ input' = [input EXCEPT ![m] = [id |-> id, lines |-> LinesIn(id)]]
-----------------------------------------------------------------------------
(* The oracle's own validator asks more than the normalizer's: a batch_id, *)
(* an operation in upper case, and no before-image on an INSERT.           *)
OracleAdmits(x) ==
  /\ x.batch # 0
  /\ x.op \in {"INSERT", "UPDATE", "DELETE"}
  /\ x.op = "INSERT" => x.before = "none"

Effect(x) == IF x.op = "DELETE" THEN NoRow ELSE EventOf(x)

\* Mutant: sequence numbers are not enforced.
NewerAlways(o, L) == {x \in L : OracleAdmits(x) /\ x.id \notin o.seen}

Newer(o, L) == {x \in L : OracleAdmits(x) /\ x.id \notin o.seen /\ o.maxSeq[x.entity] < x.seq}

(* apply_batch in order of sequence, no two lines of a key with the same:  *)
(* the highest one that is newer than all before is what is left.          *)
Highest(L) == CHOOSE x \in L : \A y \in L : y.seq <= x.seq

Fed(o, L) ==
  LET on == [k \in Keys |-> {x \in Newer(o, L) : x.entity = k}]
  IN [rows |-> [k \in Keys |-> IF on[k] = {} THEN o.rows[k] ELSE Effect(Highest(on[k]))],
      maxSeq |-> [k \in Keys |-> IF on[k] = {} THEN o.maxSeq[k] ELSE Highest(on[k]).seq],
      seen |-> o.seen \cup {x.id : x \in {x \in L : OracleAdmits(x)}}]

(* The next step of this run is its normal return.                         *)
Returns(m) ==
  \/ M!At(m, "classify") /\ runner[m].todo = {} /\ runner[m].act = {}
  \/ M!At(m, "mark") /\ runner[m].act = M!Wave(runner[m].act)

MergeStep(m) ==
  /\ UNCHANGED normalization
  /\ M!RunStep(m)
  /\ IF Returns(m)
     THEN /\ delivered' = delivered \cup {input[m]}
          /\ oracle' = Fed(oracle, input[m].lines)
     ELSE UNCHANGED <<delivered, oracle>>
  /\ input' = IF runner'[m].pc = "idle" THEN [input EXCEPT ![m] = NoInput] ELSE input

MergerDies(m) ==
  /\ M!Crash(m)
  /\ input' = [input EXCEPT ![m] = NoInput]
  /\ UNCHANGED <<normalization, delivered, oracle>>

Work ==
  \/ Land \/ InitializeTargets
  \/ \E r \in Normalizers : Normalize(r) \/ \E paths \in Lists : RunPipeline(r, paths)
  \/ \E m \in Mergers :
       MergeStep(m) \/ \E id \in DOMAIN accepted, policy \in Policies : RunFromFile(m, id, policy)

Faults ==
  \/ BootstrapFails
  \/ \E r \in Normalizers : NormalizerDies(r)
  \/ \E m \in Mergers : MergerDies(m)

Next == Work \/ Faults

Spec == Init /\ [][Next]_vars

(* Nothing here schedules a run: whoever operates the platform initializes *)
(* the targets, keeps normalizing every list, and keeps merging its file   *)
(* and, after a crash, the file of the interrupted set.                    *)
IdOf(paths) == N!Manifest(N!Existing(paths))
MergeFile(id) == \E m \in Mergers, policy \in Policies : RunFromFile(m, id, policy)

LiveSpec ==
  /\ Spec
  /\ WF_vars(InitializeTargets)
  /\ \A r \in Normalizers : WF_vars(Normalize(r))
  /\ \A m \in Mergers : WF_vars(MergeStep(m))
  /\ \A paths \in Lists :
       /\ SF_vars(\E r \in Normalizers : RunPipeline(r, paths))
       /\ SF_vars(MergeFile(IdOf(paths)))
  /\ SF_vars(MergeFile(intent.proc))
-----------------------------------------------------------------------------
(* Type invariant. *)
TypeOK ==
  /\ N!TypeOK /\ M!TypeOK
  /\ input \in [Mergers -> [id : ProcIds \cup {NoRecord}, lines : SUBSET ValidLines]]
  /\ delivered \in SUBSET [id : ProcIds, lines : SUBSET ValidLines]
  /\ oracle \in [rows : [Keys -> Events \cup {Bootstrap, NoRow}], maxSeq : [Keys -> Nat],
                 seen : SUBSET EventIds]

(* What normalization writes is what the MERGE pipeline takes for granted: *)
(* whatever was landed, rewritten, normalized twice or half-written when a *)
(* run died, each set that run_from_file hands over has well-formed events *)
(* and an event_id once, and nothing else reaches ledger or targets.       *)
ImplementsMerge == M!Spec

(* An interrupted merge can be recovered from disk: the processing id of a *)
(* PENDING record still has its file, and merging that file is admitted    *)
(* and none of its events refused, however often the set was normalized    *)
(* again in between.  Only an id whose files changed between hash and read *)
(* is left out.  Whether the merge of its events then succeeds is another  *)
(* matter, see EveryListServed.                                            *)
RecoverableFromFile ==
  \A i \in EventIds : M!IsPending(i) =>
    LET id == ledger[i].proc
    IN /\ id \in DOMAIN accepted
       /\ id \notin tainted => M!Admissible(id, EventsIn(id))

(* reconcile_delta_against_mutation_oracle: keys whose visible row is      *)
(* missing, unexpected or different.                                       *)
Mismatches == {k \in Keys : M!ActivePayload(target[k]) # oracle.rows[k]}

(* Reconciliation finds a mismatch only on a key whose ledger records the  *)
(* oracle has not all been fed, or that is being worked on: whatever order *)
(* the sets were merged in and wherever runs died and were repeated.  One  *)
(* more exception is an event_id that was merged with another content when *)
(* its event was stale: the oracle has seen the id, the ledger has not.    *)
Unsettled(k) ==
  \E i \in EventIds : /\ ledger[i] # NoRecord /\ ledger[i].ev.key = k
                      /\ ~(M!IsApplied(i) /\ i \in oracle.seen)
Reused(k) ==
  \E i \in EventIds, d \in delivered : \E x \in d.lines :
    /\ ledger[i] # NoRecord /\ ledger[i].ev.key = k
    /\ x.id = i /\ EventOf(x) # ledger[i].ev

Reconciled == tables = Tables => \A k \in Mismatches : Unsettled(k) \/ Reused(k)

(* How files were grouped into processing sets does not matter: the row of *)
(* a key nobody is working on is the effect of the highest valid line that *)
(* was merged, of all the lines of all the files of all sets, unless two   *)
(* of these lines contradict one another.                                  *)
LinesOf(id) == {c.x : c \in N!Copies(id)}
MergedLines(k) ==
  {x \in UNION {LinesOf(d.id) : d \in delivered} : x.entity = k}
Undisputed(L) ==
  \A x, y \in L : x.id = y.id \/ (x.entity = y.entity /\ x.seq = y.seq)
                    => N!Fingerprint(x) = N!Fingerprint(y)
Partial(k) == \E i \in EventIds :
  ledger[i] # NoRecord /\ ledger[i].ev.key = k /\ ledger[i].proc \notin {d.id : d \in delivered}

GroupingIndependent ==
  \A k \in Keys :
    LET L == MergedLines(k)
    IN (/\ L # {} /\ Undisputed(UNION {LinesOf(d.id) : d \in delivered})
        /\ ~Partial(k) /\ {d.id : d \in delivered} \cap tainted = {})
       => M!ActivePayload(target[k]) = Effect(Highest(L))

(* Seen through its targets the platform is the mutation engine, fed every *)
(* event once and in order, whatever is normalized twice, merged again or  *)
(* interrupted, as long as no run has read other bytes than it had hashed: *)
(* a set that comes back with another content can put an older event on    *)
(* top of a newer one that is PENDING.                                     *)
CurrentUnlessTainted ==
  M!Oracle!Init /\ [][tainted' = {} => M!Oracle!Next]_(M!Oracle!vars)

(* When faults have ceased, every list of files ends up merged, unless     *)
(* something keeps the normalizer from writing its accepted file: a line   *)
(* that it does not catch the exception of, or an accepted image that is   *)
(* no dictionary; or nothing of it is accepted, or one of its events       *)
(* contradicts an event already in the ledger.  No crash and no other set, *)
(* however it overlaps, shuts a list out for good, save one: a set with an *)
(* event that the merge cannot convert stays PENDING, and every list that  *)
(* is not merged by then is held up for good.                              *)
Unwritable(id) ==
  \/ \E f \in DOMAIN id : \E n \in DOMAIN id[f] : N!Raises(id[f][n])
  \/ \E a \in N!Expected(id) : a.x.before = "scalar"
Contradicts(id) ==
  \E e \in EventsIn(id), i \in EventIds :
    /\ ledger[i] # NoRecord
    /\ IF i = e.id THEN ledger[i].ev.fp # e.fp
                   ELSE ledger[i].ev.key = e.key /\ ledger[i].ev.seq = e.seq

(* Contradictions are all that bars a file: while no set is interrupted,   *)
(* one that contradicts nothing in the ledger is admitted, and none of its *)
(* events nor its plan refused, whatever was merged before.                *)
OnlyContradictionsRefused ==
  (\A i \in EventIds : ~M!IsPending(i)) =>
    \A id \in DOMAIN accepted : Contradicts(id) \/ M!Admissible(id, EventsIn(id))

Served(id) ==
  \/ Unwritable(id) \/ N!Expected(id) = {}
  \/ id \in DOMAIN accepted /\ Contradicts(id)
  \/ \E d \in delivered : d.id = id

=============================================================================
