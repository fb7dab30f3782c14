--------------------------- MODULE Normalization ---------------------------
(***************************************************************************)
(* CDC normalization (src/normalization): runs that hash a list of landed  *)
(* files into a processing id, read and validate their lines, resolve      *)
(* duplicates and conflicts, and write an accepted and a quarantine file   *)
(* under that id.  The landing writer (src/cdc/serialization.py) may       *)
(* rewrite a file at any time, and a run may die between any two steps.    *)
(*                                                                         *)
(* A file is named by its logical id, batch_id=<batch>/<table>.jsonl; it   *)
(* is a number here, which is the batch in its path as well.  Its content  *)
(* is a sequence of lines.                                                 *)
(***************************************************************************)
EXTENDS Naturals, Sequences

CONSTANTS
  NoFile,      \* content of a file that is not there
  Files,       \* logical files of the landing directory
  Contents,    \* what the landing writer may write into a file
  Rewrites,    \* what it may write over a file, a truncated file included
  Submissions, \* lists of files passed to run_pipeline, no file twice
  Runners,     \* processes that call run_pipeline
  MaxLong,     \* largest value of Spark's LongType
  MaxRewrites  \* bound: files written over

(* The structural checks in their order.  int() of an infinite number      *)
(* raises OverflowError, which the sequence number's check does not catch. *)
Codes == <<"MISSING_EVENT_ID", "UNKNOWN_TABLE", "UNSUPPORTED_OPERATION",
           "MISSING_BUSINESS_KEY", "INVALID_BUSINESS_KEY", "MISSING_SEQUENCE",
           "OverflowError",
           "INVALID_SEQUENCE", "MISSING_EVENT_TIMESTAMP", "INVALID_EVENT_TIMESTAMP",
           "MISSING_COMMIT_TIMESTAMP", "INVALID_COMMIT_TIMESTAMP", "MISSING_SOURCE_SYSTEM">>

(* payload and before_payload: None; {}; not a dictionary, dict() raising  *)
(* on it ("scalar") or making one of it ("pairs": "", [], a list of        *)
(* pairs); a dictionary without or with another primary key than           *)
(* business_key; and with it, "match" or "partial".  On a partial one the  *)
(* merge's conversion to the table's schema raises: a column that must     *)
(* have a value has none, or one that is no decimal, date or timestamp.    *)
Images == {"none", "empty", "scalar", "pairs", "mismatch", "partial", "match"}

(* Any spelling of an operation other than the upper-case one is written   *)
(* in lower case here.                                                     *)
Operations == {"INSERT", "UPDATE", "DELETE", "insert", "update", "delete"}

(* A line: whether it is a JSON object, malformed, or one that the reader  *)
(* itself raises on (bytes that are not UTF-8); the structural checks it   *)
(* fails; event_id, entity (table and business key), operation, sequence   *)
(* number, event timestamp, both images, the rest of the semantic content, *)
(* and its batch_id (0 if absent, which sorts first).                      *)
Lines == [text : {"object", "malformed", "unreadable"},
          fails : SUBSET {Codes[i] : i \in DOMAIN Codes},
          id : STRING, entity : STRING, op : Operations,
          seq : Nat, ts : Nat, after : Images, before : Images,
          data : STRING, batch : Nat]

ASSUME InputAssumption ==
  /\ Files \subseteq Nat
  /\ NoFile \notin Contents /\ Contents \subseteq Seq(Lines) /\ Rewrites \subseteq Contents
  /\ Submissions \subseteq Seq(Files)
  /\ \A s \in Submissions : \A i, j \in DOMAIN s : s[i] = s[j] => i = j
  /\ MaxLong \in Nat /\ MaxRewrites \in Nat

VARIABLES
  content,     \* content[f]: content of landed file f, NoFile before
  rewrites,    \* files written over so far
  accepted,    \* accepted[id]: accepted.jsonl of processing id
  quarantined, \* quarantined[id]: quarantine.jsonl of processing id
  run,         \* local state of each runner
  returned,    \* history: ids run_pipeline returned
  tainted      \* history: ids of runs that read other bytes than they hashed

vars == <<content, rewrites, accepted, quarantined, run, returned, tainted>>
-----------------------------------------------------------------------------
EmptyFn == [x \in {} |-> x]
Idle == [pc |-> "idle"]

Init ==
  /\ content \in [Files -> Contents \cup {NoFile}]
  /\ rewrites = 0
  /\ accepted = EmptyFn
  /\ quarantined = EmptyFn
  /\ run = [r \in Runners |-> Idle]
  /\ returned = {}
  /\ tainted = {}

\* Mutant: files that are not there are kept in the list.
ExistingAll(paths) == {paths[i] : i \in DOMAIN paths}

Existing(paths) == {f \in {paths[i] : i \in DOMAIN paths} : content[f] # NoFile}

(* compute_manifest_and_processing_id: logical file ids with the digests   *)
(* of their bytes, whatever their order in the list.                       *)
Manifest(S) == [f \in S |-> content[f]]

(* read_raw_cdc_files: each line with its provenance; ingestion_order is   *)
(* the rank of its file in the list, then its position in the file.        *)
Delivered(paths, m) ==
  UNION {{[x |-> m[paths[i]][n], file |-> paths[i], rank |-> i, pos |-> n] :
             n \in DOMAIN m[paths[i]]} : i \in {i \in DOMAIN paths : paths[i] \in DOMAIN m}}

\* ingestion_batch_id: the record's batch_id, else the one in the path.
IngestionBatch(d) == IF d.x.batch = 0 THEN d.file ELSE d.x.batch
-----------------------------------------------------------------------------
(* validate_raw_cdc_record: the first check that fails gives the code.     *)
Present(image) == image \in {"match", "partial", "mismatch"}

\* str(operation).upper(), which is looked at here only: the line keeps its own.
Upper(op) == CASE op = "insert" -> "INSERT" [] op = "update" -> "UPDATE"
               [] op = "delete" -> "DELETE" [] OTHER -> op

\* Mutant: the operation is compared as it is spelt.
ImageCodeSpelt(x) ==
  IF x.op \in {"INSERT", "UPDATE"} /\ ~Present(x.after) THEN "MISSING_PAYLOAD"
  ELSE IF x.op \in {"UPDATE", "DELETE"} /\ ~Present(x.before) THEN "MISSING_BEFORE_IMAGE"
  ELSE IF x.op = "DELETE" /\ x.after # "none" THEN "UNEXPECTED_DELETE_PAYLOAD"
  ELSE IF {x.after, x.before} \cap {"empty", "mismatch"} # {} THEN "BUSINESS_KEY_PAYLOAD_MISMATCH"
  ELSE "VALID"

ImageCode(x) ==
  IF Upper(x.op) # "DELETE" /\ ~Present(x.after) THEN "MISSING_PAYLOAD"
  ELSE IF Upper(x.op) # "INSERT" /\ ~Present(x.before) THEN "MISSING_BEFORE_IMAGE"
  ELSE IF Upper(x.op) = "DELETE" /\ x.after # "none" THEN "UNEXPECTED_DELETE_PAYLOAD"
  ELSE IF {x.after, x.before} \cap {"empty", "mismatch"} # {} THEN "BUSINESS_KEY_PAYLOAD_MISMATCH"
  ELSE "VALID"

Code(x) ==
  LET failed == {i \in DOMAIN Codes : Codes[i] \in x.fails}
  IN CASE x.text = "unreadable" -> "UnicodeDecodeError"
       [] x.text = "malformed" -> "MALFORMED_JSON"
       [] x.text = "object" /\ failed # {} -> Codes[CHOOSE i \in failed : \A j \in failed : i <= j]
       [] OTHER -> ImageCode(x)

Valid(D) == {d \in D : Code(d.x) = "VALID"}

(* A line that no one catches the exception of: it is not quarantined, and *)
(* the run that reads it ends with nothing written.  The reader and the    *)
(* validator raise on it; or, of a valid line, the fingerprint (a lone     *)
(* surrogate cannot be encoded) or Spark's schema (a sequence number that  *)
(* is no LongType).                                                        *)
Raises(x) ==
  \/ Code(x) \in {"UnicodeDecodeError", "OverflowError"}
  \/ Code(x) = "VALID" /\ (x.data = "surrogate" \/ x.seq > MaxLong)
-----------------------------------------------------------------------------
(* SparkCDCNormalizationProcessor.process, on the valid records V.         *)

\* compute_event_fingerprint: the semantic fields, no batch, no provenance.
Fingerprint(x) == <<x.id, x.entity, x.op, x.seq, x.ts, x.after, x.before, x.data>>

SameId(d, V) == {e \in V : e.x.id = d.x.id}

\* distinct_fingerprints > 1: every delivery of the event_id is quarantined.
Conflicting(V) == {d \in V : \E e \in SameId(d, V) : Fingerprint(e.x) # Fingerprint(d.x)}

Precedes(s, t) == \E i \in DOMAIN s : s[i] < t[i] /\ \A j \in 1..(i - 1) : s[j] = t[j]

\* Mutant: the copy that was read first wins.
ProvenanceArrival(d) == <<d.rank, d.pos>>

\* batch_id, ingestion_batch_id, source_file, ingestion_order
Provenance(d) == <<d.x.batch, IngestionBatch(d), d.file, d.rank, d.pos>>

\* event_id_rn = 1: of exact copies, the first in the order of provenance.
Retained(V) ==
  {d \in V \ Conflicting(V) : \A e \in SameId(d, V) \ {d} : Precedes(Provenance(d), Provenance(e))}

\* Mutant: only events of the same operation collide.
CollidingOperations(R) ==
  {d \in R : \E e \in R \ {d} : e.x.entity = d.x.entity /\ e.x.seq = d.x.seq /\ e.x.op = d.x.op}

\* seq_collision_count > 1, among the retained events.
Colliding(R) ==
  {d \in R : \E e \in R \ {d} : e.x.entity = d.x.entity /\ e.x.seq = d.x.seq}

\* event_timestamp below the maximum of all earlier ingestion batches.
Late(d, V) == \E e \in V : IngestionBatch(e) < IngestionBatch(d) /\ e.x.ts > d.x.ts

Accepted(V) ==
  {[x |-> d.x, file |-> d.file, late |-> Late(d, V)] : d \in Retained(V) \ Colliding(Retained(V))}

Rejected(code, S) == {[code |-> code, x |-> d.x, file |-> d.file, pos |-> d.pos] : d \in S}

(* all_quarantine: malformed, invalid, conflicting and colliding lines.    *)
Quarantine(D) ==
  LET V == Valid(D)
  IN (UNION {Rejected(Code(d.x), {d}) : d \in D \ V})
     \cup Rejected("DUPLICATE_EVENT_CONFLICT", Conflicting(V))
     \cup Rejected("SEQUENCE_CONFLICT", Colliding(Retained(V)))
-----------------------------------------------------------------------------
(* run_pipeline.                                                           *)
Become(r, new) == run' = [run EXCEPT ![r] = new]
Read(r) == Delivered(run[r].paths, run[r].read)
Put(files, id, S) == [i \in DOMAIN files \cup {id} |-> IF i = id THEN S ELSE files[i]]

\* Missing files are dropped, the others hashed.
StartRun(r, paths) ==
  /\ run[r] = Idle
  /\ LET m == Manifest(Existing(paths))
     IN Become(r, [pc |-> "read", paths |-> paths, id |-> m, read |-> m])
  /\ UNCHANGED <<content, rewrites, accepted, quarantined, returned, tainted>>

(* The files are opened again and their lines processed.                   *)
ReadFiles(r) ==
  /\ run[r].pc = "read"
  /\ LET m == Manifest(DOMAIN run[r].id)
     IN /\ tainted' = IF m = run[r].id THEN tainted ELSE tainted \cup {run[r].id}
        /\ IF \E d \in Delivered(run[r].paths, m) : Raises(d.x)
           THEN Become(r, Idle)
           ELSE Become(r, [run[r] EXCEPT !.pc = "accept", !.read = m])
  /\ UNCHANGED <<content, rewrites, accepted, quarantined, returned>>

(* accepted.jsonl is replaced if there is anything to accept.  An image    *)
(* that is not a dictionary passes the validator as the before-image of an *)
(* INSERT: to_dict makes one of it, or raises.                             *)
WriteAccepted(r) ==
  /\ run[r].pc = "accept"
  /\ LET A == Accepted(Valid(Read(r)))
     IN IF \E a \in A : a.x.before = "scalar"
        THEN Become(r, Idle) /\ UNCHANGED accepted
        ELSE /\ Become(r, [run[r] EXCEPT !.pc = "quarantine"])
             /\ accepted' = IF A = {} THEN accepted ELSE Put(accepted, run[r].id, A)
  /\ UNCHANGED <<content, rewrites, quarantined, returned, tainted>>

\* Mutant: the quarantine is written only if nothing was accepted.
WriteQuarantineElse(r) ==
  /\ run[r].pc = "quarantine"
  /\ LET Q == Quarantine(Read(r))
     IN quarantined' = IF Q = {} \/ Accepted(Valid(Read(r))) # {}
                       THEN quarantined ELSE Put(quarantined, run[r].id, Q)
  /\ returned' = returned \cup {run[r].id}
  /\ Become(r, Idle)
  /\ UNCHANGED <<content, rewrites, accepted, tainted>>

\* quarantine.jsonl likewise; the run returns.
WriteQuarantine(r) ==
  /\ run[r].pc = "quarantine"
  /\ LET Q == Quarantine(Read(r))
     IN quarantined' = IF Q = {} THEN quarantined ELSE Put(quarantined, run[r].id, Q)
  /\ returned' = returned \cup {run[r].id}
  /\ Become(r, Idle)
  /\ UNCHANGED <<content, rewrites, accepted, tainted>>

Die(r) ==
  /\ run[r] # Idle
  /\ Become(r, Idle)
  /\ UNCHANGED <<content, rewrites, accepted, quarantined, returned, tainted>>

(* write_cdc_batch_jsonl truncates the file it writes, then fills it.      *)
Rewrite(f, c) ==
  /\ rewrites < MaxRewrites /\ c # content[f]
  /\ content' = [content EXCEPT ![f] = c]
  /\ rewrites' = rewrites + 1
  /\ UNCHANGED <<accepted, quarantined, run, returned, tainted>>

Next ==
  \/ \E f \in Files, c \in Rewrites : Rewrite(f, c)
  \/ \E r \in Runners : \/ \E paths \in Submissions : StartRun(r, paths)
                        \/ ReadFiles(r) \/ WriteAccepted(r) \/ WriteQuarantine(r)
                        \/ Die(r)

Spec == Init /\ [][Next]_vars
-----------------------------------------------------------------------------
(* Type invariant.                                                         *)
Manifests == UNION {[F -> Contents] : F \in SUBSET Files}
Runs == [pc : {"read", "accept", "quarantine"}, paths : Seq(Files), id : Manifests,
         read : Manifests]

TypeOK ==
  /\ content \in [Files -> Contents \cup {NoFile}]
  /\ rewrites \in 0..MaxRewrites
  /\ DOMAIN accepted \in SUBSET Manifests /\ DOMAIN quarantined \in SUBSET Manifests
  /\ run \in [Runners -> {Idle} \cup Runs]
  /\ returned \in SUBSET Manifests /\ tainted \in SUBSET Manifests

(* What a manifest should accept, said of its lines: one copy, the first   *)
(* by batch, path and position, of each valid event whose copies agree and *)
(* whose sequence number no other such event of its entity claims.         *)
Copies(m) ==
  Valid(UNION {{[x |-> m[f][n], file |-> f, pos |-> n] : n \in DOMAIN m[f]} : f \in DOMAIN m})

Expected(m) ==
  LET C == Copies(m)
      Agreed == {c \in C : \A d \in C : d.x.id = c.x.id => Fingerprint(d.x) = Fingerprint(c.x)}
      Place(c) == <<c.x.batch, IngestionBatch(c), c.file, c.pos>>
  IN {[x |-> c.x, file |-> c.file, late |-> Late(c, C)] : c \in
        {c \in Agreed : \A d \in Agreed \ {c} :
           IF d.x.id = c.x.id THEN Precedes(Place(c), Place(d))
                              ELSE d.x.entity = c.x.entity => d.x.seq # c.x.seq}}

(* However the files were listed, whatever runs overlapped, died or were   *)
(* replayed, and whatever was rewritten between runs: accepted.jsonl of an *)
(* id is the one the files of that id should give.  Only a run that read   *)
(* other bytes than it had hashed can break this.                          *)
OutputsDetermined ==
  \A id \in DOMAIN accepted \ tainted : accepted[id] = Expected(id)

(* raw_records_seen = accepted + exact_duplicates_dropped + quarantined:   *)
(* when run_pipeline has returned, each line either is in quarantine.jsonl *)
(* or replays one there that lost its sequence number to another event, or *)
(* is a copy of an event in accepted.jsonl; never both, never neither.     *)
At(files, id) == IF id \in DOMAIN files THEN files[id] ELSE {}
SameEvent(x, y) == x = [y EXCEPT !.batch = x.batch]

NothingLost ==
  \A id \in returned \ tainted : \A f \in DOMAIN id : \A n \in DOMAIN id[f] :
    (\E a \in At(accepted, id) : SameEvent(a.x, id[f][n]))
      # (\E q \in At(quarantined, id) :
           \/ q.file = f /\ q.pos = n /\ q.x = id[f][n]
           \/ q.code = "SEQUENCE_CONFLICT" /\ SameEvent(q.x, id[f][n]))

(* What the MERGE pipeline takes for granted of one processing set, even   *)
(* of a tainted one: an event_id occurs once, and no two events of an      *)
(* entity claim the same sequence number.                                  *)
AcceptedUnambiguous ==
  \A id \in DOMAIN accepted : \A a, b \in accepted[id] :
    a # b => a.x.id # b.x.id /\ <<a.x.entity, a.x.seq>> # <<b.x.entity, b.x.seq>>

(* And of each event, however its operation is spelt: the images whose     *)
(* primary key merge and Lakeflow take have the one of the business_key.   *)
(* That an image is complete is not promised, see MergePipeline, and of    *)
(* the before-image of an INSERT only that it could be written.            *)
Keyed(image) == image \in {"match", "partial"}

AcceptedKeyed ==
  \A id \in DOMAIN accepted : \A a \in accepted[id] :
    LET x == a.x
    IN /\ x.text = "object" /\ x.fails = {} /\ x.seq <= MaxLong
       /\ IF Upper(x.op) = "DELETE" THEN x.after = "none" ELSE Keyed(x.after)
       /\ IF Upper(x.op) = "INSERT" THEN x.before \in {"none", "pairs"} \/ Keyed(x.before)
                                    ELSE Keyed(x.before)
=============================================================================
