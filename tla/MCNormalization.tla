-------------------------- MODULE MCNormalization --------------------------
(***************************************************************************)
(* Instance of Normalization for TLC: two files, and lines that replay,    *)
(* contradict, collide with and come later than one another.               *)
(***************************************************************************)
EXTENDS Normalization, TLC

Insert == [text |-> "object", fails |-> {}, id |-> "e1", entity |-> "k1", op |-> "INSERT",
           seq |-> 1, ts |-> 2, after |-> "match", before |-> "none",
           data |-> "a", batch |-> 1]
Replayed == [Insert EXCEPT !.batch = 2]
Unbatched == [Insert EXCEPT !.batch = 0]
Contradicted == [Insert EXCEPT !.data = "b"]
Collision == [Insert EXCEPT !.id = "e2", !.op = "UPDATE", !.before = "match"]
LateDelete == [Insert EXCEPT !.id = "e3", !.op = "DELETE", !.seq = 2, !.ts = 1, !.batch = 2,
                             !.after = "none", !.before = "match"]
\* a DELETE in lower case with an after-image
BadDelete == [LateDelete EXCEPT !.op = "delete", !.after = "match"]
Malformed == [Insert EXCEPT !.text = "malformed", !.id = "", !.entity = ""]
\* quarantined before its sequence number is looked at
Broken == [Collision EXCEPT !.id = "", !.fails = {"MISSING_EVENT_ID", "OverflowError"}]
\* accepted as it is, although the merge can neither apply nor convert it
Paired == [Insert EXCEPT !.id = "e4", !.entity = "k2", !.op = "insert", !.after = "partial",
                         !.before = "pairs"]
\* lines that end the run that reads them
Scalar == [Paired EXCEPT !.before = "scalar"]
TooLong == [Insert EXCEPT !.id = "e5", !.entity = "k2", !.seq = 4]
Infinite == [TooLong EXCEPT !.fails = {"OverflowError", "MISSING_SOURCE_SYSTEM"}]
Unencodable == [TooLong EXCEPT !.seq = 1, !.data = "surrogate"]
Unreadable == [Malformed EXCEPT !.text = "unreadable"]

MCContents ==
  {<<>>, <<TooLong>>, <<Infinite>>, <<Unencodable>>, <<Unreadable, Malformed>>,
   <<Scalar, Insert>>, <<Paired>>, <<BadDelete, Malformed>>, <<Broken, Contradicted>>,
   <<Insert, Insert>>, <<Unbatched, Replayed>>, <<Insert, Collision>>, <<Replayed, LateDelete>>}
MCRewrites == {<<>>, <<Insert, Collision>>}
MCSubmissions == {<<1, 2>>, <<2, 1>>}
RunnerSymmetry == Permutations(Runners)
=============================================================================
