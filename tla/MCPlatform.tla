----------------------------- MODULE MCPlatform -----------------------------
(***************************************************************************)
(* Instance of Platform for TLC: a file that is normalized alone or with a *)
(* second one, which lands later, or is itself rewritten then.             *)
(***************************************************************************)
EXTENDS Platform

Update == [text |-> "object", fails |-> {}, id |-> "e1", entity |-> "k1", op |-> "UPDATE",
           seq |-> 1, ts |-> 1, after |-> "match", before |-> "match",
           data |-> "a", batch |-> 1]
Delete == [Update EXCEPT !.id = "e2", !.op = "DELETE", !.seq = 2, !.after = "none"]
\* another event with the sequence number of e2, without the batch_id that the
\* oracle asks for; an event whose after-image does not convert; bytes that are
\* not UTF-8
Tie == [Update EXCEPT !.id = "e3", !.seq = 2, !.batch = 0]
Poison == [Update EXCEPT !.id = "e4", !.seq = 3, !.after = "partial"]
Unreadable == [Update EXCEPT !.text = "unreadable"]

MCContents == {<<Update>>, <<Delete>>, <<Tie>>, <<Poison>>, <<Unreadable>>}
MCLandings ==
  {<<<<Update>>, NoFile>>, <<<<Tie>>, NoFile>>, <<<<Poison>>, NoFile>>, <<<<Unreadable>>, NoFile>>}
MCRewrites == {<<Delete>>}
MCLists == {<<1>>, <<1, 2>>}
=============================================================================
