----------------------------- MODULE MCLakeflow -----------------------------
(***************************************************************************)
(* Instance of Lakeflow for TLC: an account and a subscription of it, in   *)
(* four accepted files that overlap.                                       *)
(***************************************************************************)
EXTENDS Lakeflow

accounts == "accounts"
subscriptions == "subscriptions"
MCTableOf == [k \in {"A", "S"} |-> IF k = "A" THEN accounts ELSE subscriptions]

Image(a, s) == [t \in {accounts, subscriptions} |-> IF t = accounts THEN a ELSE s]
Nothing == Image(Null, Null)

Account(op, n, v) ==
  [table |-> accounts, op |-> op, seq |-> n, value |-> v, key |-> Image("A", Null),
   after |-> IF op = "DELETE" THEN Nothing ELSE Image("A", Null),
   before |-> IF op = "INSERT" THEN Nothing ELSE Image("A", Null)]
Subscription(op, n, v) ==
  [table |-> subscriptions, op |-> op, seq |-> n, value |-> v, key |-> Image(Null, "S"),
   after |-> IF op = "DELETE" THEN Nothing ELSE Image("A", "S"),
   before |-> IF op = "INSERT" THEN Nothing ELSE Image("A", "S")]

\* a reset to null, a delete, a new insert with another key in its before-image;
\* a subscription with later sequence numbers; two events that claim one
\* sequence number
F1 == [path |-> 1, lines |-> {Account("UPDATE", 1, "v"), Subscription("INSERT", 3, "w")}]
F2 == [path |-> 2, lines |-> {Account("UPDATE", 2, Null), Subscription("UPDATE", 4, "v")}]
F3 == [path |-> 3, lines |-> {Account("DELETE", 3, Null), Subscription("UPDATE", 4, "w")}]
F4 == [path |-> 4, lines |-> {[Account("INSERT", 4, "w") EXCEPT !.before = Image("S", Null)],
                              Account("UPDATE", 1, "v"), Subscription("DELETE", 5, Null)}]

MCFiles == {F1, F2, F3, F4}
MCBacklog == {F1}
=============================================================================
