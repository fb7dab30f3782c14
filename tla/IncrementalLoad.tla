-------------------------- MODULE IncrementalLoad --------------------------
(***************************************************************************)
(* What an incremental load promises, whatever it loads: items appear in a *)
(* source at ordered positions, a position durably records how far the     *)
(* load has come, and the position never passes an item that has not been  *)
(* delivered.  The extraction by watermark (src/watermark) and the         *)
(* consumer of the change feed (src/cdf) are both to implement it: the     *)
(* position is the watermark of the one and the checkpoint of the other.   *)
(***************************************************************************)
CONSTANTS
  Positions,    \* where items may appear
  AtMost(_, _)  \* their order

VARIABLES
  available,    \* positions of the items that are in the source now
  loaded,       \* positions of the items that were delivered
  begun,        \* whether the load has been set up
  base,         \* the position it was set up at
  position      \* how far it has come

vars == <<available, loaded, begun, base, position>>

Init ==
  /\ available = {}
  /\ loaded = {}
  /\ begun \in BOOLEAN
  /\ base \in Positions
  /\ position = base

Begin ==
  /\ ~begun
  /\ begun' = TRUE
  /\ base' \in Positions
  /\ position' = base'
  /\ UNCHANGED <<available, loaded>>

(* Items come and go, but none comes at a position already passed. *)
Change ==
  /\ available' \in SUBSET Positions
  /\ begun => \A x \in available' \ available : ~AtMost(x, position)
  /\ UNCHANGED <<loaded, begun, base, position>>

(* Items are delivered, perhaps before they are due, and stay; the         *)
(* position moves forward, at the same time or later, over items that were *)
(* delivered.                                                              *)
Due(x, p) == ~AtMost(x, base) /\ AtMost(x, p)

Load ==
  /\ begun
  /\ loaded' \in SUBSET Positions /\ loaded \subseteq loaded'
  /\ position' \in Positions /\ AtMost(position, position')
  /\ \A x \in available : Due(x, position') => x \in loaded'
  /\ UNCHANGED <<available, begun, base>>

Next == Begin \/ Change \/ Load

Spec == Init /\ [][Next]_vars
=============================================================================
