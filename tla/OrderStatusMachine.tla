------------------------ MODULE OrderStatusMachine ------------------------
(***************************************************************************)
(* What the diagram at the head of pipeline/execution/pipeline.py and the   *)
(* docstring of models/order.py promise of an order's row, seen from one    *)
(* commit to the next: its status only moves forward, a terminal status is  *)
(* never left, and filled_size grows with the fill statuses alone.          *)
(*                                                                          *)
(* Two edges are the code's rather than the diagram's: an acknowledged      *)
(* order is never expired (REAP-2 in pipeline/reapers.py), and the sweep    *)
(* may find fills of an order whose acknowledgement was lost.               *)
(***************************************************************************)
EXTENDS Naturals

CONSTANTS Orders, Size

VARIABLES status, filled

Init == status = [o \in Orders |-> "absent"] /\ filled = [o \in Orders |-> 0]

\* Where a commit may take an order that now has status s, fills aside.
Successors(s) ==
    CASE s = "absent" -> {"pending"}
      [] s = "pending" -> {"submitted", "acked", "rejected", "cancelled", "expired"}
      [] s = "submitted" -> {"expired"}
      [] s \in {"acked", "partially_filled"} -> {"cancelled"}
      [] OTHER -> {}

MoveStatus(o) == status'[o] \in Successors(status[o]) /\ filled'[o] = filled[o]

\* The sweep records fills of an order that is not terminal.
Fill(o) ==
    /\ status[o] \in {"pending", "submitted", "acked", "partially_filled"}
    /\ filled'[o] \in filled[o] + 1 .. Size
    /\ status'[o] = IF filled'[o] = Size THEN "filled" ELSE "partially_filled"

Keep(o) == status'[o] = status[o] /\ filled'[o] = filled[o]

\* One commit may move several orders: the sweep's and the reaper's do.
Next == \A o \in Orders : Keep(o) \/ MoveStatus(o) \/ Fill(o)

Spec == Init /\ [][Next]_<<status, filled>>

===========================================================================
