---------------------------- MODULE EppTransfer ----------------------------
(***************************************************************************)
(* What an EPP register access promises to its caller: LPT_SetReg and      *)
(* LPT_GetReg on ADDSTR or DATASTR move at most one byte between the       *)
(* adapter and the device, with the direction, register and value that     *)
(* were asked for; a call that reports success moved it; a call that       *)
(* reports failure may have moved it or not. No byte moves outside a call. *)
(***************************************************************************)
CONSTANTS Value, Register

None == [kind |-> "none"]
Writes == [kind : {"write"}, reg : Register, val : Value]
Reads == [kind : {"read"}, reg : Register]
Answered(r) == [kind : {"read"}, reg : {r}, val : Value]
Transfers == Writes \cup [kind : {"read"}, reg : Register, val : Value]
Control == [kind |-> "control"]   \* a write of the control pins

VARIABLES
  request,  \* the call in progress
  moved,    \* whether a byte moved in this call
  seen,     \* the last transfer the device took part in
  outcome,  \* "pending" during a call, then "ok" or "failed"
  answer    \* the byte a finished call handed back, arbitrary during one

vars == <<request, moved, seen, outcome, answer>>

Init ==
  /\ request = None
  /\ moved = FALSE
  /\ seen = None
  /\ outcome = "ok"
  /\ answer \in Value

Start ==
  /\ request = None
  /\ request' \in Writes \cup Reads \cup {Control}
  /\ moved' = FALSE
  /\ outcome' = "pending"
  /\ answer' \in Value
  /\ UNCHANGED seen

(* The device and the adapter exchange the byte of the request. Raising    *)
(* the control pins one after the other may look like any transfer.        *)
Move ==
  /\ request # None
  /\ ~moved
  /\ moved' = TRUE
  /\ \/ request \in Writes /\ seen' = request
     \/ request \in Reads /\ seen' \in Answered(request.reg)
     \/ request = Control /\ seen' \in Transfers
  /\ UNCHANGED <<request, outcome, answer>>

Finish(ok) ==
  /\ request # None
  /\ ok /\ request.kind # "control" => moved
  /\ request' = None
  /\ outcome' = IF ok THEN "ok" ELSE "failed"
  /\ answer' \in Value
  /\ ok /\ request.kind = "read" => answer' = seen.val
  /\ UNCHANGED <<moved, seen>>

(* A call on one of the other registers. *)
OtherRegister ==
  /\ request = None
  /\ answer' \in Value
  /\ UNCHANGED <<request, moved, seen, outcome>>

Next ==
  \/ Start
  \/ Move
  \/ \E ok \in BOOLEAN : Finish(ok)
  \/ OtherRegister

Spec == Init /\ [][Next]_vars
=============================================================================
