-------------------------- MODULE ControllableHand --------------------------
(***************************************************************************)
(* What ControlAuthority may assume of a hand worker (the Protocol class   *)
(* ControllableHand of control.py).  A hand is two flags:                  *)
(*   enabled  the request flag that set_enabled writes (_enabled)          *)
(*   hot      the hardware reports enabled (_hardware_enabled)             *)
(* set_enabled is a call and a return with steps of the control loop       *)
(* between them.  Each operator gives the set of hands that an operation   *)
(* may leave behind.  HandWorker is checked to behave like this.           *)
(***************************************************************************)

Hand == [enabled : BOOLEAN, hot : BOOLEAN]

ColdHand == [enabled |-> FALSE, hot |-> FALSE]

(***************************************************************************)
(* set_enabled(True) up to its wait: it takes the request, or it refuses   *)
(* because the hand is not connected or its control loop has ended.        *)
(***************************************************************************)
EnableCall(h) == {[h EXCEPT !.enabled = TRUE], h}

(***************************************************************************)
(* set_enabled(True) returns normally from a hot hand and raises from one  *)
(* that is not: a timeout withdraws the request, a refusal and a failed    *)
(* publisher leave the flag as it is.                                      *)
(***************************************************************************)
EnableReturns(h) == h.hot
EnableRaises(h) == {[h EXCEPT !.enabled = FALSE], h}

(* set_enabled(False) of a HandWorker always withdraws the request before  *)
(* it waits.  SimHandWorker reads its scene first, and when that raises    *)
(* the flag stays up: DrivenOnlyUnread in SimHand is about that.           *)
DisableCall(h) == [h EXCEPT !.enabled = FALSE]

(***************************************************************************)
(* Steps of the control loop.  It switches the hardware on and off, also   *)
(* late: an enable can complete after the request was withdrawn, and a     *)
(* disable after the request was renewed.  It withdraws a request when it  *)
(* fails, but never makes one.                                             *)
(***************************************************************************)
LoopSteps(h) == {n \in Hand : n.enabled => h.enabled}

(* set_joint_target is accepted by an enabled, hot hand and raises on any  *)
(* other.                                                                  *)
TakesTarget(h) == h.enabled /\ h.hot

=============================================================================
