---------------------------- MODULE ControlLease ----------------------------
(***************************************************************************)
(* What the control protocol promises its clients, without locks, hands or *)
(* time: at most one client holds the control lease, it holds it exactly   *)
(* while a side is armed, and as long as it does, the commands accepted    *)
(* for a side have strictly increasing sequence numbers and time stamps.   *)
(***************************************************************************)
EXTENDS Integers

CONSTANTS Clients, Sides, None, Seqs, Stamps, Absent

VARIABLES 
  holder,   \* the controlling client, or None
  live,     \* the sides it has armed
  window    \* [Sides -> the last accepted sequence number and stamp]

vars == <<holder, live, window>>

NewWindow == [s \in Sides |-> [seq |-> Absent, stamp |-> Absent]]

Init ==
  /\ holder = None
  /\ live = {}
  /\ window = NewWindow

(* Client c arms one more side; the first one gives it the lease.          *)
Grant(c, s) ==
  /\ holder \in {None, c}
  /\ s \notin live
  /\ holder' = c
  /\ live' = live \cup {s}
  /\ UNCHANGED window

(* A side is disarmed, by its owner or by the deadman.  With the last one  *)
(* the lease ends, and the next lease starts with new windows.             *)
Revoke(s) ==
  /\ s \in live
  /\ live' = live \ {s}
  /\ holder' = IF live' = {} THEN None ELSE holder
  /\ window' = IF live' = {} THEN NewWindow ELSE window

(* The lease holder commands a side it has armed.                          *)
Accept(c, s) == 
  /\ holder = c
  /\ s \in live
  /\ \E q \in Seqs, m \in Stamps :
       /\ q > window[s].seq
       /\ m > window[s].stamp
       /\ window' = [window EXCEPT ![s] = [seq |-> q, stamp |-> m]]
  /\ UNCHANGED <<holder, live>>

Next ==
  \/ \E c \in Clients, s \in Sides : Grant(c, s) \/ Accept(c, s)
  \/ \E s \in Sides : Revoke(s)

Spec == Init /\ [][Next]_vars

=============================================================================
