----------------------- MODULE ControlAuthorityProofs -----------------------
(***************************************************************************)
(* Theorems about ControlAuthority for every set of clients and sides,     *)
(* every timeout and every bound.                                          *)
(***************************************************************************)
EXTENDS ControlAuthority, TLAPS

(* What the operations of ControllableHand make of a hand.                 *)
LEMMA HandOps ==
  ASSUME NEW h \in Hand
  PROVE  /\ EnableCall(h) \subseteq Hand
         /\ EnableRaises(h) \subseteq Hand
         /\ \A n \in EnableRaises(h) : n.enabled => h.enabled
         /\ DisableCall(h) \in Hand
         /\ ~ DisableCall(h).enabled
         /\ LoopSteps(h) \subseteq Hand
         /\ \A n \in LoopSteps(h) : n.enabled => h.enabled
BY DEF Hand, EnableCall, EnableRaises, DisableCall, LoopSteps

(* The locals of the method inside the lock, as one of its steps updates   *)
(* them.                                                                   *)
LEMMA CritOps ==
  ASSUME NEW k \in Crit, NEW p \in Phases, NEW S \in SUBSET Sides
  PROVE  /\ k.phase \in Phases
         /\ k.todo \in SUBSET Sides
         /\ k.side \in SUBSET Sides
         /\ k.newly \in SUBSET Sides
         /\ [k EXCEPT !.phase = p] \in Crit
         /\ [k EXCEPT !.phase = p, !.side = S] \in Crit
         /\ \A s \in Sides :
              /\ [k EXCEPT !.phase = p, !.todo = @ \ {s}, !.side = {s}] \in Crit
              /\ [k EXCEPT !.phase = p, !.side = {}, !.newly = @ \cup {s}] \in Crit
BY DEF Crit

(***************************************************************************)
(* Every variable keeps its type.                                          *)
(***************************************************************************)
THEOREM TypeCorrect == Spec => []TypeOK
<1>. USE ThreadAssumption, NumberAssumption
<1>1. Init => TypeOK
  BY DEF Init, TypeOK, Threads, Absent, Call, NoCall, Crit, NoCrit, Phases,
         ColdHand, Hand
<1>2. TypeOK /\ [Next]_vars => TypeOK'
  <2>. SUFFICES ASSUME TypeOK, [Next]_vars PROVE TypeOK'
    OBVIOUS
  <2>. USE DEF TypeOK
  <2>1. ASSUME NEW t \in Threads, BeginExpire(t) PROVE TypeOK'
    BY <2>1 DEF BeginExpire, Begin, NoCall, Call, leaseVars
  <2>2. ASSUME NEW c \in Clients, NEW a \in Call, BeginMessage(c, a) 
        PROVE TypeOK'
    BY <2>2 DEF BeginMessage, Begin, leaseVars, Threads
  <2>3. ASSUME NEW c \in Clients, BeginDisconnect(c) PROVE TypeOK'
    BY <2>3 DEF BeginDisconnect, Begin, NoCall, Call, leaseVars, Threads
  <2>4. ASSUME NEW t \in Threads, Refuse(t) PROVE TypeOK'
    BY <2>4 DEF Refuse, Leave, Reenters, NoCall, Call, leaseVars, Threads
  <2>5. ASSUME NEW t \in Threads, EnterExpire(t) PROVE TypeOK'
    BY <2>5 DEF EnterExpire, EnterDrop, Enter, Expired, Crit, NoCrit, Phases,
                leaseVars, Threads
  <2>6. ASSUME NEW c \in Clients, EnterArm(c) PROVE TypeOK'
    BY <2>6 DEF EnterArm, Enter, Crit, NoCrit, Phases, Threads, Call, Absent
  <2>7. ASSUME NEW c \in Clients, EnterDisarm(c) \/ EnterDisconnect(c)
        PROVE TypeOK'
    <3>1. PICK S \in SUBSET Sides : EnterDrop(c, S)
      BY <2>7 DEF EnterDisarm, EnterDisconnect
    <3>. QED BY <3>1 DEF EnterDrop, Enter, Crit, NoCrit, Phases, leaseVars,
                        Threads
  <2>8. ASSUME NEW c \in Clients, CommandAccepted(c) PROVE TypeOK'
    BY <2>8 DEF CommandAccepted, Leave, Reenters, NoCall, Call, Threads
  <2>9. ASSUME NEW c \in Clients, ArmSide(c) PROVE TypeOK'
    <3>1. PICK s \in crit.todo :
            /\ crit' = [crit EXCEPT !.phase = "arming", !.todo = @ \ {s},
                                    !.side = {s}]
            /\ \E h \in EnableCall(hand[s]) : hand' = [hand EXCEPT ![s] = h]
      BY <2>9 DEF ArmSide
    <3>2. s \in Sides /\ crit' \in Crit
      BY <3>1, CritOps DEF Phases
    <3>3. hand' \in [Sides -> Hand]
      BY <3>1, <3>2, HandOps
    <3>. QED BY <2>9, <3>2, <3>3 DEF ArmSide, leaseVars
  <2>10. ASSUME NEW c \in Clients, ArmSideDone(c) PROVE TypeOK'
    <3>1. PICK s \in crit.side :
            /\ armed' = armed \cup {s}
            /\ lastCmd' = [lastCmd EXCEPT ![s] = call[c].now]
            /\ crit' = [crit EXCEPT !.phase = "arm", !.side = {},
                                    !.newly = @ \cup {s}]
      BY <2>10 DEF ArmSideDone
    <3>2. s \in Sides /\ crit' \in Crit
      BY <3>1, CritOps DEF Phases
    <3>3. lastCmd' \in [Sides -> Nat \cup {Absent}]
      BY <3>1, <3>2 DEF Call, Threads
    <3>. QED BY <2>10, <3>1, <3>2, <3>3 DEF ArmSideDone
  <2>11. ASSUME NEW c \in Clients, ArmSideRaises(c) PROVE TypeOK'
    <3>1. PICK s \in crit.side :
            \E h \in EnableRaises(hand[s]) : hand' = [hand EXCEPT ![s] = h]
      BY <2>11 DEF ArmSideRaises
    <3>2. s \in Sides /\ crit' \in Crit
      BY <2>11, <3>1, CritOps DEF Phases, ArmSideRaises
    <3>3. hand' \in [Sides -> Hand]
      BY <3>1, <3>2, HandOps
    <3>. QED BY <2>11, <3>2, <3>3 DEF ArmSideRaises, leaseVars
  <2>12. ASSUME NEW c \in Clients, Cleanup(c) PROVE TypeOK'
    <3>1. PICK s \in crit.side : hand' = [hand EXCEPT ![s] = DisableCall(@)]
      BY <2>12 DEF Cleanup
    <3>2. s \in Sides /\ crit' \in Crit
      BY <2>12, <3>1, CritOps DEF Phases, Cleanup
    <3>3. hand' \in [Sides -> Hand]
      BY <3>1, <3>2, HandOps
    <3>. QED BY <2>12, <3>2, <3>3 DEF Cleanup, leaseVars
  <2>13. ASSUME NEW c \in Clients, CleanupDone(c) PROVE TypeOK'
    BY <2>13 DEF CleanupDone, Crit, Phases, leaseVars
  <2>14. ASSUME NEW c \in Clients, ArmDone(c) PROVE TypeOK'
    BY <2>14 DEF ArmDone, Release, Leave, Reenters, NoCall, Call, Crit, NoCrit,
                 Phases, leaseVars, Threads
  <2>15. ASSUME NEW t \in Threads, DropSide(t) PROVE TypeOK'
    <3>1. PICK s \in crit.todo :
            /\ crit' = [crit EXCEPT !.phase = "dropping", !.todo = @ \ {s},
                                    !.side = {s}]
            /\ hand' = [hand EXCEPT ![s] = DisableCall(@)]
      BY <2>15 DEF DropSide
    <3>2. s \in Sides /\ crit' \in Crit
      BY <3>1, CritOps DEF Phases
    <3>3. hand' \in [Sides -> Hand]
      BY <3>1, <3>2, HandOps
    <3>. QED BY <2>15, <3>2, <3>3 DEF DropSide, leaseVars
  <2>16. ASSUME NEW t \in Threads, DropSideDone(t) PROVE TypeOK'
    BY <2>16 DEF DropSideDone, Crit, Phases, Absent
  <2>17. ASSUME NEW t \in Threads, DropDone(t) PROVE TypeOK'
    BY <2>17 DEF DropDone, Release, Leave, Reenters, NoCall, Call, Crit, NoCrit,
                 Phases, Threads
  <2>18. ASSUME NEW c \in Clients, Connect(c) \/ EndBatch(c) PROVE TypeOK'
    BY <2>18 DEF Connect, EndBatch, leaseVars, Threads
  <2>19. ASSUME NEW s \in Sides, HandLoop(s) PROVE TypeOK'
    BY <2>19 DEF HandLoop, LoopSteps, leaseVars, threadVars
  <2>20. CASE Tick
    BY <2>20 DEF Tick, leaseVars, threadVars
  <2>21. CASE UNCHANGED vars
    BY <2>21 DEF vars
  <2>22. ASSUME NEW c \in Clients, Message(c) PROVE TypeOK'
    <3>0. ASSUME NEW S \in Targets, NEW o \in {"arm", "disarm"}
          PROVE  /\ [NoCall EXCEPT !.op = o, !.sides = S] \in Call
                 /\ [NoCall EXCEPT !.op = o, !.sides = S, !.now = clock] \in Call
      <4>1. S \in SUBSET Sides
        BY DEF Targets
      <4>. QED BY <4>1 DEF Call, NoCall
    <3>1. CASE BeginArm(c)
      BY <3>0, <3>1, <2>2 DEF BeginArm
    <3>2. CASE BeginDisarm(c)
      BY <3>0, <3>2, <2>2 DEF BeginDisarm
    <3>3. CASE BeginCommand(c)
      BY <3>3, <2>2 DEF BeginCommand, Call
    <3>. QED BY <2>22, <3>1, <3>2, <3>3 DEF Message
  <2>23. ASSUME NEW c \in Clients, EnterClient(c) PROVE TypeOK'
    BY <2>23, <2>4, <2>6, <2>7, <2>8 
       DEF EnterClient, ArmBusy, NotController, CommandRejected, Threads
  <2>24. ASSUME NEW c \in Clients, Arm(c) PROVE TypeOK'
    BY <2>24, <2>9, <2>10, <2>11, <2>12, <2>13, <2>14 DEF Arm
  <2>. QED
    BY <2>1, <2>3, <2>5, <2>15, <2>16, <2>17, <2>18, <2>19, <2>20, <2>21, <2>22,
       <2>23, <2>24 DEF Next, Acquire, Inside, Drop
<1>. QED BY <1>1, <1>2, PTL DEF Spec

-----------------------------------------------------------------------------
(***************************************************************************)
(* The inductive step.  TypeOK' comes from the theorem above; what is left *)
(* of IInv has one lemma per group of actions.                             *)
(***************************************************************************)
Rest == LockInv /\ MethodInv /\ LeaseInv /\ RequestInv /\ LeaseEndsWithSession

(* Steps of the threads outside the lock leave the lease and the locals    *)
(* of the lock holder alone.                                               *)
LEMMA OutsideStep ==
  ASSUME TypeOK, Rest, NEW t \in Threads,
         UNCHANGED <<owner, armed, lastCmd, lock, crit, hand>>,
         pc[t] # "inside",
         pc' \in [Threads -> {"gone", "loop", "ready", "wait", "inside"}],
         pc'[t] # "inside",
         pc'[t] = "gone" => owner # t,
         \A u \in Threads \ {t} : pc'[u] = pc[u] /\ call'[u] = call[u],
         call'[t].op = "arm" => call'[t].sides # {}
  PROVE  Rest'
<1>. USE ThreadAssumption DEF Rest, Threads
<1>1. lock # t
  BY DEF LockInv
<1>2. lock # None => call'[lock] = call[lock]
  BY <1>1 DEF TypeOK
<1>3. LockInv'
  BY DEF LockInv
<1>4. MethodInv'
  <2>1. crit.phase # "none" => call'[lock] = call[lock]
    BY <1>2 DEF LockInv
  <2>. QED BY <2>1 DEF MethodInv, ArmPhases
<1>5. LeaseInv' /\ RequestInv'
  BY DEF LeaseInv, RequestInv
<1>6. LeaseEndsWithSession'
  BY DEF LeaseEndsWithSession
<1>. QED BY <1>3, <1>4, <1>5, <1>6

(* A thread takes the lock for a method that may disable sides.            *)
LEMMA EnterDropStep ==
  ASSUME TypeOK, Rest, NEW t \in Threads, NEW S \in SUBSET Sides,
         lock = None, EnterDrop(t, S),
         call[t].op # "arm",
         call[t].op = "disconnect" => armed \subseteq S
  PROVE  Rest'
<1>. USE ThreadAssumption DEF Rest, Threads
<1>1. /\ lock' = t /\ pc' = [pc EXCEPT ![t] = "inside"]
      /\ crit'.phase = "drop" /\ crit'.todo = S /\ crit'.side = {}
      /\ UNCHANGED <<owner, armed, lastCmd, call, hand>>
  BY DEF EnterDrop, Enter, NoCrit, leaseVars
<1>2. LockInv'
  BY <1>1 DEF LockInv, TypeOK
<1>3. MethodInv'
  BY <1>1 DEF MethodInv, ArmPhases
<1>4. LeaseInv'
  BY <1>1 DEF LeaseInv
<1>5. RequestInv'
  BY <1>1 DEF RequestInv, LockInv
<1>6. LeaseEndsWithSession'
  BY <1>1 DEF LeaseEndsWithSession, TypeOK
<1>. QED BY <1>2, <1>3, <1>4, <1>5, <1>6

LEMMA EnterArmStep ==
  ASSUME TypeOK, Rest, NEW c \in Clients, EnterArm(c)
  PROVE  Rest'
<1>. USE ThreadAssumption DEF Rest, Threads
<1>1. /\ lock = None /\ pc[c] = "wait" /\ call[c].op = "arm"
      /\ owner' = c
      /\ lock' = c /\ pc' = [pc EXCEPT ![c] = "inside"]
      /\ crit'.phase = "arm" /\ crit'.todo = call[c].sides \ armed
      /\ crit'.side = {}
      /\ UNCHANGED <<armed, lastCmd, call, hand>>
  BY DEF EnterArm, Entering, Enter, NoCrit
<1>2. LockInv'
  BY <1>1 DEF LockInv, TypeOK
<1>3. MethodInv'
  BY <1>1 DEF MethodInv, ArmPhases
<1>4. LeaseInv'
  BY <1>1 DEF LeaseInv
<1>5. RequestInv'
  BY <1>1 DEF RequestInv, LockInv
<1>6. LeaseEndsWithSession'
  BY <1>1 DEF LeaseEndsWithSession, TypeOK
<1>. QED BY <1>2, <1>3, <1>4, <1>5, <1>6

(* Steps of the lock holder that keep the lock.                            *)
LEMMA InsideStep ==
  ASSUME TypeOK, Rest, lock # None, UNCHANGED <<owner, lock, pc, call>>,
         crit'.phase # "none", MethodInv', RequestInv',
         armed' # {} => owner # None,
         \A s \in Sides : s \in armed' <=> lastCmd'[s] # Absent
  PROVE  Rest'
<1>. USE DEF Rest
<1>1. LockInv'
  BY DEF LockInv
<1>2. LeaseInv'
  BY DEF LeaseInv
<1>3. LeaseEndsWithSession'
  BY DEF LeaseEndsWithSession
<1>. QED BY <1>1, <1>2, <1>3

(* Arming one side: the call, its two ends, and the cleanup.               *)
LEMMA ArmStep ==
  ASSUME TypeOK, Rest, NEW c \in Clients, 
         \/ ArmSide(c) \/ ArmSideDone(c) \/ ArmSideRaises(c)
         \/ Cleanup(c) \/ CleanupDone(c)
  PROVE  Rest'
<1>. USE ThreadAssumption DEF Rest
<1>0. c # None /\ Absent \notin Nat
  BY DEF Threads, Absent
<1>1. CASE ArmSide(c)
  <2>1. PICK s \in crit.todo :
          /\ crit' = [crit EXCEPT !.phase = "arming", !.todo = @ \ {s},
                                  !.side = {s}]
          /\ \E h \in EnableCall(hand[s]) : hand' = [hand EXCEPT ![s] = h]
    BY <1>1 DEF ArmSide
  <2>2. /\ lock = c /\ crit.phase = "arm"
        /\ UNCHANGED <<owner, armed, lastCmd, lock, pc, call>>
    BY <1>1 DEF ArmSide, Holds, leaseVars
  <2>3. /\ s \in Sides
        /\ crit'.phase = "arming" /\ crit'.todo = crit.todo \ {s}
        /\ crit'.side = {s}
    BY <2>1 DEF TypeOK, Crit
  <2>4. MethodInv'
    BY <2>2, <2>3 DEF MethodInv, ArmPhases
  <2>5. RequestInv'
    BY <2>1, <2>2, <2>3 DEF RequestInv, TypeOK
  <2>. QED BY <1>0, <2>2, <2>3, <2>4, <2>5, InsideStep DEF LeaseInv
<1>2. CASE ArmSideDone(c)
  <2>1. PICK s \in crit.side :
          /\ armed' = armed \cup {s}
          /\ lastCmd' = [lastCmd EXCEPT ![s] = call[c].now]
          /\ crit' = [crit EXCEPT !.phase = "arm", !.side = {},
                                  !.newly = @ \cup {s}]
    BY <1>2 DEF ArmSideDone
  <2>2. /\ lock = c /\ crit.phase = "arming"
        /\ UNCHANGED <<owner, hand, lock, pc, call>>
    BY <1>2 DEF ArmSideDone, Holds
  <2>3. /\ s \in Sides /\ crit.side = {s}
        /\ crit'.phase = "arm" /\ crit'.todo = crit.todo
        /\ crit'.side = {}
    BY <2>1, <2>2 DEF TypeOK, Crit, MethodInv
  <2>4. MethodInv'
    BY <2>1, <2>2, <2>3 DEF MethodInv, ArmPhases
  <2>5. RequestInv'
    BY <2>1, <2>2, <2>3 DEF RequestInv
  <2>6. \A u \in Sides : u \in armed' <=> lastCmd'[u] # Absent
    <3>1. call[c].now \in Nat
      BY DEF TypeOK, Threads, Call
    <3>. QED BY <1>0, <2>1, <2>3, <3>1 DEF LeaseInv, TypeOK
  <2>7. owner # None
    BY <1>0, <2>2 DEF MethodInv, ArmPhases
  <2>. QED BY <1>0, <2>2, <2>3, <2>4, <2>5, <2>6, <2>7, InsideStep
<1>3. CASE ArmSideRaises(c)
  <2>1. PICK s \in crit.side :
          \E h \in EnableRaises(hand[s]) : hand' = [hand EXCEPT ![s] = h]
    BY <1>3 DEF ArmSideRaises
  <2>2. /\ lock = c /\ crit.phase = "arming"
        /\ crit'.phase = "cleanup" /\ crit'.side = crit.side
        /\ UNCHANGED <<owner, armed, lastCmd, lock, pc, call>>
    BY <1>3 DEF ArmSideRaises, Holds, leaseVars, TypeOK, Crit
  <2>3. s \in Sides
    BY <2>1 DEF TypeOK, Crit
  <2>4. MethodInv'
    BY <2>2 DEF MethodInv, ArmPhases
  <2>5. \A u \in Sides : hand'[u].enabled => hand[u].enabled
    BY <2>1, <2>3, HandOps DEF TypeOK
  <2>6. RequestInv'
    BY <2>2, <2>5 DEF RequestInv
  <2>. QED BY <1>0, <2>2, <2>4, <2>6, InsideStep DEF LeaseInv
<1>4. CASE Cleanup(c)
  <2>1. PICK s \in crit.side : hand' = [hand EXCEPT ![s] = DisableCall(@)]
    BY <1>4 DEF Cleanup
  <2>2. /\ lock = c /\ crit.phase = "cleanup"
        /\ crit'.phase = "cleaning" /\ crit'.side = crit.side
        /\ UNCHANGED <<owner, armed, lastCmd, lock, pc, call>>
    BY <1>4 DEF Cleanup, Holds, leaseVars, TypeOK, Crit
  <2>3. s \in Sides /\ crit.side = {s}
    BY <2>1, <2>2 DEF TypeOK, Crit, MethodInv
  <2>4. /\ ~ hand'[s].enabled
        /\ \A u \in Sides : hand'[u].enabled => hand[u].enabled
    BY <2>1, <2>3, HandOps DEF TypeOK
  <2>5. MethodInv'
    BY <2>2, <2>3, <2>4 DEF MethodInv, ArmPhases
  <2>6. RequestInv'
    BY <2>2, <2>3, <2>4 DEF RequestInv
  <2>. QED BY <1>0, <2>2, <2>5, <2>6, InsideStep DEF LeaseInv
<1>5. CASE CleanupDone(c)
  <2>1. /\ lock = c /\ crit.phase = "cleaning"
        /\ crit'.phase = "drop" /\ crit'.side = {}
        /\ UNCHANGED <<owner, armed, lastCmd, lock, pc, call, hand>>
    BY <1>5 DEF CleanupDone, Holds, leaseVars
  <2>2. MethodInv'
    BY <2>1 DEF MethodInv, ArmPhases
  <2>3. RequestInv'
    BY <2>1 DEF RequestInv
  <2>. QED BY <1>0, <2>1, <2>2, <2>3, InsideStep DEF LeaseInv
<1>. QED BY <1>1, <1>2, <1>3, <1>4, <1>5

(* Disabling one side for a disarm, an expiry, a disconnect or a rollback. *)
LEMMA DropStep ==
  ASSUME TypeOK, Rest, NEW t \in Threads, DropSide(t) \/ DropSideDone(t)
  PROVE  Rest'
<1>. USE ThreadAssumption DEF Rest
<1>0. t # None /\ Absent \notin Nat
  BY DEF Threads, Absent
<1>1. CASE DropSide(t)
  <2>1. PICK s \in crit.todo :
          /\ crit' = [crit EXCEPT !.phase = "dropping", !.todo = @ \ {s},
                                  !.side = {s}]
          /\ hand' = [hand EXCEPT ![s] = DisableCall(@)]
    BY <1>1 DEF DropSide
  <2>2. /\ lock = t /\ crit.phase = "drop"
        /\ UNCHANGED <<owner, armed, lastCmd, lock, pc, call>>
    BY <1>1 DEF DropSide, Holds, leaseVars
  <2>3. /\ s \in Sides
        /\ crit'.phase = "dropping" /\ crit'.todo = crit.todo \ {s}
        /\ crit'.side = {s}
    BY <2>1 DEF TypeOK, Crit
  <2>4. /\ ~ hand'[s].enabled
        /\ \A u \in Sides : hand'[u].enabled => hand[u].enabled
    BY <2>1, <2>3, HandOps DEF TypeOK
  <2>5. MethodInv'
    BY <2>2, <2>3, <2>4 DEF MethodInv, ArmPhases
  <2>6. RequestInv'
    BY <2>2, <2>3, <2>4 DEF RequestInv
  <2>. QED BY <1>0, <2>2, <2>3, <2>5, <2>6, InsideStep DEF LeaseInv
<1>2. CASE DropSideDone(t)
  <2>1. /\ lock = t /\ crit.phase = "dropping"
        /\ armed' = armed \ crit.side
        /\ lastCmd' = [s \in Sides |-> IF s \in crit.side THEN Absent
                                                         ELSE lastCmd[s]]
        /\ crit'.phase = "drop" /\ crit'.todo = crit.todo /\ crit'.side = {}
        /\ UNCHANGED <<owner, hand, lock, pc, call>>
    BY <1>2 DEF DropSideDone, Holds, TypeOK, Crit
  <2>2. MethodInv'
    BY <2>1 DEF MethodInv, ArmPhases
  <2>3. RequestInv'
    BY <2>1 DEF RequestInv, MethodInv
  <2>4. \A u \in Sides : u \in armed' <=> lastCmd'[u] # Absent
    BY <2>1 DEF LeaseInv
  <2>. QED BY <1>0, <2>1, <2>2, <2>3, <2>4, InsideStep DEF LeaseInv
<1>. QED BY <1>1, <1>2

(* The method gives the lock back.                                         *)
LEMMA ReleaseStep ==
  ASSUME TypeOK, Rest, NEW t \in Threads, Holds(t, "arm") \/ Holds(t, "drop"),
         crit.todo = {}, Release(t),
         UNCHANGED <<armed, lastCmd, hand>>,
         owner' = IF armed = {} THEN None ELSE owner
  PROVE  Rest'
<1>. USE ThreadAssumption DEF Rest
<1>1. /\ lock = t /\ lock' = None /\ crit'.phase = "none" /\ crit'.side = {}
      /\ pc' = [pc EXCEPT ![t] = Reenters(t)]
      /\ call' = [call EXCEPT ![t] = NoCall]
      /\ crit.phase \in {"arm", "drop"} /\ crit.side = {}
  BY DEF Release, Leave, Holds, NoCrit, MethodInv
<1>2. Reenters(t) # "inside"
  BY DEF Reenters
<1>3. LockInv'
  BY <1>1, <1>2 DEF LockInv, TypeOK, Threads
<1>4. MethodInv'
  BY <1>1 DEF MethodInv, ArmPhases, TypeOK, Threads, NoCall
<1>5. LeaseInv'
  BY <1>1 DEF LeaseInv
<1>6. RequestInv'
  BY <1>1 DEF RequestInv
<1>7. LeaseEndsWithSession'
  <2>. SUFFICES ASSUME NEW c \in Clients, pc'[c] = "gone" PROVE owner' # c
    BY DEF LeaseEndsWithSession
  <2>1. c # None /\ c \in Threads
    BY DEF Threads
  <2>2. CASE c # t
    <3>1. owner # c
      BY <1>1, <2>1, <2>2 DEF TypeOK, LeaseEndsWithSession
    <3>. QED BY <2>1, <3>1
  <2>3. CASE c = t
    <3>1. call[t].op = "disconnect"
      BY <1>1, <2>1, <2>3 DEF TypeOK, Reenters
    <3>2. crit.phase = "drop"
      BY <1>1, <3>1 DEF MethodInv, ArmPhases
    <3>3. armed = {}
      BY <1>1, <3>1, <3>2 DEF MethodInv
    <3>. QED BY <2>1, <3>3
  <2>. QED BY <2>2, <2>3
<1>. QED BY <1>3, <1>4, <1>5, <1>6, <1>7

(* A method that ends without having taken the lock.                       *)
LEMMA LeaveStep ==
  ASSUME TypeOK, Rest, NEW c \in Clients, pc[c] = "wait", Leave(c),
         call[c].op = "disconnect" => owner # c,
         UNCHANGED <<owner, armed, lock, crit, hand>>,
         \A s \in Sides : s \in armed <=> lastCmd'[s] # Absent
  PROVE  Rest'
<1>. USE ThreadAssumption DEF Rest, Threads
<1>1. /\ pc' = [pc EXCEPT ![c] = Reenters(c)]
      /\ call' = [call EXCEPT ![c] = NoCall]
  BY DEF Leave
<1>2. Reenters(c) # "inside" /\ (Reenters(c) = "gone" => owner # c)
  BY DEF Reenters
<1>3. lock # c
  BY DEF LockInv
<1>4. LockInv'
  BY <1>1, <1>2, <1>3 DEF LockInv, TypeOK
<1>5. MethodInv'
  <2>1. crit.phase # "none" => lock \in Threads /\ call'[lock] = call[lock]
    BY <1>1, <1>3 DEF LockInv, TypeOK
  <2>2. \A d \in Clients : call'[d].op = "arm" => call'[d].sides # {}
    BY <1>1 DEF MethodInv, TypeOK, NoCall
  <2>. QED BY <2>1, <2>2 DEF MethodInv, ArmPhases
<1>6. LeaseInv' /\ RequestInv'
  BY DEF LeaseInv, RequestInv
<1>7. LeaseEndsWithSession'
  BY <1>1, <1>2 DEF LeaseEndsWithSession, TypeOK
<1>. QED BY <1>4, <1>5, <1>6, <1>7

(* The steps of the threads that are outside the lock and stay there.      *)
LEMMA BeginStep ==
  ASSUME TypeOK, TypeOK', Rest, NEW t \in Threads,
         \/ BeginExpire(t)
         \/ t \in Clients /\ (Connect(t) \/ Message(t) \/ EndBatch(t)
                             \/ BeginDisconnect(t))
  PROVE  Rest'
<1>. USE ThreadAssumption
<1>1. ASSUME NEW a, Begin(t, a), pc[t] \in {"loop", "ready"},
             a.op = "arm" => a.sides # {}
      PROVE  Rest'
  <2>1. /\ pc' = [pc EXCEPT ![t] = "wait"]
        /\ call' = [call EXCEPT ![t] = a]
        /\ UNCHANGED <<owner, armed, lastCmd, lock, crit, hand>>
    BY <1>1 DEF Begin, leaseVars
  <2>. QED BY <1>1, <2>1, OutsideStep DEF TypeOK
<1>2. CASE BeginExpire(t)
  BY <1>1, <1>2 DEF BeginExpire, NoCall
<1>3. CASE t \in Clients /\ Message(t)
  <2>1. ASSUME NEW a, BeginMessage(t, a), a.op = "arm" => a.sides # {}
        PROVE  Rest'
    BY <1>1, <2>1 DEF BeginMessage
  <2>2. \A S \in Targets : S # {}
    BY DEF Targets
  <2>3. CASE BeginArm(t)
    BY <2>1, <2>2, <2>3 DEF BeginArm, NoCall
  <2>4. CASE BeginDisarm(t)
    BY <2>1, <2>4 DEF BeginDisarm, NoCall
  <2>5. CASE BeginCommand(t)
    BY <2>1, <2>5 DEF BeginCommand
  <2>. QED BY <1>3, <2>3, <2>4, <2>5 DEF Message
<1>4. CASE t \in Clients /\ BeginDisconnect(t)
  BY <1>1, <1>4 DEF BeginDisconnect, NoCall
<1>5. CASE t \in Clients /\ (Connect(t) \/ EndBatch(t))
  <2>1. /\ pc[t] \in {"gone", "ready"}
        /\ pc' = [pc EXCEPT ![t] = "loop"]
        /\ UNCHANGED <<owner, armed, lastCmd, lock, crit, hand, call>>
    BY <1>5 DEF Connect, EndBatch, leaseVars
  <2>2. call[t].op = "arm" => call[t].sides # {}
    BY <1>5 DEF Rest, MethodInv
  <2>. QED BY <2>1, <2>2, OutsideStep DEF TypeOK
<1>. QED BY <1>2, <1>3, <1>4, <1>5

(* The steps of a thread that finds the lock free.                         *)
LEMMA AcquireStep ==
  ASSUME TypeOK, Rest, Acquire
  PROVE  Rest'
<1>. USE ThreadAssumption DEF Entering
<1>1. ASSUME NEW t \in Threads, EnterExpire(t) PROVE Rest'
  <2>1. Expired(call[t].now) \in SUBSET Sides
    BY DEF Expired, TypeOK
  <2>. QED BY <1>1, <2>1, EnterDropStep DEF EnterExpire
<1>2. ASSUME NEW c \in Clients, EnterDisarm(c) \/ EnterDisconnect(c)
      PROVE  Rest'
  <2>1. c \in Threads /\ armed \in SUBSET Sides 
        /\ call[c].sides \cap armed \in SUBSET Sides
    BY DEF Threads, TypeOK
  <2>2. CASE EnterDisarm(c)
    BY <2>1, <2>2, EnterDropStep DEF EnterDisarm
  <2>3. CASE EnterDisconnect(c)
    BY <2>1, <2>3, EnterDropStep DEF EnterDisconnect
  <2>. QED BY <1>2, <2>2, <2>3
<1>3. ASSUME NEW c \in Clients, 
             ArmBusy(c) \/ NotController(c) \/ CommandRejected(c)
      PROVE  Rest'
  <2>1. /\ Leave(c) /\ pc[c] = "wait"
        /\ call[c].op = "disconnect" => owner # c
        /\ UNCHANGED <<owner, armed, lastCmd, lock, crit, hand>>
    BY <1>3 DEF ArmBusy, NotController, CommandRejected, Refuse, leaseVars
  <2>2. \A s \in Sides : s \in armed <=> lastCmd'[s] # Absent
    BY <2>1 DEF Rest, LeaseInv
  <2>. QED BY <2>1, <2>2, LeaveStep
<1>4. ASSUME NEW c \in Clients, CommandAccepted(c) PROVE Rest'
  <2>1. PICK s \in call[c].sides :
          s \in armed /\ lastCmd' = [lastCmd EXCEPT ![s] = call[c].now]
    BY <1>4 DEF CommandAccepted
  <2>2. call[c].now \in Nat
    BY DEF TypeOK, Threads, Call
  <2>3. \A u \in Sides : u \in armed <=> lastCmd'[u] # Absent
    BY <2>1, <2>2 DEF Rest, LeaseInv, TypeOK, Absent
  <2>4. /\ Leave(c) /\ pc[c] = "wait" /\ call[c].op # "disconnect"
        /\ UNCHANGED <<owner, armed, lock, crit, hand>>
    BY <1>4 DEF CommandAccepted
  <2>. QED BY <2>3, <2>4, LeaveStep
<1>. QED BY <1>1, <1>2, <1>3, <1>4, EnterArmStep DEF Acquire, EnterClient

(* The steps of the thread that has the lock.                              *)
LEMMA HolderStep ==
  ASSUME TypeOK, Rest, Inside
  PROVE  Rest'
<1>. USE ThreadAssumption
<1>1. ASSUME NEW t \in Threads, DropDone(t) PROVE Rest'
  <2>1. /\ Holds(t, "drop") /\ crit.todo = {} /\ Release(t)
        /\ UNCHANGED <<armed, lastCmd, hand>>
        /\ owner' = IF armed = {} \/ call[t].op = "disconnect" 
                    THEN None ELSE owner
    BY <1>1 DEF DropDone
  <2>2. call[t].op = "disconnect" => armed = {}
    BY <2>1 DEF Rest, MethodInv, Holds
  <2>. QED BY <2>1, <2>2, ReleaseStep
<1>2. ASSUME NEW c \in Clients, ArmDone(c) PROVE Rest'
  <2>1. /\ Holds(c, "arm") /\ crit.todo = {} /\ Release(c)
        /\ UNCHANGED <<owner, armed, lastCmd, hand>>
    BY <1>2 DEF ArmDone, leaseVars
  <2>2. armed # {}
    BY <2>1 DEF Rest, MethodInv, Holds, ArmPhases
  <2>. QED BY <2>1, <2>2, ReleaseStep DEF Threads
<1>. QED BY <1>1, <1>2, DropStep, ArmStep DEF Inside, Drop, Arm

(***************************************************************************)
(* IInv is inductive.  It is TypeOK and Rest: who is inside the lock and   *)
(* what the method there still has to do, next to the three properties     *)
(* that the checks are about.                                              *)
(***************************************************************************)
LEMMA Inductive == Spec => []IInv
<1>. USE ThreadAssumption
<1>1. Init => Rest
  BY DEF Init, Rest, LockInv, MethodInv, ArmPhases, LeaseInv, RequestInv, 
         LeaseEndsWithSession, Threads, NoCrit, NoCall, ColdHand, Absent
<1>2. TypeOK /\ TypeOK' /\ Rest /\ [Next]_vars => Rest'
  <2>. SUFFICES ASSUME TypeOK, TypeOK', Rest, [Next]_vars PROVE Rest'
    OBVIOUS
  <2>1. ASSUME NEW s \in Sides, HandLoop(s) PROVE Rest'
    <3>1. \A u \in Sides : hand'[u].enabled => hand[u].enabled
      BY <2>1, HandOps DEF HandLoop, TypeOK
    <3>2. UNCHANGED <<owner, armed, lastCmd, lock, pc, call, crit>>
      BY <2>1 DEF HandLoop, leaseVars, threadVars
    <3>. QED BY <3>1, <3>2 DEF Rest, LockInv, MethodInv, ArmPhases, LeaseInv,
                RequestInv, LeaseEndsWithSession, TypeOK, Crit
  <2>2. CASE Tick \/ UNCHANGED vars
    <3>1. UNCHANGED <<owner, armed, lastCmd, lock, pc, call, crit, hand>>
      BY <2>2 DEF Tick, vars, leaseVars, threadVars
    <3>. QED BY <3>1 DEF Rest, LockInv, MethodInv, ArmPhases, LeaseInv,
                RequestInv, LeaseEndsWithSession
  <2>. QED BY <2>1, <2>2, BeginStep, AcquireStep, HolderStep DEF Next, Threads
<1>3. IInv <=> TypeOK /\ Rest
  BY DEF IInv, Rest
<1>. QED BY <1>1, <1>2, <1>3, TypeCorrect, PTL DEF Spec

(***************************************************************************)
(* There is an owner exactly while a side is armed, and a side is armed    *)
(* exactly while it has a deadman stamp.                                   *)
(***************************************************************************)
THEOREM LeaseCorrect == Spec => []LeaseInv
BY Inductive, PTL DEF IInv

(***************************************************************************)
(* No hand keeps an enable request that nobody is responsible for.         *)
(***************************************************************************)
THEOREM RequestCorrect == Spec => []RequestInv
BY Inductive, PTL DEF IInv

(***************************************************************************)
(* A session that has ended owns nothing.                                  *)
(***************************************************************************)
THEOREM LeaseEnds == Spec => []LeaseEndsWithSession
BY Inductive, PTL DEF IInv


-----------------------------------------------------------------------------
(* The arguments a thread evaluates before it waits for the lock.          *)
LEMMA CallOps ==
  ASSUME NEW n \in Nat
  PROVE  /\ LET a == [NoCall EXCEPT !.op = "expire", !.now = n]
            IN  a \in Call /\ a.op = "expire" /\ a.now = n
         /\ LET a == [NoCall EXCEPT !.op = "disconnect"]
            IN  a \in Call /\ a.op = "disconnect" /\ a.now = 0
         /\ \A S \in Targets :
              LET a == [NoCall EXCEPT !.op = "disarm", !.sides = S]
              IN  a \in Call /\ a.op = "disarm" /\ a.now = 0
<1>1. \A S \in Targets : S \in SUBSET Sides
  BY DEF Targets
<1>. QED BY <1>1 DEF Call, NoCall

(***************************************************************************)
(* StampInv is inductive relative to IInv.                                 *)
(***************************************************************************)
LEMMA StampStep ==
  ASSUME IInv, IInv', StampInv, [Next]_vars
  PROVE  StampInv'
<1>. USE ThreadAssumption, NumberAssumption
<1>. DEFINE CommandsTimed ==
       \A c \in Clients : 
         owner = c /\ pc[c] = "wait" /\ call[c].op = "command" =>
           \A s \in armed : lastCmd[s] <= call[c].now
<1>0. /\ clock \in Nat /\ lastCmd \in [Sides -> Nat \cup {Absent}]
      /\ armed \in SUBSET Sides /\ lock \in Threads \cup {None}
      /\ call \in [Threads -> Call] /\ crit \in Crit
      /\ Clients \subseteq Threads
      /\ pc \in [Threads -> {"gone", "loop", "ready", "wait", "inside"}]
      /\ \A t \in Threads : call[t].now \in Nat
      /\ Absent \in Int /\ Absent <= clock
      /\ \A s \in Sides : lastCmd[s] \in Int
  BY DEF IInv, TypeOK, Threads, Absent, Call
<1>1. ASSUME NEW t \in Threads, NEW a \in Call, Begin(t, a), a.now <= clock,
             pc[t] # "inside", a.op = "command" => a.now = clock
      PROVE  StampInv'
  <2>1. /\ pc' = [pc EXCEPT ![t] = "wait"] /\ call' = [call EXCEPT ![t] = a]
        /\ UNCHANGED <<owner, armed, lastCmd, lock, crit, clock>>
    BY <1>1 DEF Begin, leaseVars
  <2>2. crit.phase # "none" => call'[lock] = call[lock]
    BY <1>0, <1>1, <2>1 DEF IInv, LockInv
  <2>3. \A u \in Threads : call'[u].now <= clock'
    BY <1>0, <1>1, <2>1 DEF StampInv
  <2>4. CommandsTimed'
    BY <1>0, <1>1, <2>1 DEF StampInv
  <2>. QED BY <2>1, <2>2, <2>3, <2>4 DEF StampInv
<1>2. ASSUME NEW t \in Threads, BeginExpire(t) PROVE StampInv'
  <2>. DEFINE a == [NoCall EXCEPT !.op = "expire", !.now = clock]
  <2>1. a \in Call /\ a.op = "expire" /\ a.now = clock
    BY <1>0, CallOps
  <2>2. pc[t] = "loop" /\ Begin(t, a)
    BY <1>2 DEF BeginExpire
  <2>. HIDE DEF a
  <2>. QED BY <1>0, <1>1, <2>1, <2>2
<1>3. ASSUME NEW c \in Clients, BeginDisconnect(c) PROVE StampInv'
  <2>. DEFINE a == [NoCall EXCEPT !.op = "disconnect"]
  <2>1. a \in Call /\ a.op = "disconnect" /\ a.now = 0
    BY <1>0, CallOps
  <2>2. pc[c] = "ready" /\ Begin(c, a)
    BY <1>3 DEF BeginDisconnect
  <2>. HIDE DEF a
  <2>. QED BY <1>0, <1>1, <2>1, <2>2
<1>4. ASSUME NEW c \in Clients, Message(c) PROVE StampInv'
  <2>1. ASSUME NEW a \in Call, BeginMessage(c, a), a.now <= clock,
               a.op = "command" => a.now = clock
        PROVE  StampInv'
    BY <1>0, <1>1, <2>1 DEF BeginMessage
  <2>2. CASE BeginArm(c)
    <3>1. PICK S \in Targets : 
            BeginMessage(c, [NoCall EXCEPT !.op = "arm", !.sides = S, !.now = clock])
      BY <2>2 DEF BeginArm
    <3>. DEFINE a == [NoCall EXCEPT !.op = "arm", !.sides = S, !.now = clock]
    <3>2. a \in Call /\ a.op = "arm" /\ a.now = clock
      <4>1. S \in SUBSET Sides /\ clock \in Nat
        BY <1>0 DEF Targets
      <4>. QED BY <4>1 DEF Call, NoCall
    <3>3. BeginMessage(c, a)
      BY <3>1
    <3>. HIDE DEF a
    <3>. QED BY <1>0, <2>1, <3>2, <3>3
  <2>3. CASE BeginDisarm(c)
    <3>1. PICK S \in Targets : 
            BeginMessage(c, [NoCall EXCEPT !.op = "disarm", !.sides = S])
      BY <2>3 DEF BeginDisarm
    <3>. DEFINE a == [NoCall EXCEPT !.op = "disarm", !.sides = S]
    <3>2. a \in Call /\ a.op = "disarm" /\ a.now = 0
      BY <1>0, CallOps
    <3>3. BeginMessage(c, a)
      BY <3>1
    <3>. HIDE DEF a
    <3>. QED BY <1>0, <2>1, <3>2, <3>3
  <2>4. CASE BeginCommand(c)
    BY <1>0, <2>1, <2>4 DEF BeginCommand, Call
  <2>. QED BY <1>4, <2>2, <2>3, <2>4 DEF Message
<1>5. ASSUME NEW t \in Threads, Leave(t), UNCHANGED <<armed, clock>>,
             owner' \in {owner, None},
             \/ lock' = None /\ crit' = NoCrit
             \/ UNCHANGED <<lock, crit>> /\ lock = None,
             \A s \in Sides : lastCmd'[s] <= clock,
             \A s \in armed : lastCmd'[s] = lastCmd[s] \/ owner = t
      PROVE  StampInv'
  <2>1. /\ pc' = [pc EXCEPT ![t] = Reenters(t)]
        /\ call' = [call EXCEPT ![t] = NoCall]
    BY <1>5 DEF Leave
  <2>2. Reenters(t) # "wait"
    BY DEF Reenters
  <2>3. crit'.phase = "none"
    BY <1>5 DEF IInv, LockInv, NoCrit
  <2>4. CommandsTimed'
    <3>. SUFFICES ASSUME NEW c \in Clients, owner' = c, pc'[c] = "wait",
                         call'[c].op = "command", NEW s \in armed'
                  PROVE  lastCmd'[s] <= call'[c].now
      OBVIOUS
    <3>1. c # t /\ c # None /\ c \in Threads
      BY <1>0, <2>1, <2>2
    <3>2. pc[c] = "wait" /\ call'[c] = call[c] /\ owner = c
      BY <1>0, <1>5, <2>1, <3>1
    <3>3. lastCmd'[s] = lastCmd[s] /\ s \in armed
      BY <1>5, <3>1, <3>2
    <3>. QED BY <3>2, <3>3 DEF StampInv
  <2>5. \A u \in Threads : call'[u].now <= clock'
    <3>1. NoCall.now = 0
      BY DEF NoCall
    <3>2. \A u \in Threads : call[u].now <= clock /\ 0 <= clock
      BY <1>0 DEF StampInv
    <3>. QED BY <1>0, <1>5, <2>1, <3>1, <3>2
  <2>. QED BY <1>0, <1>5, <2>3, <2>4, <2>5 DEF StampInv
<1>6. ASSUME NEW t \in Threads, Leave(t), 
             UNCHANGED <<owner, armed, lastCmd, clock, lock, crit>>, lock = None
      PROVE  StampInv'
  BY <1>0, <1>5, <1>6 DEF StampInv
<1>7. ASSUME NEW t \in Threads, NEW S \in SUBSET Sides, lock = None, 
             EnterDrop(t, S),
             call[t].op = "expire" => S = Expired(call[t].now)
      PROVE  StampInv'
  <2>1. /\ lock' = t /\ pc' = [pc EXCEPT ![t] = "inside"]
        /\ crit'.phase = "drop" /\ crit'.todo = S /\ crit'.side = {}
        /\ UNCHANGED <<owner, armed, lastCmd, call, clock>>
    BY <1>7 DEF EnterDrop, Enter, NoCrit, leaseVars
  <2>2. CommandsTimed'
    BY <1>0, <2>1 DEF StampInv
  <2>. QED BY <1>0, <1>7, <2>1, <2>2 DEF StampInv, Expired
<1>8. ASSUME NEW t \in Threads, EnterExpire(t) PROVE StampInv'
  <2>1. Expired(call[t].now) \in SUBSET Sides
    BY <1>0 DEF Expired
  <2>. QED BY <1>7, <1>8, <2>1 DEF EnterExpire, Entering
<1>9. ASSUME NEW c \in Clients, EnterDisarm(c) \/ EnterDisconnect(c) 
      PROVE  StampInv'
  <2>1. PICK S \in SUBSET Sides : EnterDrop(c, S)
    BY <1>0, <1>9 DEF EnterDisarm, EnterDisconnect
  <2>2. lock = None /\ call[c].op # "expire" /\ c \in Threads
    BY <1>0, <1>9 DEF EnterDisarm, EnterDisconnect, Entering
  <2>. QED BY <1>7, <2>1, <2>2
<1>10. ASSUME NEW c \in Clients, 
              ArmBusy(c) \/ NotController(c) \/ CommandRejected(c)
       PROVE  StampInv'
  <2>1. /\ Leave(c) /\ lock = None /\ c \in Threads
        /\ UNCHANGED <<owner, armed, lastCmd, clock, lock, crit>>
    BY <1>0, <1>10 DEF ArmBusy, NotController, CommandRejected, Refuse, leaseVars,
                       Entering
  <2>. QED BY <1>6, <2>1
<1>11. ASSUME NEW c \in Clients, CommandAccepted(c) PROVE StampInv'
  <2>1. PICK s \in call[c].sides :
          s \in armed /\ lastCmd' = [lastCmd EXCEPT ![s] = call[c].now]
    BY <1>11 DEF CommandAccepted
  <2>2. \A u \in Sides : lastCmd'[u] <= clock
    BY <1>0, <2>1 DEF StampInv
  <2>3. /\ Leave(c) /\ lock = None /\ c \in Threads /\ owner = c
        /\ UNCHANGED <<owner, armed, clock, lock, crit>>
    BY <1>0, <1>11 DEF CommandAccepted, Entering
  <2>. QED BY <1>5, <2>2, <2>3
<1>12. ASSUME NEW c \in Clients, EnterArm(c) PROVE StampInv'
  <2>1. /\ lock' = c /\ pc' = [pc EXCEPT ![c] = "inside"] /\ owner' = c
        /\ crit'.phase = "arm" /\ crit'.todo = call[c].sides \ armed 
        /\ crit'.side = {}
        /\ UNCHANGED <<armed, lastCmd, call, clock>>
    BY <1>12 DEF EnterArm, Enter, NoCrit
  <2>2. CommandsTimed'
    BY <1>0, <2>1
  <2>. QED BY <1>0, <2>1, <2>2 DEF StampInv
<1>13. ASSUME NEW c \in Clients, ArmDone(c) PROVE StampInv'
  <2>1. /\ Leave(c) /\ lock' = None /\ crit' = NoCrit /\ c \in Threads
        /\ UNCHANGED <<owner, armed, lastCmd, clock>>
    BY <1>0, <1>13 DEF ArmDone, Release, leaseVars
  <2>. QED BY <1>0, <1>5, <2>1 DEF StampInv
<1>14. ASSUME NEW t \in Threads, DropDone(t) PROVE StampInv'
  <2>1. /\ Leave(t) /\ lock' = None /\ crit' = NoCrit 
        /\ owner' \in {owner, None}
        /\ UNCHANGED <<armed, lastCmd, clock>>
    BY <1>14 DEF DropDone, Release
  <2>. QED BY <1>0, <1>5, <2>1 DEF StampInv
<1>15. ASSUME NEW c \in Clients, ArmSide(c) PROVE StampInv'
  <2>1. PICK s \in crit.todo : 
          crit' = [crit EXCEPT !.phase = "arming", !.todo = @ \ {s}, 
                               !.side = {s}]
    BY <1>15 DEF ArmSide
  <2>2. /\ crit.phase = "arm" 
        /\ crit'.phase = "arming" /\ crit'.todo = crit.todo \ {s}
        /\ crit'.side = {s}
        /\ UNCHANGED <<owner, armed, lastCmd, lock, pc, call, clock>>
    BY <1>0, <1>15, <2>1 DEF ArmSide, Holds, leaseVars, Crit
  <2>. QED BY <2>1, <2>2 DEF StampInv
<1>16. ASSUME NEW c \in Clients, ArmSideDone(c) PROVE StampInv'
  <2>1. PICK s \in crit.side :
          /\ armed' = armed \cup {s}
          /\ lastCmd' = [lastCmd EXCEPT ![s] = call[c].now]
          /\ crit' = [crit EXCEPT !.phase = "arm", !.side = {}, 
                                  !.newly = @ \cup {s}]
    BY <1>16 DEF ArmSideDone
  <2>2. /\ lock = c /\ crit.phase = "arming" /\ owner = c /\ pc[c] = "inside"
        /\ crit'.phase = "arm" /\ crit'.todo = crit.todo /\ crit'.side = {}
        /\ UNCHANGED <<owner, lock, pc, call, clock>>
    BY <1>0, <1>16, <2>1 DEF ArmSideDone, Holds, Crit, IInv, MethodInv, LockInv,
                            ArmPhases
  <2>3. s \notin crit'.todo
    BY <1>0, <2>1, <2>2 DEF StampInv
  <2>4. \A u \in Sides : lastCmd'[u] <= clock
    BY <1>0, <2>1 DEF StampInv
  <2>5. CommandsTimed'
    BY <1>0, <2>2
  <2>. QED BY <2>1, <2>2, <2>3, <2>4, <2>5 DEF StampInv
<1>17. ASSUME NEW c \in Clients, 
              ArmSideRaises(c) \/ Cleanup(c) \/ CleanupDone(c)
       PROVE  StampInv'
  <2>1. /\ crit.phase \in {"arming", "cleanup", "cleaning"} /\ lock = c
        /\ crit'.phase \in {"cleanup", "cleaning", "drop"}
        /\ UNCHANGED <<owner, armed, lastCmd, lock, pc, call, clock>>
    BY <1>0, <1>17 DEF ArmSideRaises, Cleanup, CleanupDone, Holds, leaseVars, Crit
  <2>2. call[lock].op = "arm"
    BY <2>1 DEF IInv, MethodInv, ArmPhases
  <2>. QED BY <2>1, <2>2 DEF StampInv
<1>18. ASSUME NEW t \in Threads, DropSide(t) PROVE StampInv'
  <2>1. PICK s \in crit.todo : 
          crit' = [crit EXCEPT !.phase = "dropping", !.todo = @ \ {s}, 
                               !.side = {s}]
    BY <1>18 DEF DropSide
  <2>2. /\ crit.phase = "drop"
        /\ crit'.phase = "dropping" /\ crit'.todo = crit.todo \ {s}
        /\ crit'.side = {s}
        /\ UNCHANGED <<owner, armed, lastCmd, lock, pc, call, clock>>
    BY <1>0, <1>18, <2>1 DEF DropSide, Holds, leaseVars, Crit
  <2>. QED BY <2>1, <2>2 DEF StampInv
<1>19. ASSUME NEW t \in Threads, DropSideDone(t) PROVE StampInv'
  <2>1. /\ crit.phase = "dropping" /\ armed' = armed \ crit.side
        /\ lastCmd' = [s \in Sides |-> IF s \in crit.side THEN Absent
                                                         ELSE lastCmd[s]]
        /\ crit'.phase = "drop" /\ crit'.todo = crit.todo /\ crit'.side = {}
        /\ UNCHANGED <<owner, lock, pc, call, clock>>
    BY <1>0, <1>19 DEF DropSideDone, Holds, Crit
  <2>2. \A s \in armed' : lastCmd'[s] = lastCmd[s] /\ s \in armed
    BY <1>0, <2>1
  <2>3. \A s \in Sides : lastCmd'[s] <= clock
    BY <1>0, <2>1 DEF StampInv
  <2>4. CommandsTimed'
    BY <2>1, <2>2 DEF StampInv
  <2>. QED BY <1>0, <2>1, <2>2, <2>3, <2>4 DEF StampInv
<1>20. ASSUME NEW c \in Clients, Connect(c) \/ EndBatch(c) PROVE StampInv'
  <2>1. /\ \A d \in Clients : pc'[d] = "wait" => pc[d] = "wait"
        /\ UNCHANGED <<owner, armed, lastCmd, lock, call, crit, clock>>
    BY <1>0, <1>20 DEF Connect, EndBatch, leaseVars
  <2>. QED BY <2>1 DEF StampInv
<1>21. ASSUME NEW s \in Sides, HandLoop(s) PROVE StampInv'
  BY <1>21 DEF HandLoop, leaseVars, threadVars, StampInv
<1>22. CASE Tick
  <2>1. clock' = clock + 1 /\ UNCHANGED <<owner, armed, lastCmd, lock, pc, call, crit>>
    BY <1>22 DEF Tick, leaseVars, threadVars
  <2>2. /\ \A s \in Sides : lastCmd'[s] <= clock'
        /\ \A t \in Threads : call'[t].now <= clock'
    BY <1>0, <2>1 DEF StampInv
  <2>. QED BY <2>1, <2>2 DEF StampInv
<1>23. CASE UNCHANGED vars
  BY <1>23 DEF vars, StampInv
<1>24. ASSUME NEW c \in Clients, EnterClient(c) PROVE StampInv'
  BY <1>24, <1>9, <1>10, <1>11, <1>12 DEF EnterClient
<1>25. ASSUME NEW c \in Clients, Arm(c) PROVE StampInv'
  BY <1>25, <1>13, <1>15, <1>16, <1>17 DEF Arm
<1>. QED
  BY <1>2, <1>3, <1>4, <1>8, <1>14, <1>18, <1>19, <1>20, <1>21, <1>22, <1>23,
     <1>24, <1>25 DEF Next, Acquire, Inside, Drop

LEMMA StampsInductive == Spec => []StampInv
<1>1. Init => StampInv
  BY NumberAssumption, ThreadAssumption 
     DEF Init, StampInv, NoCall, NoCrit, Absent, Threads
<1>2. IInv /\ IInv' /\ StampInv /\ [Next]_vars => StampInv'
  BY StampStep
<1>. QED BY <1>1, <1>2, Inductive, PTL DEF Spec

(* The only steps that change the armed set or the stamps.                 *)
LEMMA StampChanges ==
  ASSUME IInv, [Next]_vars
  PROVE  \/ UNCHANGED <<armed, lastCmd>>
         \/ \E c \in Clients : ArmSideDone(c) \/ CommandAccepted(c)
         \/ \E t \in Threads : DropSideDone(t)
<1>1. ASSUME NEW t \in Threads, 
             BeginExpire(t) \/ EnterExpire(t) \/ DropSide(t) \/ DropDone(t)
      PROVE  UNCHANGED <<armed, lastCmd>>
  BY <1>1 DEF BeginExpire, Begin, EnterExpire, EnterDrop, DropSide, DropDone, 
              leaseVars
<1>2. ASSUME NEW c \in Clients, 
             Connect(c) \/ Message(c) \/ EndBatch(c) \/ BeginDisconnect(c)
      PROVE  UNCHANGED <<armed, lastCmd>>
  BY <1>2 DEF Connect, Message, BeginArm, BeginDisarm, BeginCommand, 
              BeginMessage, Begin, EndBatch, BeginDisconnect, leaseVars
<1>3. ASSUME NEW c \in Clients, 
             \/ ArmBusy(c) \/ EnterArm(c) \/ NotController(c)
             \/ EnterDisarm(c) \/ EnterDisconnect(c) \/ CommandRejected(c)
      PROVE  UNCHANGED <<armed, lastCmd>>
  BY <1>3 DEF ArmBusy, EnterArm, NotController, EnterDisarm, EnterDisconnect,
              CommandRejected, Refuse, EnterDrop, leaseVars
<1>4. ASSUME NEW c \in Clients,
             \/ ArmSide(c) \/ ArmSideRaises(c) \/ Cleanup(c)
             \/ CleanupDone(c) \/ ArmDone(c)
      PROVE  UNCHANGED <<armed, lastCmd>>
  BY <1>4 DEF ArmSide, ArmSideRaises, Cleanup, CleanupDone, ArmDone, leaseVars
<1>5. ASSUME NEW s \in Sides, HandLoop(s) PROVE UNCHANGED <<armed, lastCmd>>
  BY <1>5 DEF HandLoop, leaseVars
<1>6. CASE Tick \/ UNCHANGED vars
  BY <1>6 DEF Tick, vars, leaseVars
<1>. QED BY <1>1, <1>2, <1>3, <1>4, <1>5, <1>6 
         DEF Next, Acquire, Inside, EnterClient, Drop, Arm

(***************************************************************************)
(* The deadman stamp of an armed side never moves back.                    *)
(***************************************************************************)
THEOREM StampMonotonic == Spec => StampNeverBack
<1>1. ASSUME IInv, StampInv, [Next]_vars, NEW s \in armed \cap armed'
      PROVE  lastCmd'[s] >= lastCmd[s]
  <2>1. s \in Sides /\ lastCmd[s] \in Int /\ Clients \subseteq Threads
    BY <1>1 DEF IInv, TypeOK, Absent, Threads
  <2>2. ASSUME NEW c \in Clients, ArmSideDone(c) PROVE lastCmd'[s] = lastCmd[s]
    <3>1. PICK u \in crit.side : lastCmd' = [lastCmd EXCEPT ![u] = call[c].now]
      BY <2>2 DEF ArmSideDone
    <3>2. crit.phase = "arming"
      BY <2>2 DEF ArmSideDone, Holds
    <3>3. u # s
      BY <1>1, <3>1, <3>2 DEF StampInv
    <3>. QED BY <1>1, <2>1, <3>1, <3>3 DEF IInv, TypeOK
  <2>3. ASSUME NEW c \in Clients, CommandAccepted(c) 
        PROVE  lastCmd'[s] >= lastCmd[s]
    <3>1. PICK u \in call[c].sides : lastCmd' = [lastCmd EXCEPT ![u] = call[c].now]
      BY <2>3 DEF CommandAccepted
    <3>2. lastCmd[s] <= call[c].now /\ call[c].now \in Int
      BY <1>1, <2>1, <2>3 DEF StampInv, CommandAccepted, Entering, IInv, TypeOK, Call
    <3>. QED BY <1>1, <2>1, <3>1, <3>2 DEF IInv, TypeOK
  <2>4. ASSUME NEW t \in Threads, DropSideDone(t) PROVE lastCmd'[s] = lastCmd[s]
    BY <1>1, <2>1, <2>4 DEF DropSideDone
  <2>. QED BY <1>1, <2>1, <2>2, <2>3, <2>4, StampChanges
<1>2. IInv /\ StampInv /\ [Next]_vars => 
        [\A s \in armed \cap armed' : lastCmd'[s] >= lastCmd[s]]_vars
  BY <1>1
<1>. QED BY <1>2, Inductive, StampsInductive, PTL DEF Spec, StampNeverBack

(***************************************************************************)
(* DropInv is inductive relative to IInv.                                  *)
(***************************************************************************)
LEMMA DropInvStep ==
  ASSUME IInv, IInv', DropInv, [Next]_vars
  PROVE  DropInv'
<1>. USE ThreadAssumption
<1>0. /\ crit \in Crit /\ crit' \in Crit /\ lock \in Threads \cup {None}
      /\ call \in [Threads -> Call] /\ armed \in SUBSET Sides
      /\ lastCmd \in [Sides -> Nat \cup {Absent}]
      /\ Clients \subseteq Threads
      /\ lock = None <=> crit.phase = "none"
      /\ \A t \in Threads : pc[t] = "inside" <=> lock = t
  BY DEF IInv, TypeOK, LockInv, Threads
<1>1. ASSUME lock' = None PROVE DropInv'
  <2>1. crit'.phase = "none"
    BY <1>1 DEF IInv, LockInv
  <2>. QED BY <2>1 DEF DropInv, ArmPhases
<1>2. ASSUME UNCHANGED <<owner, armed, lastCmd, lock, crit>>,
             lock # None => call'[lock] = call[lock]
      PROVE  DropInv'
  <2>1. CASE lock = None
    BY <1>1, <1>2, <2>1
  <2>2. CASE lock # None
    BY <1>2, <2>2 DEF DropInv
  <2>. QED BY <2>1, <2>2
<1>3. ASSUME NEW t \in Threads, NEW a, Begin(t, a), pc[t] # "inside"
      PROVE  DropInv'
  <2>1. /\ UNCHANGED <<owner, armed, lastCmd, lock, crit>>
        /\ call' = [call EXCEPT ![t] = a]
    BY <1>3 DEF Begin, leaseVars
  <2>2. lock # None => call'[lock] = call[lock]
    BY <1>0, <1>3, <2>1
  <2>. QED BY <1>2, <2>1, <2>2
<1>4. ASSUME NEW t \in Threads, BeginExpire(t) PROVE DropInv'
  BY <1>3, <1>4 DEF BeginExpire
<1>5. ASSUME NEW c \in Clients, Message(c) \/ BeginDisconnect(c) PROVE DropInv'
  BY <1>0, <1>3, <1>5 DEF Message, BeginArm, BeginDisarm, BeginCommand, 
     BeginMessage, BeginDisconnect
<1>6. ASSUME NEW c \in Clients, Connect(c) \/ EndBatch(c) PROVE DropInv'
  BY <1>2, <1>6 DEF Connect, EndBatch, leaseVars
<1>7. ASSUME NEW s \in Sides, HandLoop(s) PROVE DropInv'
  BY <1>2, <1>7 DEF HandLoop, leaseVars, threadVars
<1>8. CASE Tick \/ UNCHANGED vars
  BY <1>2, <1>8 DEF Tick, vars, leaseVars, threadVars
<1>9. ASSUME NEW c \in Clients,
             \/ ArmBusy(c) \/ NotController(c) \/ CommandRejected(c)
             \/ CommandAccepted(c) \/ ArmDone(c)
      PROVE  DropInv'
  <2>1. lock' = None
    BY <1>9 DEF ArmBusy, NotController, CommandRejected, CommandAccepted, ArmDone,
       Refuse, Entering, Release
  <2>. QED BY <1>1, <2>1
<1>10. ASSUME NEW t \in Threads, DropDone(t) PROVE DropInv'
  BY <1>1, <1>10 DEF DropDone, Release
<1>11. ASSUME NEW c \in Clients, EnterArm(c) PROVE DropInv'
  <2>1. /\ lock' = c /\ call' = call /\ crit'.phase = "arm"
        /\ crit'.todo \subseteq call[c].sides
        /\ crit'.side = {} /\ crit'.newly = {}
    BY <1>11 DEF EnterArm, Enter, NoCrit
  <2>. QED BY <2>1 DEF DropInv, ArmPhases
<1>12. ASSUME NEW t \in Threads, NEW S, EnterDrop(t, S),
              call[t].op # "expire" => owner = t /\ call[t].op # "arm",
              call[t].op \notin {"expire", "disconnect"} => S \subseteq call[t].sides
       PROVE  DropInv'
  <2>1. /\ lock' = t /\ call' = call /\ owner' = owner /\ crit'.phase = "drop"
        /\ crit'.todo = S /\ crit'.side = {}
    BY <1>12 DEF EnterDrop, Enter, NoCrit, leaseVars
  <2>. QED BY <1>12, <2>1 DEF DropInv, ArmPhases
<1>13. ASSUME NEW t \in Threads, EnterExpire(t) PROVE DropInv'
  BY <1>12, <1>13 DEF EnterExpire, Entering
<1>14. ASSUME NEW c \in Clients, EnterDisarm(c) \/ EnterDisconnect(c)
       PROVE  DropInv'
  BY <1>0, <1>12, <1>14 DEF EnterDisarm, EnterDisconnect, Entering
<1>15. ASSUME NEW c \in Clients, ArmSide(c) PROVE DropInv'
  <2>1. PICK s \in crit.todo :
          crit' = [crit EXCEPT !.phase = "arming", !.todo = @ \ {s}, !.side = {s}]
    BY <1>15 DEF ArmSide
  <2>2. /\ crit'.phase = "arming" /\ crit'.todo = crit.todo \ {s} 
        /\ crit'.side = {s} /\ crit'.newly = crit.newly
    BY <1>0, <2>1 DEF Crit
  <2>3. crit.phase = "arm" /\ UNCHANGED <<owner, armed, lastCmd, lock, call>>
    BY <1>15 DEF ArmSide, Holds, leaseVars
  <2>. QED BY <2>1, <2>2, <2>3 DEF DropInv, ArmPhases
<1>16. ASSUME NEW c \in Clients, ArmSideDone(c) PROVE DropInv'
  <2>1. PICK s \in crit.side :
          /\ lastCmd' = [lastCmd EXCEPT ![s] = call[c].now]
          /\ crit' = [crit EXCEPT !.phase = "arm", !.side = {}, 
                                  !.newly = @ \cup {s}]
    BY <1>16 DEF ArmSideDone
  <2>2. /\ crit'.phase = "arm" /\ crit'.todo = crit.todo
        /\ crit'.side = {} /\ crit'.newly = crit.newly \cup {s}
    BY <1>0, <2>1 DEF Crit
  <2>3. crit.phase = "arming" /\ lock = c /\ UNCHANGED <<owner, lock, call>>
    BY <1>16 DEF ArmSideDone, Holds
  <2>4. s \in Sides /\ crit.newly \subseteq Sides
    BY <1>0, <2>1 DEF Crit
  <2>5. \A u \in crit'.newly : lastCmd'[u] = call'[lock'].now
    BY <1>0, <2>1, <2>2, <2>3, <2>4 DEF DropInv, ArmPhases
  <2>. QED BY <2>1, <2>2, <2>3, <2>5 DEF DropInv, ArmPhases
<1>17. ASSUME NEW c \in Clients, ArmSideRaises(c) \/ Cleanup(c) PROVE DropInv'
  <2>1. /\ crit'.phase \in {"cleanup", "cleaning"} /\ crit'.todo = crit.todo
        /\ crit'.side = crit.side /\ crit'.newly = crit.newly
    BY <1>0, <1>17 DEF ArmSideRaises, Cleanup, Crit
  <2>2. /\ crit.phase \in {"arming", "cleanup"} 
        /\ UNCHANGED <<owner, armed, lastCmd, lock, call>>
    BY <1>17 DEF ArmSideRaises, Cleanup, Holds, leaseVars
  <2>. QED BY <2>1, <2>2 DEF DropInv, ArmPhases
<1>18. ASSUME NEW c \in Clients, CleanupDone(c) PROVE DropInv'
  <2>1. /\ crit'.phase = "drop" /\ crit'.todo = crit.newly /\ crit'.side = {}
        /\ crit.phase = "cleaning"
        /\ UNCHANGED <<owner, armed, lastCmd, lock, call>>
    BY <1>18 DEF CleanupDone, Holds, leaseVars
  <2>2. owner = lock /\ call[lock].op = "arm"
    BY <2>1 DEF IInv, MethodInv, ArmPhases
  <2>. QED BY <2>1, <2>2 DEF DropInv, ArmPhases
<1>19. ASSUME NEW t \in Threads, DropSide(t) PROVE DropInv'
  <2>1. PICK s \in crit.todo :
          crit' = [crit EXCEPT !.phase = "dropping", !.todo = @ \ {s}, !.side = {s}]
    BY <1>19 DEF DropSide
  <2>2. crit'.phase = "dropping" /\ crit'.todo \cup crit'.side = crit.todo
    BY <1>0, <2>1 DEF Crit
  <2>3. /\ crit.phase = "drop" 
        /\ UNCHANGED <<owner, armed, lastCmd, lock, call>>
    BY <1>19 DEF DropSide, Holds, leaseVars
  <2>. QED BY <2>2, <2>3 DEF DropInv, ArmPhases
<1>20. ASSUME NEW t \in Threads, DropSideDone(t) PROVE DropInv'
  <2>1. crit'.phase = "drop" /\ crit'.todo = crit.todo /\ crit'.side = {}
    BY <1>0, <1>20 DEF DropSideDone, Crit
  <2>2. /\ crit.phase = "dropping" /\ UNCHANGED <<owner, lock, call>>
        /\ armed' = armed \ crit.side
    BY <1>20 DEF DropSideDone, Holds
  <2>3. \A s \in armed' : s \in armed /\ lastCmd'[s] = lastCmd[s]
    BY <1>0, <1>20, <2>2 DEF DropSideDone
  <2>. QED BY <2>1, <2>2, <2>3 DEF DropInv, ArmPhases
<1>. QED
  BY <1>4, <1>5, <1>6, <1>7, <1>8, <1>9, <1>10, <1>11, <1>13, <1>14, <1>15, <1>16,
     <1>17, <1>18, <1>19, <1>20
     DEF Next, Acquire, Inside, EnterClient, Drop, Arm

LEMMA DropsInductive == Spec => []DropInv
<1>1. Init => DropInv
  BY DEF Init, DropInv, ArmPhases, NoCrit
<1>2. IInv /\ IInv' /\ DropInv /\ [Next]_vars => DropInv'
  BY DropInvStep
<1>. QED BY <1>1, <1>2, Inductive, PTL DEF Spec

(***************************************************************************)
(* An armed side is dropped by a call of the lease's holder that is about  *)
(* this side, or by a deadman that is due as reckoned from the beginning   *)
(* of the handling of the side's last arm or command.                      *)
(***************************************************************************)
THEOREM DropsAreRight == Spec => DroppedByRight
<1>1. ASSUME IInv, StampInv, DropInv, [Next]_vars, NEW s \in armed \ armed'
      PROVE  IF call[lock].op = "expire"
             THEN clock - lastCmd[s] >= Timeout
             ELSE /\ lock = owner
                  /\ call[lock].op # "disconnect" => s \in call[lock].sides
                  /\ call[lock].op = "arm" => lastCmd[s] = call[lock].now
  <2>1. s \in Sides /\ lastCmd[s] \in Int /\ clock \in Int /\ Timeout \in Int
    BY <1>1, NumberAssumption DEF IInv, TypeOK, Absent
  <2>2. PICK t \in Threads : DropSideDone(t)
    BY <1>1, StampChanges DEF ArmSideDone, CommandAccepted
  <2>3. crit.phase = "dropping" /\ lock = t /\ s \in crit.side /\ s \in armed
    BY <1>1, <2>2 DEF DropSideDone, Holds
  <2>4. CASE call[lock].op = "expire"
    <3>1. call[lock].now - lastCmd[s] >= Timeout /\ call[lock].now <= clock
          /\ call[lock].now \in Int
      BY <1>1, <2>3, <2>4 DEF StampInv, IInv, TypeOK, Call
    <3>. QED BY <2>1, <2>4, <3>1
  <2>5. CASE call[lock].op # "expire"
    BY <1>1, <2>3, <2>5 DEF DropInv
  <2>. QED BY <2>4, <2>5
<1>2. IInv /\ StampInv /\ DropInv /\ [Next]_vars => 
        [\A s \in armed \ armed' : 
           IF call[lock].op = "expire"
           THEN clock - lastCmd[s] >= Timeout
           ELSE /\ lock = owner
                /\ call[lock].op # "disconnect" => s \in call[lock].sides
                /\ call[lock].op = "arm" => lastCmd[s] = call[lock].now]_vars
  BY <1>1
<1>. QED BY <1>2, Inductive, StampsInductive, DropsInductive, PTL 
         DEF Spec, DroppedByRight

-----------------------------------------------------------------------------
(* The replay windows and the numbers that commands carry.                 *)
LEMMA WindowStep ==
  ASSUME IInv, WindowInv, [Next]_vars
  PROVE  WindowInv'
<1>. USE ThreadAssumption
<1>. DEFINE Carried == 
       \A c \in Clients : 
         call[c].op = "command" => call[c].seq \in Seqs /\ call[c].stamp \in Stamps
<1>0. /\ call \in [Threads -> Call] /\ Clients \subseteq Threads /\ crit \in Crit
      /\ lock = None <=> crit.phase = "none"
  BY DEF IInv, TypeOK, Threads, LockInv
<1>1. ASSUME NEW t \in Threads, NEW a, Begin(t, a),
             a.op = "command" => a.seq \in Seqs /\ a.stamp \in Stamps
      PROVE  WindowInv'
  BY <1>0, <1>1 DEF Begin, leaseVars, WindowInv
<1>2. ASSUME NEW t \in Threads, BeginExpire(t) PROVE WindowInv'
  BY <1>1, <1>2 DEF BeginExpire, NoCall
<1>3. ASSUME NEW c \in Clients, BeginDisconnect(c) PROVE WindowInv'
  BY <1>0, <1>1, <1>3 DEF BeginDisconnect, NoCall
<1>4. ASSUME NEW c \in Clients, Message(c) PROVE WindowInv'
  <2>1. ASSUME NEW a, BeginMessage(c, a),
               a.op = "command" => a.seq \in Seqs /\ a.stamp \in Stamps
        PROVE  WindowInv'
    BY <1>0, <1>1, <2>1 DEF BeginMessage
  <2>. QED BY <1>4, <2>1 DEF Message, BeginArm, BeginDisarm, BeginCommand, NoCall
<1>5. ASSUME NEW t \in Threads, Leave(t)
      PROVE  Carried => Carried'
  BY <1>0, <1>5 DEF Leave, NoCall
<1>6. ASSUME NEW t \in Threads,
             \/ EnterExpire(t) \/ DropSide(t) \/ DropSideDone(t) \/ DropDone(t)
      PROVE  WindowInv'
  <2>1. Carried'
    BY <1>0, <1>5, <1>6 DEF EnterExpire, EnterDrop, DropSide, DropSideDone, DropDone,
                      Release, WindowInv
  <2>2. crit'.phase \notin {"arm", "arming"}
    <3>1. CASE EnterExpire(t)
      BY <3>1 DEF EnterExpire, EnterDrop, Enter, NoCrit
    <3>2. CASE DropSide(t)
      BY <1>0, <3>2 DEF DropSide, Crit
    <3>3. CASE DropSideDone(t)
      BY <1>0, <3>3 DEF DropSideDone, Crit
    <3>4. CASE DropDone(t)
      BY <3>4 DEF DropDone, Release, NoCrit
    <3>. QED BY <1>6, <3>1, <3>2, <3>3, <3>4
  <2>. QED BY <2>1, <2>2 DEF WindowInv
<1>7. ASSUME NEW c \in Clients,
             \/ EnterDisarm(c) \/ EnterDisconnect(c)
             \/ ArmSideRaises(c) \/ Cleanup(c) \/ CleanupDone(c) \/ ArmDone(c)
      PROVE  WindowInv'
  <2>1. Carried'
    BY <1>0, <1>5, <1>7 DEF EnterDisarm, EnterDisconnect, EnterDrop, ArmSideRaises,
                      Cleanup, CleanupDone, ArmDone, Release, WindowInv
  <2>2. crit'.phase \notin {"arm", "arming"}
    <3>1. CASE EnterDisarm(c) \/ EnterDisconnect(c)
      BY <3>1 DEF EnterDisarm, EnterDisconnect, EnterDrop, Enter, NoCrit
    <3>2. CASE ArmSideRaises(c) \/ Cleanup(c)
      BY <1>0, <3>2 DEF ArmSideRaises, Cleanup, Crit
    <3>3. CASE CleanupDone(c)
      BY <3>3 DEF CleanupDone
    <3>4. CASE ArmDone(c)
      BY <3>4 DEF ArmDone, Release, NoCrit
    <3>. QED BY <1>7, <3>1, <3>2, <3>3, <3>4
  <2>. QED BY <2>1, <2>2 DEF WindowInv
<1>8. ASSUME NEW c \in Clients,
             \/ ArmBusy(c) \/ NotController(c) \/ CommandRejected(c)
             \/ CommandAccepted(c)
      PROVE  WindowInv'
  <2>1. Leave(c) /\ UNCHANGED crit /\ lock = None
    BY <1>8 DEF ArmBusy, NotController, CommandRejected, CommandAccepted, Refuse,
                Entering
  <2>. QED BY <1>0, <1>5, <2>1 DEF WindowInv
<1>9. ASSUME NEW c \in Clients, EnterArm(c) PROVE WindowInv'
  <2>1. /\ armed' = armed /\ call' = call /\ lock = None
        /\ owner = None => 
             /\ lastSeq' = [s \in Sides |-> Absent]
             /\ lastT' = [s \in Sides |-> Absent]
    BY <1>9 DEF EnterArm, Entering
  <2>2. armed = {} => owner = None
    BY <2>1 DEF IInv, LeaseInv
  <2>. QED BY <2>1, <2>2 DEF WindowInv
<1>10. ASSUME NEW c \in Clients, ArmSide(c) \/ ArmSideDone(c) PROVE WindowInv'
  <2>1. /\ crit.phase \in {"arm", "arming"}
        /\ armed \subseteq armed'
        /\ UNCHANGED <<call, lastSeq, lastT>>
    BY <1>10 DEF ArmSide, ArmSideDone, Holds, leaseVars
  <2>. QED BY <2>1 DEF WindowInv
<1>11. ASSUME NEW c \in Clients, Connect(c) \/ EndBatch(c) PROVE WindowInv'
  BY <1>11 DEF Connect, EndBatch, leaseVars, WindowInv
<1>12. ASSUME NEW s \in Sides, HandLoop(s) PROVE WindowInv'
  BY <1>12 DEF HandLoop, leaseVars, threadVars, WindowInv
<1>13. CASE Tick \/ UNCHANGED vars
  BY <1>13 DEF Tick, vars, leaseVars, threadVars, WindowInv
<1>. QED
  BY <1>2, <1>3, <1>4, <1>6, <1>7, <1>8, <1>9, <1>10, <1>11, <1>12, <1>13
     DEF Next, Acquire, Inside, EnterClient, Drop, Arm

LEMMA WindowsInductive == Spec => []WindowInv
<1>1. Init => WindowInv
  BY ThreadAssumption DEF Init, WindowInv, NoCall, NoCrit, Threads
<1>2. IInv /\ WindowInv /\ [Next]_vars => WindowInv'
  BY WindowStep
<1>. QED BY <1>1, <1>2, Inductive, PTL DEF Spec

(* The lease as ControlLease sees it.                                      *)
holderBar == IF armed = {} THEN None ELSE owner
windowBar == [s \in Sides |-> IF armed = {}
                              THEN [seq |-> Absent, stamp |-> Absent]
                              ELSE [seq |-> lastSeq[s], stamp |-> lastT[s]]]

(* Every other step leaves the lease as it is.                             *)
LEMMA LeaseChanges ==
  ASSUME IInv, [Next]_vars
  PROVE  \/ UNCHANGED <<holderBar, armed, windowBar>>
         \/ \E c \in Clients : ArmSideDone(c) \/ CommandAccepted(c)
         \/ \E t \in Threads : DropSideDone(t)
<1>1. CASE UNCHANGED leaseVars
  BY <1>1 DEF leaseVars, holderBar, windowBar
<1>2. ASSUME NEW c \in Clients, EnterArm(c) 
      PROVE  UNCHANGED <<holderBar, armed, windowBar>>
  <2>1. armed' = armed /\ (armed # {} => owner # None)
    BY <1>2 DEF EnterArm, IInv, LeaseInv
  <2>2. CASE armed = {}
    BY <2>1, <2>2 DEF holderBar, windowBar
  <2>3. CASE armed # {}
    <3>1. owner' = owner /\ lastSeq' = lastSeq /\ lastT' = lastT
      BY <1>2, <2>1, <2>3 DEF EnterArm
    <3>. QED BY <2>1, <3>1 DEF holderBar, windowBar
  <2>. QED BY <2>2, <2>3
<1>3. ASSUME NEW t \in Threads, DropDone(t) 
      PROVE  UNCHANGED <<holderBar, armed, windowBar>>
  <2>1. call[t].op = "disconnect" => armed = {}
    BY <1>3 DEF DropDone, Holds, IInv, MethodInv
  <2>. QED BY <1>3, <2>1 DEF DropDone, holderBar, windowBar
<1>4. ASSUME NEW t \in Threads, BeginExpire(t) \/ EnterExpire(t) \/ DropSide(t)
      PROVE  UNCHANGED leaseVars
  BY <1>4 DEF BeginExpire, Begin, EnterExpire, EnterDrop, DropSide
<1>5. ASSUME NEW c \in Clients, 
             Connect(c) \/ Message(c) \/ EndBatch(c) \/ BeginDisconnect(c)
      PROVE  UNCHANGED leaseVars
  BY <1>5 DEF Connect, Message, BeginArm, BeginDisarm, BeginCommand, 
              BeginMessage, Begin, EndBatch, BeginDisconnect
<1>6. ASSUME NEW c \in Clients, 
             \/ ArmBusy(c) \/ NotController(c)
             \/ EnterDisarm(c) \/ EnterDisconnect(c) \/ CommandRejected(c)
      PROVE  UNCHANGED leaseVars
  BY <1>6 DEF ArmBusy, NotController, EnterDisarm, EnterDisconnect,
              CommandRejected, Refuse, EnterDrop
<1>7. ASSUME NEW c \in Clients,
             \/ ArmSide(c) \/ ArmSideRaises(c) \/ Cleanup(c)
             \/ CleanupDone(c) \/ ArmDone(c)
      PROVE  UNCHANGED leaseVars
  BY <1>7 DEF ArmSide, ArmSideRaises, Cleanup, CleanupDone, ArmDone
<1>8. ASSUME NEW s \in Sides, HandLoop(s) PROVE UNCHANGED leaseVars
  BY <1>8 DEF HandLoop
<1>9. CASE Tick \/ UNCHANGED vars
  BY <1>1, <1>9 DEF Tick, vars, leaseVars
<1>. QED BY <1>1, <1>2, <1>3, <1>4, <1>5, <1>6, <1>7, <1>8, <1>9
         DEF Next, Acquire, Inside, EnterClient, Drop, Arm

(***************************************************************************)
(* The authority implements the abstract lease: one holder, exactly while  *)
(* a side is armed, and commands with increasing numbers and stamps.       *)
(***************************************************************************)
THEOREM Implementation == Spec => ImplementsLease
<1>. USE ThreadAssumption
<1>1. Init => Lease!Init
  BY DEF Init, Lease!Init, Lease!NewWindow
<1>2. ASSUME IInv, StampInv, WindowInv, [Next]_vars
      PROVE  [Lease!Next]_(Lease!vars)
  <2>0. /\ armed \in SUBSET Sides /\ Clients \subseteq Threads
        /\ armed # {} => owner # None
        /\ call \in [Threads -> Call]
        /\ lastSeq \in [Sides -> Nat \cup {Absent}]
        /\ lastT \in [Sides -> Nat \cup {Absent}]
    BY <1>2 DEF IInv, TypeOK, LeaseInv, Threads
  <2>1. CASE UNCHANGED <<holderBar, armed, windowBar>>
    BY <2>1 DEF Lease!vars, holderBar, windowBar
  <2>2. ASSUME NEW c \in Clients, ArmSideDone(c) PROVE Lease!Next
    <3>1. PICK s \in crit.side : armed' = armed \cup {s}
      BY <2>2 DEF ArmSideDone
    <3>2. /\ crit.phase = "arming" /\ owner = c
          /\ UNCHANGED <<owner, lastSeq, lastT>>
      BY <1>2, <2>2 DEF ArmSideDone, Holds, IInv, MethodInv, ArmPhases
    <3>3. s \in Sides /\ s \notin armed
      BY <1>2, <3>1, <3>2 DEF StampInv, IInv, TypeOK, Crit
    <3>4. windowBar' = windowBar
      BY <1>2, <3>1, <3>2 DEF WindowInv, windowBar
    <3>5. Lease!Grant(c, s)
      BY <3>1, <3>2, <3>3, <3>4 DEF Lease!Grant, windowBar
    <3>. QED BY <3>3, <3>5 DEF Lease!Next
  <2>3. ASSUME NEW t \in Threads, DropSideDone(t) 
        PROVE  Lease!Next \/ UNCHANGED <<holderBar, armed, windowBar>>
    <3>1. /\ armed' = armed \ crit.side /\ crit.phase = "dropping"
          /\ UNCHANGED <<owner, lastSeq, lastT>>
      BY <2>3 DEF DropSideDone, Holds
    <3>2. PICK s \in Sides : crit.side = {s}
      BY <1>2, <3>1 DEF IInv, MethodInv
    <3>3. CASE s \in armed
      <4>1. Lease!Revoke(s)
        BY <3>1, <3>2, <3>3 DEF Lease!Revoke, Lease!NewWindow
      <4>. QED BY <4>1 DEF Lease!Next
    <3>4. CASE s \notin armed
      <4>1. armed' = armed
        BY <3>1, <3>2, <3>4
      <4>. QED BY <3>1, <4>1 DEF holderBar, windowBar
    <3>. QED BY <3>3, <3>4
  <2>4. ASSUME NEW c \in Clients, CommandAccepted(c) PROVE Lease!Next
    <3>1. PICK s \in call[c].sides :
            /\ s \in armed
            /\ Fresh(s, call[c])
            /\ lastSeq' = [lastSeq EXCEPT ![s] = call[c].seq]
            /\ lastT' = [lastT EXCEPT ![s] = call[c].stamp]
      BY <2>4 DEF CommandAccepted
    <3>2. /\ owner = c /\ call[c].op = "command"
          /\ UNCHANGED <<owner, armed>>
      BY <2>4 DEF CommandAccepted, Entering
    <3>3. /\ s \in Sides /\ armed # {}
          /\ call[c].seq \in Seqs /\ call[c].stamp \in Stamps
          /\ call[c].seq > lastSeq[s] /\ call[c].stamp > lastT[s]
      BY <1>2, <2>0, <3>1, <3>2 DEF WindowInv, Fresh
    <3>4. windowBar' = [windowBar EXCEPT 
                          ![s] = [seq |-> call[c].seq, stamp |-> call[c].stamp]]
      BY <2>0, <3>1, <3>2, <3>3 DEF windowBar
    <3>5. windowBar[s].seq = lastSeq[s] /\ windowBar[s].stamp = lastT[s]
      BY <3>3 DEF windowBar
    <3>6. Lease!Accept(c, s)
      BY <3>1, <3>2, <3>3, <3>4, <3>5 DEF Lease!Accept, windowBar
    <3>. QED BY <3>3, <3>6 DEF Lease!Next
  <2>. QED BY <1>2, <2>1, <2>2, <2>3, <2>4, LeaseChanges
<1>. QED BY <1>1, <1>2, Inductive, StampsInductive, WindowsInductive, PTL
         DEF Spec, ImplementsLease, Lease!Spec

=============================================================================
