-------------------------- MODULE ControlAuthority --------------------------
(***************************************************************************)
(* ControlAuthority of bridge/wuji_manus_bridge/control.py: the lease of   *)
(* the single controlling client, the set of armed sides, the replay       *)
(* windows and the command deadman, under one lock, as the threads that    *)
(* call it see it.                                                         *)
(*                                                                         *)
(* The callers are the session threads (one per client) and the watchdog.  *)
(* arm, accept_command and expire read the clock BEFORE they take the      *)
(* lock; every set_enabled call inside the lock is a call and a return,    *)
(* with time and the hand's control loop running between them.             *)
(***************************************************************************)
EXTENDS Integers, FiniteSets, ControllableHand

CONSTANTS 
  Clients,    \* the client sessions
  Watchdog,   \* the server's deadman thread
  Sides,      \* the hands
  None,       \* no owner; no lock holder
  Timeout,    \* command_timeout_s, in clock ticks
  MaxAge,     \* max_command_age_ms, in clock ticks
  MaxSkew,    \* max_future_skew_ms, in clock ticks
  Seqs,       \* sequence numbers that commands carry
  Stamps,     \* t_ms stamps that commands carry
  MaxBatch,   \* bound: messages a session takes from one recv
  MaxClock    \* bound: ticks of the clock

ASSUME ThreadAssumption ==
  /\ Watchdog \notin Clients
  /\ None \notin Clients \cup {Watchdog}

ASSUME NumberAssumption ==
  /\ Timeout \in Nat \ {0}
  /\ MaxAge \in Nat
  /\ MaxSkew \in Nat
  /\ Seqs \subseteq Nat
  /\ Stamps \subseteq Nat
  /\ MaxBatch \in Nat \ {0}
  /\ MaxClock \in Nat

Threads == Clients \cup {Watchdog}

(* A missing entry of a dictionary.  It is smaller than every entry.       *)
Absent == -1

VARIABLES
  owner,     \* _owner
  armed,     \* _armed
  lastCmd,   \* _last_command_monotonic
  lastSeq,   \* _last_seq
  lastT,     \* _last_t_ms
  lock,      \* the thread that holds _lock
  pc,        \* where each thread is in its loop
  left,      \* messages a session may still take from its buffer
  call,      \* the method each thread is in, with its arguments
  crit,      \* locals of the method that holds the lock
  hand,      \* the hand workers
  clock      \* time.monotonic(), and the client's wall clock

leaseVars == <<owner, armed, lastCmd, lastSeq, lastT>>
threadVars == <<lock, pc, left, call, crit>>
vars == <<owner, armed, lastCmd, lastSeq, lastT, lock, pc, left, call, crit,
          hand, clock>>

-----------------------------------------------------------------------------
(* resolve_sides yields one side or all of them; arm refuses an empty list *)
(* before it does anything else.                                           *)
Targets == ({{s} : s \in Sides} \cup {Sides}) \ {{}}

Call == [op    : {"none", "arm", "disarm", "command", "expire", "disconnect"},
         sides : SUBSET Sides,
         seq   : Nat,
         stamp : Nat,
         now   : Nat]

NoCall == [op |-> "none", sides |-> {}, seq |-> 0, stamp |-> 0, now |-> 0]

(* The locals of a method inside the lock: the phase it is in, the sides   *)
(* it still has to treat, the side whose set_enabled is under way, and the *)
(* sides that this arm has armed so far (newly_armed).                     *)
Phases == {"none", "arm", "arming", "cleanup", "cleaning", "drop", "dropping"}

Crit == [phase : Phases, todo : SUBSET Sides, side : SUBSET Sides,
         newly : SUBSET Sides]

NoCrit == [phase |-> "none", todo |-> {}, side |-> {}, newly |-> {}]

TypeOK ==
  /\ owner \in Clients \cup {None}
  /\ armed \in SUBSET Sides
  /\ lastCmd \in [Sides -> Nat \cup {Absent}]
  /\ lastSeq \in [Sides -> Nat \cup {Absent}]
  /\ lastT \in [Sides -> Nat \cup {Absent}]
  /\ lock \in Threads \cup {None}
  /\ pc \in [Threads -> {"gone", "loop", "ready", "wait", "inside"}]
  /\ left \in [Clients -> 0 .. MaxBatch]
  /\ call \in [Threads -> Call]
  /\ crit \in Crit
  /\ hand \in [Sides -> Hand]
  /\ clock \in Nat

Init ==
  /\ owner = None
  /\ armed = {}
  /\ lastCmd = [s \in Sides |-> Absent]
  /\ lastSeq = [s \in Sides |-> Absent]
  /\ lastT = [s \in Sides |-> Absent]
  /\ lock = None
  /\ pc = [t \in Threads |-> IF t = Watchdog THEN "loop" ELSE "gone"]
  /\ left = [c \in Clients |-> 0]
  /\ call = [t \in Threads |-> NoCall]
  /\ crit = NoCrit
  /\ hand = [s \in Sides |-> ColdHand]
  /\ clock = 0

-----------------------------------------------------------------------------
(* The threads outside the lock.                                           *)

(* A client connects: a fresh session object starts its loop.              *)
Connect(c) ==
  /\ pc[c] = "gone"
  /\ pc' = [pc EXCEPT ![c] = "loop"]
  /\ UNCHANGED <<leaseVars, lock, left, call, crit, hand, clock>>

(* Thread t calls a method; a is what it has evaluated before the lock.    *)
Begin(t, a) ==
  /\ pc' = [pc EXCEPT ![t] = "wait"]
  /\ call' = [call EXCEPT ![t] = a]
  /\ UNCHANGED <<leaseVars, lock, crit, hand, clock>>

(* The watchdog, and every session at the top of its loop, call expire     *)
(* with the time they have just read.                                      *)
BeginExpire(t) ==
  /\ pc[t] = "loop"
  /\ Begin(t, [NoCall EXCEPT !.op = "expire", !.now = clock])
  /\ UNCHANGED left

(* Mutant: the batch has no end.                                           *)
EndlessBatch(c, a) ==
  /\ pc[c] = "ready"
  /\ left' = [left EXCEPT ![c] = @ - 1]
  /\ Begin(c, a)

(* A session takes one message out of its buffer.                          *)
BeginMessage(c, a) ==
  /\ pc[c] = "ready"
  /\ left[c] > 0
  /\ left' = [left EXCEPT ![c] = @ - 1]
  /\ Begin(c, a)

BeginArm(c) == \E S \in Targets :
  BeginMessage(c, [NoCall EXCEPT !.op = "arm", !.sides = S, !.now = clock])

BeginDisarm(c) == \E S \in Targets :
  BeginMessage(c, [NoCall EXCEPT !.op = "disarm", !.sides = S])

BeginCommand(c) == \E s \in Sides, q \in Seqs, m \in Stamps :
  BeginMessage(c, [op |-> "command", sides |-> {s}, seq |-> q, stamp |-> m,
                   now |-> clock])

(* Nothing more to read: the session goes round its loop.                  *)
EndBatch(c) ==
  /\ pc[c] = "ready"
  /\ pc' = [pc EXCEPT ![c] = "loop"]
  /\ left' = [left EXCEPT ![c] = 0]
  /\ UNCHANGED <<leaseVars, lock, call, crit, hand, clock>>

(* The peer closed, or an answer could not be sent: the session leaves its *)
(* loop.  It has gone through expire at least once.                        *)
BeginDisconnect(c) ==
  /\ pc[c] = "ready"
  /\ left' = [left EXCEPT ![c] = 0]
  /\ Begin(c, [NoCall EXCEPT !.op = "disconnect"])

-----------------------------------------------------------------------------
(* Entering and leaving the lock.                                          *)

Entering(t, op) ==
  /\ lock = None
  /\ pc[t] = "wait"
  /\ call[t].op = op

Enter(t, phase, todo) ==
  /\ lock' = t
  /\ pc' = [pc EXCEPT ![t] = "inside"]
  /\ crit' = [NoCrit EXCEPT !.phase = phase, !.todo = todo]

Reenters(t) ==
  CASE call[t].op = "disconnect" -> "gone"
    [] call[t].op = "expire"     -> IF t = Watchdog THEN "loop" ELSE "ready"
    [] OTHER                     -> "ready"

(* The method returns or raises, and the thread goes on.                   *)
Leave(t) ==
  /\ pc' = [pc EXCEPT ![t] = Reenters(t)]
  /\ call' = [call EXCEPT ![t] = NoCall]
  /\ left' = IF t \in Clients /\ call[t].op = "expire"
             THEN [left EXCEPT ![t] = MaxBatch] ELSE left

Release(t) ==
  /\ Leave(t)
  /\ lock' = None
  /\ crit' = NoCrit

(* A method that finds a reason to refuse, or nothing to do.               *)
Refuse(t) ==
  /\ Leave(t)
  /\ UNCHANGED <<leaseVars, lock, crit, hand, clock>>

-----------------------------------------------------------------------------
(* arm                                                                     *)

ArmBusy(c) ==
  /\ Entering(c, "arm")
  /\ owner \notin {None, c}
  /\ Refuse(c)

(* Mutant: every arm opens new replay windows, not only the lease's first. *)
ArmClearsWindows(c) ==
  /\ Entering(c, "arm")
  /\ owner \in {None, c}
  /\ owner' = c
  /\ lastSeq' = [s \in Sides |-> Absent]
  /\ lastT' = [s \in Sides |-> Absent]
  /\ Enter(c, "arm", call[c].sides \ armed)
  /\ UNCHANGED <<armed, lastCmd, left, call, hand, clock>>

EnterArm(c) ==
  /\ Entering(c, "arm")
  /\ owner \in {None, c}
  /\ owner' = c
  /\ lastSeq' = IF owner = None THEN [s \in Sides |-> Absent] ELSE lastSeq
  /\ lastT' = IF owner = None THEN [s \in Sides |-> Absent] ELSE lastT
  /\ Enter(c, "arm", call[c].sides \ armed)
  /\ UNCHANGED <<armed, lastCmd, left, call, hand, clock>>

Holds(t, phase) == lock = t /\ crit.phase = phase

(* set_enabled(True) is called for the next side that is not armed.        *)
ArmSide(c) == 
  /\ Holds(c, "arm")
  /\ \E s \in crit.todo :
       /\ crit' = [crit EXCEPT !.phase = "arming", !.todo = @ \ {s},
                               !.side = {s}]
       /\ \E h \in EnableCall(hand[s]) : hand' = [hand EXCEPT ![s] = h]
  /\ UNCHANGED <<leaseVars, lock, pc, left, call, clock>>

(* Mutant: arm leaves the first deadman stamp to the first command.        *)
ArmWithoutStamp(c) ==
  /\ Holds(c, "arming")
  /\ \E s \in crit.side :
       /\ EnableReturns(hand[s])
       /\ armed' = armed \cup {s}
       /\ crit' = [crit EXCEPT !.phase = "arm", !.side = {},
                               !.newly = @ \cup {s}]
  /\ UNCHANGED <<owner, lastCmd, lastSeq, lastT, lock, pc, left, call, hand,
                 clock>>

ArmSideDone(c) ==
  /\ Holds(c, "arming")
  /\ \E s \in crit.side :
       /\ EnableReturns(hand[s])
       /\ armed' = armed \cup {s}
       /\ lastCmd' = [lastCmd EXCEPT ![s] = call[c].now]
       /\ crit' = [crit EXCEPT !.phase = "arm", !.side = {},
                               !.newly = @ \cup {s}]
  /\ UNCHANGED <<owner, lastSeq, lastT, lock, pc, left, call, hand, clock>>

ArmSideRaises(c) ==
  /\ Holds(c, "arming")
  /\ \E s \in crit.side :
       /\ ~ EnableReturns(hand[s])
       /\ \E h \in EnableRaises(hand[s]) : hand' = [hand EXCEPT ![s] = h]
  /\ crit' = [crit EXCEPT !.phase = "cleanup"]
  /\ UNCHANGED <<leaseVars, lock, pc, left, call, clock>>

(* Mutant: arm trusts an enable that failed to have done nothing.          *)
NoCleanup(c) ==
  /\ Holds(c, "cleanup")
  /\ crit' = [crit EXCEPT !.phase = "cleaning"]
  /\ UNCHANGED <<leaseVars, lock, pc, left, call, hand, clock>>

(* The conservative disable of the side that failed to enable.             *)
Cleanup(c) ==
  /\ Holds(c, "cleanup")
  /\ crit' = [crit EXCEPT !.phase = "cleaning"]
  /\ \E s \in crit.side : hand' = [hand EXCEPT ![s] = DisableCall(@)]
  /\ UNCHANGED <<leaseVars, lock, pc, left, call, clock>>

(* Mutant: a failed arm disarms all it was asked for, also the sides that  *)
(* were armed before it.                                                   *)
RollBackAll(c) ==
  /\ Holds(c, "cleaning")
  /\ crit' = [phase |-> "drop", todo |-> call[c].sides, side |-> {}, 
              newly |-> {}]
  /\ UNCHANGED <<leaseVars, lock, pc, left, call, hand, clock>>

(* It returns or raises; either way the sides armed so far are rolled back *)
CleanupDone(c) ==
  /\ Holds(c, "cleaning")
  /\ crit' = [phase |-> "drop", todo |-> crit.newly, side |-> {}, newly |-> {}]
  /\ UNCHANGED <<leaseVars, lock, pc, left, call, hand, clock>>

ArmDone(c) ==
  /\ Holds(c, "arm")
  /\ crit.todo = {}
  /\ Release(c)
  /\ UNCHANGED <<leaseVars, hand, clock>>

-----------------------------------------------------------------------------
(* disarm, expire and disconnect choose the sides to disable.              *)

NotController(c) ==
  /\ \/ Entering(c, "disarm")
     \/ Entering(c, "disconnect")
     \/ Entering(c, "command")
  /\ owner # c
  /\ Refuse(c)

EnterDrop(t, S) ==
  /\ Enter(t, "drop", S)
  /\ UNCHANGED <<leaseVars, left, call, hand, clock>>

EnterDisarm(c) ==
  /\ Entering(c, "disarm")
  /\ owner = c
  /\ EnterDrop(c, call[c].sides \cap armed)

(* The sides that have been silent for the timeout at the time read before *)
(* the lock was taken.                                                     *)
Expired(now) ==
  {s \in armed : lastCmd[s] # Absent /\ now - lastCmd[s] >= Timeout}

EnterExpire(t) ==
  /\ Entering(t, "expire")
  /\ EnterDrop(t, Expired(call[t].now))

EnterDisconnect(c) ==
  /\ Entering(c, "disconnect")
  /\ owner = c
  /\ EnterDrop(c, armed)

(* _disable_side_locked: the side leaves the armed set whether             *)
(* set_enabled(False) returns or raises.                                   *)
DropSide(t) ==
  /\ Holds(t, "drop")
  /\ \E s \in crit.todo :
       /\ crit' = [crit EXCEPT !.phase = "dropping", !.todo = @ \ {s},
                               !.side = {s}]
       /\ hand' = [hand EXCEPT ![s] = DisableCall(@)]
  /\ UNCHANGED <<leaseVars, lock, pc, left, call, clock>>

DropSideDone(t) ==
  /\ Holds(t, "dropping")
  /\ armed' = armed \ crit.side
  /\ lastCmd' = [s \in Sides |-> IF s \in crit.side THEN Absent ELSE lastCmd[s]]
  /\ crit' = [crit EXCEPT !.phase = "drop", !.side = {}]
  /\ UNCHANGED <<owner, lastSeq, lastT, lock, pc, left, call, hand, clock>>

(* Mutant: an arm that was rolled back keeps the lease.                    *)
RollbackKeepsLease(t) ==
  /\ Holds(t, "drop")
  /\ crit.todo = {}
  /\ owner' = IF \/ armed = {} /\ call[t].op # "arm"
                \/ call[t].op = "disconnect" 
             THEN None ELSE owner
  /\ Release(t)
  /\ UNCHANGED <<armed, lastCmd, lastSeq, lastT, hand, clock>>

(* Mutant: disconnect disables the sides and leaves the lease.             *)
DisconnectKeepsLease(t) ==
  /\ Holds(t, "drop")
  /\ crit.todo = {}
  /\ owner' = IF armed = {} /\ call[t].op # "disconnect" THEN None ELSE owner
  /\ Release(t)
  /\ UNCHANGED <<armed, lastCmd, lastSeq, lastT, hand, clock>>

(* The last armed side takes the lease with it; a session that ends gives  *)
(* it up whatever is left.                                                 *)
DropDone(t) ==
  /\ Holds(t, "drop")
  /\ crit.todo = {}
  /\ owner' = IF armed = {} \/ call[t].op = "disconnect" THEN None ELSE owner
  /\ Release(t)
  /\ UNCHANGED <<armed, lastCmd, lastSeq, lastT, hand, clock>>

-----------------------------------------------------------------------------
(* accept_command                                                          *)

(* The checks after the lease, in the terms of the code: sequence and      *)
(* stamp beyond the side's window, neither too old nor too far ahead.      *)
Fresh(s, a) ==
  /\ a.seq > lastSeq[s]
  /\ a.stamp > lastT[s]
  /\ a.now - a.stamp <= MaxAge
  /\ a.stamp - a.now <= MaxSkew

(* Mutant: any client may command an armed side.                           *)
AnyoneCommands(c) ==
  /\ Entering(c, "command")
  /\ \E s \in call[c].sides :
       /\ s \in armed
       /\ Fresh(s, call[c])
       /\ TakesTarget(hand[s])
       /\ lastSeq' = [lastSeq EXCEPT ![s] = call[c].seq]
       /\ lastT' = [lastT EXCEPT ![s] = call[c].stamp]
       /\ lastCmd' = [lastCmd EXCEPT ![s] = call[c].now]
  /\ Leave(c)
  /\ UNCHANGED <<owner, armed, lock, crit, hand, clock>>

CommandAccepted(c) ==
  /\ Entering(c, "command")
  /\ owner = c
  /\ \E s \in call[c].sides :
       /\ s \in armed
       /\ Fresh(s, call[c])
       /\ TakesTarget(hand[s])
       /\ lastSeq' = [lastSeq EXCEPT ![s] = call[c].seq]
       /\ lastT' = [lastT EXCEPT ![s] = call[c].stamp]
       /\ lastCmd' = [lastCmd EXCEPT ![s] = call[c].now]
  /\ Leave(c)
  /\ UNCHANGED <<owner, armed, lock, crit, hand, clock>>

(* Not armed, stale, too early, or the worker refuses the target.          *)
CommandRejected(c) ==
  /\ Entering(c, "command")
  /\ owner = c
  /\ \E s \in call[c].sides :
       s \notin armed \/ ~ Fresh(s, call[c]) \/ ~ TakesTarget(hand[s])
  /\ Refuse(c)

-----------------------------------------------------------------------------
(* The hands' control loops and the clock.                                 *)

HandLoop(s) ==
  /\ \E h \in LoopSteps(hand[s]) : hand' = [hand EXCEPT ![s] = h]
  /\ UNCHANGED <<leaseVars, threadVars, clock>>

Tick ==
  /\ clock < MaxClock
  /\ clock' = clock + 1
  /\ UNCHANGED <<leaseVars, threadVars, hand>>

-----------------------------------------------------------------------------
(* A thread at the free lock.                                              *)
EnterClient(c) ==
  \/ ArmBusy(c) \/ EnterArm(c)
  \/ NotController(c) \/ EnterDisarm(c) \/ EnterDisconnect(c)
  \/ CommandAccepted(c) \/ CommandRejected(c)

Acquire ==
  \/ \E t \in Threads : EnterExpire(t)
  \/ \E c \in Clients : EnterClient(c)

(* A thread inside the lock.                                               *)
Drop(t) == DropSide(t) \/ DropSideDone(t) \/ DropDone(t)

Arm(c) ==
  \/ ArmSide(c) \/ ArmSideDone(c) \/ ArmSideRaises(c)
  \/ Cleanup(c) \/ CleanupDone(c) \/ ArmDone(c)

Inside ==
  \/ \E t \in Threads : Drop(t)
  \/ \E c \in Clients : Arm(c)

Message(c) == BeginArm(c) \/ BeginDisarm(c) \/ BeginCommand(c)

Next ==
  \/ Acquire
  \/ Inside
  \/ \E t \in Threads : BeginExpire(t)
  \/ \E c \in Clients :
       Connect(c) \/ Message(c) \/ EndBatch(c) \/ BeginDisconnect(c)
  \/ \E s \in Sides : HandLoop(s)
  \/ Tick

Spec == Init /\ [][Next]_vars

(***************************************************************************)
(* Fairness.  The lock is not fair: when it is free, SOME waiting thread   *)
(* gets it.  Whoever holds it goes on, because set_enabled waits at most   *)
(* one second.  The watchdog's loop and the session's select both time     *)
(* out, so both come round to expire; nobody has to send anything.         *)
(***************************************************************************)
Fairness ==
  /\ WF_vars(Acquire)
  /\ WF_vars(Inside)
  /\ \A t \in Threads : WF_vars(BeginExpire(t))
  /\ \A c \in Clients : WF_vars(EndBatch(c))

FairSpec == Spec /\ Fairness

-----------------------------------------------------------------------------
(* Properties                                                              *)

(***************************************************************************)
(* Between the critical sections there is an owner exactly when a side is  *)
(* armed, and inside them no side is armed without an owner.  A side is    *)
(* armed exactly as long as it has a deadman stamp: expire gives a side    *)
(* without one the age zero, so such a side would never expire.            *)
(***************************************************************************)
LeaseInv ==
  /\ armed # {} => owner # None
  /\ lock = None => (owner # None => armed # {})
  /\ \A s \in Sides : s \in armed <=> lastCmd[s] # Absent

(***************************************************************************)
(* Nobody is left driving: a hand has a standing enable request only while *)
(* its side is armed, or while the arm that made the request is still      *)
(* inside the lock and is going to withdraw or confirm it.                 *)
(***************************************************************************)
RequestInv ==
  \A s \in Sides :
    hand[s].enabled =>
      s \in armed \/ (crit.phase \in {"arming", "cleanup"} /\ s \in crit.side)

(***************************************************************************)
(* A session that has ended does not own the lease, whatever its hands did *)
(* when it disabled them.                                                  *)
(***************************************************************************)
LeaseEndsWithSession == \A c \in Clients : pc[c] = "gone" => owner # c

(***************************************************************************)
(* The deadman stamp of a side never moves back while the side is armed,   *)
(* although arm and accept_command take it from a clock they read before   *)
(* they had the lock.                                                      *)
(***************************************************************************)
StampNeverBack ==
  [][\A s \in armed \cap armed' : lastCmd'[s] >= lastCmd[s]]_vars

(***************************************************************************)
(* Nobody's side is taken from him: an armed side is dropped by a call of  *)
(* the client that holds the lease, a disarm that names the side, an arm   *)
(* that is rolled back and stamped the side itself, or the end of his      *)
(* session, or by a deadman that is due.  Due means that the handling of   *)
(* the side's last arm or command BEGAN a timeout ago, for that is where   *)
(* arm and accept_command read the clock (control.py:102, 181).  It does   *)
(* not mean that the side was armed or commanded a timeout ago, as         *)
(* schema.md:45 has it: an arm that waited long for the lock or for the    *)
(* hardware may be expired as soon as it returns.                          *)
(***************************************************************************)
DroppedByRight ==
  [][\A s \in armed \ armed' :
       IF call[lock].op = "expire"
       THEN clock - lastCmd[s] >= Timeout
       ELSE /\ lock = owner
            /\ call[lock].op # "disconnect" => s \in call[lock].sides
            /\ call[lock].op = "arm" => lastCmd[s] = call[lock].now]_vars

Silent(s) == s \in armed /\ clock - lastCmd[s] >= Timeout

(***************************************************************************)
(* A silent side is dropped or commanded again, even when the client is    *)
(* hung, when a hand never answers, and when another client keeps the lock *)
(* busy.                                                                   *)
(***************************************************************************)
SilentSideEnds == \A s \in Sides : Silent(s) ~> ~ Silent(s)

(***************************************************************************)
(* The lease as the protocol promises it.  Its holder is the owner as soon *)
(* as a side is armed.                                                     *)
(***************************************************************************)
Lease == INSTANCE ControlLease WITH
  holder <- IF armed = {} THEN None ELSE owner,
  live   <- armed,
  window <- [s \in Sides |-> IF armed = {} 
                             THEN [seq |-> Absent, stamp |-> Absent]
                             ELSE [seq |-> lastSeq[s], stamp |-> lastT[s]]]

ImplementsLease == Lease!Spec

-----------------------------------------------------------------------------
(* What the proofs need to know of the threads inside the lock.            *)

(* One thread is inside, and crit holds its locals.                        *)
LockInv ==
  /\ \A t \in Threads : pc[t] = "inside" <=> lock = t
  /\ lock = None <=> crit.phase = "none"

ArmPhases == {"arm", "arming", "cleanup", "cleaning"}

(***************************************************************************)
(* An arm inside the lock owns the lease, and the sides it was asked for   *)
(* are armed, under way or still to do; one set_enabled is under way at a  *)
(* time; a disconnect is going to drop every armed side.                   *)
(***************************************************************************)
MethodInv ==
  /\ crit.phase \in ArmPhases =>
       /\ lock \in Clients
       /\ owner = lock
       /\ call[lock].op = "arm"
  /\ crit.phase \in {"arm", "arming"} =>
       call[lock].sides \subseteq armed \cup crit.todo \cup crit.side
  /\ crit.phase \in {"arming", "cleanup", "cleaning", "dropping"} =>
       \E s \in Sides : crit.side = {s}
  /\ crit.phase \in {"arm", "drop"} => crit.side = {}
  /\ crit.phase \in {"cleaning", "dropping"} =>
       \A s \in crit.side : ~ hand[s].enabled
  /\ crit.phase \in {"drop", "dropping"} /\ call[lock].op = "disconnect" =>
       armed \subseteq crit.todo \cup crit.side
  /\ \A c \in Clients : call[c].op = "arm" => call[c].sides # {}

IInv == TypeOK /\ LockInv /\ MethodInv /\ LeaseInv /\ RequestInv 
        /\ LeaseEndsWithSession

(***************************************************************************)
(* For StampNeverBack and DroppedByRight: no stamp and no time read before *)
(* the lock lies in the future; the command the owner is about to enter    *)
(* with was timed after the last stamps of its sides; an arm only treats   *)
(* sides that are not armed; and expire only treats sides that are due.    *)
(***************************************************************************)
StampInv ==
  /\ \A s \in Sides : lastCmd[s] <= clock
  /\ \A t \in Threads : call[t].now <= clock
  /\ \A c \in Clients : 
       owner = c /\ pc[c] = "wait" /\ call[c].op = "command" =>
         \A s \in armed : lastCmd[s] <= call[c].now
  /\ crit.phase \in {"arm", "arming"} =>
       /\ (crit.todo \cup crit.side) \cap armed = {}
       /\ crit.todo \cap crit.side = {}
  /\ crit.phase \in {"drop", "dropping"} /\ call[lock].op = "expire" =>
       \A s \in (crit.todo \cup crit.side) \cap armed : 
         call[lock].now - lastCmd[s] >= Timeout

(***************************************************************************)
(* For DroppedByRight: an arm has stamped the sides it has armed so far,   *)
(* and the sides that a method is going to drop are its own.               *)
(***************************************************************************)
DropInv ==
  /\ crit.phase \in ArmPhases =>
       /\ crit.todo \cup crit.side \cup crit.newly \subseteq call[lock].sides
       /\ \A s \in crit.newly : lastCmd[s] = call[lock].now
  /\ crit.phase \in {"drop", "dropping"} /\ call[lock].op # "expire" =>
       /\ lock = owner
       /\ call[lock].op # "disconnect" => 
            crit.todo \cup crit.side \subseteq call[lock].sides
       /\ call[lock].op = "arm" => 
            \A s \in (crit.todo \cup crit.side) \cap armed : 
              lastCmd[s] = call[lock].now

(***************************************************************************)
(* For ImplementsLease: the arm that brings the first side finds the       *)
(* replay windows cleared, and commands carry the constants' numbers.      *)
(***************************************************************************)
WindowInv ==
  /\ crit.phase \in {"arm", "arming"} /\ armed = {} =>
       \A s \in Sides : lastSeq[s] = Absent /\ lastT[s] = Absent
  /\ \A c \in Clients : 
       call[c].op = "command" => call[c].seq \in Seqs /\ call[c].stamp \in Stamps

=============================================================================
