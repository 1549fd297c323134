------------------------------- MODULE SimHand -------------------------------
(***************************************************************************)
(* One simulated hand in its server process: SimHandWorker, MujocoScene    *)
(* and the main thread of SimBridgeServer (sim/wuji_hand_sim), with        *)
(*   - the control loop thread of the hand,                                *)
(*   - the calls ControlAuthority makes, one at a time,                    *)
(*   - the main thread, which starts the hand, serves, and runs shutdown   *)
(*     for a signal that may interrupt it anywhere,                        *)
(*   - the physics of MuJoCo, which moves the hand as it likes and may     *)
(*     show a non-finite state between two of its steps.                   *)
(* set_enabled(False) reads the pose before it takes the worker's lock;    *)
(* everything done under that lock is one step here.  A vector in protocol *)
(* order is a sequence, the pose of the hand a function of joint names.    *)
(***************************************************************************)
EXTENDS JointOrder, JointSmoother

CONSTANTS
  ActuatorOrders, \* what mujoco_actuator_joint_names may be
  Poses,          \* the poses of the hand that are looked at
  Rest,           \* the pose MuJoCo starts from
  Commands        \* the values a joint_cmd may bring

ASSUME SimAssumption ==
  /\ ProtocolNames \in Seq(Joints)
  /\ Distinct(ProtocolNames) /\ ProtocolNames # <<>>
  /\ ActuatorOrders \subseteq Seq(Joints)
  /\ \A order \in ActuatorOrders : NamesMatch(ProtocolNames, order)  \* or MujocoScene raises
  /\ Rest \in Poses
  /\ Poses \subseteq [Joints -> Int]
  /\ NaN \notin Int /\ Commands \subseteq Seq(Int \cup {NaN})

VARIABLES
  actuators,  \* external: the actuators of the model, by joint name
  pose,       \* external: data.qpos by joint name
  diverged,   \* external: it is not finite
  ctrl,       \* data.ctrl, in actuator order
  enabled,    \* _enabled
  smoother,   \* _smoother
  ctl,        \* where the control loop thread is
  halt,       \* _stop of the worker
  auth,       \* the authority's set_enabled(False) between read and lock
  main,       \* where the main thread is
  seen,       \* what its read_joint_state returned
  resume,     \* what the shutdown under way interrupted
  halted,     \* _stop of the server; shutdown has started
  asked,      \* the last set_enabled call that was made
  unread,     \* the last set_enabled(False) raised at its read
  held,       \* the pose stored by the last set_enabled(False), by name
  command,    \* what the command accepted since then meant, by name
  writer      \* who wrote ctrl last

None == "none"
NoPose == <<>>

worldVars == <<actuators, pose, diverged>>
handVars == <<ctrl, enabled, smoother>>
mainVars == <<main, seen, resume, halted>>
histVars == <<asked, unread, held, command, writer>>
vars == <<actuators, pose, diverged, ctrl, enabled, smoother, ctl, halt, auth,
          main, seen, resume, halted, asked, unread, held, command, writer>>

(* The stages of start_hands and of shutdown.                              *)
Starting == {"scene", "read", "seed", "loop"}
Stopping == {"disarm", "hold", "stop", "join", "release"}

Vectors == [1 .. NumJoints -> Int]

TypeOK ==
  /\ actuators \in ActuatorOrders
  /\ pose \in Poses /\ diverged \in BOOLEAN
  /\ ctrl \in Vectors
  /\ enabled \in BOOLEAN
  /\ smoother \in [target : Vectors, filtered : Vectors]
  /\ ctl \in {"off", "top", "tick", "ended"} /\ halt \in BOOLEAN
  /\ auth \in Vectors \cup {NoPose}
  /\ main \in Starting \cup Stopping \cup {"serve", "hung", "down"}
  /\ seen \in Vectors
  /\ resume \in Starting \cup {None, "serve", "exit"} /\ halted \in BOOLEAN
  /\ asked \in BOOLEAN /\ unread \in BOOLEAN
  /\ held \in [Joints -> Int] \cup {NoPose}
  /\ command \in [Joints -> Int] \cup {NoPose}
  /\ writer \in {"none", "tick", "hold", "reset"}

Zeros == [i \in 1 .. NumJoints |-> 0]

Init ==
  /\ actuators \in ActuatorOrders
  /\ pose = Rest /\ diverged = FALSE
  /\ ctrl = Zeros
  /\ enabled = FALSE /\ smoother = Seeded(Zeros)
  /\ ctl = "off" /\ halt = FALSE
  /\ auth = NoPose
  /\ main = "scene" /\ seen = Zeros /\ resume = None /\ halted = FALSE
  /\ asked = FALSE /\ unread = FALSE /\ held = NoPose /\ command = NoPose
  /\ writer = "none"

Running == main # "down"

-----------------------------------------------------------------------------
(* MujocoScene                                                             *)

ReadFails == diverged
JointState == InProtocolOrder(pose)

(* set_ctrl: the reordering that was computed from the model's names.      *)
ActuatorOrder(vector) ==
  Reordered(vector, Permutation(ProtocolNames, actuators))

(* mj_step under the scene's lock: the hand moves, or its state becomes    *)
(* non-finite.                                                             *)
Moves ==
  /\ ~ diverged
  /\ \/ pose' \in Poses \ {pose} /\ UNCHANGED diverged
     \/ diverged' = TRUE /\ UNCHANGED pose
  /\ UNCHANGED <<ctrl, writer>>

(* The next step finds that and resets all of mjData (mj_resetData): the   *)
(* initial pose, and no control.                                           *)
Resets ==
  /\ diverged
  /\ diverged' = FALSE /\ pose' = Rest
  /\ ctrl' = Zeros /\ writer' = "reset"

Physics ==
  /\ Running /\ main # "scene"
  /\ Moves \/ Resets
  /\ UNCHANGED <<actuators, enabled, smoother, ctl, halt, auth, mainVars, asked, unread,
                 held, command>>

-----------------------------------------------------------------------------
(* SimHandWorker.set_enabled and set_joint_target                          *)

(* Mutant: the hold position is set and the flag is not.                   *)
HoldKeepsFlag(vector) ==
  /\ UNCHANGED enabled
  /\ smoother' = WithTarget(smoother, vector)
  /\ ctrl' = ActuatorOrder(vector)
  /\ held' = ByName(vector)
  /\ command' = NoPose
  /\ writer' = "hold"

(* The locked part of set_enabled(False), for the pose read before.        *)
Hold(vector) ==
  /\ enabled' = FALSE
  /\ smoother' = WithTarget(smoother, vector)
  /\ ctrl' = ActuatorOrder(vector)
  /\ held' = ByName(vector)
  /\ command' = NoPose
  /\ writer' = "hold"

(* The client sessions live from serve_forever on; shutdown waits two      *)
(* seconds for each of them, and one may be alive after that.              *)
Sessions == main = "serve" \/ (main \in Stopping /\ resume = "serve")

Enable ==
  /\ Sessions
  /\ auth = NoPose
  /\ enabled' = TRUE
  /\ asked' = TRUE /\ unread' = FALSE
  /\ UNCHANGED <<worldVars, ctrl, smoother, ctl, halt, auth, mainVars, held, command,
                 writer>>

DisableReads ==
  /\ Sessions
  /\ auth = NoPose
  /\ asked' = FALSE
  /\ unread' = ReadFails
  /\ auth' = IF ReadFails THEN NoPose ELSE JointState
  /\ UNCHANGED <<worldVars, handVars, ctl, halt, mainVars, held, command,
                 writer>>

DisableHolds ==
  /\ Sessions
  /\ auth # NoPose
  /\ Hold(auth)
  /\ auth' = NoPose
  /\ UNCHANGED <<worldVars, ctl, halt, mainVars, asked, unread>>

(* raw is what the line says, meant what its sender meant by it.           *)
SetJointTarget(raw, meant) ==
  /\ Sessions
  /\ auth = NoPose
  /\ FiniteVector(raw, NumJoints)
  /\ enabled
  /\ smoother' = WithTarget(smoother, raw)
  /\ command' = meant
  /\ UNCHANGED <<worldVars, ctrl, enabled, ctl, halt, auth, mainVars, asked, unread,
                 held, writer>>

-----------------------------------------------------------------------------
(* The control loop                                                        *)

LoopTop ==
  /\ Running
  /\ ctl = "top"
  /\ ctl' = IF halt THEN "ended" ELSE "tick"
  /\ UNCHANGED <<worldVars, handVars, halt, auth, mainVars, histVars>>

(* Mutant: the flag is read at the top of the loop and not under the lock. *)
TickUnasked ==
  /\ Running
  /\ ctl = "tick"
  /\ ctl' = "top"
  /\ smoother' \in Stepped(smoother)
  /\ ctrl' = ActuatorOrder(smoother'.filtered)
  /\ writer' = "tick"
  /\ UNCHANGED <<worldVars, enabled, halt, auth, mainVars, asked, unread, held, command>>

(* _tick: flag, filter and set_ctrl under the worker's lock.               *)
Tick ==
  /\ Running
  /\ ctl = "tick"
  /\ ctl' = "top"
  /\ IF enabled
     THEN /\ smoother' \in Stepped(smoother)
          /\ ctrl' = ActuatorOrder(smoother'.filtered)
          /\ writer' = "tick"
     ELSE UNCHANGED <<smoother, ctrl, writer>>
  /\ UNCHANGED <<worldVars, enabled, halt, auth, mainVars, asked, unread, held, command>>

-----------------------------------------------------------------------------
(* The main thread                                                         *)

(* scene.start() does not depend on what a signal did before.              *)
StartScene ==
  /\ main = "scene"
  /\ main' = "read"
  /\ UNCHANGED <<worldVars, handVars, ctl, halt, auth, seen, resume, halted, histVars>>

(* hand.connect(): a failed read leaves main() and atexit shuts down.      *)
ConnectReads ==
  /\ main = "read"
  /\ IF ReadFails
     THEN /\ main' = IF halted THEN "down" ELSE "disarm"
          /\ resume' = "exit"
          /\ halted' = TRUE
          /\ UNCHANGED seen
     ELSE /\ main' = "seed"
          /\ seen' = JointState
          /\ UNCHANGED <<resume, halted>>
  /\ UNCHANGED <<worldVars, handVars, ctl, halt, auth, histVars>>

ConnectSeeds ==
  /\ main = "seed"
  /\ main' = "loop"
  /\ smoother' = Seeded(seen)
  /\ held' = NoPose
  /\ UNCHANGED <<worldVars, ctrl, enabled, ctl, halt, auth, seen, resume, halted,
                 asked, unread, command, writer>>

StartLoop ==
  /\ main = "loop"
  /\ main' = "serve"
  /\ halt' = FALSE
  /\ ctl' = "top"
  /\ UNCHANGED <<worldVars, handVars, auth, seen, resume, halted, histVars>>

(* serve_forever finds the stop event set: shutdown has run already.       *)
ServeEnds ==
  /\ main = "serve"
  /\ halted
  /\ main' = "down"
  /\ UNCHANGED <<worldVars, handVars, ctl, halt, auth, seen, resume, halted, histVars>>

(* The first signal; shutdown returns at once for the others.              *)
Signal ==
  /\ ~ halted
  /\ main \in Starting \cup {"serve"}
  /\ main' = "disarm"
  /\ resume' = main
  /\ halted' = TRUE
  /\ UNCHANGED <<worldVars, handVars, ctl, halt, auth, seen, histVars>>

(* It comes while connect() holds the scene's or the worker's lock, which  *)
(* is not reentrant: disconnect() waits for it in the same thread.         *)
SignalInsideLock ==
  /\ ~ halted
  /\ main \in {"read", "seed"}
  /\ main' = "hung"
  /\ halted' = TRUE
  /\ UNCHANGED <<worldVars, handVars, ctl, halt, auth, seen, resume, histVars>>

(* hand.disconnect(): when the read of its set_enabled(False) raises, the  *)
(* exception leaves shutdown and then the process.                         *)
ShutdownReads ==
  /\ main = "disarm"
  /\ asked' = FALSE /\ unread' = ReadFails
  /\ main' = IF ReadFails THEN "down" ELSE "hold"
  /\ seen' = IF ReadFails THEN seen ELSE JointState
  /\ UNCHANGED <<worldVars, handVars, ctl, halt, auth, resume, halted, held, command,
                 writer>>

ShutdownHolds ==
  /\ main = "hold"
  /\ main' = "stop"
  /\ Hold(seen)
  /\ UNCHANGED <<worldVars, ctl, halt, auth, seen, resume, halted, asked, unread>>

StopLoop ==
  /\ main = "stop"
  /\ main' = "join"
  /\ halt' = TRUE
  /\ UNCHANGED <<worldVars, handVars, ctl, auth, seen, resume, halted, histVars>>

(* The loop has ended or was never started, or two seconds have passed.    *)
(* A thread whose start() the signal has interrupted cannot be joined: the *)
(* exception leaves the process.                                           *)
Joined ==
  /\ main = "join"
  /\ \/ main' = "release"
     \/ resume = "loop" /\ main' = "down"
  /\ UNCHANGED <<worldVars, handVars, ctl, halt, auth, seen, resume, halted, histVars>>

(* _connected is cleared, the scene stopped; the signal handler returns to *)
(* where it interrupted.                                                   *)
Release ==
  /\ main = "release"
  /\ main' = IF resume = "exit" THEN "down" ELSE resume
  /\ UNCHANGED <<worldVars, handVars, ctl, halt, auth, seen, resume, halted, histVars>>

-----------------------------------------------------------------------------
Authority == Enable \/ DisableReads \/ DisableHolds

ControlLoop == LoopTop \/ Tick

MainThread ==
  \/ StartScene \/ ConnectReads \/ ConnectSeeds \/ StartLoop \/ ServeEnds
  \/ ShutdownReads \/ ShutdownHolds \/ StopLoop \/ Joined \/ Release

Process ==
  \/ Physics \/ Authority \/ ControlLoop \/ MainThread
  \/ Signal \/ SignalInsideLock

(* A client that means what it sends.                                      *)
Client == \E raw \in Commands : SetJointTarget(raw, ByName(raw))

Next == Process \/ Client

Spec == Init /\ [][Next]_vars

-----------------------------------------------------------------------------
(* Properties                                                              *)

(***************************************************************************)
(* A disarmed hand is held where it was when the disarm read it, joint by  *)
(* joint: no tick that was under way, no earlier target and no second      *)
(* disarm that read its pose at another time drives it any more            *)
(* (sim_hand_worker.py:90-103, 175-181).  Only MuJoCo may end that: when   *)
(* the simulation diverges and is reset, every actuator goes to zero and   *)
(* nothing holds the hand again until it is armed or disarmed, although    *)
(* sim_hand_worker.py:100 has it that an actuator retains its ctrl for     *)
(* ever.                                                                   *)
(***************************************************************************)
DisarmedHolds ==
  ~ enabled /\ held # NoPose =>
    IF writer = "reset" THEN ctrl = Zeros
    ELSE \A a \in 1 .. NumJoints : ctrl[a] = held[actuators[a]]

(***************************************************************************)
(* Every actuator is driven along the filter of its own joint, and that    *)
(* filter runs toward what the sender of the command in force meant for    *)
(* that joint; without a command since the last disarm, toward the pose    *)
(* the hand is held in.  A new arm revives no target from before, and no   *)
(* reordering on the way mixes joints up (smoother.py:94-99,               *)
(* joint_order.py:34-65, mujoco_scene.py:95-97).                           *)
(***************************************************************************)
FollowsCommand ==
  /\ command # NoPose => ByName(smoother.target) = command
  /\ command = NoPose /\ held # NoPose => ByName(smoother.target) = held
  /\ writer = "tick" => \A a \in 1 .. NumJoints : ctrl[a] = ByName(smoother.filtered)[actuators[a]]

(***************************************************************************)
(* A hand that nobody asks to be armed is driven only if the disarm could  *)
(* not read the scene: then the flag stays up although the authority has   *)
(* dropped the side from its lease (sim_hand_worker.py:92-95).             *)
(***************************************************************************)
DrivenOnlyUnread ==
  enabled /\ ~ asked /\ auth = NoPose /\ main # "hold" => unread

Abs(x) == IF x < 0 THEN - x ELSE x

(* A tick that drives the hand, and how far it moves an actuator's target. *)
Drives == ctl = "tick" /\ ctl' = "top" /\ enabled
Jump(a) == Abs(ctrl'[a] - ctrl[a])

(***************************************************************************)
(* From one driving tick to the next, across new targets, no joint is told *)
(* to move by more than the speed limit (smoother.py:112-121).             *)
(***************************************************************************)
SlewWhileDriven ==
  [][Drives /\ writer = "tick" => \A a \in 1 .. NumJoints : Jump(a) <= MaxStep]_vars

(***************************************************************************)
(* ARCHITECTURE.md:84 and smoother.py:8: what is sent to the hand is       *)
(* limited in speed, also by the first tick after it was held somewhere.   *)
(***************************************************************************)
SlewLimited ==
  [][Drives /\ held # NoPose /\ writer # "reset" => \A a \in 1 .. NumJoints : Jump(a) <= MaxStep]_vars

=============================================================================
