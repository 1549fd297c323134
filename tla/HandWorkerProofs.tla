--------------------------- MODULE HandWorkerProofs ---------------------------
(***************************************************************************)
(* One hand worker, however its control thread, its caller and the main    *)
(* thread interleave: its motors are accounted for, a disarmed hand is     *)
(* silent, an old target is never sent after a new arm, and its callers    *)
(* see what HandInterface promises to ControlAuthority.                    *)
(***************************************************************************)
EXTENDS HandWorker, TLAPS

(* The loop is on its way out: it never gets back to its top.              *)
Leaving == ctl \in {"exit", "exitDisable", "close", "dead"}

LoopInv == main = "boot" <=> ctl = "off"

(* The loop does not end with powered motors while the hand is there,      *)
(* unless the SDK refused; a loop that has not ended behind the join of    *)
(* disconnect has outlived it.                                             *)
ExitInv ==
  ~ Released => handle /\ (ctl \in {"close", "dead"} /\ power => stuckOn)
JoinInv ==
  main \in {"release", "lastDisable", "drop", "final", "down"} /\ ctl # "dead"
    => "outlived" \in mishaps

(* What the control thread is about to rely on, until disconnect takes the *)
(* hand away from it.                                                      *)
EnableRecorded == ctl = "enable" /\ ~ Released => attempted
SendIsHot == ctl = "send" /\ ~ Released => hot

(* A caller that withdrew its request has no request pending.              *)
Withdrawn ==
  caller = "disabling" \/ (caller = "idle" /\ answer = "disarmed") => ~ enabled

(* A failed tick withdraws the request and keeps the target; so does the   *)
(* end of disconnect.  Before both, a target belongs to a request, and to  *)
(* the one in force.                                                       *)
TargetInv ==
  ~ Leaving /\ hasCommand => (enabled /\ fromArm) \/ ~ (enabled \/ connected)

IInv ==
  /\ TypeOK /\ LoopInv /\ ExitInv /\ JoinInv /\ EnableRecorded /\ SendIsHot /\ Withdrawn
  /\ TargetInv /\ PowerIsKnown /\ ReleasedIsCold /\ SilentWhenDisarmed

-----------------------------------------------------------------------------
(* The flags one by one.                                                   *)
Flags ==
  /\ enabled \in BOOLEAN /\ hot \in BOOLEAN /\ attempted \in BOOLEAN
  /\ ready \in BOOLEAN /\ hasCommand \in BOOLEAN /\ failed \in BOOLEAN
  /\ pubReady \in BOOLEAN /\ stop \in BOOLEAN /\ connected \in BOOLEAN
  /\ handle \in BOOLEAN /\ power \in BOOLEAN /\ stuckOn \in BOOLEAN
  /\ fromArm \in BOOLEAN

Places ==
  /\ ctl \in CtlStates
  /\ caller \in {"idle", "enabling", "disabling"}
  /\ answer \in {"none", "armed", "disarmed", "raised"}
  /\ main \in MainStates
  /\ mishaps \subseteq {"outlived", "unclosed", "late"}

LEMMA TypesOneByOne == TypeOK <=> Flags /\ Places
BY DEF TypeOK, Flags, Places

LEMMA InitHolds == Init => IInv
BY TypesOneByOne DEF Init, IInv, Flags, Places, CtlStates, MainStates, LoopInv, Leaving,
  ExitInv, JoinInv, EnableRecorded, SendIsHot, Withdrawn, TargetInv, PowerIsKnown,
  ReleasedIsCold, Released, SilentWhenDisarmed

(* What an action leaves alone, in one place.                              *)
LEMMA StutterHolds ==
  ASSUME IInv, UNCHANGED vars
  PROVE  IInv'
BY TypesOneByOne DEF vars, IInv, TypeOK, LoopInv, ExitInv, JoinInv, Leaving, EnableRecorded,
  SendIsHot, Withdrawn, TargetInv, PowerIsKnown, ReleasedIsCold, SilentWhenDisarmed, Released

-----------------------------------------------------------------------------
(* What the safety invariants are made of, without the types.              *)
Safe ==
  /\ LoopInv /\ ExitInv /\ JoinInv /\ EnableRecorded /\ SendIsHot /\ Withdrawn
  /\ TargetInv /\ PowerIsKnown /\ ReleasedIsCold /\ SilentWhenDisarmed

(* set_enabled and set_joint_target, and the SDK.                          *)
LEMMA CallsHold ==
  ASSUME IInv, SetEnabled \/ SetJointTarget \/ FirstJointState \/ EnableTakesEffect
  PROVE  IInv'
<1>0. Flags /\ Places /\ Safe
  BY TypesOneByOne DEF IInv, Safe
<1> USE <1>0 DEF callVars, loopVars, flagVars, mainVars, sdkVars, cmdVars, Alive
<1>1. CASE SetEnabledTrue
  <2>1. Flags'
    BY <1>1 DEF Flags, SetEnabledTrue
  <2>2. Places'
    BY <1>1 DEF Places, CtlStates, MainStates, SetEnabledTrue
  <2>3. (LoopInv /\ ExitInv /\ JoinInv /\ EnableRecorded /\ SendIsHot /\ Withdrawn
           /\ PowerIsKnown /\ ReleasedIsCold /\ SilentWhenDisarmed)'
    BY <1>1 DEF Safe, LoopInv, ExitInv, JoinInv, EnableRecorded, SendIsHot, Withdrawn,
      PowerIsKnown, ReleasedIsCold, SilentWhenDisarmed, Released, SetEnabledTrue
  <2>4. TargetInv'
    <3>1. /\ UNCHANGED <<hasCommand, connected, ctl>>
          /\ \/ UNCHANGED <<enabled, fromArm>>
             \/ connected /\ enabled' /\ (enabled /\ fromArm => fromArm')
      BY <1>1 DEF SetEnabledTrue
    <3> QED
      BY <3>1 DEF Safe, TargetInv, Leaving
  <2> QED
    BY <2>1, <2>2, <2>3, <2>4 DEF IInv, Safe, TypeOK, Flags, Places
<1>2. CASE EnableWaitEnds
  <2>1. Flags'
    BY <1>2 DEF Flags, EnableWaitEnds
  <2>2. Places'
    BY <1>2 DEF Places, CtlStates, MainStates, EnableWaitEnds
  <2>3. Safe'
    BY <1>2 DEF Safe, LoopInv, EnableRecorded, SendIsHot, Withdrawn, TargetInv,
      PowerIsKnown, ReleasedIsCold, ExitInv, JoinInv, SilentWhenDisarmed, Leaving, Released, EnableWaitEnds
  <2> QED
    BY <2>1, <2>2, <2>3 DEF IInv, Safe, TypeOK, Flags, Places
<1>3. CASE SetEnabledFalse
  <2>1. Flags'
    BY <1>3 DEF Flags, SetEnabledFalse
  <2>2. Places'
    BY <1>3 DEF Places, CtlStates, MainStates, SetEnabledFalse
  <2>3. Safe'
    BY <1>3 DEF Safe, LoopInv, EnableRecorded, SendIsHot, Withdrawn, TargetInv,
      PowerIsKnown, ReleasedIsCold, ExitInv, JoinInv, SilentWhenDisarmed, Leaving, Released, SetEnabledFalse
  <2> QED
    BY <2>1, <2>2, <2>3 DEF IInv, Safe, TypeOK, Flags, Places
<1>4. CASE DisableWaitEnds
  <2>1. Flags'
    BY <1>4 DEF Flags, DisableWaitEnds
  <2>2. Places'
    BY <1>4 DEF Places, CtlStates, MainStates, DisableWaitEnds
  <2>3. Safe'
    BY <1>4 DEF Safe, LoopInv, EnableRecorded, SendIsHot, Withdrawn, TargetInv,
      PowerIsKnown, ReleasedIsCold, ExitInv, JoinInv, SilentWhenDisarmed, Leaving, Released, DisableWaitEnds
  <2> QED
    BY <2>1, <2>2, <2>3 DEF IInv, Safe, TypeOK, Flags, Places
<1>5. CASE SetJointTarget
  <2>1. Flags'
    BY <1>5 DEF Flags, SetJointTarget
  <2>2. Places'
    BY <1>5 DEF Places, CtlStates, MainStates, SetJointTarget
  <2>3. Safe'
    BY <1>5 DEF Safe, LoopInv, EnableRecorded, SendIsHot, Withdrawn, TargetInv,
      PowerIsKnown, ReleasedIsCold, ExitInv, JoinInv, SilentWhenDisarmed, Leaving, Released, SetJointTarget
  <2> QED
    BY <2>1, <2>2, <2>3 DEF IInv, Safe, TypeOK, Flags, Places
<1>6. CASE FirstJointState
  <2>1. Flags'
    BY <1>6 DEF Flags, FirstJointState
  <2>2. Places'
    BY <1>6 DEF Places, CtlStates, MainStates, FirstJointState
  <2>3. Safe'
    BY <1>6 DEF Safe, LoopInv, EnableRecorded, SendIsHot, Withdrawn, TargetInv,
      PowerIsKnown, ReleasedIsCold, ExitInv, JoinInv, SilentWhenDisarmed, Leaving, Released, FirstJointState
  <2> QED
    BY <2>1, <2>2, <2>3 DEF IInv, Safe, TypeOK, Flags, Places
<1>7. CASE EnableTakesEffect
  <2>1. Flags'
    BY <1>7 DEF Flags, EnableTakesEffect
  <2>2. Places'
    BY <1>7 DEF Places, CtlStates, MainStates, EnableTakesEffect
  <2>3. Safe'
    BY <1>7 DEF Safe, LoopInv, EnableRecorded, SendIsHot, Withdrawn, TargetInv,
      PowerIsKnown, ReleasedIsCold, ExitInv, JoinInv, SilentWhenDisarmed, Leaving, Released, EnableTakesEffect
  <2> QED
    BY <2>1, <2>2, <2>3 DEF IInv, Safe, TypeOK, Flags, Places
<1> QED
  BY <1>1, <1>2, <1>3, <1>4, <1>5, <1>6, <1>7 DEF SetEnabled

(* The control thread.                                                     *)
LEMMA LoopHolds ==
  ASSUME IInv, ControlLoop
  PROVE  IInv'
<1>0. Flags /\ Places /\ Safe
  BY TypesOneByOne DEF IInv, Safe
<1> USE <1>0 DEF callVars, loopVars, flagVars, mainVars, sdkVars, cmdVars, Goto, DisableReturns, DisableRaises, MustDisable
<1>1. CASE CreatePublisher
  <2>1. Flags'
    BY <1>1 DEF Flags, CreatePublisher
  <2>2. Places'
    BY <1>1 DEF Places, CtlStates, MainStates, CreatePublisher
  <2>3. Safe'
    BY <1>1 DEF Safe, LoopInv, EnableRecorded, SendIsHot, Withdrawn, TargetInv,
      PowerIsKnown, ReleasedIsCold, ExitInv, JoinInv, SilentWhenDisarmed, Leaving, Released, CreatePublisher
  <2> QED
    BY <2>1, <2>2, <2>3 DEF IInv, Safe, TypeOK, Flags, Places
<1>2. CASE Snapshot
  <2>1. Flags'
    BY <1>2 DEF Flags, Snapshot
  <2>2. Places'
    BY <1>2 DEF Places, CtlStates, MainStates, Snapshot
  <2>3. Safe'
    BY <1>2 DEF Safe, LoopInv, EnableRecorded, SendIsHot, Withdrawn, TargetInv,
      PowerIsKnown, ReleasedIsCold, ExitInv, JoinInv, SilentWhenDisarmed, Leaving, Released, Snapshot
  <2> QED
    BY <2>1, <2>2, <2>3 DEF IInv, Safe, TypeOK, Flags, Places
<1>3. CASE BeginEnable
  <2>1. Flags'
    BY <1>3 DEF Flags, BeginEnable
  <2>2. Places'
    BY <1>3 DEF Places, CtlStates, MainStates, BeginEnable
  <2>3. Safe'
    BY <1>3 DEF Safe, LoopInv, EnableRecorded, SendIsHot, Withdrawn, TargetInv,
      PowerIsKnown, ReleasedIsCold, ExitInv, JoinInv, SilentWhenDisarmed, Leaving, Released, BeginEnable
  <2> QED
    BY <2>1, <2>2, <2>3 DEF IInv, Safe, TypeOK, Flags, Places
<1>4. CASE EnableOk
  <2>1. Flags'
    BY <1>4 DEF Flags, EnableOk
  <2>2. Places'
    BY <1>4 DEF Places, CtlStates, MainStates, EnableOk
  <2>3. Safe'
    BY <1>4 DEF Safe, LoopInv, EnableRecorded, SendIsHot, Withdrawn, TargetInv,
      PowerIsKnown, ReleasedIsCold, ExitInv, JoinInv, SilentWhenDisarmed, Leaving, Released, EnableOk
  <2> QED
    BY <2>1, <2>2, <2>3 DEF IInv, Safe, TypeOK, Flags, Places
<1>5. CASE EnableFailed
  <2>1. Flags'
    BY <1>5 DEF Flags, EnableFailed
  <2>2. Places'
    BY <1>5 DEF Places, CtlStates, MainStates, EnableFailed
  <2>3. Safe'
    BY <1>5 DEF Safe, LoopInv, EnableRecorded, SendIsHot, Withdrawn, TargetInv,
      PowerIsKnown, ReleasedIsCold, ExitInv, JoinInv, SilentWhenDisarmed, Leaving, Released, EnableFailed
  <2> QED
    BY <2>1, <2>2, <2>3 DEF IInv, Safe, TypeOK, Flags, Places
<1>6. CASE Rollback
  <2>1. Flags'
    BY <1>6 DEF Flags, Rollback
  <2>2. Places'
    BY <1>6 DEF Places, CtlStates, MainStates, Rollback
  <2>3. Safe'
    BY <1>6 DEF Safe, LoopInv, EnableRecorded, SendIsHot, Withdrawn, TargetInv,
      PowerIsKnown, ReleasedIsCold, ExitInv, JoinInv, SilentWhenDisarmed, Leaving, Released, Rollback
  <2> QED
    BY <2>1, <2>2, <2>3 DEF IInv, Safe, TypeOK, Flags, Places
<1>7. CASE Disable
  <2>1. Flags'
    BY <1>7 DEF Flags, Disable
  <2>2. Places'
    BY <1>7 DEF Places, CtlStates, MainStates, Disable
  <2>3. Safe'
    BY <1>7 DEF Safe, LoopInv, EnableRecorded, SendIsHot, Withdrawn, TargetInv,
      PowerIsKnown, ReleasedIsCold, ExitInv, JoinInv, SilentWhenDisarmed, Leaving, Released, Disable
  <2> QED
    BY <2>1, <2>2, <2>3 DEF IInv, Safe, TypeOK, Flags, Places
<1>8. CASE Command
  <2>1. Flags'
    BY <1>8 DEF Flags, Command
  <2>2. Places'
    BY <1>8 DEF Places, CtlStates, MainStates, Command
  <2>3. Safe'
    BY <1>8 DEF Safe, LoopInv, EnableRecorded, SendIsHot, Withdrawn, TargetInv,
      PowerIsKnown, ReleasedIsCold, ExitInv, JoinInv, SilentWhenDisarmed, Leaving, Released, Command
  <2> QED
    BY <2>1, <2>2, <2>3 DEF IInv, Safe, TypeOK, Flags, Places
<1>9. CASE Send
  <2>1. Flags'
    BY <1>9 DEF Flags, Send
  <2>2. Places'
    BY <1>9 DEF Places, CtlStates, MainStates, Send
  <2>3. Safe'
    BY <1>9 DEF Safe, LoopInv, EnableRecorded, SendIsHot, Withdrawn, TargetInv,
      PowerIsKnown, ReleasedIsCold, ExitInv, JoinInv, SilentWhenDisarmed, Leaving, Released, Send
  <2> QED
    BY <2>1, <2>2, <2>3 DEF IInv, Safe, TypeOK, Flags, Places
<1>10. CASE TickFailed
  <2>1. Flags'
    BY <1>10 DEF Flags, TickFailed
  <2>2. Places'
    BY <1>10 DEF Places, CtlStates, MainStates, TickFailed
  <2>3. Safe'
    BY <1>10 DEF Safe, LoopInv, EnableRecorded, SendIsHot, Withdrawn, TargetInv,
      PowerIsKnown, ReleasedIsCold, ExitInv, JoinInv, SilentWhenDisarmed, Leaving, Released, TickFailed
  <2> QED
    BY <2>1, <2>2, <2>3 DEF IInv, Safe, TypeOK, Flags, Places
<1>11. CASE Exit
  <2>1. Flags'
    BY <1>11 DEF Flags, Exit
  <2>2. Places'
    BY <1>11 DEF Places, CtlStates, MainStates, Exit
  <2>3. Safe'
    BY <1>11 DEF Safe, LoopInv, EnableRecorded, SendIsHot, Withdrawn, TargetInv,
      PowerIsKnown, ReleasedIsCold, ExitInv, JoinInv, SilentWhenDisarmed, Leaving, Released, Exit
  <2> QED
    BY <2>1, <2>2, <2>3 DEF IInv, Safe, TypeOK, Flags, Places
<1>12. CASE ExitDisable
  <2>1. Flags'
    BY <1>12 DEF Flags, ExitDisable
  <2>2. Places'
    BY <1>12 DEF Places, CtlStates, MainStates, ExitDisable
  <2>3. Safe'
    BY <1>12 DEF Safe, LoopInv, EnableRecorded, SendIsHot, Withdrawn, TargetInv,
      PowerIsKnown, ReleasedIsCold, ExitInv, JoinInv, SilentWhenDisarmed, Leaving, Released, ExitDisable
  <2> QED
    BY <2>1, <2>2, <2>3 DEF IInv, Safe, TypeOK, Flags, Places
<1>13. CASE Close
  <2>1. Flags'
    BY <1>13 DEF Flags, Close
  <2>2. Places'
    BY <1>13 DEF Places, CtlStates, MainStates, Close
  <2>3. Safe'
    BY <1>13 DEF Safe, LoopInv, EnableRecorded, SendIsHot, Withdrawn, TargetInv,
      PowerIsKnown, ReleasedIsCold, ExitInv, JoinInv, SilentWhenDisarmed, Leaving, Released, Close
  <2> QED
    BY <2>1, <2>2, <2>3 DEF IInv, Safe, TypeOK, Flags, Places
<1> QED
  BY <1>1, <1>2, <1>3, <1>4, <1>5, <1>6, <1>7, <1>8, <1>9, <1>10, <1>11, <1>12, <1>13 DEF ControlLoop

(* The main thread.                                                        *)
LEMMA MainHolds ==
  ASSUME IInv, MainThread
  PROVE  IInv'
<1>0. Flags /\ Places /\ Safe
  BY TypesOneByOne DEF IInv, Safe
<1> USE <1>0 DEF callVars, loopVars, flagVars, mainVars, sdkVars, cmdVars, DisableOrStop, Alive, DisableReturns, DisableRaises
<1>1. CASE StartLoop
  <2>1. Flags'
    BY <1>1 DEF Flags, StartLoop
  <2>2. Places'
    BY <1>1 DEF Places, CtlStates, MainStates, StartLoop
  <2>3. Safe'
    BY <1>1 DEF Safe, LoopInv, EnableRecorded, SendIsHot, Withdrawn, TargetInv,
      PowerIsKnown, ReleasedIsCold, ExitInv, JoinInv, SilentWhenDisarmed, Leaving, Released, StartLoop
  <2> QED
    BY <2>1, <2>2, <2>3 DEF IInv, Safe, TypeOK, Flags, Places
<1>2. CASE Started
  <2>1. Flags'
    BY <1>2 DEF Flags, Started
  <2>2. Places'
    BY <1>2 DEF Places, CtlStates, MainStates, Started
  <2>3. Safe'
    BY <1>2 DEF Safe, LoopInv, EnableRecorded, SendIsHot, Withdrawn, TargetInv,
      PowerIsKnown, ReleasedIsCold, ExitInv, JoinInv, SilentWhenDisarmed, Leaving, Released, Started
  <2> QED
    BY <2>1, <2>2, <2>3 DEF IInv, Safe, TypeOK, Flags, Places
<1>3. CASE StartFailed
  <2>1. Flags'
    BY <1>3 DEF Flags, StartFailed
  <2>2. Places'
    BY <1>3 DEF Places, CtlStates, MainStates, StartFailed
  <2>3. Safe'
    BY <1>3 DEF Safe, LoopInv, EnableRecorded, SendIsHot, Withdrawn, TargetInv,
      PowerIsKnown, ReleasedIsCold, ExitInv, JoinInv, SilentWhenDisarmed, Leaving, Released, StartFailed
  <2> QED
    BY <2>1, <2>2, <2>3 DEF IInv, Safe, TypeOK, Flags, Places
<1>4. CASE Disconnect
  <2>1. Flags'
    BY <1>4 DEF Flags, Disconnect
  <2>2. Places'
    BY <1>4 DEF Places, CtlStates, MainStates, Disconnect
  <2>3. Safe'
    BY <1>4 DEF Safe, LoopInv, EnableRecorded, SendIsHot, Withdrawn, TargetInv,
      PowerIsKnown, ReleasedIsCold, ExitInv, JoinInv, SilentWhenDisarmed, Leaving, Released, Disconnect
  <2> QED
    BY <2>1, <2>2, <2>3 DEF IInv, Safe, TypeOK, Flags, Places
<1>5. CASE DisconnectStops
  <2>1. Flags'
    BY <1>5 DEF Flags, DisconnectStops
  <2>2. Places'
    BY <1>5 DEF Places, CtlStates, MainStates, DisconnectStops
  <2>3. Safe'
    BY <1>5 DEF Safe, LoopInv, EnableRecorded, SendIsHot, Withdrawn, TargetInv,
      PowerIsKnown, ReleasedIsCold, ExitInv, JoinInv, SilentWhenDisarmed, Leaving, Released, DisconnectStops
  <2> QED
    BY <2>1, <2>2, <2>3 DEF IInv, Safe, TypeOK, Flags, Places
<1>6. CASE Joined
  <2>1. Flags'
    BY <1>6 DEF Flags, Joined
  <2>2. Places'
    BY <1>6 DEF Places, CtlStates, MainStates, Joined
  <2>3. Safe'
    BY <1>6 DEF Safe, LoopInv, EnableRecorded, SendIsHot, Withdrawn, TargetInv,
      PowerIsKnown, ReleasedIsCold, ExitInv, JoinInv, SilentWhenDisarmed, Leaving, Released, Joined
  <2> QED
    BY <2>1, <2>2, <2>3 DEF IInv, Safe, TypeOK, Flags, Places
<1>7. CASE ReleaseSdk
  <2>1. Flags'
    BY <1>7 DEF Flags, ReleaseSdk
  <2>2. Places'
    BY <1>7 DEF Places, CtlStates, MainStates, ReleaseSdk
  <2>3. Safe'
    BY <1>7 DEF Safe, LoopInv, EnableRecorded, SendIsHot, Withdrawn, TargetInv,
      PowerIsKnown, ReleasedIsCold, ExitInv, JoinInv, SilentWhenDisarmed, Leaving, Released, ReleaseSdk
  <2> QED
    BY <2>1, <2>2, <2>3 DEF IInv, Safe, TypeOK, Flags, Places
<1>8. CASE LastDisable
  <2>1. Flags'
    BY <1>8 DEF Flags, LastDisable
  <2>2. Places'
    BY <1>8 DEF Places, CtlStates, MainStates, LastDisable
  <2>3. Safe'
    BY <1>8 DEF Safe, LoopInv, EnableRecorded, SendIsHot, Withdrawn, TargetInv,
      PowerIsKnown, ReleasedIsCold, ExitInv, JoinInv, SilentWhenDisarmed, Leaving, Released, LastDisable
  <2> QED
    BY <2>1, <2>2, <2>3 DEF IInv, Safe, TypeOK, Flags, Places
<1>9. CASE DropHandle
  <2>1. Flags'
    BY <1>9 DEF Flags, DropHandle
  <2>2. Places'
    BY <1>9 DEF Places, CtlStates, MainStates, DropHandle
  <2>3. Safe'
    BY <1>9 DEF Safe, LoopInv, EnableRecorded, SendIsHot, Withdrawn, TargetInv,
      PowerIsKnown, ReleasedIsCold, ExitInv, JoinInv, SilentWhenDisarmed, Leaving, Released, DropHandle
  <2> QED
    BY <2>1, <2>2, <2>3 DEF IInv, Safe, TypeOK, Flags, Places
<1>10. CASE Final
  <2>1. Flags'
    BY <1>10 DEF Flags, Final
  <2>2. Places'
    BY <1>10 DEF Places, CtlStates, MainStates, Final
  <2>3. Safe'
    BY <1>10 DEF Safe, LoopInv, EnableRecorded, SendIsHot, Withdrawn, TargetInv,
      PowerIsKnown, ReleasedIsCold, ExitInv, JoinInv, SilentWhenDisarmed, Leaving, Released, Final
  <2> QED
    BY <2>1, <2>2, <2>3 DEF IInv, Safe, TypeOK, Flags, Places
<1> QED
  BY <1>1, <1>2, <1>3, <1>4, <1>5, <1>6, <1>7, <1>8, <1>9, <1>10 DEF MainThread

LEMMA InvariantHolds == Spec => []IInv
<1>1. IInv /\ [Next]_vars => IInv'
  BY StutterHolds, CallsHold, LoopHolds, MainHolds DEF Next
<1> QED
  BY <1>1, InitHolds, PTL DEF Spec

(***************************************************************************)
(* Every variable keeps its type, however the threads interleave.          *)
(***************************************************************************)
THEOREM TypeCorrect == Spec => []TypeOK
<1>1. IInv => TypeOK
  BY DEF IInv
<1> QED
  BY <1>1, InvariantHolds, PTL

(***************************************************************************)
(* hand_worker.py:516-577: powered motors are on record until disconnect   *)
(* is through with them, also after an enable that came late or failed.    *)
(***************************************************************************)
THEOREM PowerKnown == Spec => []PowerIsKnown
<1>1. IInv => PowerIsKnown
  BY DEF IInv
<1> QED
  BY <1>1, InvariantHolds, PTL

(***************************************************************************)
(* hand_worker.py:450-495 with 535-577: what can keep the motors of a      *)
(* released hand powered is a refusal of the SDK, or a control loop that   *)
(* outlived its join together with a failed close or a late enable.        *)
(***************************************************************************)
THEOREM ReleasedCold == Spec => []ReleasedIsCold
<1>1. IInv => ReleasedIsCold
  BY DEF IInv
<1> QED
  BY <1>1, InvariantHolds, PTL

(***************************************************************************)
(* hand_worker.py:362-386, 579-603: no command leaves for a hand whose     *)
(* caller was told that it is disarmed, although send is outside the lock. *)
(***************************************************************************)
THEOREM SilentHand == Spec => []SilentWhenDisarmed
<1>1. IInv => SilentWhenDisarmed
  BY DEF IInv
<1> QED
  BY <1>1, InvariantHolds, PTL

(***************************************************************************)
(* hand_worker.py:347-386, 579-603: what the loop starts to send was asked *)
(* for after the last set_enabled(True).                                   *)
(***************************************************************************)
THEOREM NewTargetsOnly == Spec => SendsOnlyNewTargets
<1>1. IInv /\ [Next]_vars => (ctl # "send" /\ ctl' = "send" => fromArm)
  <2> SUFFICES ASSUME IInv, [Next]_vars, ctl # "send", ctl' = "send" PROVE fromArm
    OBVIOUS
  <2>1. Command
    BY DEF Next, vars, SetEnabled, SetEnabledTrue, EnableWaitEnds, SetEnabledFalse,
      DisableWaitEnds, SetJointTarget, FirstJointState, EnableTakesEffect, ControlLoop,
      CreatePublisher, Snapshot, BeginEnable, EnableOk, EnableFailed, Rollback, Disable,
      Send, TickFailed, Exit, ExitDisable, Close, MainThread, StartLoop, Started,
      StartFailed, Disconnect, DisconnectStops, Joined, ReleaseSdk, LastDisable,
      DropHandle, Final, Goto, loopVars
  <2>2. ctl = "command" /\ enabled /\ hasCommand
    BY <2>1 DEF Command, Goto
  <2> QED
    BY <2>2 DEF IInv, TargetInv, Leaving
<1> QED
  BY <1>1, InvariantHolds, PTL DEF Spec, SendsOnlyNewTargets

(* A hand of the interface with its request made or withdrawn.             *)
LEMMA FlagSet ==
  ASSUME NEW S, NEW T, NEW h \in [enabled : S, hot : T], NEW v \in S
  PROVE  [h EXCEPT !.enabled = v] = [enabled |-> v, hot |-> h.hot]
  BY SMT

LEMMA Request ==
  ASSUME NEW h \in [enabled : BOOLEAN, hot : BOOLEAN]
  PROVE  /\ [h EXCEPT !.enabled = TRUE] = [enabled |-> TRUE, hot |-> h.hot]
         /\ [h EXCEPT !.enabled = FALSE] = [enabled |-> FALSE, hot |-> h.hot]
<1>1. TRUE \in BOOLEAN /\ FALSE \in BOOLEAN
  OBVIOUS
<1>2. [h EXCEPT !.enabled = TRUE] = [enabled |-> TRUE, hot |-> h.hot]
  BY <1>1, FlagSet, Zenon
<1>3. [h EXCEPT !.enabled = FALSE] = [enabled |-> FALSE, hot |-> h.hot]
  BY <1>1, FlagSet, Zenon
<1> QED
  BY <1>2, <1>3

(***************************************************************************)
(* What ControlAuthority assumes of a hand (HandInterface) is what a hand  *)
(* worker does: each call and each return is one of the interface, and the *)
(* control thread and the main thread take only steps of its loop.         *)
(***************************************************************************)
THEOREM Implementation == Spec => ImplementsInterface
<1>1. Init => Interface!Init
  BY DEF Init, Interface!Init, Interface!ColdHand
<1>2. ASSUME IInv, [Next]_vars
      PROVE  [Interface!Next]_(Interface!vars)
  <2> DEFINE h == [enabled |-> enabled, hot |-> hot]
  <2>0. enabled \in BOOLEAN /\ hot \in BOOLEAN /\ enabled' \in BOOLEAN /\ hot' \in BOOLEAN
    <3>1. Flags /\ IInv'
      BY <1>2, TypesOneByOne, StutterHolds, CallsHold, LoopHolds, MainHolds DEF IInv, Next
    <3> QED
      BY <3>1 DEF Flags, IInv, TypeOK
  <2>A. /\ [h EXCEPT !.enabled = TRUE] = [enabled |-> TRUE, hot |-> hot]
        /\ [h EXCEPT !.enabled = FALSE] = [enabled |-> FALSE, hot |-> hot]
    <3>1. h \in [enabled : BOOLEAN, hot : BOOLEAN]
      BY <2>0
    <3>2. h.hot = hot
      OBVIOUS
    <3> HIDE DEF h
    <3> QED
      BY <3>1, <3>2, Request
  <2>F. h.hot = hot /\ h'.hot = hot'
    OBVIOUS
  <2>B. ASSUME enabled' = TRUE, UNCHANGED hot PROVE h' \in Interface!EnableCall(h)
    BY <2>A, <2>B DEF Interface!EnableCall
  <2>C. ASSUME enabled' = FALSE, UNCHANGED hot PROVE h' = [h EXCEPT !.enabled = FALSE]
    BY <2>A, <2>C
  <2>D. ASSUME UNCHANGED <<enabled, hot>> PROVE h' = h
    BY <2>D
  <2>E. h \in Interface!EnableCall(h) /\ h \in Interface!EnableRaises(h)
        /\ [h EXCEPT !.enabled = FALSE] \in Interface!EnableRaises(h)
    BY DEF Interface!EnableCall, Interface!EnableRaises
  <2>1. CASE SetEnabledTrue
    <3>1. caller = "idle" /\ UNCHANGED hot
      BY <2>1 DEF SetEnabledTrue
    <3>2. \/ UNCHANGED enabled /\ UNCHANGED caller /\ answer' = "raised"
          \/ enabled' = TRUE /\ hot /\ answer' = "armed" /\ UNCHANGED caller
          \/ enabled' = TRUE /\ answer' = "raised" /\ UNCHANGED caller
          \/ enabled' = TRUE /\ caller' = "enabling" /\ UNCHANGED answer
      BY <2>1 DEF SetEnabledTrue
    <3>3. h' \in Interface!EnableCall(h)
      BY <2>B, <2>D, <2>E, <3>1, <3>2
    <3>4. \/ caller' = "enabling" /\ UNCHANGED answer
          \/ caller' = "idle" /\ answer' = "raised"
          \/ caller' = "idle" /\ answer' = "armed" /\ h'.hot
      BY <2>F, <3>1, <3>2
    <3>5. Interface!CallEnable
      BY <3>1, <3>3, <3>4 DEF Interface!CallEnable, Interface!EnableReturns
    <3> QED
      BY <3>5 DEF Interface!Next
  <2>2. CASE EnableWaitEnds
    <3>1. caller = "enabling" /\ caller' = "idle" /\ UNCHANGED hot
      BY <2>2 DEF EnableWaitEnds
    <3>2. \/ hot /\ answer' = "armed" /\ UNCHANGED enabled
          \/ ~ hot /\ answer' = "raised" /\ (UNCHANGED enabled \/ enabled' = FALSE)
      BY <2>2 DEF EnableWaitEnds
    <3>3. \/ h.hot /\ answer' = "armed" /\ UNCHANGED h
          \/ ~ h.hot /\ answer' = "raised" /\ h' \in Interface!EnableRaises(h)
      BY <2>A, <2>C, <2>D, <2>E, <2>F, <3>1, <3>2
    <3>4. Interface!EnableEnds
      BY <3>1, <3>3 DEF Interface!EnableEnds, Interface!EnableReturns
    <3> QED
      BY <3>4 DEF Interface!Next
  <2>3. CASE SetEnabledFalse
    <3>1. caller = "idle" /\ enabled' = FALSE /\ UNCHANGED hot
      BY <2>3 DEF SetEnabledFalse
    <3>2. \/ ~ hot /\ answer' = "disarmed" /\ caller' = "idle"
          \/ hot /\ answer' = "raised" /\ caller' = "idle"
          \/ caller' = "disabling" /\ UNCHANGED answer
      BY <2>3 DEF SetEnabledFalse
    <3>3. h' = Interface!DisableCall(h)
      BY <2>C, <3>1 DEF Interface!DisableCall
    <3>4. \/ caller' = "disabling" /\ UNCHANGED answer
          \/ caller' = "idle" /\ answer' = "raised" /\ h'.hot
          \/ caller' = "idle" /\ answer' = "disarmed" /\ ~ h'.hot
      BY <2>F, <3>1, <3>2
    <3>5. Interface!CallDisable
      BY <3>1, <3>3, <3>4 DEF Interface!CallDisable
    <3> QED
      BY <3>5 DEF Interface!Next
  <2>4. CASE DisableWaitEnds
    <3>1. Interface!DisableEnds
      BY <2>0, <2>4 DEF DisableWaitEnds, Interface!DisableEnds, flagVars
    <3> QED
      BY <3>1 DEF Interface!Next
  <2>5. CASE /\ UNCHANGED <<caller, answer>>
             /\ enabled' => enabled
    <3>1. Interface!Loop
      BY <2>0, <2>5 DEF Interface!Loop, Interface!LoopSteps, Interface!Hand
    <3> QED
      BY <3>1 DEF Interface!Next
  <2>6. \/ SetEnabledTrue \/ EnableWaitEnds \/ SetEnabledFalse \/ DisableWaitEnds
        \/ UNCHANGED <<caller, answer>> /\ (enabled' => enabled)
    BY <1>2, <2>0 DEF Next, vars, SetEnabled, SetJointTarget, FirstJointState, EnableTakesEffect,
      ControlLoop, CreatePublisher, Snapshot, BeginEnable, EnableOk, EnableFailed, Rollback,
      Disable, Command, Send, TickFailed, Exit, ExitDisable, Close, MainThread, StartLoop,
      Started, StartFailed, DisableOrStop, Disconnect, DisconnectStops, Joined, ReleaseSdk,
      LastDisable, DropHandle, Final, callVars, flagVars
  <2> QED
    BY <2>1, <2>2, <2>3, <2>4, <2>5, <2>6
<1> QED
  BY <1>1, <1>2, InvariantHolds, PTL DEF Spec, ImplementsInterface, Interface!Spec

=============================================================================
