----------------------------- MODULE HandWorker -----------------------------
(***************************************************************************)
(* HandWorker of bridge/wuji_manus_bridge/hand_worker.py: one Hand 2, its  *)
(* control loop thread, the thread that calls set_enabled and              *)
(* set_joint_target (ControlAuthority makes these calls one at a time),    *)
(* the SDK's joint state callback, and the main thread, which starts the   *)
(* loop and disconnects the hand at shutdown.                              *)
(*                                                                         *)
(* The worker's lock is held only for the short blocks that are single     *)
(* actions here; hand.enable(), hand.disable() and publisher.send() run    *)
(* outside it, so each is a state of the control thread that other threads *)
(* can observe.                                                            *)
(***************************************************************************)
EXTENDS ControllableHand

VARIABLES
  enabled,    \* _enabled: the request flag
  hot,        \* _hardware_enabled
  attempted,  \* _hardware_enable_attempted
  ready,      \* _state_ready
  hasCommand, \* _has_command
  failed,     \* _publisher_error is not None
  pubReady,   \* _publisher_ready
  stop,       \* _stop
  connected,  \* _connected
  handle,     \* _hand is not None
  ctl,        \* where the control loop thread is
  caller,     \* the set_enabled call that waits, if any
  answer,     \* how the last set_enabled call ended
  main,       \* where the main thread is
  power,      \* external: the motors are powered
  stuckOn,    \* external: an SDK call that had to switch them off raised
  mishaps,    \* history: what went wrong in disconnect
  fromArm     \* the command in force came after the last set_enabled(True)

callVars == <<caller, answer>>
loopVars == <<failed, pubReady, ctl>>
flagVars == <<enabled, hot, attempted>>
mainVars == <<main, stop, connected, handle>>
sdkVars == <<power, stuckOn, mishaps>>
cmdVars == <<ready, hasCommand, fromArm>>
vars == <<enabled, hot, attempted, ready, hasCommand, failed, pubReady, stop,
          connected, handle, ctl, caller, answer, main, power, stuckOn,
          mishaps, fromArm>>

(* The states of the control loop thread.                                  *)
CtlStates == {"off", "create", "top", "attempt", "enable", "rollback",
              "disable", "command", "send", "raise", "exit", "exitDisable",
              "close", "dead"}

MainStates == {"boot", "starting", "up", "disabling", "join", "release",
               "lastDisable", "drop", "final", "down"}

TypeOK ==
  /\ \A f \in {enabled, hot, attempted, ready, hasCommand, failed, pubReady,
               stop, connected, handle, power, stuckOn, fromArm} : f \in BOOLEAN
  /\ ctl \in CtlStates
  /\ caller \in {"idle", "enabling", "disabling"}
  /\ answer \in {"none", "armed", "disarmed", "raised"}
  /\ main \in MainStates
  /\ mishaps \subseteq {"outlived", "unclosed", "late"}

Init ==
  /\ enabled = FALSE /\ hot = FALSE /\ attempted = FALSE
  /\ ready = FALSE /\ hasCommand = FALSE
  /\ failed = FALSE /\ pubReady = FALSE
  /\ stop = FALSE /\ connected = TRUE /\ handle = TRUE  \* connect() is done
  /\ ctl = "off"
  /\ caller = "idle" /\ answer = "none"
  /\ main = "boot"
  /\ power = FALSE /\ stuckOn = FALSE /\ mishaps = {}
  /\ fromArm = FALSE

Alive == ctl \notin {"off", "dead"}

-----------------------------------------------------------------------------
(* The SDK.  A call takes effect, if it does, before it returns.           *)

(* disconnect has done what it does to the hardware.                       *)
Released == main \in {"drop", "final", "down"}

(* hand.enable() powers the motors some time before it returns or raises.  *)
EnableTakesEffect ==
  /\ ctl = "enable"
  /\ handle
  /\ ~ power
  /\ power' = TRUE
  /\ mishaps' = mishaps \cup IF Released THEN {"late"} ELSE {}
  /\ UNCHANGED <<flagVars, cmdVars, loopVars, mainVars, callVars, stuckOn>>

DisableReturns ==
  handle /\ power' = FALSE /\ stuckOn' = FALSE /\ UNCHANGED mishaps

DisableRaises ==
  power' \in {power, FALSE} /\ stuckOn' = TRUE /\ UNCHANGED mishaps

-----------------------------------------------------------------------------
(* set_enabled and set_joint_target                                        *)

SetEnabledTrue ==
  /\ caller = "idle"
  /\ main \notin {"boot", "starting"}
  /\ \/ /\ ~ connected \/ ~ Alive
        /\ answer' = "raised"
        /\ UNCHANGED <<enabled, caller, fromArm>>
     \/ /\ connected /\ Alive
        /\ enabled' = TRUE
        /\ fromArm' = (enabled /\ fromArm)
        /\ \/ hot /\ answer' = "armed" /\ UNCHANGED caller
           \/ ~ hot /\ failed /\ answer' = "raised" /\ UNCHANGED caller
           \/ ~ hot /\ ~ failed /\ caller' = "enabling" /\ UNCHANGED answer
  /\ UNCHANGED <<hot, attempted, ready, hasCommand, loopVars, mainVars, sdkVars>>

(* Mutant: the deadline ends the wait like the hardware's answer does.     *)
EnableWaitGivesUp ==
  /\ caller = "enabling"
  /\ caller' = "idle"
  /\ answer' = IF failed THEN "raised" ELSE "armed"
  /\ UNCHANGED <<flagVars, cmdVars, loopVars, mainVars, sdkVars>>

EnableWaitEnds ==
  /\ caller = "enabling"
  /\ caller' = "idle"
  /\ \/ hot /\ answer' = "armed" /\ UNCHANGED <<enabled, hasCommand>>
     \/ ~ hot /\ failed /\ answer' = "raised" /\ UNCHANGED <<enabled, hasCommand>>
     \/ /\ ~ hot /\ ~ failed                  \* the deadline of one second
        /\ answer' = "raised"
        /\ enabled' = FALSE
        /\ hasCommand' = FALSE
  /\ UNCHANGED <<hot, attempted, ready, fromArm, loopVars, mainVars, sdkVars>>

(* Mutant: set_enabled(False) does not wait for the hardware.              *)
DisableWithoutWait ==
  /\ caller = "idle"
  /\ main \notin {"boot", "starting"}
  /\ enabled' = FALSE
  /\ hasCommand' = FALSE
  /\ answer' = "disarmed"
  /\ UNCHANGED <<hot, attempted, ready, fromArm, caller, loopVars, mainVars,
                 sdkVars>>

(* Mutant: set_enabled(False) keeps the last target.                       *)
DisableKeepsTarget ==
  /\ caller = "idle"
  /\ main \notin {"boot", "starting"}
  /\ enabled' = FALSE
  /\ \/ ~ hot /\ answer' = "disarmed" /\ UNCHANGED caller
     \/ hot /\ failed /\ answer' = "raised" /\ UNCHANGED caller
     \/ hot /\ ~ failed /\ caller' = "disabling" /\ UNCHANGED answer
  /\ UNCHANGED <<hot, attempted, cmdVars, loopVars, mainVars, sdkVars>>

SetEnabledFalse ==
  /\ caller = "idle"
  /\ main \notin {"boot", "starting"}
  /\ enabled' = FALSE
  /\ hasCommand' = FALSE
  /\ \/ ~ hot /\ answer' = "disarmed" /\ UNCHANGED caller
     \/ hot /\ failed /\ answer' = "raised" /\ UNCHANGED caller
     \/ hot /\ ~ failed /\ caller' = "disabling" /\ UNCHANGED answer
  /\ UNCHANGED <<hot, attempted, ready, fromArm, loopVars, mainVars, sdkVars>>

(* Mutant: the wait for the hardware has no outcome.                       *)
DisableWaitForgets ==
  /\ caller = "disabling"
  /\ caller' = "idle"
  /\ answer' = caller
  /\ UNCHANGED <<flagVars, cmdVars, loopVars, mainVars, sdkVars>>

(* The hardware is off; or the publisher failed or the deadline passed.    *)
DisableWaitEnds ==
  /\ caller = "disabling"
  /\ caller' = "idle"
  /\ answer' = IF hot THEN "raised" ELSE "disarmed"
  /\ UNCHANGED <<flagVars, cmdVars, loopVars, mainVars, sdkVars>>

SetJointTarget ==
  /\ caller = "idle"
  /\ enabled /\ hot
  /\ hasCommand' = TRUE
  /\ fromArm' = TRUE
  /\ UNCHANGED <<flagVars, ready, loopVars, mainVars, callVars, sdkVars>>

(* The first valid joint state; the later ones only refresh the positions. *)
FirstJointState ==
  /\ handle
  /\ ~ ready
  /\ ready' = TRUE
  /\ UNCHANGED <<flagVars, hasCommand, fromArm, loopVars, mainVars, callVars,
                 sdkVars>>

-----------------------------------------------------------------------------
(* The control loop thread                                                 *)

CreatePublisher ==
  /\ ctl = "create"
  /\ pubReady' = TRUE
  /\ \/ ctl' = "top" /\ UNCHANGED failed
     \/ ctl' = "exit" /\ failed' = TRUE
  /\ UNCHANGED <<flagVars, cmdVars, mainVars, callVars, sdkVars>>

Goto(state) == ctl' = state /\ UNCHANGED <<failed, pubReady>>

(* Mutant: only a recorded attempt is undone, not hardware that is on.     *)
SnapshotOfAttempts ==
  /\ ctl = "top"
  /\ Goto(IF stop THEN "exit"
          ELSE IF ~ handle THEN "top"
          ELSE IF enabled /\ ~ hot THEN "attempt"
          ELSE IF ~ enabled /\ ~ hot /\ attempted THEN "disable"
          ELSE "command")
  /\ UNCHANGED <<flagVars, cmdVars, mainVars, callVars, sdkVars>>

(* The loop's stop check and _tick's snapshot of the flags.                *)
Snapshot ==
  /\ ctl = "top"
  /\ Goto(IF stop THEN "exit"
          ELSE IF ~ handle THEN "top"
          ELSE IF enabled /\ ~ hot THEN "attempt"
          ELSE IF ~ enabled /\ (hot \/ attempted) THEN "disable"
          ELSE "command")
  /\ UNCHANGED <<flagVars, cmdVars, mainVars, callVars, sdkVars>>

(* Mutant: the attempt is not recorded before the call.                    *)
EnableUnrecorded ==
  /\ ctl = "attempt"
  /\ Goto("enable")
  /\ UNCHANGED <<flagVars, cmdVars, mainVars, callVars, sdkVars>>

BeginEnable ==
  /\ ctl = "attempt"
  /\ attempted' = TRUE
  /\ Goto("enable")
  /\ UNCHANGED <<enabled, hot, cmdVars, mainVars, callVars, sdkVars>>

(* hand.enable() returned: publish the fact and read the request again.    *)
EnableOk ==
  /\ ctl = "enable"
  /\ power
  /\ handle
  /\ hot' = TRUE
  /\ Goto(IF enabled THEN "command" ELSE "disable")
  /\ UNCHANGED <<enabled, attempted, cmdVars, mainVars, callVars, sdkVars>>

EnableFailed ==
  /\ ctl = "enable"
  /\ Goto("rollback")
  /\ UNCHANGED <<flagVars, cmdVars, mainVars, callVars, sdkVars>>

(* The disable that undoes a failed enable, and the flags after it.        *)
Rollback ==
  /\ ctl = "rollback"
  /\ \/ DisableReturns /\ attempted' = FALSE
     \/ DisableRaises /\ UNCHANGED attempted
  /\ enabled' = FALSE
  /\ hot' = FALSE
  /\ hasCommand' = FALSE
  /\ Goto("raise")
  /\ UNCHANGED <<ready, fromArm, mainVars, callVars>>

(* hand.disable() for a withdrawn request, in either branch of _tick.      *)
Disable ==
  /\ ctl = "disable"
  /\ \/ /\ DisableReturns
        /\ hot' = FALSE
        /\ attempted' = FALSE
        /\ Goto("top")
     \/ /\ DisableRaises
        /\ Goto("raise")
        /\ UNCHANGED <<hot, attempted>>
  /\ UNCHANGED <<enabled, cmdVars, mainVars, callVars>>

(* The smoother's next command is computed under the lock and sent after   *)
(* it is released.                                                         *)
Command ==
  /\ ctl = "command"
  /\ Goto(IF enabled /\ hot /\ ready /\ hasCommand THEN "send" ELSE "top")
  /\ UNCHANGED <<flagVars, cmdVars, mainVars, callVars, sdkVars>>

Send ==
  /\ ctl = "send"
  /\ Goto("top") \/ Goto("raise")
  /\ UNCHANGED <<flagVars, cmdVars, mainVars, callVars, sdkVars>>

(* A failed tick ends the loop for good.                                   *)
TickFailed ==
  /\ ctl = "raise"
  /\ failed' = TRUE
  /\ enabled' = FALSE
  /\ ctl' = "exit"
  /\ UNCHANGED <<hot, attempted, cmdVars, pubReady, mainVars, callVars, sdkVars>>

MustDisable == (hot \/ attempted) /\ handle

Exit ==
  /\ ctl = "exit"
  /\ \/ /\ MustDisable
        /\ Goto("exitDisable")
        /\ UNCHANGED <<enabled, hasCommand>>
     \/ /\ ~ MustDisable
        /\ enabled' = FALSE
        /\ hasCommand' = FALSE
        /\ Goto("close")
  /\ UNCHANGED <<hot, attempted, ready, fromArm, mainVars, callVars, sdkVars>>

ExitDisable ==
  /\ ctl = "exitDisable"
  /\ \/ DisableReturns /\ hot' = FALSE /\ attempted' = FALSE
     \/ DisableRaises /\ UNCHANGED <<hot, attempted>>
  /\ enabled' = FALSE
  /\ hasCommand' = FALSE
  /\ Goto("close")
  /\ UNCHANGED <<ready, fromArm, mainVars, callVars>>

Close ==
  /\ ctl = "close"
  /\ ctl' = "dead"
  /\ pubReady' = TRUE
  /\ UNCHANGED <<flagVars, cmdVars, failed, mainVars, callVars, sdkVars>>

-----------------------------------------------------------------------------
(* The main thread: start_loop, later disconnect                           *)

StartLoop ==
  /\ main = "boot"
  /\ main' = "starting"
  /\ ctl' = "create"
  /\ UNCHANGED <<flagVars, cmdVars, failed, pubReady, stop, connected, handle,
                 callVars, sdkVars>>

Started ==
  /\ main = "starting"
  /\ pubReady /\ ~ failed
  /\ main' = "up"
  /\ UNCHANGED <<flagVars, cmdVars, loopVars, stop, connected, handle, callVars,
                 sdkVars>>

(* disconnect: set_enabled(False) when the loop thread is alive, which may *)
(* have to wait; then stop() raises the stop event.                        *)
DisableOrStop ==
  IF Alive THEN /\ enabled' = FALSE
                /\ hasCommand' = FALSE
                /\ \/ hot /\ ~ failed /\ main' = "disabling" /\ UNCHANGED stop
                   \/ (~ hot \/ failed) /\ main' = "join" /\ stop' = TRUE
           ELSE /\ main' = "join"
                /\ stop' = TRUE
                /\ UNCHANGED <<enabled, hasCommand>>

(* start_loop timed out or found the publisher failed: start_hands         *)
(* disconnects.                                                            *)
StartFailed ==
  /\ main = "starting"
  /\ ~ pubReady \/ failed
  /\ DisableOrStop
  /\ UNCHANGED <<hot, attempted, ready, fromArm, loopVars, connected, handle,
                 callVars, sdkVars>>

Disconnect ==
  /\ main = "up"
  /\ DisableOrStop
  /\ UNCHANGED <<hot, attempted, ready, fromArm, loopVars, connected, handle,
                 callVars, sdkVars>>

(* Its set_enabled(False) ends, with or without the hardware being off.    *)
DisconnectStops ==
  /\ main = "disabling"
  /\ main' = "join"
  /\ stop' = TRUE
  /\ UNCHANGED <<flagVars, cmdVars, loopVars, connected, handle, callVars,
                 sdkVars>>

(* The thread has ended, or two seconds have passed.                       *)
Joined ==
  /\ main = "join"
  /\ main' = "release"
  /\ mishaps' = mishaps \cup IF Alive THEN {"outlived"} ELSE {}
  /\ UNCHANGED <<flagVars, cmdVars, loopVars, stop, connected, handle, callVars,
                 power, stuckOn>>

(* Mutant: an enable() under way that has not returned is overlooked.      *)
ReleaseKnownHot ==
  /\ main = "release"
  /\ \/ main' = "final" /\ mishaps' = mishaps \cup {"unclosed"}
     \/ /\ main' = IF hot THEN "lastDisable" ELSE "drop"
        /\ UNCHANGED mishaps
  /\ UNCHANGED <<flagVars, cmdVars, loopVars, stop, connected, handle, callVars,
                 power, stuckOn>>

(* Closing the joint state subscription may raise: then the rest is        *)
(* skipped.  Otherwise a flag that is still up asks for a last disable.    *)
ReleaseSdk ==
  /\ main = "release"
  /\ \/ main' = "final" /\ mishaps' = mishaps \cup {"unclosed"}
     \/ /\ main' = IF hot \/ attempted THEN "lastDisable" ELSE "drop"
        /\ UNCHANGED mishaps
  /\ UNCHANGED <<flagVars, cmdVars, loopVars, stop, connected, handle, callVars,
                 power, stuckOn>>

LastDisable ==
  /\ main = "lastDisable"
  /\ \/ DisableReturns /\ hot' = FALSE /\ attempted' = FALSE
     \/ DisableRaises /\ UNCHANGED <<hot, attempted>>
  /\ main' = "drop"
  /\ UNCHANGED <<enabled, cmdVars, loopVars, stop, connected, handle, callVars>>

(* hand.disconnect(), which may raise.                                     *)
DropHandle ==
  /\ main = "drop"
  /\ handle' \in BOOLEAN
  /\ main' = "final"
  /\ UNCHANGED <<flagVars, cmdVars, loopVars, stop, connected, callVars, sdkVars>>

Final ==
  /\ main = "final"
  /\ main' = "down"
  /\ enabled' = FALSE /\ hot' = FALSE /\ attempted' = FALSE
  /\ connected' = FALSE
  /\ UNCHANGED <<cmdVars, loopVars, stop, handle, callVars, sdkVars>>

-----------------------------------------------------------------------------
SetEnabled ==
  SetEnabledTrue \/ EnableWaitEnds \/ SetEnabledFalse \/ DisableWaitEnds

ControlLoop ==
  \/ CreatePublisher \/ Snapshot \/ BeginEnable \/ EnableOk \/ EnableFailed
  \/ Rollback \/ Disable \/ Command \/ Send \/ TickFailed
  \/ Exit \/ ExitDisable \/ Close

MainThread ==
  \/ StartLoop \/ Started \/ StartFailed \/ Disconnect \/ DisconnectStops
  \/ Joined \/ ReleaseSdk \/ LastDisable \/ DropHandle \/ Final

Next ==
  \/ SetEnabled \/ SetJointTarget \/ FirstJointState
  \/ EnableTakesEffect
  \/ ControlLoop
  \/ MainThread

Spec == Init /\ [][Next]_vars

(* The control thread runs at its rate, and SDK calls return or raise.     *)
Fairness == WF_vars(ControlLoop)

FairSpec == Spec /\ Fairness

-----------------------------------------------------------------------------
(* Properties                                                              *)

(***************************************************************************)
(* Powered motors are never forgotten: until disconnect is through with    *)
(* them, one of the two flags that make the exit paths call disable is     *)
(* set, or the SDK has refused to switch them off.                         *)
(***************************************************************************)
PowerIsKnown == power /\ ~ Released => hot \/ attempted \/ stuckOn

(***************************************************************************)
(* Once disconnect has released a hand its motors are off, unless the SDK  *)
(* refused to switch them off, or the control loop outlived the join of    *)
(* two seconds and then either closing the joint state subscription raised *)
(* and the last disable was skipped, or the loop's enable() took effect    *)
(* behind the release.  disconnect itself reports none of this.            *)
(***************************************************************************)
ReleasedIsCold ==
  Released /\ power =>
    stuckOn \/ ("outlived" \in mishaps /\ mishaps # {"outlived"})

(***************************************************************************)
(* A caller that has been told the hand is disarmed can rely on it that no *)
(* joint command is sent any more, although send runs outside the lock.    *)
(***************************************************************************)
SilentWhenDisarmed ==
  answer = "disarmed" /\ caller = "idle" /\ ~ Released => ctl # "send"

(***************************************************************************)
(* The loop never starts to send a target that was set before the last     *)
(* set_enabled(True): a re-armed hand waits for a new command.             *)
(***************************************************************************)
SendsOnlyNewTargets == [][ctl # "send" /\ ctl' = "send" => fromArm]_vars

(***************************************************************************)
(* A withdrawn request reaches the motors, through a late enable, a failed *)
(* tick or a stopped loop, unless the SDK refuses or the hand is gone.     *)
(***************************************************************************)
WithdrawnGoesCold ==
  ~ enabled ~> (~ power \/ enabled \/ stuckOn \/ Released)

(* The worker behaves as ControlAuthority assumes.                         *)
Interface == INSTANCE HandInterface WITH
  hand <- [enabled |-> enabled, hot |-> hot], busy <- caller

ImplementsInterface == Interface!Spec

=============================================================================
