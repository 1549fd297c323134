# Formal models of the MANUS → Wuji Hand 2 teleoperation

This directory holds TLA+ models of the teleoperation stack of this repository,
the configurations with which TLC checks them, and theorems about them that the
TLA+ proof system (TLAPS) has checked.  It is about the part of the program that
decides whether **motors are powered and where they go**: who may power them, when
they must be switched off, which joint is moved by what the user does, and what
happens to that when threads, sockets, hardware calls, sensors, signals and users
do not come in the order one had in mind.

## 1. Inventory

```
 MANUS gloves            x86 client process                     backend process (x86)
 ───────────   ROS 2   ─────────────────────  TCP JSON lines  ───────────────────────────
 Manus-                ManusWujiBridge                         BridgeServer
 DataPublisher ──────► ├ ROS thread (frames, status, haptics)  ├ main thread (accept, signals)
   (C++)     ◄──────── ├ retarget worker + 2 solvers   ──────► ├ one SafeClientSession / client ┐
            vibration  └ WujiClient receive thread     ◄────── ├ deadman watchdog ──────────────┤
                                                               └ ControlAuthority (one lock) ◄──┘
                                                                   └ HandWorker × 2 ── wuji-sdk
```

| Component (source) | State it keeps | Operations | Hard behaviour | What makes it correct |
|---|---|---|---|---|
| **ControlAuthority** `bridge/wuji_manus_bridge/control.py:63-268` | lease owner, armed sides, deadman stamp, last `seq` and `t_ms` of each side; one lock | `arm`, `disarm`, `accept_command`, `expire`, `disconnect`, `status_for` | called by every session and the watchdog; reads the clock before it has the lock; hands block up to 1 s inside it and may fail half-way | one controller; an owner exactly while a side is armed; no hand enabled without a responsible side; no replay; a silent side is dropped, and only then |
| **HandWorker** `hand_worker.py` | request flag, hardware flag, "enable attempted", command and state flags, errors, subscriptions, newest touches | discovery, `connect`, `set_enabled`, `set_joint_target`, control loop, SDK callbacks, `start_loop`, `disconnect` | SDK calls run outside the lock, block, fail, or fail after taking effect; callers time out; addresses move; sensors change their layout | motors that may be on are never forgotten; nothing is sent after a disarm; a withdrawn request reaches the motors; a side has its own hand; a failed start leaves nothing open |
| **SafeClientSession** `control.py:271-513` | receive buffer, hello flag, stop event | `run`, `send`, `_handle_message`, `stop` | TCP cuts lines anywhere; client stops reading, leaves, writes too much; hands raise | every line once and in order; one answer each; honest answers; no lease survives the session |
| **BridgeServer** `server.py` | stop event, shutdown flag and lock, client list, socket, watchdog | `serve_forever`, `_watchdog_loop`, `shutdown` (from `finally`, `atexit`, SIGINT, SIGTERM) | the signal handler runs inside the main thread between any two steps; joins time out | every exit ends with cold motors, as far as the SDK lets it |
| **ManusWujiBridge + WujiClient** `bridge/x86/` | newest frame per side, frame event, stop event, pending vibration, socket | glove callback, retarget worker, haptic and status timers, receive thread, `shutdown`, `close` | slow, failing or hanging solvers; sends that block or stop half-way; an interrupt at any time | only the newest frame is used; nothing is armed behind the last disable; shutdown ends |
| **JSONL protocol** `protocol.py` | none | `dumps`, `loads_line`, `normalize_positions` | – | exactly 20 finite numbers, strict JSON |
| **JointSmoother** `smoother.py` | filtered position, target | `reset`, `set_target`, `step` | state that survives a disarm | never faster than the slew limit |
| **Simulated hand and server** `sim/wuji_hand_sim/` | flag, smoother, actuator targets, pose in MuJoCo; the server as BridgeServer | `set_enabled`, `set_joint_target`, control loop, scene; start, serve, `shutdown` | the pose is read before the lock is taken; MuJoCo may diverge; a signal comes anywhere in the start | held where the disarm found it until MuJoCo resets; each actuator follows its own joint; slew limit |
| **Tactile, haptics** `tactile.py`, `x86/haptics.py` | layout per fingertip | decoding, force to vibration | the layout may be stale, unstated or not understood | the glove feels touches there were; full vibration is never exceeded |
| **Joint order, keypoints, retargeting adapter** `bridge/x86/` | the chosen solver | functions of a frame; checks of the installation | every order comes from a different external model; installations change | no joint is mixed up; no solver that stays at its limits |
| **ManusDataPublisher** `manus/ros2/src/` | newest skeleton, sensor data and landscape of each glove, publishers | 3 SDK callbacks, publish timer, vibration callback, destructor | callbacks on SDK threads, three mutexes, pointers handed over | what is published belongs to the glove; gloves end at rest |
| **Glove tools** `manus/bridge/` | newest skeletons | `skeleton_bridge`, `haptic_cycle`, `pair_gloves` | SDK callback against a send loop | – |
| Platform layer, scripts, examples, tests | – | – | – | not modelled (§7) |

How they interact: the client is the only writer that a session serves at a time
(the *lease*); a session calls the authority under its lock; the authority calls
the hands inside that lock; a hand talks to its control loop by flags and a
condition variable; the server's main thread tells sessions, watchdog and hands
to stop.  The hazards that follow from it are listed, with their lines and the
properties that cover them, in `PROJECT.json` ("hazards").

## 2. Modules

| Module | Models | Relation |
|---|---|---|
| `ControllableHand` | what the authority may assume of a hand (the Protocol class in `control.py`): sets of possible after-states of each call | used by `ControlAuthority`, `HandInterface` |
| `HandInterface` | the same as a state machine: call, return, loop | **abstract**; implemented by `HandWorker` |
| `ControlLease` | what the protocol promises: one holder, exactly while a side is armed; accepted commands strictly increase | **abstract**; implemented by `ControlAuthority` |
| `ControlAuthority` | the authority, its callers, its lock, the clock | refines `ControlLease` |
| `MCControlAuthority` | the symmetry of the clients for TLC | |
| `ControlAuthorityProofs` | theorems about it | |
| `HandWorker`, `HandWorkerProofs` | one hand with control loop, callers, SDK and main thread | refines `HandInterface` |
| `BridgeServer`, `BridgeServerProofs` | process life: start, accept, signals, shutdown, end; hands whose SDK refuses, raises or comes too late | sessions, authority, hands coarse |
| `HandSensors`, `HandSensorsProofs`, `MCHandSensors` | discovery, `connect()`, subscriptions, callbacks, a touch on its way to the glove | uses `Tactile`; the rest of a hand is in `HandWorker` |
| `Tactile` | layouts, decoding and intensity of fingertip frames | operators |
| `SimHand`, `SimHandProofs` | the simulated hand with its loop, scene and server process | uses `JointOrder`, `JointSmoother` |
| `JointSmoother`, `JointOrder` | filter and speed limit; reordering by name and validation of a vector | operators |
| `ManusKeypoints`, `RetargetAdapter` | a glove's nodes to points; which solver may start, and its output as a command | operators |
| `SimTeleop`, `SimTeleopProofs`, `MCSimTeleop` | glove → keypoints → solver → reordering → simulated hand, with restarts of the client | **composes** `SimHand`, `ManusKeypoints`, `RetargetAdapter` |
| `SafeClientSession`, `SafeClientSessionProofs` | one session and its TCP stream | authority coarse |
| `ManusWujiBridge`, `ManusWujiBridgeProofs` | the teleoperation client and its stream | server coarse |

The composition is by contract.  `ControlAuthority` drives hands that behave like
`ControllableHand`; `HandWorker` is proved to behave like `HandInterface`, which
is built from the same operators.  `SafeClientSession` and `BridgeServer` use the
authority as `ControlLease` describes it, one step per locked call, with other
clients and the deadman free to act in between.  `ManusWujiBridge` sees the server
as "a whole enable line arms, a whole disable line disarms, the deadman or the end
of the connection disarms everything".  `SimTeleop` is the other composition, along
the data: it follows one frame from the glove's nodes to the actuators, and leaves
threads and sockets to the modules above.

### How state and actions correspond to the code

* Variables carry the attribute's name without underscores (`armed` is `_armed`,
  `lastCmd` is `_last_command_monotonic`, …); every declaration names it.
  `PROJECT.json` ("map") gives the source lines of every definition.
* A block under a lock in which nothing blocks is one action.  A call that blocks
  (`set_enabled`, `hand.enable()`, `hand.disable()`, `publisher.send()`,
  `sendall`, `join`, waiting for a lock) is a state in which others run.
* **ControlAuthority**: a thread *begins* a method (reading the clock where the
  code does), waits for the lock, *enters*, and then works through the sides:
  `ArmSide`/`ArmSideDone`/`ArmSideRaises` with `Cleanup` for the disable after a
  failed enable, `DropSide`/`DropSideDone`/`DropDone` for `_disable_side_locked`
  in disarm, expire, disconnect and the rollback.  The loops run over sides in any
  order, which includes the code's.  `crit.todo = {}` is the end of a loop.
* **HandWorker**: `ctl` is the program counter of `_control_loop` and `_tick`;
  `Snapshot` is the first locked block of `_tick`, the decision it leads to is the
  next state.  `EnableTakesEffect` lets the motors come on at any moment of
  `hand.enable()`, also of one that raises later.  `disconnect` is followed call by
  call; `mishaps` records, for the property, that the loop outlived its join, that
  closing a subscription or the hand raised, or that the motors came on behind the
  release.  `SimHandWorker` differs in one point that `ControllableHand` does not allow
  for (its disable may raise before it withdraws the request); it is modelled on its
  own in `SimHand`.
* **BridgeServer**: `frames` is the stack of shutdown calls on the main thread; a
  signal pushes one between any two steps, as CPython's handler does.  `stage` is
  the position of the one call that passed the flag.  Authority and hands are coarse:
  an arm is for all hands and a drop for all.  The hands in `Faulty` do what
  `HandWorker.disconnect` lets happen: a disable that is refused or times out is only
  logged (`hand_worker.py:453-455, 480-483`), `_state_sub.close()` may raise before the
  last disable (`:468`), and an `enable()` in flight may outlive the join (`:444-447`;
  `late`, `LateEnable`).
* **SafeClientSession**: the stream is lines of two pieces; what a line says is
  chosen when it is parsed, for nothing depends on it earlier except its length.  An
  answer counts as given only when its `sendall` wrote all of it onto a whole line.
  State and tactile telemetry have timers of their own; building a snapshot may raise.
* **ManusWujiBridge**: frames are numbers, a batch is what the worker took, a
  solver ends with a result, an error, or never.  A send takes 0 to `SendTimeout`
  ticks and writes all, a part or nothing.
* **HandSensors**: `main` walks through `discover_hand2_devices`, `start_hands` and
  `connect`; every SDK call has its failure.  A fingertip's frame is a sequence of
  cells written in the layout the sensor has *now* and read in the layout stored at
  `connect`; one cell stands for the bytes of one field.  The `disconnect()` of a hand
  that fails its identity check may raise too, and the hand is then released by
  `start_hands`.  A control thread that outlives its join (`hand_worker.py:457-459`) is
  in `HandWorker`.
* **SimHand**: `set_enabled(False)` is two steps, `DisableReads` and `DisableHolds`,
  because the pose is read before the worker's lock is taken; what happens under
  that lock is one.  A signal pushes `shutdown` from `resume`; inside one of
  `connect`'s locks it hangs the main thread (`SignalInsideLock`).  The variables
  from `asked` to `writer` record the past for the properties and are read by no
  action.  `Resets` is what `mj_step` does with a state that is not finite: the pose
  *and every control* of the model go back to their initial values.
* **SimTeleop**: a frame carries, besides its nodes, the hand it shows and where
  (for the properties only).  `Returned` is what a solver may come back with: the
  right numbers, too few, or one that is none.

## 3. Model checking

All counters are bounded by the constants named *bound* in the modules.

| Run | Question | Bounds, and why they are enough |
|---|---|---|
| `authority_two_sides` | `LeaseInv`, `RequestInv`, `LeaseEndsWithSession`, `DroppedByRight` under failing, half-done and rolled-back arms | 2 clients (symmetric), 2 hands, one command, one tick and `Timeout = 1` (a deadman can be due): rollback needs a second side, `control_busy` a second client; no property relates three |
| `authority_one_side` | `StampNeverBack`, `ImplementsLease`, `SilentSideEnds` | 2 clients, 1 hand, 2 sequence numbers and 2 stamps, so two commands in one lease, a repeated number and a repeated stamp; one tick with `Timeout = 1` and `MaxAge = MaxSkew = 0`, so a reading can be stale, a side can be due, a stamp can be too old or too new.  All but `SilentSideEnds` are proved for every bound |
| `hand_worker` | power, silence and liveness of one hand; `ImplementsInterface` | the model has no constants and is finite: the check is exhaustive.  All but `WithdrawnGoesCold` are proved too |
| `bridge_server` | `ColdExit`, `DeadlockKeepsDeadman`, `SignalEndsProcess` | 2 sessions (one running, one being set up), 2 hands (one whose SDK is at fault, one that must be cold nevertheless), 2 signals on top of the calls from `finally` and `atexit` (nesting, also inside a shutdown that has begun).  The invariants are proved for any number of each |
| `exit_disables` | is every exit cold, for hands whose SDK is not at fault? **No** | one signal suffices |
| `client_session` | lines, answers, lease and end of a session | 3 lines (hello, arm, command) of 2 pieces: every cut inside, at and across a newline; a send buffer for 1 message so that it fills |
| `one_object_per_line` | does every object end with a newline? **No** | the same |
| `teleop_bridge` | `LatestOnly`, `DisableComesLast`, `DisabledBeforeClose`, `CachedFrameIsTaken`, `ShutdownEndsCold` | 2 sides, 2 frames (one at work, one cached), send timeout 1 and join 3 ticks: the proportions of the code's 1 s and 3 s |
| `vibration_cleared` | is the vibration cleared at shutdown? **Not always** | 1 side, 1 frame |
| `sim_teleop` | `DisarmedHolds`, `FollowsCommand`, `DrivenOnlyUnread`, `SlewWhileDriven` from the glove to the actuators | 3 joints: the smallest number with a permutation that is not its own inverse (`MCCycle`), so that a reordering the wrong way round shows; two hands, and a rest pose, that tell the joints apart; good and bad frames (missing node, repeated key or id, flat palm, collapsed bone, no number); 6 installations: today's, on which the SDK's solver starts and the retargeter does not, one on which both start, and four with one thing wrong, each of which must stop one of them; 1 grid step per tick, targets 2 apart, so that the limit bites |
| `rearm_jump` | does the limit hold from the hold pose too? **No** | a hand that starts at its actuators' targets, which moves while it is disarmed |
| `hand_sensors` | `RightHand`, `NothingLeftBehind`, `TouchIsReal` | 2 hands, 2 addresses (a swap), 1 fingertip, 3 descriptions: the official layout without a statement, one of the same length in another order and scale, one that reads behind its stride; a touch below and one above full vibration |

The models directory pinned today is of generation `hand2_beta1`, with which the
adapter never starts the retargeter; `MCSimTeleop` therefore also looks at an
installation of generation `hand2`, so that both solvers run.

`CHECK_DEADLOCK FALSE` is used for `ControlAuthority` (the bounded clock and the
client sessions may end), `HandWorker` (a disconnected hand) and `BridgeServer`
(the end of the process, and the self-deadlock the model is about), and for
`SimTeleop` and `HandSensors` (their processes end).  The session and the bridge have an explicit final stutter, and deadlock is checked there.

### Fairness

* `ControlAuthority`: whoever holds the lock goes on, because `set_enabled` waits
  at most a second; when the lock is free *some* waiter gets it (weak fairness of
  the disjunction, not of each waiter: `threading.Lock` is not fair); watchdog and
  sessions come round to `expire` because `Event.wait(0.025)` and
  `select(…, 0.005)` time out.  Clients owe nothing, and time need not go on.
* `HandWorker`: the control loop goes on; SDK calls return or raise.  Nobody has
  to call anything.
* `BridgeServer`: the main thread and the holder of the authority's lock go on.
  The watchdog, and a session that was told to stop, get the lock at last
  (strong fairness): everyone else leaves it free while in `select`, `recv` or
  `wait`.  `DeadlockKeepsDeadman` is about a main thread that stands still for good; it
  assumes in its own antecedent (`Deadman`) that the threads which look at the deadman
  get the lock at last, and excepts clients that keep sending for ever, for a session
  works off what it has received before it looks.
* `SafeClientSession`: only its own thread.  The client need not read, write or close.
* `ManusWujiBridge`: the threads and the clock go on, a solver comes back *or
  hangs*; nothing is asked of gloves, server or user.
* `SimTeleop` and `HandSensors` are checked for safety only and assume no fairness.

### Findings

1. **`ExitDisables`** (bug): a signal between `_clients.append(session)` and
   `session.start()` (`server.py:137-138`) makes `shutdown()` join an unstarted
   thread, which raises; the hands are not disconnected and no later call gets past
   `_shutdown_started`.  A hand stays powered then if a session that is armed also
   outlives its own two-second join, which slow but successful SDK calls inside the
   authority's lock allow.  `ARCHITECTURE.md:159` promises that every exit disables.
2. **`OneObjectPerLine`** (bug): after a `sendall` that failed half-way, `send()`
   sets the stop event but the rest of the batch and the telemetry are still sent
   (`control.py:308-313, 342-371`), so objects are glued to a cut one;
   `schema.md:5` says each ends with a newline.
3. **`VibrationCleared`** (bug): `shutdown()` stores the zeros and publishes them in
   two locked sections (`manus_wuji_bridge.py:422-426`); the receive thread may
   overwrite them in between.  `X86_MANUS_INTEGRATION.md:106` promises the clearing.
   When the ROS context is already gone (`rclpy.ok()` false, line 421) it is skipped
   altogether; the property says nothing of that case.

4. **`SlewLimited`** (bug): a disarm sets only the smoother's *target* to the pose the
   hand is held in (`sim_hand_worker.py:97-103`, `hand_worker.py:364-365`); its
   filtered output stays where it was (`smoother.py:94-99`) and nothing resets it at
   the next arm.  The first tick after that sends a value one step from the *old*
   output, however far the hand has moved since.  `ARCHITECTURE.md:84` says that
   commands are sent behind low pass and speed limit, `smoother.py:8` that the limit
   is per joint.  While the hand stays armed the limit holds (`SlewWhileDriven`).

Met while modelling, without a run of their own:

* `arm()` reads the clock before it waits for the lock and the hardware
  (`control.py:102`, stored at `:133`), while `schema.md:45` says the deadman runs
  from the arm: after a slow arm a side may expire at once, and likewise one whose
  command waited for the lock (`:181`).  `DroppedByRight` therefore speaks of the
  *beginning* of the handling, and says so; the promise of `schema.md` is not claimed.
* The authority's lock is held during `set_enabled`'s wait of up to a second, so the
  watchdog depends on client threads, against `ARCHITECTURE.md:158`;
  `SilentSideEnds` shows that it is a delay and not a loss.
* A `joint_cmd` with `enable:false` whose hand raises ends the session without an
  answer (`control.py:435-440`).
* `HandWorker.disconnect` may release a hand whose motors are on, without an exception:
  the SDK refused to switch it off, or the loop outlived its join (`ReleasedIsCold`
  lists the ways).  So `ColdExit` promises nothing of a hand in `Faulty`.
* A second signal may block the main thread in its own handler at any point of a
  shutdown, also when the watchdog has been told to stop; until the clients fall silent
  the hands are then guarded by the sessions alone (`DeadlockKeepsDeadman`).
* When MuJoCo resets a simulation that has diverged, a disarmed simulated hand is held
  nowhere: `mj_resetData` zeroes every control, and nothing sets it again before the
  next arm or disarm, although `sim_hand_worker.py:100` has it that an actuator retains
  its previous ctrl for ever.  `DisarmedHolds` excepts it.
* The simulated hand drives after an arm without a command, unlike the real one; and
  a disarm that cannot read the scene leaves it driven although the authority has
  dropped the side (`sim_hand_worker.py:92-95`; `DrivenOnlyUnread` says it is the
  only way).
* A signal inside a lock of the simulated hand's `connect()` blocks the main thread
  in its own `shutdown` (`SignalInsideLock`).
* A fingertip frame without a digest, or a sensor that stated none, is decoded with
  the stored layout even when that is stale; `TouchIsReal` is about frames that name
  theirs.

## 4. Proofs

TLAPS proves the following for all values of the constants that satisfy the named
assumptions, hence for any number of clients, sides, messages, frames and ticks.

**`ControlAuthorityProofs`** (assumptions `ThreadAssumption`, `NumberAssumption`).
`LeaseInv` is not inductive by itself: inside the lock an arm already owns the
lease without a side, and a drop has its last side behind it and still owns it.
`IInv` adds `LockInv` (one thread is inside, and `crit` is blank when nobody is)
and `MethodInv` (an arm inside the lock owns the lease, and the sides it was asked
for are armed, under way or still to do; one `set_enabled` is under way at a time;
a disconnect still has every armed side before it).  `TypeCorrect`, `LeaseCorrect`,
`RequestCorrect` and `LeaseEnds` follow.  `StampInv` (no stamp and no reading taken
before the lock is ahead of the clock; the command with which the owner waits was
timed after the stamps it may replace; what expire still has to drop is due) gives
`StampMonotonic`; with `DropInv` (the sides a method still has to drop are its own: an
arm stamped them itself, a disarm names them, a disconnect is the owner's) it gives
`DropsAreRight`.  `WindowInv` (the arm that brings the first side
finds blank windows) together with `IInv` gives `Implementation`: the initial state
maps to the initial state, and each action to a `Grant`, a `Revoke`, an `Accept` or
a stutter of `ControlLease`.

**`HandWorkerProofs`** (no constants).  TLC's check of this finite model is complete;
the proofs say *why* it holds.  `PowerIsKnown` needs `EnableRecorded` (while
`hand.enable()` runs, `_enable_attempted` is set, so motors that come on at any
moment of the call are accounted for); `SilentWhenDisarmed` needs `SendIsHot` (a
loop that sends has powered motors, and so keeps the waiting caller waiting) and
`Withdrawn` (who was told "disarmed" has no request pending).  `ReleasedCold` follows
`disconnect` from its join on: motors that are on behind the release were refused by
the SDK, or the loop was alive behind its join and something else went wrong too.
`NewTargetsOnly`
rests on `TargetInv`: outside the exit path a target that is still stored belongs
to the request in force, or request and connection are gone.  `Implementation` maps
each step to a call, a return or a loop step of `HandInterface`, or a stutter.
`ControlAuthority` builds its hands from the same operators, so its proofs hold of
hands that this worker drives.

**`SafeClientSessionProofs`** (`SessionAssumption`).  `IInv` is the type invariant
with `Lines` (what was split off is 1..n, and the buffer is the rest of what was
taken), `Lease` (a session behind its `finally` owns nothing; a side about to be
answered as armed is armed or lapsed), the budget of telemetry rounds, `Answering`
(what is answered is done with and not silent, and until a send fails or the session is
stopped nothing done with is missing), `CutStops` (a message that was cut has stopped
the session) and `InTurn` (the answers are in the order of the lines).  `NoLineLost`, `EveryLineAnswered`, `OkIsHonest` and `LeaseReleased` follow.

**`ManusWujiBridgeProofs`** (`BridgeAssumption`, in particular
`2 * SendTimeout < JoinTimeout`).  The heart is `SendBudget`: while `shutdown`
waits in its join and the worker is still sending, the ticks the join has left
exceed what the sends can still take; so a join that times out finds the worker
in a solver, from where it never sends again, because `_stop` is read first.
`NoArmBehindDisable`, `FramesInOrder` and `ColdBeforeClose` follow.

**`BridgeServerProofs`** (`ServerAssumption`).  `ColdExit` needs to know that
shutdown runs once: `OneBody` (at most one call on the stack is past the flag) and
`StageInv` (its stage agrees with the flag and the event; a body that is not done is
on the stack unless it raised; none is left when it is done).  `EndInv` says that
the process ends only behind a call of shutdown, `SessionInv` that sessions come
after hands and watchdog, `HandInv` that only a hand at fault is powered while it is
not connected, and that a hand connected behind the shutdown was connected where no
session exists.  `EndsCold` follows, for any number of signals, sessions and hands and
any set of hands at fault.
`TypeCorrect` needs two things more: that the list of clients, which `Prune`
filters by a recursive function, stays a list of sessions (`RunningIsAList`, from
the least position to which the function could not be built, with `WFMin` of the
library), and `StackBound` (there is at most one call of shutdown per signal, and
one more).

**`SimHandProofs`** (`SimAssumption`, `MaxStepAssumption`).  The invariant is the
conjunction of types, `BeforeService` (no command, tick or driven hand before the
sessions), `ResumeKnown` and the three safety properties, which are then inductive
together; `PhysicsKeeps` confines what MuJoCo does to them.  The lemmas on orders (`PositionOfName`, `NameOfPosition`,
`ActuatorGetsItsJoint`) say that a value arrives at the actuator of its name for
*every* permutation; `SlewBounded` and `StepBounded` bound a step of the smoother
for every limit.

**`SimTeleopProofs`** (also `TeleopAssumption`, see below).  `KeypointsAreTheHand`
(a frame's points are the hand it depicts, wherever the glove is and however it
lists its nodes), `OnlyRightIsUsable` and `FirmwareOrder` together give
`GloveCommands`: a frame that is accepted is a command that means what it says.  So
each step of `TeleopSpec` is a step of `SimHandProofs` or leaves the hand alone,
and its theorems carry over.  `BackendOK` is what the adapter's checks establish of
a solver.

**`HandSensorsProofs`** (`SensorsAssumption`).  `TurnOf` says what the side whose turn
it is has so far, `Others` that the sides before it are served or clean and the sides
behind it untouched; `OwnHand` and `CleanStart` follow for any number of sides.
`TouchReaches` (also `FrameAssumption`) follows a touch through the cells of a frame:
what is written is found at the place where the same layout reads it, in every point
and in the aggregate (`RowAndPlace`, `CellsHold`, `WrittenHolds`), so a frame gives
back its touch (`DecodedIsWritten`); and a format with a digest is the layout of a
sensor with that digest (`FormatHolds`), so a frame that is decoded by its digest is
decoded in the layout it was written in.  `TypeCorrect` needs `DecodedIsBounded` for
the frames without a digest, which may mean anything, but no more than full vibration.

Assumptions about code outside `src/`, stated as named ASSUMEs: a frame that passes
the checks shows a hand (`Depicts`); the pinned SDK answers in firmware order, as
`wuji_retargeting_adapter.py` says; the names in a robot model are those it reports
(`TeleopAssumption`, `SimAssumption`); a sensor that does not state its layout uses
the official one (`SensorsAssumption`); every layout a sensor writes has an `fz`, sizes
that are numbers, and forces in a unit in which `fz` scales are whole and touches their
multiples, and a digest names one layout, as `hand_worker.py:308-321` relies on
(`FrameAssumption`, which also says that the constants of `tactile.py` pass its own
parser).  In the model, not as an ASSUME: a fingertip's subscription that could not be
closed ends with its hand's connection.

Every safety invariant, every action property and both refinements that the passing
runs check are theorems.  Only model-checked are the seven liveness properties
(`SilentSideEnds`, `WithdrawnGoesCold`, `SignalEndsProcess`, `DeadlockKeepsDeadman`,
`AbandonedSessionEnds`, `CachedFrameIsTaken`, `ShutdownEndsCold`): fairness and ENABLED are beyond the prover.
The four properties of the findings are false of the code; what it keeps in their
neighbourhood (`ColdExit`, `LinesInOrder`, `DisabledBeforeClose`, `SlewWhileDriven`)
is proved.

## 5. Reading a property

Every property carries a comment that says what it means and which code it is
about.  Every property of a passing run has a *mutant* in `PROJECT.json`: a
plausible slip in the code (a dropped guard, a check before a lock, a missing
reset), written as a definition next to the original, under which TLC finds the
property violated.  Such definitions (`DisableKeepsTarget`, `TickUnasked`, …)
are used by nothing else.

## 6. Plan

Done: items 1–8.

1. `ControlLease`, `ControllableHand`, `ControlAuthority` and its proofs.
2. `HandInterface`, `HandWorker`.
3. `BridgeServer` and its proofs.
4. `SafeClientSession` and its proofs.
5. `ManusWujiBridge` and its proofs.
6. `JointSmoother`, `JointOrder`, `SimHand` and its proofs.
7. `ManusKeypoints`, `RetargetAdapter`, `SimTeleop` and its proofs.
8. `Tactile`, `HandSensors` and its proofs.
9. `GlovePublisher`: the driver's three callbacks under three mutexes, its timer,
   vibration and destructor; what is published for a glove comes from that glove, and
   from when (a skeleton of a glove that fell silent is published again).
10. `Teleop`: the composition client – stream – authority on the abstract level
    (`ControlLease` with lines in flight): after the last line of a shutdown or the
    loss of the stream the sides go cold.

## 7. Not modelled, and why

* `ManusDataPublisher` and the glove tools (C++): item 9 of the plan; the tools are
  stand-alone programs of a person at a terminal.
* Inverse kinematics, MuJoCo, the SDKs: external.  They appear as what the code can
  observe: an answer in some order, a wrong one, none; a pose, a diverged state; a
  call that returns, raises or raises after it has taken effect.
* Geometry in space: keypoints are points of a plane with the glove's axis mirrored,
  and a bone or palm that is too small is one that is nothing.
* `reset()` of the solvers: their warm start and filters are external.
* The accept loop and the nested second signal of `SimBridgeServer`: the same code as
  `BridgeServer`, modelled there.
* JSON encoding, argument parsing, logging, statistics, the viewer, topic discovery
  and the calibration of a glove's side: input and output before anything is powered.
* In `ManusWujiBridge` the end of the connection disarms at once (what the server does
  then is in `SafeClientSession`), and the join of the receive thread in `close` is left
  out.  In `BridgeServer` the locks inside a hand during its start are left out.
* Real time: clocks are ticks; only the order of timeouts matters to the properties,
  and where a proportion matters (`2 * SendTimeout < JoinTimeout`) it is an assumption.
* Platform layer, scripts, examples, visualisers: input and output without protocol.
