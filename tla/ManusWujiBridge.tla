-------------------------- MODULE ManusWujiBridge --------------------------
(***************************************************************************)
(* ManusWujiBridge and its WujiClient (bridge/x86/manus_wuji_bridge.py,    *)
(* wuji_client.py): the ROS thread that caches the newest glove frame and  *)
(* shuts the bridge down, the retarget worker with its pool of solvers,    *)
(* the receive thread, and the one TCP stream that they share.             *)
(*                                                                         *)
(* A frame is its number, counted over both.  The server is what the lines  *)
(* do to it: SafeClientSession and ControlAuthority have the detail.  A    *)
(* send takes up to SendTimeout ticks and may end in the middle of a line, *)
(* which then swallows the line behind it.                                 *)
(***************************************************************************)
EXTENDS Naturals, FiniteSets

CONSTANTS
  Sides,
  ServerSides,   \* the sides the hello_ack names as connected
  TactileSides,  \* the sides whose hand has tactile sensors
  AutoEnable,    \* not --no-auto-enable
  SendTimeout,   \* settimeout of the socket
  JoinTimeout,   \* how long shutdown waits for the worker
  MaxFrames      \* bound: frames of the gloves

ASSUME BridgeAssumption ==
  /\ ServerSides \subseteq Sides /\ TactileSides \subseteq ServerSides
  /\ AutoEnable \in BOOLEAN
  /\ SendTimeout \in Nat \ {0} /\ JoinTimeout \in Nat \ {0}
  /\ MaxFrames \in Nat \ {0}
  /\ 2 * SendTimeout < JoinTimeout

VARIABLES
  frames,    \* frames the gloves have sent
  latest,    \* _latest_frames; 0 is none
  newFrame,  \* the event _new_frame
  stop,      \* the event _stop
  main,      \* where the ROS thread is
  joinLeft,  \* ticks it will still wait for the worker
  wpc,       \* where _retarget_loop is
  batch,     \* the frames it is working on; 0 is none
  solve,     \* what became of each one's IK
  sendLeft,  \* ticks its send may still take
  sock,      \* the socket is there
  cut,       \* what was sent last has no newline
  armed,     \* sides armed on the server
  sent,      \* the newest frame sent for each side
  disables,  \* disables of shutdown() and close() that were written whole
  seen,      \* sides in glove_side
  pending,   \* _pending_vib
  glove      \* what each glove was last told

frameVars == <<frames, latest, seen>>
mainVars == <<main, joinLeft, stop>>
workVars == <<wpc, batch, solve, sendLeft>>
linkVars == <<sock, cut, armed>>
vibVars == <<pending, glove>>
vars == <<frameVars, newFrame, mainVars, workVars, linkVars, sent, disables, vibVars>>

Frames == 0 .. MaxFrames

TypeOK ==
  /\ frames \in Frames
  /\ latest \in [Sides -> Frames] /\ batch \in [Sides -> Frames]
  /\ sent \in [Sides -> Frames]
  /\ newFrame \in BOOLEAN /\ stop \in BOOLEAN
  /\ sock \in BOOLEAN /\ cut \in BOOLEAN
  /\ main \in {"spin", "stop", "join", "zero", "clear", "disable", "close",
               "socket", "ended"}
  /\ joinLeft \in 0 .. JoinTimeout
  /\ wpc \in {"top", "wait", "clear", "take", "batch", "enable", "command",
              "drain", "ended"}
  /\ solve \in [Sides -> {"none", "busy", "hung", "ok", "failed", "sending"}]
  /\ sendLeft \in 0 .. SendTimeout
  /\ armed \subseteq Sides /\ seen \subseteq Sides
  /\ disables \in 0 .. 2
  /\ pending \in [Sides -> {"none", "on", "zero"}]
  /\ glove \in [Sides -> {"on", "zero"}]

None == [s \in Sides |-> 0]

(* After connect(): the hello is answered and the worker has been started. *)
Init ==
  /\ frames = 0 /\ latest = None /\ seen = {}
  /\ newFrame = FALSE /\ stop = FALSE
  /\ main = "spin" /\ joinLeft = 0
  /\ wpc = "top" /\ batch = None /\ solve = [s \in Sides |-> "none"]
  /\ sendLeft = 0
  /\ sock = TRUE /\ cut = FALSE /\ armed = {}
  /\ sent = None /\ disables = 0
  /\ pending = [s \in Sides |-> "none"] /\ glove = [s \in Sides |-> "zero"]

-----------------------------------------------------------------------------
(* WujiClient.send under its lock.  The sends of the ROS thread are one    *)
(* step, so the lock is free unless the worker is in one of its two sends. *)

Sending == wpc \in {"enable", "command"}

(* The whole line went out, effect is what it does to the server's armed   *)
(* sides; behind a cut line it is part of a line that is no JSON.          *)
WholeLine(effect) ==
  /\ sock
  /\ armed' = IF cut THEN armed ELSE effect
  /\ cut' = FALSE

(* sendall timed out in the middle of the line.                            *)
PartOfLine ==
  /\ sock
  /\ cut' = TRUE
  /\ UNCHANGED armed

NoLine == UNCHANGED <<cut, armed>>

Line(effect, outcome) ==
  \/ outcome = "whole" /\ WholeLine(effect)
  \/ outcome = "part" /\ PartOfLine
  \/ outcome = "error" /\ NoLine

-----------------------------------------------------------------------------
(* The ROS thread while it spins.                                          *)

(* _on_glove_msg with a valid frame: an invalid one leaves no trace but in *)
(* the counters.  A side the server has not got is dropped.                *)
OnGlove ==
  /\ main = "spin"
  /\ \E s \in Sides :
       /\ frames < MaxFrames
       /\ frames' = frames + 1
       /\ seen' = seen \cup {s}
       /\ IF s \in ServerSides
          THEN latest' = [latest EXCEPT ![s] = frames'] /\ newFrame' = TRUE
          ELSE UNCHANGED <<latest, newFrame>>
  /\ UNCHANGED <<mainVars, workVars, linkVars, sent, disables, vibVars>>

(* Mutant: a glove is told what nobody asked for.                          *)
PublishedUnasked == [s \in Sides |-> IF s \in seen THEN pending[s] ELSE glove[s]]

(* What _haptic_tick publishes to the gloves it has a publisher for.       *)
Published ==
  [s \in Sides |-> IF pending[s] # "none" /\ s \in seen THEN pending[s] ELSE glove[s]]

TakePending ==
  /\ pending' = [s \in Sides |-> "none"]
  /\ glove' = Published

HapticTick ==
  /\ main = "spin"
  /\ TakePending
  /\ UNCHANGED <<frameVars, newFrame, mainVars, workVars, linkVars, sent, disables>>

(* _status_tick sends get_status.                                          *)
StatusTick ==
  /\ main = "spin"
  /\ ~ Sending
  /\ \E outcome \in {"whole", "part", "error"} : Line(armed, outcome)
  /\ UNCHANGED <<frameVars, newFrame, mainVars, workVars, sock, sent, disables, vibVars>>

-----------------------------------------------------------------------------
(* shutdown(), after spin was left.                                        *)

Interrupt ==
  /\ main = "spin"
  /\ main' = "stop"
  /\ UNCHANGED <<frameVars, newFrame, joinLeft, stop, workVars, linkVars, sent,
                 disables, vibVars>>

SetStop ==
  /\ main = "stop"
  /\ stop' = TRUE /\ newFrame' = TRUE
  /\ main' = "join" /\ joinLeft' = JoinTimeout
  /\ UNCHANGED <<frameVars, workVars, linkVars, sent, disables, vibVars>>

(* Mutant: shutdown does not wait.                                         *)
JoinNothing ==
  /\ main = "join"
  /\ main' \in {"zero", "disable"}
  /\ UNCHANGED <<frameVars, newFrame, joinLeft, stop, workVars, linkVars,
                 sent, disables, vibVars>>

(* Mutant: the wait has no end.                                            *)
JoinForever ==
  /\ main = "join"
  /\ wpc = "ended"
  /\ main' \in {"zero", "disable"}
  /\ UNCHANGED <<frameVars, newFrame, joinLeft, stop, workVars, linkVars, sent,
                 disables, vibVars>>

(* join(timeout=3.0): the worker has ended, or the time is up.  A signal   *)
(* may have taken the ROS context away, and with it the publishers.        *)
Join ==
  /\ main = "join"
  /\ wpc = "ended" \/ joinLeft = 0
  /\ main' \in {"zero", "disable"}
  /\ UNCHANGED <<frameVars, newFrame, joinLeft, stop, workVars, linkVars,
                 sent, disables, vibVars>>

Zero ==
  /\ main = "zero"
  /\ pending' = [s \in Sides |-> IF s \in seen THEN "zero" ELSE pending[s]]
  /\ main' = "clear"
  /\ UNCHANGED <<frameVars, newFrame, joinLeft, stop, workVars, linkVars,
                 sent, disables, glove>>

(* The last _haptic_tick takes the lock again, after Zero released it.     *)
Clear ==
  /\ main = "clear"
  /\ TakePending
  /\ main' = "disable"
  /\ UNCHANGED <<frameVars, newFrame, joinLeft, stop, workVars, linkVars,
                 sent, disables>>

(* set_enable(False), and again in close(): an error of the first does not *)
(* keep the second from being tried.                                       *)
Disable ==
  /\ main \in {"disable", "close"}
  /\ ~ Sending
  /\ \E outcome \in {"whole", "part", "error"} :
       /\ Line({}, outcome)
       /\ disables' = IF outcome = "whole" THEN disables + 1 ELSE disables
  /\ main' = IF main = "disable" THEN "close" ELSE "socket"
  /\ UNCHANGED <<frameVars, newFrame, joinLeft, stop, workVars, sock, sent,
                 vibVars>>

(* _close_socket.  The server disarms what this client held.               *)
LinkEnds ==
  /\ sock' = FALSE
  /\ armed' = {}
  /\ UNCHANGED cut

CloseSocket ==
  /\ main = "socket"
  /\ ~ Sending
  /\ LinkEnds
  /\ main' = "ended"
  /\ UNCHANGED <<frameVars, newFrame, joinLeft, stop, workVars, sent,
                 disables, vibVars>>

Shutdown == SetStop \/ Join \/ Zero \/ Clear \/ Disable \/ CloseSocket

-----------------------------------------------------------------------------
(* _retarget_loop.                                                         *)

Stay == UNCHANGED <<frames, seen, mainVars, vibVars, disables>>

Go(from, to) == wpc = from /\ wpc' = to

(* The loop condition, the wait with its timeout, the clear and the second *)
(* look at _stop.                                                          *)
Top ==
  /\ Go("top", IF stop THEN "drain" ELSE "wait")
  /\ UNCHANGED <<latest, newFrame, batch, solve, sendLeft, linkVars, sent>>
  /\ Stay

Wait ==
  /\ Go("wait", IF newFrame THEN "clear" ELSE "top")
  /\ UNCHANGED <<latest, newFrame, batch, solve, sendLeft, linkVars, sent>>
  /\ Stay

ClearEvent ==
  /\ Go("clear", IF stop THEN "drain" ELSE "take")
  /\ newFrame' = FALSE
  /\ UNCHANGED <<latest, batch, solve, sendLeft, linkVars, sent>>
  /\ Stay

(* Mutant: what was taken stays in the cache.                              *)
TakeCopy ==
  /\ wpc = "take"
  /\ batch' = latest
  /\ solve' = [s \in Sides |-> IF latest[s] = 0 THEN "none" ELSE "busy"]
  /\ wpc' = IF latest = None THEN "top" ELSE "batch"
  /\ UNCHANGED <<latest, newFrame, sendLeft, linkVars, sent>>
  /\ Stay

(* The frames are taken under _frame_lock and one solver starts on each.   *)
Take ==
  /\ wpc = "take"
  /\ batch' = latest
  /\ latest' = None
  /\ solve' = [s \in Sides |-> IF latest[s] = 0 THEN "none" ELSE "busy"]
  /\ wpc' = IF latest = None THEN "top" ELSE "batch"
  /\ UNCHANGED <<newFrame, sendLeft, linkVars, sent>>
  /\ Stay

(* A solver has a result, or raises, or does not come back.                *)
Solve(s) ==
  /\ solve[s] = "busy"
  /\ \E result \in {"ok", "failed", "hung"} : solve' = [solve EXCEPT ![s] = result]
  /\ UNCHANGED <<latest, newFrame, wpc, batch, sendLeft, linkVars, sent>>
  /\ Stay

(* The frame of side s is done with.                                       *)
Dispose(s) ==
  /\ batch' = [batch EXCEPT ![s] = 0]
  /\ solve' = [solve EXCEPT ![s] = "none"]

(* Mutant: _stop is not looked at between the solver and the send.         *)
ToBeSentBlindly(s) == solve[s] = "ok" /\ AutoEnable

ToBeSent(s) == solve[s] = "ok" /\ ~ stop /\ AutoEnable

(* as_completed: the next result, in any order.  What is to be sent starts *)
(* with the enable.                                                        *)
NextResult ==
  /\ wpc = "batch"
  /\ \E s \in Sides :
       /\ solve[s] \in {"ok", "failed"}
       /\ IF ToBeSent(s) /\ sock
          THEN /\ solve' = [solve EXCEPT ![s] = "sending"]
               /\ sendLeft' = SendTimeout /\ wpc' = "enable"
               /\ UNCHANGED batch
          ELSE Dispose(s) /\ UNCHANGED <<wpc, sendLeft>>
  /\ UNCHANGED <<latest, newFrame, linkVars, sent>>
  /\ Stay

(* Mutant: the event is cleared behind the batch.                          *)
BatchDoneClears ==
  /\ wpc = "batch" /\ batch = None
  /\ wpc' = "top"
  /\ newFrame' = FALSE
  /\ UNCHANGED <<latest, batch, solve, sendLeft, linkVars, sent>>
  /\ Stay

BatchDone ==
  /\ wpc = "batch" /\ batch = None
  /\ wpc' = "top"
  /\ UNCHANGED <<latest, newFrame, batch, solve, sendLeft, linkVars, sent>>
  /\ Stay

(* set_enable(True, side): only after a whole line the command follows.    *)
SendEnable ==
  /\ wpc = "enable"
  /\ \E s \in Sides :
       /\ solve[s] = "sending"
       /\ \/ /\ WholeLine(armed \cup {s})
             /\ wpc' = "command" /\ sendLeft' = SendTimeout
             /\ UNCHANGED <<batch, solve>>
          \/ /\ PartOfLine \/ NoLine
             /\ wpc' = "batch" /\ sendLeft' = 0
             /\ Dispose(s)
  /\ UNCHANGED <<latest, newFrame, sock, sent>>
  /\ Stay

SendCommand ==
  /\ wpc = "command"
  /\ \E s \in Sides :
       /\ solve[s] = "sending"
       /\ \/ WholeLine(armed) /\ sent' = [sent EXCEPT ![s] = batch[s]]
          \/ (PartOfLine \/ NoLine) /\ UNCHANGED sent
       /\ Dispose(s)
  /\ wpc' = "batch" /\ sendLeft' = 0
  /\ UNCHANGED <<latest, newFrame, sock>>
  /\ Stay

(* pool.shutdown(wait=True).                                               *)
Drain ==
  /\ wpc = "drain"
  /\ \A s \in Sides : solve[s] \notin {"busy", "hung"}
  /\ wpc' = "ended"
  /\ UNCHANGED <<latest, newFrame, batch, solve, sendLeft, linkVars, sent>>
  /\ Stay

Worker ==
  \/ Top \/ Wait \/ ClearEvent \/ Take \/ NextResult \/ BatchDone
  \/ SendEnable \/ SendCommand \/ Drain

-----------------------------------------------------------------------------
(* The receive thread, the server and the clock.                           *)

(* _on_tactile.                                                            *)
OnTactile ==
  /\ sock
  /\ \E s \in TactileSides : pending' = [pending EXCEPT ![s] = "on"]
  /\ UNCHANGED <<frameVars, newFrame, mainVars, workVars, linkVars, sent, disables,
                 glove>>

(* The connection is lost: _rx_loop leaves no socket to send on, and       *)
(* nothing connects again.                                                 *)
LinkLost ==
  /\ sock /\ ~ Sending
  /\ LinkEnds
  /\ UNCHANGED <<frameVars, newFrame, mainVars, workVars, sent, disables, vibVars>>

(* The server's deadman.                                                   *)
Deadman ==
  /\ \E s \in armed : armed' = armed \ {s}
  /\ UNCHANGED <<frameVars, newFrame, mainVars, workVars, sock, cut, sent, disables,
                 vibVars>>

(* Time counts from the moment shutdown waits; no send outlasts its        *)
(* timeout.                                                                *)
Tick ==
  /\ main = "join" /\ joinLeft > 0
  /\ Sending => sendLeft > 0
  /\ joinLeft' = joinLeft - 1
  /\ sendLeft' = IF Sending THEN sendLeft - 1 ELSE sendLeft
  /\ UNCHANGED <<frameVars, newFrame, main, stop, wpc, batch, solve,
                 linkVars, sent, disables, vibVars>>

Finished == main = "ended" /\ UNCHANGED vars

(* The worker is a daemon thread and ends with the process.                *)
Alive == main # "ended"

Next ==
  \/ OnGlove \/ HapticTick \/ StatusTick \/ Interrupt \/ Shutdown
  \/ Alive /\ (Worker \/ \E s \in Sides : Solve(s))
  \/ OnTactile \/ LinkLost \/ Deadman \/ Tick
  \/ Finished

Spec == Init /\ [][Next]_vars

(* The threads go on, a solver comes back unless it hangs, and time goes   *)
(* on.  Nothing is asked of the gloves, the server or the user.            *)
Fairness ==
  /\ WF_vars(Alive /\ Worker) /\ WF_vars(Shutdown) /\ WF_vars(Tick)
  /\ \A s \in Sides : WF_vars(Alive /\ Solve(s))

FairSpec == Spec /\ Fairness

-----------------------------------------------------------------------------
(* Latest only (ARCHITECTURE.md:92, manus_wuji_bridge.py:207-209, 237-262):*)
(* a frame in the cache is newer than the one at work and than all that    *)
(* was sent for its side, and the one at work is no older than what was    *)
(* sent: none is sent twice or behind a newer one.                         *)
LatestOnly ==
  \A s \in Sides :
     /\ latest[s] # 0 => latest[s] > batch[s] /\ latest[s] > sent[s]
     /\ batch[s] # 0 => batch[s] > sent[s]

(* No cached frame waits for good: the event that _on_glove_msg sets after *)
(* the frame is cleared before the frames are taken                        *)
(* (manus_wuji_bridge.py:207-219, 231-239).                                *)
CachedFrameIsTaken ==
  \A s \in Sides :
     latest[s] # 0 ~> (latest[s] = 0 \/ stop \/ \E o \in Sides : solve[o] = "hung")

(* shutdown() waits longer for the worker than its two sends can take: a   *)
(* worker that outlives the wait is in a solver, sees _stop when it comes  *)
(* back, and never arms a hand behind the disable                          *)
(* (manus_wuji_bridge.py:253, 418-433).                                    *)
DisableComesLast == main \in {"zero", "clear", "disable", "close", "socket"} => ~ Sending

(* A cut line can swallow the first disable but not both: when both were   *)
(* written whole, no side is armed from then on (manus_wuji_bridge.py:430, *)
(* wuji_client.py:68-73).                                                  *)
DisabledBeforeClose ==
  main = "socket" /\ disables = 2 => armed = {}

(* Once the user has interrupted the bridge, it comes to its end and       *)
(* leaves no side armed, even with a solver that hangs and a socket that   *)
(* takes nothing.                                                          *)
ShutdownEndsCold == main = "stop" ~> (main = "ended" /\ armed = {})

(* bridge/X86_MANUS_INTEGRATION.md:106: shutdown stops the worker, then    *)
(* clears the vibration, then disables.  Where the ROS context is healthy, *)
(* every known glove should have been told zero when the clearing is over. *)
VibrationCleared ==
  [][main = "clear" /\ main' = "disable" => \A s \in seen : glove'[s] = "zero"]_vars
=============================================================================
