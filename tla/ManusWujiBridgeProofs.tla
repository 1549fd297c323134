----------------------- MODULE ManusWujiBridgeProofs -----------------------
(***************************************************************************)
(* The safety invariants of ManusWujiBridge hold for every set of sides    *)
(* and for all timeouts with 2 * SendTimeout < JoinTimeout.                *)
(***************************************************************************)
EXTENDS ManusWujiBridge, TLAPS

(* While shutdown waits, the worker's sends fit into what is left of the   *)
(* wait: a second one still has to follow an enable.                       *)
SendBudget ==
  main = "join" =>
     /\ wpc = "enable" => joinLeft > sendLeft + SendTimeout
     /\ wpc = "command" => joinLeft > sendLeft

(* _stop is set before shutdown waits and is never cleared.                *)
StopIsSet == main \notin {"spin", "stop"} => stop

(* No frame is newer than the newest.                                      *)
FramesBounded == \A s \in Sides : latest[s] <= frames /\ batch[s] <= frames /\ sent[s] <= frames

(* How far shutdown has come and how many disables it can have written;    *)
(* one that was written whole left no cut line behind.                     *)
DisableCount ==
  /\ main \in {"spin", "stop", "join", "zero", "clear", "disable"} => disables = 0
  /\ main = "close" => disables <= 1 /\ (disables = 1 => ~ cut)

IInv ==
  /\ TypeOK /\ SendBudget /\ StopIsSet /\ DisableComesLast
  /\ FramesBounded /\ LatestOnly
  /\ DisableCount /\ DisabledBeforeClose

(* The four groups a step can disturb: types, shutdown's timing, the order *)
(* of the frames, and what the disables did.                               *)
Timing == SendBudget /\ StopIsSet /\ DisableComesLast
Order == FramesBounded /\ LatestOnly
Cold == DisableCount /\ DisabledBeforeClose

(* The bridge starts with nothing cached, sent or armed.                   *)
LEMMA InitHolds == Init => IInv
<1> SUFFICES ASSUME Init PROVE IInv
  OBVIOUS
<1>1. TypeOK
  <2>1. None \in [Sides -> Frames] /\ 0 \in Frames
    BY BridgeAssumption DEF None, Frames
  <2>2. 0 \in 0 .. JoinTimeout /\ 0 \in 0 .. SendTimeout
    BY BridgeAssumption
  <2>3. /\ solve \in [Sides -> {"none", "busy", "hung", "ok", "failed", "sending"}]
        /\ pending \in [Sides -> {"none", "on", "zero"}]
        /\ glove \in [Sides -> {"on", "zero"}]
    BY DEF Init
  <2>4. newFrame \in BOOLEAN /\ stop \in BOOLEAN /\ sock \in BOOLEAN /\ cut \in BOOLEAN
    BY DEF Init
  <2>5. armed \subseteq Sides /\ seen \subseteq Sides /\ disables \in 0 .. 2
    BY DEF Init
  <2>6. /\ frames \in Frames /\ latest \in [Sides -> Frames]
        /\ batch \in [Sides -> Frames] /\ sent \in [Sides -> Frames]
        /\ joinLeft \in 0 .. JoinTimeout /\ sendLeft \in 0 .. SendTimeout
    BY <2>1, <2>2, Zenon DEF Init
  <2>7. main = "spin" /\ wpc = "top"
    BY DEF Init
  <2> QED
    BY <2>3, <2>4, <2>5, <2>6, <2>7 DEF TypeOK
<1>2. Timing
  BY DEF Init, Timing, SendBudget, StopIsSet, DisableComesLast, Sending
<1>3. Order
  BY DEF Init, Order, FramesBounded, LatestOnly, None
<1>4. Cold
  BY DEF Init, Cold, DisableCount, DisabledBeforeClose
<1> QED
  BY <1>1, <1>2, <1>3, <1>4 DEF IInv, Timing, Order, Cold

(* Nothing is lost when nothing changes.                                   *)
LEMMA StutterStep == IInv /\ UNCHANGED vars => IInv'
<1> SUFFICES ASSUME IInv, UNCHANGED vars PROVE IInv'
  OBVIOUS
<1> USE BridgeAssumption DEF IInv, vars, frameVars, mainVars, workVars, linkVars, vibVars
<1>1. TypeOK'
  BY DEF TypeOK, Frames
<1>2. Timing'
  BY DEF TypeOK, Timing, SendBudget, StopIsSet, DisableComesLast, Sending
<1>3. Order'
  BY DEF TypeOK, Frames, Order, FramesBounded, LatestOnly
<1>4. Cold'
  BY DEF TypeOK, Cold, DisableCount, DisabledBeforeClose
<1> QED
  BY <1>1, <1>2, <1>3, <1>4 DEF Timing, Order, Cold

(* A new frame is newer than every frame known before.                     *)
LEMMA OnGloveStep == IInv /\ OnGlove => IInv'
<1> SUFFICES ASSUME IInv, OnGlove PROVE IInv'
  OBVIOUS
<1> USE BridgeAssumption DEF IInv, OnGlove, frameVars, mainVars, workVars, linkVars, vibVars
<1>1. TypeOK'
  <2>1. latest' \in [Sides -> Frames] /\ batch' \in [Sides -> Frames]
        /\ sent' \in [Sides -> Frames] /\ frames' \in Frames
    BY DEF TypeOK, Frames
  <2>2. solve' \in [Sides -> {"none", "busy", "hung", "ok", "failed", "sending"}]
    BY DEF TypeOK
  <2>3. armed' \subseteq Sides /\ seen' \subseteq Sides
    BY DEF TypeOK
  <2>4. joinLeft' \in 0 .. JoinTimeout /\ sendLeft' \in 0 .. SendTimeout /\ disables' \in 0 .. 2
    BY DEF TypeOK
  <2> QED
    BY <2>1, <2>2, <2>3, <2>4 DEF TypeOK
<1>2. Timing'
  BY DEF TypeOK, Timing, SendBudget, StopIsSet, DisableComesLast, Sending
<1>3. Order'
  BY DEF TypeOK, Frames, Order, FramesBounded, LatestOnly
<1>4. Cold'
  BY DEF TypeOK, Cold, DisableCount, DisabledBeforeClose
<1> QED
  BY <1>1, <1>2, <1>3, <1>4 DEF Timing, Order, Cold

(* The vibration commands touch nothing but the gloves.                    *)
LEMMA HapticStep == IInv /\ HapticTick => IInv'
<1> SUFFICES ASSUME IInv, HapticTick PROVE IInv'
  OBVIOUS
<1> USE BridgeAssumption DEF IInv, HapticTick, TakePending, frameVars, mainVars, workVars, linkVars, vibVars
<1>1. TypeOK'
  BY DEF TypeOK, Frames, Published
<1>2. Timing'
  BY DEF TypeOK, Timing, SendBudget, StopIsSet, DisableComesLast, Sending
<1>3. Order'
  BY DEF TypeOK, Frames, Order, FramesBounded, LatestOnly
<1>4. Cold'
  BY DEF TypeOK, Cold, DisableCount, DisabledBeforeClose
<1> QED
  BY <1>1, <1>2, <1>3, <1>4 DEF Timing, Order, Cold

(* A status request can cut a line; it arms nothing.                       *)
LEMMA StatusStep == IInv /\ StatusTick => IInv'
<1> SUFFICES ASSUME IInv, StatusTick PROVE IInv'
  OBVIOUS
<1> USE BridgeAssumption DEF IInv, StatusTick, Line, WholeLine, PartOfLine, NoLine, frameVars, mainVars, workVars, linkVars, vibVars
<1>1. TypeOK'
  BY DEF TypeOK, Frames
<1>2. Timing'
  BY DEF TypeOK, Timing, SendBudget, StopIsSet, DisableComesLast, Sending
<1>3. Order'
  BY DEF TypeOK, Frames, Order, FramesBounded, LatestOnly
<1>4. Cold'
  BY DEF TypeOK, Cold, DisableCount, DisabledBeforeClose
<1> QED
  BY <1>1, <1>2, <1>3, <1>4 DEF Timing, Order, Cold

(* The interrupt starts shutdown.                                          *)
LEMMA InterruptStep == IInv /\ Interrupt => IInv'
<1> SUFFICES ASSUME IInv, Interrupt PROVE IInv'
  OBVIOUS
<1> USE BridgeAssumption DEF IInv, Interrupt, frameVars, mainVars, workVars, linkVars, vibVars
<1>1. TypeOK'
  BY DEF TypeOK, Frames
<1>2. Timing'
  BY DEF TypeOK, Timing, SendBudget, StopIsSet, DisableComesLast, Sending
<1>3. Order'
  BY DEF TypeOK, Frames, Order, FramesBounded, LatestOnly
<1>4. Cold'
  BY DEF TypeOK, Cold, DisableCount, DisabledBeforeClose
<1> QED
  BY <1>1, <1>2, <1>3, <1>4 DEF Timing, Order, Cold

(* The wait begins with its whole budget.                                  *)
LEMMA SetStopStep == IInv /\ SetStop => IInv'
<1> SUFFICES ASSUME IInv, SetStop PROVE IInv'
  OBVIOUS
<1> USE BridgeAssumption DEF IInv, SetStop, frameVars, mainVars, workVars, linkVars, vibVars
<1>1. TypeOK'
  BY DEF TypeOK, Frames
<1>2. Timing'
  BY DEF TypeOK, Timing, SendBudget, StopIsSet, DisableComesLast, Sending
<1>3. Order'
  BY DEF TypeOK, Frames, Order, FramesBounded, LatestOnly
<1>4. Cold'
  BY DEF TypeOK, Cold, DisableCount, DisabledBeforeClose
<1> QED
  BY <1>1, <1>2, <1>3, <1>4 DEF Timing, Order, Cold

(* When the wait is over the worker is in no send.                         *)
LEMMA JoinStep == IInv /\ Join => IInv'
<1> SUFFICES ASSUME IInv, Join PROVE IInv'
  OBVIOUS
<1> USE BridgeAssumption DEF IInv, Join, frameVars, mainVars, workVars, linkVars, vibVars
<1>1. TypeOK'
  BY DEF TypeOK, Frames
<1>2. Timing'
  BY DEF TypeOK, Timing, SendBudget, StopIsSet, DisableComesLast, Sending
<1>3. Order'
  BY DEF TypeOK, Frames, Order, FramesBounded, LatestOnly
<1>4. Cold'
  BY DEF TypeOK, Cold, DisableCount, DisabledBeforeClose
<1> QED
  BY <1>1, <1>2, <1>3, <1>4 DEF Timing, Order, Cold

(* Zeros are queued for the gloves.                                        *)
LEMMA ZeroStep == IInv /\ Zero => IInv'
<1> SUFFICES ASSUME IInv, Zero PROVE IInv'
  OBVIOUS
<1> USE BridgeAssumption DEF IInv, Zero, frameVars, mainVars, workVars, linkVars, vibVars
<1>1. TypeOK'
  BY DEF TypeOK, Frames
<1>2. Timing'
  BY DEF TypeOK, Timing, SendBudget, StopIsSet, DisableComesLast, Sending
<1>3. Order'
  BY DEF TypeOK, Frames, Order, FramesBounded, LatestOnly
<1>4. Cold'
  BY DEF TypeOK, Cold, DisableCount, DisabledBeforeClose
<1> QED
  BY <1>1, <1>2, <1>3, <1>4 DEF Timing, Order, Cold

(* The queue is published.                                                 *)
LEMMA ClearStep == IInv /\ Clear => IInv'
<1> SUFFICES ASSUME IInv, Clear PROVE IInv'
  OBVIOUS
<1> USE BridgeAssumption DEF IInv, Clear, TakePending, frameVars, mainVars, workVars, linkVars, vibVars
<1>1. TypeOK'
  BY DEF TypeOK, Frames, Published
<1>2. Timing'
  BY DEF TypeOK, Timing, SendBudget, StopIsSet, DisableComesLast, Sending
<1>3. Order'
  BY DEF TypeOK, Frames, Order, FramesBounded, LatestOnly
<1>4. Cold'
  BY DEF TypeOK, Cold, DisableCount, DisabledBeforeClose
<1> QED
  BY <1>1, <1>2, <1>3, <1>4 DEF Timing, Order, Cold

(* A disable that was written whole leaves no cut line, and the next one   *)
(* is read.                                                                *)
LEMMA DisableStep == IInv /\ Disable => IInv'
<1> SUFFICES ASSUME IInv, Disable PROVE IInv'
  OBVIOUS
<1> USE BridgeAssumption DEF IInv, Disable, Line, WholeLine, PartOfLine, NoLine, frameVars, mainVars, workVars, linkVars, vibVars
<1>1. TypeOK'
  <2>1. disables' \in 0 .. 2
    <3>1. CASE main = "disable"
      BY <3>1 DEF TypeOK, DisableCount
    <3>2. CASE main = "close"
      BY <3>2 DEF TypeOK, DisableCount
    <3> QED
      BY <3>1, <3>2
  <2>2. armed' \subseteq Sides /\ cut' \in BOOLEAN /\ main' \in {"close", "socket"}
    BY DEF TypeOK
  <2> QED
    BY <2>1, <2>2 DEF TypeOK
<1>2. Timing'
  BY DEF TypeOK, Timing, SendBudget, StopIsSet, DisableComesLast, Sending
<1>3. Order'
  BY DEF TypeOK, Frames, Order, FramesBounded, LatestOnly
<1>4. Cold'
  BY DEF TypeOK, Cold, DisableCount, DisabledBeforeClose
<1> QED
  BY <1>1, <1>2, <1>3, <1>4 DEF Timing, Order, Cold

(* The server lets go of everything.                                       *)
LEMMA CloseStep == IInv /\ CloseSocket => IInv'
<1> SUFFICES ASSUME IInv, CloseSocket PROVE IInv'
  OBVIOUS
<1> USE BridgeAssumption DEF IInv, CloseSocket, LinkEnds, frameVars, mainVars, workVars, linkVars, vibVars
<1>1. TypeOK'
  BY DEF TypeOK, Frames
<1>2. Timing'
  BY DEF TypeOK, Timing, SendBudget, StopIsSet, DisableComesLast, Sending
<1>3. Order'
  BY DEF TypeOK, Frames, Order, FramesBounded, LatestOnly
<1>4. Cold'
  BY DEF TypeOK, Cold, DisableCount, DisabledBeforeClose
<1> QED
  BY <1>1, <1>2, <1>3, <1>4 DEF Timing, Order, Cold

(* The loop condition.                                                     *)
LEMMA TopStep == IInv /\ Top => IInv'
<1> SUFFICES ASSUME IInv, Top PROVE IInv'
  OBVIOUS
<1> USE BridgeAssumption DEF IInv, Top, Go, Stay, linkVars, mainVars, vibVars
<1>1. TypeOK'
  BY DEF TypeOK, Frames
<1>2. Timing'
  BY DEF TypeOK, Timing, SendBudget, StopIsSet, DisableComesLast, Sending
<1>3. Order'
  BY DEF TypeOK, Frames, Order, FramesBounded, LatestOnly
<1>4. Cold'
  BY DEF TypeOK, Cold, DisableCount, DisabledBeforeClose
<1> QED
  BY <1>1, <1>2, <1>3, <1>4 DEF Timing, Order, Cold

(* The wait for the event.                                                 *)
LEMMA WaitStep == IInv /\ Wait => IInv'
<1> SUFFICES ASSUME IInv, Wait PROVE IInv'
  OBVIOUS
<1> USE BridgeAssumption DEF IInv, Wait, Go, Stay, linkVars, mainVars, vibVars
<1>1. TypeOK'
  BY DEF TypeOK, Frames
<1>2. Timing'
  BY DEF TypeOK, Timing, SendBudget, StopIsSet, DisableComesLast, Sending
<1>3. Order'
  BY DEF TypeOK, Frames, Order, FramesBounded, LatestOnly
<1>4. Cold'
  BY DEF TypeOK, Cold, DisableCount, DisabledBeforeClose
<1> QED
  BY <1>1, <1>2, <1>3, <1>4 DEF Timing, Order, Cold

(* The clear.                                                              *)
LEMMA ClearEventStep == IInv /\ ClearEvent => IInv'
<1> SUFFICES ASSUME IInv, ClearEvent PROVE IInv'
  OBVIOUS
<1> USE BridgeAssumption DEF IInv, ClearEvent, Go, Stay, linkVars, mainVars, vibVars
<1>1. TypeOK'
  BY DEF TypeOK, Frames
<1>2. Timing'
  BY DEF TypeOK, Timing, SendBudget, StopIsSet, DisableComesLast, Sending
<1>3. Order'
  BY DEF TypeOK, Frames, Order, FramesBounded, LatestOnly
<1>4. Cold'
  BY DEF TypeOK, Cold, DisableCount, DisabledBeforeClose
<1> QED
  BY <1>1, <1>2, <1>3, <1>4 DEF Timing, Order, Cold

(* The cached frames move to the worker.                                   *)
LEMMA TakeStep == IInv /\ Take => IInv'
<1> SUFFICES ASSUME IInv, Take PROVE IInv'
  OBVIOUS
<1> USE BridgeAssumption DEF IInv, Take, Stay, linkVars, mainVars, vibVars
<1>1. TypeOK'
  BY DEF TypeOK, Frames, None
<1>2. Timing'
  BY DEF TypeOK, Timing, SendBudget, StopIsSet, DisableComesLast, Sending
<1>3. Order'
  BY DEF TypeOK, Frames, None, Order, FramesBounded, LatestOnly
<1>4. Cold'
  BY DEF TypeOK, Cold, DisableCount, DisabledBeforeClose
<1> QED
  BY <1>1, <1>2, <1>3, <1>4 DEF Timing, Order, Cold

(* A solver ends.                                                          *)
LEMMA SolveStep == IInv /\ (\E s \in Sides : Solve(s)) => IInv'
<1> SUFFICES ASSUME IInv, (\E s \in Sides : Solve(s)) PROVE IInv'
  OBVIOUS
<1> USE BridgeAssumption DEF IInv, Solve, Stay, linkVars, mainVars, vibVars
<1>1. TypeOK'
  BY DEF TypeOK, Frames
<1>2. Timing'
  BY DEF TypeOK, Timing, SendBudget, StopIsSet, DisableComesLast, Sending
<1>3. Order'
  BY DEF TypeOK, Frames, Order, FramesBounded, LatestOnly
<1>4. Cold'
  BY DEF TypeOK, Cold, DisableCount, DisabledBeforeClose
<1> QED
  BY <1>1, <1>2, <1>3, <1>4 DEF Timing, Order, Cold

(* A send starts only while _stop is not set.                              *)
LEMMA NextResultStep == IInv /\ NextResult => IInv'
<1> SUFFICES ASSUME IInv, NextResult PROVE IInv'
  OBVIOUS
<1> USE BridgeAssumption DEF IInv, NextResult, ToBeSent, Dispose, Stay, linkVars, mainVars, vibVars
<1>1. TypeOK'
  <2>1. latest' \in [Sides -> Frames] /\ batch' \in [Sides -> Frames]
        /\ sent' \in [Sides -> Frames] /\ frames' \in Frames
    BY DEF TypeOK, Frames
  <2>2. solve' \in [Sides -> {"none", "busy", "hung", "ok", "failed", "sending"}]
    BY DEF TypeOK
  <2>3. armed' \subseteq Sides /\ seen' \subseteq Sides
    BY DEF TypeOK
  <2>4. joinLeft' \in 0 .. JoinTimeout /\ sendLeft' \in 0 .. SendTimeout /\ disables' \in 0 .. 2
    BY DEF TypeOK
  <2> QED
    BY <2>1, <2>2, <2>3, <2>4 DEF TypeOK
<1>2. Timing'
  BY DEF TypeOK, Timing, SendBudget, StopIsSet, DisableComesLast, Sending
<1>3. Order'
  BY DEF TypeOK, Frames, Order, FramesBounded, LatestOnly
<1>4. Cold'
  BY DEF TypeOK, Cold, DisableCount, DisabledBeforeClose
<1> QED
  BY <1>1, <1>2, <1>3, <1>4 DEF Timing, Order, Cold

(* The batch is done with.                                                 *)
LEMMA BatchDoneStep == IInv /\ BatchDone => IInv'
<1> SUFFICES ASSUME IInv, BatchDone PROVE IInv'
  OBVIOUS
<1> USE BridgeAssumption DEF IInv, BatchDone, Stay, linkVars, mainVars, vibVars
<1>1. TypeOK'
  BY DEF TypeOK, Frames
<1>2. Timing'
  BY DEF TypeOK, Timing, SendBudget, StopIsSet, DisableComesLast, Sending
<1>3. Order'
  BY DEF TypeOK, Frames, Order, FramesBounded, LatestOnly
<1>4. Cold'
  BY DEF TypeOK, Cold, DisableCount, DisabledBeforeClose
<1> QED
  BY <1>1, <1>2, <1>3, <1>4 DEF Timing, Order, Cold

(* The enable takes its part of the budget and leaves the command's.       *)
LEMMA SendEnableStep == IInv /\ SendEnable => IInv'
<1> SUFFICES ASSUME IInv, SendEnable PROVE IInv'
  OBVIOUS
<1> USE BridgeAssumption DEF IInv, SendEnable, WholeLine, PartOfLine, NoLine, Dispose, Stay, mainVars, vibVars
<1>1. TypeOK'
  <2>1. latest' \in [Sides -> Frames] /\ batch' \in [Sides -> Frames]
        /\ sent' \in [Sides -> Frames] /\ frames' \in Frames
    BY DEF TypeOK, Frames
  <2>2. solve' \in [Sides -> {"none", "busy", "hung", "ok", "failed", "sending"}]
    BY DEF TypeOK
  <2>3. armed' \subseteq Sides /\ seen' \subseteq Sides
    BY DEF TypeOK
  <2>4. joinLeft' \in 0 .. JoinTimeout /\ sendLeft' \in 0 .. SendTimeout /\ disables' \in 0 .. 2
    BY DEF TypeOK
  <2> QED
    BY <2>1, <2>2, <2>3, <2>4 DEF TypeOK
<1>2. Timing'
  BY DEF TypeOK, Timing, SendBudget, StopIsSet, DisableComesLast, Sending
<1>3. Order'
  BY DEF TypeOK, Frames, Order, FramesBounded, LatestOnly
<1>4. Cold'
  BY DEF TypeOK, Cold, DisableCount, DisabledBeforeClose, DisableComesLast, Sending
<1> QED
  BY <1>1, <1>2, <1>3, <1>4 DEF Timing, Order, Cold

(* The frame at work becomes the frame sent.                               *)
LEMMA SendCommandStep == IInv /\ SendCommand => IInv'
<1> SUFFICES ASSUME IInv, SendCommand PROVE IInv'
  OBVIOUS
<1> USE BridgeAssumption DEF IInv, SendCommand, WholeLine, PartOfLine, NoLine, Dispose, Stay, mainVars, vibVars
<1>1. TypeOK'
  <2>1. latest' \in [Sides -> Frames] /\ batch' \in [Sides -> Frames]
        /\ sent' \in [Sides -> Frames] /\ frames' \in Frames
    BY DEF TypeOK, Frames
  <2>2. solve' \in [Sides -> {"none", "busy", "hung", "ok", "failed", "sending"}]
    BY DEF TypeOK
  <2>3. armed' \subseteq Sides /\ seen' \subseteq Sides
    BY DEF TypeOK
  <2>4. joinLeft' \in 0 .. JoinTimeout /\ sendLeft' \in 0 .. SendTimeout /\ disables' \in 0 .. 2
    BY DEF TypeOK
  <2> QED
    BY <2>1, <2>2, <2>3, <2>4 DEF TypeOK
<1>2. Timing'
  BY DEF TypeOK, Timing, SendBudget, StopIsSet, DisableComesLast, Sending
<1>3. Order'
  BY DEF TypeOK, Frames, Order, FramesBounded, LatestOnly
<1>4. Cold'
  BY DEF TypeOK, Cold, DisableCount, DisabledBeforeClose, DisableComesLast, Sending
<1> QED
  BY <1>1, <1>2, <1>3, <1>4 DEF Timing, Order, Cold

(* The worker ends.                                                        *)
LEMMA DrainStep == IInv /\ Drain => IInv'
<1> SUFFICES ASSUME IInv, Drain PROVE IInv'
  OBVIOUS
<1> USE BridgeAssumption DEF IInv, Drain, Stay, linkVars, mainVars, vibVars
<1>1. TypeOK'
  BY DEF TypeOK, Frames
<1>2. Timing'
  BY DEF TypeOK, Timing, SendBudget, StopIsSet, DisableComesLast, Sending
<1>3. Order'
  BY DEF TypeOK, Frames, Order, FramesBounded, LatestOnly
<1>4. Cold'
  BY DEF TypeOK, Cold, DisableCount, DisabledBeforeClose
<1> QED
  BY <1>1, <1>2, <1>3, <1>4 DEF Timing, Order, Cold

(* A tactile message only queues a vibration.                              *)
LEMMA TactileStep == IInv /\ OnTactile => IInv'
<1> SUFFICES ASSUME IInv, OnTactile PROVE IInv'
  OBVIOUS
<1> USE BridgeAssumption DEF IInv, OnTactile, frameVars, mainVars, workVars, linkVars, vibVars
<1>1. TypeOK'
  BY DEF TypeOK, Frames
<1>2. Timing'
  BY DEF TypeOK, Timing, SendBudget, StopIsSet, DisableComesLast, Sending
<1>3. Order'
  BY DEF TypeOK, Frames, Order, FramesBounded, LatestOnly
<1>4. Cold'
  BY DEF TypeOK, Cold, DisableCount, DisabledBeforeClose
<1> QED
  BY <1>1, <1>2, <1>3, <1>4 DEF Timing, Order, Cold

(* A lost connection leaves nothing armed.                                 *)
LEMMA LinkLostStep == IInv /\ LinkLost => IInv'
<1> SUFFICES ASSUME IInv, LinkLost PROVE IInv'
  OBVIOUS
<1> USE BridgeAssumption DEF IInv, LinkLost, LinkEnds, frameVars, mainVars, workVars, linkVars, vibVars
<1>1. TypeOK'
  BY DEF TypeOK, Frames
<1>2. Timing'
  BY DEF TypeOK, Timing, SendBudget, StopIsSet, DisableComesLast, Sending
<1>3. Order'
  BY DEF TypeOK, Frames, Order, FramesBounded, LatestOnly
<1>4. Cold'
  BY DEF TypeOK, Cold, DisableCount, DisabledBeforeClose
<1> QED
  BY <1>1, <1>2, <1>3, <1>4 DEF Timing, Order, Cold

(* The deadman only takes away.                                            *)
LEMMA DeadmanStep == IInv /\ Deadman => IInv'
<1> SUFFICES ASSUME IInv, Deadman PROVE IInv'
  OBVIOUS
<1> USE BridgeAssumption DEF IInv, Deadman, frameVars, mainVars, workVars, linkVars, vibVars
<1>1. TypeOK'
  BY DEF TypeOK, Frames
<1>2. Timing'
  BY DEF TypeOK, Timing, SendBudget, StopIsSet, DisableComesLast, Sending
<1>3. Order'
  BY DEF TypeOK, Frames, Order, FramesBounded, LatestOnly
<1>4. Cold'
  BY DEF TypeOK, Cold, DisableCount, DisabledBeforeClose
<1> QED
  BY <1>1, <1>2, <1>3, <1>4 DEF Timing, Order, Cold

(* Time takes from the wait what it takes from a send.                     *)
LEMMA TickStep == IInv /\ Tick => IInv'
<1> SUFFICES ASSUME IInv, Tick PROVE IInv'
  OBVIOUS
<1> USE BridgeAssumption DEF IInv, Tick, frameVars, mainVars, workVars, linkVars, vibVars
<1>1. TypeOK'
  BY DEF TypeOK, Frames
<1>2. Timing'
  BY DEF TypeOK, Timing, SendBudget, StopIsSet, DisableComesLast, Sending
<1>3. Order'
  BY DEF TypeOK, Frames, Order, FramesBounded, LatestOnly
<1>4. Cold'
  BY DEF TypeOK, Cold, DisableCount, DisabledBeforeClose
<1> QED
  BY <1>1, <1>2, <1>3, <1>4 DEF Timing, Order, Cold

-----------------------------------------------------------------------------
(* IInv is inductive: every step of the bridge keeps it.                   *)
LEMMA NextHolds == IInv /\ [Next]_vars => IInv'
  BY StutterStep, OnGloveStep, HapticStep, StatusStep, InterruptStep, SetStopStep, JoinStep,
     ZeroStep, ClearStep, DisableStep, CloseStep, TopStep, WaitStep, ClearEventStep,
     TakeStep, SolveStep, NextResultStep, BatchDoneStep, SendEnableStep, SendCommandStep,
     DrainStep, TactileStep, LinkLostStep, DeadmanStep, TickStep
  DEF Next, Shutdown, Worker, Finished

(* IInv holds in every state the bridge reaches.                           *)
LEMMA Inductive == Spec => []IInv
<1>1. Init => IInv
  BY InitHolds
<1>2. IInv /\ [Next]_vars => IInv'
  BY NextHolds
<1> QED
  BY <1>1, <1>2, PTL DEF Spec

(* Every variable of the bridge keeps its type.                            *)
THEOREM TypeCorrect == Spec => []TypeOK
<1>1. IInv => TypeOK
  BY DEF IInv
<1> QED
  BY <1>1, Inductive, PTL

(* No frame is solved or sent twice or behind a newer one of its side,     *)
(* whatever the order in which the solvers come back                       *)
(* (manus_wuji_bridge.py:207-262).                                         *)
THEOREM FramesInOrder == Spec => []LatestOnly
<1>1. IInv => LatestOnly
  BY DEF IInv
<1> QED
  BY <1>1, Inductive, PTL

(* For all timeouts with 2 * SendTimeout < JoinTimeout, no send of the     *)
(* worker is under way once shutdown has stopped waiting for it            *)
(* (manus_wuji_bridge.py:253, 418-433).                                    *)
THEOREM NoArmBehindDisable == Spec => []DisableComesLast
<1>1. IInv => DisableComesLast
  BY DEF IInv
<1> QED
  BY <1>1, Inductive, PTL

(* Two disables written whole leave no side armed, whatever line had been  *)
(* cut before them (manus_wuji_bridge.py:430, wuji_client.py:68-73).       *)
THEOREM ColdBeforeClose == Spec => []DisabledBeforeClose
<1>1. IInv => DisabledBeforeClose
  BY DEF IInv
<1> QED
  BY <1>1, Inductive, PTL

=============================================================================
