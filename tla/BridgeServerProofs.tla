------------------------- MODULE BridgeServerProofs -------------------------
(***************************************************************************)
(* However many signals interrupt the main thread of BridgeServer, and     *)
(* wherever, with any number of sessions and hands: shutdown runs once,    *)
(* and the process ends with the motors of every hand off whose SDK does   *)
(* what it is asked, unless an exception broke it off.                     *)
(***************************************************************************)
EXTENDS BridgeServer, SequenceTheorems, WellFoundedInduction, TLAPS

Calls == {"lock", "check", "body"}

StateTypes ==
  /\ base \in BaseStates
  /\ frames \in Seq(Calls)
  /\ stage \in Stages
  /\ started \in BOOLEAN /\ stop \in BOOLEAN
  /\ ses \in [Sessions -> {"free", "made", "running", "ended"}]
  /\ wd \in {"none", "running", "ended"}
  /\ busy \in Sessions \cup {Watchdog, None}
  /\ owner \in Sessions \cup {None}

(* Of the calls of shutdown on the stack at most one is past the flag.     *)
InBody == \E i \in 1 .. Len(frames) : frames[i] = "body"

OneBody ==
  \A i, j \in 1 .. Len(frames) : frames[i] = "body" /\ frames[j] = "body" => i = j

(* The stage of the one shutdown against the stack, the flag and the event.*)
StageInv ==
  /\ started <=> stage # "none"
  /\ stop <=> stage \notin {"none", "event"}
  /\ InBody => started
  /\ stage \notin {"none", "done"} /\ raised = {} => InBody
  /\ stage = "done" => ~ InBody

(* The end of the process comes behind a call of shutdown.                 *)
EndInv ==
  /\ base = "exit" => frames # <<>> \/ started
  /\ base = "gone" => frames = <<>> /\ started

NoSession == \A s \in Sessions : ses[s] = "free"

(* Sessions come after the hands and the watchdog.                         *)
SessionInv ==
  /\ busy \in Sessions => ses[busy] = "running"
  /\ owner # None => ses[owner] # "free"
  /\ base \in {"hands", "listen"} => NoSession
  /\ base \in {"append", "start"} => fresh \in Sessions /\ ses[fresh] = "made"
  /\ base \in {"accept", "append", "start", "prune"} => wd # "none"
  /\ wd = "none" => NoSession
  /\ wd = "ended" => stop

(* A hand that is hot, or about to be, was switched on by a session; only  *)
(* a faulty one is so while it is not connected; a hand that is connected  *)
(* behind shutdown was connected where there are no sessions.              *)
HandInv ==
  /\ hot \subseteq connected \cup Faulty
  /\ late \subseteq Faulty
  /\ hot \cup late # {} => ~ NoSession
  /\ stage = "done" => connected = {} \/ NoSession

IInv == StateTypes /\ OneBody /\ StageInv /\ EndInv /\ SessionInv /\ HandInv

FrameInv == frames \in Seq(Calls) /\ stage \in Stages /\ started \in BOOLEAN
            /\ stop \in BOOLEAN /\ OneBody /\ StageInv

-----------------------------------------------------------------------------
(* The stack                                                               *)

(* The top call returns.                                                   *)
LEMMA Returns ==
  ASSUME frames \in Seq(Calls), frames # <<>>, frames' = Front(frames)
  PROVE  /\ frames' \in Seq(Calls)
         /\ Len(frames) \in Nat \ {0} /\ Len(frames') = Len(frames) - 1
         /\ \A i \in 1 .. Len(frames') : frames'[i] = frames[i]
<1>1. Len(frames) \in Nat \ {0}
  BY EmptySeq, LenProperties
<1> DEFINE n == Len(frames) - 1
<1>2. n \in Int /\ n >= 0 /\ \A i \in 1 .. n : frames[i] \in Calls
  BY <1>1, ElementOfSeq
<1>3. frames' = SubSeq(frames, 1, n)
  BY DEF Front
<1>4. /\ SubSeq(frames, 1, n) \in Seq(Calls)
      /\ Len(SubSeq(frames, 1, n)) = IF 1 <= n THEN n - 1 + 1 ELSE 0
      /\ \A i \in 1 .. n - 1 + 1 : SubSeq(frames, 1, n)[i] = frames[1 + i - 1]
  <2> HIDE DEF n
  <2> QED
    BY <1>2, SubSeqProperties
<1>5. Len(frames') = n /\ \A i \in 1 .. n : frames'[i] = frames[i]
  <2> HIDE DEF n
  <2>1. 1 <= n \/ n = 0
    BY <1>2
  <2>2. Len(frames') = n
    BY <1>2, <1>3, <1>4, <2>1
  <2>3. n - 1 + 1 = n /\ \A i \in 1 .. n : 1 + i - 1 = i
    BY <1>2
  <2> QED
    BY <1>3, <1>4, <2>2, <2>3
<1> QED
  BY <1>1, <1>3, <1>4, <1>5

(* The top call goes on.                                                   *)
LEMMA GoesOn ==
  ASSUME frames \in Seq(Calls), frames # <<>>, NEW c \in Calls, Goto(c)
  PROVE  /\ frames' \in Seq(Calls) /\ frames' # <<>>
         /\ Len(frames) \in Nat \ {0} /\ Len(frames') = Len(frames)
         /\ frames'[Len(frames)] = c
         /\ \A i \in 1 .. Len(frames) - 1 : frames'[i] = frames[i]
<1>1. Len(frames) \in Nat \ {0}
  BY EmptySeq, LenProperties
<1>2. Len(frames) \in 1 .. Len(frames)
  BY <1>1
<1>3. /\ frames' \in Seq(Calls) /\ Len(frames') = Len(frames)
      /\ \A j \in 1 .. Len(frames) : frames'[j] = IF j = Len(frames) THEN c ELSE frames[j]
  BY <1>2, ExceptSeq DEF Goto
<1>4. frames' # <<>>
  BY <1>1, <1>3, EmptySeq
<1> QED
  BY <1>1, <1>3, <1>4

(* A call on an empty stack, or on top of one.                             *)
LEMMA Called ==
  ASSUME frames \in Seq(Calls), frames' = Append(frames, "lock")
  PROVE  /\ frames' \in Seq(Calls) /\ frames' # <<>>
         /\ Len(frames) \in Nat /\ Len(frames') = Len(frames) + 1
         /\ frames'[Len(frames) + 1] = "lock"
         /\ \A i \in 1 .. Len(frames) : frames'[i] = frames[i]
BY AppendProperties, LenProperties DEF Calls

LEMMA EmptyStack ==
  /\ <<>> \in Seq(Calls) /\ Len(<<>>) = 0
  /\ <<"lock">> \in Seq(Calls) /\ <<"lock">> # <<>> /\ Len(<<"lock">>) = 1
  /\ <<"lock">>[1] = "lock"
<1>1. <<>> \in Seq(Calls) /\ Len(<<>>) = 0
  BY EmptySeq
<1>2. "lock" \in Calls
  BY DEF Calls
<1> QED
  BY <1>1, <1>2

LEMMA TopIsLast ==
  ASSUME frames \in Seq(Calls), NEW c, Top(c)
  PROVE  /\ frames # <<>> /\ Len(frames) \in Nat \ {0} /\ frames[Len(frames)] = c
BY EmptySeq, LenProperties DEF Top, Last

-----------------------------------------------------------------------------
(* shutdown                                                                *)

LEMMA PushHolds ==
  ASSUME FrameInv, Finally \/ AtExit \/ Signal
  PROVE  FrameInv' /\ frames' # <<>>
<1>1. UNCHANGED <<stage, started, stop, raised>>
  BY DEF Finally, AtExit, CallShutdown, Signal, bodyVars, flagVars
<1>2. CASE Signal
  <2>1. /\ frames' \in Seq(Calls) /\ frames' # <<>>
        /\ Len(frames) \in Nat /\ Len(frames') = Len(frames) + 1
        /\ frames'[Len(frames) + 1] = "lock"
        /\ \A i \in 1 .. Len(frames) : frames'[i] = frames[i]
    BY <1>2, Called DEF Signal, FrameInv
  <2>2. OneBody' /\ (InBody' <=> InBody)
    BY <2>1 DEF FrameInv, OneBody, InBody
  <2> QED
    BY <1>1, <2>1, <2>2 DEF FrameInv, StageInv
<1>3. CASE Finally \/ AtExit
  <2>1. frames = <<>> /\ frames' = <<"lock">>
    BY <1>3 DEF Finally, AtExit, CallShutdown, Base
  <2>2. ~ InBody /\ ~ InBody' /\ OneBody'
    BY <2>1, EmptyStack DEF InBody, OneBody
  <2> QED
    BY <1>1, <2>1, <2>2, EmptyStack DEF FrameInv, StageInv
<1> QED
  BY <1>2, <1>3

LEMMA TakeLockHolds ==
  ASSUME FrameInv, TakeLock
  PROVE  FrameInv' /\ frames' # <<>>
<1>1. UNCHANGED <<stage, started, stop, raised>>
  BY DEF TakeLock, bodyVars
<1>2. frames # <<>> /\ Len(frames) \in Nat \ {0} /\ frames[Len(frames)] = "lock"
  BY TopIsLast DEF TakeLock, FrameInv
<1>3. /\ frames' \in Seq(Calls) /\ frames' # <<>> /\ Len(frames') = Len(frames)
      /\ frames'[Len(frames)] = "check"
      /\ \A i \in 1 .. Len(frames) - 1 : frames'[i] = frames[i]
  BY <1>2, GoesOn DEF TakeLock, FrameInv, Calls
<1>4. OneBody' /\ (InBody' <=> InBody)
  BY <1>2, <1>3 DEF FrameInv, OneBody, InBody
<1> QED
  BY <1>1, <1>3, <1>4 DEF FrameInv, StageInv

(* The flag lets one call pass.                                            *)
LEMMA CheckHolds ==
  ASSUME FrameInv, Check
  PROVE  FrameInv' /\ started' /\ (stage' = "done" => stage = "done")
<1>1. UNCHANGED <<stop, raised>>
  BY DEF Check
<1>2. frames # <<>> /\ Len(frames) \in Nat \ {0} /\ frames[Len(frames)] = "check"
  BY TopIsLast DEF Check, FrameInv
<1>3. CASE started
  <2>1. frames' = Front(frames) /\ UNCHANGED <<started, stage>>
    BY <1>3 DEF Check
  <2>2. /\ frames' \in Seq(Calls) /\ Len(frames') = Len(frames) - 1
        /\ \A i \in 1 .. Len(frames') : frames'[i] = frames[i]
    BY <1>2, <2>1, Returns DEF FrameInv
  <2>3. OneBody' /\ (InBody' <=> InBody)
    BY <1>2, <2>2 DEF FrameInv, OneBody, InBody
  <2> QED
    BY <1>1, <1>3, <2>1, <2>2, <2>3 DEF FrameInv, StageInv
<1>4. CASE ~ started
  <2>1. Goto("body") /\ started' = TRUE /\ stage' = "event"
    BY <1>4 DEF Check
  <2>2. /\ frames' \in Seq(Calls) /\ Len(frames') = Len(frames)
        /\ frames'[Len(frames)] = "body"
        /\ \A i \in 1 .. Len(frames) - 1 : frames'[i] = frames[i]
    BY <1>2, <2>1, GoesOn DEF FrameInv, Calls
  <2>3. \A i \in 1 .. Len(frames) : frames[i] # "body"
    BY <1>4 DEF FrameInv, StageInv, InBody
  <2>4. OneBody' /\ InBody'
    BY <1>2, <2>2, <2>3 DEF OneBody, InBody
  <2>5. stage = "none" /\ ~ stop
    BY <1>4 DEF FrameInv, StageInv
  <2> QED
    BY <1>1, <2>1, <2>2, <2>4, <2>5 DEF FrameInv, StageInv, Stages
<1> QED
  BY <1>3, <1>4

(* The body of shutdown up to the hands.                                   *)
LEMMA BodyHolds ==
  ASSUME FrameInv,
         SetStop \/ JoinWatchdog \/ StopClients \/ JoinClient \/ JoinedAll \/ CloseSocket
           \/ DisconnectHand
  PROVE  /\ FrameInv' /\ stage' # "done" /\ UNCHANGED frames /\ started /\ started'
         /\ frames # <<>>
<1>1. UNCHANGED <<frames, started, raised>> /\ Top("body")
  BY DEF SetStop, JoinWatchdog, StopClients, JoinClient, JoinedAll, CloseSocket,
    DisconnectHand, Body, mainVars, bodyVars, flagVars
<1>2. InBody /\ frames # <<>>
  BY <1>1, TopIsLast DEF InBody, FrameInv
<1>3. /\ stage' \in Stages \ {"none", "event", "done"}
      /\ stop' /\ stop' \in BOOLEAN
  BY <1>1 DEF SetStop, JoinWatchdog, StopClients, JoinClient, JoinedAll, CloseSocket,
    DisconnectHand, Body, mainVars, bodyVars, flagVars, Stages, FrameInv, StageInv
<1>4. OneBody' /\ InBody'
  BY <1>1, <1>2 DEF OneBody, InBody, FrameInv
<1> QED
  BY <1>1, <1>2, <1>3, <1>4 DEF FrameInv, StageInv

LEMMA DoneHolds ==
  ASSUME FrameInv, ShutdownDone
  PROVE  FrameInv' /\ started'
<1>1. UNCHANGED <<started, stop, raised>> /\ stage = "hands" /\ stage' = "done"
  BY DEF ShutdownDone, Body, flagVars
<1>2. /\ frames # <<>> /\ Len(frames) \in Nat \ {0} /\ frames[Len(frames)] = "body"
      /\ frames' = Front(frames)
  BY TopIsLast DEF ShutdownDone, Body, FrameInv
<1>3. /\ frames' \in Seq(Calls) /\ Len(frames') = Len(frames) - 1
      /\ \A i \in 1 .. Len(frames') : frames'[i] = frames[i]
  BY <1>2, Returns DEF FrameInv
<1>4. ~ InBody' /\ OneBody'
  BY <1>2, <1>3 DEF FrameInv, OneBody, InBody
<1> QED
  BY <1>1, <1>3, <1>4 DEF FrameInv, StageInv, Stages

LEMMA UnwindHolds ==
  ASSUME FrameInv, JoinUnstarted \/ DisconnectRaises
  PROVE  FrameInv' /\ started /\ started' /\ stage' # "done" /\ frames # <<>>
<1>1. /\ UNCHANGED <<started, stop, stage>> /\ raised' # {} /\ frames' = <<>>
      /\ stage \in {"join", "hands"} /\ Top("body")
  BY DEF JoinUnstarted, DisconnectRaises, Unwind, Body, flagVars
<1>2. ~ InBody' /\ OneBody' /\ frames' \in Seq(Calls)
  BY <1>1, EmptyStack DEF InBody, OneBody
<1>3. frames # <<>>
  BY <1>1 DEF Top
<1> QED
  BY <1>1, <1>2, <1>3 DEF FrameInv, StageInv

(* Everything else leaves shutdown alone.                                  *)
Elsewhere ==
  \/ StartHands \/ Listen \/ StopAccepting \/ AppendClient \/ StartSession \/ Prune
  \/ ProcessEnds \/ Accept \/ AcceptFails \/ Inside \/ Expire \/ WatchdogEnds
  \/ \E s \in Sessions :
       Recv(s) \/ Message(s) \/ ArmHand(s) \/ Leave(s) \/ SessionExpires(s)
  \/ \E h \in Hands : LateEnable(h)

Pushes == Finally \/ AtExit \/ Signal
Works == SetStop \/ JoinWatchdog \/ StopClients \/ JoinClient \/ JoinedAll \/ CloseSocket
Raises == JoinUnstarted \/ DisconnectRaises

LEMMA NextCases ==
  Next => Elsewhere \/ Pushes \/ TakeLock \/ Check \/ Works \/ DisconnectHand
          \/ ShutdownDone \/ Raises
BY DEF Next, Main, Elsewhere, Pushes, Works, Raises

LEMMA ElsewhereUntouched ==
  Elsewhere => UNCHANGED <<frames, stage, started, stop, raised>>
BY DEF Elsewhere, StartHands, Listen, StopAccepting, AppendClient, StartSession, Prune,
  ProcessEnds, Accept, Inside, DropEnds, ArmEnds, Expire, AcceptFails,
      SessionExpires, LateEnable, WatchdogEnds, Recv, Message,
  ArmHand, Leave, mainVars, bodyVars, flagVars

LEMMA FramesHold ==
  ASSUME IInv, Next
  PROVE  FrameInv'
<1>1. FrameInv
  BY DEF IInv, StateTypes, FrameInv
<1>2. CASE Elsewhere
  BY <1>1, <1>2, ElsewhereUntouched DEF FrameInv, OneBody, StageInv, InBody
<1> QED
  BY <1>1, <1>2, NextCases, PushHolds, TakeLockHolds, CheckHolds, BodyHolds, DoneHolds,
     UnwindHolds DEF Pushes, Works, Raises

-----------------------------------------------------------------------------
(* The rest of the process                                                 *)

LEMMA TypesHold ==
  ASSUME IInv, Next, FrameInv'
  PROVE  StateTypes'
<1> USE DEF IInv
<1>1. CASE Elsewhere
  <2>1. base' \in BaseStates
    BY <1>1 DEF StateTypes, BaseStates, Elsewhere, StartHands, Listen, StopAccepting,
      AppendClient, StartSession, Prune, ProcessEnds, Accept, Inside, DropEnds, ArmEnds,
      Expire, AcceptFails, SessionExpires, LateEnable, WatchdogEnds, Recv, Message, ArmHand, Leave, mainVars
  <2>2. ses' \in [Sessions -> {"free", "made", "running", "ended"}]
    BY <1>1 DEF StateTypes, Elsewhere, StartHands, Listen, StopAccepting,
      AppendClient, StartSession, Prune, ProcessEnds, Accept, Inside, DropEnds, ArmEnds,
      Expire, AcceptFails, SessionExpires, LateEnable, WatchdogEnds, Recv, Message, ArmHand, Leave, sesVars
  <2>3. wd' \in {"none", "running", "ended"}
    BY <1>1 DEF StateTypes, Elsewhere, StartHands, Listen, StopAccepting,
      AppendClient, StartSession, Prune, ProcessEnds, Accept, Inside, DropEnds, ArmEnds,
      Expire, AcceptFails, SessionExpires, LateEnable, WatchdogEnds, Recv, Message, ArmHand, Leave, sesVars
  <2>4. busy' \in Sessions \cup {Watchdog, None} /\ owner' \in Sessions \cup {None}
    BY <1>1 DEF StateTypes, Elsewhere, StartHands, Listen, StopAccepting,
      AppendClient, StartSession, Prune, ProcessEnds, Accept, Inside, DropEnds, ArmEnds,
      Expire, AcceptFails, SessionExpires, LateEnable, WatchdogEnds, Recv, Message, ArmHand, Leave, authVars, handVars, Enter
  <2> QED
    BY <2>1, <2>2, <2>3, <2>4 DEF StateTypes, FrameInv
<1>2. CASE ~ Elsewhere
  <2>1. /\ UNCHANGED <<ses, wd, busy, owner>>
        /\ base' \in {base, "return", "exit"} \/ base' \in AfterException
    BY <1>2, NextCases DEF Pushes, Works, Raises, Finally, AtExit, CallShutdown, Signal,
      TakeLock, Check, SetStop, JoinWatchdog, StopClients, JoinClient, JoinedAll,
      CloseSocket, DisconnectHand, ShutdownDone, JoinUnstarted, DisconnectRaises, Unwind,
      mainVars, sesVars, authVars, handVars
  <2>2. base' \in BaseStates
    BY <2>1 DEF StateTypes, BaseStates, AfterException
  <2> QED
    BY <2>1, <2>2 DEF StateTypes, FrameInv
<1> QED
  BY <1>1, <1>2

(* The main thread passes a call of shutdown on its way out.               *)
LEMMA EndHolds ==
  ASSUME IInv, Next
  PROVE  EndInv'
<1> USE DEF IInv
<1>0. FrameInv
  BY DEF StateTypes, FrameInv
<1>1. CASE Elsewhere
  <2>1. UNCHANGED <<frames, started>>
    BY <1>1, ElsewhereUntouched
  <2>2. \/ UNCHANGED base
        \/ base' \notin {"exit", "gone"}
        \/ base' = "gone" /\ frames = <<>> /\ base = "exit"
    BY <1>1 DEF Elsewhere, StartHands, Listen, StopAccepting, AppendClient, StartSession,
      Prune, ProcessEnds, Accept, Inside, DropEnds, ArmEnds, Expire, AcceptFails,
      SessionExpires, LateEnable, WatchdogEnds, Recv,
      Message, ArmHand, Leave, mainVars, Base
  <2> QED
    BY <2>1, <2>2 DEF EndInv
<1>2. CASE Pushes
  <2>1. frames' # <<>>
    BY <1>0, <1>2, PushHolds DEF Pushes
  <2>2. base' # "gone"
    BY <1>2 DEF Pushes, Finally, AtExit, CallShutdown, Signal, Alive
  <2> QED
    BY <2>1, <2>2 DEF EndInv
<1>3. CASE TakeLock
  <2>1. frames' # <<>> /\ frames # <<>> /\ UNCHANGED base
    BY <1>0, <1>3, TakeLockHolds DEF TakeLock, Top
  <2> QED
    BY <2>1 DEF EndInv
<1>4. CASE Check \/ ShutdownDone
  <2>1. started' /\ frames # <<>> /\ UNCHANGED base
    BY <1>0, <1>4, CheckHolds, DoneHolds DEF Check, ShutdownDone, Body, Top
  <2> QED
    BY <2>1 DEF EndInv
<1>5. CASE Works \/ DisconnectHand
  <2>1. UNCHANGED frames /\ frames # <<>> /\ started'
    BY <1>0, <1>5, BodyHolds DEF Works
  <2>2. UNCHANGED base
    BY <1>5 DEF Works, SetStop, JoinWatchdog, StopClients, JoinClient, JoinedAll,
      CloseSocket, DisconnectHand, mainVars
  <2> QED
    BY <2>1, <2>2 DEF EndInv
<1>6. CASE Raises
  <2>1. started' /\ frames # <<>>
    BY <1>0, <1>6, UnwindHolds DEF Raises
  <2>2. base' \in AfterException /\ base # "gone"
    BY <1>6, <2>1 DEF Raises, JoinUnstarted, DisconnectRaises, Unwind, EndInv
  <2>3. base' # "gone"
    BY <2>2 DEF AfterException, StateTypes, BaseStates
  <2> QED
    BY <2>1, <2>3 DEF EndInv
<1> QED
  BY <1>1, <1>2, <1>3, <1>4, <1>5, <1>6, NextCases

(* No session runs before it was started, none holds the authority before. *)
LEMMA SessionHolds ==
  ASSUME IInv, Next
  PROVE  SessionInv'
<1> USE DEF IInv
<1>0. FrameInv /\ {Watchdog, None} \cap Sessions = {}
  BY ServerAssumption DEF StateTypes, FrameInv
<1>1. CASE StartHands
  BY <1>1 DEF StartHands, SessionInv, NoSession, Base, listVars, sesVars, flagVars
<1>2. CASE Listen
  BY <1>2 DEF Listen, SessionInv, NoSession, Base, sesVars, flagVars, authVars, handVars
<1>3. CASE Accept
  <2>1. PICK s \in Sessions : ses[s] = "free" /\ ses' = [ses EXCEPT ![s] = "made"] /\ fresh' = s
    BY <1>3 DEF Accept
  <2> QED
    BY <1>3, <2>1 DEF Accept, SessionInv, NoSession, StateTypes, Base, flagVars, authVars, handVars
<1>4. CASE StopAccepting
  BY <1>4 DEF StopAccepting, SessionInv, NoSession, Base, listVars, sesVars, flagVars, authVars, handVars
<1>5. CASE AppendClient
  BY <1>5 DEF AppendClient, SessionInv, NoSession, Base, sesVars, flagVars, authVars, handVars
<1>6. CASE StartSession
  <2>1. base = "start" /\ fresh \in Sessions /\ ses[fresh] = "made"
    BY <1>6 DEF StartSession, SessionInv, Base
  <2> QED
    BY <1>6, <2>1 DEF StartSession, SessionInv, NoSession, StateTypes, Base, listVars, flagVars,
      authVars, handVars
<1>7. CASE Prune
  BY <1>7 DEF Prune, SessionInv, NoSession, Base, sesVars, flagVars, authVars, handVars
<1>8. CASE ProcessEnds
  BY <1>8 DEF ProcessEnds, SessionInv, NoSession, Base, listVars, sesVars, flagVars, authVars, handVars
<1>9. CASE DropEnds
  <2>1. /\ ses' \in [Sessions -> {"free", "made", "running", "ended"}]
        /\ \A s \in Sessions : \/ ses'[s] = ses[s]
                               \/ busy = s /\ ses[s] = "running" /\ ses'[s] = "ended"
    BY <1>9 DEF DropEnds, StateTypes, SessionInv
  <2>2. busy' = None /\ owner' \in {owner, None}
        /\ UNCHANGED <<base, fresh, wd, stop>>
    BY <1>9 DEF DropEnds, Enter, mainVars, listVars, flagVars
  <2> QED
    BY <1>0, <2>1, <2>2 DEF SessionInv, NoSession, StateTypes
<1>10. CASE \E s \in Sessions : ArmEnds(s)
  <2>1. busy' = None /\ owner' \in {owner, None}
        /\ UNCHANGED <<base, fresh, wd, stop, ses>>
    BY <1>10 DEF ArmEnds, Enter, mainVars, listVars, flagVars, sesVars
  <2> QED
    BY <1>0, <2>1 DEF SessionInv, NoSession
<1>11. CASE Expire \/ WatchdogEnds
  BY <1>0, <1>11 DEF Expire, WatchdogEnds, Enter, SessionInv, NoSession, mainVars, listVars,
    sesVars, flagVars, authVars, handVars
<1>12. CASE \E s \in Sessions :
              Recv(s) \/ Message(s) \/ ArmHand(s) \/ Leave(s) \/ SessionExpires(s)
  <2>1. PICK s \in Sessions :
          Recv(s) \/ Message(s) \/ ArmHand(s) \/ Leave(s) \/ SessionExpires(s)
    BY <1>12
  <2>2. /\ UNCHANGED <<base, fresh, wd, stop, ses>>
        /\ busy' = busy \/ (busy' = s /\ ses[s] = "running")
        /\ owner' = owner \/ (owner' = s /\ ses[s] = "running")
    BY <2>1 DEF Recv, Message, ArmHand, Leave, SessionExpires, Enter, mainVars, listVars, sesVars, flagVars,
      authVars, handVars
  <2>3. busy' \in Sessions => ses'[busy'] = "running"
    BY <2>2 DEF SessionInv
  <2>4. owner' # None => ses'[owner'] # "free"
    BY <2>2 DEF SessionInv
  <2> QED
    BY <2>2, <2>3, <2>4 DEF SessionInv, NoSession
<1>14. CASE AcceptFails \/ \E h \in Hands : LateEnable(h)
  <2>1. UNCHANGED <<ses, busy, owner, wd, fresh, stop>> /\ (UNCHANGED base \/ base' = "finally")
    BY <1>14 DEF AcceptFails, LateEnable, mainVars, sesVars, authVars, handVars, listVars, flagVars
  <2> QED
    BY <2>1 DEF SessionInv, NoSession
<1>13. CASE ~ Elsewhere
  <2>1. UNCHANGED <<ses, busy, owner, wd, fresh>> /\ (stop => stop')
    BY <1>13, NextCases DEF Pushes, Works, Raises, Finally, AtExit, CallShutdown, Signal,
      TakeLock, Check, SetStop, JoinWatchdog, StopClients, JoinClient, JoinedAll,
      CloseSocket, DisconnectHand, ShutdownDone, JoinUnstarted, DisconnectRaises,
      sesVars, authVars, handVars, listVars, flagVars
  <2>2. \/ UNCHANGED base
        \/ base' \in {"return", "exit", "finally"}
        \/ base = "hands" /\ base' = "hands"
    BY <1>13, NextCases DEF Pushes, Works, Raises, Finally, AtExit, CallShutdown, Signal,
      TakeLock, Check, SetStop, JoinWatchdog, StopClients, JoinClient, JoinedAll,
      CloseSocket, DisconnectHand, ShutdownDone, JoinUnstarted, DisconnectRaises, Unwind,
      AfterException, StateTypes, BaseStates, mainVars
  <2> QED
    BY <2>1, <2>2 DEF SessionInv, NoSession
<1> QED
  BY <1>1, <1>2, <1>3, <1>4, <1>5, <1>6, <1>7, <1>8, <1>9, <1>10, <1>11, <1>12, <1>13,
     <1>14
  DEF Elsewhere, Inside

(* What is hot is connected, and behind shutdown nothing is both.          *)
LEMMA HandHolds ==
  ASSUME IInv, Next
  PROVE  HandInv'
<1> USE DEF IInv
<1>0. FrameInv
  BY DEF StateTypes, FrameInv
<1>1. CASE StartHands
  BY <1>1 DEF StartHands, HandInv, SessionInv, NoSession, Base, sesVars, bodyVars
<1>2. CASE Accept
  <2>1. /\ stage # "done" /\ UNCHANGED <<hot, late, connected, stage>>
        /\ \E s \in Sessions : ses'[s] = "made"
    BY <1>2 DEF Accept, StageInv, StateTypes, authVars, handVars, bodyVars
  <2> QED
    BY <2>1 DEF HandInv, NoSession
<1>3. CASE StartSession
  <2>1. base = "start" /\ fresh \in Sessions /\ ses[fresh] = "made"
    BY <1>3 DEF StartSession, SessionInv, Base
  <2>2. ~ NoSession /\ ~ NoSession' /\ UNCHANGED <<hot, late, connected, stage>>
    BY <1>3, <2>1 DEF StartSession, NoSession, StateTypes, authVars, handVars, bodyVars
  <2> QED
    BY <2>2 DEF HandInv
<1>4. CASE DropEnds
  <2>1. \A s \in Sessions : ses'[s] = ses[s] \/ (ses[s] = "running" /\ ses'[s] = "ended")
    BY <1>4 DEF DropEnds, StateTypes, SessionInv
  <2>2. (NoSession' <=> NoSession) /\ hot' \subseteq hot /\ UNCHANGED <<late, connected, stage>>
    BY <1>4, <2>1 DEF DropEnds, SwitchOff, NoSession, bodyVars
  <2> QED
    BY <2>2 DEF HandInv
<1>5. CASE \E s \in Sessions : ArmEnds(s)
  <2>1. hot' \subseteq hot /\ UNCHANGED <<late, connected, stage, ses>>
    BY <1>5 DEF ArmEnds, SwitchOff, bodyVars, sesVars
  <2> QED
    BY <2>1 DEF HandInv, NoSession
<1>6. CASE \E s \in Sessions : ArmHand(s)
  <2>1. PICK s \in Sessions : ArmHand(s)
    BY <1>6
  <2>2. ses[s] = "running" /\ UNCHANGED <<ses, connected, stage>>
    BY <2>1 DEF ArmHand, SessionInv, sesVars, bodyVars
  <2>3. PICK h \in connected \ hot :
          \/ hot' = hot \cup {h} /\ late' = late \ {h}
          \/ h \in Faulty /\ late' = late \cup {h} /\ UNCHANGED hot
    BY <2>1 DEF ArmHand
  <2> QED
    BY <2>2, <2>3 DEF HandInv, NoSession
<1>7. CASE \E h \in Hands : LateEnable(h)
  <2>1. PICK h \in late : late' = late \ {h} /\ hot' \in {hot, hot \cup {h}}
    BY <1>7 DEF LateEnable
  <2>2. UNCHANGED <<ses, connected, stage>>
    BY <1>7 DEF LateEnable, sesVars, bodyVars
  <2> QED
    BY <2>1, <2>2 DEF HandInv, NoSession
<1>8. CASE \/ Listen \/ StopAccepting \/ AppendClient \/ Prune \/ ProcessEnds \/ Expire
           \/ AcceptFails \/ WatchdogEnds \/ Pushes \/ TakeLock
           \/ \E s \in Sessions : Recv(s) \/ Message(s) \/ Leave(s) \/ SessionExpires(s)
  <2>1. UNCHANGED <<hot, late, connected, stage, ses>>
    BY <1>8 DEF Listen, StopAccepting, AppendClient, Prune, ProcessEnds, Expire, AcceptFails,
      WatchdogEnds, Pushes, Finally, AtExit, CallShutdown, Signal, TakeLock, Recv, Message,
      Leave, SessionExpires, authVars, handVars, bodyVars, sesVars
  <2> QED
    BY <2>1 DEF HandInv, NoSession
<1>9. CASE Check
  <2>1. stage' = "done" => stage = "done"
    BY <1>0, <1>9, CheckHolds
  <2>2. UNCHANGED <<hot, late, connected, ses>>
    BY <1>9 DEF Check, authVars, handVars, sesVars
  <2> QED
    BY <2>1, <2>2 DEF HandInv, NoSession
<1>10. CASE Works
  <2>1. stage' # "done"
    BY <1>0, <1>10, BodyHolds DEF Works
  <2>2. UNCHANGED <<hot, late, connected, ses>>
    BY <1>10 DEF Works, SetStop, JoinWatchdog, StopClients, JoinClient, JoinedAll, CloseSocket,
      authVars, handVars, sesVars
  <2> QED
    BY <2>1, <2>2 DEF HandInv, NoSession
<1>11. CASE DisconnectHand \/ DisconnectRaises
  <2>1. stage' # "done"
    BY <1>0, <1>11, BodyHolds, UnwindHolds
  <2>2. PICK h \in connected : /\ connected' = connected \ {h}
                               /\ hot' = hot \ {h} \/ (h \in Faulty /\ hot' = hot)
    BY <1>11 DEF DisconnectHand, DisconnectRaises
  <2>3. UNCHANGED <<ses, late>>
    BY <1>11 DEF DisconnectHand, DisconnectRaises, sesVars
  <2> QED
    BY <2>1, <2>2, <2>3 DEF HandInv, NoSession
<1>12. CASE JoinUnstarted
  <2>1. stage' # "done"
    BY <1>0, <1>12, UnwindHolds
  <2> QED
    BY <1>12, <2>1 DEF JoinUnstarted, HandInv, NoSession, authVars, handVars, sesVars
<1>13. CASE ShutdownDone
  BY <1>13 DEF ShutdownDone, HandInv, NoSession, authVars, handVars, sesVars
<1> QED
  BY <1>1, <1>2, <1>3, <1>4, <1>5, <1>6, <1>7, <1>8, <1>9, <1>10, <1>11, <1>12, <1>13, NextCases
  DEF Elsewhere, Inside, Raises

-----------------------------------------------------------------------------
LEMMA InitHolds == Init => IInv
<1> SUFFICES ASSUME Init PROVE IInv
  OBVIOUS
<1>1. StateTypes
  BY EmptyStack DEF Init, StateTypes, BaseStates, Stages
<1>2. ~ InBody /\ OneBody
  BY EmptyStack DEF Init, InBody, OneBody
<1>3. SessionInv
  BY ServerAssumption DEF Init, SessionInv, NoSession
<1> QED
  BY <1>1, <1>2, <1>3 DEF Init, IInv, StageInv, EndInv, HandInv

(* The inductive invariant of the server's process.                        *)
LEMMA StepHolds == IInv /\ [Next]_vars => IInv'
<1>1. IInv /\ Next => IInv'
  BY FramesHold, TypesHold, EndHolds, SessionHolds, HandHolds DEF IInv, FrameInv
<1>2. IInv /\ UNCHANGED vars => IInv'
  BY DEF IInv, StateTypes, OneBody, StageInv, InBody, EndInv, SessionInv, NoSession, HandInv,
    vars, mainVars, bodyVars, flagVars, listVars, sesVars, authVars, handVars
<1> QED
  BY <1>1, <1>2

LEMMA InvariantHolds == Spec => []IInv
<1>1. IInv /\ [Next]_vars => IInv'
  BY StepHolds
<1> QED
  BY <1>1, InitHolds, PTL DEF Spec

(***************************************************************************)
(* server.py:150-177 and hand_worker.py:450-495, with any number of        *)
(* signals, sessions and hands and any of them faulty: when a hand without *)
(* fault is powered at the end of the process, an exception broke off the  *)
(* one shutdown that counts.                                               *)
(***************************************************************************)
THEOREM EndsCold == Spec => []ColdExit
<1>1. IInv => ColdExit
  <2> SUFFICES ASSUME IInv, base = "gone", raised = {} PROVE hot \subseteq Faulty
    BY DEF ColdExit
  <2>1. frames = <<>> /\ started
    BY DEF IInv, EndInv
  <2>2. ~ InBody
    BY <2>1, EmptyStack DEF InBody
  <2>3. stage = "done"
    BY <2>1, <2>2 DEF IInv, StageInv
  <2> QED
    BY <2>3 DEF IInv, HandInv
<1> QED
  BY <1>1, InvariantHolds, PTL

-----------------------------------------------------------------------------
(* The list of the clients                                                 *)

(* A set of numbers that has one has a least one.                          *)
LEMMA Least ==
  ASSUME NEW X \in SUBSET Nat, X # {}
  PROVE  \E n \in X : \A m \in X : n <= m
<1> DEFINE R == OpToRel(<, Nat)
<1>1. IsWellFoundedOn(R, Nat)
  BY NatLessThanWellFounded
<1>2. PICK n \in X : \A m \in X : ~ (<<m, n>> \in R)
  <2> HIDE DEF R
  <2> QED
    BY <1>1, WFMin
<1>3. \A m \in X : ~ (m < n)
  <2> SUFFICES ASSUME NEW m \in X, m < n PROVE <<m, n>> \in R
    BY <1>2
  <2> QED
    BY DEF OpToRel
<1> HIDE DEF R
<1> QED
  BY <1>3

(* What holds of 0 and of m + 1 with m holds up to n.                      *)
LEMMA UpTo ==
  ASSUME NEW n \in Nat, NEW X, 0 \in X, \A m \in 0 .. n - 1 : m \in X => m + 1 \in X
  PROVE  0 .. n \subseteq X
<1> SUFFICES ASSUME NEW k \in 0 .. n, k \notin X PROVE FALSE
  OBVIOUS
<1> DEFINE missing == {m \in 0 .. n : m \notin X}
<1>1. PICK m \in missing : \A j \in missing : m <= j
  <2>1. missing \in SUBSET Nat /\ k \in missing
    OBVIOUS
  <2> HIDE DEF missing
  <2> QED
    BY <2>1, Least
<1>2. m # 0 /\ m \in 0 .. n /\ m \notin X
  OBVIOUS
<1>3. m - 1 \in 0 .. n - 1 /\ m - 1 \notin missing
  BY <1>1, <1>2
<1>4. m - 1 \in X
  BY <1>2, <1>3
<1>5. (m - 1) + 1 \in X
  BY <1>3, <1>4
<1> QED
  BY <1>2, <1>5

(* The clients that run are a list of clients.                             *)
LEMMA RunningIsAList ==
  ASSUME clients \in Seq(Sessions)
  PROVE  Running[Len(clients)] \in Seq(Sessions)
<1> DEFINE n == Len(clients)
           More(g, i) == IF ses[clients[i]] = "running" THEN Append(g[i - 1], clients[i])
                         ELSE g[i - 1]
           Fits(g, m) == g[0] = <<>> /\ \A i \in 1 .. m : g[i] = More(g, i)
           X == {m \in 0 .. n : \E g \in [0 .. m -> Seq(Sessions)] : Fits(g, m)}
<1>1. n \in Nat /\ \A i \in 1 .. n : clients[i] \in Sessions
  BY ElementOfSeq
<1>2. 0 \in X
  <2> DEFINE g == [i \in 0 .. 0 |-> <<>>]
  <2>1. g \in [0 .. 0 -> Seq(Sessions)] /\ Fits(g, 0)
    BY EmptySeq
  <2>2. 0 \in 0 .. n
    BY <1>1
  <2> HIDE DEF Fits, g, n
  <2> QED
    BY <2>1, <2>2
<1>3. ASSUME NEW m \in 0 .. n - 1, m \in X
      PROVE  m + 1 \in X
  <2>1. PICK g \in [0 .. m -> Seq(Sessions)] : Fits(g, m)
    BY <1>3
  <2> DEFINE h == [i \in 0 .. m + 1 |-> IF i = m + 1 THEN More(g, m + 1) ELSE g[i]]
  <2>2. clients[m + 1] \in Sessions /\ g[m] \in Seq(Sessions) /\ m + 1 \in 0 .. n
    BY <1>1, <1>3
  <2>3. More(g, m + 1) \in Seq(Sessions)
    BY <2>2, AppendProperties
  <2>4. h \in [0 .. m + 1 -> Seq(Sessions)]
    <3> HIDE DEF More
    <3> QED
      BY <1>1, <2>1, <2>3
  <2>5. h[0] = <<>>
    BY <1>1, <2>1
  <2>6. \A i \in 0 .. m : h[i] = g[i]
    BY <1>1
  <2>7. h[m + 1] = More(g, m + 1)
    BY <1>1
  <2> HIDE DEF h
  <2>8. \A i \in 1 .. m + 1 : h[i] = More(h, i)
    <3> TAKE i \in 1 .. m + 1
    <3>1. i - 1 \in 0 .. m /\ h[i - 1] = g[i - 1]
      BY <1>1, <2>6
    <3>2. More(h, i) = More(g, i)
      BY <3>1
    <3>3. CASE i = m + 1
      BY <2>7, <3>2, <3>3
    <3>4. CASE i \in 1 .. m
      BY <2>1, <2>6, <3>2, <3>4
    <3> QED
      BY <1>1, <3>3, <3>4
  <2> QED
    BY <2>2, <2>4, <2>5, <2>8
<1>4. n \in X
  <2> HIDE DEF X, n
  <2>1. 0 .. n \subseteq X
    BY <1>1, <1>2, <1>3, UpTo
  <2> QED
    BY <1>1, <2>1
<1>5. PICK g \in [0 .. n -> Seq(Sessions)] : Fits(g, n)
  BY <1>4
<1> DEFINE Is(f) ==
      f = [i \in 0 .. n |->
            IF i = 0 THEN <<>>
            ELSE IF ses[clients[i]] = "running" THEN Append(f[i - 1], clients[i])
            ELSE f[i - 1]]
<1>6. Is(g)
  <2>1. \A i \in 0 .. n :
          g[i] = IF i = 0 THEN <<>>
                 ELSE IF ses[clients[i]] = "running" THEN Append(g[i - 1], clients[i])
                 ELSE g[i - 1]
    <3> TAKE i \in 0 .. n
    <3>1. CASE i = 0
      BY <1>5, <3>1
    <3>2. CASE i \in 1 .. n
      BY <1>5, <3>2
    <3> QED
      BY <1>1, <3>1, <3>2
  <2> QED
    BY <2>1
<1>7. Running = CHOOSE f : Is(f)
  BY DEF Running
<1>8. Is(Running)
  <2> HIDE DEF Is
  <2> QED
    BY <1>6, <1>7
<1>9. \A i \in 0 .. n : Running[i] = g[i]
  <2> DEFINE Y == {i \in 0 .. n : Running[i] = g[i]}
  <2>1. Running[0] = <<>> /\ \A i \in 1 .. n : Running[i] = More(Running, i)
    <3>1. \A i \in 0 .. n :
            Running[i] = IF i = 0 THEN <<>>
                         ELSE IF ses[clients[i]] = "running" THEN Append(Running[i - 1], clients[i])
                         ELSE Running[i - 1]
      BY <1>8
    <3> QED
      BY <1>1, <3>1
  <2>2. 0 \in Y
    BY <1>1, <1>5, <2>1
  <2>3. \A i \in 0 .. n - 1 : i \in Y => i + 1 \in Y
    <3> SUFFICES ASSUME NEW i \in 0 .. n - 1, Running[i] = g[i]
                 PROVE  i + 1 \in 0 .. n /\ Running[i + 1] = g[i + 1]
      OBVIOUS
    <3>1. i + 1 \in 1 .. n /\ (i + 1) - 1 = i
      BY <1>1
    <3>2. Running[i + 1] = More(Running, i + 1) /\ g[i + 1] = More(g, i + 1)
      BY <1>5, <2>1, <3>1
    <3> QED
      BY <1>1, <3>1, <3>2
  <2>4. 0 .. n \subseteq Y
    <3> HIDE DEF Y, n
    <3> QED
      BY <1>1, <2>2, <2>3, UpTo
  <2> QED
    BY <2>4
<1> QED
  BY <1>1, <1>5, <1>9

-----------------------------------------------------------------------------
(* The types of all the rest                                               *)

RestTypes ==
  /\ signals \in 0 .. MaxSignals
  /\ lockHeld \in BOOLEAN /\ open \in BOOLEAN
  /\ todo \in Seq(Sessions) /\ clients \in Seq(Sessions)
  /\ raised \subseteq {"unstarted", "disconnect"}
  /\ fresh \in Sessions \cup {None}
  /\ halted \in [Sessions -> BOOLEAN]
  /\ buffer \in [Sessions -> 0 .. MaxBuffer]
  /\ work \in {"none", "arm", "disarm", "leave", "expire"}
  /\ hot \subseteq Hands /\ connected \subseteq Hands

(* One call of shutdown per signal, and one more.                          *)
StackBound == Len(frames) <= signals + 1

LEMMA StackBounded ==
  ASSUME IInv, RestTypes, StackBound, Next
  PROVE  StackBound'
<1>0. frames \in Seq(Calls) /\ Len(frames) \in Nat /\ signals \in Nat
  BY LenProperties DEF IInv, StateTypes, RestTypes
<1>1. CASE Elsewhere \/ Works \/ DisconnectHand
  <2>1. UNCHANGED <<frames, signals>>
    BY <1>1 DEF Elsewhere, StartHands, Listen, StopAccepting, AppendClient, StartSession,
      Prune, ProcessEnds, Accept, Inside, DropEnds, ArmEnds, Expire, AcceptFails,
      SessionExpires, LateEnable, WatchdogEnds, Recv,
      Message, ArmHand, Leave, Works, SetStop, JoinWatchdog, StopClients, JoinClient,
      JoinedAll, CloseSocket, DisconnectHand, mainVars
  <2> QED
    BY <2>1 DEF StackBound
<1>2. CASE Signal
  <2>1. Len(frames') = Len(frames) + 1 /\ signals' = signals + 1
    BY <1>0, <1>2, Called DEF Signal
  <2> QED
    BY <1>0, <2>1 DEF StackBound
<1>3. CASE Finally \/ AtExit
  <2>1. frames' = <<"lock">> /\ UNCHANGED signals
    BY <1>3 DEF Finally, AtExit, CallShutdown
  <2> QED
    BY <1>0, <2>1, EmptyStack DEF StackBound
<1>4. CASE TakeLock \/ Check \/ ShutdownDone
  <2>1. frames # <<>> /\ UNCHANGED signals
    BY <1>4 DEF TakeLock, Check, ShutdownDone, Body, Top
  <2>2. Goto("check") \/ Goto("body") \/ frames' = Front(frames)
    BY <1>4 DEF TakeLock, Check, ShutdownDone
  <2>3. Len(frames') <= Len(frames)
    BY <1>0, <2>1, <2>2, GoesOn, Returns DEF Calls
  <2>4. Len(frames') \in Nat
    BY <1>0, <2>1, <2>2, GoesOn, Returns, LenProperties DEF Calls
  <2> QED
    BY <1>0, <2>1, <2>3, <2>4 DEF StackBound
<1>5. CASE Raises
  <2>1. frames' = <<>> /\ UNCHANGED signals
    BY <1>5 DEF Raises, JoinUnstarted, DisconnectRaises, Unwind
  <2> QED
    BY <1>0, <2>1, EmptyStack DEF StackBound
<1> QED
  BY <1>1, <1>2, <1>3, <1>4, <1>5, NextCases DEF Pushes

(* The lists of the sessions.                                              *)
LEMMA ListsHold ==
  ASSUME IInv, RestTypes, Next
  PROVE  todo' \in Seq(Sessions) /\ clients' \in Seq(Sessions)
<1>0. todo \in Seq(Sessions) /\ clients \in Seq(Sessions)
  BY DEF RestTypes
<1>1. CASE AppendClient
  <2>1. fresh \in Sessions
    BY <1>1 DEF AppendClient, IInv, SessionInv, Base
  <2> QED
    BY <1>0, <1>1, <2>1, AppendProperties DEF AppendClient, bodyVars
<1>2. CASE Prune
  BY <1>0, <1>2, RunningIsAList DEF Prune, bodyVars
<1>3. CASE JoinClient
  <2>1. Tail(todo) \in Seq(Sessions)
    BY <1>0, <1>3, HeadTailProperties DEF JoinClient
  <2> QED
    BY <1>0, <1>3, <2>1 DEF JoinClient, listVars
<1>4. CASE ~ (AppendClient \/ Prune \/ JoinClient)
  <2>1. UNCHANGED clients /\ todo' \in {todo, clients}
    BY <1>4 DEF Next, Main, StartHands, Listen, StopAccepting, StartSession,
      ProcessEnds, Accept, Inside, DropEnds, ArmEnds, Expire, AcceptFails,
      SessionExpires, LateEnable, WatchdogEnds, Recv,
      Message, ArmHand, Leave, Finally, AtExit, CallShutdown, Signal, TakeLock, Check,
      SetStop, JoinWatchdog, StopClients, JoinedAll, CloseSocket, DisconnectHand,
      ShutdownDone, JoinUnstarted, DisconnectRaises, Unwind, bodyVars, listVars
  <2> QED
    BY <1>0, <2>1
<1> QED
  BY <1>1, <1>2, <1>3, <1>4

(* The flags of the server and what the signals, the hands and the         *)
(* authority do.                                                           *)
LEMMA FlagsHold ==
  ASSUME IInv, RestTypes, Next
  PROVE  lockHeld' \in BOOLEAN /\ open' \in BOOLEAN
<1> USE DEF Next, Main, StartHands, Listen, StopAccepting, AppendClient, StartSession,
      Prune, ProcessEnds, Accept, Inside, DropEnds, ArmEnds, Expire, AcceptFails,
      SessionExpires, LateEnable, WatchdogEnds, Recv,
      Message, ArmHand, Leave, Finally, AtExit, CallShutdown, Signal, TakeLock, Check,
      SetStop, JoinWatchdog, StopClients, JoinClient, JoinedAll, CloseSocket, DisconnectHand,
      ShutdownDone, JoinUnstarted, DisconnectRaises, Unwind, bodyVars, listVars, flagVars,
      RestTypes
<1>1. lockHeld' \in BOOLEAN
  OBVIOUS
<1>2. open' \in BOOLEAN
  OBVIOUS
<1> QED
  BY <1>1, <1>2

LEMMA SmallTypesHold ==
  ASSUME IInv, RestTypes, Next
  PROVE  /\ signals' \in 0 .. MaxSignals
         /\ raised' \subseteq {"unstarted", "disconnect"}
         /\ fresh' \in Sessions \cup {None}
         /\ work' \in {"none", "arm", "disarm", "leave", "expire"}
         /\ hot' \subseteq Hands /\ connected' \subseteq Hands
<1> USE ServerAssumption
    DEF Next, Main, StartHands, Listen, StopAccepting, AppendClient, StartSession,
      Prune, ProcessEnds, Accept, Inside, DropEnds, ArmEnds, Expire, AcceptFails,
      SessionExpires, LateEnable, WatchdogEnds, Recv,
      Message, ArmHand, Leave, Finally, AtExit, CallShutdown, Signal, TakeLock, Check,
      SetStop, JoinWatchdog, StopClients, JoinClient, JoinedAll, CloseSocket, DisconnectHand,
      ShutdownDone, JoinUnstarted, DisconnectRaises, Unwind, bodyVars, listVars, authVars, handVars,
      Enter, RestTypes
<1>1. signals' \in 0 .. MaxSignals
  OBVIOUS
<1>2. raised' \subseteq {"unstarted", "disconnect"}
  OBVIOUS
<1>3. fresh' \in Sessions \cup {None}
  OBVIOUS
<1>4. work' \in {"none", "arm", "disarm", "leave", "expire"}
  OBVIOUS
<1>5. connected' \subseteq Hands
  OBVIOUS
<1>6. hot' \subseteq Hands
  BY DEF SwitchOff, IInv, HandInv
<1> QED
  BY <1>1, <1>2, <1>3, <1>4, <1>5, <1>6

(* A session that receives, works off or drops what it has.                *)
LEMMA OneBuffer ==
  ASSUME RestTypes, NEW s \in Sessions, Recv(s) \/ Message(s) \/ Leave(s)
  PROVE  buffer' \in [Sessions -> 0 .. MaxBuffer]
<1>1. /\ buffer \in [Sessions -> 0 .. MaxBuffer] /\ MaxBuffer \in Nat
      /\ 0 \in 0 .. MaxBuffer /\ MaxBuffer \in 0 .. MaxBuffer
  BY ServerAssumption DEF RestTypes
<1>2. CASE Recv(s)
  <2>1. buffer' = [buffer EXCEPT ![s] = MaxBuffer]
    BY <1>2 DEF Recv
  <2> QED
    BY <1>1, <2>1
<1>3. CASE Message(s)
  <2>1. buffer' = [buffer EXCEPT ![s] = @ - 1] /\ buffer[s] > 0
    BY <1>3 DEF Message
  <2>2. buffer[s] - 1 \in 0 .. MaxBuffer
    BY <1>1, <2>1
  <2> QED
    BY <1>1, <2>1, <2>2
<1>4. CASE Leave(s)
  <2>1. buffer' = [buffer EXCEPT ![s] = 0]
    BY <1>4 DEF Leave
  <2> QED
    BY <1>1, <2>1
<1> QED
  BY <1>2, <1>3, <1>4

(* What the sessions have received and whether they were stopped.          *)
LEMMA BuffersHold ==
  ASSUME IInv, RestTypes, Next
  PROVE  halted' \in [Sessions -> BOOLEAN] /\ buffer' \in [Sessions -> 0 .. MaxBuffer]
<1> USE ServerAssumption
    DEF Next, Main, StartHands, Listen, StopAccepting, AppendClient, StartSession,
      Prune, ProcessEnds, Accept, Inside, DropEnds, ArmEnds, Expire, AcceptFails,
      SessionExpires, LateEnable, WatchdogEnds, Recv,
      Message, ArmHand, Leave, Finally, AtExit, CallShutdown, Signal, TakeLock, Check,
      SetStop, JoinWatchdog, StopClients, JoinClient, JoinedAll, CloseSocket, DisconnectHand,
      ShutdownDone, JoinUnstarted, DisconnectRaises, Unwind, sesVars, RestTypes
<1>1. halted' \in [Sessions -> BOOLEAN]
  OBVIOUS
<1>2. CASE ~ \E s \in Sessions : Recv(s) \/ Message(s) \/ Leave(s)
  BY <1>2
<1>3. ASSUME NEW s \in Sessions, Recv(s) \/ Message(s) \/ Leave(s)
      PROVE  buffer' \in [Sessions -> 0 .. MaxBuffer]
  BY <1>3, OneBuffer
<1>4. buffer' \in [Sessions -> 0 .. MaxBuffer]
  BY <1>2, <1>3
<1> QED
  BY <1>1, <1>4

LEMMA AllTypesHold == Spec => [](IInv /\ RestTypes /\ StackBound)
<1>1. Init => IInv /\ RestTypes /\ StackBound
  <2>1. Init => IInv
    BY InitHolds
  <2>2. Init => RestTypes
    <3> SUFFICES ASSUME Init PROVE RestTypes
      OBVIOUS
    <3>1. todo \in Seq(Sessions) /\ clients \in Seq(Sessions)
      BY EmptySeq DEF Init
    <3>2. lockHeld \in BOOLEAN /\ open \in BOOLEAN
      BY DEF Init
    <3>3. halted \in [Sessions -> BOOLEAN] /\ buffer \in [Sessions -> 0 .. MaxBuffer]
      BY ServerAssumption DEF Init
    <3>4. signals \in 0 .. MaxSignals
      BY ServerAssumption DEF Init
    <3> QED
      BY <3>1, <3>2, <3>3, <3>4 DEF Init, RestTypes
  <2>3. Init => StackBound
    BY EmptyStack DEF Init, StackBound
  <2> QED
    BY <2>1, <2>2, <2>3
<1>2. IInv /\ RestTypes /\ StackBound /\ [Next]_vars => (IInv /\ RestTypes /\ StackBound)'
  <2>1. IInv /\ [Next]_vars => IInv'
    BY StepHolds
  <2>2. CASE UNCHANGED vars
    BY <2>1, <2>2 DEF vars, mainVars, bodyVars, flagVars, listVars, sesVars, authVars, handVars,
      RestTypes, StackBound
  <2>3. CASE Next
    BY <2>1, <2>3, StackBounded, ListsHold, FlagsHold, SmallTypesHold, BuffersHold DEF RestTypes
  <2> QED
    BY <2>2, <2>3
<1> QED
  BY <1>1, <1>2, PTL DEF Spec

(* Every variable of the server keeps its type, and no more calls of       *)
(* shutdown pile up than signals arrive.                                   *)
THEOREM TypeCorrect == Spec => []TypeOK
<1>1. IInv /\ RestTypes /\ StackBound => TypeOK
  <2> SUFFICES ASSUME IInv, RestTypes, StackBound PROVE TypeOK
    OBVIOUS
  <2>1. {lockHeld, started, stop, open} \subseteq BOOLEAN
    BY Zenon DEF IInv, StateTypes, RestTypes
  <2>2. Len(frames) <= MaxSignals + 2
    BY LenProperties, ServerAssumption DEF IInv, StateTypes, RestTypes, StackBound
  <2>3. {todo, clients} \subseteq Seq(Sessions)
    BY DEF RestTypes
  <2> QED
    BY <2>1, <2>2, <2>3 DEF IInv, StateTypes, RestTypes, HandInv, TypeOK, Calls
<1> QED
  BY <1>1, AllTypesHold, PTL

=============================================================================
