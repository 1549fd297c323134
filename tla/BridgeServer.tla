---------------------------- MODULE BridgeServer ----------------------------
(***************************************************************************)
(* BridgeServer of bridge/wuji_manus_bridge/server.py: the main thread     *)
(* that starts the hands and accepts clients, the SIGINT/SIGTERM handler   *)
(* that Python runs INSIDE the main thread between any two of its steps,   *)
(* the one shutdown that all exits share, the client sessions and the      *)
(* deadman watchdog, up to the end of the process.                         *)
(*                                                                         *)
(* Sessions, authority and hands are coarse here: a session that is in the *)
(* authority holds its lock (busy) and may take longer than any join       *)
(* waits.  The SDK of a faulty hand may refuse to switch it off, may raise *)
(* when the hand is released, and may take so long over an enable() that   *)
(* it outlasts the call that waits for it, and the hand's release.         *)
(* ControlAuthority and HandWorker have the detail.                        *)
(***************************************************************************)
EXTENDS Naturals, FiniteSets, SequencesExt

CONSTANTS
  Sessions,    \* client sessions the server may create
  Watchdog,    \* the deadman thread
  Hands,       \* the configured hands
  Faulty,      \* those whose SDK may refuse, raise or come too late
  None,
  MaxBuffer,   \* bound: messages a session takes from one recv
  MaxSignals   \* bound: signals that arrive

ASSUME ServerAssumption ==
  /\ {Watchdog, None} \cap Sessions = {}
  /\ Watchdog # None
  /\ Faulty \subseteq Hands
  /\ MaxBuffer \in Nat
  /\ MaxSignals \in Nat

VARIABLES
  base,       \* where main() is
  frames,     \* the shutdown() calls on the main thread's stack
  signals,    \* signals delivered so far
  lockHeld,   \* _shutdown_lock is held
  started,    \* _shutdown_started
  stop,       \* the server's _stop event
  stage,      \* how far the one shutdown body is
  todo,       \* its snapshot of the client list, as far as not yet treated
  raised,     \* exceptions that broke off the shutdown body
  open,       \* the listening socket is open
  clients,    \* _clients
  fresh,      \* the session that serve_forever is setting up
  ses,        \* state of each session
  halted,     \* its _stop_event is set and its connection closed
  buffer,     \* messages it has received and not yet handled
  wd,         \* the watchdog thread
  busy,       \* who holds the authority's lock
  work,       \* what it does there
  owner,      \* the session that owns the lease
  hot,        \* hands with powered motors
  connected,  \* hands that are connected
  late        \* hands whose enable() outlasted the call that waited for it

mainVars == <<base, frames>>
bodyVars == <<stage, todo, raised>>
flagVars == <<lockHeld, started, stop>>
listVars == <<open, clients, fresh>>
sesVars == <<ses, halted, buffer>>
handVars == <<hot, connected, late>>
authVars == <<busy, work, owner, handVars>>
vars == <<mainVars, signals, bodyVars, flagVars, listVars, sesVars, wd, authVars>>

BaseStates == {"hands", "listen", "accept", "append", "start", "prune",
               "finally", "return", "exit", "gone"}
Stages == {"none", "event", "watchdog", "stop", "join", "socket", "hands", "done"}

TypeOK ==
  /\ base \in BaseStates
  /\ frames \in Seq({"lock", "check", "body"})
  /\ Len(frames) <= MaxSignals + 2
  /\ signals \in 0 .. MaxSignals
  /\ {lockHeld, started, stop, open} \subseteq BOOLEAN
  /\ stage \in Stages
  /\ {todo, clients} \subseteq Seq(Sessions)
  /\ raised \subseteq {"unstarted", "disconnect"}
  /\ fresh \in Sessions \cup {None}
  /\ ses \in [Sessions -> {"free", "made", "running", "ended"}]
  /\ halted \in [Sessions -> BOOLEAN]
  /\ buffer \in [Sessions -> 0 .. MaxBuffer]
  /\ wd \in {"none", "running", "ended"}
  /\ busy \in Sessions \cup {Watchdog, None}
  /\ work \in {"none", "arm", "disarm", "leave", "expire"}
  /\ owner \in Sessions \cup {None}
  /\ hot \subseteq Hands /\ connected \subseteq Hands
  /\ late \subseteq Faulty

Init ==
  /\ base = "hands" /\ frames = <<>> /\ signals = 0
  /\ lockHeld = FALSE /\ started = FALSE /\ stop = FALSE
  /\ stage = "none" /\ todo = <<>> /\ raised = {}
  /\ open = FALSE /\ clients = <<>> /\ fresh = None
  /\ ses = [s \in Sessions |-> "free"]
  /\ halted = [s \in Sessions |-> FALSE]
  /\ buffer = [s \in Sessions |-> 0]
  /\ wd = "none"
  /\ busy = None /\ work = "none" /\ owner = None
  /\ hot = {} /\ connected = {} /\ late = {}

-----------------------------------------------------------------------------
(* The main thread.  Only the top of its stack runs.                       *)

Alive == base # "gone"
Base(state) == frames = <<>> /\ base = state
Top(state) == frames # <<>> /\ Last(frames) = state

(* start_hands connects one more hand, or goes on; with no hand connected  *)
(* it raises.                                                              *)
StartHands ==
  /\ Base("hands")
  /\ \/ \E h \in Hands \ connected :
          connected' = connected \cup {h} /\ UNCHANGED base
     \/ /\ base' = IF connected = {} THEN "return" ELSE "listen"
        /\ UNCHANGED connected
  /\ UNCHANGED <<frames, signals, bodyVars, flagVars, listVars, sesVars, wd,
                 busy, work, owner, hot, late>>

(* serve_forever: the socket, which may fail to bind, then the watchdog,   *)
(* then the loop.                                                          *)
Listen ==
  /\ Base("listen")
  /\ \/ open' = TRUE /\ wd' = "running" /\ base' = "accept"
     \/ base' = "return" /\ UNCHANGED <<open, wd>>
  /\ UNCHANGED <<frames, signals, bodyVars, flagVars, clients, fresh, sesVars,
                 authVars>>

Accept ==
  /\ Base("accept")
  /\ ~ stop /\ open
  /\ \E s \in Sessions :
       /\ ses[s] = "free"
       /\ ses' = [ses EXCEPT ![s] = "made"]
       /\ fresh' = s
  /\ base' = "append"
  /\ UNCHANGED <<frames, signals, bodyVars, flagVars, open, clients, halted,
                 buffer, wd, authVars>>

(* accept() may fail on an open socket: the OSError goes on to the finally.*)
AcceptFails ==
  /\ Base("accept")
  /\ base' = "finally"
  /\ UNCHANGED <<frames, signals, bodyVars, flagVars, listVars, sesVars, wd,
                 authVars>>

(* The loop condition fails, or accept finds the socket closed.            *)
StopAccepting ==
  /\ Base("accept")
  /\ stop \/ ~ open
  /\ base' = "finally"
  /\ UNCHANGED <<frames, signals, bodyVars, flagVars, listVars, sesVars, wd,
                 authVars>>

AppendClient ==
  /\ Base("append")
  /\ clients' = Append(clients, fresh)
  /\ base' = "start"
  /\ UNCHANGED <<frames, signals, bodyVars, flagVars, open, fresh, sesVars, wd,
                 authVars>>

(* A session that was stopped before it started dies on its closed socket. *)
StartSession ==
  /\ Base("start")
  /\ ses' = [ses EXCEPT ![fresh] = IF halted[fresh] THEN "ended" ELSE "running"]
  /\ base' = "prune"
  /\ UNCHANGED <<frames, signals, bodyVars, flagVars, listVars, halted, buffer,
                 wd, authVars>>

(* The first i clients without those whose thread has ended.               *)
Running[i \in 0 .. Len(clients)] ==
  IF i = 0 THEN <<>>
  ELSE IF ses[clients[i]] = "running" THEN Append(Running[i - 1], clients[i])
  ELSE Running[i - 1]

Prune ==
  /\ Base("prune")
  /\ clients' = Running[Len(clients)]
  /\ fresh' = None
  /\ base' = "accept"
  /\ UNCHANGED <<frames, signals, bodyVars, flagVars, open, sesVars, wd, authVars>>

(* The finally of serve_forever calls shutdown.  The interpreter then      *)
(* waits for the watchdog, which is no daemon thread, and calls shutdown   *)
(* once more through atexit; the other threads end with the process.       *)
CallShutdown(from, to) ==
  /\ Base(from)
  /\ base' = to
  /\ frames' = <<"lock">>
  /\ UNCHANGED <<signals, bodyVars, flagVars, listVars, sesVars, wd, authVars>>

Finally == CallShutdown("finally", "return")
AtExit == wd # "running" /\ CallShutdown("return", "exit")

ProcessEnds ==
  /\ Base("exit")
  /\ base' = "gone"
  /\ UNCHANGED <<frames, signals, bodyVars, flagVars, listVars, sesVars, wd,
                 authVars>>

(* A signal: the main thread calls the handler where it is.                *)
Signal ==
  /\ Alive
  /\ signals < MaxSignals
  /\ signals' = signals + 1
  /\ frames' = Append(frames, "lock")
  /\ UNCHANGED <<base, bodyVars, flagVars, listVars, sesVars, wd, authVars>>

-----------------------------------------------------------------------------
(* shutdown                                                                *)

Goto(state) == frames' = [frames EXCEPT ![Len(frames)] = state]

(* The lock is not re-entrant: a handler that interrupted its holder waits *)
(* here for ever.                                                          *)
TakeLock ==
  /\ Top("lock")
  /\ ~ lockHeld
  /\ lockHeld' = TRUE
  /\ Goto("check")
  /\ UNCHANGED <<base, signals, bodyVars, started, stop, listVars, sesVars, wd,
                 authVars>>

Check ==
  /\ Top("check")
  /\ lockHeld' = FALSE
  /\ IF started
     THEN frames' = Front(frames) /\ UNCHANGED <<started, stage>>
     ELSE Goto("body") /\ started' = TRUE /\ stage' = "event"
  /\ UNCHANGED <<base, signals, todo, raised, stop, listVars, sesVars, wd,
                 authVars>>

Body(s) == Top("body") /\ stage = s

SetStop ==
  /\ Body("event")
  /\ stop' = TRUE
  /\ stage' = "watchdog"
  /\ UNCHANGED <<mainVars, signals, todo, raised, lockHeld, started, listVars,
                 sesVars, wd, authVars>>

(* join(timeout=1.0): the watchdog has ended, or it waits for the          *)
(* authority.  Then the client list is copied.                             *)
JoinWatchdog ==
  /\ Body("watchdog")
  /\ wd # "running" \/ busy # None
  /\ stage' = "stop"
  /\ todo' = clients
  /\ UNCHANGED <<mainVars, signals, raised, flagVars, listVars, sesVars, wd,
                 authVars>>

StopClients ==
  /\ Body("stop")
  /\ halted' = [s \in Sessions |-> halted[s] \/ s \in ToSet(todo)]
  /\ stage' = "join"
  /\ UNCHANGED <<mainVars, signals, todo, raised, flagVars, listVars, ses,
                 buffer, wd, authVars>>

(* join(timeout=2.0): the session has ended, or the authority keeps it.    *)
JoinClient ==
  /\ Body("join")
  /\ todo # <<>>
  /\ \/ ses[Head(todo)] = "ended"
     \/ ses[Head(todo)] = "running" /\ busy # None
  /\ todo' = Tail(todo)
  /\ UNCHANGED <<mainVars, signals, stage, raised, flagVars, listVars, sesVars,
                 wd, authVars>>

JoinedAll ==
  /\ Body("join")
  /\ todo = <<>>
  /\ stage' = "socket"
  /\ UNCHANGED <<mainVars, signals, todo, raised, flagVars, listVars, sesVars,
                 wd, authVars>>

CloseSocket ==
  /\ Body("socket")
  /\ open' = FALSE
  /\ stage' = "hands"
  /\ UNCHANGED <<mainVars, signals, todo, raised, flagVars, clients, fresh,
                 sesVars, wd, authVars>>

(* hand.disconnect() disables, ends the control loop, disables once more   *)
(* what still seems on, and releases.  A disable that the SDK refuses is   *)
(* logged and no more; an enable() in flight outlives the join of the loop.*)
DisconnectHand ==
  /\ Body("hands")
  /\ \E h \in connected :
       /\ connected' = connected \ {h}
       /\ hot' = hot \ {h} \/ (h \in Faulty /\ UNCHANGED hot)
  /\ UNCHANGED <<mainVars, signals, bodyVars, flagVars, listVars, sesVars, wd,
                 busy, work, owner, late>>

(* Mutant: shutdown gives up on the hands while a session is in a call.    *)
ShutdownGivesUp ==
  /\ Body("hands")
  /\ connected = {} \/ busy # None
  /\ stage' = "done"
  /\ frames' = Front(frames)
  /\ UNCHANGED <<base, signals, todo, raised, flagVars, listVars, sesVars, wd,
                 authVars>>

ShutdownDone ==
  /\ Body("hands")
  /\ connected = {}
  /\ stage' = "done"
  /\ frames' = Front(frames)
  /\ UNCHANGED <<base, signals, todo, raised, flagVars, listVars, sesVars, wd,
                 authVars>>

(* Where main() goes on when a handler raises: start_hands treats it as a  *)
(* failed connect or lets it pass, the accept loop runs its finally.       *)
AfterException ==
  CASE base = "hands" -> {"hands", "return"}
    [] base = "listen" -> {"return"}
    [] base \in {"accept", "append", "start", "prune"} -> {"finally"}
    [] OTHER -> {base}

Unwind(cause) ==
  /\ raised' = raised \cup {cause}
  /\ frames' = <<>>
  /\ base' \in AfterException

(* A thread that was never started cannot be joined: RuntimeError.         *)
JoinUnstarted ==
  /\ Body("join")
  /\ todo # <<>>
  /\ ses[Head(todo)] = "made"
  /\ Unwind("unstarted")
  /\ UNCHANGED <<signals, stage, todo, flagVars, listVars, sesVars, wd, authVars>>

(* Closing the joint state subscription raises, before the last disable,   *)
(* or the SDK's disconnect does, behind it.  The hand counts as released;  *)
(* the hands after it are not reached.                                     *)
DisconnectRaises ==
  /\ Body("hands")
  /\ \E h \in connected \cap Faulty :
       /\ connected' = connected \ {h}
       /\ hot' = hot \ {h} \/ UNCHANGED hot
  /\ Unwind("disconnect")
  /\ UNCHANGED <<signals, stage, todo, flagVars, listVars, sesVars, wd, busy,
                 work, owner, late>>

-----------------------------------------------------------------------------
(* Sessions, watchdog, authority                                           *)

Free == Alive /\ busy = None

Enter(who, what) ==
  /\ busy' = who
  /\ work' = what

(* Mutant: recv does not wait for the buffer to be worked off.             *)
RecvMore(s) ==
  /\ Free
  /\ ses[s] = "running" /\ ~ halted[s]
  /\ buffer' = [buffer EXCEPT ![s] = @ + MaxBuffer]
  /\ UNCHANGED <<mainVars, signals, bodyVars, flagVars, listVars, ses, halted,
                 wd, authVars>>

Recv(s) ==
  /\ Free
  /\ ses[s] = "running" /\ ~ halted[s]
  /\ buffer[s] = 0
  /\ buffer' = [buffer EXCEPT ![s] = MaxBuffer]
  /\ UNCHANGED <<mainVars, signals, bodyVars, flagVars, listVars, ses, halted,
                 wd, authVars>>

(* A message that arms or disarms; a session works off what it has         *)
(* received even after it was told to stop.                                *)
Message(s) ==
  /\ Free
  /\ ses[s] = "running"
  /\ buffer[s] > 0
  /\ buffer' = [buffer EXCEPT ![s] = @ - 1]
  /\ \/ owner \in {None, s} /\ Enter(s, "arm") /\ owner' = s
     \/ owner = s /\ Enter(s, "disarm") /\ UNCHANGED owner
  /\ UNCHANGED <<mainVars, signals, bodyVars, flagVars, listVars, ses, halted,
                 wd, handVars>>

(* set_enabled(True) on a connected hand: the loop's enable() returns while*)
(* it waits, or later.                                                     *)
ArmHand(s) ==
  /\ Alive
  /\ busy = s /\ work = "arm"
  /\ \E h \in connected \ hot :
       \/ hot' = hot \cup {h} /\ late' = late \ {h}
       \/ h \in Faulty /\ late' = late \cup {h} /\ UNCHANGED hot
  /\ UNCHANGED <<mainVars, signals, bodyVars, flagVars, listVars, sesVars, wd,
                 busy, work, owner, connected>>

(* An enable() that nobody waits for returns: its request was withdrawn, so*)
(* the loop switches the hand off again, or the SDK refuses.               *)
LateEnable(h) ==
  /\ Alive
  /\ h \in late
  /\ late' = late \ {h}
  /\ hot' \in {hot, hot \cup {h}}
  /\ UNCHANGED <<mainVars, signals, bodyVars, flagVars, listVars, sesVars, wd,
                 busy, work, owner, connected>>

(* set_enabled(False) on every hand.                                       *)
SwitchOff == hot' \in SUBSET (hot \cap Faulty)

(* arm has switched on every hand, or it rolls back.                       *)
ArmEnds(s) ==
  /\ Alive
  /\ busy = s /\ work = "arm"
  /\ \/ Hands \subseteq hot \cap connected /\ UNCHANGED <<hot, owner>>
     \/ ~ (Hands \subseteq hot \cap connected) /\ SwitchOff /\ owner' = None
  /\ Enter(None, "none")
  /\ UNCHANGED <<mainVars, signals, bodyVars, flagVars, listVars, sesVars, wd,
                 connected, late>>

(* The session leaves its loop: told to stop, or the peer is gone.         *)
Leave(s) ==
  /\ Free
  /\ ses[s] = "running"
  /\ buffer' = [buffer EXCEPT ![s] = 0]
  /\ Enter(s, "leave")
  /\ UNCHANGED <<mainVars, signals, bodyVars, flagVars, listVars, ses, halted,
                 wd, owner, handVars>>

Expire ==
  /\ Free
  /\ wd = "running"
  /\ owner # None
  /\ Enter(Watchdog, "expire")
  /\ UNCHANGED <<mainVars, signals, bodyVars, flagVars, listVars, sesVars, wd,
                 owner, handVars>>

(* Mutant: a session leaves the deadman alone once the server stops.       *)
SessionExpiresUnlessStopped(s) ==
  /\ Free
  /\ ses[s] = "running" /\ ~ halted[s] /\ ~ stop
  /\ buffer[s] = 0
  /\ owner # None
  /\ Enter(s, "expire")
  /\ UNCHANGED <<mainVars, signals, bodyVars, flagVars, listVars, sesVars, wd,
                 owner, handVars>>

(* The top of a session's loop looks at the deadman, too.                  *)
SessionExpires(s) ==
  /\ Free
  /\ ses[s] = "running" /\ ~ halted[s]
  /\ buffer[s] = 0
  /\ owner # None
  /\ Enter(s, "expire")
  /\ UNCHANGED <<mainVars, signals, bodyVars, flagVars, listVars, sesVars, wd,
                 owner, handVars>>

(* A disarm, a disconnect or an expiry has switched the hands off.         *)
DropEnds ==
  /\ Alive
  /\ work \in {"disarm", "leave", "expire"}
  /\ IF work = "leave" /\ owner # busy
     THEN UNCHANGED <<hot, owner>>
     ELSE SwitchOff /\ owner' = None
  /\ ses' = [s \in Sessions |-> IF busy = s /\ work = "leave" THEN "ended" 
                                                               ELSE ses[s]]
  /\ halted' = [s \in Sessions |-> halted[s] \/ (busy = s /\ work = "leave")]
  /\ Enter(None, "none")
  /\ UNCHANGED <<mainVars, signals, bodyVars, flagVars, listVars, buffer, wd,
                 connected, late>>

(* Mutant: the watchdog looks at the event only when there is an owner.    *)
WatchdogEndsOwned ==
  /\ Free
  /\ wd = "running"
  /\ stop /\ owner # None
  /\ wd' = "ended"
  /\ UNCHANGED <<mainVars, signals, bodyVars, flagVars, listVars, sesVars,
                 authVars>>

WatchdogEnds ==
  /\ Free
  /\ wd = "running"
  /\ stop
  /\ wd' = "ended"
  /\ UNCHANGED <<mainVars, signals, bodyVars, flagVars, listVars, sesVars,
                 authVars>>

-----------------------------------------------------------------------------
Main ==
  \/ StartHands \/ Listen \/ StopAccepting \/ AppendClient
  \/ StartSession \/ Prune \/ Finally \/ AtExit \/ ProcessEnds
  \/ TakeLock \/ Check \/ SetStop \/ JoinWatchdog \/ StopClients \/ JoinClient
  \/ JoinedAll \/ CloseSocket \/ DisconnectHand \/ ShutdownDone
  \/ JoinUnstarted \/ DisconnectRaises

Inside ==
  \/ DropEnds
  \/ \E s \in Sessions : ArmEnds(s)

Next ==
  \/ Main \/ Accept \/ AcceptFails \/ Signal
  \/ Inside \/ Expire \/ WatchdogEnds
  \/ \E s \in Sessions :
       Recv(s) \/ Message(s) \/ ArmHand(s) \/ Leave(s) \/ SessionExpires(s)
  \/ \E h \in Hands : LateEnable(h)

Spec == Init /\ [][Next]_vars

(***************************************************************************)
(* Fairness.  The threads run; the authority's calls end, because          *)
(* set_enabled waits at most a second; a session that was told to stop     *)
(* gets the lock once, although the lock is not fair, because select, recv *)
(* and the watchdog's wait leave it free in between.                       *)
(***************************************************************************)
Fairness ==
  /\ WF_vars(Main)
  /\ WF_vars(Inside)
  /\ SF_vars(WatchdogEnds)
  /\ \A s \in Sessions : SF_vars(halted[s] /\ Leave(s))

FairSpec == Spec /\ Fairness

-----------------------------------------------------------------------------
(* Properties                                                              *)

(***************************************************************************)
(* The process never ends with powered motors of a hand whose SDK does     *)
(* what it is asked, however many signals came, wherever they interrupted  *)
(* the main thread, although a session may outlive its join, and whatever  *)
(* the other hands' SDKs do, unless an exception broke off the shutdown.   *)
(***************************************************************************)
ColdExit == base = "gone" => hot \subseteq Faulty \/ raised # {}

(* The main thread waits for a lock that it holds itself.                  *)
SelfDeadlock == lockHeld /\ Top("lock")

(* The threads that can look at the deadman do, when they come by: the     *)
(* watchdog, and each session once it has worked off what it received.     *)
Deadman ==
  SF_vars(Expire \/ \E s \in Sessions : Message(s) \/ SessionExpires(s))

(***************************************************************************)
(* A signal that arrives while the main thread holds the shutdown lock     *)
(* blocks it for ever, before shutdown has begun or in the middle of it,   *)
(* with the watchdog told to stop.  A lease does not survive that unless   *)
(* clients keep sending: the owner's session looks at the deadman, too.    *)
(***************************************************************************)
DeadlockKeepsDeadman ==
  Deadman /\ <>[]SelfDeadlock =>
    <>[](owner = None) \/ []<><<\E s \in Sessions : Recv(s)>>_vars

(***************************************************************************)
(* A signal ends the process, whatever the clients and hands do, unless    *)
(* the main thread blocks itself.                                          *)
(***************************************************************************)
SignalEndsProcess == signals > 0 ~> (~ Alive \/ SelfDeadlock)

(***************************************************************************)
(* ARCHITECTURE.md: every exit disables the hands, because atexit, SIGINT  *)
(* and SIGTERM all call shutdown.  Even where no SDK is at fault, a signal *)
(* between append and start of a new session breaks shutdown off at its    *)
(* join, and the calls after it return at the flag: an armed session that  *)
(* outlived its own join leaves the motors powered.                        *)
(***************************************************************************)
ExitDisables == base = "gone" => hot \subseteq Faulty

=============================================================================
