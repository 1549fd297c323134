------------------------- MODULE SafeClientSession -------------------------
(***************************************************************************)
(* One SafeClientSession of bridge/wuji_manus_bridge/control.py: the       *)
(* thread that reads JSON lines from one client, calls the authority for   *)
(* it, answers, and pushes telemetry, up to the release of its lease.      *)
(*                                                                         *)
(* The stream a client writes is cut into lines 1, 2, 3 ... of two pieces  *)
(* each, the second of which ends in the newline; recv takes any number    *)
(* of pieces.  What a line says is chosen when the session parses it; only *)
(* whether it is too long is chosen by the client, for that is seen before *)
(* the newline is.  The authority is coarse here (one step per call, its   *)
(* lock): ControlAuthority has the detail.                                 *)
(***************************************************************************)
EXTENDS Integers, FiniteSets, SequencesExt

CONSTANTS
  Hands,       \* the sides the server has
  MaxLines,    \* bound: lines the client writes
  OutRoom,     \* messages that fit into the socket's send buffer
  MaxPushes    \* bound: telemetry rounds with something to send

ASSUME SessionAssumption ==
  /\ IsFiniteSet(Hands)
  /\ MaxLines \in Nat \ {0} /\ OutRoom \in Nat \ {0} /\ MaxPushes \in Nat \ {0}

VARIABLES
  written,    \* pieces the client has written
  tooLong,    \* lines it writes that exceed MAX_JSON_LINE_BYTES
  peer,       \* the client's end is open
  pc,         \* where run() is
  taken,      \* pieces taken by recv
  buf,        \* _buf
  handled,    \* lines split off the buffer, in order
  answered,   \* lines whose answer was written whole, in order
  silent,     \* lines that get no answer: blank, or an accepted joint_cmd
  answer,     \* what the session is about to answer
  pushes,     \* telemetry rounds so far
  toPush,     \* snapshots still to be sent in this round
  hello,      \* _hello_done
  halt,       \* _stop_event
  open,       \* the connection has not been closed on this side
  queued,     \* messages in the send buffer
  line,       \* what the client's reader gets: only whole lines, a last line
              \* that is cut short, or a line glued to a cut one
  owner,      \* the client that owns the lease
  armed,      \* the authority's _armed
  lapsed      \* sides the deadman or a server has taken since the last call

wireVars == <<written, tooLong, peer>>
readVars == <<taken, buf, handled>>
replyVars == <<answered, silent, answer>>
pushVars == <<pushes, toPush>>
sockVars == <<open, queued, line>>
authVars == <<owner, armed, lapsed>>
vars == <<wireVars, pc, readVars, replyVars, pushVars, hello, halt, sockVars, authVars>>

Clients == {"none", "me", "other"}
NoAnswer == [code |-> "none", sides |-> {}]
Answers == [code : {"none", "error", "ok", "armed"}, sides : SUBSET Hands]

Pieces == 1 .. 2 * MaxLines
LineOf(p) == (p + 1) \div 2
EndsLine(p) == p % 2 = 0

TypeOK ==
  /\ written \in 0 .. 2 * MaxLines /\ taken \in 0 .. written
  /\ tooLong \subseteq 1 .. MaxLines
  /\ pc \in {"loop", "select", "recv", "lines", "call", "reply", "push",
             "finally", "close", "ended"}
  /\ buf \in Seq(Pieces)
  /\ handled \in Seq(1 .. MaxLines) /\ answered \in Seq(1 .. MaxLines)
  /\ silent \subseteq 1 .. MaxLines
  /\ answer \in Answers
  /\ pushes \in 0 .. MaxPushes /\ toPush \in 0 .. 2 * Cardinality(Hands)
  /\ peer \in BOOLEAN /\ hello \in BOOLEAN /\ halt \in BOOLEAN /\ open \in BOOLEAN
  /\ queued \in 0 .. OutRoom
  /\ line \in {"whole", "cut", "glued"}
  /\ owner \in Clients /\ armed \subseteq Hands /\ lapsed \subseteq Hands

Init ==
  /\ written = 0 /\ tooLong = {} /\ peer = TRUE
  /\ pc = "loop"
  /\ taken = 0 /\ buf = <<>> /\ handled = <<>>
  /\ answered = <<>> /\ silent = {} /\ answer = NoAnswer
  /\ pushes = 0 /\ toPush = 0
  /\ hello = FALSE /\ halt = FALSE
  /\ open = TRUE /\ queued = 0 /\ line = "whole"
  /\ owner \in {"none", "other"}
  /\ armed \in {S \in SUBSET Hands : (S = {}) = (owner = "none")}
  /\ lapsed = {}

-----------------------------------------------------------------------------
(* send(): sendall on a socket that does not block.  A full send buffer    *)
(* takes a part of the message and raises, a closed socket takes nothing,  *)
(* and a snapshot that JSON cannot hold is not written at all.             *)

(* Mutant: the room in the send buffer is taken for granted.               *)
RoomTaken ==
  /\ open
  /\ queued' = queued + 1
  /\ line' = IF line = "whole" THEN "whole" ELSE "glued"
  /\ UNCHANGED halt

WholeMessage ==
  /\ open /\ queued < OutRoom
  /\ queued' = queued + 1
  /\ line' = IF line = "whole" THEN "whole" ELSE "glued"
  /\ UNCHANGED halt

(* Mutant: the failure of sendall is only logged.                          *)
PartIgnored ==
  /\ open /\ queued = OutRoom
  /\ line' = IF line = "whole" THEN "cut" ELSE "glued"
  /\ UNCHANGED <<queued, halt>>

PartOfMessage ==
  /\ open /\ queued = OutRoom
  /\ halt' = TRUE
  /\ line' = IF line = "whole" THEN "cut" ELSE "glued"
  /\ UNCHANGED queued

NothingWritten ==
  /\ ~ open \/ ~ peer \/ queued = OutRoom \/ pc = "push"
  /\ halt' = TRUE
  /\ UNCHANGED <<queued, line>>

Send == WholeMessage \/ PartOfMessage \/ NothingWritten

-----------------------------------------------------------------------------
(* run(): the loop.                                                        *)

(* authority.expire(): whatever is due by now.                             *)
Expired(due) ==
  /\ due \subseteq armed
  /\ armed' = armed \ due
  /\ owner' = IF armed' = {} THEN "none" ELSE owner
  /\ lapsed' = lapsed \cup due

LoopTop ==
  /\ pc = "loop"
  /\ IF halt
     THEN pc' = "finally" /\ UNCHANGED authVars
     ELSE pc' = "select" /\ \E due \in SUBSET armed : Expired(due)
  /\ UNCHANGED <<wireVars, readVars, replyVars, pushVars, hello, halt, sockVars>>

(* After the hello the tactile timer, the state timer, both or none are    *)
(* due, and each sends a snapshot of every hand that is connected.         *)
TelemetryDue ==
  toPush' \in IF hello /\ pushes < MaxPushes THEN 0 .. 2 * Cardinality(Hands) ELSE {0}

(* A closed socket ends the loop; 5 ms without data go on to telemetry.    *)
Select ==
  /\ pc = "select"
  /\ pc' = CASE ~ open -> "finally"
             [] open /\ (taken < written \/ ~ peer) -> "recv"
             [] OTHER -> "push"
  /\ IF pc' = "push" THEN TelemetryDue ELSE toPush' = 0
  /\ UNCHANGED <<wireVars, readVars, replyVars, pushes, hello, halt, sockVars, authVars>>

(* Mutant: a chunk replaces what an earlier chunk left.                    *)
LastChunkOnly(from, to) == SubSeq([p \in 1 .. to |-> p], from, to)

Received(from, to) == buf \o SubSeq([p \in 1 .. to |-> p], from, to)

(* The buffer is over the limit and there is no newline in it.             *)
Overflow(pieces) ==
  /\ \E i \in DOMAIN pieces : LineOf(pieces[i]) \in tooLong
  /\ ~ \E i \in DOMAIN pieces : EndsLine(pieces[i])

(* recv of some of what has arrived; nothing, or an error, ends the loop.  *)
Recv ==
  /\ pc = "recv"
  /\ \/ /\ open
        /\ \E upto \in taken + 1 .. written :
             /\ taken' = upto
             /\ buf' = Received(taken + 1, upto)
        /\ IF Overflow(buf')
           THEN pc' = "finally" /\ Send
           ELSE pc' = "lines" /\ UNCHANGED <<halt, queued, line>>
     \/ /\ ~ open \/ ~ peer
        /\ pc' = "finally"
        /\ UNCHANGED <<taken, buf, halt, queued, line>>
  /\ UNCHANGED <<wireVars, handled, replyVars, pushVars, hello, open, authVars>>

NewlineAt == {i \in DOMAIN buf : EndsLine(buf[i])}

(* split(b"\n", 1).                                                        *)
TakeLine ==
  /\ pc = "lines"
  /\ NewlineAt # {}
  /\ LET first == Min(NewlineAt)
     IN  /\ handled' = Append(handled, LineOf(buf[first]))
         /\ buf' = SubSeq(buf, first + 1, Len(buf))
  /\ pc' = "call"
  /\ UNCHANGED <<wireVars, taken, replyVars, pushVars, hello, halt, sockVars, authVars>>

NoMoreLines ==
  /\ pc = "lines"
  /\ NewlineAt = {}
  /\ pc' = "push"
  /\ TelemetryDue
  /\ UNCHANGED <<wireVars, readVars, replyVars, pushes, hello, halt, sockVars, authVars>>

-----------------------------------------------------------------------------
(* _handle_message, and the checks of run() before it.                     *)

Current == Last(handled)

Say(code, sides) ==
  /\ answer' = [code |-> code, sides |-> sides]
  /\ pc' = "reply"
  /\ UNCHANGED silent

SayNothing ==
  /\ silent' = silent \cup {Current}
  /\ pc' = "lines"
  /\ UNCHANGED answer

Blank ==
  /\ Current \notin tooLong
  /\ SayNothing
  /\ UNCHANGED <<hello, authVars>>

(* Mutant: a refusal returns without an answer.                            *)
BadLineDropped ==
  /\ pc' = "lines"
  /\ UNCHANGED <<answer, silent, hello, authVars>>

(* Too long, no JSON object, another protocol version, an unknown type or  *)
(* side, a value of the wrong type, or anything before the hello.          *)
BadLine ==
  /\ Say("error", {})
  /\ UNCHANGED <<hello, authVars>>

Hello ==
  /\ Current \notin tooLong
  /\ hello' = TRUE
  /\ Say("ok", {})
  /\ UNCHANGED authVars

Allowed == Current \notin tooLong /\ hello

(* ping and get_status.                                                    *)
Ask ==
  /\ Allowed
  /\ Say("ok", {})
  /\ UNCHANGED <<hello, authVars>>

(* Mutant: a hand's failure is not told.                                   *)
ArmSaysOk(sides) ==
  \/ /\ owner \notin {"none", "me"}
     /\ Say("error", {})
     /\ UNCHANGED <<owner, armed>>
  \/ /\ owner \in {"none", "me"}
     /\ owner' = "me" /\ armed' = armed \cup sides
     /\ Say("armed", sides)
  \/ /\ owner \in {"none", "me"} /\ ~ sides \subseteq armed
     /\ Say("armed", sides)
     /\ UNCHANGED <<owner, armed>>

(* authority.arm(): refused, done, or broken off by a hand and rolled back *)
(* to the sides that were armed before.                                    *)
Arm(sides) ==
  \/ /\ owner \notin {"none", "me"}
     /\ Say("error", {})
     /\ UNCHANGED <<owner, armed>>
  \/ /\ owner \in {"none", "me"}
     /\ owner' = "me" /\ armed' = armed \cup sides
     /\ Say("armed", sides)
  \/ /\ owner \in {"none", "me"} /\ ~ sides \subseteq armed
     /\ Say("error", {})
     /\ UNCHANGED <<owner, armed>>

Enable ==
  /\ Allowed
  /\ lapsed' = {}
  /\ \E sides \in SUBSET Hands \ {{}} : Arm(sides)
  /\ UNCHANGED hello

(* authority.disarm(): the sides are dropped even when a hand raises.      *)
Disarmed(sides) ==
  /\ owner = "me"
  /\ armed' = armed \ sides
  /\ owner' = IF armed' = {} THEN "none" ELSE owner
  /\ lapsed' = {}

NotController ==
  /\ owner # "me"
  /\ Say("error", {})
  /\ UNCHANGED authVars

Disable ==
  /\ Allowed
  /\ \/ NotController
     \/ /\ \E sides \in SUBSET Hands \ {{}} : Disarmed(sides)
        /\ Say("ok", {}) \/ Say("error", {})
  /\ UNCHANGED hello

(* joint_cmd with "enable": false catches ControlError alone: what a hand  *)
(* raises breaks off run().                                                *)
CommandOff ==
  /\ Allowed
  /\ \/ NotController
     \/ /\ \E side \in Hands : Disarmed({side})
        /\ \/ Say("ok", {})
           \/ pc' = "finally" /\ UNCHANGED <<answer, silent>>
  /\ UNCHANGED hello

(* joint_cmd: accepted without an answer, or refused.                      *)
Command ==
  /\ Allowed
  /\ \/ owner = "me" /\ armed # {} /\ SayNothing
     \/ Say("error", {})
  /\ UNCHANGED <<hello, authVars>>

HandleMessage ==
  /\ pc = "call"
  /\ Blank \/ BadLine \/ Hello \/ Ask \/ Enable \/ Disable \/ CommandOff \/ Command
  /\ UNCHANGED <<wireVars, readVars, answered, pushVars, halt, sockVars>>

(* The answer, with status_for() read only now, under a lock of its own.   *)
(* It reaches the client if all of it is written and it is not glued to a  *)
(* message that was cut.                                                   *)
Reply ==
  /\ pc = "reply"
  /\ \/ /\ WholeMessage
        /\ answered' = IF line = "whole" THEN Append(answered, Current) ELSE answered
     \/ /\ PartOfMessage \/ NothingWritten
        /\ UNCHANGED answered
  /\ answer' = NoAnswer
  /\ pc' = "lines"
  /\ UNCHANGED <<wireVars, readVars, silent, pushVars, hello, open, authVars>>

(* The snapshots one after the other.  Nobody catches what taking one      *)
(* raises (the simulated hand reads the scene for it).                     *)
Push ==
  /\ pc = "push"
  /\ \/ /\ toPush > 0
        /\ Send
        /\ toPush' = toPush - 1
        /\ pushes' = IF toPush = 1 THEN pushes + 1 ELSE pushes
        /\ UNCHANGED pc
     \/ /\ pc' = IF toPush > 0 THEN "finally" ELSE "loop"
        /\ UNCHANGED <<halt, queued, line, pushVars>>
  /\ UNCHANGED <<wireVars, readVars, replyVars, hello, open, authVars>>

(* Mutant: a lease is kept over the end of its session.                    *)
DisconnectLater ==
  /\ pc = "finally"
  /\ IF owner = "me" /\ ~ halt
     THEN owner' = "none" /\ armed' = {} ELSE UNCHANGED <<owner, armed>>
  /\ pc' = "close"
  /\ UNCHANGED <<wireVars, readVars, replyVars, pushVars, hello, halt, sockVars, lapsed>>

(* finally: authority.disconnect(self), then stop().                       *)
Disconnect ==
  /\ pc = "finally"
  /\ IF owner = "me" THEN owner' = "none" /\ armed' = {} ELSE UNCHANGED <<owner, armed>>
  /\ pc' = "close"
  /\ UNCHANGED <<wireVars, readVars, replyVars, pushVars, hello, halt, sockVars, lapsed>>

Close ==
  /\ pc = "close"
  /\ halt' = TRUE /\ open' = FALSE
  /\ pc' = "ended"
  /\ UNCHANGED <<wireVars, readVars, replyVars, pushVars, hello, queued, line, authVars>>

Run ==
  \/ LoopTop \/ Select \/ Recv \/ TakeLine \/ NoMoreLines \/ HandleMessage
  \/ Reply \/ Push \/ Disconnect \/ Close

-----------------------------------------------------------------------------
(* Everyone else.                                                          *)

Mine == <<pc, readVars, replyVars, pushVars, hello, halt, open>>

WritePiece ==
  /\ peer /\ open /\ written < 2 * MaxLines
  /\ written' = written + 1
  /\ \/ EndsLine(written') /\ UNCHANGED tooLong
     \/ ~ EndsLine(written') /\ tooLong' \in {tooLong, tooLong \cup {LineOf(written')}}
  /\ UNCHANGED <<peer, Mine, queued, line, authVars>>

PeerReads ==
  /\ peer /\ queued > 0
  /\ queued' = queued - 1
  /\ UNCHANGED <<wireVars, Mine, line, authVars>>

PeerCloses ==
  /\ peer
  /\ peer' = FALSE
  /\ UNCHANGED <<written, tooLong, Mine, queued, line, authVars>>

(* stop(), called by the server's shutdown.                                *)
ServerStops ==
  /\ pc # "ended"
  /\ halt' = TRUE /\ open' = FALSE
  /\ UNCHANGED <<wireVars, pc, readVars, replyVars, pushVars, hello, queued, line, authVars>>

(* The watchdog, or another session's loop.                                *)
DeadmanExpires ==
  /\ \E due \in SUBSET armed : due # {} /\ Expired(due)
  /\ UNCHANGED <<wireVars, Mine, queued, line>>

OtherArms ==
  /\ owner = "none"
  /\ owner' = "other"
  /\ armed' \in SUBSET Hands \ {{}}
  /\ UNCHANGED <<wireVars, Mine, queued, line, lapsed>>

OtherDisarms ==
  /\ owner = "other"
  /\ armed' \in SUBSET armed
  /\ owner' = IF armed' = {} THEN "none" ELSE owner
  /\ UNCHANGED <<wireVars, Mine, queued, line, lapsed>>

(* Nothing is left to do once the session has ended and let go.            *)
Ended == pc = "ended" /\ UNCHANGED vars

Next ==
  \/ Run
  \/ WritePiece \/ PeerReads \/ PeerCloses
  \/ ServerStops \/ DeadmanExpires \/ OtherArms \/ OtherDisarms
  \/ Ended

Spec == Init /\ [][Next]_vars

(* The session's own thread is all that has to go on.                      *)
FairSpec == Spec /\ WF_vars(Run)

-----------------------------------------------------------------------------
(* Every line the client completed is handled once and in the order of its *)
(* writing, however recv cut the stream (_buf, control.py:336-349): what   *)
(* was split off and what is still buffered are together what was taken.   *)
LinesInOrder ==
  /\ handled = [i \in 1 .. Len(handled) |-> i]
  /\ buf = SubSeq([p \in 1 .. taken |-> p], 2 * Len(handled) + 1, taken)

(* Answers carry no number, so a client has to count them to know which    *)
(* line each one belongs to (control.py:377-479).  It can, up to the first *)
(* send that fails: before the next line is split off, every handled line  *)
(* has been answered in full or is one that is never answered.  Once a     *)
(* send has failed, or the session was stopped, answers may be missing     *)
(* (the batch goes on, control.py:310-313), but those that still arrive    *)
(* whole belong to one line each, in the order of the lines.               *)
AnsweredOnce ==
  /\ \A i, j \in DOMAIN answered : i < j => answered[i] < answered[j]
  /\ ToSet(answered) \subseteq ToSet(handled) \ silent
  /\ ~ halt /\ pc \in {"lines", "push", "loop", "select", "recv"} =>
        ToSet(handled) \ silent \subseteq ToSet(answered)

(* An "ok" to enable:true is sent after the lock of arm() was given up and *)
(* reads the armed sides again (control.py:404-420): a side it names that  *)
(* this client does not hold any more was taken by the deadman since, and  *)
(* by nothing else.                                                        *)
OkMeansArmed ==
  pc = "reply" /\ answer.code = "armed" =>
     answer.sides \ lapsed \subseteq (IF owner = "me" THEN armed ELSE {})

(* However run() was left, by the client's end, stop(), a line without an  *)
(* end or what a hand raised, no lease outlives the session                *)
(* (control.py:371-375).                                                   *)
NoLeaseAfterEnd == pc \in {"close", "ended"} => owner # "me"

(* A session that was stopped, whose client went away or whose client does *)
(* not read its answers ends by itself and lets go of the hands: nothing   *)
(* it does waits for the client (control.py:315-375).                      *)
AbandonedSessionEnds ==
  (halt \/ ~ peer \/ line # "whole") ~> (pc = "ended" /\ owner # "me")

(* bridge/protocol/schema.md:5: every JSON object ends with a newline.  It *)
(* does not when send() fails half way through one message and the rest of *)
(* the batch sends another one.                                            *)
OneObjectPerLine == line # "glued"
=============================================================================
