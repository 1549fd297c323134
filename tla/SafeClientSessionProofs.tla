---------------------- MODULE SafeClientSessionProofs ----------------------
(***************************************************************************)
(* What a session does with its lines and its lease, for every set of      *)
(* hands and all bounds.                                                   *)
(***************************************************************************)
EXTENDS SafeClientSession, FiniteSetTheorems, SequenceTheorems, TLAPS

(* The lines handled and the pieces buffered, told one by one.             *)
HandledUpTo ==
  /\ 2 * Len(handled) <= taken
  /\ \A i \in 1 .. Len(handled) : handled[i] = i

BufferedFrom ==
  /\ Len(buf) = taken - 2 * Len(handled)
  /\ \A i \in 1 .. Len(buf) : buf[i] = 2 * Len(handled) + i

(* There is a current line while one is being handled.                     *)
HasCurrent == pc \in {"call", "reply"} => Len(handled) > 0

(* A round is under way only as long as there is one left.                 *)
PushBudget == toPush > 0 => pushes < MaxPushes

(* The lines that are done with: not the one that is being handled.        *)
Done == 1 .. Len(handled) - (IF pc \in {"call", "reply"} THEN 1 ELSE 0)

(* Answers and silence are about lines that are done with.  While run()    *)
(* goes on and no send has failed, each of these is answered or silent.    *)
Answering ==
  /\ ToSet(answered) \subseteq Done \ silent
  /\ silent \subseteq Done
  /\ ~ halt /\ pc \in {"lines", "push", "loop", "select", "recv", "call", "reply"} =>
       Done \ silent \subseteq ToSet(answered)

(* No line is answered after a later one, nor twice.                       *)
InTurn == \A i, j \in 1 .. Len(answered) : i < j => answered[i] < answered[j]

(* A message that was cut has stopped the session.                         *)
CutStops == line # "whole" => halt

Lines == HandledUpTo /\ BufferedFrom /\ HasCurrent
Answered == Answering /\ InTurn
Lease == OkMeansArmed /\ NoLeaseAfterEnd
IInv == TypeOK /\ Lines /\ Lease /\ PushBudget /\ Answered

(* How many hands there are is a number.                                   *)
LEMMA HandCount == Cardinality(Hands) \in Nat
  BY SessionAssumption, FS_CardinalityType

(* The stretch from .. to of the stream of pieces.                         *)
LEMMA Stretch ==
  ASSUME NEW from \in Nat, NEW to \in Nat, 1 <= from, from <= to + 1
  PROVE  LET s == SubSeq([p \in 1 .. to |-> p], from, to)
         IN  /\ s \in Seq(from .. to)
             /\ Len(s) = to - from + 1
             /\ \A i \in 1 .. Len(s) : s[i] = from + i - 1
  OBVIOUS

(* A send keeps the types of what it changes.                              *)
LEMMA SendTypes ==
  TypeOK /\ Send =>
     queued' \in 0 .. OutRoom /\ halt' \in BOOLEAN /\ line' \in {"whole", "cut", "glued"}
<1>1. TypeOK /\ WholeMessage =>
        queued' \in 0 .. OutRoom /\ halt' \in BOOLEAN /\ line' \in {"whole", "cut", "glued"}
  BY SessionAssumption DEF TypeOK, WholeMessage
<1>2. TypeOK /\ PartOfMessage =>
        queued' \in 0 .. OutRoom /\ halt' \in BOOLEAN /\ line' \in {"whole", "cut", "glued"}
  BY SessionAssumption DEF TypeOK, PartOfMessage
<1>3. TypeOK /\ NothingWritten =>
        queued' \in 0 .. OutRoom /\ halt' \in BOOLEAN /\ line' \in {"whole", "cut", "glued"}
  BY SessionAssumption DEF TypeOK, NothingWritten
<1> QED
  BY <1>1, <1>2, <1>3 DEF Send

(* Only a send cuts a line, and then it sets the stop event, which nothing *)
(* clears.                                                                 *)
LEMMA CutsStop == Spec => []CutStops
<1> USE DEF CutStops, sockVars
<1>1. Init => CutStops
  BY DEF Init
<1>2. ASSUME CutStops, Send PROVE CutStops'
  BY <1>2 DEF Send, WholeMessage, PartOfMessage, NothingWritten
<1>3. ASSUME CutStops, [Next]_vars PROVE CutStops'
  <2>1. CASE Recv \/ Reply \/ Push
    BY <1>2, <1>3, <2>1 DEF Recv, Reply, Push, Send
  <2>2. CASE LoopTop \/ Select \/ TakeLine \/ NoMoreLines \/ HandleMessage
    BY <1>3, <2>2 DEF LoopTop, Select, TakeLine, NoMoreLines, HandleMessage
  <2>3. CASE Disconnect \/ Close \/ ServerStops
    BY <1>3, <2>3 DEF Disconnect, Close, ServerStops
  <2>4. CASE WritePiece \/ PeerReads \/ PeerCloses
    BY <1>3, <2>4 DEF WritePiece, PeerReads, PeerCloses, Mine
  <2>5. CASE DeadmanExpires \/ OtherArms \/ OtherDisarms
    BY <1>3, <2>5 DEF DeadmanExpires, OtherArms, OtherDisarms, Mine
  <2>6. CASE UNCHANGED vars
    BY <1>3, <2>6 DEF vars
  <2> QED
    BY <1>3, <2>1, <2>2, <2>3, <2>4, <2>5, <2>6 DEF Next, Run, Ended
<1> QED
  BY <1>1, <1>3, PTL DEF Spec

(* The session starts with nothing read.                                   *)
LEMMA InitHolds == Init => IInv
<1> SUFFICES ASSUME Init PROVE IInv
  OBVIOUS
<1> USE SessionAssumption, HandCount
<1>1. TypeOK
  <2>1. owner \in Clients /\ armed \subseteq Hands /\ lapsed \subseteq Hands
    BY DEF Init, Clients
  <2>2. answer \in Answers
    BY DEF Init, NoAnswer, Answers
  <2>3. buf \in Seq(Pieces) /\ handled \in Seq(1 .. MaxLines) /\ answered \in Seq(1 .. MaxLines)
    BY DEF Init
  <2>4. /\ written \in 0 .. 2 * MaxLines /\ taken \in 0 .. written
        /\ pushes \in 0 .. MaxPushes /\ toPush \in 0 .. 2 * Cardinality(Hands)
        /\ queued \in 0 .. OutRoom
    BY DEF Init
  <2>5. /\ tooLong \subseteq 1 .. MaxLines /\ silent \subseteq 1 .. MaxLines
        /\ pc = "loop" /\ line = "whole"
    BY DEF Init
  <2>6. peer \in BOOLEAN /\ hello \in BOOLEAN /\ halt \in BOOLEAN /\ open \in BOOLEAN
    BY DEF Init
  <2> QED
    BY <2>1, <2>2, <2>3, <2>4, <2>5, <2>6 DEF TypeOK
<1>2. Lines
  <2>1. taken = 0 /\ Len(handled) = 0 /\ Len(buf) = 0 /\ pc = "loop"
    BY DEF Init
  <2> QED
    BY <2>1 DEF Lines, HandledUpTo, BufferedFrom, HasCurrent
<1>3. Lease
  BY DEF Init, Lease, OkMeansArmed, NoLeaseAfterEnd
<1>4. PushBudget
  BY DEF Init, PushBudget
<1>5. Answered
  BY DEF Init, Answered, Answering, InTurn, Done, ToSet
<1> QED
  BY <1>1, <1>2, <1>3, <1>4, <1>5 DEF IInv

(* Nothing is lost when nothing changes.                                   *)
LEMMA StutterStep == IInv /\ UNCHANGED vars => IInv'
<1> SUFFICES ASSUME IInv, UNCHANGED vars PROVE IInv'
  OBVIOUS
<1> USE SessionAssumption, HandCount DEF IInv, vars, wireVars, readVars, replyVars, pushVars, sockVars, authVars
<1>1. TypeOK'
  BY DEF TypeOK
<1>2. Lines'
  BY DEF TypeOK, Lines, HandledUpTo, BufferedFrom, HasCurrent
<1>3. Lease'
  BY DEF TypeOK, Lease, OkMeansArmed, NoLeaseAfterEnd
<1>4. PushBudget'
  BY DEF TypeOK, PushBudget
<1>5. Answered'
  BY DEF TypeOK, Answered, Answering, InTurn, Done
<1> QED
  BY <1>1, <1>2, <1>3, <1>4, <1>5

(* The deadman only takes away.                                            *)
LEMMA LoopTopStep == IInv /\ LoopTop => IInv'
<1> SUFFICES ASSUME IInv, LoopTop PROVE IInv'
  OBVIOUS
<1> USE SessionAssumption, HandCount DEF IInv, LoopTop, Expired, Clients, wireVars, readVars, replyVars, pushVars, sockVars, authVars
<1>1. TypeOK'
  BY DEF TypeOK
<1>2. Lines'
  BY DEF TypeOK, Lines, HandledUpTo, BufferedFrom, HasCurrent
<1>3. Lease'
  BY DEF TypeOK, Lease, OkMeansArmed, NoLeaseAfterEnd
<1>4. PushBudget'
  BY DEF TypeOK, PushBudget
<1>5. Answered'
  BY DEF TypeOK, Answered, Answering, InTurn, Done
<1> QED
  BY <1>1, <1>2, <1>3, <1>4, <1>5

(* A look at the socket reads nothing.                                     *)
LEMMA SelectStep == IInv /\ Select => IInv'
<1> SUFFICES ASSUME IInv, Select PROVE IInv'
  OBVIOUS
<1> USE SessionAssumption, HandCount DEF IInv, Select, TelemetryDue, wireVars, readVars, replyVars, pushVars, sockVars, authVars
<1>1. TypeOK'
  BY DEF TypeOK
<1>2. Lines'
  BY DEF TypeOK, Lines, HandledUpTo, BufferedFrom, HasCurrent
<1>3. Lease'
  BY DEF TypeOK, Lease, OkMeansArmed, NoLeaseAfterEnd
<1>4. PushBudget'
  BY DEF TypeOK, PushBudget
<1>5. Answered'
  BY DEF TypeOK, Answered, Answering, InTurn, Done
<1> QED
  BY <1>1, <1>2, <1>3, <1>4, <1>5

(* What recv takes is put behind what is buffered.                         *)
LEMMA RecvStep == IInv /\ Recv => IInv'
<1> SUFFICES ASSUME IInv, Recv PROVE IInv'
  OBVIOUS
<1> USE SessionAssumption, HandCount DEF IInv, wireVars, readVars, replyVars, pushVars,
       sockVars, authVars
<1>0. UNCHANGED <<wireVars, handled, replyVars, pushVars, hello, open, authVars>>
  BY DEF Recv
<1> USE <1>0
<1>1. CASE UNCHANGED <<taken, buf, halt, queued, line>> /\ pc' = "finally"
  <2>1. TypeOK'
    BY <1>1 DEF TypeOK
  <2>2. Lines'
    BY <1>1 DEF Lines, HandledUpTo, BufferedFrom, HasCurrent
  <2>3. Lease'
    BY <1>1 DEF Lease, OkMeansArmed, NoLeaseAfterEnd
  <2>4. PushBudget'
    BY <1>1 DEF PushBudget
  <2>5. Answered'
    BY <1>1 DEF Answered, Answering, InTurn, Done
  <2> QED
    BY <2>1, <2>2, <2>3, <2>4, <2>5
<1>2. ASSUME NEW upto \in taken + 1 .. written,
             taken' = upto, buf' = Received(taken + 1, upto),
             \/ pc' = "finally" /\ Send
             \/ pc' = "lines" /\ UNCHANGED <<halt, queued, line>>
      PROVE  IInv'
  <2> DEFINE more == SubSeq([p \in 1 .. upto |-> p], taken + 1, upto)
  <2>1. taken + 1 \in Nat /\ upto \in Nat /\ 1 <= taken + 1 /\ taken + 1 <= upto + 1
    BY DEF TypeOK
  <2>2. /\ more \in Seq(taken + 1 .. upto)
        /\ Len(more) = upto - taken
        /\ \A i \in 1 .. Len(more) : more[i] = taken + i
    BY <2>1, Stretch DEF TypeOK
  <2>3. taken + 1 .. upto \subseteq Pieces
    BY DEF TypeOK, Pieces
  <2>4. more \in Seq(Pieces)
    BY <2>2, <2>3
  <2>5. buf' = buf \o more
    BY <1>2 DEF Received
  <2> HIDE DEF more
  <2>6. buf' \in Seq(Pieces) /\ Len(buf') = Len(buf) + Len(more)
    BY <2>4, <2>5 DEF TypeOK
  <2>7. \A i \in 1 .. Len(buf') :
           buf'[i] = IF i <= Len(buf) THEN buf[i] ELSE more[i - Len(buf)]
    BY <2>4, <2>5, <2>6 DEF TypeOK
  <2>8. taken' = upto /\ taken' \in 0 .. written /\ UNCHANGED handled
    BY <1>2 DEF TypeOK
  <2>9. /\ queued' \in 0 .. OutRoom /\ halt' \in BOOLEAN
        /\ line' \in {"whole", "cut", "glued"} /\ pc' \in {"finally", "lines"}
    BY <1>2, SendTypes DEF TypeOK
  <2>10. TypeOK'
    BY <2>6, <2>8, <2>9 DEF TypeOK
  <2>11. Len(handled) \in Nat /\ Len(buf) \in Nat /\ taken \in Nat
    BY DEF TypeOK
  <2>12. HandledUpTo' /\ HasCurrent'
    BY <1>2, <2>8, <2>9, <2>11 DEF Lines, HandledUpTo, HasCurrent
  <2>13. BufferedFrom'
    <3>1. Len(buf') = taken' - 2 * Len(handled)
      BY <2>1, <2>8, <2>2, <2>6, <2>11 DEF Lines, BufferedFrom
    <3>2. \A i \in 1 .. Len(buf') : buf'[i] = 2 * Len(handled) + i
      <4> TAKE i \in 1 .. Len(buf')
      <4>1. CASE i <= Len(buf)
        <5>1. i \in 1 .. Len(buf) /\ buf'[i] = buf[i]
          BY <4>1, <2>7, <2>11
        <5> QED
          BY <5>1 DEF Lines, BufferedFrom
      <4>2. CASE i > Len(buf)
        <5>1. i - Len(buf) \in 1 .. Len(more)
          BY <4>2, <2>2, <2>6, <2>11
        <5>2. buf'[i] = taken + (i - Len(buf))
          BY <4>2, <5>1, <2>2, <2>7, <2>11
        <5> QED
          BY <5>2, <2>11 DEF Lines, BufferedFrom
      <4> QED
        BY <4>1, <4>2, <2>11
    <3> QED
      BY <3>1, <3>2, <2>8 DEF BufferedFrom
  <2>14. Lease' /\ PushBudget'
    BY <2>9 DEF Lease, OkMeansArmed, NoLeaseAfterEnd, PushBudget
  <2>15. Answered'
    BY <2>8, <2>9 DEF Recv, Answered, Answering, InTurn, Done
  <2> QED
    BY <2>10, <2>12, <2>13, <2>14, <2>15 DEF Lines
<1> QED
  BY <1>1, <1>2 DEF Recv

(* The two pieces of the next line leave the buffer.                       *)
LEMMA TakeLineStep == IInv /\ TakeLine => IInv'
<1> SUFFICES ASSUME IInv, TakeLine PROVE IInv'
  OBVIOUS
<1> USE SessionAssumption, HandCount DEF IInv, wireVars, replyVars, pushVars, sockVars, authVars
<1> DEFINE n == Len(handled)
<1>1. n \in Nat /\ Len(buf) \in Nat /\ taken \in Nat
  BY DEF TypeOK
<1>2. \A i \in 1 .. Len(buf) : buf[i] = 2 * n + i
  BY DEF Lines, BufferedFrom
<1>3. NewlineAt = {i \in 1 .. Len(buf) : i % 2 = 0}
  <2>1. DOMAIN buf = 1 .. Len(buf)
    BY DEF TypeOK
  <2>2. \A i \in 1 .. Len(buf) : EndsLine(buf[i]) <=> i % 2 = 0
    BY <1>1, <1>2 DEF EndsLine
  <2> QED
    BY <2>1, <2>2 DEF NewlineAt
<1>4. Len(buf) >= 2
  BY <1>1, <1>3 DEF TakeLine
<1>5. Min(NewlineAt) = 2
  <2>1. 2 \in NewlineAt /\ \A i \in NewlineAt : 2 <= i
    BY <1>1, <1>3, <1>4
  <2>2. \A m \in NewlineAt : (\A i \in NewlineAt : m <= i) => m = 2
    BY <2>1, <1>1, <1>3
  <2> QED
    BY <2>1, <2>2 DEF Min
<1>6. LineOf(buf[2]) = n + 1 /\ buf[2] \in Pieces
  <2>1. 2 \in 1 .. Len(buf) /\ buf[2] = 2 * n + 2
    BY <1>1, <1>2, <1>4
  <2>2. (2 * n + 2 + 1) \div 2 = n + 1
    BY <1>1
  <2>3. buf[2] \in Pieces
    BY <2>1 DEF TypeOK
  <2> QED
    BY <2>1, <2>2, <2>3 DEF LineOf
<1>7. n + 1 \in 1 .. MaxLines
  BY <1>1, <1>2, <1>4, <1>6 DEF Pieces
<1>8. handled' = Append(handled, n + 1) /\ buf' = SubSeq(buf, 3, Len(buf))
  BY <1>5, <1>6 DEF TakeLine
<1>9. /\ handled' \in Seq(1 .. MaxLines) /\ Len(handled') = n + 1
      /\ \A i \in 1 .. n : handled'[i] = handled[i]
      /\ handled'[n + 1] = n + 1
  BY <1>1, <1>7, <1>8 DEF TypeOK
<1>10. /\ buf' \in Seq(Pieces) /\ Len(buf') = Len(buf) - 2
       /\ \A i \in 1 .. Len(buf') : buf'[i] = buf[i + 2]
  <2>1. buf \in Seq(Pieces) /\ \A i \in 3 .. Len(buf) : buf[i] \in Pieces
    BY <1>1 DEF TypeOK
  <2>2. buf' = [i \in 1 .. Len(buf) - 2 |-> buf[i + 2]]
    BY <1>1, <1>4, <1>8
  <2>3. \A i \in 1 .. Len(buf) - 2 : buf[i + 2] \in Pieces
    BY <1>1, <2>1
  <2> QED
    BY <1>1, <1>4, <2>2, <2>3
<1>11. /\ pc' = "call"
       /\ UNCHANGED <<wireVars, taken, replyVars, pushVars, hello, halt, sockVars, authVars>>
  BY DEF TakeLine
<1>12. TypeOK'
  BY <1>9, <1>10, <1>11 DEF TypeOK
<1>13. HandledUpTo'
  <2>1. 2 * (n + 1) <= taken
    BY <1>1, <1>4 DEF Lines, BufferedFrom
  <2>2. \A i \in 1 .. n + 1 : handled'[i] = i
    BY <1>1, <1>9 DEF Lines, HandledUpTo
  <2> QED
    BY <2>1, <2>2, <1>9, <1>11 DEF HandledUpTo
<1>14. BufferedFrom'
  <2>1. \A i \in 1 .. Len(buf') : buf'[i] = 2 * (n + 1) + i
    BY <1>1, <1>2, <1>4, <1>10
  <2> QED
    BY <2>1, <1>1, <1>9, <1>10, <1>11 DEF Lines, BufferedFrom
<1>15. HasCurrent' /\ Lease' /\ PushBudget'
  BY <1>1, <1>9, <1>11 DEF HasCurrent, Lease, OkMeansArmed, NoLeaseAfterEnd, PushBudget
<1>16. Answered'
  <2>1. Done' = Done /\ pc = "lines"
    BY <1>1, <1>9, <1>11 DEF Done, TakeLine
  <2> QED
    BY <2>1, <1>11 DEF Answered, Answering, InTurn
<1> QED
  BY <1>12, <1>13, <1>14, <1>15, <1>16 DEF Lines

(* Telemetry reads nothing.                                                *)
LEMMA NoMoreLinesStep == IInv /\ NoMoreLines => IInv'
<1> SUFFICES ASSUME IInv, NoMoreLines PROVE IInv'
  OBVIOUS
<1> USE SessionAssumption, HandCount DEF IInv, NoMoreLines, TelemetryDue, wireVars, readVars, replyVars, pushVars, sockVars, authVars
<1>1. TypeOK'
  BY DEF TypeOK
<1>2. Lines'
  BY DEF TypeOK, Lines, HandledUpTo, BufferedFrom, HasCurrent
<1>3. Lease'
  BY DEF TypeOK, Lease, OkMeansArmed, NoLeaseAfterEnd
<1>4. PushBudget'
  BY DEF TypeOK, PushBudget
<1>5. Answered'
  BY DEF TypeOK, Answered, Answering, InTurn, Done
<1> QED
  BY <1>1, <1>2, <1>3, <1>4, <1>5

(* What a call to the authority leaves: the types, an "ok" that is true    *)
(* when it is decided on, and no line that is passed over unanswered.      *)
CallOK ==
  /\ hello' \in BOOLEAN
  /\ owner' \in Clients /\ armed' \subseteq Hands /\ lapsed' \subseteq Hands
  /\ answer' \in Answers /\ silent' \subseteq 1 .. MaxLines
  /\ pc' \in {"reply", "lines", "finally"}
  /\ silent' = IF pc' = "lines" THEN silent \cup {Current} ELSE silent
  /\ pc' = "reply" /\ answer'.code = "armed" =>
        answer'.sides \ lapsed' \subseteq (IF owner' = "me" THEN armed' ELSE {})

(* An answer that promises no side is safe, and so is none.                *)
LEMMA SayTypes ==
  ASSUME TypeOK, NEW code \in {"none", "error", "ok", "armed"}, NEW sides \in SUBSET Hands,
         Say(code, sides)
  PROVE  /\ answer' \in Answers /\ answer'.code = code /\ answer'.sides = sides
         /\ silent' \subseteq 1 .. MaxLines /\ UNCHANGED silent /\ pc' = "reply"
  BY DEF Say, Answers, TypeOK

(* The line that is being handled is the last one split off.               *)
LEMMA CurrentLine ==
  ASSUME TypeOK, HandledUpTo, Len(handled) > 0
  PROVE  Current = Len(handled) /\ Current \in 1 .. MaxLines
<1>1. Len(handled) \in 1 .. Len(handled) /\ handled \in Seq(1 .. MaxLines)
  BY DEF TypeOK
<1>2. handled[Len(handled)] \in 1 .. MaxLines /\ handled[Len(handled)] = Len(handled)
  BY <1>1, ElementOfSeq DEF HandledUpTo
<1> QED
  BY <1>2 DEF Current, Last

(* One more at the end is one more in the set.                             *)
LEMMA AppendedSet ==
  ASSUME NEW S, NEW s \in Seq(S), NEW x \in S
  PROVE  ToSet(Append(s, x)) = ToSet(s) \cup {x}
<1> DEFINE t == Append(s, x)
<1>1. /\ t \in Seq(S) /\ Len(s) \in Nat /\ Len(t) = Len(s) + 1
      /\ t[Len(s) + 1] = x /\ \A i \in 1 .. Len(s) : t[i] = s[i]
  OBVIOUS
<1>2. DOMAIN s = 1 .. Len(s) /\ DOMAIN t = 1 .. Len(s) + 1
  BY <1>1
<1> HIDE DEF t
<1>3. ToSet(t) \subseteq ToSet(s) \cup {x}
  BY <1>1, <1>2 DEF ToSet
<1>4. ToSet(s) \cup {x} \subseteq ToSet(t)
  BY <1>1, <1>2 DEF ToSet
<1> QED
  BY <1>3, <1>4 DEF t

(* The line that is not answered is one of the lines.                      *)
LEMMA SilentTypes ==
  ASSUME TypeOK, Len(handled) > 0, SayNothing
  PROVE  /\ answer' \in Answers /\ silent' \subseteq 1 .. MaxLines /\ pc' = "lines"
         /\ silent' = silent \cup {Current}
<1>1. Current \in 1 .. MaxLines
  <2>1. Len(handled) \in 1 .. Len(handled) /\ handled \in Seq(1 .. MaxLines)
    BY DEF TypeOK
  <2>2. handled[Len(handled)] \in 1 .. MaxLines
    BY <2>1, ElementOfSeq
  <2> QED
    BY <2>2 DEF Current, Last
<1> QED
  BY <1>1 DEF SayNothing, TypeOK

(* arm(): the sides of an "ok" are armed.                                  *)
LEMMA EnableCall ==
  ASSUME TypeOK, Enable
  PROVE  CallOK
<1>1. PICK sides \in SUBSET Hands \ {{}} : Arm(sides)
  BY DEF Enable
<1>2. lapsed' = {} /\ UNCHANGED hello
  BY DEF Enable
<1>3. CASE owner \notin {"none", "me"} /\ Say("error", {}) /\ UNCHANGED <<owner, armed>>
  BY <1>2, <1>3, SayTypes DEF CallOK, TypeOK
<1>4. CASE owner' = "me" /\ armed' = armed \cup sides /\ Say("armed", sides)
  BY <1>2, <1>4, SayTypes DEF CallOK, TypeOK, Clients
<1>5. CASE Say("error", {}) /\ UNCHANGED <<owner, armed>>
  BY <1>2, <1>5, SayTypes DEF CallOK, TypeOK
<1> QED
  BY <1>1, <1>3, <1>4, <1>5 DEF Arm

(* disarm(), with or without an error of a hand.                           *)
LEMMA DisarmCall ==
  ASSUME TypeOK, Disable \/ CommandOff
  PROVE  CallOK
<1>1. UNCHANGED hello
  BY DEF Disable, CommandOff
<1>2. CASE NotController
  BY <1>1, <1>2, SayTypes DEF CallOK, TypeOK, NotController, authVars
<1>3. ASSUME NEW sides \in SUBSET Hands, Disarmed(sides)
      PROVE  owner' \in Clients /\ armed' \subseteq Hands /\ lapsed' \subseteq Hands
  BY <1>3 DEF Disarmed, TypeOK, Clients
<1>4. CASE /\ \E sides \in SUBSET Hands : Disarmed(sides)
           /\ Say("ok", {}) \/ Say("error", {})
  BY <1>1, <1>3, <1>4, SayTypes DEF CallOK, TypeOK
<1>5. CASE /\ \E sides \in SUBSET Hands : Disarmed(sides)
           /\ pc' = "finally" /\ UNCHANGED <<answer, silent>>
  BY <1>1, <1>3, <1>5 DEF CallOK, TypeOK
<1>6. CASE Disable
  BY <1>2, <1>4, <1>6 DEF Disable
<1>7. CASE CommandOff
  <2>1. \A side \in Hands : {side} \in SUBSET Hands
    OBVIOUS
  <2> QED
    BY <1>2, <1>4, <1>5, <1>7, <2>1 DEF CommandOff
<1> QED
  BY <1>6, <1>7

(* Every message.                                                          *)
LEMMA MessageCall ==
  ASSUME TypeOK, HasCurrent, HandleMessage
  PROVE  CallOK
<1>1. Len(handled) > 0
  BY DEF HasCurrent, HandleMessage
<1>2. CASE Blank
  BY <1>1, <1>2, SilentTypes DEF Blank, CallOK, TypeOK, authVars
<1>3. CASE BadLine
  BY <1>3, SayTypes DEF BadLine, CallOK, TypeOK, authVars
<1>4. CASE Hello
  BY <1>4, SayTypes DEF Hello, CallOK, TypeOK, authVars
<1>5. CASE Ask
  BY <1>5, SayTypes DEF Ask, CallOK, TypeOK, authVars
<1>6. CASE Command
  BY <1>1, <1>6, SayTypes, SilentTypes DEF Command, CallOK, TypeOK, authVars
<1> QED
  BY <1>2, <1>3, <1>4, <1>5, <1>6, EnableCall, DisarmCall DEF HandleMessage

(* The calls to the authority.                                             *)
LEMMA HandleStep == IInv /\ HandleMessage => IInv'
<1> SUFFICES ASSUME IInv, HandleMessage PROVE IInv'
  OBVIOUS
<1> USE DEF IInv, wireVars, readVars, pushVars, sockVars
<1>1. UNCHANGED <<wireVars, readVars, answered, pushVars, halt, sockVars>> /\ pc = "call"
  BY DEF HandleMessage
<1>2. CallOK
  BY MessageCall DEF Lines
<1>3. TypeOK'
  BY <1>1, <1>2 DEF TypeOK, CallOK
<1>4. Lines'
  BY <1>1, <1>2 DEF Lines, HandledUpTo, BufferedFrom, HasCurrent, CallOK
<1>5. Lease'
  BY <1>2 DEF Lease, OkMeansArmed, NoLeaseAfterEnd, CallOK
<1>6. PushBudget'
  BY <1>1 DEF PushBudget
<1>7. Answering'
  <2>1. Len(handled) \in Nat /\ Len(handled) > 0 /\ Current = Len(handled)
    BY <1>1, CurrentLine DEF TypeOK, Lines, HasCurrent
  <2>2. Done = 1 .. Len(handled) - 1
    BY <1>1, <2>1 DEF Done
  <2>3. /\ ToSet(answered) \subseteq Done \ silent /\ silent \subseteq Done
        /\ ~ halt => Done \ silent \subseteq ToSet(answered)
    BY <1>1 DEF Answered, Answering
  <2>4. CASE pc' = "reply"
    BY <1>1, <1>2, <2>3, <2>4 DEF CallOK, Done, Answering
  <2>5. CASE pc' = "lines"
    <3>1. Done' = 1 .. Len(handled) /\ silent' = silent \cup {Len(handled)}
      BY <1>1, <1>2, <2>1, <2>5 DEF CallOK, Done
    <3>2. (1 .. Len(handled)) \ {Len(handled)} = 1 .. Len(handled) - 1
      BY <2>1
    <3>3. Done' \ silent' = Done \ silent
      BY <3>1, <3>2, <2>2
    <3>4. silent' \subseteq Done'
      <4>1. 1 .. Len(handled) - 1 \subseteq 1 .. Len(handled) /\ Len(handled) \in 1 .. Len(handled)
        BY <2>1
      <4> QED
        BY <4>1, <3>1, <2>2, <2>3
    <3> QED
      BY <1>1, <2>3, <3>3, <3>4 DEF Answering
  <2>6. CASE pc' = "finally"
    <3>1. Done' = 1 .. Len(handled) /\ silent' = silent
      BY <1>1, <1>2, <2>1, <2>6 DEF CallOK, Done
    <3>2. Done \subseteq Done'
      BY <3>1, <2>1, <2>2
    <3> QED
      BY <1>1, <2>3, <2>6, <3>1, <3>2 DEF Answering
  <2> QED
    BY <1>2, <2>4, <2>5, <2>6 DEF CallOK
<1>8. InTurn'
  BY <1>1 DEF Answered, InTurn
<1> QED
  BY <1>3, <1>4, <1>5, <1>6, <1>7, <1>8 DEF Answered

(* The current line is answered.                                           *)
LEMMA ReplyStep == IInv /\ CutStops /\ Reply => IInv'
<1> SUFFICES ASSUME IInv, CutStops, Reply PROVE IInv'
  OBVIOUS
<1> USE SessionAssumption, HandCount DEF IInv, Reply, NoAnswer, Answers, wireVars, readVars, replyVars, pushVars, sockVars, authVars
<1>1. TypeOK'
  <2>1. queued' \in 0 .. OutRoom /\ halt' \in BOOLEAN /\ line' \in {"whole", "cut", "glued"}
    BY SendTypes DEF TypeOK, Send
  <2>2. answered' \in Seq(1 .. MaxLines)
    <3>1. Len(handled) \in DOMAIN handled
      BY DEF TypeOK, Lines, HasCurrent
    <3>2. Append(answered, Current) \in Seq(1 .. MaxLines)
      BY <3>1 DEF TypeOK, Current, Last
    <3> QED
      BY <3>2 DEF TypeOK
  <2>3. answer' \in Answers /\ pc' = "lines"
    BY DEF TypeOK
  <2> QED
    BY <2>1, <2>2, <2>3 DEF TypeOK
<1>2. Lines'
  BY DEF TypeOK, Lines, HandledUpTo, BufferedFrom, HasCurrent
<1>3. Lease'
  BY DEF TypeOK, Lease, OkMeansArmed, NoLeaseAfterEnd
<1>4. PushBudget'
  BY DEF TypeOK, PushBudget
<1>5. Answered'
  <2>1. Len(handled) \in Nat /\ Len(handled) > 0 /\ Current = Len(handled)
    BY CurrentLine DEF TypeOK, Lines, HasCurrent
  <2>2. Current \in 1 .. MaxLines /\ answered \in Seq(1 .. MaxLines)
    BY <2>1, CurrentLine DEF TypeOK, Lines
  <2>3. Done = 1 .. Len(handled) - 1 /\ Done' = 1 .. Len(handled)
    BY <2>1 DEF Done
  <2>4. /\ ToSet(answered) \subseteq Done \ silent /\ silent \subseteq Done
        /\ ~ halt => Done \ silent \subseteq ToSet(answered)
    BY DEF Answered, Answering
  <2>5. CASE WholeMessage /\ line = "whole"
    <3>1. answered' = Append(answered, Len(handled)) /\ halt' = halt
      BY <2>1, <2>5 DEF WholeMessage, PartOfMessage, NothingWritten, TypeOK
    <3>2. ToSet(answered') = ToSet(answered) \cup {Len(handled)}
      BY <2>1, <2>2, <3>1, AppendedSet
    <3>3. Answering'
      BY <2>1, <2>3, <2>4, <3>1, <3>2 DEF Answering
    <3>4. /\ Len(answered) \in Nat /\ Len(answered') = Len(answered) + 1
          /\ answered'[Len(answered) + 1] = Len(handled)
          /\ \A i \in 1 .. Len(answered) : answered'[i] = answered[i]
      BY <2>1, <2>2, <3>1
    <3>5. \A i \in 1 .. Len(answered) : answered[i] \in 1 .. Len(handled) - 1
      <4>1. DOMAIN answered = 1 .. Len(answered)
        BY <2>2
      <4> QED
        BY <4>1, <2>3, <2>4 DEF ToSet
    <3>6. InTurn'
      <4> SUFFICES ASSUME NEW i \in 1 .. Len(answered) + 1, NEW j \in 1 .. Len(answered) + 1, i < j
                   PROVE  answered'[i] < answered'[j]
        BY <3>4 DEF InTurn
      <4>1. i \in 1 .. Len(answered) /\ answered'[i] = answered[i]
        BY <3>4
      <4>2. CASE j = Len(answered) + 1
        BY <2>1, <3>4, <3>5, <4>1, <4>2
      <4>3. CASE j \in 1 .. Len(answered)
        BY <3>4, <4>1, <4>3 DEF Answered, InTurn
      <4> QED
        BY <3>4, <4>2, <4>3
    <3> QED
      BY <3>3, <3>6 DEF Answered
  <2>6. CASE answered' = answered /\ halt'
    <3>1. Done \subseteq Done'
      BY <2>1, <2>3
    <3>2. Answering'
      BY <2>4, <2>6, <3>1 DEF Answering
    <3>3. InTurn'
      BY <2>6 DEF Answered, InTurn
    <3> QED
      BY <3>2, <3>3 DEF Answered
  <2> QED
    BY <2>5, <2>6 DEF CutStops, PartOfMessage, NothingWritten, WholeMessage
<1> QED
  BY <1>1, <1>2, <1>3, <1>4, <1>5

(* A snapshot is pushed.                                                   *)
LEMMA PushStep == IInv /\ Push => IInv'
<1> SUFFICES ASSUME IInv, Push PROVE IInv'
  OBVIOUS
<1> USE SessionAssumption, HandCount DEF IInv, Push, wireVars, readVars, replyVars, pushVars, sockVars, authVars
<1>1. TypeOK'
  <2>1. queued' \in 0 .. OutRoom /\ halt' \in BOOLEAN /\ line' \in {"whole", "cut", "glued"}
    BY SendTypes DEF TypeOK
  <2>2. pushes' \in 0 .. MaxPushes /\ toPush' \in 0 .. 2 * Cardinality(Hands)
    BY DEF TypeOK, PushBudget
  <2>3. pc' \in {"loop", "push", "finally"}
    BY DEF TypeOK
  <2> QED
    BY <2>1, <2>2, <2>3 DEF TypeOK
<1>2. Lines'
  BY DEF TypeOK, Lines, HandledUpTo, BufferedFrom, HasCurrent
<1>3. Lease'
  BY DEF TypeOK, Lease, OkMeansArmed, NoLeaseAfterEnd
<1>4. PushBudget'
  BY DEF TypeOK, PushBudget
<1>5. Answered'
  <2>1. /\ pc = "push" /\ pc' \in {"push", "loop", "finally"}
        /\ UNCHANGED <<handled, answered, silent>>
    OBVIOUS
  <2>2. halt' = halt \/ halt' = TRUE
    BY DEF Send, WholeMessage, PartOfMessage, NothingWritten
  <2>3. Done' = Done
    BY <2>1 DEF Done
  <2> HIDE DEF IInv, Push
  <2>4. Answering /\ InTurn
    BY DEF IInv, Answered
  <2> QED
    BY <2>1, <2>2, <2>3, <2>4 DEF Answered, Answering, InTurn
<1> QED
  BY <1>1, <1>2, <1>3, <1>4, <1>5

(* The lease is given back.                                                *)
LEMMA DisconnectStep == IInv /\ Disconnect => IInv'
<1> SUFFICES ASSUME IInv, Disconnect PROVE IInv'
  OBVIOUS
<1> USE SessionAssumption, HandCount DEF IInv, Disconnect, Clients, wireVars, readVars, replyVars, pushVars, sockVars, authVars
<1>1. TypeOK'
  BY DEF TypeOK
<1>2. Lines'
  BY DEF TypeOK, Lines, HandledUpTo, BufferedFrom, HasCurrent
<1>3. Lease'
  BY DEF TypeOK, Lease, OkMeansArmed, NoLeaseAfterEnd
<1>4. PushBudget'
  BY DEF TypeOK, PushBudget
<1>5. Answered'
  BY DEF TypeOK, Answered, Answering, InTurn, Done
<1> QED
  BY <1>1, <1>2, <1>3, <1>4, <1>5

(* The connection is closed.                                               *)
LEMMA CloseStep == IInv /\ Close => IInv'
<1> SUFFICES ASSUME IInv, Close PROVE IInv'
  OBVIOUS
<1> USE SessionAssumption, HandCount DEF IInv, Close, wireVars, readVars, replyVars, pushVars, sockVars, authVars
<1>1. TypeOK'
  BY DEF TypeOK
<1>2. Lines'
  BY DEF TypeOK, Lines, HandledUpTo, BufferedFrom, HasCurrent
<1>3. Lease'
  BY DEF TypeOK, Lease, OkMeansArmed, NoLeaseAfterEnd
<1>4. PushBudget'
  BY DEF TypeOK, PushBudget
<1>5. Answered'
  BY DEF TypeOK, Answered, Answering, InTurn, Done
<1> QED
  BY <1>1, <1>2, <1>3, <1>4, <1>5

(* The client writes.                                                      *)
LEMMA WriteStep == IInv /\ WritePiece => IInv'
<1> SUFFICES ASSUME IInv, WritePiece PROVE IInv'
  OBVIOUS
<1> USE SessionAssumption, HandCount DEF IInv, WritePiece, wireVars, Mine, readVars, replyVars, pushVars, authVars
<1>1. TypeOK'
  <2>1. LineOf(written + 1) \in 1 .. MaxLines
    BY DEF LineOf, TypeOK
  <2>2. written' \in 0 .. 2 * MaxLines /\ taken \in 0 .. written'
    BY DEF TypeOK
  <2>3. tooLong' \subseteq 1 .. MaxLines
    BY <2>1 DEF TypeOK
  <2> QED
    BY <2>2, <2>3 DEF TypeOK
<1>2. Lines'
  BY DEF TypeOK, Lines, HandledUpTo, BufferedFrom, HasCurrent
<1>3. Lease'
  BY DEF TypeOK, Lease, OkMeansArmed, NoLeaseAfterEnd
<1>4. PushBudget'
  BY DEF TypeOK, PushBudget
<1>5. Answered'
  BY DEF TypeOK, Answered, Answering, InTurn, Done
<1> QED
  BY <1>1, <1>2, <1>3, <1>4, <1>5

(* The client reads.                                                       *)
LEMMA ReadStep == IInv /\ PeerReads => IInv'
<1> SUFFICES ASSUME IInv, PeerReads PROVE IInv'
  OBVIOUS
<1> USE SessionAssumption, HandCount DEF IInv, PeerReads, wireVars, Mine, readVars, replyVars, pushVars, authVars
<1>1. TypeOK'
  BY DEF TypeOK
<1>2. Lines'
  BY DEF TypeOK, Lines, HandledUpTo, BufferedFrom, HasCurrent
<1>3. Lease'
  BY DEF TypeOK, Lease, OkMeansArmed, NoLeaseAfterEnd
<1>4. PushBudget'
  BY DEF TypeOK, PushBudget
<1>5. Answered'
  BY DEF TypeOK, Answered, Answering, InTurn, Done
<1> QED
  BY <1>1, <1>2, <1>3, <1>4, <1>5

(* The client closes.                                                      *)
LEMMA PeerCloseStep == IInv /\ PeerCloses => IInv'
<1> SUFFICES ASSUME IInv, PeerCloses PROVE IInv'
  OBVIOUS
<1> USE SessionAssumption, HandCount DEF IInv, PeerCloses, wireVars, Mine, readVars, replyVars, pushVars, authVars
<1>1. TypeOK'
  BY DEF TypeOK
<1>2. Lines'
  BY DEF TypeOK, Lines, HandledUpTo, BufferedFrom, HasCurrent
<1>3. Lease'
  BY DEF TypeOK, Lease, OkMeansArmed, NoLeaseAfterEnd
<1>4. PushBudget'
  BY DEF TypeOK, PushBudget
<1>5. Answered'
  BY DEF TypeOK, Answered, Answering, InTurn, Done
<1> QED
  BY <1>1, <1>2, <1>3, <1>4, <1>5

(* The server stops the session.                                           *)
LEMMA StopStep == IInv /\ ServerStops => IInv'
<1> SUFFICES ASSUME IInv, ServerStops PROVE IInv'
  OBVIOUS
<1> USE SessionAssumption, HandCount DEF IInv, ServerStops, wireVars, readVars, replyVars, pushVars, sockVars, authVars
<1>1. TypeOK'
  BY DEF TypeOK
<1>2. Lines'
  BY DEF TypeOK, Lines, HandledUpTo, BufferedFrom, HasCurrent
<1>3. Lease'
  BY DEF TypeOK, Lease, OkMeansArmed, NoLeaseAfterEnd
<1>4. PushBudget'
  BY DEF TypeOK, PushBudget
<1>5. Answered'
  BY DEF TypeOK, Answered, Answering, InTurn, Done
<1> QED
  BY <1>1, <1>2, <1>3, <1>4, <1>5

(* What the deadman takes is recorded as lapsed.                           *)
LEMMA DeadmanStep == IInv /\ DeadmanExpires => IInv'
<1> SUFFICES ASSUME IInv, DeadmanExpires PROVE IInv'
  OBVIOUS
<1> USE SessionAssumption, HandCount DEF IInv, DeadmanExpires, Expired, Clients, wireVars, Mine, readVars, replyVars, pushVars, authVars
<1>1. TypeOK'
  BY DEF TypeOK
<1>2. Lines'
  BY DEF TypeOK, Lines, HandledUpTo, BufferedFrom, HasCurrent
<1>3. Lease'
  BY DEF TypeOK, Lease, OkMeansArmed, NoLeaseAfterEnd
<1>4. PushBudget'
  BY DEF TypeOK, PushBudget
<1>5. Answered'
  BY DEF TypeOK, Answered, Answering, InTurn, Done
<1> QED
  BY <1>1, <1>2, <1>3, <1>4, <1>5

(* Another client takes a free lease.                                      *)
LEMMA OtherArmsStep == IInv /\ OtherArms => IInv'
<1> SUFFICES ASSUME IInv, OtherArms PROVE IInv'
  OBVIOUS
<1> USE SessionAssumption, HandCount DEF IInv, OtherArms, Clients, wireVars, Mine, readVars, replyVars, pushVars, authVars
<1>1. TypeOK'
  BY DEF TypeOK
<1>2. Lines'
  BY DEF TypeOK, Lines, HandledUpTo, BufferedFrom, HasCurrent
<1>3. Lease'
  BY DEF TypeOK, Lease, OkMeansArmed, NoLeaseAfterEnd
<1>4. PushBudget'
  BY DEF TypeOK, PushBudget
<1>5. Answered'
  BY DEF TypeOK, Answered, Answering, InTurn, Done
<1> QED
  BY <1>1, <1>2, <1>3, <1>4, <1>5

(* Another client gives back its own.                                      *)
LEMMA OtherDisarmsStep == IInv /\ OtherDisarms => IInv'
<1> SUFFICES ASSUME IInv, OtherDisarms PROVE IInv'
  OBVIOUS
<1> USE SessionAssumption, HandCount DEF IInv, OtherDisarms, Clients, wireVars, Mine, readVars, replyVars, pushVars, authVars
<1>1. TypeOK'
  BY DEF TypeOK
<1>2. Lines'
  BY DEF TypeOK, Lines, HandledUpTo, BufferedFrom, HasCurrent
<1>3. Lease'
  BY DEF TypeOK, Lease, OkMeansArmed, NoLeaseAfterEnd
<1>4. PushBudget'
  BY DEF TypeOK, PushBudget
<1>5. Answered'
  BY DEF TypeOK, Answered, Answering, InTurn, Done
<1> QED
  BY <1>1, <1>2, <1>3, <1>4, <1>5

-----------------------------------------------------------------------------
(* IInv is inductive: every step of the session and of the others keeps it.*)
LEMMA NextHolds == IInv /\ CutStops /\ [Next]_vars => IInv'
  BY StutterStep, LoopTopStep, SelectStep, RecvStep, TakeLineStep, NoMoreLinesStep,
     HandleStep, ReplyStep, PushStep, DisconnectStep, CloseStep, WriteStep, ReadStep,
     PeerCloseStep, StopStep, DeadmanStep, OtherArmsStep, OtherDisarmsStep
  DEF Next, Run, Ended

(* IInv holds in every state a session reaches.                            *)
LEMMA Inductive == Spec => []IInv
<1>1. Init => IInv
  BY InitHolds
<1>2. IInv /\ CutStops /\ [Next]_vars => IInv'
  BY NextHolds
<1> QED
  BY <1>1, <1>2, CutsStop, PTL DEF Spec

(* Told one by one or as sequences, it is the same.                        *)
LEMMA LinesAreInOrder == TypeOK /\ Lines => LinesInOrder
  BY DEF TypeOK, Lines, HandledUpTo, BufferedFrom, LinesInOrder

(* Every variable of a session keeps its type.                             *)
THEOREM TypeCorrect == Spec => []TypeOK
<1>1. IInv => TypeOK
  BY DEF IInv
<1> QED
  BY <1>1, Inductive, PTL

(* However recv cuts the stream, no line is lost, doubled or taken out of  *)
(* its order (control.py:336-349).                                         *)
THEOREM NoLineLost == Spec => []LinesInOrder
<1>1. IInv => LinesInOrder
  BY LinesAreInOrder DEF IInv
<1> QED
  BY <1>1, Inductive, PTL

(* Told with what is done and what is not, it is the same.                 *)
LEMMA LinesAreAnswered == TypeOK /\ Lines /\ Answered => AnsweredOnce
<1> SUFFICES ASSUME TypeOK, Lines, Answered PROVE AnsweredOnce
  OBVIOUS
<1>1. Len(handled) \in Nat /\ DOMAIN handled = 1 .. Len(handled)
      /\ DOMAIN answered = 1 .. Len(answered)
  BY DEF TypeOK
<1>2. Done \subseteq 1 .. Len(handled)
  BY <1>1 DEF Done
<1>3. pc \notin {"call", "reply"} => Done = 1 .. Len(handled)
  BY <1>1 DEF Done
<1>4. ToSet(handled) = 1 .. Len(handled)
  BY <1>1 DEF Lines, HandledUpTo, ToSet
<1> QED
  BY <1>1, <1>2, <1>3, <1>4 DEF Answered, Answering, InTurn, AnsweredOnce

(* The answers that are written whole are to one handled line each, in the *)
(* order of the lines, and until a send fails or the session is stopped    *)
(* only a blank line and an accepted joint_cmd are passed over             *)
(* (control.py:308-313, 377-479).                                          *)
THEOREM EveryLineAnswered == Spec => []AnsweredOnce
<1>1. IInv => AnsweredOnce
  BY LinesAreAnswered DEF IInv
<1> QED
  BY <1>1, Inductive, PTL

(* What an "ok" to enable:true promises is contradicted by the deadman     *)
(* alone (control.py:404-424).                                             *)
THEOREM OkIsHonest == Spec => []OkMeansArmed
<1>1. IInv => OkMeansArmed
  BY DEF IInv, Lease
<1> QED
  BY <1>1, Inductive, PTL

(* No lease outlives its session (control.py:372-375).                     *)
THEOREM LeaseReleased == Spec => []NoLeaseAfterEnd
<1>1. IInv => NoLeaseAfterEnd
  BY DEF IInv, Lease
<1> QED
  BY <1>1, Inductive, PTL

=============================================================================
