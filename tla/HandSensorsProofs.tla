-------------------------- MODULE HandSensorsProofs --------------------------
(***************************************************************************)
(* However many hands there are, wherever the network puts them and        *)
(* whatever fails while the server starts them: a side that is connected   *)
(* has its own hand, and a side that is not has nothing open.              *)
(* However large the frames of their fingertips are and whenever a sensor  *)
(* changes the layout it writes them in: when a hand names the layout, the *)
(* force that is stored and the intensity the glove gets are those of the  *)
(* touch that was written.                                                 *)
(***************************************************************************)
EXTENDS HandSensors, SequenceTheorems, WellFoundedInduction, TLAPS

(* What the start of the hands is about, without tactile formats.          *)
StartTypes ==
  /\ at \in [Addresses -> Devices \cup {None}]
  /\ main \in {"scan", "probe", "connect", "identify", "state", "fingers", "loop",
               "release", "serve", "down"}
  /\ turn \in 1 .. Len(Wanted) + 1
  /\ address \in [Sides -> Addresses \cup {None}]
  /\ probing \subseteq Addresses /\ found \in [Sides -> Addresses \cup {None}]
  /\ todo \subseteq Fingers
  /\ hand \in [Sides -> Devices \cup {None}]
  /\ stateSub \in [Sides -> BOOLEAN] /\ connected \in [Sides -> BOOLEAN]
  /\ subs \in [Sides -> SUBSET Fingers]

Clean(s) == hand[s] = None /\ ~ stateSub[s] /\ subs[s] = {} /\ ~ connected[s]
Right(s) == hand[s] \in Devices /\ Handedness[hand[s]] = s

(* Where the main thread is among the sides.                               *)
TurnInv ==
  /\ main \notin {"serve", "down"} => turn \in 1 .. Len(Wanted)
  /\ main = "serve" => turn = Len(Wanted) + 1 /\ \E s \in Sides : connected[s]

(* Hands are looked for only while a side has no address.                  *)
AddressInv ==
  main \notin {"scan", "probe", "down"} => \A s \in Sides : address[s] \in Addresses

(* What the side whose turn it is has so far.                              *)
TurnOf ==
  /\ main \in {"scan", "probe", "connect"} => Clean(S)
  /\ main \in {"identify", "state", "fingers"} => hand[S] \in Devices /\ ~ connected[S]
  /\ main \in {"state", "fingers", "loop"} => Right(S)
  /\ main = "loop" => connected[S]

(* The sides before it are served or were cleaned up, the sides behind it  *)
(* were not touched.                                                       *)
Others ==
  \A j \in DOMAIN Wanted :
    /\ j > turn => Clean(Wanted[j])
    /\ j < turn => connected[Wanted[j]] \/ Clean(Wanted[j])

IInv == StartTypes /\ TurnInv /\ AddressInv /\ TurnOf /\ Others /\ RightHand

-----------------------------------------------------------------------------
(* The sides are the entries of Wanted, each once.                         *)
LEMMA WantedSides ==
  /\ Len(Wanted) \in Nat \ {0}
  /\ DOMAIN Wanted = 1 .. Len(Wanted)
  /\ \A j \in 1 .. Len(Wanted) : Wanted[j] \in Sides
  /\ \A s \in Sides : \E j \in 1 .. Len(Wanted) : s = Wanted[j]
  /\ \A i, j \in 1 .. Len(Wanted) : Wanted[i] = Wanted[j] => i = j
  /\ None \notin Sides /\ None \notin Addresses /\ None \notin Devices
<1>1. Wanted \in Seq(Sides) /\ Wanted # <<>>
  BY SensorsAssumption
<1>2. Len(Wanted) \in Nat /\ DOMAIN Wanted = 1 .. Len(Wanted)
  BY <1>1, LenProperties
<1>3. Len(Wanted) # 0
  BY <1>1, EmptySeq
<1>4. \A j \in 1 .. Len(Wanted) : Wanted[j] \in Sides
  BY <1>1, ElementOfSeq
<1> QED
  BY <1>2, <1>3, <1>4, SensorsAssumption DEF Sides

LEMMA SIsASide ==
  ASSUME IInv, main \notin {"serve", "down"}
  PROVE  S \in Sides /\ turn \in 1 .. Len(Wanted)
BY WantedSides DEF IInv, TurnInv, S

LEMMA InitHolds == Init => IInv
<1> SUFFICES ASSUME Init PROVE IInv
  OBVIOUS
<1>1. StartTypes
  BY WantedSides DEF Init, StartTypes, Everywhere
<1>2. \A s \in Sides : Clean(s) /\ ~ connected[s]
  BY DEF Init, Clean, Everywhere
<1>3. S \in Sides
  BY WantedSides DEF Init, S
<1>4. main = "scan" /\ turn = 1
  BY DEF Init
<1>5. TurnInv /\ AddressInv /\ TurnOf
  BY <1>2, <1>3, <1>4, WantedSides DEF TurnInv, AddressInv, TurnOf
<1>6. Others
  BY <1>2, WantedSides DEF Others
<1>7. RightHand
  BY <1>2 DEF RightHand
<1> QED
  BY <1>1, <1>5, <1>6, <1>7 DEF IInv

(* The network, the sensors and the callbacks open and close nothing.      *)
LEMMA OutsideHolds ==
  ASSUME IInv, Readdress \/ LayoutChanges \/ JointState \/ TouchFrame \/ PushTactile
               \/ UNCHANGED vars
  PROVE  IInv'
<1>1. /\ UNCHANGED <<main, turn, address, probing, found, todo, hand, stateSub, subs, connected>>
      /\ at' \in [Addresses -> Devices \cup {None}]
  <2>1. CASE Readdress
    BY <2>1 DEF Readdress, IInv, StartTypes, findVars, handVars
  <2>2. CASE LayoutChanges
    BY <2>2 DEF LayoutChanges, IInv, StartTypes, findVars, handVars
  <2>3. CASE JointState
    BY <2>3 DEF JointState, IInv, StartTypes, findVars, netVars
  <2>4. CASE TouchFrame
    BY <2>4 DEF TouchFrame, IInv, StartTypes, findVars, netVars, handVars
  <2>5. CASE PushTactile
    BY <2>5 DEF PushTactile, IInv, StartTypes, findVars, netVars, handVars
  <2>6. CASE UNCHANGED vars
    BY <2>6 DEF vars, IInv, StartTypes
  <2> QED
    BY <2>1, <2>2, <2>3, <2>4, <2>5, <2>6
<1> QED
  BY <1>1 DEF IInv, StartTypes, TurnInv, AddressInv, TurnOf, Others, RightHand, Clean, Right, S

(* Discovery leaves with an address for every side or not at all.          *)
LEMMA DiscoveryHolds ==
  ASSUME IInv, Scan \/ Probe \/ Resolve
  PROVE  IInv'
<1>1. UNCHANGED <<at, turn, todo, hand, stateSub, subs, connected>>
      /\ main \in {"scan", "probe"}
  BY DEF Scan, Probe, Resolve, netVars, handVars
<1>2. main' \in {"probe", "connect", "down"}
  BY DEF Scan, Probe, Resolve
<1>3. probing' \subseteq Addresses /\ found' \in [Sides -> Addresses \cup {None}]
  <2>1. CASE Scan
    BY <2>1 DEF Scan, IInv, StartTypes
  <2>2. CASE Probe
    <3>1. PICK a \in probing : \/ UNCHANGED found
                               \/ found' = [s \in Sides |-> IF s = Handedness[at[a]] THEN a ELSE found[s]]
      BY <2>2 DEF Probe
    <3>2. probing' \subseteq Addresses
      BY <2>2 DEF Probe, IInv, StartTypes
    <3>3. a \in Addresses
      BY DEF IInv, StartTypes
    <3> QED
      BY <3>1, <3>2, <3>3 DEF IInv, StartTypes
  <2>3. CASE Resolve
    BY <2>3 DEF Resolve, IInv, StartTypes
  <2> QED
    BY <2>1, <2>2, <2>3
<1>4. /\ address' \in [Sides -> Addresses \cup {None}]
      /\ main' = "connect" => \A s \in Sides : address'[s] \in Addresses
  <2>1. CASE Scan
    BY <2>1 DEF Scan, Unnamed, IInv, StartTypes
  <2>2. CASE Probe
    BY <2>2 DEF Probe, IInv, StartTypes
  <2>3. CASE Resolve
    BY <2>3 DEF Resolve, Unnamed, IInv, StartTypes
  <2> QED
    BY <2>1, <2>2, <2>3
<1> QED
  BY <1>1, <1>2, <1>3, <1>4
  DEF IInv, StartTypes, TurnInv, AddressInv, TurnOf, Others, RightHand, Clean, Right, S

(* What a step does to the side whose turn it is does not reach the others.*)
LEMMA OneSideHolds ==
  ASSUME IInv, main \notin {"serve", "down", "scan", "probe"},
         UNCHANGED <<at, turn, address, probing, found>>,
         StartTypes', main' \notin {"serve", "scan", "probe", "connect"},
         \A s \in Sides \ {S} : /\ hand'[s] = hand[s] /\ stateSub'[s] = stateSub[s]
                                /\ subs'[s] = subs[s] /\ connected'[s] = connected[s],
         TurnOf', connected'[S] => Right(S)'
  PROVE  IInv'
<1>1. S \in Sides /\ turn \in 1 .. Len(Wanted) /\ S = Wanted[turn] /\ S' = S
  BY SIsASide DEF S
<1>2. \A j \in DOMAIN Wanted : j # turn => Wanted[j] \in Sides \ {S}
  BY <1>1, WantedSides
<1>3. TurnInv' /\ AddressInv'
  BY <1>1 DEF TurnInv, AddressInv, IInv
<1>4. Others'
  BY <1>1, <1>2, WantedSides DEF Others, Clean, IInv
<1>5. RightHand'
  BY <1>1 DEF RightHand, Right, IInv
<1> QED
  BY <1>3, <1>4, <1>5 DEF IInv

LEMMA ConnectHolds ==
  ASSUME IInv, Connect
  PROVE  IInv'
<1>1. S \in Sides /\ turn \in 1 .. Len(Wanted) /\ main = "connect"
  BY SIsASide DEF Connect
<1>2. S' = S /\ UNCHANGED <<at, turn, address, probing, found, todo, stateSub, subs, connected>>
  BY DEF Connect, netVars, findVars, S
<1>3. address[S] \in Addresses /\ Clean(S)
  BY <1>1 DEF IInv, AddressInv, TurnOf
<1>4. \/ main' = "release" /\ UNCHANGED hand
      \/ /\ hand' = [hand EXCEPT ![S] = at[address[S]]]
         /\ at[address[S]] \in Devices /\ main' = "identify"
  BY <1>1, <1>3 DEF Connect, IInv, StartTypes
<1>5. StartTypes'
  BY <1>1, <1>2, <1>4 DEF IInv, StartTypes
<1>6. TurnOf' /\ ~ connected'[S]
  BY <1>1, <1>2, <1>3, <1>4 DEF TurnOf, Clean, IInv, StartTypes
<1> QED
  BY <1>1, <1>2, <1>4, <1>5, <1>6, OneSideHolds DEF IInv, StartTypes

LEMMA IdentifyHolds ==
  ASSUME IInv, Identify
  PROVE  IInv'
<1>1. S \in Sides /\ turn \in 1 .. Len(Wanted) /\ main = "identify"
  BY SIsASide DEF Identify
<1>2. S' = S /\ UNCHANGED <<at, turn, address, probing, found, todo, stateSub, subs, connected>>
  BY DEF Identify, netVars, findVars, S
<1>3. hand[S] \in Devices /\ ~ connected[S]
  BY <1>1 DEF IInv, TurnOf
<1>4. \/ Handedness[hand[S]] = S /\ main' = "state" /\ UNCHANGED hand
      \/ main' = "release" /\ (hand' = [hand EXCEPT ![S] = None] \/ UNCHANGED hand)
  BY DEF Identify
<1>5. StartTypes'
  BY <1>1, <1>2, <1>4 DEF IInv, StartTypes
<1>6. TurnOf' /\ ~ connected'[S]
  BY <1>1, <1>2, <1>3, <1>4 DEF TurnOf, Right
<1> QED
  BY <1>1, <1>2, <1>4, <1>5, <1>6, OneSideHolds DEF IInv, StartTypes

(* The subscriptions; a tip that fails may end connect().                  *)
LEMMA SubscribeHolds ==
  ASSUME IInv, SubscribeState \/ SubscribeFinger
  PROVE  IInv'
<1>1. S \in Sides /\ turn \in 1 .. Len(Wanted) /\ main \in {"state", "fingers"}
  BY SIsASide DEF SubscribeState, SubscribeFinger
<1>2. S' = S /\ UNCHANGED <<at, turn, address, probing, found, hand, connected>>
  BY DEF SubscribeState, SubscribeFinger, netVars, findVars, S
<1>3. hand[S] \in Devices /\ ~ connected[S] /\ Right(S)
  BY <1>1 DEF IInv, TurnOf
<1>4. main' \in {"fingers", "release"}
  BY DEF SubscribeState, SubscribeFinger
<1>5. /\ stateSub' \in [Sides -> BOOLEAN]
      /\ \A s \in Sides \ {S} : stateSub'[s] = stateSub[s]
  BY <1>1 DEF SubscribeState, SubscribeFinger, IInv, StartTypes
<1>6. /\ subs' \in [Sides -> SUBSET Fingers]
      /\ \A s \in Sides \ {S} : subs'[s] = subs[s]
  <2>1. CASE SubscribeState
    BY <2>1 DEF SubscribeState, IInv, StartTypes
  <2>2. CASE SubscribeFinger
    <3>1. PICK f \in todo : subs' = [subs EXCEPT ![S] = @ \cup {f}] \/ UNCHANGED subs
      BY <2>2 DEF SubscribeFinger
    <3>2. f \in Fingers
      BY DEF IInv, StartTypes
    <3> QED
      BY <1>1, <3>1, <3>2 DEF IInv, StartTypes
  <2> QED
    BY <2>1, <2>2
<1>7. todo' \subseteq Fingers
  <2>1. CASE SubscribeState
    BY <1>3, <2>1, SensorsAssumption DEF SubscribeState, IInv, StartTypes
  <2>2. CASE SubscribeFinger
    BY <2>2 DEF SubscribeFinger, IInv, StartTypes
  <2> QED
    BY <2>1, <2>2
<1>8. StartTypes'
  BY <1>1, <1>2, <1>4, <1>5, <1>6, <1>7 DEF IInv, StartTypes
<1>9. TurnOf' /\ ~ connected'[S]
  BY <1>1, <1>2, <1>3, <1>4 DEF TurnOf, Right
<1> QED
  BY <1>1, <1>2, <1>4, <1>5, <1>6, <1>8, <1>9, OneSideHolds

LEMMA ConnectedHolds ==
  ASSUME IInv, Connected
  PROVE  IInv'
<1>1. S \in Sides /\ turn \in 1 .. Len(Wanted) /\ main = "fingers"
  BY SIsASide DEF Connected
<1>2. /\ S' = S /\ UNCHANGED <<at, turn, address, probing, found, todo, hand, stateSub, subs>>
      /\ connected' = [connected EXCEPT ![S] = TRUE] /\ main' = "loop"
  BY DEF Connected, netVars, findVars, S
<1>3. Right(S)
  BY <1>1 DEF IInv, TurnOf
<1>4. StartTypes'
  BY <1>1, <1>2 DEF IInv, StartTypes
<1>5. TurnOf' /\ Right(S)'
  BY <1>1, <1>2, <1>3 DEF TurnOf, Right, IInv, StartTypes
<1> QED
  BY <1>1, <1>2, <1>4, <1>5, OneSideHolds DEF IInv, StartTypes

(* The turn passes on when its side is served or clean.                    *)
LEMMA NextTurnHolds ==
  ASSUME IInv, main \in {"loop", "release"}, NextTurn, StartTypes',
         UNCHANGED <<at, address, probing, found>>,
         \A s \in Sides \ {S} : /\ hand'[s] = hand[s] /\ stateSub'[s] = stateSub[s]
                                /\ subs'[s] = subs[s] /\ connected'[s] = connected[s],
         (connected'[S] /\ hand'[S] \in Devices /\ Handedness[hand'[S]] = S)
           \/ (hand'[S] = None /\ ~ stateSub'[S] /\ subs'[S] = {} /\ ~ connected'[S])
  PROVE  IInv'
<1>1. S \in Sides /\ turn \in 1 .. Len(Wanted) /\ S = Wanted[turn] /\ Len(Wanted) \in Nat
  BY SIsASide, WantedSides DEF S
<1>2. \A j \in 1 .. Len(Wanted) : j # turn => Wanted[j] \in Sides \ {S}
  BY <1>1, WantedSides
<1>3. /\ turn' = turn + 1
      /\ main' = IF turn < Len(Wanted) THEN "connect"
                 ELSE IF \E s \in Sides : connected'[s] THEN "serve" ELSE "down"
  BY DEF NextTurn
<1>4. TurnInv'
  BY <1>1, <1>3 DEF TurnInv
<1>5. AddressInv'
  BY DEF AddressInv, IInv
<1>6. \A j \in 1 .. Len(Wanted) :
        /\ j > turn => (Clean(Wanted[j]))'
        /\ j < turn => (connected[Wanted[j]] \/ Clean(Wanted[j]))'
  BY <1>1, <1>2, WantedSides DEF Others, Clean, IInv
<1>7. \A j \in 1 .. Len(Wanted) :
        j = turn => (connected[Wanted[j]] \/ Clean(Wanted[j]))'
  BY <1>1 DEF Clean
<1>8. Others'
  <2> SUFFICES ASSUME NEW j \in 1 .. Len(Wanted)
               PROVE  /\ j > turn' => (Clean(Wanted[j]))'
                      /\ j < turn' => (connected[Wanted[j]] \/ Clean(Wanted[j]))'
    BY WantedSides DEF Others
  <2>1. turn' = turn + 1
    BY <1>3
  <2>2. CASE j > turn'
    BY <1>1, <1>6, <2>1, <2>2
  <2>3. CASE j < turn'
    BY <1>1, <1>6, <1>7, <2>1, <2>3
  <2> QED
    BY <2>2, <2>3
<1>9. TurnOf'
  <2>1. CASE turn < Len(Wanted)
    <3>1. main' = "connect" /\ S' = Wanted[turn + 1] /\ turn + 1 \in 1 .. Len(Wanted)
      BY <1>1, <1>3, <2>1 DEF S
    <3>2. Clean(S)'
      BY <1>1, <1>6, <3>1 DEF Clean
    <3> QED
      BY <3>1, <3>2 DEF TurnOf
  <2>2. CASE ~ turn < Len(Wanted)
    BY <1>3, <2>2 DEF TurnOf
  <2> QED
    BY <2>1, <2>2
<1>10. RightHand'
  BY DEF RightHand, Right, IInv
<1> QED
  BY <1>4, <1>5, <1>8, <1>9, <1>10 DEF IInv

LEMMA StartLoopHolds ==
  ASSUME IInv, StartLoop
  PROVE  IInv'
<1>1. S \in Sides /\ turn \in 1 .. Len(Wanted) /\ main = "loop"
  BY SIsASide DEF StartLoop
<1>2. UNCHANGED <<at, address, probing, found, todo, hand, stateSub, subs, connected>>
  BY DEF StartLoop, netVars, findVars, handVars
<1>3. connected[S] /\ Right(S)
  BY <1>1 DEF IInv, TurnOf
<1>4. CASE NextTurn
  <2>1. turn' \in 1 .. Len(Wanted) + 1 /\ main' \in {"connect", "serve", "down"}
    BY <1>1, <1>4, WantedSides DEF NextTurn
  <2>2. StartTypes'
    BY <1>2, <2>1 DEF IInv, StartTypes
  <2> QED
    BY <1>1, <1>2, <1>3, <1>4, <2>2, NextTurnHolds DEF Right
<1>5. CASE main' = "release" /\ UNCHANGED turn
  <2>1. StartTypes' /\ TurnOf' /\ Right(S)'
    BY <1>2, <1>3, <1>5 DEF IInv, StartTypes, TurnOf, Right, S
  <2> QED
    BY <1>1, <1>2, <1>5, <2>1, OneSideHolds DEF Right
<1> QED
  BY <1>4, <1>5 DEF StartLoop

LEMMA ReleaseHolds ==
  ASSUME IInv, Release
  PROVE  IInv'
<1>1. S \in Sides /\ turn \in 1 .. Len(Wanted) /\ main = "release"
  BY SIsASide DEF Release
<1>2. /\ UNCHANGED <<at, address, probing, found>>
      /\ connected' = [connected EXCEPT ![S] = FALSE] /\ todo' = {}
  BY DEF Release, netVars, findVars
<1>3. CASE /\ subs' = [subs EXCEPT ![S] = {}]
           /\ stateSub' = [stateSub EXCEPT ![S] = FALSE]
           /\ hand' = [hand EXCEPT ![S] = None]
           /\ NextTurn
  <2>1. turn' \in 1 .. Len(Wanted) + 1 /\ main' \in {"connect", "serve", "down"}
    BY <1>1, <1>3, WantedSides DEF NextTurn
  <2>2. StartTypes'
    BY <1>1, <1>2, <1>3, <2>1 DEF IInv, StartTypes
  <2>3. /\ hand'[S] = None /\ ~ stateSub'[S] /\ subs'[S] = {} /\ ~ connected'[S]
        /\ \A s \in Sides \ {S} : /\ hand'[s] = hand[s] /\ stateSub'[s] = stateSub[s]
                                  /\ subs'[s] = subs[s] /\ connected'[s] = connected[s]
    BY <1>1, <1>2, <1>3 DEF IInv, StartTypes
  <2> QED
    BY <1>1, <1>2, <1>3, <2>2, <2>3, NextTurnHolds
<1>4. CASE /\ \E open \in SUBSET subs[S] : subs' = [subs EXCEPT ![S] = open]
           /\ main' = "down"
           /\ UNCHANGED <<turn, stateSub, hand>>
  <2>1. PICK open \in SUBSET subs[S] : subs' = [subs EXCEPT ![S] = open]
    BY <1>4
  <2>2. StartTypes'
    BY <1>1, <1>2, <1>4, <2>1 DEF IInv, StartTypes
  <2>3. /\ ~ connected'[S] /\ TurnOf'
        /\ \A s \in Sides \ {S} : subs'[s] = subs[s] /\ connected'[s] = connected[s]
    BY <1>1, <1>2, <1>4, <2>1 DEF IInv, StartTypes, TurnOf
  <2> QED
    BY <1>1, <1>2, <1>4, <2>2, <2>3, OneSideHolds
<1> QED
  BY <1>3, <1>4 DEF Release

(* The inductive invariant of the start of the hands.                      *)
LEMMA StepHolds == IInv /\ [Next]_vars => IInv'
BY OutsideHolds, DiscoveryHolds, ConnectHolds, IdentifyHolds, SubscribeHolds,
   ConnectedHolds, StartLoopHolds, ReleaseHolds DEF Next, StartHands

LEMMA InvariantHolds == Spec => []IInv
<1>1. IInv /\ [Next]_vars => IInv'
  BY StepHolds
<1> QED
  BY <1>1, InitHolds, PTL DEF Spec

(***************************************************************************)
(* hand_worker.py:64-84, 186-199: whatever addresses do between discovery  *)
(* and connection, a connected side has the hand of that side.             *)
(***************************************************************************)
THEOREM OwnHand == Spec => []RightHand
<1>1. IInv => RightHand
  BY DEF IInv
<1> QED
  BY <1>1, InvariantHolds, PTL

(***************************************************************************)
(* server.py:92-103, hand_worker.py:456-495: when the server starts to     *)
(* serve, a hand that could not be started is closed with everything that  *)
(* was opened for it, and one at least is there.                           *)
(***************************************************************************)
THEOREM CleanStart == Spec => []NothingLeftBehind
<1>1. IInv => NothingLeftBehind
  <2> SUFFICES ASSUME IInv, main = "serve", NEW s \in Sides, ~ connected[s]
               PROVE  (\E t \in Sides : connected[t]) /\ hand[s] = None
                      /\ ~ stateSub[s] /\ subs[s] = {}
    BY DEF IInv, TurnInv, NothingLeftBehind
  <2>1. PICK j \in 1 .. Len(Wanted) : s = Wanted[j]
    BY WantedSides
  <2>2. j < turn /\ \E t \in Sides : connected[t]
    BY WantedSides DEF IInv, TurnInv
  <2>3. Clean(s)
    BY <2>1, <2>2, WantedSides DEF IInv, Others
  <2> QED
    BY <2>2, <2>3 DEF Clean
<1> QED
  BY <1>1, InvariantHolds, PTL

-----------------------------------------------------------------------------
(* The frames.                                                             *)

(* A set of numbers that has one has a least one.                          *)
LEMMA Least ==
  ASSUME NEW X \in SUBSET Nat, X # {}
  PROVE  \E n \in X : \A m \in X : n <= m
<1> DEFINE R == OpToRel(<, Nat)
<1>1. IsWellFoundedOn(R, Nat)
  BY NatLessThanWellFounded
<1>2. PICK n \in X : \A m \in X : ~ (<<m, n>> \in R)
  <2> HIDE DEF R
  <2> QED
    BY <1>1, WFMin
<1>3. \A m \in X : ~ (m < n)
  <2> SUFFICES ASSUME NEW m \in X, m < n PROVE <<m, n>> \in R
    BY <1>2
  <2> QED
    BY DEF OpToRel
<1> HIDE DEF R
<1> QED
  BY <1>3

(* A set of numbers below a bound has a greatest one, which is its Max.    *)
LEMMA Greatest ==
  ASSUME NEW X \in SUBSET Nat, X # {}, NEW b \in Nat, \A n \in X : n <= b
  PROVE  Max(X) \in X /\ \A n \in X : n <= Max(X)
<1> DEFINE above == {m \in Nat : \A n \in X : n <= m}
<1>1. PICK m \in above : \A k \in above : m <= k
  <2>1. above \in SUBSET Nat /\ b \in above
    OBVIOUS
  <2> HIDE DEF above
  <2> QED
    BY <2>1, Least
<1>2. m \in X
  <2> SUFFICES ASSUME m \notin X PROVE FALSE
    OBVIOUS
  <2>1. m \in Nat /\ \A n \in X : n <= m - 1
    OBVIOUS
  <2>2. m # 0
    <3>1. PICK n \in X : TRUE
      OBVIOUS
    <3> QED
      BY <2>1, <3>1
  <2>3. m - 1 \in above
    BY <2>1, <2>2
  <2> QED
    BY <1>1, <2>1, <2>3
<1>3. \A n \in X : n <= m
  OBVIOUS
<1>4. \E x \in X : \A y \in X : x >= y
  BY <1>2, <1>3
<1>5. Max(X) \in X /\ \A n \in X : Max(X) >= n
  BY <1>4 DEF Max
<1> QED
  BY <1>5

LEMMA MaxOfTwo ==
  ASSUME NEW x \in Nat, NEW y \in Nat
  PROVE  Max({x, y}) = IF x < y THEN y ELSE x
<1>1. \A m \in {x, y} : (\A n \in {x, y} : m >= n) => m = IF x < y THEN y ELSE x
  OBVIOUS
<1>2. \E m \in {x, y} : \A n \in {x, y} : m >= n
  OBVIOUS
<1> QED
  BY <1>1, <1>2 DEF Max

LEMMA MinOfTwo ==
  ASSUME NEW x \in Nat, NEW y \in Nat
  PROVE  Min({x, y}) = IF x < y THEN x ELSE y
<1>1. \A m \in {x, y} : (\A n \in {x, y} : m <= n) => m = IF x < y THEN x ELSE y
  OBVIOUS
<1>2. \E m \in {x, y} : \A n \in {x, y} : m <= n
  OBVIOUS
<1> QED
  BY <1>1, <1>2 DEF Min

(* The cells of n rows of d cells each.                                    *)
LEMMA RowBelow ==
  ASSUME NEW d \in Nat, NEW n \in Nat, NEW i \in 0 .. n - 1, NEW r \in 0 .. d - 1
  PROVE  i * d + r \in 0 .. n * d - 1 /\ i * d \in Nat /\ n * d \in Nat
<1>1. n * d = i * d + (n - i) * d
  OBVIOUS
<1>2. (n - i) * d >= d
  OBVIOUS
<1>3. i * d \in Nat /\ n * d \in Nat
  OBVIOUS
<1> QED
  BY <1>1, <1>2, <1>3

LEMMA RowOf ==
  ASSUME NEW d \in Nat, NEW n \in Nat, NEW a \in 0 .. n * d - 1
  PROVE  a \div d \in 0 .. n - 1 /\ a % d \in 0 .. d - 1
<1>1. d # 0
  OBVIOUS
<1>2. a = d * (a \div d) + (a % d) /\ a % d \in 0 .. d - 1 /\ a \div d \in Nat
  BY <1>1
<1>3. a \div d < n
  <2> SUFFICES ASSUME a \div d >= n PROVE FALSE
    BY <1>2
  <2>1. d * (a \div d) >= d * n
    BY <1>2
  <2> QED
    BY <1>2, <2>1
<1> QED
  BY <1>2, <1>3

LEMMA RowAndPlace ==
  ASSUME NEW d \in Nat, NEW i \in Nat, NEW r \in 0 .. d - 1
  PROVE  (i * d + r) \div d = i /\ (i * d + r) % d = r
  OBVIOUS

-----------------------------------------------------------------------------
(* The layouts there are, of the sensors and of tactile.py.                *)
Encodings == {Official} \cup {info.layout : info \in Infos}

(* The field that carries the force.                                       *)
Fz(fields) == fields[CHOOSE i \in DOMAIN fields : fields[i].name = "fz"]

LEMMA TheFz ==
  ASSUME NEW fields, Scaled(fields)
  PROVE  /\ Fz(fields).scale \in Nat \ {0}
         /\ \A touch \in Touches : touch % Fz(fields).scale = 0
         /\ \A stride, required : FieldsValid(fields, stride, required) =>
              Fz(fields).offset \in 0 .. stride - 1
<1>1. \E i \in DOMAIN fields : fields[i].name = "fz"
  BY DEF Scaled, Names
<1> DEFINE k == CHOOSE i \in DOMAIN fields : fields[i].name = "fz"
<1>2. k \in DOMAIN fields /\ fields[k].name = "fz"
  BY <1>1
<1>3. Fz(fields) = fields[k]
  BY DEF Fz
<1> HIDE DEF k
<1> QED
  BY <1>2, <1>3 DEF Scaled, FieldsValid

(* A cell as a sensor writes it: numbers, with the touch in its fz.        *)
LEMMA CellsHold ==
  ASSUME NEW fields, Scaled(fields), NEW stride \in Nat, NEW touch \in Touches
  PROVE  /\ Cells(fields, stride, touch) \in [1 .. stride -> 0 .. touch + HapticScale]
         /\ Fz(fields).offset \in 0 .. stride - 1 =>
              Cells(fields, stride, touch)[Fz(fields).offset + 1] * Fz(fields).scale = touch
<1> DEFINE k == Fz(fields).scale
<1>1. touch \in Nat /\ HapticScale \in Nat
  BY SensorsAssumption, TactileAssumption
<1>2. k \in Nat \ {0} /\ touch % k = 0
  BY TheFz
<1>3. Cells(fields, stride, touch) =
        [c \in 1 .. stride |->
           IF c = Fz(fields).offset + 1 THEN touch \div k ELSE HapticScale]
  BY DEF Cells, Fz
<1> HIDE DEF k
<1>4. touch = k * (touch \div k) + (touch % k) /\ touch \div k \in Nat
  BY <1>1, <1>2
<1>5. (touch \div k) * k = touch
  BY <1>1, <1>2, <1>4
<1>6. touch \div k \in 0 .. touch + HapticScale /\ HapticScale \in 0 .. touch + HapticScale
  <2>1. touch \div k <= k * (touch \div k)
    BY <1>2, <1>4
  <2>2. k * (touch \div k) = touch
    BY <1>1, <1>2, <1>4
  <2>3. touch \div k <= touch
    BY <2>1, <2>2
  <2> QED
    BY <1>1, <1>4, <2>3
<1>7. Cells(fields, stride, touch) \in [1 .. stride -> 0 .. touch + HapticScale]
  BY <1>3, <1>6
<1>8. ASSUME Fz(fields).offset \in 0 .. stride - 1
      PROVE  Cells(fields, stride, touch)[Fz(fields).offset + 1] * k = touch
  <2>1. Fz(fields).offset + 1 \in 1 .. stride
    BY <1>8
  <2> QED
    BY <2>1, <1>3, <1>5
<1> QED
  BY <1>7, <1>8 DEF k

(* A frame as a sensor writes it.                                          *)
LEMMA WrittenHolds ==
  ASSUME NEW enc \in Encodings, NEW touch \in Touches
  PROVE  /\ PointBytes(enc) \in Nat
         /\ Written(enc, touch) \in Seq(0 .. touch + HapticScale)
         /\ Len(Written(enc, touch)) = PointBytes(enc) + enc.aggregateStride
         /\ LayoutValid(enc) =>
              /\ \A base \in Bases(enc) :
                   Read(Written(enc, touch), base, enc.pointFields, "fz") = touch
              /\ Read(Written(enc, touch), PointBytes(enc), enc.aggregateFields, "fz") = touch
<1>1. /\ enc.points \in Nat /\ enc.pointStride \in Nat /\ enc.aggregateStride \in Nat
      /\ Scaled(enc.pointFields) /\ Scaled(enc.aggregateFields)
  BY FrameAssumption DEF Encodings
<1> DEFINE n == enc.points
           d == enc.pointStride
           V == 0 .. touch + HapticScale
           row == Cells(enc.pointFields, d, touch)
           end == Cells(enc.aggregateFields, enc.aggregateStride, touch)
           points == [p \in 1 .. n |-> row]
           cells == [c \in 1 .. n * d |-> points[((c - 1) \div d) + 1][((c - 1) % d) + 1]]
           pz == Fz(enc.pointFields)
           az == Fz(enc.aggregateFields)
<1>2. row \in [1 .. d -> V] /\ end \in [1 .. enc.aggregateStride -> V]
  BY <1>1, CellsHold
<1>3. Written(enc, touch) = cells \o end /\ PointBytes(enc) = n * d
  BY DEF Written, PointBytes
<1>4. n * d \in Nat /\ n \in Nat /\ d \in Nat
  BY <1>1
<1> HIDE DEF row, end
<1>5. \A c \in 1 .. n * d : /\ ((c - 1) \div d) + 1 \in 1 .. n
                            /\ ((c - 1) % d) + 1 \in 1 .. d
  <2> HIDE DEF n, d
  <2> TAKE c \in 1 .. n * d
  <2>1. c - 1 \in 0 .. n * d - 1
    BY <1>4
  <2> DEFINE a == c - 1
  <2> HIDE DEF a
  <2>2. a \div d \in 0 .. n - 1 /\ a % d \in 0 .. d - 1
    BY <1>4, <2>1, RowOf DEF a
  <2>3. (a \div d) + 1 \in 1 .. n /\ (a % d) + 1 \in 1 .. d
    BY <1>4, <2>2
  <2> QED
    BY <2>3 DEF a
<1>6. cells \in [1 .. n * d -> V]
  <2>1. \A c \in 1 .. n * d :
           points[((c - 1) \div d) + 1][((c - 1) % d) + 1] = row[((c - 1) % d) + 1]
    BY <1>5
  <2>2. \A c \in 1 .. n * d : row[((c - 1) % d) + 1] \in V
    BY <1>2, <1>5
  <2> QED
    BY <2>1, <2>2
<1>7. \A i \in 0 .. n - 1, r \in 0 .. d - 1 :
        i * d + r + 1 \in 1 .. n * d /\ cells[i * d + r + 1] = row[r + 1]
  <2> TAKE i \in 0 .. n - 1, r \in 0 .. d - 1
  <2>1. i * d + r \in 0 .. n * d - 1
    BY <1>4, RowBelow
  <2> DEFINE a == i * d + r
  <2>2. a \div d = i /\ a % d = r
    <3> HIDE DEF d, n
    <3>1. i \in Nat /\ d \in Nat
      BY <1>4
    <3> QED
      BY <3>1, RowAndPlace
  <2> HIDE DEF a
  <2>3. a \in 0 .. n * d - 1
    BY <2>1 DEF a
  <2>4. a + 1 \in 1 .. n * d /\ (a + 1) - 1 = a
    BY <1>4, <2>3
  <2>5. cells[a + 1] = points[i + 1][r + 1]
    BY <2>2, <2>4
  <2>6. points[i + 1] = row
    BY <1>4
  <2> QED
    BY <2>4, <2>5, <2>6 DEF a
<1> HIDE DEF cells, points
<1>8. /\ cells \in Seq(V) /\ Len(cells) = n * d
      /\ end \in Seq(V) /\ Len(end) = enc.aggregateStride
  <2> DEFINE m == n * d
             e == enc.aggregateStride
  <2>1. cells \in [1 .. m -> V] /\ end \in [1 .. e -> V] /\ m \in Nat /\ e \in Nat
    BY <1>1, <1>2, <1>4, <1>6
  <2> HIDE DEF m, e, V
  <2>2. cells \in Seq(V) /\ Len(cells) = m /\ end \in Seq(V) /\ Len(end) = e
    BY <2>1
  <2> QED
    BY <2>2 DEF m, e
<1>9. /\ cells \o end \in Seq(V) /\ Len(cells \o end) = n * d + enc.aggregateStride
      /\ \A c \in 1 .. n * d : (cells \o end)[c] = cells[c]
      /\ \A c \in 1 .. enc.aggregateStride : (cells \o end)[n * d + c] = end[c]
  <2> HIDE DEF n, d, V
  <2> QED
    BY <1>1, <1>4, <1>8
<1>10. ASSUME LayoutValid(enc)
       PROVE  /\ \A base \in Bases(enc) :
                   Read(cells \o end, base, enc.pointFields, "fz") = touch
              /\ Read(cells \o end, n * d, enc.aggregateFields, "fz") = touch
  <2>1. pz.offset \in 0 .. d - 1 /\ az.offset \in 0 .. enc.aggregateStride - 1
    BY <1>1, <1>10, TheFz DEF LayoutValid
  <2>2. row[pz.offset + 1] * pz.scale = touch /\ end[az.offset + 1] * az.scale = touch
    BY <1>1, <2>1, CellsHold DEF row, end
  <2>3. \A base \in Bases(enc) :
           Read(cells \o end, base, enc.pointFields, "fz") = touch
    <3> TAKE base \in Bases(enc)
    <3>1. PICK i \in 0 .. n - 1 : base = i * d
      BY DEF Bases
    <3>2. Read(cells \o end, base, enc.pointFields, "fz")
            = (cells \o end)[i * d + pz.offset + 1] * pz.scale
      BY <3>1 DEF Read, Fz
    <3>3. /\ i * d + pz.offset + 1 \in 1 .. n * d
          /\ cells[i * d + pz.offset + 1] = row[pz.offset + 1]
      BY <1>7, <2>1
    <3>4. (cells \o end)[i * d + pz.offset + 1] = row[pz.offset + 1]
      BY <1>9, <3>3
    <3> QED
      BY <2>2, <3>2, <3>4
  <2>4. Read(cells \o end, n * d, enc.aggregateFields, "fz") = touch
    <3>1. Read(cells \o end, n * d, enc.aggregateFields, "fz")
            = (cells \o end)[n * d + az.offset + 1] * az.scale
      BY DEF Read, Fz
    <3>2. az.offset + 1 \in 1 .. enc.aggregateStride
          /\ n * d + az.offset + 1 = n * d + (az.offset + 1)
      BY <1>1, <1>4, <2>1
    <3>3. (cells \o end)[n * d + (az.offset + 1)] = end[az.offset + 1]
      BY <1>9, <3>2
    <3> QED
      BY <2>2, <3>1, <3>2, <3>3
  <2> QED
    BY <2>3, <2>4
<1> QED
  BY <1>3, <1>4, <1>9, <1>10

(* Any frame that fits gives a peak and an intensity, whatever wrote it.   *)
LEMMA DecodedIsBounded ==
  ASSUME NEW enc \in Encodings, LayoutValid(enc), NEW b \in Nat,
         NEW data \in Seq(0 .. b), Decodable(data, enc)
  PROVE  Peak(data, enc) \in Nat /\ Haptic(data, enc) \in 0 .. HapticScale
<1>1. /\ enc.points \in Nat \ {0} /\ enc.pointStride \in Nat /\ enc.aggregateStride \in Nat
      /\ Scaled(enc.pointFields) /\ Scaled(enc.aggregateFields)
  BY FrameAssumption DEF Encodings, LayoutValid
<1> DEFINE n == enc.points
           d == enc.pointStride
           pz == Fz(enc.pointFields)
           az == Fz(enc.aggregateFields)
           forces == {Magnitude(Read(data, base, enc.pointFields, "fz")) : base \in Bases(enc)}
           aggregate == Magnitude(Read(data, PointBytes(enc), enc.aggregateFields, "fz"))
<1>2. /\ pz.scale \in Nat \ {0} /\ pz.offset \in 0 .. d - 1
      /\ az.scale \in Nat \ {0} /\ az.offset \in 0 .. enc.aggregateStride - 1
  BY <1>1, TheFz DEF LayoutValid
<1>3. /\ PointBytes(enc) = n * d /\ n * d \in Nat
      /\ Len(data) = n * d + enc.aggregateStride
  BY <1>1 DEF Decodable, PointBytes
<1>4. \A c \in 1 .. n * d + enc.aggregateStride : data[c] \in 0 .. b
  <2>1. \A c \in 1 .. Len(data) : data[c] \in 0 .. b
    BY ElementOfSeq
  <2> QED
    BY <1>3, <2>1
<1>5. \A x \in 0 .. b, k \in Nat : x * k \in 0 .. b * k /\ Magnitude(x * k) = x * k
  <2> TAKE x \in 0 .. b, k \in Nat
  <2>1. x * k \in Nat /\ b * k \in Nat /\ x * k <= b * k
    OBVIOUS
  <2> QED
    BY <2>1 DEF Magnitude
<1>6. \A f \in forces : f \in 0 .. b * pz.scale
  <2> SUFFICES ASSUME NEW base \in Bases(enc)
               PROVE  Magnitude(Read(data, base, enc.pointFields, "fz")) \in 0 .. b * pz.scale
    OBVIOUS
  <2>1. PICK i \in 0 .. n - 1 : base = i * d
    BY DEF Bases
  <2>2. base + pz.offset \in 0 .. n * d - 1
    BY <1>1, <1>2, <2>1, RowBelow
  <2>3. base + pz.offset + 1 \in 1 .. n * d + enc.aggregateStride
    <3> DEFINE m == n * d
               a == base + pz.offset
               e == enc.aggregateStride
    <3>1. a \in 0 .. m - 1 /\ m \in Nat /\ e \in Nat
      BY <1>1, <1>3, <2>2
    <3> HIDE DEF m, a, e
    <3>2. a + 1 \in 1 .. m + e
      BY <3>1
    <3> QED
      BY <3>2 DEF m, a, e
  <2>4. Read(data, base, enc.pointFields, "fz") = data[base + pz.offset + 1] * pz.scale
    BY DEF Read, Fz
  <2> QED
    BY <1>2, <1>4, <1>5, <2>3, <2>4
<1>7. Peak(data, enc) = Max(forces)
  BY DEF Peak
<1>8. Peak(data, enc) \in Nat
  <2>1. 0 \in 0 .. n - 1
    BY <1>1
  <2>2. forces # {}
    BY <2>1 DEF Bases
  <2>3. b * pz.scale \in Nat
    BY <1>2
  <2> HIDE DEF forces
  <2>4. forces \in SUBSET Nat /\ \A f \in forces : f <= b * pz.scale
    BY <1>6, <2>3
  <2> QED
    BY <1>7, <2>2, <2>3, <2>4, Greatest
<1>9. aggregate \in Nat
  <2>1. n * d + az.offset + 1 \in 1 .. n * d + enc.aggregateStride
    <3> DEFINE m == n * d
    <3>1. az.offset \in 0 .. enc.aggregateStride - 1 /\ m \in Nat
      BY <1>2, <1>3
    <3> HIDE DEF m, az
    <3>2. m + az.offset + 1 \in 1 .. m + enc.aggregateStride
      BY <1>1, <3>1
    <3> QED
      BY <3>2 DEF m
  <2>2. Read(data, PointBytes(enc), enc.aggregateFields, "fz")
          = data[n * d + az.offset + 1] * az.scale
    BY <1>3 DEF Read, Fz
  <2>3. b * az.scale \in Nat
    BY <1>2
  <2> QED
    BY <1>2, <1>4, <1>5, <2>1, <2>2, <2>3
<1>10. Haptic(data, enc) = Min({HapticScale, Max({Peak(data, enc), aggregate})})
  BY DEF Haptic
<1> HIDE DEF aggregate
<1>11. Max({Peak(data, enc), aggregate}) \in Nat
  BY <1>8, <1>9, MaxOfTwo
<1> DEFINE m == Max({Peak(data, enc), aggregate})
<1> HIDE DEF m
<1>12. m \in Nat /\ HapticScale \in Nat /\ Haptic(data, enc) = Min({HapticScale, m})
  BY <1>10, <1>11, TactileAssumption DEF m
<1> QED
  BY <1>8, <1>12, MinOfTwo

(* A frame in the layout it was written in gives back the touch.           *)
LEMMA DecodedIsWritten ==
  ASSUME NEW enc \in Encodings, LayoutValid(enc), NEW touch \in Touches
  PROVE  /\ Peak(Written(enc, touch), enc) = touch
         /\ Haptic(Written(enc, touch), enc) = Min({HapticScale, touch})
<1> DEFINE data == Written(enc, touch)
<1>1. /\ \A base \in Bases(enc) : Read(data, base, enc.pointFields, "fz") = touch
      /\ Read(data, PointBytes(enc), enc.aggregateFields, "fz") = touch
  BY WrittenHolds
<1> HIDE DEF data
<1>2. touch \in Nat /\ Magnitude(touch) = touch
  BY SensorsAssumption DEF Magnitude
<1>3. Bases(enc) # {}
  <2>1. 0 \in 0 .. enc.points - 1
    BY DEF LayoutValid
  <2> QED
    BY <2>1 DEF Bases
<1>4. {Magnitude(Read(data, base, enc.pointFields, "fz")) : base \in Bases(enc)} = {touch}
  BY <1>1, <1>2, <1>3
<1>5. Peak(data, enc) = touch
  <2>1. Max({touch, touch}) = touch /\ {touch, touch} = {touch}
    BY <1>2, MaxOfTwo
  <2> QED
    BY <1>4, <2>1 DEF Peak
<1>6. Haptic(data, enc) = Min({HapticScale, touch})
  <2>1. Max({touch, touch}) = touch
    BY <1>2, MaxOfTwo
  <2> QED
    BY <1>1, <1>2, <1>5, <2>1 DEF Haptic
<1> QED
  BY <1>5, <1>6 DEF data

(* A format is a layout tactile.py accepts; with a digest it is the layout *)
(* of a sensor that has this digest.                                       *)
LEMMA FormatHolds ==
  ASSUME NEW fmt \in Formats
  PROVE  /\ fmt.layout \in Encodings /\ LayoutValid(fmt.layout)
         /\ fmt.digest # NoDigest =>
              \E info \in Infos : info.digest = fmt.digest /\ info.layout = fmt.layout
<1>1. CASE fmt = Fallback
  BY <1>1, FrameAssumption DEF Fallback, Encodings
<1>2. ASSUME NEW info \in Infos, Understood(info), fmt = FormatOf(info)
      PROVE  /\ fmt.layout \in Encodings /\ LayoutValid(fmt.layout)
             /\ info.digest = fmt.digest /\ info.layout = fmt.layout
  <2>1. fmt.layout = info.layout /\ fmt.digest = info.digest
    BY <1>2, SensorsAssumption DEF FormatOf
  <2>2. LayoutValid(info.layout)
    BY <1>2, SensorsAssumption, FrameAssumption DEF Understood
  <2> QED
    BY <2>1, <2>2 DEF Encodings
<1> QED
  BY <1>1, <1>2 DEF Formats

(* A frame that names the layout of its format carries the touch.          *)
LEMMA SignedIsFaithful ==
  ASSUME NEW fmt \in Formats, NEW info \in Infos, NEW touch \in Touches,
         NEW digest \in {info.digest, NoDigest}, SameDigest(fmt, digest),
         fmt.digest # NoDigest, digest # NoDigest
  PROVE  /\ Peak(Written(info.layout, touch), fmt.layout) = touch
         /\ Haptic(Written(info.layout, touch), fmt.layout) = Min({HapticScale, touch})
<1>1. digest = info.digest /\ fmt.digest = info.digest
  BY DEF SameDigest
<1>2. PICK i \in Infos : i.digest = fmt.digest /\ i.layout = fmt.layout
  BY FormatHolds
<1>3. fmt.layout = info.layout
  BY <1>1, <1>2, FrameAssumption
<1>4. fmt.layout \in Encodings /\ LayoutValid(fmt.layout)
  BY FormatHolds
<1> QED
  BY <1>3, <1>4, DecodedIsWritten

-----------------------------------------------------------------------------
(* What is felt, and what it is felt with.                                 *)
Feelings ==
  [peak : Nat, power : 0 .. HapticScale, touch : Touches \cup {0}, signed : BOOLEAN]

FeelTypes ==
  /\ layout \in [Felt -> Infos]
  /\ ready \in [Sides -> BOOLEAN]
  /\ format \in [Sides -> [Fingers -> Formats]]
  /\ finger \in [Sides -> [Fingers -> Feelings]]
  /\ glove \in [Sides -> [Fingers -> Feelings]]

(* A subscription is one to a fingertip of the hand behind it.             *)
Subscribed ==
  /\ \A s \in Sides : \A f \in subs[s] : hand[s] \in Devices /\ f \in Tips[hand[s]]
  /\ main \in {"identify", "state"} => subs[S] = {}
  /\ main = "fingers" => todo \subseteq Tips[hand[S]]

(* The peak too is that of the touch, for a client that has no intensity.  *)
Real(felt) ==
  felt.signed => /\ felt.peak = felt.touch
                 /\ felt.power \in {Min({HapticScale, felt.touch}), Vibration(felt.touch)}

FeltReal == \A s \in Sides, f \in Fingers : Real(finger[s][f]) /\ Real(glove[s][f])

FeelInv == FeelTypes /\ Subscribed /\ FeltReal

LEMMA AFeel ==
  ASSUME NEW peak \in Nat, NEW power \in 0 .. HapticScale, NEW touch \in Touches \cup {0},
         NEW signed \in BOOLEAN
  PROVE  /\ Feel(peak, power, touch, signed) \in Feelings
         /\ Feel(peak, power, touch, signed).peak = peak
         /\ Feel(peak, power, touch, signed).power = power
         /\ Feel(peak, power, touch, signed).touch = touch
         /\ Feel(peak, power, touch, signed).signed = signed
BY DEF Feel, Feelings

LEMMA NothingFelt == Nothing \in Feelings /\ Real(Nothing)
<1>1. /\ Nothing \in Feelings /\ Nothing.peak = 0 /\ Nothing.power = 0
      /\ Nothing.touch = 0
  <2>1. 0 \in 0 .. HapticScale
    BY TactileAssumption
  <2>2. 0 \in Nat /\ 0 \in Touches \cup {0} /\ TRUE \in BOOLEAN
    OBVIOUS
  <2>3. Nothing = Feel(0, 0, 0, TRUE)
    BY DEF Nothing
  <2> QED
    BY <2>1, <2>2, <2>3, AFeel, Zenon
<1>2. Min({HapticScale, 0}) = 0
  BY TactileAssumption, MinOfTwo
<1> QED
  BY <1>1, <1>2 DEF Real

LEMMA VibrationIsBounded ==
  ASSUME NEW peak \in Nat
  PROVE  Vibration(peak) \in 0 .. HapticScale
<1>1. Min({HapticScale, peak}) \in 0 .. HapticScale
  BY TactileAssumption, MinOfTwo
<1> QED
  BY <1>1, TactileAssumption DEF Vibration

LEMMA FeelInitHolds == Init => FeelInv
<1> SUFFICES ASSUME Init PROVE FeelInv
  OBVIOUS
<1>1. Fallback \in Formats
  BY DEF Formats
<1>2. FeelTypes
  BY <1>1, NothingFelt DEF Init, FeelTypes, Everywhere
<1>3. Subscribed
  BY DEF Init, Subscribed, Everywhere
<1>4. FeltReal
  BY NothingFelt DEF Init, FeltReal, Everywhere
<1> QED
  BY <1>2, <1>3, <1>4 DEF FeelInv

(* Where nothing is felt and nothing opened, nothing of it changes.        *)
LEMMA SameFeelings ==
  ASSUME FeelInv, UNCHANGED <<format, finger, glove>>,
         layout' \in [Felt -> Infos], ready' \in [Sides -> BOOLEAN], Subscribed'
  PROVE  FeelInv'
BY DEF FeelInv, FeelTypes, FeltReal, Real

LEMMA OutsideFeels ==
  ASSUME IInv, FeelInv,
         Readdress \/ LayoutChanges \/ JointState \/ Scan \/ Probe \/ Resolve
           \/ UNCHANGED vars
  PROVE  FeelInv'
<1>1. /\ UNCHANGED <<turn, todo, hand, subs, format, finger, glove>>
      /\ UNCHANGED main \/ main' \in {"probe", "connect", "down"}
  BY DEF Readdress, LayoutChanges, JointState, Scan, Probe, Resolve, vars, findVars,
         handVars, feelVars
<1>2. Subscribed'
  BY <1>1 DEF FeelInv, Subscribed, S
<1>3. layout' \in [Felt -> Infos]
  <2>1. CASE LayoutChanges
    BY <2>1 DEF LayoutChanges, FeelInv, FeelTypes
  <2>2. CASE UNCHANGED layout
    BY <2>2 DEF FeelInv, FeelTypes
  <2> QED
    BY <2>1, <2>2 DEF Readdress, JointState, Scan, Probe, Resolve, vars, netVars
<1>4. ready' \in [Sides -> BOOLEAN]
  <2>1. CASE JointState
    BY <2>1 DEF JointState, FeelInv, FeelTypes
  <2>2. CASE UNCHANGED ready
    BY <2>2 DEF FeelInv, FeelTypes
  <2> QED
    BY <2>1, <2>2 DEF Readdress, LayoutChanges, Scan, Probe, Resolve, vars, handVars
<1> QED
  BY <1>1, <1>2, <1>3, <1>4, SameFeelings

(* The start of a side up to its subscriptions, and behind them.           *)
LEMMA StartFeels ==
  ASSUME IInv, IInv', FeelInv,
         Connect \/ Identify \/ SubscribeState \/ Connected \/ StartLoop
  PROVE  FeelInv'
<1>0. S \in Sides /\ turn \in 1 .. Len(Wanted)
  BY SIsASide DEF Connect, Identify, SubscribeState, Connected, StartLoop
<1>1. UNCHANGED <<layout, subs, ready, format, finger, glove>>
  BY DEF Connect, Identify, SubscribeState, Connected, StartLoop, netVars, handVars, feelVars
<1>2. CASE Connect \/ Identify
  <2>1. /\ S' = S /\ subs[S] = {} /\ main' \in {"identify", "state", "release"}
        /\ \A s \in Sides \ {S} : hand'[s] = hand[s]
    <3>1. CASE Connect
      BY <3>1, <1>0 DEF Connect, S, IInv, TurnOf, Clean, StartTypes
    <3>2. CASE Identify
      BY <3>2, <1>0 DEF Identify, S, FeelInv, Subscribed, IInv, StartTypes
    <3> QED
      BY <1>2, <3>1, <3>2
  <2>2. Subscribed'
    BY <1>0, <1>1, <2>1 DEF FeelInv, Subscribed
  <2> QED
    BY <1>1, <2>2, SameFeelings DEF FeelInv, FeelTypes
<1>3. CASE SubscribeState
  <2>1. /\ S' = S /\ UNCHANGED hand
        /\ (main' = "fingers" /\ todo' = Tips[hand[S]]) \/ main' = "release"
    BY <1>3 DEF SubscribeState, S
  <2>2. Subscribed'
    BY <1>1, <2>1 DEF FeelInv, Subscribed
  <2> QED
    BY <1>1, <2>2, SameFeelings DEF FeelInv, FeelTypes
<1>4. CASE Connected \/ StartLoop
  <2>1. UNCHANGED hand /\ main' \in {"loop", "connect", "serve", "down", "release"}
    BY <1>4 DEF Connected, StartLoop, NextTurn, handVars
  <2>2. Subscribed'
    BY <1>1, <2>1 DEF FeelInv, Subscribed
  <2> QED
    BY <1>1, <2>2, SameFeelings DEF FeelInv, FeelTypes
<1> QED
  BY <1>2, <1>3, <1>4

(* A fingertip is given the format of its hand, or the fallback.           *)
LEMMA FingerFeels ==
  ASSUME IInv, FeelInv, SubscribeFinger
  PROVE  FeelInv'
<1>1. S \in Sides /\ turn \in 1 .. Len(Wanted) /\ main = "fingers"
  BY SIsASide DEF SubscribeFinger
<1>2. S' = S /\ UNCHANGED <<layout, hand, ready, finger, glove>>
  BY DEF SubscribeFinger, netVars, feelVars, S
<1>3. hand[S] \in Devices
  BY <1>1 DEF IInv, TurnOf
<1>4. PICK f \in todo :
        \/ /\ \/ format' = [format EXCEPT ![S][f] = Fallback]
              \/ /\ Understood(layout[hand[S]])
                 /\ format' = [format EXCEPT ![S][f] = FormatOf(layout[hand[S]])]
           /\ todo' = todo \ {f}
           /\ subs' = [subs EXCEPT ![S] = @ \cup {f}] \/ UNCHANGED subs
           /\ UNCHANGED main
        \/ main' = "release" /\ UNCHANGED <<subs, format, todo>>
  BY DEF SubscribeFinger
<1>5. f \in Fingers /\ f \in Tips[hand[S]] /\ todo \subseteq Tips[hand[S]]
  BY <1>1 DEF IInv, StartTypes, FeelInv, Subscribed
<1>6. layout[hand[S]] \in Infos
  <2>1. hand[S] \in Felt
    BY <1>3, <1>5 DEF Felt
  <2> QED
    BY <2>1 DEF FeelInv, FeelTypes
<1>7. format' \in [Sides -> [Fingers -> Formats]]
  <2>1. Fallback \in Formats
    BY DEF Formats
  <2>2. Understood(layout[hand[S]]) => FormatOf(layout[hand[S]]) \in Formats
    BY <1>6 DEF Formats
  <2>3. \A fmt \in Formats :
           [format EXCEPT ![S][f] = fmt] \in [Sides -> [Fingers -> Formats]]
    <3> HIDE DEF S
    <3> QED
      BY <1>1, <1>5 DEF FeelInv, FeelTypes
  <2>4. format \in [Sides -> [Fingers -> Formats]]
    BY DEF FeelInv, FeelTypes
  <2> QED
    BY <1>4, <2>1, <2>2, <2>3, <2>4
<1>8. Subscribed'
  <2>1. \A s \in Sides : \A g \in subs'[s] : g \in subs[s] \/ (s = S /\ g = f)
    BY <1>1, <1>4 DEF IInv, StartTypes
  <2>2. \A s \in Sides : \A g \in subs'[s] : hand[s] \in Devices /\ g \in Tips[hand[s]]
    BY <1>3, <1>5, <2>1 DEF FeelInv, Subscribed
  <2>3. main' \in {"fingers", "release"} /\ todo' \subseteq Tips[hand[S]]
    BY <1>1, <1>4, <1>5
  <2> QED
    BY <1>2, <2>2, <2>3 DEF Subscribed
<1>9. FeltReal'
  BY <1>2 DEF FeelInv, FeltReal, Real
<1> QED
  BY <1>2, <1>7, <1>8, <1>9 DEF FeelInv, FeelTypes

LEMMA ReleaseFeels ==
  ASSUME IInv, FeelInv, Release
  PROVE  FeelInv'
<1>1. S \in Sides /\ turn \in 1 .. Len(Wanted)
  BY SIsASide DEF Release
<1>2. UNCHANGED <<layout, ready, format, finger, glove>>
      /\ main' \in {"connect", "serve", "down"}
  BY DEF Release, NextTurn, netVars, feelVars
<1>3. \A s \in Sides : /\ subs'[s] \subseteq subs[s]
                       /\ subs'[s] = {} \/ hand'[s] = hand[s]
  <2>1. CASE subs' = [subs EXCEPT ![S] = {}] /\ hand' = [hand EXCEPT ![S] = None]
    BY <1>1, <2>1 DEF IInv, StartTypes
  <2>2. ASSUME NEW open \in SUBSET subs[S], subs' = [subs EXCEPT ![S] = open], UNCHANGED hand
        PROVE  \A s \in Sides : subs'[s] \subseteq subs[s] /\ hand'[s] = hand[s]
    BY <1>1, <2>2 DEF IInv, StartTypes
  <2> QED
    BY <2>1, <2>2 DEF Release
<1>4. Subscribed'
  BY <1>2, <1>3 DEF FeelInv, Subscribed
<1> QED
  BY <1>2, <1>4, SameFeelings DEF FeelInv, FeelTypes

(* What a frame stores is that of the touch, or is not signed.             *)
LEMMA TouchFeels ==
  ASSUME IInv, FeelInv, TouchFrame
  PROVE  FeelInv'
<1>1. UNCHANGED <<layout, main, turn, todo, hand, subs, ready, format, glove>>
  BY DEF TouchFrame, netVars, findVars, handVars
<1> DEFINE Stores(s, f, touch, digest) ==
      LET data == Written(layout[hand[s]].layout, touch)
          fmt == format[s][f]
      IN  /\ SameDigest(fmt, digest)
          /\ Decodable(data, fmt.layout)
          /\ finger' = [finger EXCEPT ![s][f] =
               Feel(Peak(data, fmt.layout), Haptic(data, fmt.layout), touch,
                    fmt.digest # NoDigest /\ digest # NoDigest)]
<1>a. PICK s \in Sides : \E f \in subs[s], touch \in Touches :
        \E digest \in {layout[hand[s]].digest, NoDigest} : Stores(s, f, touch, digest)
  BY DEF TouchFrame
<1>b. PICK f \in subs[s], touch \in Touches :
        \E digest \in {layout[hand[s]].digest, NoDigest} : Stores(s, f, touch, digest)
  BY <1>a
<1>2. PICK digest \in {layout[hand[s]].digest, NoDigest} : Stores(s, f, touch, digest)
  BY <1>b
<1> DEFINE info == layout[hand[s]]
           fmt == format[s][f]
           data == Written(info.layout, touch)
           signed == fmt.digest # NoDigest /\ digest # NoDigest
           felt == Feel(Peak(data, fmt.layout), Haptic(data, fmt.layout), touch, signed)
<1>3. f \in Fingers /\ info \in Infos /\ fmt \in Formats
  <2>1. f \in Fingers /\ hand[s] \in Devices /\ f \in Tips[hand[s]]
    BY DEF IInv, StartTypes, FeelInv, Subscribed
  <2>2. hand[s] \in Felt
    BY <2>1 DEF Felt
  <2> QED
    BY <2>1, <2>2 DEF FeelInv, FeelTypes
<1>4. Peak(data, fmt.layout) \in Nat /\ Haptic(data, fmt.layout) \in 0 .. HapticScale
  <2>1. info.layout \in Encodings /\ fmt.layout \in Encodings /\ LayoutValid(fmt.layout)
    BY <1>3, FormatHolds DEF Encodings
  <2>2. data \in Seq(0 .. touch + HapticScale) /\ touch + HapticScale \in Nat
    BY <2>1, WrittenHolds, SensorsAssumption, TactileAssumption
  <2>3. Decodable(data, fmt.layout)
    BY <1>2
  <2> HIDE DEF data, fmt
  <2> QED
    BY <2>1, <2>2, <2>3, DecodedIsBounded
<1>5. signed => /\ Peak(data, fmt.layout) = touch
                /\ Haptic(data, fmt.layout) = Min({HapticScale, touch})
  BY <1>2, <1>3, SignedIsFaithful
<1>6. finger' = [finger EXCEPT ![s][f] = felt]
  BY <1>2
<1> HIDE DEF data, fmt, signed
<1>7. signed \in BOOLEAN
  BY DEF signed
<1>8. /\ felt \in Feelings /\ felt.peak = Peak(data, fmt.layout)
      /\ felt.power = Haptic(data, fmt.layout) /\ felt.touch = touch /\ felt.signed = signed
  BY <1>4, <1>7, AFeel
<1> HIDE DEF felt
<1>9. Real(felt)
  BY <1>5, <1>8 DEF Real
<1>10. finger' \in [Sides -> [Fingers -> Feelings]]
  BY <1>3, <1>6, <1>8 DEF FeelInv, FeelTypes
<1>11. \A t \in Sides, g \in Fingers : finger'[t][g] \in {felt, finger[t][g]}
  BY <1>3, <1>6 DEF FeelInv, FeelTypes
<1>12. FeltReal'
  <2> SUFFICES ASSUME NEW t \in Sides, NEW g \in Fingers
               PROVE  Real(finger'[t][g]) /\ Real(glove'[t][g])
    BY DEF FeltReal, Real
  <2>1. Real(finger[t][g]) /\ Real(glove[t][g])
    BY DEF FeelInv, FeltReal
  <2>2. glove'[t][g] = glove[t][g]
    BY <1>1
  <2> QED
    BY <1>9, <1>11, <2>1, <2>2
<1>13. Subscribed'
  BY <1>1 DEF FeelInv, Subscribed, S
<1> QED
  BY <1>1, <1>10, <1>12, <1>13 DEF FeelInv, FeelTypes

(* What is pushed keeps its touch.                                         *)
LEMMA PushFeels ==
  ASSUME IInv, FeelInv, PushTactile
  PROVE  FeelInv'
<1>1. UNCHANGED <<layout, main, turn, todo, hand, subs, ready, format, finger>>
  BY DEF PushTactile, netVars, findVars, handVars
<1> DEFINE Told(felt) == [felt EXCEPT !.power = Vibration(felt.peak)]
<1>2. PICK s \in Sides :
        \/ glove' = [glove EXCEPT ![s] = finger[s]]
        \/ glove' = [glove EXCEPT ![s] = [f \in Fingers |-> Told(finger[s][f])]]
  BY DEF PushTactile
<1>3. \A felt \in Feelings :
        /\ Told(felt) \in Feelings
        /\ Told(felt).peak = felt.peak /\ Told(felt).touch = felt.touch
        /\ Told(felt).power = Vibration(felt.peak)
        /\ Told(felt).signed = felt.signed
  <2> TAKE felt \in Feelings
  <2>1. Vibration(felt.peak) \in 0 .. HapticScale
    BY VibrationIsBounded DEF Feelings
  <2> QED
    BY <2>1 DEF Feelings
<1>4. \A felt \in Feelings : Real(felt) => Real(Told(felt))
  BY <1>3 DEF Real
<1> HIDE DEF Told
<1>5. \A f \in Fingers : finger[s][f] \in Feelings /\ Real(finger[s][f])
  BY DEF FeelInv, FeelTypes, FeltReal
<1>6. glove' \in [Sides -> [Fingers -> Feelings]]
  BY <1>2, <1>3, <1>5 DEF FeelInv, FeelTypes
<1>7. \A t \in Sides, f \in Fingers : Real(glove'[t][f])
  <2> TAKE t \in Sides, f \in Fingers
  <2>1. glove'[t][f] \in {glove[t][f], finger[s][f], Told(finger[s][f])}
    BY <1>2 DEF FeelInv, FeelTypes
  <2>2. Real(glove[t][f]) /\ Real(finger[s][f]) /\ Real(Told(finger[s][f]))
    BY <1>4, <1>5 DEF FeelInv, FeltReal
  <2> QED
    BY <2>1, <2>2
<1>8. FeltReal'
  <2>1. \A t \in Sides, f \in Fingers : Real(finger'[t][f])
    BY <1>1 DEF FeelInv, FeltReal
  <2> QED
    BY <1>7, <2>1 DEF FeltReal, Real
<1>9. Subscribed'
  BY <1>1 DEF FeelInv, Subscribed, S
<1> QED
  BY <1>1, <1>6, <1>8, <1>9 DEF FeelInv, FeelTypes

(* The inductive invariant of the way of a touch.                          *)
LEMMA FeelingHolds == Spec => [](IInv /\ FeelInv)
<1>1. Init => IInv /\ FeelInv
  BY InitHolds, FeelInitHolds
<1>2. IInv /\ FeelInv /\ [Next]_vars => (IInv /\ FeelInv)'
  <2>1. IInv /\ [Next]_vars => IInv'
    BY StepHolds
  <2> QED
    BY <2>1, OutsideFeels, StartFeels, FingerFeels, ReleaseFeels, TouchFeels, PushFeels
    DEF Next, StartHands
<1> QED
  BY <1>1, <1>2, PTL DEF Spec

(* Every variable keeps its type, whatever layouts the sensors change to.  *)
THEOREM TypeCorrect == Spec => []TypeOK
<1>1. IInv /\ FeelInv => TypeOK
  BY DEF IInv, StartTypes, FeelInv, FeelTypes, Feelings, TypeOK
<1> QED
  BY <1>1, FeelingHolds, PTL

(***************************************************************************)
(* hand_worker.py:304-337, tactile.py:216-264: when the hand names the     *)
(* layout of its frames, a client's glove is told what is felt, for every  *)
(* layout with the fields that are asked for and whenever it changes.      *)
(***************************************************************************)
THEOREM TouchReaches == Spec => []TouchIsReal
<1>1. FeelInv => TouchIsReal
  <2> SUFFICES ASSUME FeltReal, NEW s \in Sides, NEW f \in Fingers,
                      NEW felt \in {finger[s][f], glove[s][f]}, felt.signed
               PROVE  felt.power \in {Min({HapticScale, felt.touch}), Vibration(felt.touch)}
    BY DEF FeelInv, TouchIsReal
  <2>1. Real(felt)
    BY DEF FeltReal
  <2> QED
    BY <2>1 DEF Real
<1> QED
  BY <1>1, FeelingHolds, PTL

=============================================================================
