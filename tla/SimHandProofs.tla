---------------------------- MODULE SimHandProofs ----------------------------
(***************************************************************************)
(* The properties of SimHand hold for every protocol order, every order of *)
(* the model's actuators, every pose, every command and every speed limit. *)
(***************************************************************************)
EXTENDS SimHand, SequenceTheorems, TLAPS

(* The vectors a joint_cmd is given as are numbers by protocol position.   *)
Commanded == \E raw \in Vectors : SetJointTarget(raw, ByName(raw))

(* Before the sessions there is no command, no tick and no driven hand.    *)
BeforeService ==
  main \in Starting \/ (main \in Stopping /\ resume # "serve") =>
    command = NoPose /\ writer # "tick" /\ ctl = "off"

(* Shutdown knows what it interrupted.                                     *)
ResumeKnown == main \in Stopping => resume # None

IInv ==
  /\ TypeOK /\ BeforeService /\ ResumeKnown
  /\ DisarmedHolds /\ FollowsCommand /\ DrivenOnlyUnread

-----------------------------------------------------------------------------
(* Orders and vectors                                                      *)

(* There is a position for each name of an order, and only one.            *)
LEMMA PositionOfName ==
  ASSUME NEW order, NEW n \in NamesIn(order)
  PROVE  PositionOf(n, order) \in DOMAIN order /\ order[PositionOf(n, order)] = n
<1>1. PICK k \in DOMAIN order : order[k] = n
  BY DEF NamesIn
<1> QED
  BY <1>1 DEF PositionOf

LEMMA NameOfPosition ==
  ASSUME NEW order, Distinct(order), NEW k \in DOMAIN order
  PROVE  PositionOf(order[k], order) = k
<1>1. order[k] \in NamesIn(order)
  BY DEF NamesIn
<1>2. /\ PositionOf(order[k], order) \in DOMAIN order
      /\ order[PositionOf(order[k], order)] = order[k]
  BY <1>1, PositionOfName
<1> QED
  BY <1>2 DEF Distinct

(* The protocol's order has a name at each of its positions.               *)
LEMMA ProtocolPositions ==
  /\ NumJoints \in Nat \ {0}
  /\ DOMAIN ProtocolNames = 1 .. NumJoints
  /\ Joints # {}
  /\ \A n \in Joints : PositionOf(n, ProtocolNames) \in 1 .. NumJoints
<1>1. /\ ProtocolNames \in Seq(Joints) /\ ProtocolNames # <<>>
  BY SimAssumption
<1>2. NumJoints \in Nat /\ DOMAIN ProtocolNames = 1 .. NumJoints
  BY <1>1, LenProperties DEF NumJoints
<1>3. NumJoints # 0
  BY <1>1, EmptySeq DEF NumJoints
<1>4. ProtocolNames[1] \in Joints
  <2>1. 1 \in 1 .. NumJoints
    BY <1>2, <1>3
  <2> QED
    BY <1>1, <2>1, ElementOfSeq DEF NumJoints
<1>5. \A n \in Joints : PositionOf(n, ProtocolNames) \in DOMAIN ProtocolNames
  BY PositionOfName DEF Joints
<1> QED
  BY <1>2, <1>3, <1>4, <1>5

(* A vector and its values by name are the same thing.                     *)
LEMMA ByNameType ==
  ASSUME NEW v \in Vectors
  PROVE  ByName(v) \in [Joints -> Int]
BY ProtocolPositions DEF Vectors, ByName

LEMMA InOrderType ==
  ASSUME NEW p \in [Joints -> Int]
  PROVE  InProtocolOrder(p) \in Vectors
<1>1. \A i \in 1 .. NumJoints : ProtocolNames[i] \in Joints
  BY ProtocolPositions DEF Joints, NamesIn
<1> QED
  BY <1>1 DEF InProtocolOrder, Vectors

LEMMA NoPoseEmpty == DOMAIN NoPose = {}
<1>1. <<>> \in Seq(Int) /\ Len(<<>>) = 0
  BY EmptySeq
<1>2. DOMAIN <<>> = 1 .. 0
  BY <1>1, LenProperties
<1> QED
  BY <1>2 DEF NoPose

LEMMA VectorNotEmpty ==
  ASSUME NEW v \in Vectors
  PROVE  v # NoPose
<1>1. DOMAIN v = 1 .. NumJoints /\ 1 \in 1 .. NumJoints
  BY ProtocolPositions DEF Vectors
<1> QED
  BY <1>1, NoPoseEmpty

LEMMA PoseNotEmpty ==
  ASSUME NEW p \in [Joints -> Int]
  PROVE  p # NoPose
<1>1. DOMAIN p # {}
  BY ProtocolPositions
<1> QED
  BY <1>1, NoPoseEmpty

(* What the actuator of a joint is sent is the value of that joint.        *)
LEMMA ActuatorGetsItsJoint ==
  ASSUME actuators \in ActuatorOrders, NEW v \in Vectors
  PROVE  /\ ActuatorOrder(v) \in Vectors
         /\ \A a \in 1 .. NumJoints : ActuatorOrder(v)[a] = ByName(v)[actuators[a]]
<1>1. NamesMatch(ProtocolNames, actuators) /\ actuators \in Seq(Joints)
  BY SimAssumption
<1>2. Len(actuators) = NumJoints /\ DOMAIN actuators = 1 .. NumJoints
  BY <1>1, LenProperties DEF NamesMatch, NumJoints
<1>3. \A a \in 1 .. NumJoints : actuators[a] \in Joints
  BY <1>1, <1>2, ElementOfSeq
<1>4. ActuatorOrder(v) = [a \in 1 .. NumJoints |-> v[PositionOf(actuators[a], ProtocolNames)]]
  BY <1>2 DEF ActuatorOrder, Reordered, Permutation
<1>5. \A a \in 1 .. NumJoints : ByName(v)[actuators[a]] = v[PositionOf(actuators[a], ProtocolNames)]
  BY <1>3 DEF ByName
<1>6. \A a \in 1 .. NumJoints : v[PositionOf(actuators[a], ProtocolNames)] \in Int
  BY <1>3, ProtocolPositions DEF Vectors
<1> QED
  BY <1>4, <1>5, <1>6 DEF Vectors

(* A line of numbers for all joints is a vector.                           *)
LEMMA FiniteIsVector ==
  ASSUME NEW raw \in Commands, FiniteVector(raw, NumJoints)
  PROVE  raw \in Vectors
<1>1. raw \in Seq(Int \cup {NaN})
  BY SimAssumption
<1>2. raw \in [1 .. NumJoints -> Int \cup {NaN}]
  BY <1>1, LenProperties DEF FiniteVector
<1>3. \A i \in 1 .. NumJoints : raw[i] # NaN
  BY DEF FiniteVector
<1> QED
  BY <1>2, <1>3 DEF Vectors

-----------------------------------------------------------------------------
(* The smoother                                                            *)

(* The limited step of one joint stays in the integers and in the limit.   *)
LEMMA SlewBounded ==
  ASSUME NEW y \in Int, NEW x \in Int, NEW z \in Outputs(y, x)
  PROVE  z \in Int /\ z - y <= MaxStep /\ y - z <= MaxStep
<1>1. PICK w \in LowPass(y, x) : z = Slew(y, w)
  BY DEF Outputs
<1>2. w \in Int
  BY <1>1 DEF LowPass
<1> QED
  BY <1>1, <1>2, MaxStepAssumption DEF Slew

LEMMA StepBounded ==
  ASSUME NEW s, s \in [target : Vectors, filtered : Vectors], NEW t \in Stepped(s)
  PROVE  /\ t \in [target : Vectors, filtered : Vectors]
         /\ t.target = s.target
         /\ \A i \in 1 .. NumJoints :
              /\ t.filtered[i] - s.filtered[i] <= MaxStep
              /\ s.filtered[i] - t.filtered[i] <= MaxStep
<1>1. DOMAIN s.filtered = 1 .. NumJoints
  BY DEF Vectors
<1>2. PICK f : /\ t = [s EXCEPT !.filtered = f]
               /\ DOMAIN f = 1 .. NumJoints
               /\ f = [i \in 1 .. NumJoints |-> f[i]]
               /\ \A i \in 1 .. NumJoints : f[i] \in Outputs(s.filtered[i], s.target[i])
  BY <1>1 DEF Stepped
<1>3. \A i \in 1 .. NumJoints : s.filtered[i] \in Int /\ s.target[i] \in Int
  BY DEF Vectors
<1>4. \A i \in 1 .. NumJoints :
        /\ f[i] \in Int /\ f[i] - s.filtered[i] <= MaxStep
        /\ s.filtered[i] - f[i] <= MaxStep
  BY <1>2, <1>3, SlewBounded
<1>5. f \in Vectors
  BY <1>2, <1>4 DEF Vectors
<1> QED
  BY <1>2, <1>4, <1>5

-----------------------------------------------------------------------------
(* A step of the server process, or a command whose sender means it.       *)
Step == Process \/ Commanded

LEMMA ClientCommands == Client => Commanded
<1> SUFFICES ASSUME Client PROVE Commanded
  OBVIOUS
<1>1. PICK raw \in Commands : SetJointTarget(raw, ByName(raw))
  BY DEF Client
<1>2. raw \in Vectors
  BY <1>1, FiniteIsVector DEF SetJointTarget
<1> QED
  BY <1>1, <1>2 DEF Commanded

LEMMA RestIsAPose == Rest \in Poses /\ Poses \subseteq [Joints -> Int]
BY SimAssumption

LEMMA ZerosIsAVector == Zeros \in Vectors
BY DEF Zeros, Vectors

(* What physics leaves alone, and what a reset does to the control.        *)
LEMMA PhysicsKeeps ==
  ASSUME Physics
  PROVE  /\ UNCHANGED <<actuators, enabled, smoother, ctl, halt, auth, main, seen, resume,
                        halted, asked, unread, held, command>>
         /\ UNCHANGED <<ctrl, writer>> \/ (ctrl' = Zeros /\ writer' = "reset")
BY DEF Physics, Moves, Resets, mainVars

(* The hand starts disarmed, unheld and without a command.                 *)
LEMMA InitHolds == Init => IInv
<1> SUFFICES ASSUME Init PROVE IInv
  OBVIOUS
<1>1. Zeros \in Vectors
  BY ZerosIsAVector
<1>2. TypeOK
  BY <1>1, RestIsAPose DEF Init, TypeOK, Seeded, Starting, Stopping
<1> QED
  BY <1>2 DEF Init, IInv, BeforeService, ResumeKnown, DisarmedHolds, FollowsCommand,
    DrivenOnlyUnread, None, Starting, Stopping

(* What set_enabled(False) stores and sends.                               *)
LEMMA HoldHolds ==
  ASSUME TypeOK, NEW v \in Vectors, Hold(v), UNCHANGED actuators
  PROVE  /\ enabled' = FALSE /\ ctrl' \in Vectors
         /\ smoother' \in [target : Vectors, filtered : Vectors]
         /\ smoother'.target = v
         /\ held' = ByName(v) /\ held' \in [Joints -> Int]
         /\ command' = NoPose /\ writer' = "hold"
         /\ \A a \in 1 .. NumJoints : ctrl'[a] = held'[actuators'[a]]
<1>1. actuators \in ActuatorOrders /\ smoother \in [target : Vectors, filtered : Vectors]
  BY DEF TypeOK
<1>2. /\ enabled' = FALSE /\ smoother' = [smoother EXCEPT !.target = v]
      /\ ctrl' = ActuatorOrder(v) /\ held' = ByName(v)
      /\ command' = NoPose /\ writer' = "hold"
  BY DEF Hold, WithTarget
<1>3. ctrl' \in Vectors /\ \A a \in 1 .. NumJoints : ctrl'[a] = ByName(v)[actuators[a]]
  BY <1>1, <1>2, ActuatorGetsItsJoint
<1>4. /\ smoother' \in [target : Vectors, filtered : Vectors]
      /\ smoother'.target = v
  BY <1>1, <1>2
<1> QED
  BY <1>2, <1>3, <1>4, ByNameType

(* What a tick of an enabled hand sends.                                   *)
LEMMA TickHolds ==
  ASSUME TypeOK, Tick, enabled
  PROVE  /\ ctrl' \in Vectors
         /\ smoother' \in [target : Vectors, filtered : Vectors]
         /\ smoother'.target = smoother.target
         /\ writer' = "tick"
         /\ \A a \in 1 .. NumJoints : ctrl'[a] = ByName(smoother'.filtered)[actuators[a]]
         /\ \A i \in 1 .. NumJoints :
              /\ smoother'.filtered[i] - smoother.filtered[i] <= MaxStep
              /\ smoother.filtered[i] - smoother'.filtered[i] <= MaxStep
<1>1. actuators \in ActuatorOrders /\ smoother \in [target : Vectors, filtered : Vectors]
  BY DEF TypeOK
<1>2. /\ smoother' \in Stepped(smoother) /\ ctrl' = ActuatorOrder(smoother'.filtered)
      /\ writer' = "tick"
  BY DEF Tick
<1>3. smoother'.filtered \in Vectors
  BY <1>1, <1>2, StepBounded
<1>4. /\ ctrl' \in Vectors
      /\ \A a \in 1 .. NumJoints : ctrl'[a] = ByName(smoother'.filtered)[actuators[a]]
  BY <1>1, <1>2, <1>3, ActuatorGetsItsJoint
<1> QED
  BY <1>1, <1>2, <1>4, StepBounded

LEMMA JointStateIsAVector ==
  ASSUME TypeOK
  PROVE  JointState \in Vectors /\ JointState # NoPose
<1>1. pose \in [Joints -> Int]
  BY RestIsAPose DEF TypeOK
<1> QED
  BY <1>1, InOrderType, VectorNotEmpty DEF JointState

(* The types in three parts: vectors and poses, flags, and places.         *)
VectorTypes ==
  /\ actuators \in ActuatorOrders /\ pose \in Poses
  /\ ctrl \in Vectors /\ smoother \in [target : Vectors, filtered : Vectors]
  /\ auth \in Vectors \cup {NoPose} /\ seen \in Vectors
  /\ held \in [Joints -> Int] \cup {NoPose}
  /\ command \in [Joints -> Int] \cup {NoPose}

FlagTypes ==
  /\ diverged \in BOOLEAN /\ enabled \in BOOLEAN /\ halt \in BOOLEAN
  /\ halted \in BOOLEAN /\ asked \in BOOLEAN /\ unread \in BOOLEAN
  /\ writer \in {"none", "tick", "hold", "reset"}

PlaceTypes ==
  /\ ctl \in {"off", "top", "tick", "ended"}
  /\ main \in Starting \cup Stopping \cup {"serve", "hung", "down"}
  /\ resume \in Starting \cup {None, "serve", "exit"}

LEMMA TypeParts == TypeOK <=> VectorTypes /\ FlagTypes /\ PlaceTypes
BY DEF TypeOK, VectorTypes, FlagTypes, PlaceTypes

(* Every step of the server keeps the types.                               *)
LEMMA TypePreserved ==
  ASSUME IInv, Step
  PROVE  TypeOK'
<1> USE DEF IInv
<1>0. TypeOK /\ VectorTypes /\ FlagTypes /\ PlaceTypes
  BY TypeParts
<1>1. CASE Physics
  <2>1. VectorTypes'
    <3>1. pose' \in Poses
      BY <1>0, <1>1, RestIsAPose DEF Physics, Moves, Resets, VectorTypes
    <3> QED
      BY <1>0, <1>1, <3>1, ZerosIsAVector, PhysicsKeeps DEF VectorTypes
  <2>2. FlagTypes'
    <3>1. diverged' \in BOOLEAN
      BY <1>0, <1>1 DEF Physics, Moves, Resets, FlagTypes
    <3> QED
      BY <1>0, <1>1, <3>1, PhysicsKeeps DEF FlagTypes
  <2>3. PlaceTypes'
    BY <1>0, <1>1, PhysicsKeeps DEF PlaceTypes, Starting, Stopping
  <2> QED
    BY <2>1, <2>2, <2>3 DEF TypeOK, VectorTypes, FlagTypes, PlaceTypes
<1>2. CASE Enable
  <2>1. VectorTypes'
    BY <1>0, <1>2 DEF Enable, VectorTypes, worldVars, handVars, mainVars, histVars
  <2>2. FlagTypes'
    BY <1>0, <1>2 DEF Enable, FlagTypes, worldVars, handVars, mainVars, histVars
  <2>3. PlaceTypes'
    BY <1>0, <1>2 DEF Enable, PlaceTypes, Starting, Stopping, worldVars, handVars, mainVars, histVars
  <2> QED
    BY <2>1, <2>2, <2>3 DEF TypeOK, VectorTypes, FlagTypes, PlaceTypes
<1>3. CASE DisableReads
  <2>1. VectorTypes'
    BY <1>0, <1>3, JointStateIsAVector DEF DisableReads, VectorTypes, worldVars, handVars, mainVars, histVars
  <2>2. FlagTypes'
    BY <1>0, <1>3, JointStateIsAVector DEF DisableReads, FlagTypes, worldVars, handVars, mainVars, histVars, ReadFails
  <2>3. PlaceTypes'
    BY <1>0, <1>3 DEF DisableReads, PlaceTypes, Starting, Stopping, worldVars, handVars, mainVars, histVars
  <2> QED
    BY <2>1, <2>2, <2>3 DEF TypeOK, VectorTypes, FlagTypes, PlaceTypes
<1>4. CASE DisableHolds
  <2>1. auth \in Vectors /\ Hold(auth) /\ UNCHANGED actuators
    BY <1>0, <1>4 DEF DisableHolds, TypeOK, worldVars
  <2>2. VectorTypes'
    BY <1>0, <1>4, <2>1, HoldHolds DEF DisableHolds, VectorTypes, worldVars, mainVars
  <2>3. FlagTypes'
    BY <1>0, <1>4, <2>1, HoldHolds DEF DisableHolds, FlagTypes, worldVars, mainVars
  <2>4. PlaceTypes'
    BY <1>0, <1>4 DEF DisableHolds, PlaceTypes, Starting, Stopping, mainVars
  <2> QED
    BY <2>2, <2>3, <2>4 DEF TypeOK, VectorTypes, FlagTypes, PlaceTypes
<1>5. CASE LoopTop
  BY <1>5 DEF LoopTop, TypeOK, worldVars, handVars, mainVars, histVars, Starting, Stopping, None
<1>6. CASE Tick
  <2>1. CASE enabled
    BY <1>0, <1>6, <2>1, TickHolds DEF Tick, TypeOK, worldVars, handVars, mainVars, histVars, Starting, Stopping, None
  <2>2. CASE ~ enabled
    BY <1>0, <1>6, <2>2 DEF Tick, TypeOK, worldVars, handVars, mainVars, histVars, Starting, Stopping, None
  <2> QED
    BY <2>1, <2>2
<1>7. CASE StartScene
  BY <1>7 DEF StartScene, TypeOK, worldVars, handVars, mainVars, histVars, Starting, Stopping, None
<1>8. CASE ConnectReads
  <2>1. VectorTypes'
    BY <1>0, <1>8, JointStateIsAVector DEF ConnectReads, VectorTypes, worldVars, handVars, mainVars, histVars
  <2>2. FlagTypes'
    BY <1>0, <1>8, JointStateIsAVector DEF ConnectReads, FlagTypes, worldVars, handVars, mainVars, histVars, ReadFails
  <2>3. PlaceTypes'
    BY <1>0, <1>8 DEF ConnectReads, PlaceTypes, Starting, Stopping, worldVars, handVars, mainVars, histVars
  <2> QED
    BY <2>1, <2>2, <2>3 DEF TypeOK, VectorTypes, FlagTypes, PlaceTypes
<1>9. CASE ConnectSeeds
  BY <1>9 DEF ConnectSeeds, Seeded, TypeOK, worldVars, handVars, mainVars, histVars, Starting, Stopping, None
<1>10. CASE StartLoop
  <2>1. VectorTypes'
    BY <1>0, <1>10 DEF StartLoop, VectorTypes, worldVars, handVars, mainVars, histVars
  <2>2. FlagTypes'
    BY <1>0, <1>10 DEF StartLoop, FlagTypes, worldVars, handVars, mainVars, histVars
  <2>3. PlaceTypes'
    BY <1>0, <1>10 DEF StartLoop, PlaceTypes, Starting, Stopping, worldVars, handVars, mainVars, histVars
  <2> QED
    BY <2>1, <2>2, <2>3 DEF TypeOK, VectorTypes, FlagTypes, PlaceTypes
<1>11. CASE ServeEnds
  BY <1>11 DEF ServeEnds, TypeOK, worldVars, handVars, mainVars, histVars, Starting, Stopping, None
<1>12. CASE ShutdownReads
  <2>1. VectorTypes'
    BY <1>0, <1>12, JointStateIsAVector DEF ShutdownReads, VectorTypes, worldVars, handVars, mainVars, histVars
  <2>2. FlagTypes'
    BY <1>0, <1>12, JointStateIsAVector DEF ShutdownReads, FlagTypes, worldVars, handVars, mainVars, histVars, ReadFails
  <2>3. PlaceTypes'
    BY <1>0, <1>12 DEF ShutdownReads, PlaceTypes, Starting, Stopping, worldVars, handVars, mainVars, histVars
  <2> QED
    BY <2>1, <2>2, <2>3 DEF TypeOK, VectorTypes, FlagTypes, PlaceTypes
<1>13. CASE ShutdownHolds
  <2>1. seen \in Vectors /\ Hold(seen) /\ UNCHANGED actuators
    BY <1>0, <1>13 DEF ShutdownHolds, TypeOK, worldVars
  <2>2. VectorTypes'
    BY <1>0, <1>13, <2>1, HoldHolds DEF ShutdownHolds, VectorTypes, worldVars
  <2>3. FlagTypes'
    BY <1>0, <1>13, <2>1, HoldHolds DEF ShutdownHolds, FlagTypes, worldVars
  <2>4. PlaceTypes'
    BY <1>0, <1>13 DEF ShutdownHolds, PlaceTypes, Starting, Stopping, mainVars
  <2> QED
    BY <2>2, <2>3, <2>4 DEF TypeOK, VectorTypes, FlagTypes, PlaceTypes
<1>14. CASE StopLoop
  BY <1>14 DEF StopLoop, TypeOK, worldVars, handVars, mainVars, histVars, Starting, Stopping, None
<1>15. CASE Joined
  BY <1>15 DEF Joined, TypeOK, worldVars, handVars, mainVars, histVars, Starting, Stopping, None
<1>16. CASE Release
  BY <1>16 DEF Release, ResumeKnown, TypeOK, worldVars, handVars, mainVars, histVars, Starting, Stopping, None
<1>17. CASE Signal
  BY <1>17 DEF Signal, TypeOK, worldVars, handVars, mainVars, histVars, Starting, Stopping, None
<1>18. CASE SignalInsideLock
  BY <1>18 DEF SignalInsideLock, TypeOK, worldVars, handVars, mainVars, histVars, Starting, Stopping, None
<1>19. CASE Commanded
  <2>1. PICK raw \in Vectors : SetJointTarget(raw, ByName(raw))
    BY <1>0, <1>19 DEF Commanded
  <2> QED
    BY <2>1, ByNameType DEF SetJointTarget, WithTarget, TypeOK, worldVars, handVars, mainVars, histVars, Starting, Stopping, None
<1> QED
  BY <1>1, <1>2, <1>3, <1>4, <1>5, <1>6, <1>7, <1>8, <1>9, <1>10, <1>11, <1>12, <1>13, <1>14, <1>15, <1>16, <1>17, <1>18, <1>19 DEF Step, Process, Authority, ControlLoop, MainThread

(* Commands and ticks come with the service.                               *)
LEMMA ServicePreserved ==
  ASSUME IInv, Step, TypeOK'
  PROVE  BeforeService' /\ ResumeKnown'
<1> USE DEF IInv
<1>1. CASE Physics
  BY <1>1, PhysicsKeeps DEF BeforeService, ResumeKnown
<1>2. CASE Enable
  BY <1>2 DEF Enable, BeforeService, ResumeKnown, TypeOK, Starting, Stopping, None, Sessions, worldVars, handVars, mainVars, histVars
<1>3. CASE DisableReads
  BY <1>3 DEF DisableReads, BeforeService, ResumeKnown, TypeOK, Starting, Stopping, None, Sessions, worldVars, handVars, mainVars, histVars
<1>4. CASE DisableHolds
  BY <1>4 DEF DisableHolds, Hold, BeforeService, ResumeKnown, worldVars, mainVars, Sessions, Starting, Stopping
<1>5. CASE LoopTop
  BY <1>5 DEF LoopTop, BeforeService, ResumeKnown, TypeOK, Starting, Stopping, None, Sessions, worldVars, handVars, mainVars, histVars
<1>6. CASE Tick
  BY <1>6 DEF Tick, BeforeService, ResumeKnown, TypeOK, Starting, Stopping, None, Sessions, worldVars, handVars, mainVars, histVars
<1>7. CASE StartScene
  BY <1>7 DEF StartScene, BeforeService, ResumeKnown, TypeOK, Starting, Stopping, None, Sessions, worldVars, handVars, mainVars, histVars
<1>8. CASE ConnectReads
  BY <1>8 DEF ConnectReads, BeforeService, ResumeKnown, TypeOK, Starting, Stopping, None, Sessions, worldVars, handVars, mainVars, histVars
<1>9. CASE ConnectSeeds
  BY <1>9 DEF ConnectSeeds, BeforeService, ResumeKnown, TypeOK, Starting, Stopping, None, Sessions, worldVars, handVars, mainVars, histVars
<1>10. CASE StartLoop
  BY <1>10 DEF StartLoop, BeforeService, ResumeKnown, TypeOK, Starting, Stopping, None, Sessions, worldVars, handVars, mainVars, histVars
<1>11. CASE ServeEnds
  BY <1>11 DEF ServeEnds, BeforeService, ResumeKnown, TypeOK, Starting, Stopping, None, Sessions, worldVars, handVars, mainVars, histVars
<1>12. CASE ShutdownReads
  BY <1>12 DEF ShutdownReads, BeforeService, ResumeKnown, TypeOK, Starting, Stopping, None, Sessions, worldVars, handVars, mainVars, histVars
<1>13. CASE ShutdownHolds
  BY <1>13 DEF ShutdownHolds, Hold, BeforeService, ResumeKnown, worldVars, Starting, Stopping
<1>14. CASE StopLoop
  BY <1>14 DEF StopLoop, BeforeService, ResumeKnown, TypeOK, Starting, Stopping, None, Sessions, worldVars, handVars, mainVars, histVars
<1>15. CASE Joined
  BY <1>15 DEF Joined, BeforeService, ResumeKnown, TypeOK, Starting, Stopping, None, Sessions, worldVars, handVars, mainVars, histVars
<1>16. CASE Release
  BY <1>16 DEF Release, BeforeService, ResumeKnown, TypeOK, Starting, Stopping, None, Sessions, worldVars, handVars, mainVars, histVars
<1>17. CASE Signal
  BY <1>17 DEF Signal, BeforeService, ResumeKnown, TypeOK, Starting, Stopping, None, Sessions, worldVars, handVars, mainVars, histVars
<1>18. CASE SignalInsideLock
  BY <1>18 DEF SignalInsideLock, BeforeService, ResumeKnown, TypeOK, Starting, Stopping, None, Sessions, worldVars, handVars, mainVars, histVars
<1>19. CASE Commanded
  BY <1>19 DEF Commanded, SetJointTarget, BeforeService, ResumeKnown, mainVars, Sessions, Starting, Stopping
<1> QED
  BY <1>1, <1>2, <1>3, <1>4, <1>5, <1>6, <1>7, <1>8, <1>9, <1>10, <1>11, <1>12, <1>13, <1>14, <1>15, <1>16, <1>17, <1>18, <1>19 DEF Step, Process, Authority, ControlLoop, MainThread

(* A disarmed hand stays where it is held.                                 *)
LEMMA HoldPreserved ==
  ASSUME IInv, Step, TypeOK'
  PROVE  DisarmedHolds'
<1> USE DEF IInv
<1>1. CASE Physics
  BY <1>1, PhysicsKeeps DEF DisarmedHolds
<1>2. CASE Enable
  BY <1>2 DEF Enable, DisarmedHolds, worldVars, handVars, mainVars, histVars
<1>3. CASE DisableReads
  BY <1>3 DEF DisableReads, DisarmedHolds, worldVars, handVars, mainVars, histVars
<1>4. CASE DisableHolds
  <2>1. auth \in Vectors /\ Hold(auth) /\ UNCHANGED actuators
    BY <1>4 DEF DisableHolds, TypeOK, worldVars
  <2> QED
    BY <2>1, HoldHolds DEF DisarmedHolds
<1>5. CASE LoopTop
  BY <1>5 DEF LoopTop, DisarmedHolds, worldVars, handVars, mainVars, histVars
<1>6. CASE Tick
  BY <1>6 DEF Tick, DisarmedHolds, worldVars, handVars, mainVars, histVars
<1>7. CASE StartScene
  BY <1>7 DEF StartScene, DisarmedHolds, worldVars, handVars, mainVars, histVars
<1>8. CASE ConnectReads
  BY <1>8 DEF ConnectReads, DisarmedHolds, worldVars, handVars, mainVars, histVars
<1>9. CASE ConnectSeeds
  BY <1>9 DEF ConnectSeeds, DisarmedHolds, worldVars, handVars, mainVars, histVars
<1>10. CASE StartLoop
  BY <1>10 DEF StartLoop, DisarmedHolds, worldVars, handVars, mainVars, histVars
<1>11. CASE ServeEnds
  BY <1>11 DEF ServeEnds, DisarmedHolds, worldVars, handVars, mainVars, histVars
<1>12. CASE ShutdownReads
  BY <1>12 DEF ShutdownReads, DisarmedHolds, worldVars, handVars, mainVars, histVars
<1>13. CASE ShutdownHolds
  <2>1. seen \in Vectors /\ Hold(seen) /\ UNCHANGED actuators
    BY <1>13 DEF ShutdownHolds, TypeOK, worldVars
  <2> QED
    BY <2>1, HoldHolds DEF DisarmedHolds
<1>14. CASE StopLoop
  BY <1>14 DEF StopLoop, DisarmedHolds, worldVars, handVars, mainVars, histVars
<1>15. CASE Joined
  BY <1>15 DEF Joined, DisarmedHolds, worldVars, handVars, mainVars, histVars
<1>16. CASE Release
  BY <1>16 DEF Release, DisarmedHolds, worldVars, handVars, mainVars, histVars
<1>17. CASE Signal
  BY <1>17 DEF Signal, DisarmedHolds, worldVars, handVars, mainVars, histVars
<1>18. CASE SignalInsideLock
  BY <1>18 DEF SignalInsideLock, DisarmedHolds, worldVars, handVars, mainVars, histVars
<1>19. CASE Commanded
  BY <1>19 DEF Commanded, SetJointTarget, DisarmedHolds, worldVars
<1> QED
  BY <1>1, <1>2, <1>3, <1>4, <1>5, <1>6, <1>7, <1>8, <1>9, <1>10, <1>11, <1>12, <1>13, <1>14, <1>15, <1>16, <1>17, <1>18, <1>19 DEF Step, Process, Authority, ControlLoop, MainThread

(* The filter runs toward the command in force, joint by joint.            *)
LEMMA FollowPreserved ==
  ASSUME IInv, Step, TypeOK'
  PROVE  FollowsCommand'
<1> USE DEF IInv
<1>1. CASE Physics
  BY <1>1, PhysicsKeeps DEF FollowsCommand
<1>2. CASE Enable
  BY <1>2 DEF Enable, FollowsCommand, worldVars, handVars, mainVars, histVars
<1>3. CASE DisableReads
  BY <1>3 DEF DisableReads, FollowsCommand, worldVars, handVars, mainVars, histVars
<1>4. CASE DisableHolds
  <2>1. auth \in Vectors /\ Hold(auth) /\ UNCHANGED actuators
    BY <1>4 DEF DisableHolds, TypeOK, worldVars
  <2> QED
    BY <2>1, HoldHolds DEF FollowsCommand
<1>5. CASE LoopTop
  BY <1>5 DEF LoopTop, FollowsCommand, worldVars, handVars, mainVars, histVars
<1>6. CASE Tick
  <2>1. CASE enabled
    <3>1. UNCHANGED <<actuators, held, command>>
      BY <1>6 DEF Tick, worldVars
    <3> QED
      BY <1>6, <2>1, <3>1, TickHolds DEF FollowsCommand
  <2>2. CASE ~ enabled
    BY <1>6, <2>2 DEF Tick, FollowsCommand, worldVars
  <2> QED
    BY <2>1, <2>2
<1>7. CASE StartScene
  BY <1>7 DEF StartScene, FollowsCommand, worldVars, handVars, mainVars, histVars
<1>8. CASE ConnectReads
  BY <1>8 DEF ConnectReads, FollowsCommand, worldVars, handVars, mainVars, histVars
<1>9. CASE ConnectSeeds
  BY <1>9 DEF ConnectSeeds, FollowsCommand, BeforeService, Starting
<1>10. CASE StartLoop
  BY <1>10 DEF StartLoop, FollowsCommand, worldVars, handVars, mainVars, histVars
<1>11. CASE ServeEnds
  BY <1>11 DEF ServeEnds, FollowsCommand, worldVars, handVars, mainVars, histVars
<1>12. CASE ShutdownReads
  BY <1>12 DEF ShutdownReads, FollowsCommand, worldVars, handVars, mainVars, histVars
<1>13. CASE ShutdownHolds
  <2>1. seen \in Vectors /\ Hold(seen) /\ UNCHANGED actuators
    BY <1>13 DEF ShutdownHolds, TypeOK, worldVars
  <2> QED
    BY <2>1, HoldHolds DEF FollowsCommand
<1>14. CASE StopLoop
  BY <1>14 DEF StopLoop, FollowsCommand, worldVars, handVars, mainVars, histVars
<1>15. CASE Joined
  BY <1>15 DEF Joined, FollowsCommand, worldVars, handVars, mainVars, histVars
<1>16. CASE Release
  BY <1>16 DEF Release, FollowsCommand, worldVars, handVars, mainVars, histVars
<1>17. CASE Signal
  BY <1>17 DEF Signal, FollowsCommand, worldVars, handVars, mainVars, histVars
<1>18. CASE SignalInsideLock
  BY <1>18 DEF SignalInsideLock, FollowsCommand, worldVars, handVars, mainVars, histVars
<1>19. CASE Commanded
  <2>1. PICK raw \in Vectors : SetJointTarget(raw, ByName(raw))
    BY <1>19 DEF Commanded
  <2>2. ByName(raw) # NoPose
    BY ByNameType, PoseNotEmpty
  <2>3. /\ smoother'.target = raw /\ smoother'.filtered = smoother.filtered
        /\ command' = ByName(raw)
        /\ UNCHANGED <<actuators, held, ctrl, writer>>
    BY <2>1 DEF SetJointTarget, WithTarget, worldVars, TypeOK
  <2> QED
    BY <2>2, <2>3 DEF FollowsCommand
<1> QED
  BY <1>1, <1>2, <1>3, <1>4, <1>5, <1>6, <1>7, <1>8, <1>9, <1>10, <1>11, <1>12, <1>13, <1>14, <1>15, <1>16, <1>17, <1>18, <1>19 DEF Step, Process, Authority, ControlLoop, MainThread

(* A flag that stays up unasked belongs to a disarm that could not read.   *)
LEMMA AskPreserved ==
  ASSUME IInv, Step, TypeOK'
  PROVE  DrivenOnlyUnread'
<1> USE DEF IInv
<1>1. CASE Physics
  BY <1>1 DEF Physics, DrivenOnlyUnread, TypeOK, worldVars, handVars, mainVars, histVars
<1>2. CASE Enable
  BY <1>2 DEF Enable, DrivenOnlyUnread, TypeOK, worldVars, handVars, mainVars, histVars
<1>3. CASE DisableReads
  BY <1>3, JointStateIsAVector DEF DisableReads, DrivenOnlyUnread, TypeOK, ReadFails, handVars, mainVars
<1>4. CASE DisableHolds
  BY <1>4 DEF DisableHolds, Hold, DrivenOnlyUnread, worldVars
<1>5. CASE LoopTop
  BY <1>5 DEF LoopTop, DrivenOnlyUnread, TypeOK, worldVars, handVars, mainVars, histVars
<1>6. CASE Tick
  BY <1>6 DEF Tick, DrivenOnlyUnread, TypeOK, worldVars, handVars, mainVars, histVars
<1>7. CASE StartScene
  BY <1>7 DEF StartScene, DrivenOnlyUnread, TypeOK, worldVars, handVars, mainVars, histVars
<1>8. CASE ConnectReads
  BY <1>8 DEF ConnectReads, DrivenOnlyUnread, TypeOK, worldVars, handVars, mainVars, histVars
<1>9. CASE ConnectSeeds
  BY <1>9 DEF ConnectSeeds, DrivenOnlyUnread, TypeOK, worldVars, handVars, mainVars, histVars
<1>10. CASE StartLoop
  BY <1>10 DEF StartLoop, DrivenOnlyUnread, TypeOK, worldVars, handVars, mainVars, histVars
<1>11. CASE ServeEnds
  BY <1>11 DEF ServeEnds, DrivenOnlyUnread, TypeOK, worldVars, handVars, mainVars, histVars
<1>12. CASE ShutdownReads
  BY <1>12 DEF ShutdownReads, DrivenOnlyUnread, TypeOK, worldVars, handVars, mainVars, histVars
<1>13. CASE ShutdownHolds
  BY <1>13 DEF ShutdownHolds, Hold, DrivenOnlyUnread, worldVars
<1>14. CASE StopLoop
  BY <1>14 DEF StopLoop, DrivenOnlyUnread, TypeOK, worldVars, handVars, mainVars, histVars
<1>15. CASE Joined
  BY <1>15 DEF Joined, DrivenOnlyUnread, TypeOK, worldVars, handVars, mainVars, histVars
<1>16. CASE Release
  BY <1>16 DEF Release, DrivenOnlyUnread, TypeOK, worldVars, handVars, mainVars, histVars
<1>17. CASE Signal
  BY <1>17 DEF Signal, DrivenOnlyUnread, TypeOK, Starting, worldVars, handVars, mainVars, histVars
<1>18. CASE SignalInsideLock
  BY <1>18 DEF SignalInsideLock, DrivenOnlyUnread, TypeOK, worldVars, handVars, mainVars, histVars
<1>19. CASE Commanded
  BY <1>19 DEF Commanded, SetJointTarget, DrivenOnlyUnread, mainVars
<1> QED
  BY <1>1, <1>2, <1>3, <1>4, <1>5, <1>6, <1>7, <1>8, <1>9, <1>10, <1>11, <1>12, <1>13, <1>14, <1>15, <1>16, <1>17, <1>18, <1>19 DEF Step, Process, Authority, ControlLoop, MainThread

-----------------------------------------------------------------------------
(* The whole invariant is preserved by every step.                         *)
LEMMA StepPreserves ==
  ASSUME IInv, Step
  PROVE  IInv'
<1>1. TypeOK'
  BY TypePreserved
<1> QED
  BY <1>1, ServicePreserved, HoldPreserved, FollowPreserved, AskPreserved DEF IInv

LEMMA StutterPreserves ==
  ASSUME IInv, UNCHANGED vars
  PROVE  IInv'
BY DEF IInv, vars, TypeOK, BeforeService, ResumeKnown, DisarmedHolds, FollowsCommand,
  DrivenOnlyUnread

(* The inductive invariant of the simulated hand.                          *)
LEMMA InvariantHolds == Spec => []IInv
<1>1. Init => IInv
  BY InitHolds
<1>2. IInv /\ [Next]_vars => IInv'
  BY ClientCommands, StepPreserves, StutterPreserves DEF Next, Step
<1> QED
  BY <1>1, <1>2, PTL DEF Spec

(***************************************************************************)
(* Type correctness of the server process (SimHandWorker, MujocoScene and  *)
(* SimBridgeServer), for any joints, poses and commands.                   *)
(***************************************************************************)
THEOREM TypeCorrect == Spec => []TypeOK
<1>1. IInv => TypeOK
  BY DEF IInv
<1> QED
  BY <1>1, InvariantHolds, PTL

(***************************************************************************)
(* sim_hand_worker.py:90-103: a disarmed hand is held, joint by joint,     *)
(* where the disarm that came last found it, until a simulation that has   *)
(* diverged is reset and lets every actuator go.                           *)
(***************************************************************************)
THEOREM DisarmHolds == Spec => []DisarmedHolds
<1>1. IInv => DisarmedHolds
  BY DEF IInv
<1> QED
  BY <1>1, InvariantHolds, PTL

(***************************************************************************)
(* mujoco_scene.py:95-97 with smoother.py: whatever the actuators' order,  *)
(* each one runs toward what the command in force says of its own joint.   *)
(***************************************************************************)
THEOREM CommandFollowed == Spec => []FollowsCommand
<1>1. IInv => FollowsCommand
  BY DEF IInv
<1> QED
  BY <1>1, InvariantHolds, PTL

(***************************************************************************)
(* sim_hand_worker.py:92-95: the one way to be driven unasked is a disarm  *)
(* that could not read the scene.                                          *)
(***************************************************************************)
THEOREM UnaskedIsUnread == Spec => []DrivenOnlyUnread
<1>1. IInv => DrivenOnlyUnread
  BY DEF IInv
<1> QED
  BY <1>1, InvariantHolds, PTL

(* A tick moves no target further than the limit from the tick before.     *)
LEMMA TickJump ==
  ASSUME IInv, Step, Drives, writer = "tick", NEW a \in 1 .. NumJoints
  PROVE  Jump(a) <= MaxStep
<1>1. Tick /\ enabled /\ TypeOK /\ FollowsCommand
  <2>1. ctl = "tick" /\ ctl' = "top" /\ enabled
    BY DEF Drives
  <2> QED
    BY <2>1 DEF IInv, Step, Process, Physics, Authority, Enable, DisableReads, DisableHolds,
      ControlLoop, LoopTop, MainThread, StartScene, ConnectReads, ConnectSeeds, StartLoop,
      ServeEnds, ShutdownReads, ShutdownHolds, StopLoop, Joined, Release, Signal,
      SignalInsideLock, Commanded, SetJointTarget, BeforeService, Starting
<1> DEFINE n == actuators[a]
           k == PositionOf(n, ProtocolNames)
<1>2. n \in Joints /\ k \in 1 .. NumJoints
  <2>1. NamesMatch(ProtocolNames, actuators) /\ actuators \in Seq(Joints)
    BY <1>1, SimAssumption DEF TypeOK
  <2>2. Len(actuators) = NumJoints
    BY <2>1 DEF NamesMatch, NumJoints
  <2>3. n \in Joints
    BY <2>1, <2>2, ElementOfSeq
  <2> QED
    BY <2>3, ProtocolPositions
<1>3. ctrl[a] = smoother.filtered[k]
  BY <1>1, <1>2 DEF FollowsCommand, ByName
<1>4. /\ ctrl'[a] = smoother'.filtered[k]
      /\ smoother'.filtered[k] - smoother.filtered[k] <= MaxStep
      /\ smoother.filtered[k] - smoother'.filtered[k] <= MaxStep
  BY <1>1, <1>2, TickHolds DEF ByName
<1>5. smoother.filtered[k] \in Int /\ smoother'.filtered[k] \in Int
  <2>1. smoother.filtered \in Vectors /\ smoother'.filtered \in Vectors
    BY <1>1, TickHolds DEF TypeOK
  <2> QED
    BY <1>2, <2>1 DEF Vectors
<1> QED
  BY <1>3, <1>4, <1>5, MaxStepAssumption DEF Jump, Abs

(***************************************************************************)
(* smoother.py:112-121: while a hand is driven, a new target never makes   *)
(* an actuator jump.                                                       *)
(***************************************************************************)
THEOREM SlewBound == Spec => SlewWhileDriven
<1>1. IInv /\ [Next]_vars =>
        [Drives /\ writer = "tick" => \A a \in 1 .. NumJoints : Jump(a) <= MaxStep]_vars
  BY ClientCommands, TickJump DEF Next, Step
<1> QED
  BY <1>1, InvariantHolds, PTL DEF Spec, SlewWhileDriven

=============================================================================
