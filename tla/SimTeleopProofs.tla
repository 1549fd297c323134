--------------------------- MODULE SimTeleopProofs ---------------------------
(***************************************************************************)
(* What a glove shows is what the simulated hand runs toward, for any      *)
(* solver that may start, any order of its joints and of the model's       *)
(* actuators, any hand and any listing of a glove's nodes.  A frame that   *)
(* is accepted is a command that means what it says, so every step of      *)
(* TeleopSpec is a step of SimHandProofs or leaves the hand alone.         *)
(***************************************************************************)
EXTENDS SimTeleop, SimHandProofs

(* A solver that runs answers in firmware order, or names its joints by a  *)
(* permutation of it and is not one of those that stay at their limits.    *)
BackendOK ==
  \/ backend = NoBackend
  \/ backend.kind = "sdk" /\ backend.order = ProtocolNames
  \/ /\ backend.kind = "retargeter"
     /\ backend.order \in Seq(NamesIn(backend.order))
     /\ NamesMatch(backend.order, ProtocolNames)
     /\ backend.generation \notin Incompatible

-----------------------------------------------------------------------------
(* Reordering                                                              *)

(* A vector in protocol order loses no joint.                              *)
LEMMA ThereAndBack ==
  ASSUME NEW A \in [Joints -> Int]
  PROVE  ByName(InProtocolOrder(A)) = A
<1>1. \A n \in Joints : /\ PositionOf(n, ProtocolNames) \in 1 .. NumJoints
                        /\ ProtocolNames[PositionOf(n, ProtocolNames)] = n
  BY ProtocolPositions, PositionOfName DEF Joints
<1>2. \A n \in Joints : InProtocolOrder(A)[PositionOf(n, ProtocolNames)] = A[n]
  BY <1>1 DEF InProtocolOrder
<1> QED
  BY <1>2 DEF ByName

(* An order the adapter accepts names every joint once.                    *)
LEMMA AcceptedOrder ==
  ASSUME backend # NoBackend, BackendOK
  PROVE  /\ backend.order \in Seq(Joints)
         /\ Len(backend.order) = NumJoints
         /\ NamesIn(backend.order) = Joints
<1>1. ProtocolNames \in Seq(Joints)
  BY SimAssumption
<1> QED
  BY <1>1 DEF BackendOK, NamesMatch, NumJoints, Joints

(* Whatever order the solver answers in, the adapter's one reordering puts *)
(* it into the firmware's.                                                 *)
LEMMA FirmwareOrder ==
  ASSUME backend # NoBackend, BackendOK, NEW A \in [Joints -> Int]
  PROVE  Firmware(backend.kind, backend.order, InOrder(A, backend.order)) = InProtocolOrder(A)
<1>1. DOMAIN ProtocolNames = 1 .. NumJoints
  BY ProtocolPositions
<1>2. CASE backend.kind = "sdk"
  BY <1>1, <1>2, AcceptedOrder DEF Firmware, InOrder, InProtocolOrder, BackendOK, NoBackend
<1>3. CASE backend.kind # "sdk"
  <2> DEFINE order == backend.order
  <2>1. NamesIn(order) = Joints
    BY AcceptedOrder
  <2>2. \A i \in 1 .. NumJoints : ProtocolNames[i] \in NamesIn(order)
    BY <1>1, <2>1 DEF Joints, NamesIn
  <2>3. \A i \in 1 .. NumJoints :
          /\ PositionOf(ProtocolNames[i], order) \in DOMAIN order
          /\ order[PositionOf(ProtocolNames[i], order)] = ProtocolNames[i]
    BY <2>2, PositionOfName
  <2>4. \A i \in 1 .. NumJoints :
          InOrder(A, order)[PositionOf(ProtocolNames[i], order)] = A[ProtocolNames[i]]
    BY <2>3 DEF InOrder
  <2>5. Firmware(backend.kind, order, InOrder(A, order))
          = [i \in 1 .. NumJoints |-> InOrder(A, order)[PositionOf(ProtocolNames[i], order)]]
    BY <1>1, <1>3 DEF Firmware, Reordered, Permutation
  <2> QED
    BY <2>4, <2>5 DEF InProtocolOrder
<1> QED
  BY <1>2, <1>3

(* Of what a solver may return only the right answer is usable.            *)
LEMMA OnlyRightIsUsable ==
  ASSUME backend # NoBackend, BackendOK, NEW A \in [Joints -> Int],
         NEW output \in {InOrder(A, backend.order), Tail(InOrder(A, backend.order)),
                         [InOrder(A, backend.order) EXCEPT ![1] = NaN]},
         Usable(backend.kind, backend.order, output)
  PROVE  output = InOrder(A, backend.order)
<1> DEFINE right == InOrder(A, backend.order)
<1>1. /\ backend.order \in Seq(Joints) /\ Len(backend.order) = NumJoints
      /\ NumJoints \in Nat \ {0}
  BY AcceptedOrder, ProtocolPositions
<1>2. DOMAIN backend.order = 1 .. NumJoints
      /\ \A i \in 1 .. NumJoints : backend.order[i] \in Joints
  BY <1>1, LenProperties, ElementOfSeq
<1>3. right \in [1 .. NumJoints -> Int]
  BY <1>2 DEF InOrder
<1>4. right \in Seq(Int) /\ Len(right) = NumJoints
  BY <1>1, <1>3, SeqDef, LenProperties
<1>5. FiniteVector(output, NumJoints)
  BY <1>1 DEF Usable
<1>6. output # Tail(right)
  <2>1. right # <<>>
    BY <1>1, <1>4, EmptySeq
  <2>2. Tail(right) \in Seq(Int) /\ Len(Tail(right)) = NumJoints - 1
    BY <1>4, <2>1, HeadTailProperties
  <2>3. DOMAIN Tail(right) = 1 .. NumJoints - 1
    BY <2>2, LenProperties
  <2>4. NumJoints \in 1 .. NumJoints /\ NumJoints \notin 1 .. NumJoints - 1
    BY <1>1
  <2> QED
    BY <1>5, <2>3, <2>4 DEF FiniteVector
<1>7. output # [right EXCEPT ![1] = NaN]
  <2>1. 1 \in 1 .. NumJoints
    BY <1>1
  <2> QED
    BY <1>3, <1>5, <2>1 DEF FiniteVector
<1> QED
  BY <1>6, <1>7

-----------------------------------------------------------------------------
(* Keypoints                                                               *)

(* The points of a frame that depicts a hand are that hand, wherever the   *)
(* glove is and in whatever order it lists its nodes.                      *)
LEMMA KeypointsAreTheHand ==
  ASSUME NEW frame, Complete(frame.nodes), Depicts(frame), 1 \in DOMAIN NodeKeys
  PROVE  Keypoints(frame.nodes) = frame.hand
<1> DEFINE node(k) == CHOOSE i \in NodesOf(frame.nodes, NodeKeys[k]) : TRUE
           at(k) == Mirrored(frame.nodes[node(k)].at)
           hand == frame.hand
           place == frame.place
<1>1. \A k \in DOMAIN NodeKeys : node(k) \in NodesOf(frame.nodes, NodeKeys[k])
  BY DEF Complete
<1>2. /\ place[1] \in Int /\ place[2] \in Int
      /\ \A k \in DOMAIN NodeKeys : hand[k] = <<hand[k][1], hand[k][2]>>
                                    /\ hand[k][1] \in Int /\ hand[k][2] \in Int
  BY DEF Depicts
<1>3. \A k \in DOMAIN NodeKeys :
        at(k) = <<place[1] + hand[k][1], - (place[2] - hand[k][2])>>
  <2> SUFFICES ASSUME NEW k \in DOMAIN NodeKeys
               PROVE  at(k) = <<place[1] + hand[k][1], - (place[2] - hand[k][2])>>
    OBVIOUS
  <2>1. frame.nodes[node(k)].at = <<place[1] + hand[k][1], place[2] - hand[k][2]>>
    BY <1>1 DEF Depicts
  <2> HIDE DEF node
  <2> QED
    BY <2>1 DEF Mirrored
<1>4. at(1) = <<place[1], - place[2]>>
  <2>1. hand[1] = <<0, 0>>
    BY DEF Depicts
  <2>2. at(1) = <<place[1] + 0, - (place[2] - 0)>>
    BY <1>3, <2>1
  <2> QED
    BY <1>2, <2>2
<1>5. \A k \in DOMAIN NodeKeys : Minus(at(k), at(1)) = hand[k]
  <2> SUFFICES ASSUME NEW k \in DOMAIN NodeKeys PROVE Minus(at(k), at(1)) = hand[k]
    OBVIOUS
  <2> HIDE DEF at
  <2>1. Minus(at(k), at(1))
          = <<(place[1] + hand[k][1]) - place[1], - (place[2] - hand[k][2]) - (- place[2])>>
    BY <1>3, <1>4 DEF Minus
  <2>2. /\ (place[1] + hand[k][1]) - place[1] = hand[k][1]
        /\ - (place[2] - hand[k][2]) - (- place[2]) = hand[k][2]
    BY <1>2
  <2> QED
    BY <1>2, <2>1, <2>2
<1>6. Keypoints(frame.nodes) = [k \in DOMAIN NodeKeys |-> Minus(at(k), at(1))]
  BY DEF Keypoints
<1>7. hand = [k \in DOMAIN NodeKeys |-> hand[k]]
  BY DEF Depicts
<1> QED
  BY <1>5, <1>6, <1>7

-----------------------------------------------------------------------------
(* Steps                                                                   *)

(* The checks of the adapter leave only solvers that can be trusted.       *)
LEMMA StartChecks ==
  ASSUME StartClient
  PROVE  BackendOK'
<1>1. PICK kind \in {"sdk", "retargeter"}, env \in Environments :
        /\ Starts(kind, env)
        /\ backend' = [kind |-> kind, generation |-> env.models.generation,
                       order |-> IF kind = "sdk" THEN env.sdkOrder ELSE env.order]
  BY DEF StartClient
<1>2. CASE kind = "sdk"
  BY <1>1, <1>2, TeleopAssumption DEF Starts, SdkStarts, BackendOK
<1>3. CASE kind = "retargeter"
  BY <1>1, <1>3, TeleopAssumption DEF Starts, RetargeterStarts, BackendOK
<1> QED
  BY <1>2, <1>3

(* A frame that is accepted commands what it shows.                        *)
LEMMA GloveCommands ==
  ASSUME BackendOK, GloveCommand
  PROVE  Commanded
<1>1. backend # NoBackend
  BY DEF GloveCommand
<1>2. PICK frame \in Frames :
        /\ Complete(frame.nodes) /\ IsHand(Keypoints(frame.nodes))
        /\ \E output \in Returned(Keypoints(frame.nodes)) :
             /\ Usable(backend.kind, backend.order, output)
             /\ SetJointTarget(Firmware(backend.kind, backend.order, output), Meant(frame))
  BY DEF GloveCommand
<1> DEFINE A == Angles[frame.hand]
<1>3. Depicts(frame) /\ frame.hand \in DOMAIN Angles /\ 1 \in DOMAIN NodeKeys
  BY <1>2, TeleopAssumption DEF Depicts
<1>4. Keypoints(frame.nodes) = frame.hand
  BY <1>2, <1>3, KeypointsAreTheHand
<1>5. A \in [Joints -> Int] /\ Meant(frame) = A
  BY <1>3, TeleopAssumption DEF Meant
<1>6. Solution(frame.hand) = A
  BY <1>1, <1>3 DEF Solution, BackendOK
<1>7. PICK output \in Returned(frame.hand) :
        /\ Usable(backend.kind, backend.order, output)
        /\ SetJointTarget(Firmware(backend.kind, backend.order, output), A)
  BY <1>2, <1>4, <1>5
<1>8. output = InOrder(A, backend.order)
  <2> HIDE DEF A
  <2> QED
    BY <1>1, <1>5, <1>6, <1>7, OnlyRightIsUsable DEF Returned
<1>9. Firmware(backend.kind, backend.order, output) = InProtocolOrder(A)
  <2> HIDE DEF A
  <2> QED
    BY <1>1, <1>5, <1>8, FirmwareOrder
<1>10. InProtocolOrder(A) \in Vectors /\ ByName(InProtocolOrder(A)) = A
  BY <1>5, InOrderType, ThereAndBack
<1>11. SetJointTarget(InProtocolOrder(A), ByName(InProtocolOrder(A)))
  BY <1>7, <1>9, <1>10
<1> QED
  BY <1>10, <1>11 DEF Commanded

(* Seen from the hand, teleoperation is the server and honest clients.     *)
LEMMA TeleopSteps ==
  ASSUME BackendOK, [TeleopNext]_teleopVars
  PROVE  Step \/ UNCHANGED vars
<1>1. CASE Next
  BY <1>1, ClientCommands DEF Next, Step
<1>2. CASE StartClient \/ EndClient
  BY <1>2 DEF StartClient, EndClient
<1>3. CASE GloveCommand
  BY <1>3, GloveCommands DEF Step
<1>4. CASE UNCHANGED teleopVars
  BY <1>4 DEF teleopVars, vars
<1> QED
  BY <1>1, <1>2, <1>3, <1>4 DEF TeleopNext

LEMMA BackendKept ==
  ASSUME BackendOK, [TeleopNext]_teleopVars
  PROVE  BackendOK'
<1>1. CASE UNCHANGED backend
  BY <1>1 DEF BackendOK
<1>2. CASE StartClient
  BY <1>2, StartChecks
<1>3. CASE EndClient
  BY <1>3 DEF EndClient, BackendOK
<1> QED
  BY <1>1, <1>2, <1>3 DEF TeleopNext, GloveCommand, teleopVars

(* The inductive invariant of teleoperation.                               *)
LEMMA TeleopInvariant == TeleopSpec => [](IInv /\ BackendOK)
<1>1. TeleopInit => IInv /\ BackendOK
  BY InitHolds DEF TeleopInit, BackendOK
<1>2. IInv /\ BackendOK /\ [TeleopNext]_teleopVars => (IInv /\ BackendOK)'
  BY TeleopSteps, BackendKept, StepPreserves, StutterPreserves
<1> QED
  BY <1>1, <1>2, PTL DEF TeleopSpec

(***************************************************************************)
(* From manus_keypoints.py over the adapter and joint_order.py to the      *)
(* actuators of mujoco_scene.py, no joint is mixed up with another: each   *)
(* one runs toward what the glove shows of it, whatever solver was         *)
(* admitted and however often it was replaced.                             *)
(***************************************************************************)
THEOREM GloveFollowed == TeleopSpec => []FollowsCommand
<1>1. IInv => FollowsCommand
  BY DEF IInv
<1> QED
  BY <1>1, TeleopInvariant, PTL

(***************************************************************************)
(* sim_hand_worker.py:90-103: no frame of a glove moves a hand that is     *)
(* held after its disarm; only a reset of the simulation lets it go.       *)
(***************************************************************************)
THEOREM GloveCannotWake == TeleopSpec => []DisarmedHolds
<1>1. IInv => DisarmedHolds
  BY DEF IInv
<1> QED
  BY <1>1, TeleopInvariant, PTL

(***************************************************************************)
(* sim_hand_worker.py:92-95: a glove is no reason either for a hand to be  *)
(* driven that nobody asked to; a disarm that could not read the scene is. *)
(***************************************************************************)
THEOREM GloveIsNoReason == TeleopSpec => []DrivenOnlyUnread
<1>1. IInv => DrivenOnlyUnread
  BY DEF IInv
<1> QED
  BY <1>1, TeleopInvariant, PTL

(***************************************************************************)
(* joint_order.py, sim_hand_worker.py, mujoco_scene.py: whatever a solver  *)
(* returns, what gets to the server keeps the types of the server.         *)
(***************************************************************************)
THEOREM GloveTypes == TeleopSpec => []TypeOK
<1>1. IInv => TypeOK
  BY DEF IInv
<1> QED
  BY <1>1, TeleopInvariant, PTL

(***************************************************************************)
(* smoother.py:112-121: however the hand of the glove jumps, the actuators *)
(* of a driven hand do not.                                                *)
(***************************************************************************)
THEOREM GloveSlewBound == TeleopSpec => SlewWhileDriven
<1>1. IInv /\ BackendOK /\ [TeleopNext]_teleopVars =>
        [Drives /\ writer = "tick" => \A a \in 1 .. NumJoints : Jump(a) <= MaxStep]_vars
  BY TeleopSteps, TickJump
<1> QED
  BY <1>1, TeleopInvariant, PTL DEF TeleopSpec, SlewWhileDriven

=============================================================================
