------------------------------ MODULE SimTeleop ------------------------------
(***************************************************************************)
(* Teleoperation of the simulated hand: the frames of a glove go through   *)
(* ManusKeypoints, a solver and RetargetAdapter to the hand of SimHand.    *)
(* The client checks its solver when it starts and may be started again    *)
(* on an installation that has changed.  Threads and sockets between the   *)
(* two processes are in ManusWujiBridge and SafeClientSession; here a      *)
(* frame is converted, solved and accepted in one step.                    *)
(***************************************************************************)
EXTENDS SimHand, ManusKeypoints, RetargetAdapter

CONSTANTS
  Frames,        \* what gloves send: the nodes, the hand they show and its place
  Environments,  \* installations the client may find
  Angles,        \* external: the joint angles of each hand, by name
  Limit          \* external: the end of a joint's range

(* A frame that shows a hand has each node of it where the glove sees it:  *)
(* at the hand's place, its Y axis pointing the other way.                 *)
Depicts(frame) ==
  /\ frame.hand \in DOMAIN Angles
  /\ frame.hand \in [DOMAIN NodeKeys -> Int \X Int] /\ frame.hand[1] = <<0, 0>>
  /\ frame.place \in Int \X Int
  /\ \A k \in DOMAIN NodeKeys : \A i \in NodesOf(frame.nodes, NodeKeys[k]) :
       frame.nodes[i].at = <<frame.place[1] + frame.hand[k][1],
                             frame.place[2] - frame.hand[k][2]>>

(* Of the world outside: what passes for a hand is one, and the pinned SDK *)
(* answers in firmware order, as the adapter says.                         *)
ASSUME TeleopAssumption ==
  /\ 1 \in DOMAIN NodeKeys
  /\ Angles \in [DOMAIN Angles -> [Joints -> Int]]
  /\ \A frame \in Frames :
       Complete(frame.nodes) /\ IsHand(Keypoints(frame.nodes)) => Depicts(frame)
  /\ \A env \in Environments :
       /\ env.order \in Seq(NamesIn(env.order))
       /\ env.sdk = PinnedSdk => env.sdkOrder = ProtocolNames

VARIABLE backend  \* the solver that runs: kind, joint order, generation

teleopVars == <<actuators, pose, diverged, ctrl, enabled, smoother, ctl, halt, auth,
                main, seen, resume, halted, asked, unread, held, command, writer,
                backend>>

NoBackend == [kind |-> "none"]

Pinned == [n \in Joints |-> Limit]

(* What is known of the solvers: the pinned SDK answers in firmware order, *)
(* another version in whatever order it likes; the retargeter answers in   *)
(* the order of its robot model, and on an incompatible generation keeps   *)
(* its joints at their limits.  A set of points that is no hand leads      *)
(* nowhere.                                                                *)
Solution(points) ==
  IF points \notin DOMAIN Angles THEN Pinned
  ELSE IF backend.kind = "retargeter" /\ backend.generation \in Incompatible THEN Pinned
  ELSE Angles[points]

InOrder(byName, order) == [i \in DOMAIN order |-> byName[order[i]]]

(* It may also return something else than numbers for all joints.          *)
Returned(points) ==
  LET right == InOrder(Solution(points), backend.order)
  IN  {right, Tail(right), [right EXCEPT ![1] = NaN]}

TeleopInit == Init /\ backend = NoBackend

StartClient ==
  /\ backend = NoBackend
  /\ \E kind \in {"sdk", "retargeter"}, env \in Environments :
       /\ Starts(kind, env)
       /\ backend' = [kind |-> kind, generation |-> env.models.generation,
                      order |-> IF kind = "sdk" THEN env.sdkOrder ELSE env.order]
  /\ UNCHANGED vars

EndClient ==
  /\ backend # NoBackend
  /\ backend' = NoBackend
  /\ UNCHANGED vars

(* What the hand a frame shows means for the joints.                       *)
Meant(frame) == IF frame.hand \in DOMAIN Angles THEN Angles[frame.hand] ELSE NoPose

GloveCommand ==
  /\ backend # NoBackend
  /\ \E frame \in Frames :
       /\ Complete(frame.nodes)
       /\ IsHand(Keypoints(frame.nodes))
       /\ \E output \in Returned(Keypoints(frame.nodes)) :
            /\ Usable(backend.kind, backend.order, output)
            /\ SetJointTarget(Firmware(backend.kind, backend.order, output), Meant(frame))
  /\ UNCHANGED backend

TeleopNext ==
  \/ Next /\ UNCHANGED backend
  \/ StartClient \/ EndClient \/ GloveCommand

TeleopSpec == TeleopInit /\ [][TeleopNext]_teleopVars

=============================================================================
