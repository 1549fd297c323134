---------------------------- MODULE MCSimTeleop ----------------------------
(* Three joints, four glove nodes, two hands and six installations.        *)
EXTENDS SimTeleop, TLC

MCProtocolNames == <<"a", "b", "c">>
MCCycle == <<"b", "c", "a">>
MCActuatorOrders == {MCProtocolNames, MCCycle}

Pose(x, y, z) == [n \in {"a", "b", "c"} |-> CASE n = "a" -> x [] n = "b" -> y [] n = "c" -> z]

MCRest == Pose(0, 1, 2)
MCPoses == {MCRest, Pose(0, 1, 0)}

(* A hand that starts where its actuators' targets start.                  *)
MCZero == Pose(0, 0, 0)
MCPosesFromZero == {MCZero, Pose(0, 1, 2)}

(* What another client may send: too short, no number.                     *)
MCCommands == {<<1, 0>>, <<0, NaN, 0>>, <<0, 1, 0>>}

MCNodeKeys == <<"wrist", "index", "pinky", "tip">>
MCBones == {<<1, 2>>, <<1, 3>>, <<2, 4>>}
MCPalm == <<2, 3>>

Open == <<<<0, 0>>, <<1, 2>>, <<-1, 2>>, <<1, 3>>>>
Fist == <<<<0, 0>>, <<1, 2>>, <<-1, 2>>, <<0, 1>>>>

MCAngles == Open :> Pose(0, 1, 2) @@ Fist :> Pose(0, 1, 0)

(* A glove at a place that shows points, listing its nodes in some order.  *)
Nodes(points, place, listing) ==
  [i \in DOMAIN listing |->
     LET k == listing[i]
     IN  [id |-> i, key |-> MCNodeKeys[k],
          at |-> <<place[1] + points[k][1], place[2] - points[k][2]>>]]

Anchor(id, at) == [id |-> id, key |-> "anchor", at |-> at]

Shows(nodes, hand, place) == [nodes |-> nodes, hand |-> hand, place |-> place]

Good == {Shows(Append(Nodes(Fist, <<3, 1>>, <<4, 3, 2, 1>>), Anchor(9, BadPoint)), Fist, <<3, 1>>),
         Shows(Nodes(Open, <<0, 0>>, <<1, 2, 3, 4>>), Open, <<0, 0>>)}

Flat == [Open EXCEPT ![2] = <<2, 0>>, ![3] = <<1, 0>>]
Collapsed == [Open EXCEPT ![4] = <<1, 2>>]
List == <<1, 2, 3, 4>>

Bad == {Shows(nodes, <<>>, <<0, 0>>) :
          nodes \in {Nodes(Open, <<0, 0>>, <<1, 2, 3>>),
                     Nodes(Flat, <<0, 0>>, List), Nodes(Collapsed, <<0, 0>>, List),
                     Nodes(Open, <<0, 0>>, <<1, 2, 3, 4, 4>>),
                     Append(Nodes(Open, <<0, 0>>, List), Anchor(2, <<0, 0>>)),
                     [Nodes(Open, <<0, 0>>, List) EXCEPT ![2].at = BadPoint]}}

MCFrames == Good \cup Bad

(* An installation of today, and what may be different about it.           *)
Today ==
  [sdk |-> <<2026, 8, 3>>, session |-> TRUE, sdkOrder |-> MCProtocolNames,
   selected |-> "wuji", imported |-> "wuji", retargeting |-> <<2026, 8, 3>>,
   models |-> [root |-> "deps", commit |-> "pinned", generation |-> "hand2_beta1",
               top |-> TRUE, clean |-> TRUE, link |-> FALSE, complete |-> TRUE],
   config |-> [commit |-> "pinned", token |-> TRUE, root |-> "deps"],
   order |-> MCCycle, actuators |-> MCProtocolNames]

Body == [Today EXCEPT !.models.generation = "hand2"]

MCEnvironments ==
  {Today, Body,
   [Today EXCEPT !.sdk = <<2026, 9>>, !.sdkOrder = MCCycle],
   [Body EXCEPT !.imported = "other"],
   [Body EXCEPT !.retargeting = <<2026, 7, 21>>],
   [Body EXCEPT !.config.root = "other"]}

MCIncompatible == {"hand2_beta1"}
MCMinimum == <<2026, 8, 3>>

============================================================================
