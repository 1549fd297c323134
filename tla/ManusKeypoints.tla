--------------------------- MODULE ManusKeypoints ---------------------------
(***************************************************************************)
(* bridge/x86/manus_keypoints.py: from the raw nodes of a glove to the     *)
(* points a solver takes.  A node has an id, the pair of chain and joint   *)
(* that says what it is (its key), and a position; a plane of integers is  *)
(* enough for the geometry.                                                *)
(***************************************************************************)
EXTENDS Integers, Sequences

CONSTANTS
  NodeKeys,  \* MEDIAPIPE_NODE_KEYS, in the solver's order, the wrist first
  Bones,     \* MEDIAPIPE_BONES: pairs of positions in NodeKeys
  Palm,      \* the positions of the two rays that span the palm
  BadPoint   \* a position that is not finite

Minus(p, q) == <<p[1] - q[1], p[2] - q[2]>>

(* The glove's Y axis points the other way.                                *)
Mirrored(p) == <<p[1], - p[2]>>

NodesOf(nodes, key) == {i \in DOMAIN nodes : nodes[i].key = key}

(* raw_nodes_to_mediapipe does not raise: an id is never used to select a  *)
(* node, but no two nodes may share one, the extra ones included.          *)
Complete(nodes) ==
  /\ \A i, j \in DOMAIN nodes : nodes[i].id = nodes[j].id => i = j
  /\ \A k \in DOMAIN NodeKeys : \E i \in DOMAIN nodes :
       /\ NodesOf(nodes, NodeKeys[k]) = {i}
       /\ nodes[i].at # BadPoint

(* The points of a complete frame, relative to its wrist.                  *)
Keypoints(nodes) ==
  LET at(k) == Mirrored(nodes[CHOOSE i \in NodesOf(nodes, NodeKeys[k]) : TRUE].at)
  IN  [k \in DOMAIN NodeKeys |-> Minus(at(k), at(1))]

(* validate_mediapipe_keypoints: no bone has collapsed and the palm spans  *)
(* an area.                                                                *)
IsHand(points) ==
  LET index == points[Palm[1]]
      pinky == points[Palm[2]]
  IN  /\ \A bone \in Bones : points[bone[1]] # points[bone[2]]
      /\ index[1] * pinky[2] # index[2] * pinky[1]

=============================================================================
