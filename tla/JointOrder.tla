----------------------------- MODULE JointOrder -----------------------------
(***************************************************************************)
(* bridge/x86/joint_order.py: the reordering of joint values by name.  An  *)
(* order is a sequence of joint names; a permutation gives, for each       *)
(* position of the destination, the position of that name in the source.   *)
(***************************************************************************)
EXTENDS Integers, Sequences

CONSTANTS
  ProtocolNames,  \* hand2_protocol_joint_names: the firmware's order
  NaN             \* a value that is no finite number

NamesIn(order) == {order[i] : i \in DOMAIN order}

Distinct(order) == \A i, j \in DOMAIN order : order[i] = order[j] => i = j

(* strict_joint_name_permutation returns; in every other case it raises.   *)
NamesMatch(source, destination) ==
  /\ source # <<>> /\ destination # <<>>
  /\ Distinct(source) /\ Distinct(destination)
  /\ Len(source) = Len(destination)
  /\ NamesIn(source) = NamesIn(destination)

PositionOf(name, order) == CHOOSE k \in DOMAIN order : order[k] = name

(* Mutant: the map from source to destination positions.                   *)
InversePermutation(source, destination) ==
  [i \in DOMAIN source |-> PositionOf(source[i], destination)]

Permutation(source, destination) ==
  [i \in DOMAIN destination |-> PositionOf(destination[i], source)]

(* values[permutation] of numpy.                                           *)
Reordered(values, permutation) ==
  [i \in DOMAIN permutation |-> values[permutation[i]]]

NumJoints == Len(ProtocolNames)
Joints == NamesIn(ProtocolNames)

(* A vector in protocol order and the same values by joint name.           *)
InProtocolOrder(byName) == [i \in 1 .. NumJoints |-> byName[ProtocolNames[i]]]
ByName(vector) == [n \in Joints |-> vector[PositionOf(n, ProtocolNames)]]

(* Mutant: only the number of values is looked at.                         *)
HasLength(values, n) == DOMAIN values = 1 .. n

(* normalize_positions of protocol.py and _validated_firmware_output of    *)
(* the adapter: exactly n finite numbers.                                  *)
FiniteVector(values, n) ==
  /\ DOMAIN values = 1 .. n
  /\ \A i \in DOMAIN values : values[i] # NaN

=============================================================================
