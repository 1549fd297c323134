--------------------------- MODULE JointSmoother ---------------------------
(***************************************************************************)
(* JointSmoother of bridge/wuji_manus_bridge/smoother.py: a first-order    *)
(* low pass toward the latest target, then a limit on the step of each     *)
(* joint.  Positions are integers, the unit is the grid on which they are  *)
(* looked at.  The filter's gain lies in (0, 1], so its output lies        *)
(* between the last output and the target; on the grid it may round to     *)
(* either, and each joint rounds for itself.                               *)
(***************************************************************************)
EXTENDS Integers

CONSTANT MaxStep   \* max_joint_speed_rad_s / control_hz

ASSUME MaxStepAssumption == MaxStep \in Nat \ {0}

(* reset(positions): filter and target start at the given pose.            *)
Seeded(pose) == [target |-> pose, filtered |-> pose]

(* set_target: the filter keeps the output it had.                         *)
WithTarget(smoother, pose) == [smoother EXCEPT !.target = pose]

LowPass(y, x) == IF y <= x THEN y .. x ELSE x .. y

(* Mutant: the limit is applied in one direction only.                     *)
SlewUp(y, z) == IF z - y > MaxStep THEN y + MaxStep ELSE z

Slew(y, z) ==
  IF z - y > MaxStep THEN y + MaxStep
  ELSE IF y - z > MaxStep THEN y - MaxStep
  ELSE z

(* What step() may make of one joint, and of the smoother.                 *)
Outputs(y, x) == {Slew(y, z) : z \in LowPass(y, x)}

Stepped(smoother) ==
  LET joints == DOMAIN smoother.filtered
      reach == UNION {Outputs(smoother.filtered[i], smoother.target[i]) : i \in joints}
  IN  {[smoother EXCEPT !.filtered = f] :
         f \in {g \in [joints -> reach] : \A i \in joints :
                  g[i] \in Outputs(smoother.filtered[i], smoother.target[i])}}

=============================================================================
