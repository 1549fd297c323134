--------------------------- MODULE HandInterface ---------------------------
(***************************************************************************)
(* A hand worker as its caller sees it: the two flags of ControllableHand, *)
(* the set_enabled call that is under way, and how the last one ended.     *)
(* This is the behaviour ControlAuthority relies on.                       *)
(***************************************************************************)
EXTENDS ControllableHand

VARIABLES 
  hand,     \* the two flags
  busy,     \* "idle", or the set_enabled call under way
  answer    \* how the last call ended

vars == <<hand, busy, answer>>

Init ==
  /\ hand = ColdHand
  /\ busy = "idle"
  /\ answer = "none"

(* A call that need not wait ends in the same step.                        *)
CallEnable ==
  /\ busy = "idle"
  /\ hand' \in EnableCall(hand)
  /\ \/ busy' = "enabling" /\ UNCHANGED answer
     \/ busy' = "idle" /\ answer' = "raised"
     \/ busy' = "idle" /\ answer' = "armed" /\ EnableReturns(hand')

EnableEnds ==
  /\ busy = "enabling"
  /\ busy' = "idle"
  /\ \/ EnableReturns(hand) /\ answer' = "armed" /\ UNCHANGED hand
     \/ ~ EnableReturns(hand) /\ answer' = "raised"
        /\ hand' \in EnableRaises(hand)

CallDisable ==
  /\ busy = "idle"
  /\ hand' = DisableCall(hand)
  /\ \/ busy' = "disabling" /\ UNCHANGED answer
     \/ busy' = "idle" /\ answer' = "raised" /\ hand'.hot
     \/ busy' = "idle" /\ answer' = "disarmed" /\ ~ hand'.hot

DisableEnds ==
  /\ busy = "disabling"
  /\ busy' = "idle"
  /\ \/ ~ hand.hot /\ answer' = "disarmed"
     \/ hand.hot /\ answer' = "raised"
  /\ UNCHANGED hand

Loop ==
  /\ hand' \in LoopSteps(hand)
  /\ UNCHANGED <<busy, answer>>

Next == CallEnable \/ EnableEnds \/ CallDisable \/ DisableEnds \/ Loop

Spec == Init /\ [][Next]_vars

=============================================================================
