--------------------------- MODULE RetargetAdapter ---------------------------
(***************************************************************************)
(* bridge/x86/wuji_retargeting_adapter.py: which solver may be started on  *)
(* which installation, and how its output becomes a command in firmware    *)
(* order.  What the adapter finds on the machine is one record:            *)
(*   sdk, session      wuji-sdk's version and whether a session starts     *)
(*   selected, imported, retargeting   the checkout of wuji-retargeting,   *)
(*                     the one Python imports, and its version             *)
(*   models            the checkout of the hand's models: its root, commit *)
(*                     and generation, whether it is the top of the        *)
(*                     checkout, unmodified, no link, and complete         *)
(*   config            the commit the configuration names, whether its     *)
(*                     paths use the token, and the root they lead to      *)
(*   sdkOrder, order, actuators   the joint names of the session's output, *)
(*                     of the retargeter's robot and of the MJCF           *)
(* A version is a sequence of numbers; what is missing is <<>> or "none".  *)
(***************************************************************************)
EXTENDS JointOrder

CONSTANTS
  MinimumRetargeting,  \* MINIMUM_RETARGETING_VERSION
  PinnedSdk,           \* PINNED_SDK_VERSION
  PinnedCommit,        \* PINNED_DESCRIPTION_COMMIT
  Incompatible         \* RETARGETER_INCOMPATIBLE_GENERATIONS

(* The order of Python's tuples.                                           *)
Before(v, w) ==
  \/ \E i \in DOMAIN v \cap DOMAIN w :
       v[i] < w[i] /\ \A j \in 1 .. i - 1 : v[j] = w[j]
  \/ Len(v) < Len(w) /\ \A j \in DOMAIN v : v[j] = w[j]

(* find_wuji_description_root, validate_description_checkout and           *)
(* official_hand2_model_paths return.                                      *)
ModelsValid(models) ==
  /\ models.root # "none"
  /\ models.commit = PinnedCommit
  /\ models.top /\ models.clean /\ ~ models.link
  /\ models.complete

(* find_wuji_retargeting_root and validate_official_install return.        *)
InstallValid(env) ==
  /\ env.selected # "none"
  /\ env.imported = env.selected
  /\ ~ Before(env.retargeting, MinimumRetargeting)

(* materialize_config returns: the solver and MuJoCo use one checkout.     *)
ConfigValid(env) ==
  /\ env.config.commit = PinnedCommit
  /\ env.config.token
  /\ env.config.root = env.models.root

RetargeterStarts(env) ==
  /\ InstallValid(env)
  /\ ModelsValid(env.models)
  /\ ConfigValid(env)
  /\ env.models.generation \notin Incompatible
  /\ NamesMatch(env.order, ProtocolNames)
  /\ env.actuators = ProtocolNames

(* A session that was injected has no version; only tests inject one.      *)
SdkStarts(env) == env.sdk = PinnedSdk /\ env.session

(* create_retarget_backend.                                                *)
Starts(kind, env) ==
  \/ kind = "retargeter" /\ RetargeterStarts(env)
  \/ kind = "sdk" /\ SdkStarts(env)

(* The output of the solver can be used.                                   *)
Usable(kind, order, output) ==
  FiniteVector(output, IF kind = "sdk" THEN NumJoints ELSE Len(order))

(* The one reordering, by name; the session's output needs none.           *)
Firmware(kind, order, output) ==
  IF kind = "sdk" THEN output
  ELSE Reordered(output, Permutation(order, ProtocolNames))

=============================================================================
