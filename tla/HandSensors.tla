----------------------------- MODULE HandSensors -----------------------------
(***************************************************************************)
(* How BridgeServer finds its hands and what it hears from them: discovery *)
(* of the hands on the network, HandWorker.connect with the identity check *)
(* and the subscriptions, the SDK's callbacks, disconnect after a failure, *)
(* and the way of a touch from a fingertip to the client's glove.          *)
(* The control loop of a hand is in HandWorker, the accept loop and the    *)
(* shutdown of the server are in BridgeServer.                             *)
(*                                                                         *)
(* Between any two steps the network may give a hand another address, and  *)
(* a fingertip sensor may change the layout of its frames.                 *)
(***************************************************************************)
EXTENDS Tactile

CONSTANTS
  Wanted,      \* the sides of --sides, in the order they are started
  Addresses,   \* addresses on the network
  Devices,     \* external: the hands there are
  Handedness,  \* external: what each one reports: a side or something else
  Fingers,     \* FINGERTIP_METHODS
  Tips,        \* external: which of them each device has
  Infos,       \* external: what a sensor says of its frames, when it can
  Touches      \* external: forces on a fingertip

Sides == {Wanted[i] : i \in DOMAIN Wanted}
Felt == {d \in Devices : Tips[d] # {}}
None == "none"

ASSUME SensorsAssumption ==
  /\ Wanted \in Seq(Sides) /\ Wanted # <<>>
  /\ \A i, j \in DOMAIN Wanted : Wanted[i] = Wanted[j] => i = j
  /\ None \notin Sides \cup Addresses \cup Devices
  /\ Touches \subseteq Nat /\ Tips \in [Devices -> SUBSET Fingers]
  /\ \A info \in Infos : ~ info.stated => info.layout = Official

(***************************************************************************)
(* What is taken for granted of the frames.  The constants of tactile.py   *)
(* are a layout its own parser accepts; what a sensor writes, understood   *)
(* or not, has cells of some size with an fz among their fields; forces    *)
(* are given in a unit that makes every scale a whole number and a touch a *)
(* multiple of it; and a digest stands for one layout, as the comparison   *)
(* in hand_worker.py:308-321 relies on.                                    *)
(***************************************************************************)
Scaled(fields) ==
  /\ "fz" \in Names(fields)
  /\ \A i \in DOMAIN fields :
       /\ fields[i].scale \in Nat \ {0}
       /\ fields[i].name = "fz" => \A touch \in Touches : touch % fields[i].scale = 0

ASSUME FrameAssumption ==
  /\ LayoutValid(Official)
  /\ \A enc \in {Official} \cup {info.layout : info \in Infos} :
       /\ {enc.points, enc.pointStride, enc.aggregateStride} \subseteq Nat
       /\ Scaled(enc.pointFields) /\ Scaled(enc.aggregateFields)
  /\ \A i, j \in Infos :
       i.digest = j.digest /\ i.digest # NoDigest => i.layout = j.layout

VARIABLES
  at,          \* external: the device at each address
  layout,      \* external: how the sensors of each device encode frames now
  main,        \* where the main thread is
  turn,        \* the side that start_hands is at, a position in Wanted
  address,     \* the address of each side
  probing,     \* addresses of the scan that are still to be probed
  found,       \* discovered: the address of each side
  todo,        \* fingertips whose subscription connect() has still to make
  hand,        \* the device behind _hand
  stateSub,    \* _state_sub is open
  ready,       \* _state_ready
  subs,        \* fingertips with an open subscription
  format,      \* _tactile_formats
  finger,      \* _fingers, with the touch each one comes from
  connected,   \* _connected
  glove        \* the intensities the client was last told, with their touch

netVars == <<at, layout>>
findVars == <<address, probing, found>>
handVars == <<hand, stateSub, ready, subs, format, connected>>
feelVars == <<finger, glove>>
vars == <<at, layout, main, turn, address, probing, found, todo, hand, stateSub,
          ready, subs, format, finger, connected, glove>>

(* What a fingertip or a glove shows: the peak, the intensity, the touch   *)
(* it was measured from, and whether both ends named the frame's layout.   *)
Feel(peak, power, touch, signed) ==
  [peak |-> peak, power |-> power, touch |-> touch, signed |-> signed]
Nothing == Feel(0, 0, 0, TRUE)

Formats == {FormatOf(info) : info \in {i \in Infos : Understood(i)}} \cup {Fallback}

TypeOK ==
  /\ at \in [Addresses -> Devices \cup {None}] /\ layout \in [Felt -> Infos]
  /\ main \in {"scan", "probe", "connect", "identify", "state", "fingers", "loop",
               "release", "serve", "down"}
  /\ turn \in 1 .. Len(Wanted) + 1
  /\ address \in [Sides -> Addresses \cup {None}]
  /\ probing \subseteq Addresses /\ found \in [Sides -> Addresses \cup {None}]
  /\ todo \subseteq Fingers
  /\ hand \in [Sides -> Devices \cup {None}]
  /\ \A flags \in {stateSub, ready, connected} : flags \in [Sides -> BOOLEAN]
  /\ subs \in [Sides -> SUBSET Fingers]
  /\ format \in [Sides -> [Fingers -> Formats]]
  /\ \A s \in Sides, f \in Fingers :
       /\ finger[s][f].power \in 0 .. HapticScale /\ finger[s][f].touch \in Touches \cup {0}
       /\ glove[s][f].power \in 0 .. HapticScale

Everywhere(x) == [s \in Sides |-> x]

(* --left-ip and --right-ip may name the address of a side.                *)
Init ==
  /\ at \in [Addresses -> Devices \cup {None}]
  /\ \A a, b \in Addresses : at[a] = at[b] /\ at[a] # None => a = b
  /\ layout \in [Felt -> Infos]
  /\ main = "scan" /\ turn = 1
  /\ address \in [Sides -> Addresses \cup {None}]
  /\ probing = {} /\ found = Everywhere(None) /\ todo = {}
  /\ hand = Everywhere(None) /\ stateSub = Everywhere(FALSE)
  /\ ready = Everywhere(FALSE) /\ subs = Everywhere({})
  /\ format = Everywhere([f \in Fingers |-> Fallback])
  /\ connected = Everywhere(FALSE)
  /\ finger = Everywhere([f \in Fingers |-> Nothing])
  /\ glove = Everywhere([f \in Fingers |-> Nothing])

(* The side whose turn it is.                                              *)
S == Wanted[turn]

-----------------------------------------------------------------------------
(* The network and the sensors                                             *)

(* A hand leaves, or comes to, or moves to an address that is free; a      *)
(* connection that is open does not notice.                                *)
Readdress ==
  /\ main \in {"scan", "probe", "connect"}
  /\ \E a \in Addresses, d \in Devices \cup {None} :
       /\ at[a] # d
       /\ at' = [b \in Addresses |-> IF b = a THEN d ELSE IF at[b] = d THEN None ELSE at[b]]
  /\ UNCHANGED <<layout, main, turn, findVars, todo, handVars, feelVars>>

LayoutChanges ==
  /\ \E d \in Felt, info \in Infos :
       layout[d] # info /\ layout' = [layout EXCEPT ![d] = info]
  /\ UNCHANGED <<at, main, turn, findVars, todo, handVars, feelVars>>

-----------------------------------------------------------------------------
(* BridgeServer.__init__: discover_hand2_devices                           *)

Unnamed == {s \in Sides : address[s] = None}

(* The scan lists the hands; without one, or when it is not needed, there  *)
(* is nothing to probe.                                                    *)
Scan ==
  /\ main = "scan"
  /\ LET there == {a \in Addresses : at[a] # None}
     IN  \/ Unnamed = {} /\ main' = "connect" /\ UNCHANGED probing
         \/ Unnamed # {} /\ there = {} /\ main' = "down" /\ UNCHANGED probing
         \/ Unnamed # {} /\ there # {} /\ main' = "probe" /\ probing' = there
  /\ UNCHANGED <<netVars, turn, address, found, todo, handVars, feelVars>>

(* One hand after the other is asked for its side.  It may be gone, may    *)
(* not answer, may report no side, or the side of another hand.            *)
Probe ==
  /\ main = "probe" /\ probing # {}
  /\ \E a \in probing :
       /\ probing' = probing \ {a}
       /\ \/ main' = "down" /\ UNCHANGED found
          \/ /\ at[a] # None
             /\ LET side == Handedness[at[a]]
                IN  /\ side \in {"left", "right"}
                    /\ side \in Sides => found[side] = None
                    /\ found' = [s \in Sides |-> IF s = side THEN a ELSE found[s]]
             /\ UNCHANGED main
  /\ UNCHANGED <<netVars, turn, address, todo, handVars, feelVars>>

Resolve ==
  /\ main = "probe" /\ probing = {}
  /\ address' = [s \in Sides |-> IF address[s] = None THEN found[s] ELSE address[s]]
  /\ main' = IF \E s \in Unnamed : found[s] = None THEN "down" ELSE "connect"
  /\ UNCHANGED <<netVars, turn, probing, found, todo, handVars, feelVars>>

-----------------------------------------------------------------------------
(* start_hands and HandWorker.connect                                      *)

(* The hand at the address is connected to, or the call raises, or returns *)
(* a handle that is not connected, which is dropped.                       *)
Connect ==
  /\ main = "connect" /\ turn <= Len(Wanted)
  /\ \/ main' = "release" /\ UNCHANGED hand
     \/ /\ at[address[S]] # None
        /\ hand' = [hand EXCEPT ![S] = at[address[S]]]
        /\ main' = "identify"
  /\ UNCHANGED <<netVars, turn, findVars, todo, stateSub, ready, subs, format,
                 connected, feelVars>>

(* Mutant: what the discovery found is believed.                           *)
IdentifyBlind ==
  /\ main = "identify"
  /\ main' = "state"
  /\ UNCHANGED <<netVars, turn, findVars, todo, handVars, feelVars>>

(* handedness() and online_joints_count(), and the disconnect() that gives *)
(* up a hand which does not pass.                                          *)
Identify ==
  /\ main = "identify"
  /\ \/ /\ Handedness[hand[S]] = S
        /\ main' = "state"
        /\ UNCHANGED hand
     \/ /\ main' = "release"      \* another side, missing joints, no answer
        /\ \/ hand' = [hand EXCEPT ![S] = None]
           \/ UNCHANGED hand      \* its disconnect() raises as well
  /\ UNCHANGED <<netVars, turn, findVars, todo, stateSub, ready, subs, format,
                 connected, feelVars>>

SubscribeState ==
  /\ main = "state"
  /\ \/ stateSub' = [stateSub EXCEPT ![S] = TRUE] /\ main' = "fingers" /\ todo' = Tips[hand[S]]
     \/ main' = "release" /\ UNCHANGED <<stateSub, todo>>
  /\ UNCHANGED <<netVars, turn, findVars, hand, ready, subs, format, connected, feelVars>>

(* get_fingertip_info and subscribe of one fingertip.  Metadata that is    *)
(* there and not understood ends connect(); a subscription that fails does *)
(* not.                                                                    *)
SubscribeFinger ==
  /\ main = "fingers" /\ todo # {}
  /\ \E f \in todo :
       LET info == layout[hand[S]]
           Subscribes(fmt) ==
             /\ format' = [format EXCEPT ![S][f] = fmt]
             /\ todo' = todo \ {f}
             /\ subs' = [subs EXCEPT ![S] = @ \cup {f}] \/ UNCHANGED subs
             /\ UNCHANGED main
       IN  \/ Subscribes(Fallback)
           \/ Understood(info) /\ Subscribes(FormatOf(info))
           \/ ~ Understood(info) /\ main' = "release" /\ UNCHANGED <<subs, format, todo>>
  /\ UNCHANGED <<netVars, turn, findVars, hand, stateSub, ready, connected, feelVars>>

Connected ==
  /\ main = "fingers" /\ todo = {}
  /\ connected' = [connected EXCEPT ![S] = TRUE]
  /\ main' = "loop"
  /\ UNCHANGED <<netVars, turn, findVars, todo, hand, stateSub, ready, subs, format,
                 feelVars>>

(* The next side, or the end of start_hands.                               *)
NextTurn ==
  /\ turn' = turn + 1
  /\ main' = IF turn < Len(Wanted) THEN "connect"
             ELSE IF \E s \in Sides : connected'[s] THEN "serve"
             ELSE "down"

StartLoop ==
  /\ main = "loop"
  /\ UNCHANGED <<netVars, findVars, todo, handVars, feelVars>>
  /\ \/ NextTurn
     \/ main' = "release" /\ UNCHANGED turn

(* Mutant: only the subscriptions are closed.                              *)
ReleaseKeepsHand ==
  /\ main = "release"
  /\ subs' = [subs EXCEPT ![S] = {}]
  /\ stateSub' = [stateSub EXCEPT ![S] = FALSE]
  /\ connected' = [connected EXCEPT ![S] = FALSE]
  /\ NextTurn
  /\ todo' = {}
  /\ UNCHANGED <<netVars, findVars, hand, ready, format, feelVars>>

(* disconnect() after a failure.  A fingertip's subscription that cannot   *)
(* be closed ends with its hand; when the state subscription or the hand   *)
(* cannot be closed the exception leaves start_hands and main().           *)
Release ==
  /\ main = "release"
  /\ connected' = [connected EXCEPT ![S] = FALSE]
  /\ todo' = {}
  /\ \/ /\ subs' = [subs EXCEPT ![S] = {}]
        /\ stateSub' = [stateSub EXCEPT ![S] = FALSE]
        /\ hand' = [hand EXCEPT ![S] = None]
        /\ NextTurn
     \/ /\ hand[S] # None
        /\ \E open \in SUBSET subs[S] : subs' = [subs EXCEPT ![S] = open]
        /\ main' = "down"
        /\ UNCHANGED <<turn, stateSub, hand>>
  /\ UNCHANGED <<netVars, findVars, ready, format, feelVars>>

-----------------------------------------------------------------------------
(* The SDK's callbacks                                                     *)

(* _state_cb with a frame of all joints; an invalid one is dropped.        *)
JointState ==
  /\ \E s \in Sides : stateSub[s] /\ ~ ready[s] /\ ready' = [ready EXCEPT ![s] = TRUE]
  /\ UNCHANGED <<netVars, main, turn, findVars, todo, hand, stateSub, subs, format,
                 connected, feelVars>>

(* How a sensor writes a touch: every point and the aggregate carry it in  *)
(* their fz, the rest of a cell is something else.                         *)
Cells(fields, stride, touch) ==
  LET fz == fields[CHOOSE i \in DOMAIN fields : fields[i].name = "fz"]
  IN  [c \in 1 .. stride |->
         IF c = fz.offset + 1 THEN touch \div fz.scale ELSE HapticScale]

Written(enc, touch) ==
  LET points == [p \in 1 .. enc.points |-> Cells(enc.pointFields, enc.pointStride, touch)]
      cells == [c \in 1 .. PointBytes(enc) |->
                  points[((c - 1) \div enc.pointStride) + 1][((c - 1) % enc.pointStride) + 1]]
  IN  cells \o Cells(enc.aggregateFields, enc.aggregateStride, touch)

(* Mutant: the digest of a frame is not compared.                          *)
AnyDigest(fmt, digest) == TRUE

SameDigest(fmt, digest) ==
  fmt.digest = NoDigest \/ digest = NoDigest \/ fmt.digest = digest

(* A frame in the layout of now; its digest may be left out.               *)
TouchFrame ==
  /\ \E s \in Sides : \E f \in subs[s], touch \in Touches :
       LET info == layout[hand[s]]
           fmt == format[s][f]
           data == Written(info.layout, touch)
       IN  \E digest \in {info.digest, NoDigest} :
             /\ SameDigest(fmt, digest)
             /\ Decodable(data, fmt.layout)
             /\ finger' = [finger EXCEPT ![s][f] =
                  Feel(Peak(data, fmt.layout), Haptic(data, fmt.layout), touch,
                       fmt.digest # NoDigest /\ digest # NoDigest)]
  /\ UNCHANGED <<netVars, main, turn, findVars, todo, handVars, glove>>

(* The server pushes snapshot_tactile, which has haptic_powers; the client *)
(* tells its glove.  Of a message without them it would take the peaks.    *)
PushTactile ==
  /\ main = "serve"
  /\ \E s \in {t \in Sides : connected[t]} :
       \/ glove' = [glove EXCEPT ![s] = finger[s]]
       \/ glove' = [glove EXCEPT ![s] =
            [f \in Fingers |-> [finger[s][f] EXCEPT !.power = Vibration(finger[s][f].peak)]]]
  /\ UNCHANGED <<netVars, main, turn, findVars, todo, handVars, finger>>

-----------------------------------------------------------------------------
StartHands ==
  \/ Connect \/ Identify \/ SubscribeState \/ SubscribeFinger \/ Connected
  \/ StartLoop \/ Release

Next ==
  \/ Readdress \/ LayoutChanges
  \/ Scan \/ Probe \/ Resolve \/ StartHands
  \/ JointState \/ TouchFrame \/ PushTactile

Spec == Init /\ [][Next]_vars

-----------------------------------------------------------------------------
(* Properties                                                              *)

(***************************************************************************)
(* However addresses move between the discovery and the connections, a     *)
(* side that is connected talks to the hand of that side                   *)
(* (hand_worker.py:64-84, 186-199).                                        *)
(***************************************************************************)
RightHand ==
  \A s \in Sides : connected[s] => hand[s] \in Devices /\ Handedness[hand[s]] = s

(***************************************************************************)
(* The server serves only with a hand it reached, and what is left of a    *)
(* hand that failed on the way can call nothing back                       *)
(* (server.py:92-103, hand_worker.py:456-495).                             *)
(***************************************************************************)
NothingLeftBehind ==
  main = "serve" =>
    /\ \E s \in Sides : connected[s]
    /\ \A s \in Sides : ~ connected[s] =>
         hand[s] = None /\ ~ stateSub[s] /\ subs[s] = {}

(***************************************************************************)
(* When the hand names the layout of its frames, the force that is stored  *)
(* and the intensity the glove gets are those of a touch on that finger,   *)
(* whenever the sensor changes its layout                                  *)
(* (hand_worker.py:304-337, tactile.py:216-264).                           *)
(***************************************************************************)
TouchIsReal ==
  \A s \in Sides, f \in Fingers : \A felt \in {finger[s][f], glove[s][f]} :
    felt.signed => felt.power \in {Min({HapticScale, felt.touch}), Vibration(felt.touch)}

=============================================================================
