------------------------------ MODULE Tactile ------------------------------
(***************************************************************************)
(* bridge/wuji_manus_bridge/tactile.py: which fingertip metadata is taken  *)
(* as a layout, which frames fit it, and the force that is read; and       *)
(* bridge/x86/haptics.py, which makes an intensity of a force.  A frame is *)
(* a sequence of cells, a field fills one cell.  Forces are integers, an   *)
(* intensity is given in units of force: HapticScale is full vibration.    *)
(***************************************************************************)
EXTENDS Integers, Sequences, FiniteSetsExt

CONSTANTS
  HapticScale,  \* haptic_scale_n
  Deadband,     \* deadband_n of haptics.py
  FieldTypes,   \* FIELD_FORMATS
  Official,     \* the layout of DEFAULT_POINT_STRIDE and the FALLBACK fields
  NotFinite     \* the value of a float cell that is no number

ASSUME TactileAssumption == HapticScale \in Nat \ {0} /\ Deadband \in Nat

NoDigest == -1

Names(fields) == {fields[i].name : i \in DOMAIN fields}

(* Mutant: a field may lie behind the stride.                              *)
FieldsAnywhere(fields, stride, required) ==
  /\ fields # <<>>
  /\ required \subseteq Names(fields)

(* _parse_fields returns.                                                  *)
FieldsValid(fields, stride, required) ==
  /\ fields # <<>>
  /\ \A i, j \in DOMAIN fields : fields[i].name = fields[j].name => i = j
  /\ \A i \in DOMAIN fields :
       /\ fields[i].offset \in 0 .. stride - 1
       /\ fields[i].type \in FieldTypes
       /\ fields[i].scale \in Nat \ {0}
  /\ required \subseteq Names(fields)

LayoutValid(layout) ==
  /\ layout.v = 1 /\ layout.encoding = "point_array"
  /\ {layout.points, layout.pointStride, layout.aggregateStride} \subseteq Nat \ {0}
  /\ FieldsValid(layout.pointFields, layout.pointStride, {"fx", "fy", "fz"})
  /\ FieldsValid(layout.aggregateFields, layout.aggregateStride,
                 {"fx", "fy", "fz", "temperature"})

(* format_for_finger: what a sensor says of itself is the layout of its    *)
(* frames, if it states it, and a digest.  One that states no layout is    *)
(* taken for official, and so is one whose metadata cannot be read.        *)
Understood(info) ==
  /\ info.digest = NoDigest \/ info.digest \in Nat
  /\ info.stated => LayoutValid(info.layout)

FormatOf(info) ==
  [layout |-> IF info.stated THEN info.layout ELSE Official,
   digest |-> info.digest]

Fallback == [layout |-> Official, digest |-> NoDigest]

-----------------------------------------------------------------------------
(* decode_fingertip_frame                                                  *)

PointBytes(layout) == layout.points * layout.pointStride

(* FingertipField.read for the cells that begin behind base.               *)
Read(data, base, fields, name) ==
  LET field == fields[CHOOSE i \in DOMAIN fields : fields[i].name = name]
  IN  data[base + field.offset + 1] * field.scale

Finite(data, base, fields) ==
  \A i \in DOMAIN fields : data[base + fields[i].offset + 1] # NotFinite

Bases(layout) == {i * layout.pointStride : i \in 0 .. layout.points - 1}

Decodable(data, layout) ==
  /\ Len(data) = PointBytes(layout) + layout.aggregateStride
  /\ \A base \in Bases(layout) : Finite(data, base, layout.pointFields)
  /\ Finite(data, PointBytes(layout), layout.aggregateFields)

Magnitude(x) == IF x < 0 THEN - x ELSE x

(* peak_n, and haptic_01 in units of force.                                *)
Peak(data, layout) ==
  Max({Magnitude(Read(data, base, layout.pointFields, "fz")) : base \in Bases(layout)})

(* Mutant: full vibration is no limit.                                     *)
HapticUnlimited(data, layout) ==
  LET aggregate == Read(data, PointBytes(layout), layout.aggregateFields, "fz")
  IN  Max({Peak(data, layout), Magnitude(aggregate)})

Haptic(data, layout) ==
  LET aggregate == Read(data, PointBytes(layout), layout.aggregateFields, "fz")
  IN  Min({HapticScale, Max({Peak(data, layout), Magnitude(aggregate)})})

(* finger_forces_to_manus_vibration for one finger.                        *)
Vibration(peak) == IF peak < Deadband THEN 0 ELSE Min({HapticScale, peak})

=============================================================================
