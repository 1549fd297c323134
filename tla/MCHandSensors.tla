--------------------------- MODULE MCHandSensors ---------------------------
(* Two hands, two addresses, one fingertip, three ways to describe it.     *)
EXTENDS HandSensors, TLC

MCWanted == <<"left", "right">>

MCHandedness == [d \in {"L", "R"} |-> IF d = "L" THEN "left" ELSE "right"]

MCTips == [d \in {"L", "R"} |-> IF d = "L" THEN {"thumb"} ELSE {}]

Field(name, offset, scale) ==
  [name |-> name, offset |-> offset, type |-> "i16", scale |-> scale]

Fields(x, y, z, scale) == <<Field("fx", x, 1), Field("fy", y, 1), Field("fz", z, scale)>>

Layout(points, fields, temperature) ==
  [v |-> 1, encoding |-> "point_array", points |-> points,
   pointStride |-> 3, aggregateStride |-> 4, pointFields |-> fields,
   aggregateFields |-> Append(fields, Field("temperature", temperature, 1))]

MCOfficial == Layout(2, Fields(0, 1, 2, 1), 3)

Says(coding, stated, digest) == [layout |-> coding, stated |-> stated, digest |-> digest]

(* The official layout by name only, one of the same length, and one that  *)
(* reads behind its stride.                                                *)
MCInfos == {Says(MCOfficial, FALSE, 1), Says(Layout(2, Fields(2, 1, 0, 2), 3), TRUE, 2),
            Says(Layout(2, Fields(0, 1, 2, 1), 4), TRUE, 3)}

MCTypes == {"i8", "u8", "i16", "u16", "i32", "u32", "f32"}

============================================================================
