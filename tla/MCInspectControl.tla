--------------------------- MODULE MCInspectControl ---------------------------
EXTENDS InspectControl

CONSTANTS panel, field1, field2, data1, data2, canvas1, canvas2, v1, v2, v3

(* The validator of the data clamps v3 to v2.                             *)
MCAdjust == [v \in Values |-> IF v = v3 THEN v2 ELSE v]

(* field1 has the default v1; the other controls have none.               *)
MCDefaults == [c \in Controls |-> IF c = field1 THEN v1 ELSE NULL]
====
