----------------------------- MODULE RoadSides -----------------------------
(* The two borders of the road, which the code names left and right or 0   *)
(* and 1, and the limits of an index (gl_common.cpp).                      *)
EXTENDS Integers

Sides == {"left", "right"}
Other(s) == IF s = "left" THEN "right" ELSE "left"
Both(v) == [s \in Sides |-> v]

clip(n, low, up) == IF n > up THEN up ELSE IF n < low THEN low ELSE n
=============================================================================
