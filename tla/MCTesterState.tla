--------------------------- MODULE MCTesterState ---------------------------
(* Small instances of TesterState and its views: two codes that change, one a *)
(* key and one an axis that does not rest at 0, in frames of two events of    *)
(* one code or of two codes.  A device describes itself in the Xbox shape     *)
(* without a left trigger, or one hat axis and a bumper short of that and at  *)
(* rest elsewhere.                                                            *)
EXTENDS TesterViews

South == Key(304)
LeftX == Axis(0)
Shape == XboxKeys \cup XboxAxes \cup {Axis(5), Key(318)}
Described(controls, rest) == [c \in controls |-> IF c = LeftX THEN rest ELSE 0]

MCCodes == Shape
MCDescriptions == {Described(Shape, 7), Described(Shape \ {Axis(17), Key(318)}, 9)}

Change(c, v) == [code |-> c, value |-> v]
MCChangeLists == {<<Change(South, 1), Change(South, 0)>>,
                  <<Change(LeftX, 1), Change(South, 1)>>}
=============================================================================
