------------------------------ MODULE MCViews ------------------------------
(* Views for TLC: runs 1 and 2 are of the same second and have names in    *)
(* the wrong order.                                                        *)
EXTENDS Views

MCSlugs == {1, 2}
MCRunIDs == {1, 2}
MCStartOf == <<1, 0>>
=============================================================================
