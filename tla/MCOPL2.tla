------------------------------- MODULE MCOPL2 -------------------------------
(***************************************************************************)
(* Values for the constants of OPL2: the first instrument of the library   *)
(* and one that sets every bit.                                            *)
(***************************************************************************)
EXTENDS OPL2

Accordion == <<0, 36, 79, 242, 11, 14, 49, 0, 82, 11, 0>>
AllOnes   == <<0, 255, 255, 255, 255, 255, 255, 255, 255, 255, 255>>
Library   == {Accordion, AllOnes}
=============================================================================
