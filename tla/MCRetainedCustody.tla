------------------------- MODULE MCRetainedCustody --------------------------
(* One authority file and a kit of up to two files, and two changes of the   *)
(* host: one that spoils a comparison and one that tries to hide it.         *)
EXTENDS RetainedCustody

Authority == {"capacity"}
KitNames == {"plan", "probe"}
=============================================================================
