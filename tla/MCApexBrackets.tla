---------------------------- MODULE MCApexBrackets ----------------------------
(* Two lots, six price levels of about 4 %: brackets two or three levels    *)
(* from the entry, one level where the ATR is unknown.                      *)
EXTENDS ApexBrackets

MCDistance == {2, 3}
=============================================================================
