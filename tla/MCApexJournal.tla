---------------------------- MODULE MCApexJournal ----------------------------
(* Instances of ApexJournal for TLC.                                       *)
EXTENDS ApexJournal
=============================================================================
