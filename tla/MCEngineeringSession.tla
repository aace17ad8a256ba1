------------------------ MODULE MCEngineeringSession ------------------------
(* Two tasks: the first may be interrupted once and go on, the second is   *)
(* escalated at once.                                                      *)
EXTENDS EngineeringSession, TLC

CONSTANTS t1, t2

MCTask == {t1, t2}
MCRetries == t1 :> 1 @@ t2 :> 0
=============================================================================
