------------------------------ MODULE MCRelease ------------------------------
(* Instances of Release for TLC.                                           *)
EXTENDS Release

CONSTANTS c1, c2, c3, config, module

\* The first release changes the configuration; the second too, and adds a
\* module; the third deletes the module.
Changes == [c \in Candidate |-> CASE c = c1 -> {config}
                                  [] c = c2 -> {config, module}
                                  [] OTHER -> {module}]

AllStaged == [c \in Candidate |-> {}]
Deletion  == [c \in Candidate |-> IF c = c3 THEN {module} ELSE {}]
=============================================================================
