------------------------------ MODULE Staging ------------------------------
(***************************************************************************)
(* What a release may do to the pointer of the active release, without     *)
(* gates, files, locks or processes: releases come one at a time under     *)
(* fresh ids; one is judged once or abandoned; it is made active before it *)
(* is probed; a failed probe puts back what was active when it began.      *)
(***************************************************************************)
CONSTANTS
  Id,          \* release ids of candidates
  Base,        \* release ids of baselines
  NoRelease,
  Refreshing   \* TRUE when a baseline may be made active beside a release

VARIABLES
  active,   \* the active release
  trying,   \* the candidate of the release in progress
  stage,    \* where that release stands
  saved,    \* what it found active
  fate      \* of each candidate

StagingVars == <<active, trying, stage, saved, fate>>

Start ==
  /\ active \in Base \cup {NoRelease}
  /\ trying = NoRelease /\ stage = "idle" /\ saved = NoRelease
  /\ fate = [i \in Id |-> "new"]

Close == stage' = "idle" /\ trying' = NoRelease /\ saved' = NoRelease

Judge(verdict) == fate[trying] = "open" /\ fate' = [fate EXCEPT ![trying] = verdict] /\ Close

Moves(from, to) == stage = from /\ stage' = to /\ UNCHANGED <<trying, fate>>

Open(i) ==
  /\ stage = "idle" /\ fate[i] = "new"
  /\ fate' = [fate EXCEPT ![i] = "open"]
  /\ trying' = i
  /\ IF active = NoRelease THEN stage' = "seeding" /\ saved' = NoRelease
                           ELSE stage' = "gates" /\ saved' = active
  /\ UNCHANGED active

Seed     == Moves("seeding", "gates") /\ active' \in Base /\ saved' = active'
TurnDown == stage = "gates" /\ Judge("rejected") /\ UNCHANGED active
Activate == Moves("gates", "probing") /\ active' = trying /\ UNCHANGED saved
RollBack == Moves("probing", "restored") /\ active' = saved /\ UNCHANGED saved
RecordRollBack == stage = "restored" /\ Judge("rejected") /\ UNCHANGED active
Pass     == Moves("probing", "passed") /\ UNCHANGED <<active, saved>>
Accept   == stage \in {"probing", "passed"} /\ Judge("deployed") /\ UNCHANGED active
Abandon  == stage # "idle" /\ Close /\ UNCHANGED <<active, fate>>
Refresh  == Refreshing /\ active' \in Base /\ UNCHANGED <<trying, stage, saved, fate>>

Next ==
  \/ \E i \in Id : Open(i)
  \/ Seed \/ TurnDown \/ Activate \/ RollBack \/ RecordRollBack \/ Pass \/ Accept \/ Abandon
  \/ Refresh

Spec == Start /\ [][Next]_StagingVars
=============================================================================
