---------------------------- MODULE ExecutionLock ----------------------------
(***************************************************************************)
(* The named execution locks of PAA OS: the SQLite table execution_locks   *)
(* (src/paa_os/task_db.py) and the processes that take them.               *)
(*                                                                         *)
(* A director process takes "director_cycle" for one cycle                 *)
(* (director.py:876-1002), renews it before each task, and takes           *)
(* "production_deploy" inside it for each release                          *)
(* (builder_and_deployer.py:424-683), which it never renews.  A lock ends  *)
(* by release, by its time to live, or because the pid it names is gone;   *)
(* no holder ever learns that its lock was taken away.                     *)
(*                                                                         *)
(* Time is a count of ticks.  systemd stops a supervised director after    *)
(* TimeoutStartSec; one started by hand runs as long as it likes.  A pid   *)
(* may be given to a new process while a row still names it.               *)
(***************************************************************************)
EXTENDS Integers

CONSTANTS
  Proc,       \* pids
  Manual,     \* pids of directors that are not started by systemd
  NoOwner,    \* there is no row for the lock
  Ttl,        \* [LockName -> Nat]: ttl_sec the callers pass
  RunLimit    \* TimeoutStartSec of the director service

LockName == {"director_cycle", "production_deploy"}

ASSUME LockAssumption ==
  /\ NoOwner \notin Proc
  /\ Ttl \in [LockName -> Nat \ {0}]
  /\ RunLimit \in Nat \ {0}

VARIABLES
  row,    \* pid named by the row of each lock
  left,   \* ticks until its expires_at_utc
  up,     \* pids that are running
  age,    \* ticks a supervised process has run for
  held    \* the locks whose owner_id each process keeps in lock_owner

vars == <<row, left, up, age, held>>

Init ==
  /\ row = [l \in LockName |-> NoOwner]
  /\ left = [l \in LockName |-> 0]
  /\ up = {}
  /\ age = [p \in Proc |-> 0]
  /\ held = [p \in Proc |-> {}]

\* Mutant: the expiry is not looked at.
ReclaimableDeadOnly(l, p) == row[l] = NoOwner \/ (row[l] # p /\ row[l] \notin up)

\* Mutant: the owner's process is not looked at, nor the expiry.
ReclaimableAlways(l, p) == TRUE

\* acquire_lock replaces a row that expired or whose owner is another, dead pid.
Reclaimable(l, p) ==
  \/ row[l] = NoOwner
  \/ left[l] = 0
  \/ row[l] # p /\ row[l] \notin up

\* The release is nested in the cycle.
Nested(l, p) ==
  /\ l \notin held[p]
  /\ l = "production_deploy" <=> "director_cycle" \in held[p]

StartProcess(p) ==
  /\ p \notin up
  /\ up' = up \cup {p}
  /\ UNCHANGED <<row, left, age, held>>

\* The interpreter has run for a moment before it gets here.
Acquire(l, p) ==
  /\ p \in up /\ (p \in Manual \/ age[p] > 0)
  /\ Nested(l, p) /\ Reclaimable(l, p)
  /\ row' = [row EXCEPT ![l] = p]
  /\ left' = [left EXCEPT ![l] = Ttl[l]]
  /\ held' = [held EXCEPT ![p] = @ \cup {l}]
  /\ UNCHANGED <<up, age>>

Owns(l, p) == row[l] = p /\ l \in held[p]

\* The caller ignores whether the row was still its own.
Renew(p) ==
  /\ held[p] = {"director_cycle"}
  /\ Owns("director_cycle", p)
  /\ left' = [left EXCEPT !["director_cycle"] = Ttl["director_cycle"]]
  /\ UNCHANGED <<row, up, age, held>>

\* The inner lock is released before the outer one; so is the result ignored.
Release(l, p) ==
  /\ l \in held[p]
  /\ l = "director_cycle" => "production_deploy" \notin held[p]
  /\ held' = [held EXCEPT ![p] = @ \ {l}]
  /\ row' = IF Owns(l, p) THEN [row EXCEPT ![l] = NoOwner] ELSE row
  /\ left' = IF Owns(l, p) THEN [left EXCEPT ![l] = 0] ELSE left
  /\ UNCHANGED <<up, age>>

\* The process ends: after its cycle, because the lock was refused, in a crash,
\* or at the hands of systemd.  Its rows stay.
Stop(p) ==
  /\ p \in up
  /\ up' = up \ {p}
  /\ age' = [age EXCEPT ![p] = 0]
  /\ held' = [held EXCEPT ![p] = {}]
  /\ UNCHANGED <<row, left>>

\* Mutant: nobody stops a supervised director.
NeverTimedOut(p) == FALSE

TimedOut(p) == p \in up \ Manual /\ age[p] >= RunLimit

\* A process past its limit is gone before time goes on.
Tick ==
  /\ \A p \in Proc : ~ TimedOut(p)
  /\ left' = [l \in LockName |-> IF left[l] > 0 THEN left[l] - 1 ELSE 0]
  /\ age' = [p \in Proc |-> IF p \in up \ Manual THEN age[p] + 1 ELSE age[p]]
  /\ UNCHANGED <<row, up, held>>

Next ==
  \/ \E p \in Proc : StartProcess(p) \/ Renew(p) \/ Stop(p)
  \/ \E p \in Proc, l \in LockName : Acquire(l, p) \/ Release(l, p)
  \/ Tick

Spec == Init /\ [][Next]_vars

\* Time passes, and systemd stops what outlives its limit.
FairSpec ==
  /\ Spec
  /\ WF_vars(Tick)
  /\ \A p \in Proc : WF_vars(TimedOut(p) /\ Stop(p))

-----------------------------------------------------------------------------

TypeOK ==
  /\ row \in [LockName -> Proc \cup {NoOwner}]
  /\ left \in [LockName -> Nat] /\ \A l \in LockName : left[l] <= Ttl[l]
  /\ up \subseteq Proc
  /\ age \in [Proc -> 0 .. RunLimit]
  /\ held \in [Proc -> SUBSET LockName]

\* No two processes hold one lock, although a lock is lost without notice when
\* its time to live ends and a release may outlast the one of its own lock:
\* run_cycle and release_candidate go on as if the lock were theirs
\* (director.py:876-1002, builder_and_deployer.py:424-683).
OneHolder ==
  \A l \in LockName, p, q \in Proc : l \in held[p] /\ l \in held[q] => p = q

\* The row of a held lock names its holder, so the result of renew_lock that the
\* director ignores is always TRUE (director.py:940).
HolderIsOnRecord ==
  \A l \in LockName, p \in Proc : l \in held[p] => row[l] = p

LeftBehind(l) == row[l] # NoOwner /\ l \notin held[row[l]]

\* A row left behind by a process that is gone stops being in the way, even when
\* its pid was given to a process that lives for ever (task_db.py:489-497).
LeftBehindIsReclaimed ==
  \A l \in LockName :
    LeftBehind(l) ~> (~ LeftBehind(l) \/ \A p \in Proc : Reclaimable(l, p))
=============================================================================
