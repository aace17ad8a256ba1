------------------------- MODULE ExecutionLockProofs -------------------------
(***************************************************************************)
(* Proofs about ExecutionLock: no lock has two holders, whatever the       *)
(* number of processes, as long as every director is stopped by systemd    *)
(* no later than the cycle lock's time to live.                            *)
(***************************************************************************)
EXTENDS ExecutionLock, TLAPS

\* TimeoutStartSec does not exceed the 600 s that run_cycle asks for, and no
\* director is started by hand.
Supervised == Manual = {} /\ RunLimit <= Ttl["director_cycle"]

USE DEF LockName

LEMMA TypeInit == Init => TypeOK
  BY LockAssumption DEF Init, TypeOK

LEMMA TypeStep == TypeOK /\ [Next]_vars => TypeOK'
  <1> SUFFICES ASSUME TypeOK, [Next]_vars PROVE TypeOK'
    OBVIOUS
  <1> USE LockAssumption DEF TypeOK
  <1>1. ASSUME NEW p \in Proc, StartProcess(p) \/ Renew(p) \/ Stop(p) PROVE TypeOK'
    BY <1>1 DEF StartProcess, Renew, Stop
  <1>2. ASSUME NEW p \in Proc, NEW l \in LockName, Acquire(l, p) PROVE TypeOK'
    BY <1>2 DEF Acquire
  <1>3. ASSUME NEW p \in Proc, NEW l \in LockName, Release(l, p) PROVE TypeOK'
    BY <1>3 DEF Release
  <1>4. CASE Tick
    BY <1>4 DEF Tick, TimedOut
  <1>5. CASE UNCHANGED vars
    BY <1>5 DEF vars
  <1> QED
    BY <1>1, <1>2, <1>3, <1>4, <1>5 DEF Next

\* Locks, owners and ages keep their types: no row lives longer than the caller
\* asked for, and no supervised process grows older than its limit.
THEOREM TypeCorrect == Spec => []TypeOK
  BY TypeInit, TypeStep, PTL DEF Spec

\* The lock of the cycle outlives its holder's remaining time, and the lock of
\* the release is held only by the holder of the cycle, so that its own time to
\* live does not matter.
CycleOutlivesHolder ==
  \A p \in Proc : "director_cycle" \in held[p] =>
    /\ p \in up
    /\ row["director_cycle"] = p
    /\ left["director_cycle"] + age[p] > RunLimit

ReleaseInsideCycle ==
  \A p \in Proc : "production_deploy" \in held[p] =>
    /\ "director_cycle" \in held[p]
    /\ row["production_deploy"] = p

LockInv == TypeOK /\ CycleOutlivesHolder /\ ReleaseInsideCycle

LEMMA LockInvInit == Init => LockInv
  <1> SUFFICES ASSUME Init PROVE LockInv
    OBVIOUS
  <1>1. TypeOK
    BY TypeInit
  <1>2. CycleOutlivesHolder /\ ReleaseInsideCycle
    BY DEF Init, CycleOutlivesHolder, ReleaseInsideCycle
  <1> QED
    BY <1>1, <1>2 DEF LockInv

LEMMA LockInvStep == Supervised /\ LockInv /\ [Next]_vars => LockInv'
  <1> SUFFICES ASSUME Supervised, LockInv, [Next]_vars PROVE LockInv'
    OBVIOUS
  <1>t. TypeOK'
    BY TypeStep DEF Supervised, LockInv
  <1>o. \A l \in LockName, p, q \in Proc : l \in held[p] /\ l \in held[q] => p = q
    BY DEF LockInv, CycleOutlivesHolder, ReleaseInsideCycle
  <1> USE LockAssumption DEF Supervised, LockInv, TypeOK
  <1>1. ASSUME NEW p \in Proc, StartProcess(p)
        PROVE (CycleOutlivesHolder /\ ReleaseInsideCycle)'
    BY <1>1 DEF StartProcess, CycleOutlivesHolder, ReleaseInsideCycle
  <1>2. ASSUME NEW p \in Proc, Renew(p)
        PROVE (CycleOutlivesHolder /\ ReleaseInsideCycle)'
    <2>1. age[p] \in Nat /\ age[p] <= RunLimit
      OBVIOUS
    <2>2. left'["director_cycle"] >= left["director_cycle"]
      BY <1>2 DEF Renew
    <2> QED
      BY <1>2, <2>2 DEF Renew, CycleOutlivesHolder, ReleaseInsideCycle
  <1>3. ASSUME NEW p \in Proc, Stop(p)
        PROVE (CycleOutlivesHolder /\ ReleaseInsideCycle)'
    BY <1>3 DEF Stop, CycleOutlivesHolder, ReleaseInsideCycle
  \* Nobody else holds the lock that p takes: a live holder's row is neither
  \* expired nor the row of a dead pid.
  <1>4. ASSUME NEW p \in Proc, NEW l \in LockName, Acquire(l, p)
        PROVE (CycleOutlivesHolder /\ ReleaseInsideCycle)'
    <2>1. CASE l = "director_cycle"
      <3>1. \A q \in Proc : "director_cycle" \notin held[q]
        <4> SUFFICES ASSUME NEW q \in Proc, "director_cycle" \in held[q] PROVE FALSE
          OBVIOUS
        <4>1. row[l] = q /\ q \in up /\ left[l] + age[q] > RunLimit
          BY <2>1 DEF CycleOutlivesHolder
        <4>2. left[l] > 0
          BY <4>1, <2>1
        <4>3. p = q
          BY <1>4, <4>1, <4>2 DEF Acquire, Reclaimable
        <4> QED
          BY <1>4, <4>3, <2>1 DEF Acquire, Nested
      <3>2. \A q \in Proc : held[q] = {}
        BY <3>1 DEF ReleaseInsideCycle
      <3>3. p \in up /\ age[p] > 0 /\ left'[l] = Ttl[l] /\ row'[l] = p
        BY <1>4 DEF Acquire
      <3>4. CycleOutlivesHolder'
        BY <1>4, <2>1, <3>2, <3>3 DEF Acquire, CycleOutlivesHolder
      <3>5. ReleaseInsideCycle'
        BY <1>4, <2>1, <3>2 DEF Acquire, ReleaseInsideCycle
      <3> QED
        BY <3>4, <3>5
    <2>2. CASE l = "production_deploy"
      <3>1. "director_cycle" \in held[p] /\ "production_deploy" \notin held[p]
        BY <1>4, <2>2 DEF Acquire, Nested
      <3>2. \A q \in Proc : "production_deploy" \notin held[q]
        BY <3>1, <1>o DEF ReleaseInsideCycle
      <3>3. CycleOutlivesHolder'
        BY <1>4, <2>2 DEF Acquire, CycleOutlivesHolder
      <3>4. ReleaseInsideCycle'
        BY <1>4, <2>2, <3>1, <3>2 DEF Acquire, ReleaseInsideCycle
      <3> QED
        BY <3>3, <3>4
    <2> QED
      BY <2>1, <2>2
  <1>5. ASSUME NEW p \in Proc, NEW l \in LockName, Release(l, p)
        PROVE (CycleOutlivesHolder /\ ReleaseInsideCycle)'
    <2>1. \A q \in Proc : l \notin held'[q]
      BY <1>5, <1>o DEF Release
    <2>2. \A k \in LockName : k # l => row'[k] = row[k] /\ left'[k] = left[k]
      BY <1>5 DEF Release
    <2>3. \A q \in Proc : held'[q] = held[q] \ {l}
      BY <1>5, <2>1 DEF Release
    <2>4. l = "director_cycle" => \A q \in Proc : "production_deploy" \notin held'[q]
      <3> SUFFICES ASSUME l = "director_cycle", NEW q \in Proc, "production_deploy" \in held'[q]
                   PROVE FALSE
        OBVIOUS
      <3>1. "director_cycle" \in held[q] /\ "production_deploy" \in held[q]
        BY <2>3 DEF ReleaseInsideCycle
      <3>2. p = q
        BY <1>5, <1>o, <3>1 DEF Release
      <3> QED
        BY <1>5, <3>1, <3>2 DEF Release
    <2>5. up' = up /\ age' = age
      BY <1>5 DEF Release
    <2>6. CycleOutlivesHolder'
      BY <2>1, <2>2, <2>3, <2>5 DEF CycleOutlivesHolder
    <2>7. ReleaseInsideCycle'
      BY <2>1, <2>2, <2>3, <2>4 DEF ReleaseInsideCycle
    <2> QED
      BY <2>6, <2>7
  \* A tick takes one from the lock and gives one to the age of the holder.
  <1>6. CASE Tick
    <2>1. UNCHANGED <<row, up, held>>
      BY <1>6 DEF Tick
    <2>2. ASSUME NEW p \in Proc, "director_cycle" \in held[p]
          PROVE left'["director_cycle"] + age'[p] > RunLimit
      <3>1. p \in up /\ left["director_cycle"] + age[p] > RunLimit
        BY <2>2 DEF CycleOutlivesHolder
      <3>2. age[p] < RunLimit
        BY <1>6, <3>1 DEF Tick, TimedOut
      <3>3. left["director_cycle"] > 0
        BY <3>1, <3>2
      <3>4. /\ left'["director_cycle"] = left["director_cycle"] - 1
            /\ age'[p] = age[p] + 1
        BY <1>6, <3>1, <3>3 DEF Tick
      <3> QED
        BY <3>1, <3>4
    <2>3. CycleOutlivesHolder'
      <3>1. \A p \in Proc : "director_cycle" \in held[p] => p \in up /\ row["director_cycle"] = p
        BY DEF CycleOutlivesHolder
      <3>2. \A p \in Proc : "director_cycle" \in held'[p]
               => p \in up' /\ row'["director_cycle"] = p
                    /\ left'["director_cycle"] + age'[p] > RunLimit
        BY <2>1, <2>2, <3>1
      <3> QED
        BY <3>2 DEF CycleOutlivesHolder
    <2>4. ReleaseInsideCycle'
      BY <2>1 DEF ReleaseInsideCycle
    <2> QED
      BY <1>t, <2>3, <2>4
  <1>7. CASE UNCHANGED vars
    BY <1>7 DEF vars, CycleOutlivesHolder, ReleaseInsideCycle
  <1> QED
    BY <1>t, <1>1, <1>2, <1>3, <1>4, <1>5, <1>6, <1>7 DEF Next

LEMMA LockInvAlways == Supervised => (Spec => []LockInv)
  <1> SUFFICES ASSUME Supervised PROVE Spec => []LockInv
    OBVIOUS
  <1>1. LockInv /\ [Next]_vars => LockInv'
    BY LockInvStep
  <1> QED
    BY LockInvInit, <1>1, PTL DEF Spec

\* No lock has two holders and the row of a held lock names its holder, for any
\* number of supervised directors and any times to live, the lock of the release
\* included however short it is (task_db.py:477-542, director.py:876-1002).
THEOREM NoTwoHolders ==
  ASSUME Supervised
  PROVE  Spec => []OneHolder /\ []HolderIsOnRecord
  <1>1. LockInv => OneHolder /\ HolderIsOnRecord
    BY DEF LockInv, CycleOutlivesHolder, ReleaseInsideCycle, OneHolder, HolderIsOnRecord
  <1> QED
    BY LockInvAlways, <1>1, PTL
=============================================================================
