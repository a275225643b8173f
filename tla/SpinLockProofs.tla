-------------------------- MODULE SpinLockProofs --------------------------
(***************************************************************************)
(* For any set of threads: the spin lock excludes, and its safety part     *)
(* implements the abstract lock of Mutex.                                  *)
(***************************************************************************)
EXTENDS SpinLock, TLAPS

LEMMA InitLockInv == Init => LockInv
BY DEF Init, LockInv, TypeOK, PCs, Critical

LEMMA NextLockInv == LockInv /\ [Next]_vars => LockInv'
<1> SUFFICES ASSUME LockInv, [Next]_vars PROVE LockInv'
  OBVIOUS
<1> USE DEF LockInv, TypeOK, PCs, Critical, Goto
<1>1. CASE UNCHANGED vars
  BY <1>1 DEF vars
<1>2. ASSUME NEW t \in Threads, Call(t) PROVE LockInv'
  BY <1>2 DEF Call
<1>3. ASSUME NEW t \in Threads, Exchange(t) PROVE LockInv'
  <2>1. CASE flag
    BY <1>3, <2>1 DEF Exchange
  <2>2. CASE ~flag
    BY <1>3, <2>2 DEF Exchange
  <2> QED BY <2>1, <2>2
<1>4. ASSUME NEW t \in Threads, Load(t) PROVE LockInv'
  BY <1>4 DEF Load
<1>5. ASSUME NEW t \in Threads, Unlock(t) PROVE LockInv'
  BY <1>5 DEF Unlock
<1> QED
  BY <1>1, <1>2, <1>3, <1>4, <1>5 DEF Next

\* lock() and unlock() never let two threads into the critical section, and
\* the flag is set exactly while one is there.
THEOREM MutualExclusion == Spec => []LockInv
<1>1. Spec => Init /\ [][Next]_vars
  BY DEF Spec
<1> QED
  BY <1>1, InitLockInv, NextLockInv, PTL

\* Every step of the spin lock is a step of the abstract lock or invisible.
LEMMA StepSimulates == LockInv /\ [Next]_vars => [M!Next]_Critical
<1> SUFFICES ASSUME LockInv, [Next]_vars PROVE [M!Next]_Critical
  OBVIOUS
<1> USE DEF LockInv, TypeOK, PCs, Critical, Goto
<1>1. CASE UNCHANGED vars
  BY <1>1 DEF vars
<1>2. ASSUME NEW t \in Threads, Call(t) PROVE UNCHANGED Critical
  BY <1>2 DEF Call
<1>3. ASSUME NEW t \in Threads, Exchange(t) PROVE [M!Next]_Critical
  <2>1. CASE flag
    BY <1>3, <2>1 DEF Exchange
  <2>2. CASE ~flag
    <3>1. M!Acquire(t)
      BY <1>3, <2>2 DEF Exchange, M!Acquire
    <3> QED BY <3>1 DEF M!Next
  <2> QED BY <2>1, <2>2
<1>4. ASSUME NEW t \in Threads, Load(t) PROVE UNCHANGED Critical
  BY <1>4 DEF Load
<1>5. ASSUME NEW t \in Threads, Unlock(t) PROVE M!Next
  <2>1. M!Release(t)
    BY <1>5 DEF Unlock, M!Release
  <2> QED BY <2>1 DEF M!Next
<1> QED
  BY <1>1, <1>2, <1>3, <1>4, <1>5 DEF Next

\* util::SpinLock is a lock: its behaviours are those of Mutex, with Acquire
\* at the exchange that returns FALSE and Release at the store.
THEOREM SpinLockImplementsMutex == Spec => ImplementsMutex
<1>1. Init => M!Init
  BY DEF Init, M!Init, Critical
<1>2. Spec => Init /\ [][Next]_vars
  BY DEF Spec
<1> QED
  BY <1>1, <1>2, MutualExclusion, StepSimulates, PTL DEF ImplementsMutex, M!Spec
=============================================================================
