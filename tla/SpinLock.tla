------------------------------ MODULE SpinLock ------------------------------
(***************************************************************************)
(* util::SpinLock (src/util.h): a test-and-test-and-set lock.  lock() does *)
(* an atomic exchange and, when the flag was already set, spins on plain   *)
(* loads before it tries again; unlock() stores FALSE.  Every client takes *)
(* it with std::scoped_lock, so a thread that owns it always unlocks.      *)
(*                                                                         *)
(* The spin counter only chooses how to wait (pause, yield, Sleep(1)); it  *)
(* decides nothing about who gets the lock and is left out.  The relaxed   *)
(* load may be served from a stale line: a spinning thread that reads TRUE *)
(* although the flag is FALSE spins again, which is a stuttering step.     *)
(***************************************************************************)
CONSTANT Threads

VARIABLES
  flag,   \* flag_, TRUE while the lock is taken
  pc      \* where each thread is: see PCs

vars == <<flag, pc>>

PCs == {"idle", "exchange", "load", "critical"}

TypeOK == flag \in BOOLEAN /\ pc \in [Threads -> PCs]

Init == flag = FALSE /\ pc = [t \in Threads |-> "idle"]

Goto(t, from, to) == pc[t] = from /\ pc' = [pc EXCEPT ![t] = to]

\* A thread constructs its scoped_lock and enters lock().
Call(t) == Goto(t, "idle", "exchange") /\ UNCHANGED flag

\* Mutant: the read and the write of flag_ are two operations, and another
\* thread's write falls between them, so the old value is reported as FALSE.
TornExchange(t) == Goto(t, "exchange", "critical") /\ flag' = TRUE

\* flag_.exchange(true): the old value decides between owning and spinning.
Exchange(t) ==
  /\ flag' = TRUE
  /\ IF flag THEN Goto(t, "exchange", "load") ELSE Goto(t, "exchange", "critical")

\* Mutant: the inner loop exits while the flag is still set and lock()
\* returns without a second exchange.
LoadWithoutRetry(t) == Goto(t, "load", "critical") /\ ~flag /\ UNCHANGED flag

\* The inner loop ends when a load returns FALSE; the exchange comes next.
Load(t) == Goto(t, "load", "exchange") /\ ~flag /\ UNCHANGED flag

\* Mutant: unlock() forgets the store.
UnlockNothing(t) == Goto(t, "critical", "idle") /\ UNCHANGED flag

\* unlock(): the scoped_lock's destructor.
Unlock(t) == Goto(t, "critical", "idle") /\ flag' = FALSE

Next == \E t \in Threads : Call(t) \/ Exchange(t) \/ Load(t) \/ Unlock(t)

\* A thread that has called lock() keeps being scheduled, and leaves its
\* critical section: the guarded code does no waiting of its own.
Fairness ==
  \A t \in Threads : WF_vars(Exchange(t)) /\ WF_vars(Load(t)) /\ WF_vars(Unlock(t))

Spec == Init /\ [][Next]_vars /\ Fairness
-----------------------------------------------------------------------------
Critical == {t \in Threads : pc[t] = "critical"}

\* lock()/unlock() exclude: nobody enters while another thread is inside, and
\* flag_ is set exactly while somebody is (a flag left set after unlock() would
\* hang every client, a flag cleared early would admit two).  Inductive.
LockInv ==
  /\ TypeOK
  /\ \A t, u \in Critical : t = u
  /\ flag <=> Critical # {}

\* lock() and unlock() implement the abstract lock: the exchange that returns
\* FALSE is its Acquire, the store its Release, and spinning is invisible.
M == INSTANCE Mutex WITH owners <- Critical
ImplementsMutex == M!Spec

\* No lost wake-up in lock(): whenever threads want the lock some thread gets it (which
\* one is not promised: the loop has no queue, a thread can be overtaken).
SomeoneEnters ==
  (\E t \in Threads : pc[t] \in {"exchange", "load"}) ~> (Critical # {})
=============================================================================
