---------------------------- MODULE JobListLock ----------------------------
(***************************************************************************)
(* fixes/joblist_race.h.  UpdateNonHighActors and Job_TES_animation both   *)
(* submit jobs to the engine's job list 7, wait for them, and clear the    *)
(* list.  The fix wraps both in one recursive mutex: a thread that gets    *)
(* from one function into the other must not wait for itself.              *)
(*                                                                         *)
(* The two functions are modelled as the fix describes them; a batch is    *)
(* the jobs one call has submitted.                                        *)
(***************************************************************************)
EXTENDS Naturals, Sequences

CONSTANTS
  JobThreads,   \* threads that call either function
  MaxNesting    \* bound: calls inside one another on one thread

ASSUME JobListAssumption == MaxNesting \in Nat \ {0} /\ "free" \notin JobThreads

VARIABLES
  hooks,       \* the functions Install has hooked
  registered,  \* Install has returned TRUE and the fix is registered
  lockOwner,   \* listLock: its owner, or "free" ...
  lockDepth,   \* ... and how often it holds it
  jobCalls,    \* per thread: the functions it is in, innermost first ...
  jobStep,     \* ... and how far the innermost is; the outer ones have only begun
  jobList      \* the batches in the list, by thread

jobVars == <<hooks, registered, lockOwner, lockDepth, jobCalls, jobStep, jobList>>

JobStep == {"begun", "submitted", "cleared"}
Function == {"UpdateNonHighActors", "JobTesAnimation"}

\* Install(): nothing is hooked unless both prologues match; a hook that cannot be
\* placed leaves the other one behind, and the fix unregistered.
JobListStart(placed) ==
  /\ hooks = placed /\ registered = (placed = Function)
  /\ lockOwner = "free" /\ lockDepth = 0
  /\ jobCalls = [t \in JobThreads |-> <<>>] /\ jobStep = [t \in JobThreads |-> "begun"]
  /\ jobList = {}

JobListInit == \E placed \in SUBSET Function : JobListStart(placed)

Acquire(t) ==
  /\ lockOwner \in {"free", t}
  /\ lockOwner' = t /\ lockDepth' = lockDepth + 1

\* Mutant: the inner call's unlock gives the mutex away.
ReleaseAll(t) ==
  /\ lockDepth' = 0 /\ lockOwner' = "free"

Release(t) ==
  /\ lockDepth' = lockDepth - 1
  /\ lockOwner' = IF lockDepth = 1 THEN "free" ELSE t

\* A call from outside, or from within the other call before it submits.
Call(t, fn) ==
  /\ Len(jobCalls[t]) < MaxNesting /\ jobStep[t] = "begun"
  /\ IF fn \in hooks THEN Acquire(t) ELSE UNCHANGED <<lockOwner, lockDepth>>
  /\ jobCalls' = [jobCalls EXCEPT ![t] = <<fn>> \o @]
  /\ UNCHANGED <<hooks, registered, jobStep, jobList>>

Inside(t, step) == jobCalls[t] # <<>> /\ jobStep[t] = step
Proceed(t, step) ==
  /\ jobStep' = [jobStep EXCEPT ![t] = step]
  /\ UNCHANGED <<hooks, registered, lockOwner, lockDepth, jobCalls>>

\* The engine's submission, wait and clearing, all inside orig_...call().
Submit(t) ==
  /\ Inside(t, "begun") /\ Proceed(t, "submitted")
  /\ jobList' = jobList \cup {t}

ClearList(t) ==
  /\ Inside(t, "submitted") /\ Proceed(t, "cleared")
  /\ jobList' = {}

\* The call returns and the scoped lock with it.
Return(t) ==
  /\ Inside(t, "cleared")
  /\ jobCalls' = [jobCalls EXCEPT ![t] = Tail(@)]
  /\ jobStep' = [jobStep EXCEPT ![t] = "begun"]
  /\ IF Head(jobCalls[t]) \in hooks THEN Release(t) ELSE UNCHANGED <<lockOwner, lockDepth>>
  /\ UNCHANGED <<hooks, registered, jobList>>

JobListNext ==
  \E t \in JobThreads :
    (\E fn \in Function : Call(t, fn)) \/ Submit(t) \/ ClearList(t) \/ Return(t)

JobListSpec == JobListInit /\ [][JobListNext]_jobVars
-----------------------------------------------------------------------------
\* joblist_race.h: "the lock must cover all of that".  When the fix says it is
\* installed, a thread that has submitted finds its own batch in the list, alone,
\* until it clears it, however the two functions nest.
BatchAloneInList ==
  registered =>
    \A t \in JobThreads : Inside(t, "submitted") => jobList = {t}
=============================================================================
