------------------------------- MODULE Mutex -------------------------------
(***************************************************************************)
(* What a lock promises its clients: at most one thread owns it.  The      *)
(* waiting that an implementation does is invisible here.                  *)
(***************************************************************************)
CONSTANT Threads

VARIABLE owners   \* the threads inside the critical section

Init == owners = {}

Acquire(t) == owners = {} /\ owners' = {t}

Release(t) == owners = {t} /\ owners' = {}

Next == \E t \in Threads : Acquire(t) \/ Release(t)

Spec == Init /\ [][Next]_owners
=============================================================================
