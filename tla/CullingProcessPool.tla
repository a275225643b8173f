------------------------- MODULE CullingProcessPool -------------------------
(***************************************************************************)
(* fixes/culling_process_append_virtual_pool_guard.h.  AppendVirtual pops  *)
(* an entry from a free queue and writes through it unchecked; the queue   *)
(* answers null when it is empty.  The guard reads head, then tail, and    *)
(* drops the append when fewer than kMinFreeEntries seem free.  Nothing    *)
(* holds the queue between the two reads and the pop, so the margin has to *)
(* absorb what other threads pop meanwhile.                                *)
(*                                                                         *)
(* head and tail count without wrapping; the code sees them modulo Width.  *)
(***************************************************************************)
EXTENDS Naturals

CONSTANTS
  Appenders,       \* threads that append to this culling process
  PoolSize,        \* entries of the free queue
  MinFreeEntries,  \* kMinFreeEntries
  Width,           \* 2^32
  MaxPops          \* bound: pops from the queue

ASSUME PoolAssumption ==
  /\ PoolSize \in Nat /\ MinFreeEntries \in 1..PoolSize
  /\ Width \in Nat /\ Width > PoolSize /\ MaxPops \in Nat

VARIABLES
  head, tail,   \* entries popped, and entries returned, so far
  appends,      \* per thread: where it is, and the head it has read
  popsSince     \* history: pops by anyone since the thread has read the head

poolVars == <<head, tail, appends, popsSince>>

AppendStep == {"outside", "tail", "pop", "null"}

PoolInit ==
  /\ head = 0 /\ tail = PoolSize
  /\ appends = [t \in Appenders |-> [at |-> "outside", head |-> 0]]
  /\ popsSince = [t \in Appenders |-> 0]

\* An append that WouldPopFreePool; any other goes straight through.
ReadHead(t) ==
  /\ appends[t].at = "outside"
  /\ appends' = [appends EXCEPT ![t] = [at |-> "tail", head |-> head % Width]]
  /\ popsSince' = [popsSince EXCEPT ![t] = 0]
  /\ UNCHANGED <<head, tail>>

\* Mutant: only an empty queue stops the append.
NotEmpty(seenHead, seenTail) == seenHead # seenTail

\* tail - head in unsigned arithmetic, against the margin.
EnoughFree(seenHead, seenTail) == (seenTail + Width - seenHead) % Width >= MinFreeEntries

ReadTail(t) ==
  /\ appends[t].at = "tail"
  /\ appends' = [appends EXCEPT ![t].at =
       IF EnoughFree(appends[t].head, tail % Width) THEN "pop" ELSE "outside"]
  /\ UNCHANGED <<head, tail, popsSince>>

\* originalAppendVirtual: PopFreeQueueEntry, and the write through its result.
AppendVirtual(t) ==
  /\ appends[t].at = "pop"
  /\ IF head = tail
     THEN /\ appends' = [appends EXCEPT ![t].at = "null"]
          /\ UNCHANGED <<head, popsSince>>
     ELSE /\ head < MaxPops
          /\ appends' = [appends EXCEPT ![t].at = "outside"]
          /\ head' = head + 1
          /\ popsSince' = [u \in Appenders |-> popsSince[u] + 1]
  /\ UNCHANGED tail

\* The engine returns an entry it has dealt with.
ReturnEntry ==
  /\ tail < head + PoolSize
  /\ tail' = tail + 1
  /\ UNCHANGED <<head, appends, popsSince>>

PoolNext ==
  \/ \E t \in Appenders : ReadHead(t) \/ ReadTail(t) \/ AppendVirtual(t)
  \/ ReturnEntry

PoolSpec == PoolInit /\ [][PoolNext]_poolVars
-----------------------------------------------------------------------------
PoolTypeOK ==
  /\ head \in Nat /\ tail \in Nat /\ head <= tail /\ tail <= head + PoolSize
  /\ appends \in [Appenders -> [at : AppendStep, head : 0..(Width - 1)]]
  /\ popsSince \in [Appenders -> Nat]

\* The margin of AppendVirtualGuarded: a guarded append meets an empty queue only
\* if at least kMinFreeEntries entries were popped since it read the head, also
\* when the counters wrap and entries come back between its two reads.
NullOnlyAfterManyPops ==
  \A t \in Appenders : appends[t].at = "null" => popsSince[t] >= MinFreeEntries
=============================================================================
