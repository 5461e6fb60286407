------------------------------- MODULE IdPool -------------------------------
(***************************************************************************)
(* The data structure of FixedIdPool: a LIFO free list and the set of live *)
(* ids.  A pool is a record; each operator is the pool after one call (or  *)
(* one loop of calls) of the class.  Callers check CanAcquire first: the   *)
(* OOM branch of acquire() returns before it touches the pool.             *)
(***************************************************************************)
EXTENDS Integers, Sequences, Functions

(* The constructor pushes capacity-1 .. 0, so that id 0 is on top. *)
NewPool(capacity) ==
  [free |-> [i \in 1..capacity |-> capacity - i], live |-> {}]

CanAcquire(pool, n) == n <= Len(pool.free)

(* The ids n successive acquire() calls return, in order: the list is      *)
(* popped from its back.                                                   *)
Acquired(pool, n) ==
  [i \in 1..n |-> pool.free[Len(pool.free) + 1 - i]]

(* Mutant of AfterAcquire: one id too few is taken off the list.           *)
AfterAcquireKeepingOne(pool, n) ==
  [free |-> SubSeq(pool.free, 1, Len(pool.free) - n + 1),
   live |-> pool.live \cup Range(Acquired(pool, n))]

AfterAcquire(pool, n) ==
  [free |-> SubSeq(pool.free, 1, Len(pool.free) - n),
   live |-> pool.live \cup Range(Acquired(pool, n))]

(* release() of each id of the sequence, in order; every one is live.      *)
AfterRelease(pool, ids) ==
  [free |-> pool.free \o ids, live |-> pool.live \ Range(ids)]

(* The live ids and the free list split 0..capacity-1 between them, and no *)
(* id is on the free list twice: the accounting is exact.                  *)
Partitioned(pool, capacity) ==
  /\ pool.free \in Seq(0..capacity - 1)
  /\ pool.live \subseteq 0..capacity - 1
  /\ IsInjective(pool.free)
  /\ Range(pool.free) = (0..capacity - 1) \ pool.live
=============================================================================
