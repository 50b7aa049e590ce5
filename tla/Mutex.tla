------------------------------- MODULE Mutex --------------------------------
(***************************************************************************)
(* What a lock promises: at most one thread holds it, it is taken only     *)
(* when free, and it passes from one thread to another only by being       *)
(* released in between.                                                    *)
(***************************************************************************)
CONSTANTS Threads, Nobody   \* Nobody is not a thread

VARIABLE holder   \* the thread that holds the lock, or Nobody

Init == holder = Nobody

Acquire(t) ==
  /\ holder = Nobody
  /\ holder' = t

Release(t) ==
  /\ holder = t
  /\ holder' = Nobody

Next == \E t \in Threads : Acquire(t) \/ Release(t)

Spec == Init /\ [][Next]_holder
=============================================================================
