----------------------------- MODULE MCDatabase -----------------------------
(* Instances of Database for TLC. *)
EXTENDS Database, TLC

\* Clients that use the methods that lock.  Left to the careful clients, to keep
\* the instance small, are stmtUpdate, which takes the same steps as stmtInsert,
\* and backup, which only takes the lock.
LockingCalls == AllCalls \ {"bind", "stmtUpdate", "backup"}

\* Clients that reset what they step and avoid getInt and its like.
CarefulCalls ==
  {"open", "construct", "destroy", "reset", "bind", "next", "stmtExec", "stmtUpdate",
   "insert", "backup"}

\* The smallest mix that shows the level the getters leave.
GetterCalls == {"open", "get"}

Symmetry == Permutations(Threads)
=============================================================================
