------------------------------ MODULE VKThread ------------------------------
(***************************************************************************)
(* The recursive lock of VKThread.h.  On Windows Lock is a                 *)
(* CRITICAL_SECTION (an owning thread and a recursion count), on Android a *)
(* recursive pthread mutex; both are the function that gives every thread  *)
(* the number of levels it has entered and not left.  AutoLock adds a      *)
(* Boolean, m_bLocked, kept by the object that owns the AutoLock: one      *)
(* Boolean, however many levels lock() has entered.                        *)
(***************************************************************************)
EXTENDS Integers

CONSTANT Threads   \* the threads of the process

\* A lock no thread holds: the state the constructor leaves.
Unlocked == [t \in Threads |-> 0]

\* Faulty variant: the locks of a build without VK_MULTI_THREADED.
AlwaysEnters(lk, t) == lk[t] >= 0

\* EnterCriticalSection returns when no other thread owns the section.
CanEnter(lk, t) == \A u \in Threads \ {t} : lk[u] = 0

\* Lock::lock, for a thread that can enter.
Enter(lk, t) == [lk EXCEPT ![t] = @ + 1]

\* n levels left by t: Lock::unlock is Leave(lk, t, 1), and an exception that
\* unwinds n AutoLocks is Leave(lk, t, n).  Leaving a level the thread does not
\* hold is undefined; the callers are shown never to do it.
Leave(lk, t, n) == [lk EXCEPT ![t] = @ - n]
=============================================================================
