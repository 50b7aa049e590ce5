------------------------------ MODULE Database ------------------------------
(***************************************************************************)
(* VK::DB::Connection and VK::DB::Statement (VKDatabase.h, VKDatabase.cpp) *)
(* used by several threads.  One Connection is shared; each thread owns at *)
(* most one Statement at a time.  The connection is opened with            *)
(* SQLITE_OPEN_NOMUTEX, so m_lock is all that keeps two threads from being *)
(* inside the engine at once.                                              *)
(*                                                                         *)
(* A method is a sequence of steps: the call, the lock, the engine call it *)
(* protects, and what follows.  Statement::next returns with the lock      *)
(* held.  A nested call that locks m_lock again adds a level.  A failed    *)
(* prepare or reset is reported (handleError) after m_lock has been left.  *)
(* Clients leave bLogError at its default, TRUE.                           *)
(***************************************************************************)
EXTENDS VKThread

CONSTANTS
  Nobody,        \* not a thread
  Calls,         \* the methods the clients use, a subset of AllCalls
  ResetsFirst,   \* TRUE: clients reset a stepped Statement before any other use
  MaxDepth       \* bound: no new Statement call from a thread holding this many levels

StatementSteps == {"next", "stmtExec", "stmtInsert", "stmtUpdate"}
Lifecycle == {"open", "close"}
ConnectionCalls == {"exec", "insert", "begin", "commit", "rollback", "backup"}
AllCalls == StatementSteps \cup Lifecycle \cup ConnectionCalls
              \cup {"construct", "get", "reset", "destroy", "bind", "setExceptions"}

ASSUME DatabaseAssumption ==
  /\ Nobody \notin Threads
  /\ Calls \subseteq AllCalls
  /\ ResetsFirst \in BOOLEAN
  /\ MaxDepth \in Nat \ {0}

VARIABLES
  lock,       \* m_lock of the Connection: levels held by each thread
  pc,         \* where each thread is in the method it called
  op,         \* the method it called, "none" outside every method
  stmt,       \* its Statement object
  handle,     \* m_pConn # NULL
  throws,     \* m_bThrowExceptions
  bTemp,      \* open's copy of throws while it runs the PRAGMAs, else FALSE
  inTx,       \* m_bInTransaction
  tx,         \* the engine has an open transaction on the current handle
  last,       \* the thread whose write the engine completed last
  got,        \* history: whose write the rowid or change count a thread got is of
  swallowed   \* history: BEGIN, COMMIT or ROLLBACK failed with exceptions off

connection == <<handle, throws, bTemp, inTx>>
engine == <<tx, last>>
history == <<got, swallowed>>
vars == <<lock, pc, op, stmt, connection, engine, history>>

Points == {"idle", "enter", "prepare", "bind", "step", "rowid", "reset", "report",
           "finalize", "body", "run", "after", "shut"}

\* A Statement: "none" no object, "null" m_pStmt is NULL because prepare failed,
\* "failed" the last step returned an error.  held is m_lock.m_bLocked, scoped a
\* Statement local to getInt, getInt64, getDouble or getText, stale one whose
\* handle was closed or replaced.
Lives == {"none", "null", "ready", "stepped", "failed"}
StatementType == [life : Lives, held : BOOLEAN, throws : BOOLEAN,
                  scoped : BOOLEAN, stale : BOOLEAN]
NoStatement == [life |-> "none", held |-> FALSE, throws |-> FALSE,
                scoped |-> FALSE, stale |-> FALSE]

TypeOK ==
  /\ lock \in [Threads -> Nat]
  /\ pc \in [Threads -> Points]
  /\ op \in [Threads -> AllCalls \cup {"none"}]
  /\ stmt \in [Threads -> StatementType]
  /\ handle \in BOOLEAN /\ throws \in BOOLEAN /\ bTemp \in BOOLEAN
  /\ inTx \in BOOLEAN /\ tx \in BOOLEAN
  /\ last \in Threads \cup {Nobody}
  /\ got \in [Threads -> Threads \cup {Nobody}]
  /\ swallowed \in BOOLEAN

Init ==
  /\ lock = Unlocked
  /\ pc = [t \in Threads |-> "idle"]
  /\ op = [t \in Threads |-> "none"]
  /\ stmt = [t \in Threads |-> NoStatement]
  /\ handle = FALSE
  /\ throws \in BOOLEAN
  /\ bTemp = FALSE
  /\ inTx = FALSE
  /\ tx = FALSE
  /\ last = Nobody
  /\ got = [t \in Threads |-> Nobody]
  /\ swallowed = FALSE

-----------------------------------------------------------------------------
(* Helpers *)

Goto(t, point) == pc' = [pc EXCEPT ![t] = point]

\* The thread goes on inside the method it called.
Continue(t, point) ==
  /\ Goto(t, point)
  /\ op' = op

\* The method returns, or throws to its caller.
Leaves(t) ==
  /\ Goto(t, "idle")
  /\ op' = [op EXCEPT ![t] = "none"]

\* It does so having left n levels.
Return(t, n) ==
  /\ lock' = Leave(lock, t, n)
  /\ Leaves(t)

\* Whether ~AutoLock of the thread's Statement has a level to leave.
Held(t) == IF stmt[t].held THEN 1 ELSE 0

\* Faulty variant: one AutoLock too many is unwound.
RunLevelsTooMany(o) == IF o = "close" THEN 3 ELSE 2

\* The levels of m_lock on the stack of a thread inside sqlite3_exec: exec's own,
\* the caller's around it, and close's around rollbackTransaction's.
RunLevels(o) ==
  CASE o = "exec" -> 1
    [] o = "close" -> 3
    [] OTHER -> 2

\* Every Statement prepared on the current handle outlives it.
Orphaned == [t \in Threads |->
  IF stmt[t].life = "none" THEN stmt[t] ELSE [stmt[t] EXCEPT !.stale = TRUE]]

\* An engine error may have rolled the open transaction back.
TxAfterError == tx' \in {tx, FALSE}

-----------------------------------------------------------------------------
(* The clients.  A client opens and closes the connection only while no    *)
(* other thread is inside a method, uses an open connection, resets only a *)
(* Statement it has stepped, and after a close only destroys its           *)
(* Statement.                                                              *)

Quiet == \A u \in Threads : pc[u] = "idle" \/ op[u] \notin Lifecycle

MayCall(t, c) ==
  \/ /\ c \in Lifecycle
     /\ \A u \in Threads : pc[u] = "idle"
  \/ /\ c \in ConnectionCalls
     /\ handle /\ Quiet
  \/ /\ c \in {"construct", "get"}
     /\ handle /\ Quiet
     /\ stmt[t].life = "none"
     /\ lock[t] < MaxDepth
  \/ /\ c \in StatementSteps \cup {"bind"}
     /\ Quiet
     /\ stmt[t].life # "none" /\ ~stmt[t].stale
     /\ ResetsFirst => ~stmt[t].held
     /\ lock[t] < MaxDepth
  \/ /\ c = "reset"
     /\ stmt[t].held
  \/ /\ c = "destroy"
     /\ stmt[t].life # "none"
     /\ ResetsFirst => ~stmt[t].held
     /\ lock[t] < MaxDepth

\* reset and bind start without locking; every other method locks first.
FirstPoint(c) == IF c \in {"reset", "bind"} THEN c ELSE "enter"

Call(t, c) ==
  /\ pc[t] = "idle"
  /\ c \in Calls
  /\ MayCall(t, c)
  /\ op' = [op EXCEPT ![t] = c]
  /\ Goto(t, FirstPoint(c))
  /\ got' = [got EXCEPT ![t] = Nobody]
  /\ UNCHANGED <<lock, stmt, connection, engine, swallowed>>

\* Connection::setExceptions takes no lock.
SetExceptions(t) ==
  /\ pc[t] = "idle"
  /\ "setExceptions" \in Calls
  /\ Quiet
  /\ throws' \in BOOLEAN
  /\ UNCHANGED <<lock, pc, op, stmt, handle, bTemp, inTx, engine, history>>

\* Where a method goes when it has the lock.
LockedPoint(o) ==
  CASE o \in {"construct", "get"} -> "prepare"
    [] o \in StatementSteps -> "step"
    [] o = "destroy" -> "finalize"
    [] o = "exec" -> "run"
    [] OTHER -> "body"

\* Faulty variant: AutoLock::lock does not set m_bLocked.
EnterLockForgetsFlag(t) ==
  /\ pc[t] = "enter"
  /\ CanEnter(lock, t)
  /\ lock' = Enter(lock, t)
  /\ Continue(t, LockedPoint(op[t]))
  /\ UNCHANGED <<stmt, connection, engine, history>>

\* AutoLock::AutoLock or AutoLock::lock at the head of a method.
EnterLock(t) ==
  /\ pc[t] = "enter"
  /\ CanEnter(lock, t)
  /\ lock' = Enter(lock, t)
  /\ stmt' = IF op[t] \in StatementSteps \cup {"destroy"}
             THEN [stmt EXCEPT ![t].held = TRUE] ELSE stmt
  /\ Continue(t, LockedPoint(op[t]))
  /\ UNCHANGED <<connection, engine, history>>

-----------------------------------------------------------------------------
(* Statement *)

\* Once its Statement is constructed, the client goes on as it likes; getInt and
\* the other getters go straight on to next().
Constructed(t) ==
  IF op[t] = "get"
  THEN op' = [op EXCEPT ![t] = "next"] /\ Goto(t, "enter")
  ELSE Leaves(t)

\* Statement::Statement: prepare and unlock, and if it failed report that.  The
\* getters pass m_bThrowExceptions.
Prepare(t) ==
  /\ pc[t] = "prepare"
  /\ \E ok, b \in BOOLEAN :
       /\ op[t] = "get" => b = throws
       /\ stmt' = [stmt EXCEPT ![t] =
            [NoStatement EXCEPT !.life = IF ok THEN "ready" ELSE "null",
                                !.throws = b, !.scoped = op[t] = "get"]]
       /\ IF ok THEN Constructed(t) ELSE Continue(t, "report")
  /\ lock' = Leave(lock, t, 1)
  /\ UNCHANGED <<connection, engine, history>>

\* handleError after the unlock of a prepare or a reset: it asks the engine for
\* its codes and message, without m_lock, writes m_strLastError, and throws if
\* the Statement's exceptions are on.  A constructor that throws leaves no
\* Statement.
Report(t) ==
  /\ pc[t] = "report"
  /\ IF op[t] \in {"construct", "get"}
     THEN IF stmt[t].throws
          THEN stmt' = [stmt EXCEPT ![t] = NoStatement] /\ Leaves(t)
          ELSE stmt' = stmt /\ Constructed(t)
     ELSE stmt' = stmt /\ Leaves(t)
  /\ UNCHANGED <<lock, connection, engine, history>>

\* Statement::bind and the column getters: engine calls outside the lock.
Bind(t) ==
  /\ pc[t] = "bind"
  /\ Leaves(t)
  /\ UNCHANGED <<lock, stmt, connection, engine, history>>

\* sqlite3_step: a row, the end, or an error; a NULL statement is a misuse.
StepResults(life) == IF life = "null" THEN {"error"} ELSE {"row", "done", "error"}

\* What follows sqlite3_step in next, exec, insert and update.  A Statement
\* local to a getter is destroyed next; exec throws with the lock still held.
AfterStep(t, result) ==
  CASE op[t] = "next" /\ stmt[t].scoped ->
         Goto(t, "enter") /\ op' = [op EXCEPT ![t] = "destroy"]
    [] op[t] = "next" /\ ~stmt[t].scoped -> Leaves(t)
    [] op[t] = "stmtExec" ->
         IF result # "done" /\ stmt[t].throws THEN Leaves(t) ELSE Continue(t, "reset")
    [] OTHER -> Continue(t, IF result = "done" THEN "rowid" ELSE "reset")

Step(t) ==
  /\ pc[t] = "step"
  /\ \E result \in StepResults(stmt[t].life) :
       /\ stmt' = [stmt EXCEPT ![t].life =
            IF @ = "null" THEN "null" ELSE IF result = "error" THEN "failed" ELSE "stepped"]
       /\ IF result = "error" THEN TxAfterError ELSE tx' = tx
       /\ IF result = "done" /\ op[t] # "next"
          THEN last' \in IF op[t] = "stmtExec" THEN {t, last} ELSE {t}
          ELSE last' = last
       /\ AfterStep(t, result)
  /\ UNCHANGED <<lock, connection, history>>

\* getRowid or getChangeCount, called by Statement::insert, Statement::update
\* and Connection::insert.
RowId(t) ==
  /\ pc[t] = "rowid"
  /\ got' = [got EXCEPT ![t] = last]
  /\ IF op[t] = "insert" THEN Return(t, 1) ELSE Continue(t, "reset") /\ lock' = lock
  /\ UNCHANGED <<stmt, connection, engine, swallowed>>

\* Statement::reset, called by the client or at the end of exec, insert, update.
\* sqlite3_reset returns the error of the step before it, if that failed.
Reset(t) ==
  /\ pc[t] = "reset"
  /\ stmt' = [stmt EXCEPT ![t].held = FALSE,
                          ![t].life = IF @ = "null" THEN "null" ELSE "ready"]
  /\ lock' = Leave(lock, t, 1)
  /\ IF stmt[t].life = "failed" THEN Continue(t, "report") ELSE Leaves(t)
  /\ UNCHANGED <<connection, engine, history>>

\* Faulty variant: ~Statement unlocks, and then ~AutoLock does again.
FinalizeUnlocksTwice(t) ==
  /\ pc[t] = "finalize"
  /\ stmt' = [stmt EXCEPT ![t] = NoStatement]
  /\ Return(t, 1 + Held(t))
  /\ UNCHANGED <<connection, engine, history>>

\* ~Statement, and ~AutoLock for its m_lock, which leaves one level.
Finalize(t) ==
  /\ pc[t] = "finalize"
  /\ stmt' = [stmt EXCEPT ![t] = NoStatement]
  /\ Return(t, Held(t))
  /\ UNCHANGED <<connection, engine, history>>

-----------------------------------------------------------------------------
(* Connection *)

\* The method after its AutoLock: an early return, or a nested exec.
BodyBegin(t) ==
  /\ op[t] = "begin"
  /\ IF inTx THEN Return(t, 1) ELSE lock' = Enter(lock, t) /\ Continue(t, "run")
  /\ UNCHANGED <<stmt, connection, engine>>

\* Faulty variant: m_bInTransaction cleared before COMMIT has run.
BodyCommitClearsFirst(t) ==
  /\ op[t] = "commit"
  /\ IF inTx
     THEN lock' = Enter(lock, t) /\ Continue(t, "run") /\ inTx' = FALSE
     ELSE Return(t, 1) /\ inTx' = inTx
  /\ UNCHANGED <<stmt, handle, throws, bTemp, engine>>

BodyCommit(t) ==
  /\ op[t] = "commit"
  /\ IF inTx THEN lock' = Enter(lock, t) /\ Continue(t, "run") ELSE Return(t, 1)
  /\ UNCHANGED <<stmt, connection, engine>>

\* rollbackTransaction clears m_bThrowExceptions before it copies it, so the
\* flag is off from here on.
BodyRollback(t) ==
  /\ op[t] = "rollback"
  /\ IF inTx
     THEN lock' = Enter(lock, t) /\ Continue(t, "run") /\ throws' = FALSE
     ELSE Return(t, 1) /\ throws' = throws
  /\ UNCHANGED <<stmt, handle, bTemp, inTx, engine>>

BodyInsert(t) ==
  /\ op[t] = "insert"
  /\ lock' = Enter(lock, t)
  /\ Continue(t, "run")
  /\ UNCHANGED <<stmt, connection, engine>>

\* backup copies the database through a second connection.
BodyBackup(t) ==
  /\ op[t] = "backup"
  /\ Return(t, 1)
  /\ UNCHANGED <<stmt, connection, engine>>

\* close rolls an open transaction back first: two more AutoLocks.
BodyClose(t) ==
  /\ op[t] = "close"
  /\ IF handle /\ inTx
     THEN lock' = Enter(Enter(lock, t), t) /\ Continue(t, "run") /\ throws' = FALSE
     ELSE lock' = lock /\ Continue(t, "shut") /\ throws' = throws
  /\ UNCHANGED <<stmt, handle, bTemp, inTx, engine>>

\* open closes the old handle, opens the new one and runs the PRAGMAs with
\* exceptions off.  m_bInTransaction keeps its value.
BodyOpen(t) ==
  /\ op[t] = "open"
  /\ stmt' = IF handle THEN Orphaned ELSE stmt
  /\ tx' = FALSE
  /\ \/ /\ handle' = TRUE
        /\ bTemp' = throws
        /\ throws' = FALSE
        /\ lock' = Enter(lock, t)
        /\ Continue(t, "run")
     \/ /\ handle' = FALSE
        /\ Return(t, 1)
        /\ UNCHANGED <<throws, bTemp>>
  /\ UNCHANGED <<inTx, last>>

Body(t) ==
  /\ pc[t] = "body"
  /\ \/ BodyBegin(t) \/ BodyCommit(t) \/ BodyRollback(t) \/ BodyInsert(t)
     \/ BodyBackup(t) \/ BodyClose(t) \/ BodyOpen(t)
  /\ UNCHANGED history

\* What sqlite3_exec can accept: BEGIN needs no open transaction, COMMIT and
\* ROLLBACK need one.
Accepts(o) ==
  CASE o = "begin" -> ~tx
    [] o \in {"commit", "rollback", "close"} -> tx
    [] OTHER -> TRUE

\* The open transaction after the statement has succeeded.
TxAfter(o) ==
  CASE o = "begin" -> TRUE
    [] o \in {"commit", "rollback", "close"} -> FALSE
    [] OTHER -> tx

TransactionOps == {"begin", "commit", "rollback", "close"}

\* Connection::exec around sqlite3_exec: success, an error that is returned, or
\* an error that throws and unwinds every AutoLock of the call.  open closes the
\* handle whose PRAGMAs failed.
\* (In the faulty variant insert releases m_lock before it asks for the rowid.)
RunOkUnlocksFirst(t) ==
  /\ Accepts(op[t])
  /\ tx' = TxAfter(op[t])
  /\ last' \in CASE op[t] = "insert" -> {t} [] op[t] = "exec" -> {t, last} [] OTHER -> {last}
  /\ CASE op[t] = "exec" -> Return(t, 1)
       [] op[t] = "insert" -> lock' = Leave(lock, t, 2) /\ Continue(t, "rowid")
       [] OTHER -> lock' = Leave(lock, t, 1) /\ Continue(t, "after")
  /\ UNCHANGED <<handle, swallowed>>

RunOk(t) ==
  /\ Accepts(op[t])
  /\ tx' = TxAfter(op[t])
  /\ last' \in CASE op[t] = "insert" -> {t} [] op[t] = "exec" -> {t, last} [] OTHER -> {last}
  /\ CASE op[t] = "exec" -> Return(t, 1)
       [] op[t] = "insert" -> lock' = Leave(lock, t, 1) /\ Continue(t, "rowid")
       [] OTHER -> lock' = Leave(lock, t, 1) /\ Continue(t, "after")
  /\ UNCHANGED <<handle, swallowed>>

RunFails(t) ==
  /\ ~throws
  /\ TxAfterError
  /\ last' = last
  /\ handle' = (handle /\ op[t] # "open")
  /\ IF op[t] = "exec"
     THEN Return(t, 1)
     ELSE lock' = Leave(lock, t, 1) /\ Continue(t, "after")
  /\ swallowed' = (swallowed \/ op[t] \in TransactionOps)

RunThrows(t) ==
  /\ throws
  /\ TxAfterError
  /\ last' = last
  /\ Return(t, RunLevels(op[t]))
  /\ UNCHANGED <<handle, swallowed>>

Run(t) ==
  /\ pc[t] = "run"
  /\ RunOk(t) \/ RunFails(t) \/ RunThrows(t)
  /\ UNCHANGED <<stmt, throws, bTemp, inTx, got>>

\* The rest of the method once the nested exec has returned.
After(t) ==
  /\ pc[t] = "after"
  /\ inTx' = CASE op[t] = "begin" -> TRUE
               [] op[t] \in {"commit", "rollback", "close"} -> FALSE
               [] OTHER -> inTx
  /\ throws' = CASE op[t] = "open" -> bTemp
                 [] op[t] \in {"rollback", "close"} -> FALSE
                 [] OTHER -> throws
  /\ IF op[t] = "close"
     THEN lock' = Leave(lock, t, 1) /\ Continue(t, "shut")
     ELSE Return(t, 1)
  /\ bTemp' = FALSE
  /\ UNCHANGED <<stmt, handle, engine, history>>

\* The end of close: sqlite3_close, which leaves a handle with Statements on it
\* open but unreachable.
Shut(t) ==
  /\ pc[t] = "shut"
  /\ handle' = FALSE
  /\ tx' = FALSE
  /\ stmt' = IF handle THEN Orphaned ELSE stmt
  /\ swallowed' = FALSE
  /\ Return(t, 1)
  /\ UNCHANGED <<throws, bTemp, inTx, last, got>>

-----------------------------------------------------------------------------
\* The steps a thread takes inside a method but for waiting for the lock.
Proceed(t) ==
  \/ Prepare(t) \/ Report(t) \/ Bind(t) \/ Step(t) \/ RowId(t) \/ Reset(t)
  \/ Finalize(t) \/ Body(t) \/ Run(t) \/ After(t) \/ Shut(t)

Next == \E t \in Threads :
  \/ \E c \in Calls : Call(t, c)
  \/ SetExceptions(t)
  \/ EnterLock(t)
  \/ Proceed(t)

Spec == Init /\ [][Next]_vars

\* A thread inside a method keeps running, a thread waiting for the lock is not
\* passed over for ever, and a client that has stepped its Statement resets it.
Fairness == \A t \in Threads :
  /\ WF_vars(Proceed(t))
  /\ SF_vars(EnterLock(t))
  /\ SF_vars(Call(t, "reset"))

FairSpec == Spec /\ Fairness

-----------------------------------------------------------------------------
(* Properties *)

\* The levels the rest of the method in progress will leave, and the level the
\* Statement's AutoLock says it holds.
Frames(t) ==
  CASE pc[t] \in {"prepare", "body", "shut"} -> 1
    [] pc[t] = "rowid" -> IF op[t] = "insert" THEN 1 ELSE 0
    [] pc[t] = "run" -> RunLevels(op[t])
    [] pc[t] = "after" -> RunLevels(op[t]) - 1
    [] OTHER -> 0

Owed(t) == Frames(t) + Held(t)

\* What the points of a method say of the thread that is at them: at an engine
\* call of a Statement its AutoLock is locked, only a method around a nested
\* exec comes to "after", and a rowid is read straight after the caller's write.
PointOK(t) ==
  /\ pc[t] \in {"step", "reset", "finalize"} => stmt[t].held
  /\ pc[t] = "rowid" => (op[t] = "insert" \/ stmt[t].held) /\ last = t
  /\ pc[t] = "step" => op[t] \in StatementSteps
  /\ pc[t] = "after" => op[t] # "exec"

\* A thread may be executing an engine call on the shared connection.
InEngine(t) ==
  pc[t] \in {"prepare", "bind", "step", "rowid", "reset", "report", "finalize",
             "body", "run", "shut"}

\* A thread is at one that the code makes without m_lock: bind or a column
\* getter, or handleError after the unlock of a prepare or a reset.
WithoutLock(t) == pc[t] \in {"bind", "report"}

\* A thread never leaves more levels of m_lock than it holds, so no call ever
\* reaches the undefined LeaveCriticalSection of a section it does not own:
\* every unlock still to come, in the method in progress and in the
\* Statement's AutoLock, is covered (VKDatabase.cpp 163-234, VKThread.h 106-117).
UnlocksCovered == \A t \in Threads : lock[t] >= Owed(t)

\* m_lock excludes: two threads never hold levels of it at the same time.
Excludes == \A t, u \in Threads : t # u => lock[t] = 0 \/ lock[u] = 0

\* The inductive invariant behind the lock properties: the levels are counted
\* right, they exclude, and every point of a method is reached with its lock.
IInv == TypeOK /\ UnlocksCovered /\ Excludes /\ (\A t \in Threads : PointOK(t))

\* The connection is opened without the engine's own mutex, so no two threads
\* may be inside the engine on it at once (sqlite3.h 1395-1399, 2555).  The
\* code keeps that between all the engine calls it makes under m_lock: two
\* threads are in the engine at once only where one of them is binding, reading
\* a column, or reporting that prepare or reset failed (VKDatabase.cpp 165-167,
\* 187-190), calls it makes without the lock.
LockedCallsSerialized ==
  \A t, u \in Threads :
    t # u /\ InEngine(t) /\ InEngine(u) => WithoutLock(t) \/ WithoutLock(u)

\* What the engine asks for.  The code does not keep it, for those calls.
EngineSerialized == \A t, u \in Threads : t # u => ~(InEngine(t) /\ InEngine(u))

\* The rowid that insert returns and the change count that update returns are
\* those of the caller's own statement, whatever other threads write.
OwnResult == \A t \in Threads : got[t] \in {t, Nobody}

\* From next() to the reset of the Statement no other thread can write through
\* the connection: an open row is never disturbed by another thread.
CursorUndisturbed ==
  [][\A t \in Threads :
       pc[t] = "idle" /\ stmt[t].held => last' = last \/ last' = t]_vars

\* Except inside a method, and unless a transaction statement's failure was
\* swallowed because exceptions were off, an open engine transaction is known to m_bInTransaction, so close
\* rolls it back and beginTransaction does not try to nest one.
TransactionKnown ==
  ~swallowed /\ (\A t \in Threads : pc[t] # "after") => (tx => inTx)

\* A thread outside every method holds m_lock only through a Statement it has
\* stepped and not reset: ~Statement says its level "will be unlocked as soon
\* as the destructor goes out of scope" (VKDatabase.cpp 178).
NothingLeaked ==
  \A t \in Threads : pc[t] = "idle" => lock[t] = Held(t)

\* A thread that calls a method gets the lock in the end.
LockObtained == \A t \in Threads : pc[t] = "enter" ~> pc[t] # "enter"

\* The thread that holds the lock, or Nobody.
Holder ==
  IF \E t \in Threads : lock[t] > 0
  THEN CHOOSE t \in Threads : lock[t] > 0 ELSE Nobody

M == INSTANCE Mutex WITH holder <- Holder

\* Through all its nesting, throwing and hand-over to Statements the lock of
\* the connection is a mutex: it is taken only when free, by one thread, and
\* never passes to another without being released.
IsMutex == M!Spec
=============================================================================
