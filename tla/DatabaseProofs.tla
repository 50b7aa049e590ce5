--------------------------- MODULE DatabaseProofs ---------------------------
(***************************************************************************)
(* Proofs about Database, for every set of threads, every mix of calls and *)
(* every MaxDepth.  All of them rest on IInv.  A step is one thread's, so  *)
(* what it must do for IInv to survive is stated once, as Effect(t), and   *)
(* shown action by action.                                                 *)
(***************************************************************************)
EXTENDS Database, TLAPS

\* What a step of thread t may do: it leaves the other threads' levels and
\* places alone, ends covered by its own levels, gains the lock only when it
\* can enter, and writes through the engine only while it holds the lock.
Effect(t) ==
  /\ TypeOK'
  /\ \A u \in Threads \ {t} :
       /\ lock'[u] = lock[u]
       /\ pc'[u] = pc[u] /\ op'[u] = op[u]
       /\ stmt'[u].held = stmt[u].held
  /\ lock'[t] >= Owed(t)'
  /\ lock'[t] > 0 => lock[t] > 0 \/ CanEnter(lock, t)
  /\ PointOK(t)'
  /\ last' # last => lock[t] > 0 /\ last' = t

-----------------------------------------------------------------------------
(* Levels *)

\* Leaving n of at least n levels, or entering one, changes only the thread's
\* own count.
LEMMA LevelsMove ==
  ASSUME NEW t \in Threads, NEW n \in Nat, lock \in [Threads -> Nat], lock[t] >= n
  PROVE  /\ Leave(lock, t, n) \in [Threads -> Nat]
         /\ Leave(lock, t, n)[t] = lock[t] - n
         /\ \A u \in Threads \ {t} : Leave(lock, t, n)[u] = lock[u]
         /\ Enter(lock, t) \in [Threads -> Nat]
         /\ Enter(lock, t)[t] = lock[t] + 1
         /\ \A u \in Threads \ {t} : Enter(lock, t)[u] = lock[u]
         /\ Enter(Enter(lock, t), t) \in [Threads -> Nat]
         /\ Enter(Enter(lock, t), t)[t] = lock[t] + 2
         /\ \A u \in Threads \ {t} : Enter(Enter(lock, t), t)[u] = lock[u]
  BY DEF Leave, Enter

\* The initial state satisfies the invariant.
LEMMA InitOK == Init => IInv
<1> SUFFICES ASSUME Init PROVE IInv
  OBVIOUS
<1>1. TypeOK
  BY DEF Init, TypeOK, Unlocked, StatementType, NoStatement, Lives, Points
<1>2. UnlocksCovered /\ Excludes
  BY DEF Init, Unlocked, UnlocksCovered, Excludes, Owed, Frames, Held, NoStatement
<1>3. \A t \in Threads : PointOK(t)
  BY DEF Init, PointOK
<1>4. QED
  BY <1>1, <1>2, <1>3 DEF IInv

\* A step with the effect above preserves the invariant: a thread that gains
\* the lock found it free, and a thread about to read its rowid holds the lock,
\* so nobody else can have written.
LEMMA EffectKeepsIInv ==
  ASSUME NEW t \in Threads, IInv, Effect(t)
  PROVE  IInv'
<1>1. UnlocksCovered'
  <2> SUFFICES ASSUME NEW u \in Threads PROVE lock'[u] >= Owed(u)'
    BY DEF UnlocksCovered
  <2>1. CASE u = t
    BY <2>1 DEF Effect
  <2>2. CASE u # t
    BY <2>2 DEF Effect, IInv, UnlocksCovered, Owed, Frames, Held
  <2>3. QED
    BY <2>1, <2>2
<1>2. Excludes'
  BY DEF Effect, IInv, TypeOK, Excludes, CanEnter
<1>3. \A u \in Threads : PointOK(u)'
  <2> SUFFICES ASSUME NEW u \in Threads, u # t PROVE PointOK(u)'
    BY DEF Effect
  <2>1. pc[u] = "rowid" => lock[u] > 0
    BY DEF IInv, UnlocksCovered, TypeOK, PointOK, Owed, Frames, Held
  <2>2. pc[u] = "rowid" => last' = last
    BY <2>1 DEF Effect, IInv, TypeOK, Excludes
  <2>3. QED
    BY <2>2 DEF Effect, IInv, PointOK
<1>4. QED
  BY <1>1, <1>2, <1>3 DEF IInv, Effect

-----------------------------------------------------------------------------
(* The actions *)

\* What the invariant says of the thread about to step, in the form the action
\* lemmas use.
LEMMA Covered ==
  ASSUME NEW t \in Threads, IInv
  PROVE  /\ lock \in [Threads -> Nat]
         /\ lock[t] >= Owed(t)
         /\ Held(t) \in {0, 1} /\ Frames(t) \in {0, 1, 2, 3}
         /\ PointOK(t)
  BY DEF IInv, TypeOK, UnlocksCovered, Held, Frames, RunLevels, Owed

LEMMA CallEffect ==
  ASSUME NEW t \in Threads, NEW c \in Calls, IInv, Call(t, c)
  PROVE  Effect(t)
<1> USE Covered
<1>1. TypeOK'
  BY DatabaseAssumption DEF IInv, TypeOK, Call, MayCall, Goto, FirstPoint, Points, connection, engine, history
<1>2. /\ pc'[t] = FirstPoint(c) /\ op'[t] = c
      /\ \A u \in Threads \ {t} : pc'[u] = pc[u] /\ op'[u] = op[u]
  BY DEF IInv, TypeOK, Call, Goto
<1>3. UNCHANGED <<lock, stmt, last>>
  BY DEF Call, engine
<1>4. lock'[t] >= Owed(t)'
  BY <1>2, <1>3 DEF Owed, Frames, FirstPoint, Held, Call
<1>5. PointOK(t)'
  BY <1>2, <1>3 DEF PointOK, FirstPoint, Call, MayCall, Lifecycle, ConnectionCalls, StatementSteps
<1>6. QED
  BY <1>1, <1>2, <1>3, <1>4, <1>5 DEF Effect

LEMMA SetExceptionsEffect ==
  ASSUME NEW t \in Threads, IInv, SetExceptions(t)
  PROVE  Effect(t)
  BY Covered DEF IInv, TypeOK, SetExceptions, Effect, Owed, Frames, Held, PointOK, engine, history

LEMMA EnterLockEffect ==
  ASSUME NEW t \in Threads, IInv, EnterLock(t)
  PROVE  Effect(t)
<1> USE Covered
<1>1. /\ pc'[t] = LockedPoint(op[t]) /\ op' = op /\ pc[t] = "enter"
      /\ \A u \in Threads \ {t} : pc'[u] = pc[u] /\ stmt'[u] = stmt[u]
  BY DEF IInv, TypeOK, EnterLock, Goto, Continue
<1>2. /\ lock' \in [Threads -> Nat]
      /\ lock'[t] = lock[t] + 1
      /\ \A u \in Threads \ {t} : lock'[u] = lock[u]
  BY LevelsMove DEF EnterLock
<1>3. stmt'[t].held = (stmt[t].held \/ op[t] \in StatementSteps \cup {"destroy"})
  BY DEF IInv, TypeOK, EnterLock, StatementType
<1>4. TypeOK'
  BY <1>2 DEF IInv, TypeOK, EnterLock, StatementType, Goto, Continue, LockedPoint, Points,
              connection, engine, history
<1>5. lock'[t] >= Owed(t)'
  <2>1. lock[t] >= Held(t)
    BY <1>1 DEF Owed, Frames
  <2>2. Frames(t)' = IF op[t] \in StatementSteps \cup {"destroy"} THEN 0 ELSE 1
    BY <1>1 DEF Frames, LockedPoint, StatementSteps, RunLevels
  <2>3. Held(t)' = IF op[t] \in StatementSteps \cup {"destroy"} THEN 1 ELSE Held(t)
    BY <1>3 DEF Held
  <2>4. QED
    BY <1>2, <2>1, <2>2, <2>3 DEF Owed
<1>6. PointOK(t)'
  BY <1>1, <1>3 DEF PointOK, LockedPoint
<1>7. QED
  BY <1>1, <1>2, <1>4, <1>5, <1>6 DEF Effect, EnterLock, engine

\* A thread that leaves the method owes only its Statement's level.
LEMMA LeavesEffect ==
  ASSUME NEW t \in Threads, IInv, Leaves(t)
  PROVE  /\ pc' \in [Threads -> Points] /\ op' \in [Threads -> AllCalls \cup {"none"}]
         /\ pc'[t] = "idle" /\ op'[t] = "none"
         /\ \A u \in Threads \ {t} : pc'[u] = pc[u] /\ op'[u] = op[u]
         /\ Frames(t)' = 0
         /\ PointOK(t)'
  BY DEF IInv, TypeOK, Leaves, Goto, Points, Frames, PointOK

\* A thread that goes on keeps the method it is in.
LEMMA ContinueEffect ==
  ASSUME NEW t \in Threads, NEW point \in Points, IInv, Continue(t, point)
  PROVE  /\ pc' \in [Threads -> Points] /\ op' \in [Threads -> AllCalls \cup {"none"}]
         /\ pc'[t] = point /\ op' = op
         /\ \A u \in Threads \ {t} : pc'[u] = pc[u] /\ op'[u] = op[u]
  BY DEF IInv, TypeOK, Continue, Goto

\* The absent Statement is one of the Statements.
LEMMA NoStatementType == NoStatement \in StatementType /\ ~NoStatement.held
  BY DEF NoStatement, StatementType, Lives

\* A thread that has constructed its Statement owes only the Statement's level.
LEMMA ConstructedEffect ==
  ASSUME NEW t \in Threads, IInv, Constructed(t)
  PROVE  /\ pc' \in [Threads -> Points] /\ op' \in [Threads -> AllCalls \cup {"none"}]
         /\ pc'[t] \in {"idle", "enter"}
         /\ \A u \in Threads \ {t} : pc'[u] = pc[u] /\ op'[u] = op[u]
         /\ Frames(t)' = 0
         /\ PointOK(t)'
<1>1. CASE Leaves(t)
  BY <1>1, LeavesEffect
<1>2. CASE op' = [op EXCEPT ![t] = "next"] /\ Goto(t, "enter")
  <2>1. /\ pc' \in [Threads -> Points] /\ op' \in [Threads -> AllCalls \cup {"none"}]
        /\ pc'[t] = "enter"
        /\ \A u \in Threads \ {t} : pc'[u] = pc[u] /\ op'[u] = op[u]
    BY <1>2 DEF IInv, TypeOK, Goto, Points, AllCalls, StatementSteps
  <2>2. QED
    BY <2>1 DEF Frames, PointOK
<1>3. QED
  BY <1>1, <1>2 DEF Constructed

\* So does one that goes on to report a failure.
LEMMA ReportsEffect ==
  ASSUME NEW t \in Threads, IInv, Continue(t, "report")
  PROVE  /\ pc' \in [Threads -> Points] /\ op' \in [Threads -> AllCalls \cup {"none"}]
         /\ pc'[t] = "report" /\ op' = op
         /\ \A u \in Threads \ {t} : pc'[u] = pc[u] /\ op'[u] = op[u]
         /\ Frames(t)' = 0
         /\ PointOK(t)'
<1>1. "report" \in Points
  BY DEF Points
<1>2. QED
  BY <1>1, ContinueEffect DEF Frames, PointOK

LEMMA PrepareEffect ==
  ASSUME NEW t \in Threads, IInv, Prepare(t)
  PROVE  Effect(t)
<1> USE Covered
<1>1. lock[t] >= 1
  BY DEF Prepare, Owed, Frames
<1>2. /\ lock' \in [Threads -> Nat] /\ lock'[t] >= 0
      /\ \A u \in Threads \ {t} : lock'[u] = lock[u]
  BY <1>1, LevelsMove DEF Prepare
<1>3. PICK ok \in BOOLEAN, b \in BOOLEAN : Prepare(t)!2!(ok, b)
  BY DEF Prepare
<1>4. /\ stmt' \in [Threads -> StatementType]
      /\ ~stmt'[t].held
      /\ \A u \in Threads \ {t} : stmt'[u] = stmt[u]
  BY <1>3 DEF IInv, TypeOK, StatementType, NoStatement, Lives
<1>5. UNCHANGED <<connection, engine, history>>
  BY DEF Prepare
<1>6. Constructed(t) \/ Continue(t, "report")
  BY <1>3, Zenon
<1>7. QED
  BY <1>1, <1>2, <1>4, <1>5, <1>6, ConstructedEffect, ReportsEffect
     DEF Effect, Owed, Held, IInv, TypeOK, connection, engine, history

LEMMA ReportEffect ==
  ASSUME NEW t \in Threads, IInv, Report(t)
  PROVE  Effect(t)
<1> USE Covered
<1>1. lock[t] >= Held(t) /\ Held(t) \in {0, 1} /\ lock \in [Threads -> Nat]
  BY DEF Report, Owed, Frames
<1>2. UNCHANGED <<lock, connection, engine, history>>
  BY DEF Report
<1>3. /\ stmt' \in [Threads -> StatementType]
      /\ stmt'[t].held => stmt[t].held
      /\ \A u \in Threads \ {t} : stmt'[u] = stmt[u]
  <2>1. stmt' = stmt \/ stmt' = [stmt EXCEPT ![t] = NoStatement]
    BY DEF Report
  <2>2. QED
    BY <2>1, NoStatementType DEF IInv, TypeOK
<1>4. Constructed(t) \/ Leaves(t)
  BY DEF Report
<1>5. lock'[t] >= Held(t)' /\ Held(t)' \in {0, 1}
  BY <1>1, <1>2, <1>3 DEF Held
<1>6. QED
  BY <1>1, <1>2, <1>3, <1>4, <1>5, ConstructedEffect, LeavesEffect
     DEF Effect, Owed, IInv, TypeOK, connection, engine, history

LEMMA BindEffect ==
  ASSUME NEW t \in Threads, IInv, Bind(t)
  PROVE  Effect(t)
<1>1. Leaves(t) /\ UNCHANGED <<lock, stmt, connection, engine, history>>
  BY DEF Bind
<1>2. QED
  BY <1>1, LeavesEffect, Covered
     DEF Effect, Owed, Held, IInv, TypeOK, connection, engine, history

LEMMA StepEffect ==
  ASSUME NEW t \in Threads, IInv, Step(t)
  PROVE  Effect(t)
<1> USE Covered
<1>1. stmt[t].held /\ lock[t] >= 1 /\ op[t] \in StatementSteps
  BY DEF Step, PointOK, Owed, Held
<1>2. PICK result \in StepResults(stmt[t].life) : Step(t)!2!(result)
  BY DEF Step
<1>3. /\ stmt' \in [Threads -> StatementType]
      /\ stmt'[t].held
      /\ \A u \in Threads \ {t} : stmt'[u] = stmt[u]
  BY <1>1, <1>2 DEF IInv, TypeOK, StatementType, Lives
<1>4. tx' \in BOOLEAN
  BY <1>2 DEF IInv, TypeOK, TxAfterError
<1>5. last' \in {t, last}
  BY <1>2
<1>6. UNCHANGED <<lock, handle, throws, bTemp, inTx, got, swallowed>>
  BY DEF Step, connection, history
<1> DEFINE Moves ==
      /\ pc' \in [Threads -> Points] /\ op' \in [Threads -> AllCalls \cup {"none"}]
      /\ \A u \in Threads \ {t} : pc'[u] = pc[u] /\ op'[u] = op[u]
      /\ PointOK(t)'
      /\ Frames(t)' = 0
<1>7. ASSUME Moves PROVE Effect(t)
  BY <1>1, <1>3, <1>4, <1>5, <1>6, <1>7 DEF Effect, Owed, Held, IInv, TypeOK
<1>8. CASE Leaves(t)
  BY <1>7, <1>8, LeavesEffect
<1>9. CASE Goto(t, "enter") /\ op' = [op EXCEPT ![t] = "destroy"]
  <2>1. /\ pc' \in [Threads -> Points] /\ op' \in [Threads -> AllCalls \cup {"none"}]
        /\ pc'[t] = "enter"
        /\ \A u \in Threads \ {t} : pc'[u] = pc[u] /\ op'[u] = op[u]
    BY <1>9 DEF IInv, TypeOK, Goto, Points, AllCalls
  <2>2. QED
    BY <1>7, <2>1 DEF PointOK, Frames
<1>10. CASE Continue(t, "reset")
  <2>1. "reset" \in Points
    BY DEF Points
  <2>2. QED
    BY <1>3, <1>7, <1>10, <2>1, ContinueEffect DEF PointOK, Frames
<1>11. CASE result = "done" /\ op[t] \in {"stmtInsert", "stmtUpdate"} /\ Continue(t, "rowid")
  <2>1. "rowid" \in Points
    BY DEF Points
  <2>2. last' = t
    BY <1>2, <1>11
  <2>3. QED
    BY <1>3, <1>7, <1>11, <2>1, <2>2, ContinueEffect DEF PointOK, Frames
<1>12. \/ Leaves(t)
       \/ Goto(t, "enter") /\ op' = [op EXCEPT ![t] = "destroy"]
       \/ Continue(t, "reset")
       \/ result = "done" /\ op[t] \in {"stmtInsert", "stmtUpdate"} /\ Continue(t, "rowid")
  BY <1>1, <1>2 DEF AfterStep, StatementSteps, IInv, TypeOK, StatementType
<1>13. QED
  BY <1>8, <1>9, <1>10, <1>11, <1>12

LEMMA RowIdEffect ==
  ASSUME NEW t \in Threads, IInv, RowId(t)
  PROVE  Effect(t)
<1> USE Covered
<1>1. pc[t] = "rowid" /\ last \in Threads
  BY DEF RowId, PointOK
<1>2. got' \in [Threads -> Threads \cup {Nobody}]
  BY DEF RowId, IInv, TypeOK
<1>3. CASE op[t] = "insert"
  <2>1. lock[t] >= 1 + Held(t)
    BY <1>1, <1>3 DEF Owed, Frames
  <2>2. /\ lock' \in [Threads -> Nat] /\ lock'[t] = lock[t] - 1
        /\ \A u \in Threads \ {t} : lock'[u] = lock[u]
    BY <1>3, <2>1, LevelsMove DEF RowId, Return
  <2>3. QED
    BY <1>2, <1>3, <2>1, <2>2, LeavesEffect
       DEF RowId, Return, Effect, Owed, Held, IInv, TypeOK, connection, engine
<1>4. CASE op[t] # "insert"
  <2>1. stmt[t].held /\ "reset" \in Points
    BY <1>1, <1>4 DEF PointOK, Points
  <2>2. Continue(t, "reset") /\ UNCHANGED <<lock, stmt, connection, engine, swallowed>>
    BY <1>4 DEF RowId
  <2>3. PointOK(t)' /\ Frames(t)' = 0
    BY <2>1, <2>2, ContinueEffect DEF PointOK, Frames
  <2>4. QED
    BY <1>2, <2>1, <2>2, <2>3, ContinueEffect
       DEF Effect, Owed, Held, IInv, TypeOK, connection, engine
<1>5. QED
  BY <1>3, <1>4

LEMMA ResetEffect ==
  ASSUME NEW t \in Threads, IInv, Reset(t)
  PROVE  Effect(t)
<1> USE Covered
<1>1. lock[t] >= 1
  BY DEF Reset, PointOK, Owed, Held
<1>2. /\ lock' \in [Threads -> Nat] /\ lock'[t] >= 0
      /\ \A u \in Threads \ {t} : lock'[u] = lock[u]
  BY <1>1, LevelsMove DEF Reset
<1>3. /\ stmt' \in [Threads -> StatementType]
      /\ ~stmt'[t].held
      /\ \A u \in Threads \ {t} : stmt'[u] = stmt[u]
  <2> DEFINE after == [stmt[t] EXCEPT !.held = FALSE,
                                      !.life = IF @ = "null" THEN "null" ELSE "ready"]
  <2>1. stmt \in [Threads -> StatementType] /\ stmt[t] \in StatementType
    BY DEF IInv, TypeOK
  <2>2. stmt' = [stmt EXCEPT ![t] = after]
    BY <2>1 DEF Reset
  <2>3. after \in StatementType /\ ~after.held
    BY <2>1 DEF StatementType, Lives
  <2> HIDE DEF after
  <2>4. stmt' \in [Threads -> StatementType]
    BY <2>1, <2>2, <2>3
  <2>5. QED
    BY <2>1, <2>2, <2>3, <2>4
<1>4. Leaves(t) \/ Continue(t, "report")
  BY DEF Reset
<1>5. UNCHANGED <<connection, engine, history>>
  BY DEF Reset
<1>6. QED
  BY <1>1, <1>2, <1>3, <1>4, <1>5, LeavesEffect, ReportsEffect
     DEF Effect, Owed, Held, IInv, TypeOK, connection, engine, history

LEMMA FinalizeEffect ==
  ASSUME NEW t \in Threads, IInv, Finalize(t)
  PROVE  Effect(t)
<1> USE Covered
<1>1. Held(t) = 1 /\ lock[t] >= 1
  BY DEF Finalize, PointOK, Owed, Held
<1>2. /\ lock' \in [Threads -> Nat] /\ lock'[t] >= 0
      /\ \A u \in Threads \ {t} : lock'[u] = lock[u]
  BY <1>1, LevelsMove DEF Finalize, Return
<1>3. /\ stmt' \in [Threads -> StatementType]
      /\ ~stmt'[t].held
      /\ \A u \in Threads \ {t} : stmt'[u] = stmt[u]
  <2>1. stmt' = [stmt EXCEPT ![t] = NoStatement] /\ stmt \in [Threads -> StatementType]
    BY DEF Finalize, IInv, TypeOK
  <2>2. QED
    BY <2>1, NoStatementType
<1>4. QED
  BY <1>1, <1>2, <1>3, LeavesEffect
     DEF Finalize, Return, Effect, Owed, Held, IInv, TypeOK, connection, engine, history

\* Every Statement is still a Statement when its handle is gone.
LEMMA OrphanedType ==
  ASSUME IInv
  PROVE  /\ Orphaned \in [Threads -> StatementType]
         /\ \A u \in Threads : Orphaned[u].held = stmt[u].held
<1>1. \A u \in Threads : stmt[u] \in StatementType
  BY DEF IInv, TypeOK
<1>2. \A s \in StatementType : /\ [s EXCEPT !.stale = TRUE] \in StatementType
                               /\ [s EXCEPT !.stale = TRUE].held = s.held
  BY DEF StatementType
<1>3. QED
  BY <1>1, <1>2 DEF Orphaned

\* The variables a Connection method leaves to its own steps.
ConnectionTyped ==
  /\ handle' \in BOOLEAN /\ throws' \in BOOLEAN /\ bTemp' \in BOOLEAN /\ inTx' \in BOOLEAN
  /\ tx' \in BOOLEAN /\ got' \in [Threads -> Threads \cup {Nobody}] /\ swallowed' \in BOOLEAN
  /\ stmt' \in [Threads -> StatementType]
  /\ \A u \in Threads : stmt'[u].held = stmt[u].held

\* Returning from a Connection method that holds exactly n levels of its own.
LEMMA ReturnEffect ==
  ASSUME NEW t \in Threads, NEW n \in Nat, IInv, Frames(t) = n, n > 0,
         Return(t, n), ConnectionTyped, last' = last \/ last' = t, last' \in Threads \cup {Nobody}
  PROVE  Effect(t)
<1>1. lock[t] >= n + Held(t) /\ lock[t] > 0 /\ Held(t) \in {0, 1}
  BY Covered DEF Owed
<1>2. /\ lock' \in [Threads -> Nat] /\ lock'[t] = lock[t] - n
      /\ \A u \in Threads \ {t} : lock'[u] = lock[u]
  BY <1>1, Covered, LevelsMove DEF Return
<1>3. Held(t)' = Held(t)
  BY DEF Held, ConnectionTyped
<1>4. lock'[t] >= Owed(t)'
  BY <1>1, <1>2, <1>3, LeavesEffect, Covered DEF Return, Owed
<1>5. QED
  BY <1>1, <1>2, <1>4, LeavesEffect DEF Return, Effect, ConnectionTyped, TypeOK

\* Going on inside one, with the levels the next point needs.
LEMMA GoOnEffect ==
  ASSUME NEW t \in Threads, NEW point \in Points, IInv,
         Continue(t, point), ConnectionTyped,
         last' = last \/ last' = t, last' \in Threads \cup {Nobody},
         Frames(t) > 0,
         lock' \in [Threads -> Nat],
         \A u \in Threads \ {t} : lock'[u] = lock[u],
         lock'[t] - lock[t] = Frames(t)' - Frames(t),
         PointOK(t)'
  PROVE  Effect(t)
<1>1. lock[t] >= Frames(t) + Held(t) /\ lock[t] > 0 /\ Held(t) \in {0, 1}
  BY Covered DEF Owed
<1>2. Held(t)' = Held(t)
  BY DEF Held, ConnectionTyped
<1>3. Frames(t)' \in {0, 1, 2, 3}
  BY DEF Frames, RunLevels
<1>4. lock'[t] >= Owed(t)'
  BY <1>1, <1>2, <1>3, Covered DEF Owed
<1>5. QED
  BY <1>1, <1>4, ContinueEffect DEF Effect, ConnectionTyped, TypeOK

LEMMA BodyEffect ==
  ASSUME NEW t \in Threads, IInv, Body(t)
  PROVE  Effect(t)
<1> USE Covered
<1>1. pc[t] = "body" /\ Frames(t) = 1 /\ lock[t] >= 1 /\ last \in Threads \cup {Nobody}
  BY DEF Body, Frames, Owed, IInv, TypeOK
<1>2. last' = last
  BY DEF Body, BodyBegin, BodyCommit, BodyRollback, BodyInsert, BodyBackup, BodyClose, BodyOpen,
         engine
<1>3. ConnectionTyped
  BY OrphanedType
     DEF ConnectionTyped, IInv, TypeOK, Body, BodyBegin, BodyCommit, BodyRollback, BodyInsert,
         BodyBackup, BodyClose, BodyOpen, engine, connection, history
<1>4. CASE Return(t, 1)
  BY <1>1, <1>2, <1>3, <1>4, ReturnEffect
<1>5. CASE op[t] \notin {"exec", "close"} /\ lock' = Enter(lock, t) /\ Continue(t, "run")
  <2>1. "run" \in Points
    BY DEF Points
  <2>2. Frames(t)' = 2 /\ PointOK(t)'
    BY <1>5, <2>1, ContinueEffect DEF Frames, RunLevels, PointOK
  <2>3. QED
    BY <1>1, <1>2, <1>3, <1>5, <2>1, <2>2, LevelsMove, GoOnEffect
<1>6. CASE op[t] = "close" /\ lock' = Enter(Enter(lock, t), t) /\ Continue(t, "run")
  <2>1. "run" \in Points
    BY DEF Points
  <2>2. Frames(t)' = 3 /\ PointOK(t)'
    BY <1>6, <2>1, ContinueEffect DEF Frames, RunLevels, PointOK
  <2>3. QED
    BY <1>1, <1>2, <1>3, <1>6, <2>1, <2>2, LevelsMove, GoOnEffect
<1>7. CASE op[t] = "close" /\ lock' = lock /\ Continue(t, "shut")
  <2>1. "shut" \in Points
    BY DEF Points
  <2>2. Frames(t)' = 1 /\ PointOK(t)'
    BY <1>7, <2>1, ContinueEffect DEF Frames, PointOK
  <2>3. QED
    BY <1>1, <1>2, <1>3, <1>7, <2>1, <2>2, GoOnEffect
<1>8. \/ Return(t, 1)
      \/ op[t] \notin {"exec", "close"} /\ lock' = Enter(lock, t) /\ Continue(t, "run")
      \/ op[t] = "close" /\ lock' = Enter(Enter(lock, t), t) /\ Continue(t, "run")
      \/ op[t] = "close" /\ lock' = lock /\ Continue(t, "shut")
  BY DEF Body, BodyBegin, BodyCommit, BodyRollback, BodyInsert, BodyBackup, BodyClose, BodyOpen
<1>9. QED
  BY <1>4, <1>5, <1>6, <1>7, <1>8

LEMMA RunEffect ==
  ASSUME NEW t \in Threads, IInv, Run(t)
  PROVE  Effect(t)
<1> USE Covered
<1>1. pc[t] = "run" /\ Frames(t) = RunLevels(op[t]) /\ lock[t] >= RunLevels(op[t])
  BY DEF Run, Frames, Owed
<1>2. RunLevels(op[t]) \in {1, 2, 3}
  BY DEF RunLevels
<1>3. (last' = last \/ last' = t) /\ last' \in Threads \cup {Nobody}
  BY DEF Run, RunOk, RunFails, RunThrows, IInv, TypeOK
<1>4. ConnectionTyped
  BY DEF ConnectionTyped, IInv, TypeOK, Run, RunOk, RunFails, RunThrows, TxAfter, TxAfterError
<1>5. CASE Return(t, RunLevels(op[t]))
  BY <1>1, <1>2, <1>3, <1>4, <1>5, ReturnEffect
<1>6. CASE op[t] = "insert" /\ last' = t /\ lock' = Leave(lock, t, 1) /\ Continue(t, "rowid")
  <2>1. "rowid" \in Points /\ RunLevels(op[t]) = 2
    BY <1>6 DEF Points, RunLevels
  <2>2. Frames(t)' = 1 /\ PointOK(t)'
    BY <1>6, <2>1, ContinueEffect DEF Frames, PointOK
  <2>3. QED
    BY <1>1, <1>2, <1>3, <1>4, <1>6, <2>1, <2>2, LevelsMove, GoOnEffect
<1>7. CASE op[t] # "exec" /\ lock' = Leave(lock, t, 1) /\ Continue(t, "after")
  <2>1. "after" \in Points
    BY DEF Points
  <2>2. Frames(t)' = RunLevels(op[t]) - 1 /\ PointOK(t)'
    BY <1>7, <2>1, ContinueEffect DEF Frames, PointOK
  <2>3. QED
    BY <1>1, <1>2, <1>3, <1>4, <1>7, <2>1, <2>2, LevelsMove, GoOnEffect
<1>8. \/ Return(t, RunLevels(op[t]))
      \/ op[t] = "insert" /\ last' = t /\ lock' = Leave(lock, t, 1) /\ Continue(t, "rowid")
      \/ op[t] # "exec" /\ lock' = Leave(lock, t, 1) /\ Continue(t, "after")
  BY DEF Run, RunOk, RunFails, RunThrows, RunLevels
<1>9. QED
  BY <1>5, <1>6, <1>7, <1>8

LEMMA AfterEffect ==
  ASSUME NEW t \in Threads, IInv, After(t)
  PROVE  Effect(t)
<1> USE Covered
<1>1. pc[t] = "after" /\ op[t] # "exec" /\ Frames(t) = RunLevels(op[t]) - 1
  BY DEF After, Frames, PointOK
<1>2. last' = last /\ last \in Threads \cup {Nobody}
  BY DEF After, engine, IInv, TypeOK
<1>3. ConnectionTyped
  BY DEF ConnectionTyped, IInv, TypeOK, After, engine, history
<1>4. CASE op[t] = "close"
  <2>1. Frames(t) = 2 /\ lock[t] >= 2 /\ "shut" \in Points
    BY <1>1, <1>4 DEF RunLevels, Owed, Points
  <2>2. lock' = Leave(lock, t, 1) /\ Continue(t, "shut")
    BY <1>4 DEF After
  <2>3. Frames(t)' = 1 /\ PointOK(t)'
    BY <2>1, <2>2, ContinueEffect DEF Frames, PointOK
  <2>4. QED
    BY <1>2, <1>3, <2>1, <2>2, <2>3, LevelsMove, GoOnEffect
<1>5. CASE op[t] # "close"
  <2>1. Frames(t) = 1
    BY <1>1, <1>5 DEF RunLevels
  <2>2. Return(t, 1)
    BY <1>5 DEF After
  <2>3. QED
    BY <1>2, <1>3, <2>1, <2>2, ReturnEffect
<1>6. QED
  BY <1>4, <1>5

LEMMA ShutEffect ==
  ASSUME NEW t \in Threads, IInv, Shut(t)
  PROVE  Effect(t)
<1>1. Frames(t) = 1 /\ Return(t, 1) /\ last' = last /\ last \in Threads \cup {Nobody}
  BY DEF Shut, Frames, IInv, TypeOK
<1>2. ConnectionTyped
  BY OrphanedType DEF ConnectionTyped, IInv, TypeOK, Shut
<1>3. QED
  BY <1>1, <1>2, ReturnEffect

-----------------------------------------------------------------------------
(* Theorems *)

\* Every step is one thread's, and has the effect above, or changes nothing.
LEMMA NextEffect ==
  ASSUME IInv, Next
  PROVE  \E t \in Threads : Effect(t)
<1>1. PICK t \in Threads : \/ \E c \in Calls : Call(t, c)
                           \/ SetExceptions(t)
                           \/ EnterLock(t)
                           \/ Proceed(t)
  BY DEF Next
<1>2. Effect(t)
  BY <1>1, CallEffect, SetExceptionsEffect, EnterLockEffect, PrepareEffect, ReportEffect, BindEffect,
     StepEffect, RowIdEffect, ResetEffect, FinalizeEffect, BodyEffect, RunEffect,
     AfterEffect, ShutEffect DEF Proceed
<1>3. QED
  BY <1>2

\* A step that changes nothing keeps the invariant.
LEMMA StutterKeepsIInv ==
  ASSUME IInv, UNCHANGED vars
  PROVE  IInv'
<1>1. TypeOK'
  BY DEF IInv, TypeOK, vars, connection, engine, history
<1>2. UnlocksCovered' /\ Excludes'
  BY DEF IInv, UnlocksCovered, Excludes, Owed, Frames, Held, vars
<1>3. \A t \in Threads : PointOK(t)'
  BY DEF IInv, PointOK, vars, engine
<1>4. QED
  BY <1>1, <1>2, <1>3 DEF IInv

\* The inductive invariant holds: m_lock's levels are counted right through
\* every nesting, early return, throw and hand-over to a Statement.
THEOREM Invariance == Spec => []IInv
<1>1. Init => IInv
  BY InitOK
<1>2. IInv /\ [Next]_vars => IInv'
  <2>1. ASSUME IInv, Next PROVE IInv'
    BY <2>1, NextEffect, EffectKeepsIInv
  <2>2. QED
    BY <2>1, StutterKeepsIInv
<1>3. QED
  BY <1>1, <1>2, PTL DEF Spec

\* No unlock ever exceeds what the thread holds, and the state is well typed:
\* LeaveCriticalSection is never called by a thread that does not own it.
THEOREM UnlocksAlwaysCovered == Spec => [](TypeOK /\ UnlocksCovered)
<1>1. IInv => TypeOK /\ UnlocksCovered
  BY DEF IInv
<1>2. QED
  BY <1>1, Invariance, PTL

\* Every variable of the connection keeps its type.
THEOREM ConnectionIsTyped == Spec => []TypeOK
<1>1. IInv => TypeOK
  BY DEF IInv
<1>2. QED
  BY <1>1, Invariance, PTL

\* A thread at an engine call the code makes under m_lock holds it.
LEMMA EngineLocked ==
  ASSUME NEW t \in Threads, IInv, InEngine(t), ~WithoutLock(t)
  PROVE  lock[t] > 0
  BY Covered DEF InEngine, WithoutLock, Owed, Frames, Held, PointOK, RunLevels

\* Two threads are inside the engine on the connection at the same time only
\* where one of them is at bind, a column getter, or the report of a failed
\* prepare or reset: the engine calls made under m_lock never overlap.
THEOREM Serialized == Spec => []LockedCallsSerialized
<1>1. IInv => LockedCallsSerialized
  BY EngineLocked DEF IInv, TypeOK, Excludes, LockedCallsSerialized
<1>2. QED
  BY <1>1, Invariance, PTL

\* insert and update return their caller's own rowid and change count.
THEOREM ResultsAreOwn == Spec => []OwnResult
<1>1. Init => OwnResult
  BY DEF Init, OwnResult
<1>2. IInv /\ OwnResult /\ [Next]_vars => OwnResult'
  <2> SUFFICES ASSUME IInv, OwnResult, [Next]_vars PROVE OwnResult'
    OBVIOUS
  <2>1. CASE UNCHANGED vars
    BY <2>1 DEF vars, history, OwnResult
  <2>2. ASSUME NEW t \in Threads, NEW c \in Calls, Call(t, c) PROVE OwnResult'
    BY <2>2 DEF Call, OwnResult, IInv, TypeOK
  <2>3. ASSUME NEW t \in Threads, RowId(t) PROVE OwnResult'
    BY <2>3 DEF RowId, OwnResult, IInv, TypeOK, PointOK
  <2>4. ASSUME NEW t \in Threads,
               SetExceptions(t) \/ EnterLock(t) \/ Prepare(t) \/ Report(t) \/ Bind(t) \/ Step(t) \/ Reset(t)
                 \/ Finalize(t) \/ Body(t) \/ Run(t) \/ After(t) \/ Shut(t)
        PROVE  OwnResult'
    <3>1. got' = got
      BY <2>4 DEF SetExceptions, EnterLock, Prepare, Report, Bind, Step, Reset, Finalize, Body, Run, After,
                  Shut, history
    <3>2. QED
      BY <3>1 DEF OwnResult
  <2>5. QED
    BY <2>1, <2>2, <2>3, <2>4 DEF Next, Proceed
<1>3. QED
  BY <1>1, <1>2, Invariance, PTL DEF Spec

\* Between next() and reset no other thread writes.
THEOREM CursorsUndisturbed == Spec => CursorUndisturbed
<1> DEFINE Undisturbed == \A t \in Threads :
      pc[t] = "idle" /\ stmt[t].held => last' = last \/ last' = t
<1>1. IInv /\ [Next]_vars => [Undisturbed]_vars
  <2> SUFFICES ASSUME IInv, Next, NEW t \in Threads, stmt[t].held
               PROVE  last' = last \/ last' = t
    OBVIOUS
  <2>1. lock[t] > 0
    BY Covered DEF Owed, Held
  <2>2. PICK u \in Threads : Effect(u)
    BY NextEffect
  <2>3. CASE u = t
    BY <2>2, <2>3 DEF Effect
  <2>4. CASE u # t
    BY <2>1, <2>2, <2>4 DEF Effect, IInv, TypeOK, Excludes
  <2>5. QED
    BY <2>3, <2>4
<1>2. QED
  BY <1>1, Invariance, PTL DEF Spec, CursorUndisturbed

\* What Holder is under the invariant: the one thread with levels.
LEMMA HolderIs ==
  ASSUME IInv
  PROVE  /\ (\A t \in Threads : lock[t] = 0) => Holder = Nobody
         /\ \A t \in Threads : lock[t] > 0 => Holder = t
<1>1. lock \in [Threads -> Nat]
  BY DEF IInv, TypeOK
<1>2. \A t, u \in Threads : lock[t] > 0 /\ lock[u] > 0 => t = u
  BY <1>1 DEF IInv, Excludes
<1>3. ASSUME NEW t \in Threads, lock[t] > 0 PROVE Holder = t
  BY <1>2, <1>3 DEF Holder
<1>4. (\A t \in Threads : lock[t] = 0) => Holder = Nobody
  BY <1>1 DEF Holder
<1>5. QED
  BY <1>3, <1>4

\* Database implements Mutex under the mapping holder <- Holder.
THEOREM ImplementsMutex == Spec => IsMutex
<1>1. Init => M!Init
  BY DEF Init, M!Init, Holder, Unlocked
<1>2. IInv /\ IInv' /\ [Next]_vars => [M!Next]_Holder
  <2> SUFFICES ASSUME IInv, IInv', [Next]_vars PROVE [M!Next]_Holder
    OBVIOUS
  <2> DEFINE free == \A v \in Threads : lock[v] = 0
  <2>0. lock \in [Threads -> Nat] /\ lock' \in [Threads -> Nat]
    BY DEF IInv, TypeOK
  <2>1. CASE UNCHANGED vars
    BY <2>1 DEF vars, Holder
  <2>2. ASSUME NEW t \in Threads, Effect(t) PROVE [M!Next]_Holder
    <3>1. /\ (\A v \in Threads : lock'[v] = 0) => Holder' = Nobody
          /\ \A v \in Threads : lock'[v] > 0 => Holder' = v
      <4>1. lock' \in [Threads -> Nat] /\ \A v, w \in Threads : lock'[v] > 0 /\ lock'[w] > 0 => v = w
        BY <2>0 DEF IInv, Excludes
      <4>2. QED
        BY <4>1 DEF Holder
    <3>2. CASE lock[t] > 0 /\ lock'[t] > 0
      BY <3>1, <3>2, HolderIs
    <3>3. CASE lock[t] > 0 /\ lock'[t] = 0
      <4>1. \A v \in Threads : lock'[v] = 0
        BY <2>0, <2>2, <3>3 DEF Effect, IInv, Excludes
      <4>2. Holder = t /\ Holder' = Nobody
        BY <3>1, <3>3, <4>1, HolderIs
      <4>3. QED
        BY <4>2 DEF M!Next, M!Release
    <3>4. CASE lock[t] = 0 /\ lock'[t] > 0
      <4>1. \A v \in Threads : lock[v] = 0
        BY <2>0, <2>2, <3>4 DEF Effect, CanEnter
      <4>2. Holder = Nobody /\ Holder' = t
        BY <3>1, <3>4, <4>1, HolderIs
      <4>3. QED
        BY <4>2 DEF M!Next, M!Acquire
    <3>5. CASE lock[t] = 0 /\ lock'[t] = 0
      <4>1. lock' = lock
        BY <2>0, <2>2, <3>5 DEF Effect
      <4>2. QED
        BY <4>1 DEF Holder
    <3>6. QED
      BY <2>0, <3>2, <3>3, <3>4, <3>5
  <2>3. QED
    BY <2>1, <2>2, NextEffect
<1>3. QED
  BY <1>1, <1>2, Invariance, PTL DEF Spec, IsMutex, M!Spec

-----------------------------------------------------------------------------
(* Transactions *)

\* Between the engine's answer and the assignment to m_bInTransaction stands one
\* thread, and it holds the lock.
Known ==
  ~swallowed =>
    /\ tx /\ ~inTx => \E t \in Threads : pc[t] = "after" /\ op[t] = "begin"
    /\ \A t \in Threads :
         pc[t] = "after" /\ op[t] \in {"commit", "rollback", "close"} => ~tx

\* A step of a thread that does not come to, or from, the end of such a method.
LEMMA ElsewhereKnown ==
  ASSUME NEW t \in Threads, IInv, Known, Effect(t), pc[t] # "after", pc'[t] # "after",
         UNCHANGED <<inTx, swallowed>>, tx' \in {tx, FALSE}
  PROVE  Known'
<1> SUFFICES ASSUME ~swallowed PROVE Known'
  BY DEF Known
<1>1. \A u \in Threads : pc'[u] = "after" <=> pc[u] = "after"
  BY DEF Effect
<1>2. \A u \in Threads : pc[u] = "after" => op'[u] = op[u]
  BY DEF Effect
<1>3. tx' => tx
  BY DEF IInv, TypeOK
<1> QED BY <1>1, <1>2, <1>3 DEF Known

\* A thread with levels is alone.
LEMMA AfterAlone ==
  ASSUME IInv, NEW t \in Threads, NEW u \in Threads, t # u,
         pc[t] \in {"run", "after"}
  PROVE  pc[u] # "after"
<1>1. Frames(t) >= 1 /\ Held(t) \in {0, 1}
  BY DEF IInv, PointOK, Frames, RunLevels, Held
<1>2. lock[t] > 0
  BY <1>1, Covered DEF Owed
<1>3. pc[u] = "after" => Frames(u) >= 1 /\ Held(u) \in {0, 1}
  BY DEF IInv, PointOK, Frames, RunLevels, Held
<1>4. pc[u] = "after" => lock[u] > 0
  BY <1>3, Covered DEF Owed
<1>5. lock \in [Threads -> Nat] /\ (lock[t] = 0 \/ lock[u] = 0)
  BY DEF IInv, TypeOK, Excludes
<1> QED BY <1>2, <1>4, <1>5

LEMMA RunKnown ==
  ASSUME NEW t \in Threads, IInv, Known, Run(t)
  PROVE  Known'
<1>1. pc[t] = "run" /\ inTx' = inTx /\ \A u \in Threads \ {t} : pc[u] # "after"
  BY AfterAlone DEF Run
<1>2. Effect(t)
  BY RunEffect
<1>3. \A u \in Threads \ {t} : pc'[u] # "after"
  BY <1>1, <1>2 DEF Effect
<1>4. tx \in BOOLEAN /\ (~swallowed /\ tx => inTx)
  BY <1>1 DEF Known, IInv, TypeOK
<1>5. pc'[t] = "after" => op' = op
  BY DEF Run, RunOk, RunFails, RunThrows, Return, Leaves, Continue, Goto, IInv, TypeOK
<1>6. CASE RunOk(t)
  <2>1. tx' = TxAfter(op[t]) /\ swallowed' = swallowed
    BY <1>6 DEF RunOk
  <2>2. op[t] = "begin" => pc'[t] = "after"
    BY <1>6 DEF RunOk, Continue, Goto, IInv, TypeOK
  <2>3. op[t] \in {"commit", "rollback", "close"} => tx' = FALSE
    BY <2>1 DEF TxAfter
  <2>4. op[t] # "begin" => (tx' => tx)
    BY <1>4, <2>1 DEF TxAfter
  <2>5. CASE op[t] = "begin"
    BY <1>1, <1>3, <1>5, <2>2, <2>5 DEF Known
  <2>6. CASE op[t] # "begin"
    BY <1>1, <1>3, <1>4, <1>5, <2>1, <2>3, <2>4, <2>6 DEF Known
  <2> QED BY <2>5, <2>6
<1>7. CASE RunFails(t)
  <2>1. tx' \in {tx, FALSE} /\ (~swallowed' => ~swallowed /\ op[t] \notin TransactionOps)
    BY <1>7 DEF RunFails, TxAfterError, IInv, TypeOK
  <2> QED BY <1>1, <1>3, <1>4, <1>5, <2>1 DEF Known, TransactionOps
<1>8. CASE RunThrows(t)
  <2>1. tx' \in {tx, FALSE} /\ swallowed' = swallowed /\ pc'[t] # "after"
    BY <1>8 DEF RunThrows, TxAfterError, Return, Leaves, Goto, IInv, TypeOK
  <2> QED BY <1>1, <1>3, <1>4, <2>1 DEF Known
<1> QED BY <1>6, <1>7, <1>8 DEF Run

LEMMA AfterKnown ==
  ASSUME NEW t \in Threads, IInv, Known, After(t)
  PROVE  Known'
<1>1. pc[t] = "after" /\ UNCHANGED <<tx, swallowed>> /\ \A u \in Threads \ {t} : pc[u] # "after"
  BY AfterAlone DEF After, engine, history
<1>2. Effect(t)
  BY AfterEffect
<1>3. pc'[t] # "after" /\ \A u \in Threads \ {t} : pc'[u] # "after"
  BY <1>1, <1>2 DEF Effect, After, Return, Leaves, Continue, Goto, IInv, TypeOK
<1>4. ~swallowed /\ tx => inTx'
  <2>1. CASE op[t] = "begin"
    BY <2>1 DEF After
  <2>2. CASE op[t] \in {"commit", "rollback", "close"}
    BY <1>1, <2>2 DEF Known
  <2>3. CASE op[t] \notin {"begin", "commit", "rollback", "close"}
    <3>1. inTx' = inTx
      BY <2>3 DEF After
    <3> QED BY <1>1, <2>3, <3>1 DEF Known
  <2> QED BY <2>1, <2>2, <2>3
<1> QED BY <1>1, <1>3, <1>4 DEF Known

LEMMA KnownStep ==
  ASSUME IInv, Known, [Next]_vars
  PROVE  Known'
<1>1. CASE UNCHANGED vars
  BY <1>1 DEF vars, Known, connection, engine, history
<1>2. ASSUME NEW t \in Threads, NEW c \in Calls, Call(t, c) PROVE Known'
  <2>1. pc[t] # "after" /\ pc'[t] # "after" /\ UNCHANGED <<inTx, swallowed, tx>>
    BY <1>2 DEF Call, Goto, FirstPoint, IInv, TypeOK, connection, engine
  <2> QED BY <1>2, <2>1, CallEffect, ElsewhereKnown
<1>3. ASSUME NEW t \in Threads, SetExceptions(t) PROVE Known'
  BY <1>3 DEF SetExceptions, Known, engine, history
<1>4. ASSUME NEW t \in Threads, EnterLock(t) PROVE Known'
  <2>1. pc[t] # "after" /\ pc'[t] # "after" /\ UNCHANGED <<inTx, swallowed, tx>>
    BY <1>4 DEF EnterLock, Continue, Goto, LockedPoint, IInv, TypeOK, connection, engine, history
  <2> QED BY <1>4, <2>1, EnterLockEffect, ElsewhereKnown
<1>5. ASSUME NEW t \in Threads,
             Prepare(t) \/ Report(t) \/ Bind(t) \/ RowId(t) \/ Reset(t) \/ Finalize(t)
      PROVE  Known'
  <2>1. pc[t] # "after" /\ pc'[t] # "after" /\ UNCHANGED <<inTx, swallowed, tx>>
    BY <1>5 DEF Prepare, Report, Constructed, Bind, RowId, Reset, Finalize, Return, Leaves,
       Continue, Goto, IInv, TypeOK, connection, engine, history
  <2>2. Effect(t)
    BY <1>5, PrepareEffect, ReportEffect, BindEffect, RowIdEffect, ResetEffect, FinalizeEffect
  <2> QED BY <2>1, <2>2, ElsewhereKnown
<1>6. ASSUME NEW t \in Threads, Step(t) PROVE Known'
  <2>1. pc[t] # "after" /\ pc'[t] # "after" /\ UNCHANGED <<inTx, swallowed>>
          /\ tx' \in {tx, FALSE}
    BY <1>6 DEF Step, AfterStep, TxAfterError, Leaves, Continue, Goto, IInv, TypeOK,
       connection, history
  <2> QED BY <1>6, <2>1, StepEffect, ElsewhereKnown
<1>7. ASSUME NEW t \in Threads, Body(t) PROVE Known'
  <2>1. pc[t] # "after" /\ pc'[t] # "after" /\ UNCHANGED <<inTx, swallowed>>
          /\ tx' \in {tx, FALSE}
    BY <1>7 DEF Body, BodyBegin, BodyCommit, BodyRollback, BodyInsert, BodyBackup, BodyClose,
       BodyOpen, Return, Leaves, Continue, Goto, IInv, TypeOK, connection, engine, history
  <2> QED BY <1>7, <2>1, BodyEffect, ElsewhereKnown
<1>8. ASSUME NEW t \in Threads, Shut(t) PROVE Known'
  BY <1>8 DEF Shut, Known
<1>9. ASSUME NEW t \in Threads, Run(t) \/ After(t) PROVE Known'
  BY <1>9, RunKnown, AfterKnown
<1> QED BY <1>1, <1>2, <1>3, <1>4, <1>5, <1>6, <1>7, <1>8, <1>9 DEF Next, Proceed

\* An engine transaction stays known to m_bInTransaction, whatever fails or
\* throws, unless exceptions were off when a transaction statement failed.
THEOREM TransactionStaysKnown == Spec => []TransactionKnown
<1>1. Init => Known
  BY DEF Init, Known
<1>2. IInv /\ Known /\ [Next]_vars => Known'
  BY KnownStep
<1>3. Known => TransactionKnown
  BY DEF Known, TransactionKnown
<1> QED BY <1>1, <1>2, <1>3, Invariance, PTL DEF Spec

-----------------------------------------------------------------------------
(* Levels of careful clients *)

\* Clients reset what they step and leave the getters with a local Statement alone.
Careful == ResetsFirst /\ "get" \notin Calls

\* Every level a thread holds is one it still has to leave, and no Statement is
\* locked twice.
Exact(t) ==
  /\ lock[t] = Owed(t)
  /\ ~stmt[t].scoped /\ op[t] # "get"
  /\ stmt[t].life = "none" => ~stmt[t].held
  /\ pc[t] = "enter" /\ op[t] \in StatementSteps \cup {"destroy"} =>
       stmt[t].life # "none" /\ ~stmt[t].held
  /\ pc[t] = "enter" /\ op[t] = "construct" => ~stmt[t].held
  /\ pc[t] = "prepare" => ~stmt[t].held
  /\ pc[t] = "report" /\ op[t] = "construct" => ~stmt[t].held

\* A step of t keeps the others exact,
LEMMA OthersExact ==
  ASSUME NEW t \in Threads, Effect(t), NEW u \in Threads \ {t}, Exact(u),
         stmt'[u].life = stmt[u].life, stmt'[u].scoped = stmt[u].scoped
  PROVE  Exact(u)'
<1>1. lock'[u] = lock[u] /\ pc'[u] = pc[u] /\ op'[u] = op[u] /\ stmt'[u].held = stmt[u].held
  BY DEF Effect
<1>2. Owed(u)' = Owed(u)
  BY <1>1 DEF Owed, Frames, Held
<1> QED BY <1>1, <1>2 DEF Exact

OthersKeep(t) == \A u \in Threads \ {t} :
  stmt'[u].life = stmt[u].life /\ stmt'[u].scoped = stmt[u].scoped

LEMMA OrphanedKeeps ==
  ASSUME IInv
  PROVE  \A u \in Threads : /\ Orphaned[u].life = stmt[u].life
                            /\ Orphaned[u].scoped = stmt[u].scoped
                            /\ Orphaned[u].held = stmt[u].held
  BY DEF IInv, TypeOK, StatementType, Orphaned

LEMMA CallExact ==
  ASSUME Careful, NEW t \in Threads, NEW c \in Calls, IInv, Exact(t), Call(t, c)
  PROVE  Exact(t)' /\ OthersKeep(t)
<1>1. UNCHANGED <<lock, stmt>> /\ c # "get" /\ pc[t] = "idle"
  BY DEF Call, Careful
<1>2. pc'[t] = FirstPoint(c) /\ op'[t] = c
  BY DEF IInv, TypeOK, Call, Goto
<1>3. Owed(t)' = Owed(t)
  BY <1>1, <1>2 DEF Owed, Frames, Held, FirstPoint
<1>4. c \in StatementSteps \cup {"destroy"} => stmt[t].life # "none" /\ ~stmt[t].held
  BY DEF Call, MayCall, Careful, Lifecycle, ConnectionCalls, StatementSteps
<1>5. c = "construct" => ~stmt[t].held
  BY DEF Call, MayCall, Exact, Lifecycle, ConnectionCalls, StatementSteps
<1> QED BY <1>1, <1>2, <1>3, <1>4, <1>5 DEF Exact, FirstPoint, OthersKeep

LEMMA SetExceptionsExact ==
  ASSUME NEW t \in Threads, IInv, Exact(t), SetExceptions(t)
  PROVE  Exact(t)' /\ OthersKeep(t)
BY DEF SetExceptions, Exact, Owed, Frames, Held, OthersKeep

LEMMA EnterLockExact ==
  ASSUME NEW t \in Threads, IInv, Exact(t), EnterLock(t)
  PROVE  Exact(t)' /\ OthersKeep(t)
<1>1. /\ pc'[t] = LockedPoint(op[t]) /\ op' = op /\ pc[t] = "enter" /\ op[t] # "get"
      /\ lock' = Enter(lock, t) /\ lock[t] \in Nat /\ lock \in [Threads -> Nat]
  BY DEF IInv, TypeOK, EnterLock, Goto, Continue, Exact
<1>2. lock'[t] = lock[t] + 1
  BY <1>1 DEF Enter
<1>3. Frames(t) = 0 /\ lock[t] = Held(t)
  BY <1>1 DEF Exact, Owed, Frames, Held
<1>4. CASE op[t] \in StatementSteps \cup {"destroy"}
  <2>1. stmt' = [stmt EXCEPT ![t].held = TRUE] /\ stmt \in [Threads -> StatementType]
    BY <1>4 DEF EnterLock, IInv, TypeOK
  <2>2. /\ stmt'[t].held = TRUE /\ stmt'[t].life = stmt[t].life /\ stmt'[t].scoped = stmt[t].scoped
        /\ \A u \in Threads \ {t} : stmt'[u] = stmt[u]
    BY <2>1 DEF StatementType
  <2>3. ~stmt[t].held /\ stmt[t].life # "none"
    BY <1>1, <1>4 DEF Exact
  <2>4. pc'[t] \in {"step", "finalize"}
    BY <1>1, <1>4 DEF LockedPoint, StatementSteps
  <2>5. Owed(t)' = 1
    BY <2>2, <2>4 DEF Owed, Frames, Held
  <2>6. lock'[t] = 1
    BY <1>2, <1>3, <2>3 DEF Held
  <2> QED BY <1>1, <2>2, <2>3, <2>4, <2>5, <2>6 DEF Exact, OthersKeep
<1>5. CASE op[t] \notin StatementSteps \cup {"destroy"}
  <2>1. stmt' = stmt /\ pc'[t] \in {"prepare", "body", "run"}
          /\ (pc'[t] = "prepare" => op[t] = "construct") /\ (pc'[t] = "run" => op[t] = "exec")
    BY <1>1, <1>5 DEF EnterLock, LockedPoint
  <2>2. Frames(t)' = 1 /\ Held(t)' = Held(t)
    BY <1>1, <2>1 DEF Frames, Held, RunLevels
  <2>3. lock'[t] = Owed(t)'
    BY <1>2, <1>3, <2>2 DEF Owed, Held
  <2> QED BY <1>1, <2>1, <2>3 DEF Exact, OthersKeep
<1> QED BY <1>4, <1>5

\* A thread that leaves the method owes what its Statement holds.
LEMMA LeavesExact ==
  ASSUME NEW t \in Threads, IInv, Leaves(t), lock'[t] = Held(t)', ~stmt'[t].scoped,
         stmt'[t].life = "none" => ~stmt'[t].held
  PROVE  Exact(t)'
<1>1. pc'[t] = "idle" /\ op'[t] = "none" /\ Frames(t)' = 0
  BY LeavesEffect
<1>2. Owed(t)' = Held(t)'
  BY <1>1 DEF Owed, Held
<1> QED BY <1>1, <1>2 DEF Exact

\* A thread that goes on to report owes what its Statement holds, too.
LEMMA ReportsExact ==
  ASSUME NEW t \in Threads, IInv, Continue(t, "report"), op[t] # "get",
         lock'[t] = Held(t)', ~stmt'[t].scoped, ~stmt'[t].held
  PROVE  Exact(t)'
<1>1. pc'[t] = "report" /\ op'[t] # "get" /\ Frames(t)' = 0
  BY ReportsEffect
<1>2. Owed(t)' = Held(t)'
  BY <1>1 DEF Owed, Held
<1> QED BY <1>1, <1>2 DEF Exact

LEMMA PrepareExact ==
  ASSUME NEW t \in Threads, IInv, Exact(t), Prepare(t)
  PROVE  Exact(t)' /\ OthersKeep(t)
<1> USE Covered
<1>1. pc[t] = "prepare" /\ lock[t] = 1 /\ op[t] # "get" /\ lock' = Leave(lock, t, 1)
  BY DEF Prepare, Exact, Owed, Frames, Held
<1>2. lock'[t] = 0
  BY <1>1 DEF Leave
<1>3. PICK ok \in BOOLEAN, b \in BOOLEAN : Prepare(t)!2!(ok, b)
  BY DEF Prepare
<1>4. Leaves(t) \/ Continue(t, "report")
  BY <1>1, <1>3 DEF Constructed
<1>5. /\ ~stmt'[t].held /\ ~stmt'[t].scoped /\ \A u \in Threads \ {t} : stmt'[u] = stmt[u]
  <2> DEFINE x == [NoStatement EXCEPT !.life = IF ok THEN "ready" ELSE "null",
                                      !.throws = b, !.scoped = op[t] = "get"]
  <2>1. stmt' = [stmt EXCEPT ![t] = x] /\ stmt \in [Threads -> StatementType]
    BY <1>3 DEF IInv, TypeOK
  <2>2. ~x.held /\ ~x.scoped
    BY <1>1 DEF NoStatement
  <2> HIDE DEF x
  <2> QED BY <2>1, <2>2
<1>6. Held(t)' = 0
  BY <1>5 DEF Held
<1> QED BY <1>1, <1>2, <1>4, <1>5, <1>6, LeavesExact, ReportsExact DEF OthersKeep

LEMMA ReportExact ==
  ASSUME NEW t \in Threads, IInv, Exact(t), Report(t)
  PROVE  Exact(t)' /\ OthersKeep(t)
<1>1. /\ pc[t] = "report" /\ lock' = lock /\ lock[t] = Held(t) /\ op[t] # "get"
      /\ ~stmt[t].scoped
  BY DEF Report, Exact, Owed, Frames, Held
<1>2. Leaves(t)
  BY <1>1 DEF Report, Constructed
<1>3. CASE stmt' = stmt
  <2>1. Held(t)' = Held(t)
    BY <1>3 DEF Held
  <2> QED BY <1>1, <1>2, <1>3, <2>1, LeavesExact DEF Exact, OthersKeep
<1>4. CASE stmt' = [stmt EXCEPT ![t] = NoStatement] /\ ~stmt[t].held
  <2>1. stmt'[t] = NoStatement /\ \A u \in Threads \ {t} : stmt'[u] = stmt[u]
    BY <1>4 DEF IInv, TypeOK
  <2>2. Held(t) = 0 /\ Held(t)' = 0 /\ ~stmt'[t].scoped /\ ~stmt'[t].held
    BY <1>4, <2>1 DEF Held, NoStatement
  <2> QED BY <1>1, <1>2, <2>1, <2>2, LeavesExact DEF OthersKeep
<1>5. stmt' = stmt \/ (stmt' = [stmt EXCEPT ![t] = NoStatement] /\ ~stmt[t].held)
  BY <1>1 DEF Report, Exact
<1> QED BY <1>3, <1>4, <1>5

LEMMA BindExact ==
  ASSUME NEW t \in Threads, IInv, Exact(t), Bind(t)
  PROVE  Exact(t)' /\ OthersKeep(t)
<1>1. Leaves(t) /\ UNCHANGED <<lock, stmt>> /\ lock[t] = Held(t)
  BY DEF Bind, Exact, Owed, Frames, Held
<1>2. Held(t)' = Held(t)
  BY <1>1 DEF Held
<1> QED BY <1>1, <1>2, LeavesExact DEF Exact, OthersKeep

LEMMA StepExact ==
  ASSUME NEW t \in Threads, IInv, Exact(t), Step(t)
  PROVE  Exact(t)' /\ OthersKeep(t)
<1>1. /\ pc[t] = "step" /\ stmt[t].held /\ ~stmt[t].scoped /\ op[t] \in StatementSteps
      /\ lock[t] = 1 /\ lock' = lock
  BY DEF Step, IInv, PointOK, Exact, Owed, Frames, Held
<1>2. PICK result \in StepResults(stmt[t].life) : Step(t)!2!(result)
  BY DEF Step
<1>3. /\ stmt'[t].held /\ ~stmt'[t].scoped /\ stmt'[t].life # "none"
      /\ \A u \in Threads \ {t} : stmt'[u] = stmt[u]
  BY <1>1, <1>2 DEF IInv, TypeOK, StatementType, Lives
<1>4. Held(t)' = 1
  BY <1>3 DEF Held
<1>5. CASE Leaves(t)
  BY <1>1, <1>3, <1>4, <1>5, LeavesExact DEF OthersKeep
<1>6. CASE \E p \in {"reset", "rowid"} : Continue(t, p) /\ (p = "rowid" => op[t] # "insert")
  <2>1. pc'[t] \in {"reset", "rowid"} /\ op' = op /\ (pc'[t] = "rowid" => op[t] # "insert")
    BY <1>6 DEF Continue, Goto, IInv, TypeOK
  <2>2. Owed(t)' = 1
    BY <1>4, <2>1 DEF Owed, Frames
  <2> QED BY <1>1, <1>3, <2>1, <2>2 DEF Exact, OthersKeep
<1>7. Leaves(t) \/ \E p \in {"reset", "rowid"} : Continue(t, p) /\ (p = "rowid" => op[t] # "insert")
  <2>1. op[t] # "insert"
    BY <1>1 DEF StatementSteps
  <2> QED BY <1>1, <1>2, <2>1 DEF AfterStep
<1> QED BY <1>5, <1>6, <1>7

LEMMA RowIdExact ==
  ASSUME NEW t \in Threads, IInv, Exact(t), RowId(t)
  PROVE  Exact(t)' /\ OthersKeep(t)
<1> USE Covered
<1>1. pc[t] = "rowid" /\ stmt' = stmt /\ Held(t)' = Held(t)
  BY DEF RowId, Held
<1>2. CASE op[t] = "insert"
  <2>1. lock[t] = 1 + Held(t) /\ Leaves(t) /\ lock' = Leave(lock, t, 1)
    BY <1>1, <1>2 DEF RowId, Return, Exact, Owed, Frames
  <2>2. lock'[t] = Held(t)
    BY <2>1 DEF Leave
  <2> QED BY <1>1, <2>1, <2>2, LeavesExact DEF Exact, OthersKeep
<1>3. CASE op[t] # "insert"
  <2>1. pc'[t] = "reset" /\ op' = op /\ lock' = lock
    BY <1>3 DEF RowId, Continue, Goto, IInv, TypeOK
  <2>2. Owed(t)' = Owed(t)
    BY <1>1, <1>3, <2>1 DEF Owed, Frames
  <2> QED BY <1>1, <2>1, <2>2 DEF Exact, OthersKeep
<1> QED BY <1>2, <1>3

LEMMA ResetExact ==
  ASSUME NEW t \in Threads, IInv, Exact(t), Reset(t)
  PROVE  Exact(t)' /\ OthersKeep(t)
<1> USE Covered
<1>1. /\ pc[t] = "reset" /\ lock[t] = 1 /\ lock' = Leave(lock, t, 1) /\ op[t] # "get"
      /\ Leaves(t) \/ Continue(t, "report")
  BY DEF Reset, PointOK, Exact, Owed, Frames, Held
<1>2. lock'[t] = 0
  BY <1>1 DEF Leave
<1>3. /\ ~stmt'[t].held /\ ~stmt'[t].scoped
      /\ \A u \in Threads \ {t} : stmt'[u] = stmt[u]
  <2> DEFINE after == [stmt[t] EXCEPT !.held = FALSE,
                                      !.life = IF @ = "null" THEN "null" ELSE "ready"]
  <2>1. stmt \in [Threads -> StatementType] /\ stmt[t] \in StatementType
    BY DEF IInv, TypeOK
  <2>2. stmt' = [stmt EXCEPT ![t] = after]
    BY <2>1 DEF Reset
  <2>3. ~after.held /\ ~after.scoped
    BY <2>1 DEF StatementType, Exact
  <2> HIDE DEF after
  <2> QED BY <2>1, <2>2, <2>3
<1>4. Held(t)' = 0
  BY <1>3 DEF Held
<1> QED BY <1>1, <1>2, <1>3, <1>4, LeavesExact, ReportsExact DEF OthersKeep

LEMMA FinalizeExact ==
  ASSUME NEW t \in Threads, IInv, Exact(t), Finalize(t)
  PROVE  Exact(t)' /\ OthersKeep(t)
<1> USE Covered
<1>1. /\ pc[t] = "finalize" /\ lock[t] = Held(t) /\ Leaves(t)
      /\ lock' = Leave(lock, t, Held(t))
  BY DEF Finalize, Return, Exact, Owed, Frames
<1>2. lock'[t] = 0
  BY <1>1 DEF Leave
<1>3. stmt'[t] = NoStatement /\ \A u \in Threads \ {t} : stmt'[u] = stmt[u]
  BY DEF Finalize, IInv, TypeOK
<1>4. Held(t)' = 0 /\ ~stmt'[t].scoped /\ ~stmt'[t].held
  BY <1>3 DEF Held, NoStatement
<1> QED BY <1>1, <1>2, <1>3, <1>4, LeavesExact DEF OthersKeep

\* A step of a method of the connection, which leaves and enters as it says.
LEMMA ConnectionExact ==
  ASSUME NEW t \in Threads, IInv, Exact(t), OthersKeep(t),
         stmt'[t].life = stmt[t].life, stmt'[t].scoped = stmt[t].scoped,
         stmt'[t].held = stmt[t].held,
         \/ Leaves(t) /\ lock'[t] = lock[t] - Frames(t)
         \/ \E p \in {"run", "rowid", "after", "shut"} :
              Continue(t, p) /\ lock'[t] = lock[t] - Frames(t) + Frames(t)'
  PROVE  Exact(t)' /\ OthersKeep(t)
<1> USE Covered
<1>1. lock[t] = Frames(t) + Held(t) /\ Held(t)' = Held(t)
  BY DEF Exact, Owed, Held
<1>2. CASE Leaves(t) /\ lock'[t] = lock[t] - Frames(t)
  <2>1. lock'[t] = Held(t)'
    BY <1>1, <1>2
  <2> QED BY <1>2, <2>1, LeavesExact DEF Exact
<1>3. ASSUME NEW p \in {"run", "rowid", "after", "shut"},
             Continue(t, p), lock'[t] = lock[t] - Frames(t) + Frames(t)'
      PROVE  Exact(t)'
  <2>1. pc'[t] = p /\ op' = op
    BY <1>3 DEF Continue, Goto, IInv, TypeOK
  <2>2. Frames(t)' \in {0, 1, 2, 3}
    BY DEF Frames, RunLevels
  <2>3. lock'[t] = Owed(t)'
    BY <1>1, <1>3, <2>2 DEF Owed
  <2> QED BY <2>1, <2>3 DEF Exact
<1> QED BY <1>2, <1>3

LEMMA StatementsKept ==
  ASSUME IInv, NEW t \in Threads, stmt' = stmt \/ stmt' = Orphaned
  PROVE  /\ OthersKeep(t)
         /\ stmt'[t].life = stmt[t].life /\ stmt'[t].scoped = stmt[t].scoped
         /\ stmt'[t].held = stmt[t].held
  BY OrphanedKeeps DEF OthersKeep

LEMMA BodyExact ==
  ASSUME NEW t \in Threads, IInv, Exact(t), Body(t)
  PROVE  Exact(t)' /\ OthersKeep(t)
<1> USE Covered
<1>1. pc[t] = "body" /\ Frames(t) = 1 /\ lock[t] >= 1
  BY DEF Body, Frames, Owed
<1>2. stmt' = stmt \/ stmt' = Orphaned
  BY DEF Body, BodyBegin, BodyCommit, BodyRollback, BodyInsert, BodyBackup, BodyClose, BodyOpen
<1>3. \/ Leaves(t) /\ lock' = Leave(lock, t, 1)
      \/ op[t] \notin {"exec", "close"} /\ lock' = Enter(lock, t) /\ Continue(t, "run")
      \/ op[t] = "close" /\ lock' = Enter(Enter(lock, t), t) /\ Continue(t, "run")
      \/ op[t] = "close" /\ lock' = lock /\ Continue(t, "shut")
  BY DEF Body, BodyBegin, BodyCommit, BodyRollback, BodyInsert, BodyBackup, BodyClose, BodyOpen,
     Return
<1>4. /\ Leave(lock, t, 1)[t] = lock[t] - 1 /\ Enter(lock, t)[t] = lock[t] + 1
      /\ Enter(Enter(lock, t), t)[t] = lock[t] + 2
  BY <1>1, LevelsMove
<1>5. \A p : Continue(t, p) => pc'[t] = p /\ op'[t] = op[t]
  BY DEF Continue, Goto, IInv, TypeOK
<1>6. \/ Leaves(t) /\ lock'[t] = lock[t] - Frames(t)
      \/ \E p \in {"run", "rowid", "after", "shut"} :
           Continue(t, p) /\ lock'[t] = lock[t] - Frames(t) + Frames(t)'
  <2>1. CASE Leaves(t) /\ lock' = Leave(lock, t, 1)
    BY <1>1, <1>4, <2>1
  <2>2. CASE op[t] \notin {"exec", "close"} /\ lock' = Enter(lock, t) /\ Continue(t, "run")
    <3>1. Frames(t)' = 2
      BY <1>5, <2>2 DEF Frames, RunLevels
    <3> QED BY <1>1, <1>4, <2>2, <3>1
  <2>3. CASE op[t] = "close" /\ lock' = Enter(Enter(lock, t), t) /\ Continue(t, "run")
    <3>1. Frames(t)' = 3
      BY <1>5, <2>3 DEF Frames, RunLevels
    <3> QED BY <1>1, <1>4, <2>3, <3>1
  <2>4. CASE op[t] = "close" /\ lock' = lock /\ Continue(t, "shut")
    <3>1. Frames(t)' = 1
      BY <1>5, <2>4 DEF Frames
    <3> QED BY <1>1, <2>4, <3>1
  <2> QED BY <1>3, <2>1, <2>2, <2>3, <2>4
<1> QED BY <1>2, <1>6, StatementsKept, ConnectionExact

LEMMA RunExact ==
  ASSUME NEW t \in Threads, IInv, Exact(t), Run(t)
  PROVE  Exact(t)' /\ OthersKeep(t)
<1> USE Covered
<1>1. /\ pc[t] = "run" /\ Frames(t) = RunLevels(op[t]) /\ lock[t] >= RunLevels(op[t])
      /\ RunLevels(op[t]) \in {1, 2, 3} /\ stmt' = stmt
  BY DEF Run, Frames, Owed, RunLevels
<1>2. \/ Leaves(t) /\ lock' = Leave(lock, t, RunLevels(op[t]))
      \/ op[t] = "insert" /\ lock' = Leave(lock, t, 1) /\ Continue(t, "rowid")
      \/ op[t] # "exec" /\ lock' = Leave(lock, t, 1) /\ Continue(t, "after")
  BY DEF Run, RunOk, RunFails, RunThrows, RunLevels, Return
<1>3. /\ Leave(lock, t, 1)[t] = lock[t] - 1
      /\ Leave(lock, t, RunLevels(op[t]))[t] = lock[t] - RunLevels(op[t])
  <2>1. lock[t] >= 1 /\ RunLevels(op[t]) \in Nat /\ 1 \in Nat
    BY <1>1
  <2> QED BY <1>1, <2>1, LevelsMove
<1>4. \A p : Continue(t, p) => pc'[t] = p /\ op'[t] = op[t]
  BY DEF Continue, Goto, IInv, TypeOK
<1>5. \/ Leaves(t) /\ lock'[t] = lock[t] - Frames(t)
      \/ \E p \in {"run", "rowid", "after", "shut"} :
           Continue(t, p) /\ lock'[t] = lock[t] - Frames(t) + Frames(t)'
  <2>1. CASE Leaves(t) /\ lock' = Leave(lock, t, RunLevels(op[t]))
    BY <1>1, <1>3, <2>1
  <2>2. CASE op[t] = "insert" /\ lock' = Leave(lock, t, 1) /\ Continue(t, "rowid")
    <3>1. Frames(t)' = 1 /\ RunLevels(op[t]) = 2
      BY <1>4, <2>2 DEF Frames, RunLevels
    <3> QED BY <1>1, <1>3, <2>2, <3>1
  <2>3. CASE op[t] # "exec" /\ lock' = Leave(lock, t, 1) /\ Continue(t, "after")
    <3>1. Frames(t)' = RunLevels(op[t]) - 1
      BY <1>4, <2>3 DEF Frames, RunLevels
    <3> QED BY <1>1, <1>3, <2>3, <3>1
  <2> QED BY <1>2, <2>1, <2>2, <2>3
<1> QED BY <1>1, <1>5, StatementsKept, ConnectionExact

LEMMA AfterExact ==
  ASSUME NEW t \in Threads, IInv, Exact(t), After(t)
  PROVE  Exact(t)' /\ OthersKeep(t)
<1> USE Covered
<1>1. pc[t] = "after" /\ op[t] # "exec" /\ Frames(t) = RunLevels(op[t]) - 1 /\ stmt' = stmt
  BY DEF After, Frames, PointOK
<1>2. lock[t] >= 1 /\ Leave(lock, t, 1)[t] = lock[t] - 1
  <2>1. Frames(t) >= 1
    BY <1>1 DEF RunLevels
  <2>2. lock[t] >= 1
    BY <2>1 DEF Owed
  <2> QED BY <2>2, LevelsMove
<1>3. \/ Leaves(t) /\ lock'[t] = lock[t] - Frames(t)
      \/ \E p \in {"run", "rowid", "after", "shut"} :
           Continue(t, p) /\ lock'[t] = lock[t] - Frames(t) + Frames(t)'
  <2>1. CASE op[t] = "close"
    <3>1. Frames(t) = 2 /\ Continue(t, "shut") /\ lock' = Leave(lock, t, 1)
      BY <1>1, <2>1 DEF RunLevels, After
    <3>2. Frames(t)' = 1
      BY <3>1 DEF Frames, Continue, Goto, IInv, TypeOK
    <3> QED BY <1>2, <3>1, <3>2
  <2>2. CASE op[t] # "close"
    BY <1>1, <1>2, <2>2 DEF RunLevels, After, Return
  <2> QED BY <2>1, <2>2
<1> QED BY <1>1, <1>3, StatementsKept, ConnectionExact

LEMMA ShutExact ==
  ASSUME NEW t \in Threads, IInv, Exact(t), Shut(t)
  PROVE  Exact(t)' /\ OthersKeep(t)
<1> USE Covered
<1>1. /\ Frames(t) = 1 /\ Leaves(t) /\ lock' = Leave(lock, t, 1)
      /\ (stmt' = stmt \/ stmt' = Orphaned)
  BY DEF Shut, Frames, Return
<1>2. Leave(lock, t, 1)[t] = lock[t] - 1
  <2>1. lock[t] >= 1
    BY <1>1 DEF Owed
  <2> QED BY <2>1, LevelsMove
<1> QED BY <1>1, <1>2, StatementsKept, ConnectionExact

LEMMA ExactStep ==
  ASSUME Careful, IInv, \A t \in Threads : Exact(t), [Next]_vars
  PROVE  \A t \in Threads : Exact(t)'
<1>1. CASE UNCHANGED vars
  BY <1>1 DEF vars, Exact, Owed, Frames, Held
<1>2. ASSUME NEW t \in Threads, \/ \E c \in Calls : Call(t, c)
                                \/ SetExceptions(t) \/ EnterLock(t) \/ Proceed(t)
      PROVE  \A u \in Threads : Exact(u)'
  <2>1. Effect(t)
    BY <1>2, CallEffect, SetExceptionsEffect, EnterLockEffect, PrepareEffect, ReportEffect, BindEffect,
       StepEffect, RowIdEffect, ResetEffect, FinalizeEffect, BodyEffect, RunEffect,
       AfterEffect, ShutEffect DEF Proceed
  <2>2. Exact(t)
    OBVIOUS
  <2>3. Exact(t)' /\ OthersKeep(t)
    BY <1>2, <2>2, CallExact, SetExceptionsExact, EnterLockExact, PrepareExact, ReportExact, BindExact,
       StepExact, RowIdExact, ResetExact, FinalizeExact, BodyExact, RunExact,
       AfterExact, ShutExact DEF Proceed
  <2>4. ASSUME NEW u \in Threads \ {t} PROVE Exact(u)'
    <3>1. Exact(u) /\ stmt'[u].life = stmt[u].life /\ stmt'[u].scoped = stmt[u].scoped
      BY <2>3 DEF OthersKeep
    <3> QED BY <2>1, <3>1, OthersExact
  <2> QED BY <2>3, <2>4
<1> QED BY <1>1, <1>2 DEF Next

\* Clients that reset what they step, and call none of the getters with a local
\* Statement, never take a level of m_lock with them, whatever fails or throws.
THEOREM CarefulClientsLeakNothing ==
  ASSUME ResetsFirst, "get" \notin Calls
  PROVE  Spec => []NothingLeaked
<1> DEFINE I == \A t \in Threads : Exact(t)
<1>0. Careful
  BY DEF Careful
<1>1. Init => I
  <2> SUFFICES ASSUME Init, NEW t \in Threads PROVE Exact(t)
    OBVIOUS
  <2>1. pc[t] = "idle" /\ op[t] = "none" /\ lock[t] = 0
    BY DEF Init, Unlocked
  <2>2. stmt[t] = NoStatement
    BY DEF Init
  <2>3. stmt[t].life = "none" /\ stmt[t].held = FALSE /\ stmt[t].scoped = FALSE
    BY <2>2 DEF NoStatement
  <2>4. Owed(t) = 0
    BY <2>1, <2>3 DEF Owed, Frames, Held
  <2> QED BY <2>1, <2>3, <2>4 DEF Exact
<1>2. IInv /\ I /\ [Next]_vars => I'
  BY <1>0, ExactStep
<1>3. I => NothingLeaked
  BY DEF Exact, NothingLeaked, Owed, Frames, Held
<1> QED BY <1>1, <1>2, <1>3, Invariance, PTL DEF Spec

=============================================================================
