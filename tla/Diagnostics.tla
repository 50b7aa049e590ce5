---------------------------- MODULE Diagnostics ----------------------------
(***************************************************************************)
(* The profiler and the logger (VKProfiler.cpp, VKLogger.cpp) as several   *)
(* threads use them.  The Profiler is a Singleton that the thread Main     *)
(* creates and destroys; in between each thread opens and closes Samples,  *)
(* which are local variables, so the last one opened is closed first.  The *)
(* two maps of the Profiler are shared and locked; the tree of timers      *)
(* below a root belongs to one thread and is not.  All threads write to    *)
(* the one log file, under a lock of its own; but logException formats its *)
(* text in a buffer of the Logger before it takes that lock.               *)
(***************************************************************************)
EXTENDS VKThread, Sequences, Functions

CONSTANTS
  Main,       \* the thread that creates and destroys the Profiler
  Names,      \* the names of the samples of each thread
  MaxDepth,   \* bound: samples each thread has open at once
  LogDepth,   \* bound: a thread logs with at most this many samples open
  MaxTime     \* bound: the last reading of the clock

ASSUME DiagnosticsAssumption ==
  /\ Main \in Threads
  /\ MaxDepth \in [Threads -> Nat] /\ LogDepth \in Nat /\ MaxTime \in Nat \ {0}

VARIABLES
  profiler,   \* Singleton<Profiler>::m_pSingleton # NULL
  ending,     \* Main is inside ~Profiler
  lock,       \* m_lock of the Profiler
  current,    \* m_mapCurrentSample: a position in scope, 0 for NULL
  scope,      \* the Sample objects of each thread, the innermost last
  timers,     \* the timers of each thread by path; <<>> is its root timer
  pc,         \* where each thread is
  misused,    \* startTimer or stopTimer has logged an exception
  now,        \* Timer::Time()
  logLock,    \* m_lock of the Logger
  written,    \* the piece written to the log file last
  exception,  \* m_szException: the thread whose text it holds
  failing,    \* the threads inside logException
  mixed       \* history: those of them that have not been alone in it

maps == <<lock, current>>
samples == <<scope, timers, misused>>
exceptions == <<exception, failing, mixed>>
logger == <<logLock, written, exceptions>>
vars == <<profiler, ending, maps, samples, pc, now, logger>>

NoTimer == <<>>   \* m_pTimer = NULL; no sample times the root
Stopped == [start |-> 0, total |-> 0]   \* Timer::Timer; 0 stands for -1

\* A piece of a message: who writes it, which part of the message it is, and
\* whose words it has.
Piece(t, part, of) == [by |-> t, part |-> part, of |-> of]

Init ==
  /\ profiler = FALSE /\ ending = FALSE
  /\ lock = Unlocked /\ logLock = Unlocked
  /\ current = [t \in Threads |-> 0]
  /\ scope = [t \in Threads |-> <<>>]
  /\ timers = [t \in Threads |-> <<>>]
  /\ pc = [t \in Threads |-> "run"]
  /\ misused = FALSE
  /\ now = 1
  /\ written = Piece(Main, "text", Main)
  /\ exception = Main
  /\ failing = {} /\ mixed = {}

Goto(t, point) == pc' = [pc EXCEPT ![t] = point]

\* Time goes by between any two steps.
Tick ==
  /\ now < MaxTime
  /\ now' = now + 1
  /\ UNCHANGED <<profiler, ending, maps, samples, pc, logger>>

-----------------------------------------------------------------------------
(* Timers.  Each operator gives the tree of one thread after the call. *)

HasTimer(tree, path) == path \in DOMAIN tree

\* Timer::getTimer: the child of that name, made on its first use.
GetTimer(tree, path) ==
  IF HasTimer(tree, path) THEN tree
  ELSE [p \in DOMAIN tree \cup {path} |-> IF p = path THEN Stopped ELSE tree[p]]

\* startTimer and stopTimer log an exception and change nothing if the timer is
\* started, or not started.
Started(tree, path) == tree[path].start > 0
StartTimer(tree, path) ==
  IF Started(tree, path) THEN tree ELSE [tree EXCEPT ![path].start = now]

\* Faulty variant: the time measured replaces the total.
StopTimerForgetsTotal(tree, path) ==
  IF ~Started(tree, path) THEN tree
  ELSE [tree EXCEPT ![path] = [start |-> 0, total |-> now - @.start]]

StopTimer(tree, path) ==
  IF ~Started(tree, path) THEN tree
  ELSE [tree EXCEPT ![path] = [start |-> 0, total |-> @.total + now - @.start]]

-----------------------------------------------------------------------------
(* Samples *)

Top(t) == Len(scope[t])
Innermost(t) == scope[t][Top(t)]
InProfiler(t) == lock[t] > 0

\* Two threads inside one std::map: a lookup may miss an entry that is there and
\* an insertion may be lost.
Racing(t) == \E u \in Threads \ {t} : InProfiler(u)
Outcomes(t, right, wrong) == IF Racing(t) THEN {right, wrong} ELSE {right}

\* Sample::Sample.  A sample whose level is not profiled has no timer and leaves
\* the current sample alone.
Open(t) ==
  /\ pc[t] = "run" /\ profiler /\ ~ending
  /\ Top(t) < MaxDepth[t]
  /\ \E isProfiled \in BOOLEAN :
       /\ scope' = [scope EXCEPT ![t] =
            Append(@, [timer |-> NoTimer, parent |-> 0])]
       /\ Goto(t, IF isProfiled THEN "get" ELSE "run")
  /\ UNCHANGED <<profiler, ending, maps, timers, misused, now, logger>>

\* AutoLock lock(m_lock), in getCurrentSample, setCurrentSample and getRootTimer.
EnterProfiler(t) ==
  /\ pc[t] \in {"get", "set", "root", "restore"} /\ ~InProfiler(t)
  /\ CanEnter(lock, t)
  /\ lock' = Enter(lock, t)
  /\ UNCHANGED <<profiler, ending, current, samples, pc, now, logger>>

\* m_pParentSample = getCurrentSample().
GetCurrentSample(t) ==
  /\ pc[t] = "get" /\ InProfiler(t)
  /\ \E p \in Outcomes(t, current[t], 0) : scope' = [scope EXCEPT ![t][Top(t)].parent = p]
  /\ lock' = Leave(lock, t, 1)
  /\ Goto(t, "set")
  /\ UNCHANGED <<profiler, ending, current, timers, misused, now, logger>>

\* setCurrentSample(this).
SetCurrentSample(t) ==
  /\ pc[t] = "set" /\ InProfiler(t)
  /\ \E p \in Outcomes(t, Top(t), current[t]) : current' = [current EXCEPT ![t] = p]
  /\ lock' = Leave(lock, t, 1)
  /\ Goto(t, IF Innermost(t).parent = 0 THEN "root" ELSE "start")
  /\ UNCHANGED <<profiler, ending, samples, now, logger>>

\* getRootTimer: the root timer of the thread, made and started on its first use.
GetRootTimer(t) ==
  /\ pc[t] = "root" /\ InProfiler(t)
  /\ \E tree \in Outcomes(t, timers[t], <<>>) :
       timers' = [timers EXCEPT ![t] =
         IF HasTimer(tree, <<>>) THEN tree ELSE StartTimer(GetTimer(tree, <<>>), <<>>)]
  /\ lock' = Leave(lock, t, 1)
  /\ Goto(t, "start")
  /\ UNCHANGED <<profiler, ending, current, scope, misused, now, logger>>

\* getTimer of the parent's timer or of the root, and startTimer: here the name
\* of the sample is used first.
Start(t, name) ==
  /\ pc[t] = "start"
  /\ LET s == Innermost(t)
         above == IF s.parent = 0 THEN <<>> ELSE scope[t][s.parent].timer
         path == Append(above, name)
         tree == GetTimer(timers[t], path)
     IN  /\ scope' = [scope EXCEPT ![t][Top(t)].timer = path]
         /\ timers' = [timers EXCEPT ![t] = StartTimer(tree, path)]
         /\ misused' = (misused \/ Started(tree, path))
  /\ Goto(t, "run")
  /\ UNCHANGED <<profiler, ending, maps, now, logger>>

\* Sample::~Sample, without a timer and with one.
CloseUnprofiled(t) ==
  /\ pc[t] = "run" /\ Top(t) > 0
  /\ Innermost(t).timer = NoTimer
  /\ scope' = [scope EXCEPT ![t] = SubSeq(@, 1, Top(t) - 1)]
  /\ UNCHANGED <<profiler, ending, maps, timers, misused, pc, now, logger>>

Close(t) ==
  /\ pc[t] = "run" /\ Top(t) > 0
  /\ Innermost(t).timer # NoTimer
  /\ timers' = [timers EXCEPT ![t] = StopTimer(@, Innermost(t).timer)]
  /\ misused' = (misused \/ ~Started(timers[t], Innermost(t).timer))
  /\ Goto(t, "restore")
  /\ UNCHANGED <<profiler, ending, maps, scope, now, logger>>

\* Faulty variant: the sample is gone and the Profiler still points to it.
RestoreForgets(t) ==
  /\ pc[t] = "restore" /\ InProfiler(t)
  /\ lock' = Leave(lock, t, 1)
  /\ scope' = [scope EXCEPT ![t] = SubSeq(@, 1, Top(t) - 1)]
  /\ Goto(t, "run")
  /\ UNCHANGED <<profiler, ending, current, timers, misused, now, logger>>

\* setCurrentSample(m_pParentSample), and the sample is gone.
Restore(t) ==
  /\ pc[t] = "restore" /\ InProfiler(t)
  /\ \E p \in Outcomes(t, Innermost(t).parent, current[t]) :
       current' = [current EXCEPT ![t] = p]
  /\ lock' = Leave(lock, t, 1)
  /\ scope' = [scope EXCEPT ![t] = SubSeq(@, 1, Top(t) - 1)]
  /\ Goto(t, "run")
  /\ UNCHANGED <<profiler, ending, timers, misused, now, logger>>

-----------------------------------------------------------------------------
(* The log *)

\* logMessage and logFormattedMessage: the text is in a buffer of the thread.
Log(t) ==
  /\ pc[t] = "run" /\ ~(ending /\ t = Main)
  /\ Top(t) <= LogDepth
  /\ Goto(t, "header")
  /\ UNCHANGED <<profiler, ending, maps, samples, now, logger>>

\* logException begins to format its text into m_szException, without the lock.
LogException(t) ==
  /\ pc[t] = "run" /\ ~(ending /\ t = Main)
  /\ Top(t) <= LogDepth
  /\ Goto(t, "format")
  /\ exception' = t
  /\ failing' = failing \cup {t}
  /\ mixed' = IF failing = {} THEN mixed ELSE failing \cup {t}
  /\ UNCHANGED <<profiler, ending, maps, samples, now, logLock, written>>

\* What m_szException may hold: while a thread formats, any part of its text.
Formatting == {u \in Threads : pc[u] = "format"}
InBuffer == {exception} \cup Formatting

\* vsnprintf ends, and logException calls logMessage.
Formatted(t) ==
  /\ pc[t] = "format"
  /\ exception' \in InBuffer
  /\ Goto(t, "header")
  /\ UNCHANGED <<profiler, ending, maps, samples, now, logLock, written, failing, mixed>>

\* The lock, and the line with the time, the severity and the location.
WriteHeader(t) ==
  /\ pc[t] = "header"
  /\ CanEnter(logLock, t)
  /\ logLock' = Enter(logLock, t)
  /\ written' = Piece(t, "header", t)
  /\ Goto(t, "text")
  /\ UNCHANGED <<profiler, ending, maps, samples, now, exceptions>>

\* The text, the flush, and the unlock.  (VK::Throw is then handed the address
\* of m_szException; what a handler reads there later is not modelled.)
WriteText(t) ==
  /\ pc[t] = "text"
  /\ \E of \in IF t \in failing THEN InBuffer ELSE {t} : written' = Piece(t, "text", of)
  /\ logLock' = Leave(logLock, t, 1)
  /\ failing' = failing \ {t} /\ mixed' = mixed \ {t}
  /\ Goto(t, IF ending /\ t = Main THEN "delete" ELSE "run")
  /\ UNCHANGED <<profiler, ending, maps, samples, now, exception>>

-----------------------------------------------------------------------------
(* The Profiler *)

Create ==
  /\ pc[Main] = "run" /\ ~profiler
  /\ profiler' = TRUE
  /\ UNCHANGED <<ending, maps, samples, pc, now, logger>>

\* Main leaves the scope of the Profiler when no thread has a sample open.
Destroy ==
  /\ pc[Main] = "run" /\ profiler /\ ~ending
  /\ \A t \in Threads : scope[t] = <<>>
  /\ ending' = TRUE
  /\ UNCHANGED <<profiler, maps, samples, pc, now, logger>>

HasRoot(t) == HasTimer(timers[t], <<>>)

\* One turn of the loop of ~Profiler: the root timer of a thread is stopped and
\* its tree logged,
Report(t) ==
  /\ ending /\ pc[Main] = "run"
  /\ HasRoot(t)
  /\ timers' = [timers EXCEPT ![t] = StopTimer(@, <<>>)]
  /\ misused' = (misused \/ ~Started(timers[t], <<>>))
  /\ Goto(Main, "header")
  /\ UNCHANGED <<profiler, ending, maps, scope, now, logger>>

\* and deleted, with its children.
Reported(t) == HasRoot(t) /\ ~Started(timers[t], <<>>)
Delete ==
  /\ pc[Main] = "delete"
  /\ timers' = [t \in Threads |-> IF Reported(t) THEN <<>> ELSE timers[t]]
  /\ Goto(Main, "run")
  /\ UNCHANGED <<profiler, ending, maps, scope, misused, now, logger>>

\* The end of ~Profiler, its maps and ~Singleton.
Destroyed ==
  /\ ending /\ pc[Main] = "run"
  /\ \A t \in Threads : ~HasRoot(t)
  /\ profiler' = FALSE /\ ending' = FALSE
  /\ current' = [t \in Threads |-> 0]
  /\ UNCHANGED <<lock, samples, pc, now, logger>>

Next ==
  \/ Tick \/ Create \/ Destroy \/ Delete \/ Destroyed
  \/ \E t \in Threads :
       \/ Open(t) \/ EnterProfiler(t) \/ GetCurrentSample(t) \/ SetCurrentSample(t)
       \/ GetRootTimer(t) \/ (\E name \in Names[t] : Start(t, name))
       \/ CloseUnprofiled(t) \/ Close(t) \/ Restore(t)
       \/ Log(t) \/ LogException(t) \/ Formatted(t) \/ WriteHeader(t) \/ WriteText(t)
       \/ Report(t)

Spec == Init /\ [][Next]_vars

-----------------------------------------------------------------------------
(* Properties *)

Paths(t) == UNION {[1 .. n -> Names[t]] : n \in 0 .. MaxDepth[t]}
Points == {"run", "get", "set", "root", "start", "restore",
           "format", "header", "text", "delete"}

TypeOK ==
  /\ {profiler, ending, misused} \subseteq BOOLEAN
  /\ lock \in [Threads -> 0 .. 1] /\ logLock \in [Threads -> 0 .. 1]
  /\ \A t \in Threads :
       /\ current[t] \in 0 .. Top(t)
       /\ Top(t) <= MaxDepth[t]
       /\ \A i \in DOMAIN scope[t] :
            /\ scope[t][i].timer \in Paths(t)
            /\ scope[t][i].parent \in 0 .. i - 1
       /\ DOMAIN timers[t] \subseteq Paths(t)
       /\ \A p \in DOMAIN timers[t] :
            timers[t][p].start \in 0 .. now /\ timers[t][p].total \in 0 .. now
  /\ pc \in [Threads -> Points]
  /\ now \in 1 .. MaxTime
  /\ written \in [by : Threads, part : {"header", "text"}, of : Threads]
  /\ exception \in Threads /\ failing \subseteq Threads /\ mixed \subseteq failing

\* The children of a timer: the paths that are one name longer.
Children(tree, path) ==
  {p \in DOMAIN tree : Len(p) = Len(path) + 1 /\ SubSeq(p, 1, Len(path)) = path}

Totals(tree) == [p \in DOMAIN tree |-> tree[p].total]

\* No timer is started while it runs or stopped while it does not, which would
\* raise an exception inside a constructor or destructor, and in what ~Profiler
\* prints the percentages below each timer add up to 100 at most.
ReportAddsUp ==
  /\ ~misused
  /\ \A t \in Threads : Reported(t) =>
       \A path \in DOMAIN timers[t] :
         SumFunctionOnSet(Totals(timers[t]), Children(timers[t], path))
           <= timers[t][path].total

\* Whatever threads log at the same time, a message in the file is in one piece:
\* the text under a header is written by the thread that wrote the header, and
\* it is that thread's own text, unless the thread was in logException while
\* another one was: those share m_szException (VKLogger.cpp 54-62, 102).
MessagesWhole ==
  [][written' # written =>
       IF written'.part = "text"
       THEN /\ written.part = "header" /\ written'.by = written.by
            /\ written'.by \notin mixed => written'.of = written'.by
       ELSE written.part = "text"]_vars

\* What a reader of the log file takes for granted, and the code does not keep:
\* no text is another thread's.
TextIsOwn == written.of = written.by
=============================================================================
