------------------------- MODULE DiagnosticsProofs -------------------------
(***************************************************************************)
(* Messages in the log file are in one piece, and what the Profiler        *)
(* reports adds up, for any number of threads, names and samples.          *)
(***************************************************************************)
EXTENDS Diagnostics, FiniteSets, FiniteSetTheorems, SequenceTheorems,
        WellFoundedInduction, TLAPS

\* The thread between the header and the text of a message is the one that
\* holds the lock of the Logger, and it wrote last.
LogInv ==
  /\ pc \in [Threads -> Points]
  /\ logLock = [t \in Threads |-> IF pc[t] = "text" THEN 1 ELSE 0]
  /\ \A t \in Threads : pc[t] = "text" => written = Piece(t, "header", t)
  /\ (\A t \in Threads : pc[t] # "text") => written.part = "text"

\* What m_szException holds: a thread that has been alone in logException finds
\* its own text there, for no other thread is in it.
BufferInv ==
  /\ exception \in Threads /\ failing \subseteq Threads /\ mixed \subseteq failing
  /\ \A t \in Threads : pc[t] = "format" => t \in failing
  /\ \A t \in failing : pc[t] \in {"format", "header", "text"}
  /\ \A t \in failing \ mixed : exception = t /\ \A u \in failing : u = t

\* A step outside logMessage: no thread enters or leaves the point between the
\* two pieces.
Elsewhere ==
  /\ UNCHANGED <<logLock, written>>
  /\ \/ UNCHANGED pc
     \/ \E t \in Threads, p \in Points \ {"text"} : pc[t] # "text" /\ Goto(t, p)

LEMMA ElsewhereKeepsLog ==
  ASSUME LogInv, Elsewhere
  PROVE  LogInv'
<1>1. CASE UNCHANGED pc
  BY <1>1 DEF LogInv, Elsewhere
<1>2. ASSUME NEW t \in Threads, NEW p \in Points \ {"text"}, pc[t] # "text", Goto(t, p)
      PROVE  LogInv'
  <2>1. pc' = [pc EXCEPT ![t] = p] /\ pc \in [Threads -> Points]
    BY <1>2 DEF Goto, LogInv
  <2>2. pc' \in [Threads -> Points]
    BY <2>1
  <2>3. \A u \in Threads : pc'[u] = "text" <=> pc[u] = "text"
    BY <1>2, <2>1
  <2> QED BY <2>2, <2>3 DEF LogInv, Elsewhere
<1> QED BY <1>1, <1>2 DEF Elsewhere

\* Between the pieces stands at most one thread, and only if it holds the lock.
LEMMA HeaderNeedsNoText ==
  ASSUME LogInv, NEW t \in Threads, WriteHeader(t)
  PROVE  \A u \in Threads : pc[u] # "text"
<1>1. pc[t] = "header" /\ \A u \in Threads \ {t} : logLock[u] = 0
  BY DEF WriteHeader, CanEnter
<1>2. \A u \in Threads : pc[u] = "text" => logLock[u] = 1
  BY DEF LogInv
<1>3. ASSUME NEW u \in Threads, pc[u] = "text" PROVE FALSE
  <2>1. CASE u = t
    BY <1>1, <1>3, <2>1
  <2>2. CASE u # t
    <3>1. logLock[u] = 0 /\ logLock[u] = 1
      BY <1>1, <1>2, <1>3, <2>2
    <3> QED BY <3>1
  <2> QED BY <2>1, <2>2
<1> QED BY <1>3

LEMMA LogStep == LogInv /\ [Next]_vars => LogInv'
<1> SUFFICES ASSUME LogInv, [Next]_vars PROVE LogInv'
  OBVIOUS
<1> USE DiagnosticsAssumption
<1>1. CASE UNCHANGED vars
  BY <1>1, ElsewhereKeepsLog DEF vars, Elsewhere, logger
<1>2. CASE Tick \/ Create \/ Destroy \/ Destroyed
  BY <1>2, ElsewhereKeepsLog DEF Tick, Create, Destroy, Destroyed, Elsewhere, logger
<1>3. CASE Delete
  BY <1>3, ElsewhereKeepsLog DEF Delete, Elsewhere, Points, logger
<1>4. ASSUME NEW t \in Threads,
             \/ Open(t) \/ EnterProfiler(t) \/ GetCurrentSample(t) \/ SetCurrentSample(t)
             \/ GetRootTimer(t) \/ (\E name \in Names[t] : Start(t, name))
             \/ CloseUnprofiled(t) \/ Close(t) \/ Restore(t)
      PROVE  LogInv'
  <2>1. Elsewhere
    <3>1. CASE Open(t)
      BY <3>1 DEF Open, Elsewhere, Points, logger
    <3>2. CASE EnterProfiler(t) \/ CloseUnprofiled(t)
      BY <3>2 DEF EnterProfiler, CloseUnprofiled, Elsewhere, logger
    <3>3. CASE GetCurrentSample(t) \/ GetRootTimer(t)
      BY <3>3 DEF GetCurrentSample, GetRootTimer, Elsewhere, Points, logger
    <3>4. CASE SetCurrentSample(t)
      BY <3>4 DEF SetCurrentSample, Elsewhere, Points, logger
    <3>5. CASE \E name \in Names[t] : Start(t, name)
      BY <3>5 DEF Start, Elsewhere, Points, logger
    <3>6. CASE Close(t) \/ Restore(t)
      BY <3>6 DEF Close, Restore, Elsewhere, Points, logger
    <3> QED BY <1>4, <3>1, <3>2, <3>3, <3>4, <3>5, <3>6
  <2> QED BY <2>1, ElsewhereKeepsLog
<1>5. ASSUME NEW t \in Threads, Log(t) \/ LogException(t) \/ Formatted(t) \/ Report(t)
      PROVE  LogInv'
  BY <1>5, ElsewhereKeepsLog DEF Log, LogException, Formatted, Report, Elsewhere, Points, logger
<1>6. ASSUME NEW t \in Threads, WriteHeader(t)
      PROVE  LogInv'
  <2>1. \A u \in Threads : pc[u] # "text"
    BY <1>6, HeaderNeedsNoText
  <2>2. /\ pc \in [Threads -> Points] /\ pc' = [pc EXCEPT ![t] = "text"]
        /\ logLock = [u \in Threads |-> 0]
        /\ logLock' = [logLock EXCEPT ![t] = 1]
        /\ written' = Piece(t, "header", t)
    BY <1>6, <2>1 DEF WriteHeader, Goto, Enter, LogInv
  <2>3. pc' \in [Threads -> Points]
    BY <2>2 DEF Points
  <2>4. \A u \in Threads : pc'[u] = "text" <=> u = t
    BY <2>1, <2>2
  <2>5. logLock' = [u \in Threads |-> IF pc'[u] = "text" THEN 1 ELSE 0]
    BY <2>2, <2>4
  <2> QED BY <2>2, <2>3, <2>4, <2>5 DEF LogInv
<1>7. ASSUME NEW t \in Threads, WriteText(t)
      PROVE  LogInv'
  <2>1. /\ pc \in [Threads -> Points] /\ pc[t] = "text"
        /\ pc' = [pc EXCEPT ![t] = IF ending /\ t = Main THEN "delete" ELSE "run"]
        /\ logLock' = [logLock EXCEPT ![t] = @ - 1]
        /\ \E of : written' = Piece(t, "text", of)
    BY <1>7 DEF WriteText, Goto, Leave, LogInv
  <2>2. \A u \in Threads : pc[u] = "text" => u = t
    BY <2>1 DEF LogInv, Piece
  <2>3. \A u \in Threads : pc'[u] # "text"
    BY <2>1, <2>2
  <2>4. pc' \in [Threads -> Points]
    BY <2>1 DEF Points
  <2>5. logLock' = [u \in Threads |-> IF pc'[u] = "text" THEN 1 ELSE 0]
    <3>1. logLock = [u \in Threads |-> IF u = t THEN 1 ELSE 0]
      BY <2>1, <2>2 DEF LogInv
    <3>2. logLock' = [u \in Threads |-> 0]
      BY <2>1, <3>1
    <3> QED BY <2>3, <3>2
  <2> QED BY <2>1, <2>3, <2>4, <2>5 DEF LogInv, Piece
<1> QED BY <1>1, <1>2, <1>3, <1>4, <1>5, <1>6, <1>7 DEF Next

LEMMA LogInit == Init => LogInv
<1> SUFFICES ASSUME Init PROVE LogInv
  OBVIOUS
<1>1. /\ pc = [t \in Threads |-> "run"] /\ logLock = [t \in Threads |-> 0]
      /\ written = Piece(Main, "text", Main)
  BY DEF Init, Unlocked
<1> QED BY <1>1 DEF LogInv, Points, Piece

LEMMA BufferInit == ASSUME DiagnosticsAssumption, Init PROVE BufferInv
BY DEF Init, BufferInv, DiagnosticsAssumption

\* A step that leaves m_szException alone, starts to format nothing, and takes no
\* thread out of logException.
LEMMA OthersKeepBuffer ==
  ASSUME LogInv, BufferInv, UNCHANGED exceptions, NEW t \in Threads, NEW p,
         Goto(t, p), p # "format",
         pc[t] \in {"format", "header", "text"} => p \in {"header", "text"}
  PROVE  BufferInv'
<1>1. pc' = [pc EXCEPT ![t] = p] /\ pc \in [Threads -> Points]
  BY DEF Goto, LogInv
<1>2. exception' = exception /\ failing' = failing /\ mixed' = mixed
  BY DEF exceptions
<1>3. \A u \in Threads : pc'[u] = "format" => u \in failing
  BY <1>1 DEF BufferInv
<1>4. \A u \in failing : pc'[u] \in {"format", "header", "text"}
  BY <1>1 DEF BufferInv
<1> QED BY <1>2, <1>3, <1>4 DEF BufferInv

LEMMA BufferStep ==
  ASSUME LogInv, BufferInv, [Next]_vars
  PROVE  BufferInv'
<1> USE DiagnosticsAssumption
<1>1. ASSUME UNCHANGED <<pc, exceptions>> PROVE BufferInv'
  BY <1>1 DEF BufferInv, exceptions
<1>2. CASE UNCHANGED vars
  BY <1>1, <1>2 DEF vars, logger
<1>3. CASE Tick \/ Create \/ Destroy \/ Destroyed
  BY <1>1, <1>3 DEF Tick, Create, Destroy, Destroyed, logger
<1>4. CASE Delete
  BY <1>4, OthersKeepBuffer DEF Delete, logger, DiagnosticsAssumption
<1>5. ASSUME NEW t \in Threads, EnterProfiler(t) \/ CloseUnprofiled(t)
      PROVE  BufferInv'
  BY <1>1, <1>5 DEF EnterProfiler, CloseUnprofiled, logger
<1>6. ASSUME NEW t \in Threads,
             \/ Open(t) \/ GetCurrentSample(t) \/ SetCurrentSample(t) \/ GetRootTimer(t)
             \/ (\E name \in Names[t] : Start(t, name))
             \/ Close(t) \/ Restore(t) \/ Log(t)
      PROVE  BufferInv'
  <2>1. /\ UNCHANGED exceptions /\ pc[t] \notin {"format", "header", "text"}
        /\ \E p : p # "format" /\ Goto(t, p)
    BY <1>6 DEF Open, GetCurrentSample, SetCurrentSample, GetRootTimer, Start, Close,
       Restore, Log, logger
  <2> QED BY <2>1, OthersKeepBuffer
<1>7. ASSUME NEW t \in Threads, Report(t) PROVE BufferInv'
  BY <1>7, OthersKeepBuffer DEF Report, logger, DiagnosticsAssumption
<1>8. ASSUME NEW t \in Threads, LogException(t) PROVE BufferInv'
  <2>1. /\ pc \in [Threads -> Points] /\ pc[t] = "run"
        /\ pc' = [pc EXCEPT ![t] = "format"]
        /\ exception' = t /\ failing' = failing \cup {t}
        /\ mixed' = IF failing = {} THEN mixed ELSE failing \cup {t}
    BY <1>8 DEF LogException, Goto, LogInv
  <2>2. /\ exception' \in Threads /\ failing' \subseteq Threads /\ mixed' \subseteq failing'
    BY <2>1 DEF BufferInv
  <2>3. \A u \in Threads : pc'[u] = "format" => u \in failing'
    BY <2>1 DEF BufferInv
  <2>4. \A u \in failing' : pc'[u] \in {"format", "header", "text"}
    BY <2>1 DEF BufferInv
  <2>5. \A u \in failing' \ mixed' : exception' = u /\ \A v \in failing' : v = u
    BY <2>1 DEF BufferInv
  <2> QED BY <2>2, <2>3, <2>4, <2>5 DEF BufferInv
<1>9. ASSUME NEW t \in Threads, Formatted(t) PROVE BufferInv'
  <2>1. /\ pc \in [Threads -> Points] /\ pc[t] = "format"
        /\ pc' = [pc EXCEPT ![t] = "header"]
        /\ exception' \in {exception} \cup {u \in Threads : pc[u] = "format"}
        /\ failing' = failing /\ mixed' = mixed
    BY <1>9 DEF Formatted, InBuffer, Formatting, Goto, LogInv
  <2>2. exception' \in Threads
    BY <2>1 DEF BufferInv
  <2>3. \A u \in Threads : pc'[u] = "format" => u \in failing'
    BY <2>1 DEF BufferInv
  <2>4. \A u \in failing' : pc'[u] \in {"format", "header", "text"}
    BY <2>1 DEF BufferInv
  <2>5. \A u \in failing' \ mixed' : exception' = u /\ \A v \in failing' : v = u
    BY <2>1 DEF BufferInv
  <2> QED BY <2>1, <2>2, <2>3, <2>4, <2>5 DEF BufferInv
<1>10. ASSUME NEW t \in Threads, WriteHeader(t) PROVE BufferInv'
  BY <1>10, OthersKeepBuffer DEF WriteHeader
<1>11. ASSUME NEW t \in Threads, WriteText(t) PROVE BufferInv'
  <2>1. PICK p \in {"run", "delete"} : pc' = [pc EXCEPT ![t] = p]
    BY <1>11 DEF WriteText, Goto
  <2>2. /\ pc \in [Threads -> Points] /\ exception' = exception
        /\ failing' = failing \ {t} /\ mixed' = mixed \ {t}
    BY <1>11 DEF WriteText, LogInv
  <2>3. \A u \in Threads : pc'[u] = "format" => u \in failing'
    BY <2>1, <2>2 DEF BufferInv
  <2>4. \A u \in failing' : pc'[u] \in {"format", "header", "text"}
    BY <2>1, <2>2 DEF BufferInv
  <2> QED BY <2>2, <2>3, <2>4 DEF BufferInv
<1> QED BY <1>2, <1>3, <1>4, <1>5, <1>6, <1>7, <1>8, <1>9, <1>10, <1>11 DEF Next

\* A step that writes a piece of a message writes the one that is due.
PieceFollows ==
  IF written'.part = "text"
  THEN /\ written.part = "header" /\ written'.by = written.by
       /\ written'.by \notin mixed => written'.of = written'.by
  ELSE written.part = "text"

\* Only logMessage writes: the header after a text, and the text after the
\* header of its own thread.
LEMMA PiecesFollow ==
  ASSUME LogInv, BufferInv, [Next]_vars, written' # written
  PROVE  PieceFollows
<1>1. ASSUME NEW t \in Threads, WriteHeader(t)
      PROVE  written'.part = "header" /\ written.part = "text"
  <2>1. written.part = "text"
    BY <1>1, HeaderNeedsNoText DEF LogInv
  <2> QED BY <1>1, <2>1 DEF WriteHeader, Piece
<1>2. ASSUME NEW t \in Threads, WriteText(t)
      PROVE  /\ written'.part = "text" /\ written.part = "header"
             /\ written'.by = written.by
             /\ written'.by \notin mixed => written'.of = written'.by
  <2>1. written = Piece(t, "header", t)
    BY <1>2 DEF WriteText, LogInv
  <2>2. PICK of \in IF t \in failing THEN InBuffer ELSE {t} : written' = Piece(t, "text", of)
    BY <1>2 DEF WriteText
  <2>3. ASSUME t \notin mixed PROVE of = t
    <3>1. CASE t \in failing
      <4>1. exception = t /\ \A u \in failing : u = t
        BY <2>3, <3>1 DEF BufferInv
      <4>2. \A u \in Formatting : u = t
        BY <4>1 DEF Formatting, BufferInv
      <4> QED BY <2>2, <3>1, <4>1, <4>2 DEF InBuffer
    <3>2. CASE t \notin failing
      BY <2>2, <3>2
    <3> QED BY <3>1, <3>2
  <2> QED BY <2>1, <2>2, <2>3 DEF Piece
<1>3. \E t \in Threads : WriteHeader(t) \/ WriteText(t)
  BY DEF Next, vars, logger, Tick, Create, Destroy, Delete, Destroyed, Open,
     EnterProfiler, GetCurrentSample, SetCurrentSample, GetRootTimer, Start,
     CloseUnprofiled, Close, Restore, Log, LogException, Formatted, Report
<1> QED BY <1>1, <1>2, <1>3 DEF PieceFollows

\* However many threads log, the text under a header comes from the thread that
\* wrote the header, and it is that thread's text unless logException had it
\* share its buffer with another one.
THEOREM LogIsWhole == Spec => MessagesWhole
<1>1. Init => LogInv /\ BufferInv
  BY LogInit, BufferInit, DiagnosticsAssumption
<1>2. LogInv /\ BufferInv /\ [Next]_vars => LogInv' /\ BufferInv'
  BY LogStep, BufferStep
<1>3. LogInv /\ BufferInv /\ [Next]_vars => [written' # written => PieceFollows]_vars
  BY PiecesFollow
<1>4. [][written' # written => PieceFollows]_vars <=> MessagesWhole
  BY DEF MessagesWhole, PieceFollows
<1> QED BY <1>1, <1>2, <1>3, <1>4, PTL DEF Spec

---------------------------------------------------------------------------
(* Sums.  SumFunctionOnSet is a fold, defined by a recursive function that *)
(* chooses one term after the other: that there is such a function, and    *)
(* that the order does not matter, is shown by induction on cardinality.   *)

\* Induction on the natural numbers, for sets.
LEMMA NatInduct ==
  ASSUME NEW T \in SUBSET Nat, 0 \in T, \A n \in T : n + 1 \in T
  PROVE  T = Nat
<1> SUFFICES ASSUME Nat \ T # {} PROVE FALSE
  OBVIOUS
<1>1. PICK m \in Nat \ T : \A k \in Nat \ T : ~(<<k, m>> \in OpToRel(<, Nat))
  BY NatLessThanWellFounded, WFMin, Zenon
<1>2. \A k \in Nat \ T : ~(k < m)
  BY <1>1 DEF OpToRel
<1>3. m # 0 /\ m - 1 \in Nat
  OBVIOUS
<1>4. m - 1 \in T
  BY <1>2, <1>3
<1> QED BY <1>3, <1>4

Pick(s) == CHOOSE x \in s : TRUE
Small(S, n) == {s \in SUBSET S : IsFiniteSet(s) /\ Cardinality(s) <= n}
Sums(it, f, D) == \A s \in D : it[s] = IF s = {} THEN 0 ELSE f[Pick(s)] + it[s \ {Pick(s)}]
Iter(f, S) == CHOOSE it : it = [s \in SUBSET S |-> IF s = {} THEN 0 ELSE f[Pick(s)] + it[s \ {Pick(s)}]]

LEMMA SumIsIter ==
  ASSUME NEW f, NEW S PROVE SumFunctionOnSet(f, S) = Iter(f, S)[S]
BY DEF SumFunctionOnSet, FoldFunctionOnSet, MapThenFoldSet, Iter, Pick

LEMMA PickIn == ASSUME NEW s, s # {} PROVE Pick(s) \in s
BY DEF Pick

LEMMA SmallStep ==
  ASSUME NEW S, NEW n \in Nat, NEW s \in Small(S, n + 1), s # {}
  PROVE  Pick(s) \in S /\ s \ {Pick(s)} \in Small(S, n)
<1>1. IsFiniteSet(s) /\ Cardinality(s) <= n + 1 /\ Pick(s) \in s /\ s \subseteq S
  BY PickIn DEF Small
<1>2. IsFiniteSet(s \ {Pick(s)}) /\ Cardinality(s \ {Pick(s)}) = Cardinality(s) - 1
        /\ Cardinality(s) \in Nat
  BY <1>1, FS_RemoveElement, FS_CardinalityType
<1> QED BY <1>1, <1>2 DEF Small

\* There is a function that sums up the small subsets.
LEMMA SumsExist ==
  ASSUME NEW S, NEW f, \A x \in S : f[x] \in Nat
  PROVE  \A n \in Nat : \E it \in [Small(S, n) -> Nat] : Sums(it, f, Small(S, n))
<1> DEFINE T == {n \in Nat : \E it \in [Small(S, n) -> Nat] : Sums(it, f, Small(S, n))}
<1>1. 0 \in T
  <2>1. \A s \in Small(S, 0) : s = {}
    BY FS_EmptySet, FS_CardinalityType DEF Small
  <2>2. [s \in Small(S, 0) |-> 0] \in [Small(S, 0) -> Nat]
    OBVIOUS
  <2>3. Sums([s \in Small(S, 0) |-> 0], f, Small(S, 0))
    BY <2>1 DEF Sums
  <2> QED BY <2>2, <2>3
<1>2. ASSUME NEW n \in T PROVE n + 1 \in T
  <2>1. PICK g \in [Small(S, n) -> Nat] : Sums(g, f, Small(S, n))
    OBVIOUS
  <2> DEFINE h == [s \in Small(S, n + 1) |-> IF s = {} THEN 0 ELSE f[Pick(s)] + g[s \ {Pick(s)}]]
  <2>2. n \in Nat /\ \A s \in Small(S, n + 1) : s # {} => Pick(s) \in S /\ s \ {Pick(s)} \in Small(S, n)
    BY SmallStep
  <2>3. h \in [Small(S, n + 1) -> Nat]
    <3> SUFFICES ASSUME NEW s \in Small(S, n + 1), s # {} PROVE f[Pick(s)] + g[s \ {Pick(s)}] \in Nat
      OBVIOUS
    <3> QED BY <2>2
  <2>4. \A s \in Small(S, n) : s \in Small(S, n + 1) /\ h[s] = g[s]
    <3> SUFFICES ASSUME NEW s \in Small(S, n) PROVE s \in Small(S, n + 1) /\ h[s] = g[s]
      OBVIOUS
    <3>1. s \in Small(S, n + 1)
      BY <2>2, FS_CardinalityType DEF Small
    <3> QED BY <2>1, <3>1 DEF Sums
  <2>5. Sums(h, f, Small(S, n + 1))
    <3> SUFFICES ASSUME NEW s \in Small(S, n + 1)
                 PROVE  h[s] = IF s = {} THEN 0 ELSE f[Pick(s)] + h[s \ {Pick(s)}]
      BY DEF Sums
    <3> QED BY <2>2, <2>4
  <2> HIDE DEF h
  <2>6. n + 1 \in Nat
    OBVIOUS
  <2> QED BY <2>3, <2>5, <2>6
<1> HIDE DEF T
<1>3. T = Nat
  BY <1>1, <1>2, NatInduct DEF T
<1> QED BY <1>3 DEF T

LEMMA IterSums ==
  ASSUME NEW S, IsFiniteSet(S), NEW f, \A x \in S : f[x] \in Nat
  PROVE  Sums(Iter(f, S), f, SUBSET S)
<1> DEFINE n == Cardinality(S)
<1>1. n \in Nat /\ Small(S, n) = SUBSET S
  BY FS_CardinalityType, FS_Subset DEF Small
<1>2. PICK it \in [SUBSET S -> Nat] : Sums(it, f, SUBSET S)
  <2> HIDE DEF n
  <2>1. \E it \in [Small(S, n) -> Nat] : Sums(it, f, Small(S, n))
    BY <1>1, SumsExist
  <2> QED BY <1>1, <2>1
<1>3. it = [s \in SUBSET S |-> IF s = {} THEN 0 ELSE f[Pick(s)] + it[s \ {Pick(s)}]]
  BY <1>2 DEF Sums
<1>4. Iter(f, S) = [s \in SUBSET S |-> IF s = {} THEN 0 ELSE f[Pick(s)] + Iter(f, S)[s \ {Pick(s)}]]
  BY <1>3 DEF Iter
<1> QED BY <1>4 DEF Sums

\* Two such functions agree.
LEMMA SumsUnique ==
  ASSUME NEW f, NEW g, NEW it, NEW jt, NEW D, NEW E,
         Sums(it, f, D), Sums(jt, g, E), SUBSET UNION D \subseteq D,  SUBSET UNION E \subseteq E
  PROVE  \A s \in D \cap E : IsFiniteSet(s) /\ (\A x \in s : f[x] = g[x]) => it[s] = jt[s]
<1> DEFINE Q(s) == IsFiniteSet(s) /\ (\A x \in s : f[x] = g[x])
           T == {n \in Nat : \A s \in D \cap E : Q(s) /\ Cardinality(s) <= n => it[s] = jt[s]}
<1>1. 0 \in T
  <2> SUFFICES ASSUME NEW s \in D \cap E, Q(s), Cardinality(s) <= 0 PROVE it[s] = jt[s]
    OBVIOUS
  <2>1. s = {}
    BY FS_EmptySet, FS_CardinalityType
  <2> QED BY <2>1 DEF Sums
<1>2. ASSUME NEW n \in T PROVE n + 1 \in T
  <2> SUFFICES ASSUME NEW s \in D \cap E, Q(s), Cardinality(s) <= n + 1, s # {} PROVE it[s] = jt[s]
    BY DEF Sums
  <2> DEFINE r == s \ {Pick(s)}
  <2>1. Pick(s) \in s
    BY PickIn
  <2>2. IsFiniteSet(r) /\ Cardinality(r) = Cardinality(s) - 1 /\ Cardinality(s) \in Nat
    BY <2>1, FS_RemoveElement, FS_CardinalityType
  <2>3. r \in D \cap E /\ Cardinality(r) <= n /\ Q(r)
    BY <2>2
  <2>4. it[r] = jt[r]
    BY <2>3
  <2>5. it[s] = f[Pick(s)] + it[r] /\ jt[s] = g[Pick(s)] + jt[r]
    BY DEF Sums
  <2> QED BY <2>1, <2>4, <2>5
<1> HIDE DEF T
<1>3. T = Nat
  BY <1>1, <1>2, NatInduct DEF T
<1> QED 
  <2> SUFFICES ASSUME NEW s \in D \cap E, Q(s) PROVE it[s] = jt[s]
    OBVIOUS
  <2>1. Cardinality(s) \in T
    BY <1>3, FS_CardinalityType
  <2>2. Cardinality(s) <= Cardinality(s)
    BY <1>3, <2>1
  <2> QED BY <2>1, <2>2 DEF T

LEMMA SumSame ==
  ASSUME NEW S, IsFiniteSet(S), NEW f, NEW g, \A x \in S : f[x] \in Nat /\ f[x] = g[x],
         NEW R, IsFiniteSet(R), R \subseteq S
  PROVE  Iter(f, S)[R] = SumFunctionOnSet(g, R)
<1>1. Sums(Iter(f, S), f, SUBSET S) /\ Sums(Iter(g, R), g, SUBSET R)
  BY IterSums
<1>2. SUBSET UNION SUBSET S \subseteq SUBSET S /\ SUBSET UNION SUBSET R \subseteq SUBSET R
  OBVIOUS
<1>3. R \in (SUBSET S) \cap (SUBSET R) /\ IsFiniteSet(R) /\ \A x \in R : f[x] = g[x]
  OBVIOUS
<1>4. Iter(f, S)[R] = Iter(g, R)[R]
  BY <1>1, <1>2, <1>3, SumsUnique
<1> QED BY <1>4, SumIsIter

LEMMA SumEqual ==
  ASSUME NEW S, IsFiniteSet(S), NEW f, NEW g, \A x \in S : f[x] \in Nat /\ f[x] = g[x]
  PROVE  SumFunctionOnSet(f, S) = SumFunctionOnSet(g, S)
BY SumSame, SumIsIter

LEMMA SumPick ==
  ASSUME NEW S, IsFiniteSet(S), NEW f, \A x \in S : f[x] \in Nat
  PROVE  SumFunctionOnSet(f, S) =
           IF S = {} THEN 0 ELSE f[Pick(S)] + SumFunctionOnSet(f, S \ {Pick(S)})
<1>1. Iter(f, S)[S] = IF S = {} THEN 0 ELSE f[Pick(S)] + Iter(f, S)[S \ {Pick(S)}]
  BY IterSums DEF Sums
<1>2. IsFiniteSet(S \ {Pick(S)}) /\ S \ {Pick(S)} \subseteq S
  BY FS_Subset
<1>3. Iter(f, S)[S \ {Pick(S)}] = SumFunctionOnSet(f, S \ {Pick(S)})
  BY <1>2, SumSame
<1> QED BY <1>1, <1>3, SumIsIter

\* The sum does not depend on the order of its terms.
LEMMA SumSplit ==
  ASSUME NEW S, IsFiniteSet(S), NEW f, \A x \in S : f[x] \in Nat
  PROVE  /\ SumFunctionOnSet(f, S) \in Nat
         /\ \A y \in S : SumFunctionOnSet(f, S) = f[y] + SumFunctionOnSet(f, S \ {y})
<1> DEFINE F(s) == SumFunctionOnSet(f, s)
           Q(s) == F(s) \in Nat /\ \A y \in s : F(s) = f[y] + F(s \ {y})
           T == {n \in Nat : \A s \in SUBSET S : Cardinality(s) <= n => Q(s)}
<1>0. \A s \in SUBSET S : IsFiniteSet(s) /\ Cardinality(s) \in Nat
  BY FS_Subset, FS_CardinalityType
<1>1. 0 \in T
  <2> SUFFICES ASSUME NEW s \in SUBSET S, Cardinality(s) <= 0 PROVE Q(s)
    OBVIOUS
  <2>1. s = {}
    BY <1>0, FS_EmptySet
  <2>2. F(s) = 0
    BY <1>0, <2>1, SumPick
  <2> HIDE DEF F
  <2> QED BY <2>1, <2>2
<1>2. ASSUME NEW n \in T PROVE n + 1 \in T
  <2> SUFFICES ASSUME NEW s \in SUBSET S, Cardinality(s) <= n + 1, s # {} PROVE Q(s)
    <3>1. \A s \in SUBSET S : Cardinality(s) <= n + 1 /\ s = {} => Q(s)
      BY <1>0, SumPick
    <3> HIDE DEF Q
    <3> QED BY <3>1
  <2> DEFINE x == Pick(s)
             r == s \ {x}
  <2>1. x \in s
    BY PickIn
  <2>2. F(s) = f[x] + F(r)
    BY <1>0, SumPick
  <2>3. \A z \in s : /\ s \ {z} \in SUBSET S /\ Cardinality(s \ {z}) <= n
    BY <1>0, FS_RemoveElement
  <2> HIDE DEF F, x
  <2>4. Q(r)
    BY <2>1, <2>3
  <2>5. F(s) \in Nat
    BY <2>1, <2>2, <2>4
  <2>6. ASSUME NEW y \in s, y # x PROVE F(s) = f[y] + F(s \ {y})
    <3>1. Q(s \ {y}) /\ x \in s \ {y} /\ y \in r
      BY <2>1, <2>3, <2>6
    <3>2. (s \ {y}) \ {x} = r \ {y}
      OBVIOUS
    <3>3. F(s \ {y}) = f[x] + F(r \ {y}) /\ F(r) = f[y] + F(r \ {y})
      BY <2>4, <3>1, <3>2
    <3>4. F(r \ {y}) \in Nat
      <4>1. r \ {y} \in SUBSET S /\ Cardinality(r \ {y}) <= n
        <5>1. Cardinality(r \ {y}) = Cardinality(r) - 1 /\ Cardinality(r) <= n /\ Cardinality(r) \in Nat
          BY <1>0, <2>1, <2>3, <3>1, FS_RemoveElement
        <5> QED BY <5>1
      <4> QED BY <4>1
    <3>5. f[x] \in Nat /\ f[y] \in Nat
      BY <2>1
    <3> QED BY <2>2, <3>3, <3>4, <3>5
  <2> QED BY <2>1, <2>2, <2>5, <2>6
<1> HIDE DEF T, Q
<1>3. T = Nat
  BY <1>1, <1>2, NatInduct DEF T
<1>4. Cardinality(S) <= Cardinality(S) /\ S \in SUBSET S
  BY <1>0
<1>5. Q(S)
  BY <1>0, <1>3, <1>4 DEF T
<1> QED BY <1>5 DEF Q

LEMMA SumInsert ==
  ASSUME NEW S, IsFiniteSet(S), NEW f, NEW y, y \notin S, \A x \in S \cup {y} : f[x] \in Nat
  PROVE  SumFunctionOnSet(f, S \cup {y}) = f[y] + SumFunctionOnSet(f, S)
<1>1. IsFiniteSet(S \cup {y}) /\ (S \cup {y}) \ {y} = S
  BY FS_AddElement
<1> QED BY <1>1, SumSplit

LEMMA SumOneMore ==
  ASSUME NEW S, IsFiniteSet(S), NEW f, NEW g, NEW y \in S, NEW k \in Nat,
         \A x \in S : f[x] \in Nat, g[y] = f[y] + k, \A x \in S \ {y} : g[x] = f[x]
  PROVE  SumFunctionOnSet(g, S) = SumFunctionOnSet(f, S) + k
<1>1. IsFiniteSet(S \ {y})
  BY FS_Subset
<1>2. SumFunctionOnSet(f, S \ {y}) = SumFunctionOnSet(g, S \ {y})
  BY <1>1, SumEqual
<1>3. \A x \in S : g[x] \in Nat
  OBVIOUS
<1>4. SumFunctionOnSet(f, S \ {y}) \in Nat
  BY <1>1, SumSplit
<1>5. /\ SumFunctionOnSet(f, S) = f[y] + SumFunctionOnSet(f, S \ {y})
      /\ SumFunctionOnSet(g, S) = g[y] + SumFunctionOnSet(g, S \ {y})
  BY <1>3, SumSplit
<1> QED BY <1>2, <1>4, <1>5

---------------------------------------------------------------------------
(* The tree of one thread. *)

Up(p) == SubSeq(p, 1, Len(p) - 1)

LEMMA FirstOnes ==
  ASSUME NEW S, NEW s \in Seq(S), NEW m \in 0 .. Len(s)
  PROVE  /\ SubSeq(s, 1, m) \in Seq(S) /\ Len(SubSeq(s, 1, m)) = m
         /\ \A i \in 1 .. m : SubSeq(s, 1, m)[i] = s[i]
<1>1. 1 \in Int /\ m \in Int /\ Len(s) \in Nat /\ \A i \in 1 .. m : s[i] \in S
  OBVIOUS
<1>2. /\ SubSeq(s, 1, m) \in Seq(S)
      /\ Len(SubSeq(s, 1, m)) = IF 1 <= m THEN m - 1 + 1 ELSE 0
      /\ \A i \in 1 .. m - 1 + 1 : SubSeq(s, 1, m)[i] = s[1 + i - 1]
  BY <1>1, SubSeqProperties
<1>3. m - 1 + 1 = m /\ (~(1 <= m) => m = 0) /\ \A i \in 1 .. m : 1 + i - 1 = i
  BY <1>1
<1> QED BY <1>2, <1>3

LEMMA PathIs ==
  ASSUME DiagnosticsAssumption, NEW t \in Threads
  PROVE  /\ \A p : p \in Paths(t) <=> p \in Seq(Names[t]) /\ Len(p) <= MaxDepth[t]
         /\ MaxDepth[t] \in Nat
<1>1. MaxDepth[t] \in Nat
  BY DEF DiagnosticsAssumption
<1>2. ASSUME NEW p \in Paths(t) PROVE p \in Seq(Names[t]) /\ Len(p) <= MaxDepth[t]
  <2>1. PICK n \in 0 .. MaxDepth[t] : p \in [1 .. n -> Names[t]]
    BY DEF Paths
  <2>2. n \in Nat
    BY <1>1
  <2> QED BY <1>1, <2>1, <2>2
<1>3. ASSUME NEW p \in Seq(Names[t]), Len(p) <= MaxDepth[t] PROVE p \in Paths(t)
  <2>1. Len(p) \in 0 .. MaxDepth[t] /\ p \in [1 .. Len(p) -> Names[t]]
    BY <1>1, <1>3
  <2> QED BY <2>1 DEF Paths
<1> QED BY <1>1, <1>2, <1>3

\* The path below another one.
LEMMA PathBelow ==
  ASSUME DiagnosticsAssumption, NEW t \in Threads, NEW p \in Paths(t), NEW name \in Names[t]
  PROVE  /\ Len(p) \in Nat /\ Len(Append(p, name)) = Len(p) + 1
         /\ Append(p, name) # <<>> /\ Up(Append(p, name)) = p
         /\ Len(p) < MaxDepth[t] => Append(p, name) \in Paths(t)
<1>1. p \in Seq(Names[t]) /\ MaxDepth[t] \in Nat
  BY PathIs
<1>2. Len(p) \in Nat /\ Append(p, name) \in Seq(Names[t]) /\ Len(Append(p, name)) = Len(p) + 1
        /\ \A i \in 1 .. Len(p) : Append(p, name)[i] = p[i]
  BY <1>1
<1>3. Append(p, name) # <<>>
  <2>1. Len(<<>>) = 0 /\ Len(Append(p, name)) # 0
    BY <1>2
  <2> QED BY <2>1
<1>4. Up(Append(p, name)) = p
  <2> DEFINE q == Append(p, name)
  <2>1. SubSeq(q, 1, Len(p)) = [i \in 1 .. Len(p) |-> q[i]]
    BY <1>2
  <2>2. p = [i \in 1 .. Len(p) |-> p[i]]
    BY <1>1
  <2>3. Len(q) - 1 = Len(p)
    BY <1>2
  <2>4. SubSeq(q, 1, Len(p)) = p
    BY <1>2, <2>1, <2>2
  <2> QED BY <2>3, <2>4 DEF Up
<1>5. Len(p) < MaxDepth[t] => Append(p, name) \in Paths(t)
  <2>1. Len(p) < MaxDepth[t] => Len(Append(p, name)) <= MaxDepth[t]
    BY <1>1, <1>2
  <2> QED BY <1>2, <2>1, PathIs
<1> QED BY <1>2, <1>3, <1>4, <1>5

LEMMA PathUp ==
  ASSUME DiagnosticsAssumption, NEW t \in Threads, NEW p \in Paths(t), p # <<>>
  PROVE  Len(p) \in Nat /\ Len(p) > 0 /\ Len(Up(p)) = Len(p) - 1
<1>1. p \in Seq(Names[t]) /\ Len(p) \in Nat
  BY PathIs
<1>2. Len(p) > 0
  BY <1>1
<1>3. Len(p) - 1 \in 0 .. Len(p)
  BY <1>1, <1>2
<1>4. Len(SubSeq(p, 1, Len(p) - 1)) = Len(p) - 1
  BY <1>1, <1>3, FirstOnes
<1> QED BY <1>1, <1>2, <1>4 DEF Up

LEMMA RootIsPath ==
  ASSUME DiagnosticsAssumption, NEW t \in Threads
  PROVE  <<>> \in Paths(t) /\ Len(<<>>) = 0
<1>1. <<>> \in Seq(Names[t]) /\ Len(<<>>) = 0
  OBVIOUS
<1>2. Len(<<>>) <= MaxDepth[t]
  BY <1>1, PathIs
<1> QED BY <1>1, <1>2, PathIs

Kids(tree, path) == {p \in DOMAIN tree : p # <<>> /\ Up(p) = path}

LEMMA KidsAreChildren ==
  ASSUME DiagnosticsAssumption, NEW t \in Threads, NEW tree, DOMAIN tree \subseteq Paths(t),
         NEW path \in DOMAIN tree
  PROVE  Children(tree, path) = Kids(tree, path)
<1>1. \A p \in DOMAIN tree : p \in Paths(t) /\ p \in Seq(Names[t]) /\ Len(p) \in Nat
  BY PathIs
<1>2. Len(<<>>) = 0
  OBVIOUS
<1>3. ASSUME NEW p \in DOMAIN tree
      PROVE  Len(p) = Len(path) + 1 /\ SubSeq(p, 1, Len(path)) = path
               <=> p # <<>> /\ Up(p) = path
  <2>1. CASE p = <<>>
    BY <1>1, <1>2, <2>1
  <2>2. CASE p # <<>>
    <3>1. Len(Up(p)) = Len(p) - 1
      BY <1>1, <2>2, PathUp
    <3>2. Len(p) = Len(path) + 1 => Len(p) - 1 = Len(path)
      BY <1>1
    <3>3. Len(p) - 1 = Len(path) => Len(p) = Len(path) + 1
      BY <1>1
    <3> QED BY <2>2, <3>1, <3>2, <3>3 DEF Up
  <2> QED BY <2>1, <2>2
<1> QED BY <1>3 DEF Children, Kids

Timed(x, n) == /\ x \in [start : Nat, total : Nat] /\ x.start <= n /\ x.total <= n
               /\ x.start > 0 => x.total <= x.start
Lasted(x, n) == IF x.start > 0 THEN x.total + n - x.start ELSE x.total
Lasts(tree, n) == [p \in DOMAIN tree |-> Lasted(tree[p], n)]

\* A tree of timers: each is below another one or is the root.
Shape(tree, P) ==
  /\ tree = [p \in DOMAIN tree |-> tree[p]]
  /\ DOMAIN tree \subseteq P /\ IsFiniteSet(DOMAIN tree)
  /\ DOMAIN tree # {} => <<>> \in DOMAIN tree
  /\ \A p \in DOMAIN tree : p # <<>> => Up(p) \in DOMAIN tree

\* What the timers below one have measured is not more than it has measured.
Adds(tree, n) ==
  \A p \in DOMAIN tree : SumFunctionOnSet(Lasts(tree, n), Kids(tree, p)) <= Lasts(tree, n)[p]

Tree(tree, P, n) ==
  /\ Shape(tree, P)
  /\ \A p \in DOMAIN tree : Timed(tree[p], n)
  /\ Adds(tree, n)

LEMMA LastedIs ==
  ASSUME NEW n \in Nat, NEW x, Timed(x, n)
  PROVE  Lasted(x, n) \in Nat /\ Lasted(x, n) <= n
BY DEF Timed, Lasted

LEMMA KidsFinite ==
  ASSUME NEW tree, IsFiniteSet(DOMAIN tree), NEW p
  PROVE  IsFiniteSet(Kids(tree, p)) /\ Kids(tree, p) \subseteq DOMAIN tree
<1>1. Kids(tree, p) \subseteq DOMAIN tree
  BY DEF Kids
<1> QED BY <1>1, FS_Subset

Put(tree, path, x) == [tree EXCEPT ![path] = x]

\* A timer that changes without having measured anything changes no sum.
LEMMA TreeChange ==
  ASSUME NEW P, NEW n \in Nat, NEW tree, Tree(tree, P, n), NEW path \in DOMAIN tree,
         NEW x, Timed(x, n), Lasted(x, n) = Lasted(tree[path], n)
  PROVE  Tree(Put(tree, path, x), P, n)
<1> DEFINE new == Put(tree, path, x)
<1>1. tree = [p \in DOMAIN tree |-> tree[p]]
  BY DEF Tree, Shape
<1>2. DOMAIN new = DOMAIN tree /\ new = [p \in DOMAIN tree |-> IF p = path THEN x ELSE tree[p]]
  BY <1>1 DEF Put
<1>3. \A p \in DOMAIN new : new[p] = IF p = path THEN x ELSE tree[p]
  BY <1>2
<1>4. new = [p \in DOMAIN new |-> new[p]]
  BY <1>2
<1> HIDE DEF new
<1>5. Shape(new, P)
  BY <1>2, <1>4 DEF Tree, Shape
<1>6. \A p \in DOMAIN new : Timed(new[p], n)
  BY <1>2, <1>3 DEF Tree
<1>7. \A p \in DOMAIN new : Lasted(new[p], n) = Lasted(tree[p], n)
  BY <1>2, <1>3
<1>8. Lasts(new, n) = Lasts(tree, n)
  BY <1>2, <1>7 DEF Lasts
<1>9. \A p : Kids(new, p) = Kids(tree, p)
  BY <1>2 DEF Kids
<1>10. Adds(new, n)
  BY <1>2, <1>8, <1>9 DEF Adds, Tree
<1> QED BY <1>5, <1>6, <1>10 DEF Tree, new

LEMMA StopKeepsTree ==
  ASSUME NEW P, now \in Nat, NEW tree, Tree(tree, P, now), NEW path \in DOMAIN tree
  PROVE  Tree(StopTimer(tree, path), P, now)
<1>1. CASE Started(tree, path)
  <2> DEFINE x == [start |-> 0, total |-> tree[path].total + now - tree[path].start]
  <2>1. Timed(tree[path], now) /\ tree[path].start > 0
    BY <1>1 DEF Tree, Started
  <2>2. Timed(x, now) /\ Lasted(x, now) = Lasted(tree[path], now)
    BY <2>1 DEF Timed, Lasted
  <2>3. StopTimer(tree, path) = Put(tree, path, x)
    BY <1>1 DEF StopTimer, Put
  <2> HIDE DEF x
  <2> QED BY <2>2, <2>3, TreeChange
<1>2. CASE ~Started(tree, path)
  BY <1>2 DEF StopTimer
<1> QED BY <1>1, <1>2

LEMMA StartKeepsTree ==
  ASSUME NEW P, now \in Nat \ {0}, NEW tree, Tree(tree, P, now), NEW path \in DOMAIN tree
  PROVE  Tree(StartTimer(tree, path), P, now)
<1>1. CASE ~Started(tree, path)
  <2> DEFINE x == [start |-> now, total |-> tree[path].total]
  <2>1. Timed(tree[path], now) /\ ~(tree[path].start > 0)
    BY <1>1 DEF Tree, Started
  <2>2. Timed(x, now) /\ Lasted(x, now) = Lasted(tree[path], now)
    BY <2>1 DEF Timed, Lasted
  <2>3. [tree[path] EXCEPT !.start = now] = x
    BY <2>1 DEF Timed
  <2>4. StartTimer(tree, path) = [tree EXCEPT ![path] = [tree[path] EXCEPT !.start = now]]
    BY <1>1 DEF StartTimer
  <2>5. StartTimer(tree, path) = Put(tree, path, x)
    BY <2>3, <2>4 DEF Put
  <2> HIDE DEF x
  <2> QED BY <2>2, <2>5, TreeChange
<1>2. CASE Started(tree, path)
  BY <1>2 DEF StartTimer
<1> QED BY <1>1, <1>2

LEMMA LastsAre ==
  ASSUME NEW P, NEW n \in Nat, NEW tree, Tree(tree, P, n)
  PROVE  \A p \in DOMAIN tree : /\ Lasts(tree, n)[p] = Lasted(tree[p], n)
                                /\ Lasts(tree, n)[p] \in Nat
<1>1. \A p \in DOMAIN tree : Timed(tree[p], n)
  BY DEF Tree
<1>2. \A p \in DOMAIN tree : Lasted(tree[p], n) \in Nat
  BY <1>1, LastedIs
<1> QED BY <1>2 DEF Lasts

LEMMA GetKeepsTree ==
  ASSUME NEW P, NEW n \in Nat, NEW tree, Tree(tree, P, n), NEW path \in P,
         path # <<>> => Up(path) \in DOMAIN tree
  PROVE  Tree(GetTimer(tree, path), P, n)
<1>1. CASE path \in DOMAIN tree
  BY <1>1 DEF GetTimer, HasTimer
<1>2. CASE path \notin DOMAIN tree
  <2> DEFINE new == GetTimer(tree, path)
  <2>1. Shape(tree, P)
    BY DEF Tree
  <2>2. /\ DOMAIN new = DOMAIN tree \cup {path}
        /\ new = [p \in DOMAIN new |-> new[p]]
        /\ new[path] = Stopped
        /\ \A p \in DOMAIN tree : new[p] = tree[p]
    BY <1>2 DEF GetTimer, HasTimer
  <2> HIDE DEF new
  <2>3. IsFiniteSet(DOMAIN new)
    BY <2>1, <2>2, FS_AddElement DEF Shape
  <2>4. Shape(new, P)
    BY <2>1, <2>2, <2>3 DEF Shape
  <2>5. Timed(Stopped, n) /\ Lasted(Stopped, n) = 0
    BY DEF Timed, Lasted, Stopped
  <2>6. \A p \in DOMAIN new : Timed(new[p], n)
    BY <2>2, <2>5 DEF Tree
  <2> DEFINE f == Lasts(tree, n)
             g == Lasts(new, n)
  <2>7. \A p \in DOMAIN tree : f[p] \in Nat
    BY LastsAre
  <2>8. g[path] = 0 /\ \A p \in DOMAIN tree : g[p] = f[p]
    BY <2>2, <2>5 DEF Lasts
  <2> HIDE DEF f, g
  <2>9. ASSUME NEW p \in DOMAIN tree
        PROVE  SumFunctionOnSet(g, Kids(new, p)) <= g[p]
    <3> DEFINE S == Kids(tree, p)
    <3>1. IsFiniteSet(S) /\ S \subseteq DOMAIN tree
      BY <2>1, KidsFinite DEF Shape
    <3> HIDE DEF S
    <3>2. SumFunctionOnSet(g, S) = SumFunctionOnSet(f, S)
      BY <2>7, <2>8, <3>1, SumEqual
    <3>3. SumFunctionOnSet(f, S) <= f[p]
      BY DEF Tree, Adds, f, S
    <3>4. CASE Kids(new, p) = S
      BY <2>8, <3>2, <3>3, <3>4
    <3>5. CASE Kids(new, p) = S \cup {path}
      <4>1. SumFunctionOnSet(g, S \cup {path}) = g[path] + SumFunctionOnSet(g, S)
        <5>1. path \notin S /\ \A x \in S \cup {path} : g[x] \in Nat
          BY <1>2, <2>7, <2>8, <3>1
        <5> QED BY <3>1, <5>1, SumInsert
      <4>2. SumFunctionOnSet(f, S) \in Nat
        BY <2>7, <3>1, SumSplit
      <4> QED BY <2>8, <3>2, <3>3, <3>5, <4>1, <4>2
    <3> QED BY <2>2, <3>4, <3>5 DEF Kids, S
  <2>10. SumFunctionOnSet(g, Kids(new, path)) <= g[path]
    <3>1. Kids(new, path) = {}
      BY <1>2, <2>1, <2>2 DEF Kids, Shape
    <3>2. SumFunctionOnSet(g, {}) = 0
      BY FS_EmptySet, SumPick
    <3> QED BY <2>8, <3>1, <3>2
  <2>11. Adds(new, n)
    BY <2>2, <2>9, <2>10 DEF Adds, g
  <2> QED BY <2>4, <2>6, <2>11 DEF Tree, new
<1> QED BY <1>1, <1>2

LEMMA NoTreeIsTree ==
  ASSUME NEW P, NEW n PROVE Tree(<<>>, P, n)
<1>1. DOMAIN <<>> = {} /\ <<>> = [p \in DOMAIN <<>> |-> <<>>[p]]
  OBVIOUS
<1> QED BY <1>1, FS_EmptySet DEF Tree, Shape, Adds

\* The started timers are the root and a chain of timers below it.
Chain(tree) ==
  /\ \A p \in DOMAIN tree : p # <<>> /\ Started(tree, p) => Started(tree, Up(p))
  /\ \A p, q \in DOMAIN tree :
       p # <<>> /\ q # <<>> /\ Started(tree, p) /\ Started(tree, q) /\ Up(p) = Up(q) => p = q

LEMMA TickKeepsTree ==
  ASSUME NEW P, NEW n \in Nat, NEW tree, Tree(tree, P, n), Chain(tree)
  PROVE  Tree(tree, P, n + 1)
<1>1. Shape(tree, P) /\ \A p \in DOMAIN tree : Timed(tree[p], n)
  BY DEF Tree
<1>2. \A p \in DOMAIN tree : Timed(tree[p], n + 1)
  BY <1>1 DEF Timed
<1> DEFINE f == Lasts(tree, n)
           g == Lasts(tree, n + 1)
<1>3. \A p \in DOMAIN tree : /\ f[p] \in Nat
                             /\ g[p] = IF Started(tree, p) THEN f[p] + 1 ELSE f[p]
  <2> SUFFICES ASSUME NEW p \in DOMAIN tree
               PROVE  f[p] \in Nat /\ g[p] = IF Started(tree, p) THEN f[p] + 1 ELSE f[p]
    OBVIOUS
  <2>1. f[p] = Lasted(tree[p], n) /\ g[p] = Lasted(tree[p], n + 1) /\ Timed(tree[p], n)
    BY <1>1 DEF Lasts
  <2> HIDE DEF f, g
  <2> QED BY <2>1 DEF Lasted, Timed, Started
<1> HIDE DEF f, g
<1>4. ASSUME NEW p \in DOMAIN tree
      PROVE  SumFunctionOnSet(g, Kids(tree, p)) <= g[p]
  <2> DEFINE S == Kids(tree, p)
  <2>1. IsFiniteSet(S) /\ S \subseteq DOMAIN tree /\ \A q \in S : q # <<>> /\ Up(q) = p
    BY <1>1, KidsFinite DEF Shape, Kids
  <2>2. SumFunctionOnSet(f, S) <= f[p]
    BY DEF Tree, Adds, f
  <2> HIDE DEF S
  <2>3. SumFunctionOnSet(f, S) \in Nat
    BY <1>3, <2>1, SumSplit
  <2>4. CASE \A q \in S : ~Started(tree, q)
    <3>1. SumFunctionOnSet(g, S) = SumFunctionOnSet(f, S)
      BY <1>3, <2>1, <2>4, SumEqual
    <3> QED BY <1>3, <2>2, <2>3, <3>1 DEF S
  <2>5. ASSUME NEW q \in S, Started(tree, q) PROVE SumFunctionOnSet(g, S) <= g[p]
    <3>1. \A r \in S \ {q} : ~Started(tree, r)
      BY <2>1, <2>5 DEF Chain
    <3>2. Started(tree, p)
      BY <2>1, <2>5 DEF Chain
    <3>3. /\ 1 \in Nat /\ \A r \in S : f[r] \in Nat
          /\ g[q] = f[q] + 1 /\ \A r \in S \ {q} : g[r] = f[r]
      BY <1>3, <2>1, <2>5, <3>1
    <3>4. SumFunctionOnSet(g, S) = SumFunctionOnSet(f, S) + 1
      BY <2>1, <3>3, SumOneMore
    <3>5. g[p] = f[p] + 1 /\ f[p] \in Nat
      BY <1>3, <3>2
    <3> QED BY <2>2, <2>3, <3>4, <3>5
  <2> QED BY <2>4, <2>5 DEF S
<1>5. Adds(tree, n + 1)
  BY <1>4 DEF Adds, g
<1> QED BY <1>1, <1>2, <1>5 DEF Tree

\* In a tree without a started timer the totals add up.
LEMMA StoppedTotalsAddUp ==
  ASSUME NEW P, NEW n \in Nat, NEW tree, Tree(tree, P, n),
         \A p \in DOMAIN tree : ~Started(tree, p)
  PROVE  \A p \in DOMAIN tree :
           SumFunctionOnSet(Totals(tree), Kids(tree, p)) <= tree[p].total
<1> SUFFICES ASSUME NEW p \in DOMAIN tree
             PROVE  SumFunctionOnSet(Totals(tree), Kids(tree, p)) <= tree[p].total
  OBVIOUS
<1>1. \A q \in DOMAIN tree : Totals(tree)[q] = Lasts(tree, n)[q]
  BY DEF Totals, Lasts, Lasted, Started
<1>2. IsFiniteSet(Kids(tree, p)) /\ Kids(tree, p) \subseteq DOMAIN tree
  BY KidsFinite DEF Tree, Shape
<1>3. \A q \in DOMAIN tree : Lasts(tree, n)[q] \in Nat
  BY LastsAre
<1>4. SumFunctionOnSet(Totals(tree), Kids(tree, p)) = SumFunctionOnSet(Lasts(tree, n), Kids(tree, p))
  BY <1>1, <1>2, <1>3, SumEqual
<1>5. tree[p].total = Lasts(tree, n)[p]
  BY DEF Lasts, Lasted, Started
<1> QED BY <1>4, <1>5 DEF Tree, Adds

---------------------------------------------------------------------------
(* The samples of one thread. *)

SampleOf(t) == [timer : Paths(t), parent : Nat]
Profiled(s, i) == s[i].timer # <<>>

\* j is the last of the first k samples that is profiled, or 0.
IsLast(s, k, j) ==
  /\ j \in 0 .. k /\ (j > 0 => Profiled(s, j))
  /\ \A i \in j + 1 .. k : ~Profiled(s, i)

\* The timer a sample has its own below.
Above(s, i) == IF s[i].parent = 0 THEN <<>> ELSE s[s[i].parent].timer

Fits(t, s, i) ==
  /\ s[i].parent \in 0 .. i - 1
  /\ Profiled(s, i) =>
       /\ IsLast(s, i - 1, s[i].parent)
       /\ \E name \in Names[t] : s[i].timer = Append(Above(s, i), name)

Deeper(s, i) == \A j \in 1 .. i - 1 : Profiled(s, i) /\ Profiled(s, j) =>
                   Len(s[j].timer) < Len(s[i].timer)

Samples(t, s) ==
  /\ s \in Seq(SampleOf(t)) /\ Len(s) <= MaxDepth[t]
  /\ \A i \in 1 .. Len(s) : Fits(t, s, i) /\ Deeper(s, i) /\ Len(s[i].timer) <= i

\* The samples after one was opened, closed or changed.
Extends(r, s, m) == /\ Len(r) \in {m, m + 1} /\ \A i \in 1 .. m : r[i] = s[i]

LEMMA LastSame ==
  ASSUME NEW s, NEW r, NEW m \in Nat, \A i \in 1 .. m : Profiled(r, i) <=> Profiled(s, i),
         NEW j
  PROVE  IsLast(r, m, j) <=> IsLast(s, m, j)
BY DEF IsLast

LEMMA SamplesExtend ==
  ASSUME NEW t \in Threads, NEW s, Samples(t, s), NEW m \in 0 .. Len(s),
         NEW r \in Seq(SampleOf(t)), Len(r) <= MaxDepth[t], Extends(r, s, m),
         Len(r) = m + 1 => Fits(t, r, m + 1) /\ Deeper(r, m + 1) /\ Len(r[m + 1].timer) <= m + 1
  PROVE  Samples(t, r)
<1>1. s \in Seq(SampleOf(t)) /\ m \in Nat /\ Len(s) \in Nat
  BY DEF Samples
<1>2. ASSUME NEW i \in 1 .. m
      PROVE  Fits(t, r, i) /\ Deeper(r, i) /\ Len(r[i].timer) <= i
  <2>1. /\ Fits(t, s, i) /\ Deeper(s, i) /\ Len(s[i].timer) <= i /\ i \in Nat
        /\ \A j \in 1 .. i : r[j] = s[j]
    BY <1>1 DEF Samples, Extends
  <2>2. Deeper(r, i)
    <3> SUFFICES ASSUME NEW j \in 1 .. i - 1, Profiled(r, i), Profiled(r, j)
                 PROVE  Len(r[j].timer) < Len(r[i].timer)
      BY DEF Deeper
    <3>1. r[j] = s[j] /\ r[i] = s[i]
      BY <1>1, <2>1
    <3>2. Profiled(s, i) /\ Profiled(s, j)
      BY <3>1 DEF Profiled
    <3> QED BY <2>1, <3>1, <3>2 DEF Deeper
  <2>3. s[i].parent \in 0 .. i - 1 /\ r[i] = s[i]
    BY <2>1 DEF Fits
  <2>4. Above(r, i) = Above(s, i)
    BY <2>1, <2>3 DEF Above
  <2>5. IsLast(s, i - 1, s[i].parent) => IsLast(r, i - 1, s[i].parent)
    BY <2>1, LastSame DEF Profiled
  <2>6. Fits(t, r, i)
    BY <2>1, <2>3, <2>4, <2>5 DEF Fits, Profiled
  <2> QED BY <2>1, <2>2, <2>6
<1>3. \A i \in 1 .. Len(r) : i \in 1 .. m \/ (i = m + 1 /\ Len(r) = m + 1)
  BY <1>1 DEF Extends
<1> QED BY <1>2, <1>3 DEF Samples

\* Sample::Sample puts a sample without a timer on top,
LEMMA OpenKeepsSamples ==
  ASSUME DiagnosticsAssumption, NEW t \in Threads, NEW s, Samples(t, s), Len(s) < MaxDepth[t]
  PROVE  LET r == Append(s, [timer |-> NoTimer, parent |-> 0]) IN
         /\ Samples(t, r) /\ Extends(r, s, Len(s)) /\ Len(r) = Len(s) + 1
         /\ r[Len(r)].timer = <<>>
<1> DEFINE x == [timer |-> NoTimer, parent |-> 0]
           r == Append(s, x)
<1>1. x \in SampleOf(t) /\ x.timer = <<>> /\ x.parent = 0
  BY RootIsPath DEF SampleOf, NoTimer
<1> HIDE DEF x
<1>2. s \in Seq(SampleOf(t)) /\ Len(s) \in Nat /\ MaxDepth[t] \in Nat
  BY PathIs DEF Samples
<1>3. /\ r \in Seq(SampleOf(t)) /\ Len(r) = Len(s) + 1 /\ r[Len(r)] = x
      /\ \A i \in 1 .. Len(s) : r[i] = s[i]
  BY <1>1, <1>2
<1> HIDE DEF r
<1>4. Extends(r, s, Len(s)) /\ Len(s) \in 0 .. Len(s)
  BY <1>2, <1>3 DEF Extends
<1>5. ~Profiled(r, Len(r)) /\ r[Len(r)].parent = 0 /\ Len(r[Len(r)].timer) = 0
  BY <1>1, <1>3, RootIsPath DEF Profiled
<1>6. Fits(t, r, Len(r)) /\ Deeper(r, Len(r)) /\ Len(r[Len(r)].timer) <= Len(r)
  BY <1>2, <1>3, <1>5 DEF Fits, Deeper
<1>7. Len(r) <= MaxDepth[t]
  BY <1>2, <1>3
<1>8. Samples(t, r)
  BY <1>2, <1>3, <1>4, <1>6, <1>7, SamplesExtend
<1> QED BY <1>1, <1>3, <1>4, <1>8 DEF r, x

\* and ~Sample takes it away.
LEMMA CloseKeepsSamples ==
  ASSUME DiagnosticsAssumption, NEW t \in Threads, NEW s, Samples(t, s), Len(s) > 0
  PROVE  LET r == SubSeq(s, 1, Len(s) - 1) IN
         Samples(t, r) /\ Extends(r, s, Len(s) - 1) /\ Len(r) = Len(s) - 1
<1> DEFINE r == SubSeq(s, 1, Len(s) - 1)
<1>1. s \in Seq(SampleOf(t)) /\ Len(s) \in Nat /\ MaxDepth[t] \in Nat /\ Len(s) <= MaxDepth[t]
  BY PathIs DEF Samples
<1>2. Len(s) - 1 \in 0 .. Len(s)
  BY <1>1
<1>3. /\ r \in Seq(SampleOf(t)) /\ Len(r) = Len(s) - 1
      /\ \A i \in 1 .. Len(s) - 1 : r[i] = s[i]
  BY <1>1, <1>2, FirstOnes
<1> HIDE DEF r
<1>4. Extends(r, s, Len(s) - 1)
  BY <1>3 DEF Extends
<1>5. Len(r) <= MaxDepth[t] /\ Len(r) # (Len(s) - 1) + 1
  BY <1>1, <1>3
<1>6. Samples(t, r)
  BY <1>2, <1>3, <1>4, <1>5, SamplesExtend
<1> QED BY <1>3, <1>4, <1>6 DEF r

\* The parent of the sample on top is set.
LEMMA ParentKeepsSamples ==
  ASSUME DiagnosticsAssumption, NEW t \in Threads, NEW s, Samples(t, s), Len(s) > 0,
         ~Profiled(s, Len(s)), NEW j, IsLast(s, Len(s), j)
  PROVE  LET r == [s EXCEPT ![Len(s)].parent = j] IN
         /\ Samples(t, r) /\ Extends(r, s, Len(s) - 1) /\ Len(r) = Len(s)
         /\ r[Len(r)].timer = <<>> /\ r[Len(r)].parent = j /\ j <= Len(s) - 1
<1> DEFINE n == Len(s)
           r == [s EXCEPT ![n].parent = j]
<1>1. s \in Seq(SampleOf(t)) /\ n \in Nat /\ n > 0 /\ n <= MaxDepth[t]
  BY DEF Samples
<1>2. j \in 0 .. n - 1
  <2>1. j \in 0 .. n /\ j # n
    BY <1>1 DEF IsLast
  <2> QED BY <1>1, <2>1
<1>3. s[n] \in SampleOf(t) /\ [s[n] EXCEPT !.parent = j] \in SampleOf(t)
        /\ [s[n] EXCEPT !.parent = j].timer = s[n].timer
        /\ [s[n] EXCEPT !.parent = j].parent = j
  <2>1. s[n] \in SampleOf(t)
    BY <1>1
  <2>2. j \in Nat
    BY <1>1, <1>2
  <2> HIDE DEF n
  <2> QED BY <2>1, <2>2 DEF SampleOf
<1>4. /\ r \in Seq(SampleOf(t)) /\ Len(r) = n /\ r[n] = [s[n] EXCEPT !.parent = j]
      /\ \A i \in 1 .. n - 1 : r[i] = s[i]
  <2> DEFINE x == [s[n] EXCEPT !.parent = j]
  <2>1. r = [s EXCEPT ![n] = x]
    OBVIOUS
  <2>2. x \in SampleOf(t)
    BY <1>3
  <2> HIDE DEF x, r
  <2>3. r \in Seq(SampleOf(t)) /\ Len(r) = n /\ r[n] = x /\ \A i \in 1 .. n - 1 : r[i] = s[i]
    BY <1>1, <2>1, <2>2
  <2> QED BY <2>3 DEF x
<1>5. r[n].timer = <<>> /\ r[n].parent = j
  BY <1>3, <1>4 DEF Profiled
<1> HIDE DEF r, n
<1>6. Extends(r, s, n - 1) /\ n - 1 \in 0 .. Len(s) /\ (n - 1) + 1 = n
  BY <1>1, <1>4 DEF Extends, n
<1>7. Len(r[n].timer) = 0
  BY <1>5, RootIsPath
<1>8. Fits(t, r, n) /\ Deeper(r, n) /\ Len(r[n].timer) <= n
  BY <1>1, <1>2, <1>5, <1>7 DEF Fits, Deeper, Profiled
<1>9. Samples(t, r)
  BY <1>1, <1>4, <1>6, <1>8, SamplesExtend
<1> QED BY <1>1, <1>2, <1>4, <1>5, <1>6, <1>9 DEF r, n

Begun(s, path) == [s EXCEPT ![Len(s)].timer = path]

\* The sample on top gets a timer below the timer of its parent.
LEMMA StartKeepsSamples ==
  ASSUME DiagnosticsAssumption, NEW t \in Threads, NEW s, Samples(t, s), Len(s) > 0,
         ~Profiled(s, Len(s)), IsLast(s, Len(s) - 1, s[Len(s)].parent), NEW name \in Names[t]
  PROVE  LET path == Append(Above(s, Len(s)), name)
             r == Begun(s, path) IN
         /\ Samples(t, r) /\ Extends(r, s, Len(s) - 1) /\ Len(r) = Len(s)
         /\ r[Len(r)].timer = path /\ r[Len(r)].parent = s[Len(s)].parent
         /\ path \in Paths(t) /\ path # <<>> /\ Up(path) = Above(s, Len(s))
<1> DEFINE n == Len(s)
           j == s[n].parent
           above == Above(s, n)
           path == Append(above, name)
           r == Begun(s, path)
<1>1. /\ s \in Seq(SampleOf(t)) /\ n \in Nat /\ n > 0 /\ n <= MaxDepth[t]
      /\ MaxDepth[t] \in Nat /\ s[n] \in SampleOf(t)
  BY PathIs DEF Samples
<1>2. j \in 0 .. n - 1
  BY DEF IsLast
<1>3. above \in Paths(t) /\ Len(above) \in Nat /\ Len(above) <= n - 1
  <2>1. CASE j = 0
    BY <1>1, <2>1, RootIsPath DEF Above
  <2>2. CASE j # 0
    <3>1. j \in 1 .. Len(s) /\ j <= n - 1 /\ j \in Nat
      BY <1>1, <1>2, <2>2
    <3>2. s[j] \in SampleOf(t) /\ Len(s[j].timer) <= j
      BY <1>1, <3>1 DEF Samples
    <3>3. s[j].timer \in Paths(t)
      BY <3>2 DEF SampleOf
    <3>4. Len(s[j].timer) \in Nat
      BY <3>3, PathIs
    <3>5. above = s[j].timer
      BY <2>2 DEF Above
    <3> QED BY <1>1, <3>1, <3>2, <3>3, <3>4, <3>5
  <2> QED BY <2>1, <2>2
<1> HIDE DEF above
<1>4. /\ Len(path) = Len(above) + 1 /\ path # <<>> /\ Up(path) = above
      /\ Len(above) < MaxDepth[t] => path \in Paths(t)
  BY <1>3, PathBelow
<1>5. path \in Paths(t) /\ Len(path) <= n /\ Len(path) \in Nat
  BY <1>1, <1>3, <1>4
<1> HIDE DEF path
<1> DEFINE x == [s[n] EXCEPT !.timer = path]
<1>6. x \in SampleOf(t) /\ x.timer = path /\ x.parent = j
  <2> DEFINE y == s[n]
  <2>1. y \in SampleOf(t)
    BY <1>1
  <2> HIDE DEF y
  <2>2. [y EXCEPT !.timer = path] \in SampleOf(t) /\ [y EXCEPT !.timer = path].timer = path
          /\ [y EXCEPT !.timer = path].parent = y.parent
    BY <1>5, <2>1 DEF SampleOf
  <2> QED BY <2>2 DEF y
<1>7. /\ r \in Seq(SampleOf(t)) /\ Len(r) = n /\ r[n] = x
      /\ \A i \in 1 .. n - 1 : r[i] = s[i]
  <2>1. r = [s EXCEPT ![n] = x]
    BY DEF Begun
  <2> HIDE DEF x, r
  <2> QED BY <1>1, <1>6, <2>1
<1> HIDE DEF x, r
<1>8. Above(r, n) = above
  <2>1. CASE j = 0
    BY <1>6, <1>7, <2>1 DEF Above, above
  <2>2. CASE j # 0
    <3>1. j \in 1 .. n - 1
      BY <1>2, <2>2
    <3> QED BY <1>6, <1>7, <2>2, <3>1 DEF Above, above
  <2> QED BY <2>1, <2>2
<1> HIDE DEF j
<1>9. IsLast(r, n - 1, j)
  <2>1. n - 1 \in Nat /\ \A i \in 1 .. n - 1 : Profiled(r, i) <=> Profiled(s, i)
    BY <1>1, <1>7 DEF Profiled
  <2> QED BY <2>1, LastSame DEF j
<1>10. Fits(t, r, n)
  BY <1>2, <1>6, <1>7, <1>8, <1>9 DEF Fits, path
<1>11. Deeper(r, n)
  <2> SUFFICES ASSUME NEW i \in 1 .. n - 1, Profiled(s, i) PROVE Len(s[i].timer) < Len(path)
    BY <1>6, <1>7 DEF Deeper, Profiled
  <2>1. i <= j /\ j # 0
    <3>1. ~(i \in j + 1 .. n - 1)
      BY DEF IsLast, j
    <3> QED BY <1>1, <1>2, <3>1
  <2>2. i \in 1 .. Len(s) /\ s[i].timer \in Paths(t)
    <3>1. i \in 1 .. Len(s)
      BY <1>1
    <3>2. s[i] \in SampleOf(t)
      BY <1>1, <3>1
    <3> QED BY <3>1, <3>2 DEF SampleOf
  <2>3. Len(s[i].timer) \in Nat
    BY <2>2, PathIs
  <2>4. above = s[j].timer
    BY <2>1 DEF above, j, Above
  <2>5. CASE i = j
    BY <1>3, <1>4, <2>3, <2>4, <2>5
  <2>6. CASE i # j
    <3>1. i \in 1 .. j - 1 /\ j \in 1 .. Len(s)
      BY <1>1, <1>2, <2>1, <2>6
    <3>2. Profiled(s, j)
      BY <1>2, <2>1 DEF IsLast, j
    <3>3. Len(s[i].timer) < Len(s[j].timer)
      BY <3>1, <3>2 DEF Samples, Deeper
    <3> QED BY <1>3, <1>4, <2>3, <2>4, <3>3
  <2> QED BY <2>5, <2>6
<1>12. Extends(r, s, n - 1) /\ n - 1 \in 0 .. Len(s) /\ (n - 1) + 1 = n
  BY <1>1, <1>7 DEF Extends, n
<1>13. Samples(t, r)
  BY <1>1, <1>5, <1>6, <1>7, <1>10, <1>11, <1>12, SamplesExtend
<1> QED BY <1>4, <1>5, <1>6, <1>7, <1>12, <1>13 DEF r, path, above, n, j

---------------------------------------------------------------------------
(* The samples, the place in the program and the tree of one thread. *)

\* What m_mapCurrentSample points to.
Pointer(s, at, c) ==
  /\ at \in {"get", "set", "root", "start"} => Len(s) > 0 /\ ~Profiled(s, Len(s))
  /\ at = "restore" => Len(s) > 0 /\ Profiled(s, Len(s))
  /\ at \in {"root", "start", "restore"} => c = Len(s)
  /\ at \notin {"root", "start", "restore"} => IsLast(s, Len(s), c)
  /\ at = "set" => s[Len(s)].parent = c
  /\ at \in {"root", "start"} => IsLast(s, Len(s) - 1, s[Len(s)].parent)
  /\ at = "root" => s[Len(s)].parent = 0

\* The samples whose timers run: all but the one that is being closed.
Live(s, at) == IF at = "restore" THEN Len(s) - 1 ELSE Len(s)
Runs(s, at, p) == \E i \in 1 .. Live(s, at) : s[i].timer = p

Clocked(s, at, tree) ==
  /\ \A i \in 1 .. Len(s) : Profiled(s, i) => s[i].timer \in DOMAIN tree
  /\ \A p \in DOMAIN tree : p # <<>> => (Started(tree, p) <=> Runs(s, at, p))
  /\ at = "start" => <<>> \in DOMAIN tree

Local(t, s, at, c, tree, n) ==
  Samples(t, s) /\ Pointer(s, at, c) /\ Tree(tree, Paths(t), n) /\ Clocked(s, at, tree)

LEMMA ClockedIsChain ==
  ASSUME DiagnosticsAssumption, NEW t \in Threads, NEW s, NEW at, NEW tree,
         Samples(t, s), Shape(tree, Paths(t)), Clocked(s, at, tree),
         Len(s) > 0 /\ <<>> \in DOMAIN tree => Started(tree, <<>>)
  PROVE  Chain(tree)
<1>1. s \in Seq(SampleOf(t)) /\ Len(s) \in Nat
  BY DEF Samples
<1>2. ASSUME NEW p \in DOMAIN tree, p # <<>>, Started(tree, p)
      PROVE  \E i \in 1 .. Len(s) : i <= Live(s, at) /\ s[i].timer = p
  <2>1. PICK i \in 1 .. Live(s, at) : s[i].timer = p
    BY <1>2 DEF Clocked, Runs
  <2>2. i \in 1 .. Len(s) /\ i <= Live(s, at)
    BY <1>1 DEF Live
  <2> QED BY <2>1, <2>2
<1>3. ASSUME NEW p \in DOMAIN tree, p # <<>>, Started(tree, p)
      PROVE  Started(tree, Up(p))
  <2>1. PICK i \in 1 .. Len(s) : i <= Live(s, at) /\ s[i].timer = p
    BY <1>2, <1>3
  <2>2. Fits(t, s, i) /\ Profiled(s, i)
    BY <1>3, <2>1 DEF Samples, Profiled
  <2>3. PICK name \in Names[t] : p = Append(Above(s, i), name)
    BY <2>1, <2>2 DEF Fits
  <2>4. CASE s[i].parent = 0
    <3>1. Up(p) = <<>>
      BY <2>3, <2>4, RootIsPath, PathBelow DEF Above
    <3>2. <<>> \in DOMAIN tree /\ Len(s) > 0
      BY <1>1, <2>1 DEF Shape
    <3> QED BY <3>1, <3>2
  <2>5. CASE s[i].parent # 0
    <3> DEFINE j == s[i].parent
    <3>1. j \in 1 .. i - 1 /\ IsLast(s, i - 1, j)
      BY <2>2, <2>5 DEF Fits
    <3>2. j \in 1 .. Len(s) /\ j <= Live(s, at) /\ Profiled(s, j)
      BY <1>1, <2>1, <3>1 DEF IsLast, Live
    <3>3. s[j].timer \in DOMAIN tree /\ s[j].timer # <<>>
      BY <3>2 DEF Clocked, Profiled
    <3>4. j \in 1 .. Live(s, at)
      BY <1>1, <3>2 DEF Live
    <3>5. Started(tree, s[j].timer)
      BY <3>3, <3>4 DEF Clocked, Runs
    <3>6. Above(s, i) = s[j].timer /\ s[j].timer \in Paths(t)
      <4>1. s[j] \in SampleOf(t)
        BY <1>1, <3>2
      <4>2. s[j].timer \in Paths(t)
        BY <4>1 DEF SampleOf
      <4> QED BY <2>5, <4>2 DEF Above
    <3>7. Up(p) = s[j].timer
      BY <2>3, <3>6, PathBelow
    <3> QED BY <3>5, <3>7
  <2> QED BY <2>4, <2>5
<1>4. ASSUME NEW p \in DOMAIN tree, NEW q \in DOMAIN tree, p # <<>>, q # <<>>,
             Started(tree, p), Started(tree, q), Up(p) = Up(q)
      PROVE  p = q
  <2>1. PICK i \in 1 .. Len(s) : s[i].timer = p
    BY <1>2, <1>4
  <2>2. PICK j \in 1 .. Len(s) : s[j].timer = q
    BY <1>2, <1>4
  <2>3. p \in Paths(t) /\ q \in Paths(t)
    BY DEF Shape
  <2>4. Len(p) \in Nat /\ Len(q) \in Nat /\ Len(p) = Len(q)
    <3>1. Len(p) \in Nat /\ Len(Up(p)) = Len(p) - 1
      BY <1>4, <2>3, PathUp
    <3>2. Len(q) \in Nat /\ Len(Up(q)) = Len(q) - 1
      BY <1>4, <2>3, PathUp
    <3> QED BY <1>4, <3>1, <3>2
  <2>5. Profiled(s, i) /\ Profiled(s, j) /\ Deeper(s, i) /\ Deeper(s, j)
    BY <1>4, <2>1, <2>2 DEF Profiled, Samples
  <2>6. ~(i \in 1 .. j - 1) /\ ~(j \in 1 .. i - 1)
    BY <2>1, <2>2, <2>4, <2>5 DEF Deeper
  <2>7. i = j
    BY <2>6
  <2> QED BY <2>1, <2>2, <2>7
<1> QED BY <1>3, <1>4 DEF Chain

---------------------------------------------------------------------------
(* The steps of one thread. *)

Calm == {"run", "format", "header", "text", "delete"}

\* Steps outside the constructors and destructors of the samples.
LEMMA CalmKeepsLocal ==
  ASSUME NEW t, NEW s, NEW c, NEW tree, NEW n, NEW at \in Calm, NEW to \in Calm,
         Local(t, s, at, c, tree, n)
  PROVE  Local(t, s, to, c, tree, n)
BY DEF Calm, Local, Pointer, Clocked, Runs, Live

LEMMA SamplesLen == 
  ASSUME NEW t, NEW s, Samples(t, s) PROVE Len(s) \in Nat
BY DEF Samples

LEMMA OpenKeepsLocal ==
  ASSUME DiagnosticsAssumption, NEW t \in Threads, NEW s, NEW c, NEW tree, NEW n,
         Local(t, s, "run", c, tree, n), Len(s) < MaxDepth[t], NEW to \in {"get", "run"}
  PROVE  Local(t, Append(s, [timer |-> NoTimer, parent |-> 0]), to, c, tree, n)
<1> DEFINE r == Append(s, [timer |-> NoTimer, parent |-> 0])
<1>1. Len(s) \in Nat
  BY SamplesLen DEF Local
<1>2. /\ Samples(t, r) /\ Extends(r, s, Len(s)) /\ Len(r) = Len(s) + 1
      /\ r[Len(r)].timer = <<>>
  BY OpenKeepsSamples DEF Local
<1> HIDE DEF r
<1>3. \A i \in 1 .. Len(s) : r[i] = s[i]
  BY <1>2 DEF Extends
<1>4. Pointer(r, to, c)
  <2>1. IsLast(s, Len(s), c)
    BY DEF Local, Pointer
  <2>2. IsLast(r, Len(s), c)
    BY <1>1, <1>3, <2>1, LastSame DEF Profiled
  <2>3. IsLast(r, Len(r), c) /\ ~Profiled(r, Len(r)) /\ Len(r) > 0
    BY <1>1, <1>2, <2>2 DEF IsLast, Profiled
  <2> QED BY <2>3 DEF Pointer
<1>5. \A i \in 1 .. Len(r) : Profiled(r, i) => i \in 1 .. Len(s) /\ Profiled(s, i)
  <2> SUFFICES ASSUME NEW i \in 1 .. Len(r), Profiled(r, i) PROVE i \in 1 .. Len(s) /\ Profiled(s, i)
    OBVIOUS
  <2>1. i # Len(r)
    BY <1>2 DEF Profiled
  <2>2. i \in 1 .. Len(s)
    BY <1>1, <1>2, <2>1
  <2> QED BY <1>3, <2>2 DEF Profiled
<1>6. \A p : p # <<>> => (Runs(r, to, p) <=> Runs(s, "run", p))
  <2>1. Live(r, to) = Len(r) /\ Live(s, "run") = Len(s)
    BY DEF Live
  <2>2. \A i \in 1 .. Len(s) : i \in 1 .. Len(r)
    BY <1>1, <1>2
  <2> QED BY <1>3, <1>5, <2>1, <2>2 DEF Runs, Profiled
<1>7. Clocked(r, to, tree)
  BY <1>3, <1>5, <1>6 DEF Clocked, Local
<1> QED BY <1>2, <1>4, <1>7 DEF Local, r

LEMMA GetCurrentKeepsLocal ==
  ASSUME DiagnosticsAssumption, NEW t \in Threads, NEW s, NEW c, NEW tree, NEW n,
         Local(t, s, "get", c, tree, n)
  PROVE  Local(t, [s EXCEPT ![Len(s)].parent = c], "set", c, tree, n)
<1> DEFINE r == [s EXCEPT ![Len(s)].parent = c]
<1>1. Len(s) \in Nat
  BY SamplesLen DEF Local
<1>2. Len(s) > 0 /\ ~Profiled(s, Len(s)) /\ IsLast(s, Len(s), c)
  BY DEF Local, Pointer
<1>3. /\ Samples(t, r) /\ Extends(r, s, Len(s) - 1) /\ Len(r) = Len(s)
      /\ r[Len(r)].timer = <<>> /\ r[Len(r)].parent = c
  BY <1>2, ParentKeepsSamples DEF Local
<1> HIDE DEF r
<1>4. \A i \in 1 .. Len(s) : r[i].timer = s[i].timer
  <2> SUFFICES ASSUME NEW i \in 1 .. Len(s) PROVE r[i].timer = s[i].timer
    OBVIOUS
  <2>1. CASE i = Len(s)
    BY <1>2, <1>3, <2>1 DEF Profiled
  <2>2. CASE i # Len(s)
    BY <1>1, <1>3, <2>2 DEF Extends
  <2> QED BY <2>1, <2>2
<1>5. Pointer(r, "set", c)
  <2>1. IsLast(r, Len(r), c)
    BY <1>1, <1>2, <1>3, <1>4, LastSame DEF Profiled
  <2> QED BY <1>2, <1>3, <2>1 DEF Pointer, Profiled
<1>6. Clocked(r, "set", tree)
  <2>1. Live(r, "set") = Len(s) /\ Live(s, "get") = Len(s)
    BY <1>3 DEF Live
  <2>2. \A p : Runs(r, "set", p) <=> Runs(s, "get", p)
    BY <1>4, <2>1 DEF Runs
  <2>3. \A i \in 1 .. Len(s) : Profiled(r, i) => r[i].timer \in DOMAIN tree
    BY <1>4 DEF Local, Clocked, Profiled
  <2> QED BY <1>3, <2>2, <2>3 DEF Clocked, Local
<1> QED BY <1>3, <1>5, <1>6 DEF Local, r

LEMMA SetCurrentKeepsLocal ==
  ASSUME NEW t, NEW s, NEW c, NEW tree, NEW n, Local(t, s, "set", c, tree, n)
  PROVE  Local(t, s, IF s[Len(s)].parent = 0 THEN "root" ELSE "start", Len(s), tree, n)
<1> DEFINE to == IF s[Len(s)].parent = 0 THEN "root" ELSE "start"
<1>1. Len(s) \in Nat
  BY SamplesLen DEF Local
<1>2. /\ Len(s) > 0 /\ ~Profiled(s, Len(s)) /\ IsLast(s, Len(s), c)
      /\ s[Len(s)].parent = c
  BY DEF Local, Pointer
<1>3. IsLast(s, Len(s) - 1, c)
  <2>1. c # Len(s)
    BY <1>1, <1>2 DEF IsLast
  <2>2. \A i : i \in c + 1 .. Len(s) - 1 => i \in c + 1 .. Len(s)
    BY <1>1, <1>2 DEF IsLast
  <2>3. c \in 0 .. Len(s) - 1
    BY <1>1, <1>2, <2>1 DEF IsLast
  <2> QED BY <1>2, <2>2, <2>3 DEF IsLast
<1>4. Pointer(s, to, Len(s))
  BY <1>2, <1>3 DEF Pointer
<1>5. s[Len(s)].parent # 0 => <<>> \in DOMAIN tree
  <2> SUFFICES ASSUME c # 0 PROVE <<>> \in DOMAIN tree
    BY <1>2
  <2>1. c \in 1 .. Len(s) /\ Profiled(s, c)
    BY <1>1, <1>2 DEF IsLast
  <2> QED BY <2>1 DEF Local, Clocked, Tree, Shape
<1>6. Clocked(s, to, tree)
  BY <1>5 DEF Local, Clocked, Runs, Live
<1> QED BY <1>4, <1>6 DEF Local

LEMMA RootKeepsLocal ==
  ASSUME DiagnosticsAssumption, NEW t \in Threads, NEW s, NEW c, NEW tree,
         now \in Nat \ {0}, Local(t, s, "root", c, tree, now)
  PROVE  LET new == IF HasTimer(tree, <<>>) THEN tree
                    ELSE StartTimer(GetTimer(tree, <<>>), <<>>) IN
         /\ Local(t, s, "start", c, new, now) /\ HasTimer(new, <<>>)
         /\ ~HasTimer(tree, <<>>) => Started(new, <<>>)
<1>1. Pointer(s, "start", c)
  BY DEF Local, Pointer
<1>2. CASE HasTimer(tree, <<>>)
  <2>1. Clocked(s, "start", tree)
    BY <1>2 DEF Local, Clocked, Runs, Live, HasTimer
  <2> QED BY <1>1, <1>2, <2>1 DEF Local
<1>3. CASE ~HasTimer(tree, <<>>)
  <2> DEFINE mid == GetTimer(tree, <<>>)
             new == StartTimer(mid, <<>>)
  <2>1. DOMAIN tree = {}
    BY <1>3 DEF Local, Tree, Shape, HasTimer
  <2>2. Tree(mid, Paths(t), now)
    BY RootIsPath, GetKeepsTree DEF Local
  <2>3. DOMAIN mid = {<<>>} /\ mid[<<>>] = Stopped
    BY <2>1 DEF GetTimer, HasTimer
  <2>4. Tree(new, Paths(t), now)
    BY <2>2, <2>3, StartKeepsTree
  <2>5. DOMAIN new = {<<>>} /\ Started(new, <<>>)
    <3> HIDE DEF mid
    <3>1. mid[<<>>].start = 0 /\ mid = [p \in {<<>>} |-> Stopped]
      BY <2>2, <2>3 DEF Stopped, Tree, Shape
    <3>2. ~Started(mid, <<>>)
      BY <3>1 DEF Started
    <3>3. new = [mid EXCEPT ![<<>>].start = now]
      BY <3>2 DEF StartTimer
    <3>4. new[<<>>].start = now
      BY <3>1, <3>3 DEF Stopped
    <3> QED BY <3>1, <3>3, <3>4 DEF Started
  <2> HIDE DEF new
  <2>6. Clocked(s, "start", new)
    BY <2>1, <2>5 DEF Local, Clocked
  <2> QED BY <1>1, <1>3, <2>4, <2>5, <2>6 DEF Local, HasTimer, new
<1> QED BY <1>2, <1>3

\* getTimer and startTimer of a timer that is not started.
LEMMA StartTimerIs ==
  ASSUME NEW P, now \in Nat \ {0}, NEW tree, Tree(tree, P, now), NEW path \in DOMAIN tree,
         ~Started(tree, path)
  PROVE  LET new == StartTimer(tree, path) IN
         /\ DOMAIN new = DOMAIN tree /\ Started(new, path)
         /\ \A q \in DOMAIN tree : q # path => new[q] = tree[q]
<1> DEFINE new == StartTimer(tree, path)
           x == [tree[path] EXCEPT !.start = now]
<1>1. new = [tree EXCEPT ![path] = x]
  BY DEF StartTimer
<1>2. tree = [q \in DOMAIN tree |-> tree[q]] /\ Timed(tree[path], now)
  BY DEF Tree, Shape
<1>3. x.start = now
  BY <1>2 DEF Timed
<1> HIDE DEF x, new
<1>4. /\ DOMAIN new = DOMAIN tree /\ new[path] = x
      /\ \A q \in DOMAIN tree : q # path => new[q] = tree[q]
  BY <1>1, <1>2
<1> QED BY <1>3, <1>4 DEF Started, new

LEMMA StopTimerIs ==
  ASSUME NEW P, NEW tree, Tree(tree, P, now), NEW path \in DOMAIN tree, Started(tree, path)
  PROVE  LET new == StopTimer(tree, path) IN
         /\ DOMAIN new = DOMAIN tree /\ ~Started(new, path)
         /\ \A q \in DOMAIN tree : q # path => new[q] = tree[q]
<1> DEFINE new == StopTimer(tree, path)
           x == [start |-> 0, total |-> tree[path].total + now - tree[path].start]
<1>1. new = [tree EXCEPT ![path] = x]
  BY DEF StopTimer
<1>2. tree = [q \in DOMAIN tree |-> tree[q]]
  BY DEF Tree, Shape
<1>3. x.start = 0
  OBVIOUS
<1> HIDE DEF x, new
<1>4. /\ DOMAIN new = DOMAIN tree /\ new[path] = x
      /\ \A q \in DOMAIN tree : q # path => new[q] = tree[q]
  BY <1>1, <1>2
<1> QED BY <1>3, <1>4 DEF Started, new

LEMMA StartKeepsLocal ==
  ASSUME DiagnosticsAssumption, NEW t \in Threads, NEW s, NEW c, NEW tree,
         now \in Nat \ {0}, Local(t, s, "start", c, tree, now), NEW name \in Names[t]
  PROVE  LET path == Append(Above(s, Len(s)), name)
             got == GetTimer(tree, path)
             new == StartTimer(got, path) IN
         /\ Local(t, Begun(s, path), "run", c, new, now)
         /\ ~Started(got, path) /\ HasTimer(tree, <<>>) /\ HasTimer(new, <<>>)
         /\ Started(new, <<>>) <=> Started(tree, <<>>)
<1> DEFINE n == Len(s)
           j == s[n].parent
           path == Append(Above(s, n), name)
           r == Begun(s, path)
           got == GetTimer(tree, path)
           new == StartTimer(got, path)
<1>1. n \in Nat
  BY SamplesLen DEF Local
<1>2. /\ n > 0 /\ ~Profiled(s, n) /\ c = n /\ IsLast(s, n - 1, j)
      /\ <<>> \in DOMAIN tree /\ Samples(t, s)
  BY DEF Local, Pointer, Clocked
<1>3. /\ Samples(t, r) /\ Extends(r, s, n - 1) /\ Len(r) = n
      /\ r[n].timer = path /\ path \in Paths(t) /\ path # <<>> /\ Up(path) = Above(s, n)
  <2>1. /\ Samples(t, s) /\ Len(s) > 0 /\ ~Profiled(s, Len(s))
        /\ IsLast(s, Len(s) - 1, s[Len(s)].parent)
    BY <1>2
  <2> QED BY <2>1, StartKeepsSamples
<1>4. Above(s, n) \in DOMAIN tree
  <2>1. CASE j = 0
    BY <1>2, <2>1 DEF Above
  <2>2. CASE j # 0
    <3>1. j \in 1 .. Len(s) /\ Profiled(s, j)
      BY <1>1, <1>2, <2>2 DEF IsLast
    <3> QED BY <2>2, <3>1 DEF Above, Local, Clocked
  <2> QED BY <2>1, <2>2
<1> HIDE DEF path, r, j
<1>5. \A i \in 1 .. n : i # n => r[i] = s[i]
  BY <1>1, <1>3 DEF Extends
<1>6. \A i \in 1 .. n : s[i].timer # path
  <2> SUFFICES ASSUME NEW i \in 1 .. n, s[i].timer = path PROVE FALSE
    OBVIOUS
  <2>1. i # n
    BY <1>2, <1>3 DEF Profiled
  <2>2. Deeper(r, n) /\ i \in 1 .. n - 1 /\ Profiled(r, i) /\ Profiled(r, n)
    BY <1>1, <1>2, <1>3, <1>5, <2>1 DEF Samples, Profiled
  <2>3. Len(path) < Len(path) /\ Len(path) \in Nat
    BY <1>3, <1>5, <2>1, <2>2, PathIs DEF Deeper
  <2> QED BY <2>3
<1>7. ~Started(got, path)
  <2>1. CASE path \in DOMAIN tree
    <3>1. ~Runs(s, "start", path)
      BY <1>6 DEF Runs, Live
    <3> QED BY <1>3, <2>1, <3>1 DEF Local, Clocked, GetTimer, HasTimer
  <2>2. CASE path \notin DOMAIN tree
    BY <2>2 DEF GetTimer, HasTimer, Started, Stopped
  <2> QED BY <2>1, <2>2
<1>8. /\ DOMAIN got = DOMAIN tree \cup {path}
      /\ \A q \in DOMAIN tree : q # path => got[q] = tree[q]
  BY DEF GetTimer, HasTimer
<1>9. Tree(got, Paths(t), now)
  BY <1>3, <1>4, GetKeepsTree DEF Local
<1> HIDE DEF got
<1>10. Tree(new, Paths(t), now)
  BY <1>8, <1>9, StartKeepsTree
<1>11. /\ DOMAIN new = DOMAIN got /\ Started(new, path)
       /\ \A q \in DOMAIN got : q # path => new[q] = got[q]
  BY <1>7, <1>8, <1>9, StartTimerIs
<1> HIDE DEF new
<1>12. \A q \in DOMAIN tree : q # path => new[q] = tree[q]
  BY <1>8, <1>11
<1>13. Pointer(r, "run", c)
  <2>1. IsLast(r, n, n)
    BY <1>1, <1>2, <1>3 DEF IsLast, Profiled
  <2> QED BY <1>2, <1>3, <2>1 DEF Pointer
<1>14. Clocked(r, "run", new)
  <2>1. \A i \in 1 .. n : Profiled(r, i) => r[i].timer \in DOMAIN new
    <3> SUFFICES ASSUME NEW i \in 1 .. n, Profiled(r, i) PROVE r[i].timer \in DOMAIN new
      OBVIOUS
    <3>1. CASE i = n
      BY <1>3, <1>8, <1>11, <3>1
    <3>2. CASE i # n
      <4>1. Profiled(s, i) /\ r[i] = s[i]
        BY <1>5, <3>2 DEF Profiled
      <4> QED BY <1>8, <1>11, <4>1 DEF Local, Clocked
    <3> QED BY <3>1, <3>2
  <2>2. ASSUME NEW p, p # <<>>, p # path PROVE Runs(r, "run", p) <=> Runs(s, "start", p)
    <3>1. Live(r, "run") = n /\ Live(s, "start") = n
      BY <1>3 DEF Live
    <3>2. s[n].timer # p /\ r[n].timer # p
      BY <1>2, <1>3, <2>2 DEF Profiled
    <3> QED BY <1>5, <3>1, <3>2 DEF Runs
  <2>3. Runs(r, "run", path)
    BY <1>1, <1>2, <1>3 DEF Runs, Live
  <2>4. \A p \in DOMAIN new : p # <<>> => (Started(new, p) <=> Runs(r, "run", p))
    <3> SUFFICES ASSUME NEW p \in DOMAIN new, p # <<>>
                 PROVE  Started(new, p) <=> Runs(r, "run", p)
      OBVIOUS
    <3>1. CASE p = path
      BY <1>11, <2>3, <3>1
    <3>2. CASE p # path
      <4>1. p \in DOMAIN tree /\ new[p] = tree[p]
        BY <1>8, <1>11, <1>12, <3>2
      <4>2. Started(new, p) <=> Started(tree, p)
        BY <4>1 DEF Started
      <4> QED BY <2>2, <3>2, <4>1, <4>2 DEF Local, Clocked
    <3> QED BY <3>1, <3>2
  <2> QED BY <1>3, <2>1, <2>4 DEF Clocked
<1>15. <<>> \in DOMAIN new /\ (Started(new, <<>>) <=> Started(tree, <<>>))
  BY <1>2, <1>3, <1>8, <1>11, <1>12 DEF Started
<1> QED BY <1>2, <1>3, <1>7, <1>10, <1>13, <1>14, <1>15 DEF Local, HasTimer, path, r, got, new, n

LEMMA CloseUnprofiledKeepsLocal ==
  ASSUME DiagnosticsAssumption, NEW t \in Threads, NEW s, NEW c, NEW tree, NEW n,
         Local(t, s, "run", c, tree, n), Len(s) > 0, ~Profiled(s, Len(s))
  PROVE  Local(t, SubSeq(s, 1, Len(s) - 1), "run", c, tree, n)
<1> DEFINE k == Len(s)
           r == SubSeq(s, 1, k - 1)
<1>1. k \in Nat
  BY SamplesLen DEF Local
<1>2. Samples(t, r) /\ Extends(r, s, k - 1) /\ Len(r) = k - 1
  BY CloseKeepsSamples DEF Local
<1> HIDE DEF r
<1>3. \A i \in 1 .. k - 1 : r[i] = s[i] /\ i \in 1 .. k
  BY <1>1, <1>2 DEF Extends
<1>4. Pointer(r, "run", c)
  <2>1. IsLast(s, k, c)
    BY DEF Local, Pointer
  <2>2. c # k
    BY <2>1 DEF IsLast
  <2>3. \A i \in c + 1 .. k - 1 : i \in c + 1 .. k
    BY <1>1, <2>1 DEF IsLast
  <2>4. IsLast(s, k - 1, c)
    BY <1>1, <2>1, <2>2, <2>3 DEF IsLast
  <2>5. k - 1 \in Nat /\ \A i \in 1 .. k - 1 : Profiled(r, i) <=> Profiled(s, i)
    BY <1>1, <1>3 DEF Profiled
  <2>6. IsLast(r, k - 1, c)
    BY <2>4, <2>5, LastSame
  <2> QED BY <1>2, <2>6 DEF Pointer
<1>5. Clocked(r, "run", tree)
  <2>1. \A i \in 1 .. k - 1 : Profiled(r, i) => r[i].timer \in DOMAIN tree
    BY <1>3 DEF Local, Clocked, Profiled
  <2>2. ASSUME NEW p, p # <<>> PROVE Runs(r, "run", p) <=> Runs(s, "run", p)
    <3>1. Live(r, "run") = k - 1 /\ Live(s, "run") = k
      BY <1>2 DEF Live
    <3>2. s[k].timer # p
      BY <2>2 DEF Profiled
    <3>3. \A i \in 1 .. k : i = k \/ i \in 1 .. k - 1
      BY <1>1
    <3> QED BY <1>3, <3>1, <3>2, <3>3 DEF Runs
  <2> QED BY <1>2, <2>1, <2>2 DEF Local, Clocked
<1> QED BY <1>2, <1>4, <1>5 DEF Local, r, k

LEMMA CloseKeepsLocal ==
  ASSUME DiagnosticsAssumption, NEW t \in Threads, NEW s, NEW c, NEW tree, now \in Nat \ {0},
         Local(t, s, "run", c, tree, now), Len(s) > 0, Profiled(s, Len(s))
  PROVE  LET path == s[Len(s)].timer
             new == StopTimer(tree, path) IN
         /\ Local(t, s, "restore", c, new, now) /\ Started(tree, path)
         /\ HasTimer(new, <<>>) <=> HasTimer(tree, <<>>)
         /\ Started(new, <<>>) <=> Started(tree, <<>>)
<1> DEFINE k == Len(s)
           path == s[k].timer
           new == StopTimer(tree, path)
<1>1. k \in Nat /\ k \in 1 .. k
  BY SamplesLen DEF Local
<1>2. path \in DOMAIN tree /\ path # <<>>
  BY <1>1 DEF Local, Clocked, Profiled
<1>3. Started(tree, path)
  <2>1. Runs(s, "run", path)
    BY <1>1 DEF Runs, Live
  <2> QED BY <1>2, <2>1 DEF Local, Clocked
<1>4. Tree(new, Paths(t), now)
  BY <1>2, StopKeepsTree DEF Local
<1>5. /\ DOMAIN new = DOMAIN tree /\ ~Started(new, path)
      /\ \A q \in DOMAIN tree : q # path => new[q] = tree[q]
  BY <1>2, <1>3, StopTimerIs DEF Local
<1> HIDE DEF new, path
<1>6. Pointer(s, "restore", c)
  <2>1. IsLast(s, k, c)
    BY DEF Local, Pointer
  <2>2. c = k
    BY <1>1, <2>1 DEF IsLast
  <2> QED BY <2>2 DEF Pointer
<1>7. Clocked(s, "restore", new)
  <2>1. Live(s, "restore") = k - 1 /\ Live(s, "run") = k
    BY DEF Live
  <2>2. \A i \in 1 .. k : i = k \/ i \in 1 .. k - 1
    BY <1>1
  <2>3. \A i \in 1 .. k - 1 : i \in 1 .. k /\ s[i].timer # path
    <3> SUFFICES ASSUME NEW i \in 1 .. k - 1 PROVE i \in 1 .. k /\ s[i].timer # path
      OBVIOUS
    <3>1. i \in 1 .. k /\ Deeper(s, k)
      BY <1>1 DEF Local, Samples
    <3>2. Len(path) \in Nat
      BY <1>2, PathIs DEF Local, Tree, Shape
    <3>3. Profiled(s, i) => Len(s[i].timer) < Len(path)
      BY <3>1 DEF Deeper, path
    <3> QED BY <1>2, <3>1, <3>2, <3>3 DEF Profiled
  <2>4. ~Runs(s, "restore", path)
    BY <2>1, <2>3 DEF Runs
  <2>5. ASSUME NEW p, p # path PROVE Runs(s, "restore", p) <=> Runs(s, "run", p)
    <3>1. s[k].timer # p
      BY <2>5 DEF path
    <3> QED BY <2>1, <2>2, <2>3, <3>1 DEF Runs
  <2>6. ASSUME NEW p \in DOMAIN new, p # <<>>
        PROVE  Started(new, p) <=> Runs(s, "restore", p)
    <3>1. CASE p = path
      BY <1>5, <2>4, <3>1
    <3>2. CASE p # path
      <4>1. Started(new, p) <=> Started(tree, p)
        BY <1>5, <3>2 DEF Started
      <4> QED BY <1>5, <2>5, <2>6, <3>2, <4>1 DEF Local, Clocked
    <3> QED BY <3>1, <3>2
  <2> QED BY <1>5, <2>6 DEF Local, Clocked
<1>8. /\ HasTimer(new, <<>>) <=> HasTimer(tree, <<>>)
      /\ HasTimer(tree, <<>>) => (Started(new, <<>>) <=> Started(tree, <<>>))
  BY <1>2, <1>5 DEF HasTimer, Started
<1>9. HasTimer(tree, <<>>)
  BY <1>2 DEF HasTimer, Local, Tree, Shape
<1> QED BY <1>3, <1>4, <1>6, <1>7, <1>8, <1>9 DEF Local, new, path

LEMMA RestoreKeepsLocal ==
  ASSUME DiagnosticsAssumption, NEW t \in Threads, NEW s, NEW c, NEW tree, NEW n,
         Local(t, s, "restore", c, tree, n)
  PROVE  Local(t, SubSeq(s, 1, Len(s) - 1), "run", s[Len(s)].parent, tree, n)
<1> DEFINE k == Len(s)
           r == SubSeq(s, 1, k - 1)
           j == s[k].parent
<1>1. k \in Nat /\ k \in 1 .. k /\ k > 0 /\ Profiled(s, k)
  BY SamplesLen DEF Local, Pointer
<1>2. Samples(t, r) /\ Extends(r, s, k - 1) /\ Len(r) = k - 1
  BY <1>1, CloseKeepsSamples DEF Local
<1> HIDE DEF r
<1>3. \A i \in 1 .. k - 1 : r[i] = s[i] /\ i \in 1 .. k
  BY <1>1, <1>2 DEF Extends
<1>4. IsLast(s, k - 1, j)
  BY <1>1 DEF Local, Samples, Fits
<1> HIDE DEF j
<1>5. Pointer(r, "run", j)
  <2>1. k - 1 \in Nat /\ \A i \in 1 .. k - 1 : Profiled(r, i) <=> Profiled(s, i)
    BY <1>1, <1>3 DEF Profiled
  <2>2. IsLast(r, k - 1, j)
    BY <1>4, <2>1, LastSame
  <2> QED BY <1>2, <2>2 DEF Pointer
<1>6. Clocked(r, "run", tree)
  <2>1. \A i \in 1 .. k - 1 : Profiled(r, i) => r[i].timer \in DOMAIN tree
    BY <1>3 DEF Local, Clocked, Profiled
  <2>2. \A p : Runs(r, "run", p) <=> Runs(s, "restore", p)
    BY <1>2, <1>3 DEF Runs, Live
  <2> QED BY <1>2, <2>1, <2>2 DEF Local, Clocked
<1> QED BY <1>2, <1>5, <1>6 DEF Local, r, k, j

LEMMA TickKeepsLocal ==
  ASSUME DiagnosticsAssumption, NEW t \in Threads, NEW s, NEW at, NEW c, NEW tree,
         NEW n \in Nat, Local(t, s, at, c, tree, n),
         Len(s) > 0 /\ <<>> \in DOMAIN tree => Started(tree, <<>>)
  PROVE  Local(t, s, at, c, tree, n + 1)
<1>1. Chain(tree)
  BY ClockedIsChain DEF Local, Tree
<1> QED BY <1>1, TickKeepsTree DEF Local

\* A thread without samples.
LEMMA NoSamplesLocal ==
  ASSUME DiagnosticsAssumption, NEW t \in Threads, NEW at, NEW c, NEW tree, NEW n,
         Local(t, <<>>, at, c, tree, n)
  PROVE  /\ at \notin {"get", "set", "root", "start", "restore"}
         /\ c = 0 /\ \A p \in DOMAIN tree : p # <<>> => ~Started(tree, p)
<1>1. Len(<<>>) = 0 /\ 1 .. 0 = {}
  OBVIOUS
<1>2. at \notin {"get", "set", "root", "start", "restore"}
  BY <1>1 DEF Local, Pointer
<1>3. IsLast(<<>>, 0, c) /\ Live(<<>>, at) = 0
  BY <1>1, <1>2 DEF Local, Pointer, Live
<1>4. c = 0 /\ \A p : ~Runs(<<>>, at, p)
  BY <1>1, <1>3 DEF IsLast, Runs
<1>5. \A p \in DOMAIN tree : p # <<>> => ~Started(tree, p)
  BY <1>4 DEF Local, Clocked
<1> QED BY <1>2, <1>4, <1>5

LEMMA TreeWithoutSamples ==
  ASSUME DiagnosticsAssumption, NEW t \in Threads, NEW at, NEW to \in Calm, NEW c, NEW tree, NEW n,
         Local(t, <<>>, at, c, tree, n),
         NEW new, Tree(new, Paths(t), n), \A p \in DOMAIN new : p # <<>> => ~Started(new, p)
  PROVE  Local(t, <<>>, to, 0, new, n)
<1>1. Len(<<>>) = 0 /\ 1 .. 0 = {} /\ c = 0
  BY NoSamplesLocal
<1>2. at \notin {"get", "set", "root", "start", "restore"}
  BY NoSamplesLocal
<1>3. Pointer(<<>>, to, 0)
  BY <1>1, <1>2 DEF Local, Pointer, Calm
<1>4. \A p : ~Runs(<<>>, to, p)
  BY <1>1 DEF Runs, Live, Calm
<1>5. Clocked(<<>>, to, new)
  BY <1>1, <1>4 DEF Clocked, Calm
<1> QED BY <1>3, <1>5 DEF Local

---------------------------------------------------------------------------
(* The inductive invariant. *)

Tables ==
  /\ scope = [t \in Threads |-> scope[t]] /\ pc \in [Threads -> Points]
  /\ current = [t \in Threads |-> current[t]] /\ timers = [t \in Threads |-> timers[t]]
  /\ now \in Nat /\ 0 < now /\ now <= MaxTime

\* A thread inside the Profiler is at one of four points, and alone.
Locks ==
  /\ lock \in [Threads -> 0 .. 1]
  /\ \A t \in Threads : InProfiler(t) =>
       pc[t] \in {"get", "set", "root", "restore"} /\ ~Racing(t)

Locally == \A t \in Threads : Local(t, scope[t], pc[t], current[t], timers[t], now)

\* Samples are gone before ~Profiler runs, and only it stops the root timers.
Ends ==
  /\ ending => \A t \in Threads : scope[t] = <<>>
  /\ \A t \in Threads : pc[t] = "delete" => t = Main /\ ending
  /\ \A t \in Threads : HasRoot(t) /\ ~Started(timers[t], <<>>) =>
       ending /\ pc[Main] \in {"header", "text", "delete"}

LEMMA LocksStay ==
  ASSUME Tables, Locks, UNCHANGED lock,
         \/ UNCHANGED pc
         \/ \E t \in Threads, p \in Points :
              pc[t] \notin {"get", "set", "root", "restore"} /\ Goto(t, p)
  PROVE  Locks'
<1>1. \A t \in Threads : (InProfiler(t) <=> InProfiler(t)') /\ (Racing(t) <=> Racing(t)')
  BY DEF InProfiler, Racing
<1>2. ASSUME NEW t \in Threads, InProfiler(t)
      PROVE  pc'[t] \in {"get", "set", "root", "restore"}
  BY <1>2 DEF Tables, Locks, Goto
<1> QED BY <1>1, <1>2 DEF Locks

LEMMA LockLeft ==
  ASSUME Tables, Locks, NEW t \in Threads, InProfiler(t), lock' = Leave(lock, t, 1),
         NEW p \in Points, Goto(t, p)
  PROVE  Locks' /\ ~Racing(t)
<1>1. ~Racing(t) /\ \A u \in Threads \ {t} : ~InProfiler(u)
  BY DEF Locks, Racing
<1>2. lock[t] = 1 /\ lock \in [Threads -> 0 .. 1]
  BY DEF Locks, InProfiler
<1>3. lock' \in [Threads -> 0 .. 1] /\ lock'[t] = 0 /\ \A u \in Threads \ {t} : lock'[u] = lock[u]
  BY <1>2 DEF Leave
<1>4. \A u \in Threads : ~InProfiler(u)'
  BY <1>1, <1>3 DEF InProfiler
<1> QED BY <1>1, <1>3, <1>4 DEF Locks

LEMMA LockEntered ==
  ASSUME Tables, Locks, NEW t \in Threads, EnterProfiler(t)
  PROVE  Locks'
<1>1. /\ pc[t] \in {"get", "set", "root", "restore"} /\ pc' = pc
      /\ lock[t] = 0 /\ lock \in [Threads -> 0 .. 1]
      /\ \A u \in Threads \ {t} : lock[u] = 0
  BY DEF EnterProfiler, CanEnter, Locks, InProfiler
<1>2. lock' \in [Threads -> 0 .. 1] /\ \A u \in Threads \ {t} : lock'[u] = 0
  BY <1>1 DEF EnterProfiler, Enter
<1>3. \A u \in Threads \ {t} : ~InProfiler(u)'
  BY <1>2 DEF InProfiler
<1>4. ~Racing(t)'
  BY <1>3 DEF Racing
<1> QED BY <1>1, <1>2, <1>3, <1>4 DEF Locks

\* A step of a thread with its samples: there is no ~Profiler yet.
LEMMA OneMoves ==
  ASSUME DiagnosticsAssumption, Tables, Locally, Ends, NEW t \in Threads, ~ending, UNCHANGED <<ending, now>>,
         NEW s, NEW at \in Points \ {"delete"}, NEW c, NEW tree, Local(t, s, at, c, tree, now),
         scope' = [scope EXCEPT ![t] = s], pc' = [pc EXCEPT ![t] = at],
         current' = [current EXCEPT ![t] = c], timers' = [timers EXCEPT ![t] = tree],
         HasTimer(tree, <<>>) => Started(tree, <<>>)
  PROVE  Tables' /\ Locally' /\ Ends'
<1>1. Tables'
  BY DEF Tables
<1>2. /\ scope'[t] = s /\ pc'[t] = at /\ current'[t] = c /\ timers'[t] = tree
      /\ \A u \in Threads \ {t} : /\ scope'[u] = scope[u] /\ pc'[u] = pc[u]
                                  /\ current'[u] = current[u] /\ timers'[u] = timers[u]
  BY DEF Tables
<1>3. Locally'
  <2> SUFFICES ASSUME NEW u \in Threads
               PROVE  Local(u, scope'[u], pc'[u], current'[u], timers'[u], now')
    BY DEF Locally
  <2>1. CASE u = t
    BY <1>2, <2>1
  <2>2. CASE u # t
    BY <1>2, <2>2 DEF Locally
  <2> QED BY <2>1, <2>2
<1>4. Ends'
  <2>1. \A u \in Threads : pc'[u] # "delete"
    BY <1>2 DEF Ends
  <2>2. \A u \in Threads : HasTimer(timers'[u], <<>>) => Started(timers'[u], <<>>)
    <3> SUFFICES ASSUME NEW u \in Threads, HasTimer(timers'[u], <<>>)
                 PROVE  Started(timers'[u], <<>>)
      OBVIOUS
    <3>1. CASE u = t
      BY <1>2, <3>1
    <3>2. CASE u # t
      BY <1>2, <3>2 DEF Ends, HasRoot
    <3> QED BY <3>1, <3>2
  <2> QED BY <2>1, <2>2 DEF Ends, HasRoot
<1> QED BY <1>1, <1>3, <1>4

LEMMA NotEnding ==
  ASSUME DiagnosticsAssumption, Tables, Locally, Ends, NEW t \in Threads,
         pc[t] \in {"get", "set", "root", "start", "restore"} \/ Top(t) > 0
  PROVE  ~ending
<1> SUFFICES ASSUME ending PROVE FALSE
  OBVIOUS
<1>1. scope[t] = <<>> /\ Local(t, scope[t], pc[t], current[t], timers[t], now)
  BY DEF Ends, Locally
<1>2. Len(<<>>) = 0
  OBVIOUS
<1>3. pc[t] \notin {"get", "set", "root", "start", "restore"}
  <2>1. Len(scope[t]) = 0 /\ ~(0 > 0)
    BY <1>1, <1>2
  <2> QED BY <1>1, <2>1 DEF Local, Pointer
<1> QED BY <1>1, <1>2, <1>3 DEF Top

SampleStep(t) ==
  \/ Open(t) \/ EnterProfiler(t) \/ GetCurrentSample(t) \/ SetCurrentSample(t)
  \/ GetRootTimer(t) \/ (\E name \in Names[t] : Start(t, name))
  \/ CloseUnprofiled(t) \/ Close(t) \/ Restore(t)

LEMMA SampleStepNotEnding ==
  ASSUME DiagnosticsAssumption, Tables, Locally, Ends, NEW t \in Threads, SampleStep(t)
  PROVE  ~ending /\ UNCHANGED <<ending, now, profiler, logger>>
<1>1. UNCHANGED <<ending, now, profiler, logger>>
  BY DEF SampleStep, Open, EnterProfiler, GetCurrentSample, SetCurrentSample, GetRootTimer,
         Start, CloseUnprofiled, Close, Restore
<1>2. ~ending \/ pc[t] \in {"get", "set", "root", "start", "restore"} \/ Top(t) > 0
  BY DEF SampleStep, Open, EnterProfiler, GetCurrentSample, SetCurrentSample, GetRootTimer,
         Start, CloseUnprofiled, Close, Restore
<1> QED BY <1>1, <1>2, NotEnding

LEMMA AsItWas ==
  ASSUME Tables
  PROVE  \A t \in Threads :
           /\ scope = [scope EXCEPT ![t] = scope[t]] /\ pc = [pc EXCEPT ![t] = pc[t]]
           /\ current = [current EXCEPT ![t] = current[t]] /\ timers = [timers EXCEPT ![t] = timers[t]]
BY DEF Tables

ProfilerInv == Tables /\ Locally /\ Ends /\ Locks /\ misused = FALSE

LEMMA SampleStepMoves ==
  ASSUME DiagnosticsAssumption, ProfilerInv, NEW t \in Threads, SampleStep(t)
  PROVE  ProfilerInv'
<1> DEFINE s == scope[t]
           c == current[t]
           tree == timers[t]
<1>1. ~ending /\ UNCHANGED <<ending, now>> /\ Tables /\ Locally /\ Ends /\ Locks /\ misused = FALSE
  BY SampleStepNotEnding DEF ProfilerInv
<1>2. /\ scope = [scope EXCEPT ![t] = s] /\ pc = [pc EXCEPT ![t] = pc[t]]
      /\ current = [current EXCEPT ![t] = c] /\ timers = [timers EXCEPT ![t] = tree]
  BY <1>1, AsItWas
<1>3. /\ Local(t, s, pc[t], c, tree, now) /\ now \in Nat \ {0}
      /\ HasTimer(tree, <<>>) => Started(tree, <<>>)
  BY <1>1 DEF Locally, Tables, Ends, HasRoot
<1>4. /\ pc[t] # "delete" /\ pc[t] \in Points
  BY <1>1 DEF Ends, Tables
<1> HIDE DEF s, c, tree
<1>5. CASE Open(t)
  <2>1. PICK to \in {"get", "run"} :
          /\ scope' = [scope EXCEPT ![t] = Append(s, [timer |-> NoTimer, parent |-> 0])]
          /\ Goto(t, to) /\ pc[t] = "run" /\ Len(s) < MaxDepth[t]
          /\ UNCHANGED <<lock, current, timers, misused>>
    <3>1. PICK isProfiled \in BOOLEAN :
             /\ scope' = [scope EXCEPT ![t] = Append(scope[t], [timer |-> NoTimer, parent |-> 0])]
             /\ Goto(t, IF isProfiled THEN "get" ELSE "run")
      BY <1>5 DEF Open
    <3> QED BY <1>5, <3>1 DEF Open, Top, s, maps
  <2>2. Local(t, Append(s, [timer |-> NoTimer, parent |-> 0]), to, c, tree, now)
    BY <1>3, <2>1, OpenKeepsLocal
  <2>3. to \in Points \ {"delete"}
    BY DEF Points
  <2>4. Tables' /\ Locally' /\ Ends'
    <3> DEFINE r == Append(s, [timer |-> NoTimer, parent |-> 0])
    <3>1. /\ Local(t, r, to, c, tree, now)
          /\ scope' = [scope EXCEPT ![t] = r] /\ pc' = [pc EXCEPT ![t] = to]
          /\ current' = [current EXCEPT ![t] = c] /\ timers' = [timers EXCEPT ![t] = tree]
      BY <1>2, <2>1, <2>2 DEF Goto
    <3> HIDE DEF r
    <3> QED BY <1>1, <1>3, <2>3, <3>1, OneMoves
  <2>5. Locks'
    BY <1>1, <2>1, <2>3, LocksStay
  <2> QED BY <1>1, <2>1, <2>4, <2>5 DEF ProfilerInv
<1>6. CASE EnterProfiler(t)
  <2>1. UNCHANGED <<scope, pc, current, timers, ending, now, misused>>
    BY <1>6 DEF EnterProfiler, samples
  <2>2. Tables' /\ Locally' /\ Ends'
    BY <1>1, <2>1 DEF Tables, Locally, Ends, HasRoot
  <2> QED BY <1>1, <1>6, <2>1, <2>2, LockEntered DEF ProfilerInv
<1>7. CASE GetCurrentSample(t)
  <2>1. pc[t] = "get" /\ InProfiler(t) /\ lock' = Leave(lock, t, 1) /\ Goto(t, "set")
          /\ UNCHANGED <<current, timers, misused>>
    BY <1>7 DEF GetCurrentSample
  <2>2. Locks' /\ ~Racing(t)
    BY <1>1, <2>1, LockLeft DEF Points
  <2> DEFINE r == [s EXCEPT ![Len(s)].parent = c]
  <2>3. scope' = [scope EXCEPT ![t] = r]
    <3>1. scope' = [scope EXCEPT ![t] = [scope[t] EXCEPT ![Top(t)].parent = current[t]]]
      BY <1>7, <2>2 DEF GetCurrentSample, Outcomes
    <3> QED BY <3>1 DEF s, c, Top
  <2>4. Local(t, r, "set", c, tree, now)
    BY <1>3, <2>1, GetCurrentKeepsLocal
  <2> HIDE DEF r
  <2>5. Tables' /\ Locally' /\ Ends'
    <3>1. /\ pc' = [pc EXCEPT ![t] = "set"] /\ "set" \in Points \ {"delete"}
          /\ current' = [current EXCEPT ![t] = c] /\ timers' = [timers EXCEPT ![t] = tree]
      BY <1>2, <2>1 DEF Goto, Points
    <3> QED BY <1>1, <1>3, <2>3, <2>4, <3>1, OneMoves
  <2> QED BY <1>1, <2>1, <2>2, <2>5 DEF ProfilerInv
<1>8. CASE SetCurrentSample(t)
  <2> DEFINE to == IF s[Len(s)].parent = 0 THEN "root" ELSE "start"
  <2>1. pc[t] = "set" /\ InProfiler(t) /\ lock' = Leave(lock, t, 1) /\ Goto(t, to)
          /\ UNCHANGED <<scope, timers, misused>>
    BY <1>8 DEF SetCurrentSample, Innermost, Top, s, samples
  <2>2. to \in Points \ {"delete"}
    BY DEF Points
  <2>3. Local(t, s, to, Len(s), tree, now)
    BY <1>3, <2>1, SetCurrentKeepsLocal
  <2> HIDE DEF to
  <2>4. Locks' /\ ~Racing(t)
    BY <1>1, <2>1, <2>2, LockLeft
  <2>5. current' = [current EXCEPT ![t] = Len(s)]
    BY <1>8, <2>4 DEF SetCurrentSample, Outcomes, Top, s
  <2>6. Tables' /\ Locally' /\ Ends'
    <3>1. /\ pc' = [pc EXCEPT ![t] = to]
          /\ scope' = [scope EXCEPT ![t] = s] /\ timers' = [timers EXCEPT ![t] = tree]
      BY <1>2, <2>1 DEF Goto
    <3> QED BY <1>1, <1>3, <2>2, <2>3, <2>5, <3>1, OneMoves
  <2> QED BY <1>1, <2>1, <2>4, <2>6 DEF ProfilerInv
<1>9. CASE GetRootTimer(t)
  <2>1. pc[t] = "root" /\ InProfiler(t) /\ lock' = Leave(lock, t, 1) /\ Goto(t, "start")
          /\ UNCHANGED <<scope, current, misused>>
    BY <1>9 DEF GetRootTimer
  <2>2. Locks' /\ ~Racing(t)
    BY <1>1, <2>1, LockLeft DEF Points
  <2> DEFINE new == IF HasTimer(tree, <<>>) THEN tree
                    ELSE StartTimer(GetTimer(tree, <<>>), <<>>)
  <2>3. timers' = [timers EXCEPT ![t] = new]
    BY <1>9, <2>2 DEF GetRootTimer, Outcomes, tree
  <2>4. /\ Local(t, s, "start", c, new, now)
        /\ HasTimer(new, <<>>) => Started(new, <<>>)
    BY <1>3, <2>1, RootKeepsLocal
  <2> HIDE DEF new
  <2>5. Tables' /\ Locally' /\ Ends'
    <3>1. /\ pc' = [pc EXCEPT ![t] = "start"] /\ "start" \in Points \ {"delete"}
          /\ scope' = [scope EXCEPT ![t] = s] /\ current' = [current EXCEPT ![t] = c]
      BY <1>2, <2>1 DEF Goto, Points
    <3> QED BY <1>1, <2>3, <2>4, <3>1, OneMoves
  <2> QED BY <1>1, <2>1, <2>2, <2>5 DEF ProfilerInv
<1>10. ASSUME NEW name \in Names[t], Start(t, name) PROVE ProfilerInv'
  <2> DEFINE path == Append(Above(s, Len(s)), name)
             got == GetTimer(tree, path)
             new == StartTimer(got, path)
             r == Begun(s, path)
  <2>1. /\ pc[t] = "start" /\ Goto(t, "run") /\ UNCHANGED <<lock, current>>
        /\ scope' = [scope EXCEPT ![t][Top(t)].timer = path]
        /\ timers' = [timers EXCEPT ![t] = new]
        /\ misused' = (misused \/ Started(got, path))
    BY <1>10 DEF Start, Innermost, Top, Above, s, tree, maps
  <2>2. scope' = [scope EXCEPT ![t] = r]
    BY <2>1 DEF Begun, Top, s
  <2>3. /\ Local(t, r, "run", c, new, now) /\ ~Started(got, path)
        /\ HasTimer(tree, <<>>) /\ (Started(new, <<>>) <=> Started(tree, <<>>))
    BY <1>3, <2>1, StartKeepsLocal
  <2> HIDE DEF r, new, got, path
  <2>4. Tables' /\ Locally' /\ Ends'
    <3>1. /\ pc' = [pc EXCEPT ![t] = "run"] /\ "run" \in Points \ {"delete"}
          /\ current' = [current EXCEPT ![t] = c]
      BY <1>2, <2>1 DEF Goto, Points
    <3> QED BY <1>1, <1>3, <2>1, <2>2, <2>3, <3>1, OneMoves
  <2>5. Locks'
    BY <1>1, <2>1, LocksStay DEF Points
  <2>6. misused' = FALSE
    BY <1>1, <2>1, <2>3
  <2> QED BY <2>4, <2>5, <2>6 DEF ProfilerInv
<1>11. CASE CloseUnprofiled(t)
  <2> DEFINE r == SubSeq(s, 1, Len(s) - 1)
  <2>1. /\ pc[t] = "run" /\ Len(s) > 0 /\ ~Profiled(s, Len(s))
        /\ scope' = [scope EXCEPT ![t] = r]
        /\ UNCHANGED <<pc, lock, current, timers, misused>>
    BY <1>11 DEF CloseUnprofiled, Top, Innermost, Profiled, NoTimer, s, maps
  <2>2. Local(t, r, "run", c, tree, now)
    BY <1>3, <2>1, CloseUnprofiledKeepsLocal
  <2> HIDE DEF r
  <2>3. Tables' /\ Locally' /\ Ends'
    <3>1. /\ pc' = [pc EXCEPT ![t] = "run"] /\ "run" \in Points \ {"delete"}
          /\ current' = [current EXCEPT ![t] = c] /\ timers' = [timers EXCEPT ![t] = tree]
      BY <1>2, <2>1 DEF Points
    <3> QED BY <1>1, <1>3, <2>1, <2>2, <3>1, OneMoves
  <2> QED BY <1>1, <2>1, <2>3, LocksStay DEF ProfilerInv
<1>12. CASE Close(t)
  <2> DEFINE path == s[Len(s)].timer
             new == StopTimer(tree, path)
  <2>1. /\ pc[t] = "run" /\ Len(s) > 0 /\ Profiled(s, Len(s))
        /\ timers' = [timers EXCEPT ![t] = new]
        /\ misused' = (misused \/ ~Started(tree, path))
        /\ Goto(t, "restore") /\ UNCHANGED <<lock, current, scope>>
    BY <1>12 DEF Close, Top, Innermost, Profiled, NoTimer, s, tree, maps
  <2>2. /\ Local(t, s, "restore", c, new, now) /\ Started(tree, path)
        /\ HasTimer(new, <<>>) <=> HasTimer(tree, <<>>)
        /\ Started(new, <<>>) <=> Started(tree, <<>>)
    BY <1>3, <2>1, CloseKeepsLocal
  <2> HIDE DEF new, path
  <2>3. Tables' /\ Locally' /\ Ends'
    <3>1. /\ pc' = [pc EXCEPT ![t] = "restore"] /\ "restore" \in Points \ {"delete"}
          /\ scope' = [scope EXCEPT ![t] = s] /\ current' = [current EXCEPT ![t] = c]
      BY <1>2, <2>1 DEF Goto, Points
    <3> QED BY <1>1, <1>3, <2>1, <2>2, <3>1, OneMoves
  <2>4. Locks'
    BY <1>1, <2>1, LocksStay DEF Points
  <2>5. misused' = FALSE
    BY <1>1, <2>1, <2>2
  <2> QED BY <2>3, <2>4, <2>5 DEF ProfilerInv
<1>13. CASE Restore(t)
  <2> DEFINE r == SubSeq(s, 1, Len(s) - 1)
             j == s[Len(s)].parent
  <2>1. /\ pc[t] = "restore" /\ InProfiler(t) /\ lock' = Leave(lock, t, 1) /\ Goto(t, "run")
        /\ scope' = [scope EXCEPT ![t] = r] /\ UNCHANGED <<timers, misused>>
    BY <1>13 DEF Restore, Top, s
  <2>2. Locks' /\ ~Racing(t)
    BY <1>1, <2>1, LockLeft DEF Points
  <2>3. current' = [current EXCEPT ![t] = j]
    BY <1>13, <2>2 DEF Restore, Outcomes, Innermost, Top, s
  <2>4. Local(t, r, "run", j, tree, now)
    BY <1>3, <2>1, RestoreKeepsLocal
  <2> HIDE DEF r, j
  <2>5. Tables' /\ Locally' /\ Ends'
    <3>1. /\ pc' = [pc EXCEPT ![t] = "run"] /\ "run" \in Points \ {"delete"}
          /\ timers' = [timers EXCEPT ![t] = tree]
      BY <1>2, <2>1 DEF Goto, Points
    <3> QED BY <1>1, <1>3, <2>1, <2>3, <2>4, <3>1, OneMoves
  <2> QED BY <1>1, <2>1, <2>2, <2>5 DEF ProfilerInv
<1> QED BY <1>5, <1>6, <1>7, <1>8, <1>9, <1>10, <1>11, <1>12, <1>13 DEF SampleStep

\* A step while no thread has a sample.
LEMMA NoSamplesMove ==
  ASSUME DiagnosticsAssumption, Tables, Locally, \A u \in Threads : scope[u] = <<>>,
         UNCHANGED <<scope, now>>, \A u \in Threads : pc'[u] \in Calm /\ current'[u] = 0,
         \A u \in Threads : timers'[u] \in {timers[u], StopTimer(timers[u], <<>>), <<>>}
  PROVE  Locally'
<1> SUFFICES ASSUME NEW u \in Threads
             PROVE  Local(u, scope'[u], pc'[u], current'[u], timers'[u], now')
  BY DEF Locally
<1> DEFINE tree == timers[u]
           new == timers'[u]
           to == pc'[u]
<1>1. Local(u, <<>>, pc[u], current[u], tree, now)
  BY DEF Locally
<1>2. Tree(tree, Paths(u), now) /\ \A p \in DOMAIN tree : p # <<>> => ~Started(tree, p)
  BY <1>1, NoSamplesLocal DEF Local, Calm
<1>3. Tree(new, Paths(u), now) /\ \A p \in DOMAIN new : p # <<>> => ~Started(new, p)
  <2>1. CASE new = tree
    BY <1>2, <2>1
  <2>2. CASE new = <<>>
    BY <2>2, NoTreeIsTree
  <2>3. CASE new = StopTimer(tree, <<>>) /\ new # tree
    <3>1. Started(tree, <<>>)
      BY <2>3 DEF StopTimer
    <3>2. new = [tree EXCEPT ![<<>>] = [start |-> 0, total |-> @.total + now - @.start]]
      BY <2>3, <3>1 DEF StopTimer
    <3>3. tree = [p \in DOMAIN tree |-> tree[p]]
      BY <1>2 DEF Tree, Shape
    <3> HIDE DEF new, tree
    <3>4. <<>> \in DOMAIN tree
      <4>1. CASE <<>> \notin DOMAIN tree
        <5>1. new = tree
          BY <3>2, <3>3, <4>1
        <5> QED BY <2>3, <5>1
      <4> QED BY <4>1
    <3>5. Tree(new, Paths(u), now)
      BY <1>2, <2>3, <3>4, StopKeepsTree DEF Tables
    <3>6. DOMAIN new = DOMAIN tree /\ \A q \in DOMAIN tree : q # <<>> => new[q] = tree[q]
      BY <1>2, <2>3, <3>1, <3>4, StopTimerIs
    <3> QED BY <1>2, <3>5, <3>6 DEF Started
  <2> QED BY <2>1, <2>2, <2>3
<1>4. to \in Calm
  OBVIOUS
<1> HIDE DEF new, to, tree
<1>5. Local(u, <<>>, to, 0, new, now)
  BY <1>1, <1>3, <1>4, TreeWithoutSamples
<1> QED BY <1>5 DEF new, to

LEMMA NoSamplesCalm ==
  ASSUME DiagnosticsAssumption, Tables, Locally, \A u \in Threads : scope[u] = <<>>
  PROVE  \A u \in Threads : pc[u] \in Calm /\ current[u] = 0
<1> SUFFICES ASSUME NEW u \in Threads PROVE pc[u] \in Calm /\ current[u] = 0
  OBVIOUS
<1>1. Local(u, <<>>, pc[u], current[u], timers[u], now)
  BY DEF Locally
<1>2. pc[u] \notin {"get", "set", "root", "start", "restore"} /\ current[u] = 0
  BY <1>1, NoSamplesLocal DEF Calm
<1>3. pc[u] \in Points
  BY DEF Tables
<1> QED BY <1>2, <1>3 DEF Points, Calm

\* Time goes by.
LEMMA TickMoves ==
  ASSUME DiagnosticsAssumption, ProfilerInv, Tick
  PROVE  ProfilerInv'
<1>1. Tables /\ Locally /\ Ends /\ Locks /\ misused = FALSE
  BY DEF ProfilerInv
<1>2. now' = now + 1 /\ now < MaxTime /\ now \in Nat /\ MaxTime \in Nat
        /\ UNCHANGED <<ending, scope, pc, current, timers, lock, misused>>
  BY <1>1 DEF Tick, Tables, DiagnosticsAssumption, maps, samples
<1>3. Tables'
  BY <1>1, <1>2 DEF Tables
<1>4. Locally'
  <2> SUFFICES ASSUME NEW t \in Threads
               PROVE  Local(t, scope[t], pc[t], current[t], timers[t], now + 1)
    BY <1>2 DEF Locally
  <2>1. Len(scope[t]) > 0 => ~ending
    <3>1. Len(<<>>) = 0
      OBVIOUS
    <3> QED BY <1>1, <3>1 DEF Ends
  <2>2. Len(scope[t]) > 0 /\ <<>> \in DOMAIN timers[t] => Started(timers[t], <<>>)
    BY <1>1, <2>1 DEF Ends, HasRoot, HasTimer
  <2>3. Local(t, scope[t], pc[t], current[t], timers[t], now)
    BY <1>1 DEF Locally
  <2> QED BY <1>2, <2>2, <2>3, TickKeepsLocal
<1>5. Ends'
  BY <1>1, <1>2 DEF Ends, HasRoot
<1>6. Locks'
  BY <1>1, <1>2, LocksStay
<1> QED BY <1>1, <1>2, <1>3, <1>4, <1>5, <1>6 DEF ProfilerInv

LEMMA ProfilerMoves ==
  ASSUME DiagnosticsAssumption, ProfilerInv,
         Create \/ Destroy \/ Delete \/ Destroyed \/ (\E t \in Threads : Report(t))
  PROVE  ProfilerInv'
<1> USE DEF ProfilerInv
<1>1. CASE Create
  <2>1. UNCHANGED <<ending, scope, pc, current, timers, lock, misused, now>>
    BY <1>1 DEF Create, maps, samples
  <2>2. Tables' /\ Locally' /\ Ends'
    BY <2>1 DEF Tables, Locally, Ends, HasRoot
  <2> QED BY <2>1, <2>2, LocksStay
<1>2. CASE Destroy
  <2>1. UNCHANGED <<scope, pc, current, timers, lock, misused, now>>
          /\ ~ending /\ ending' = TRUE /\ \A t \in Threads : scope[t] = <<>>
    BY <1>2 DEF Destroy, maps, samples
  <2>2. Tables' /\ Locally' /\ Ends'
    BY <2>1 DEF Tables, Locally, Ends, HasRoot
  <2> QED BY <2>1, <2>2, LocksStay
<1>3. CASE Delete
  <2>1. /\ pc[Main] = "delete" /\ Goto(Main, "run") /\ Main \in Threads
        /\ timers' = [t \in Threads |-> IF Reported(t) THEN <<>> ELSE timers[t]]
        /\ UNCHANGED <<ending, lock, current, scope, misused, now>>
    BY <1>3 DEF Delete, maps, DiagnosticsAssumption
  <2>2. ending /\ \A t \in Threads : scope[t] = <<>>
    BY <2>1 DEF Ends
  <2>3. pc' = [pc EXCEPT ![Main] = "run"] /\ pc \in [Threads -> Points]
    BY <2>1 DEF Goto, Tables
  <2>4. Tables'
    BY <2>1, <2>3 DEF Tables, Points
  <2>5. \A u \in Threads : pc[u] \in Calm /\ current[u] = 0
    BY <2>2, NoSamplesCalm
  <2>6. Locally'
    <3>1. \A u \in Threads : pc'[u] \in Calm /\ current'[u] = 0
      BY <2>1, <2>3, <2>5 DEF Calm
    <3>2. \A u \in Threads : timers'[u] \in {timers[u], StopTimer(timers[u], <<>>), <<>>}
      BY <2>1
    <3> QED BY <2>1, <2>2, <3>1, <3>2, NoSamplesMove
  <2>7. Ends'
    <3>1. \A u \in Threads : pc'[u] # "delete"
      BY <2>1, <2>3 DEF Ends
    <3>2. \A u \in Threads : HasTimer(timers'[u], <<>>) => Started(timers'[u], <<>>)
      <4> SUFFICES ASSUME NEW u \in Threads, HasTimer(timers'[u], <<>>)
                   PROVE  Started(timers'[u], <<>>)
        OBVIOUS
      <4>1. CASE Reported(u)
        <5>1. timers'[u] = <<>> /\ DOMAIN <<>> = {}
          BY <2>1, <4>1
        <5> QED BY <5>1 DEF HasTimer
      <4>2. CASE ~Reported(u)
        BY <2>1, <4>2 DEF Reported, HasRoot
      <4> QED BY <4>1, <4>2
    <3> QED BY <2>1, <2>2, <3>1, <3>2 DEF Ends, HasRoot
  <2> QED BY <2>1, <2>4, <2>6, <2>7, LocksStay DEF Points
<1>4. CASE Destroyed
  <2>1. /\ ending' = FALSE /\ ending /\ pc[Main] = "run" /\ \A t \in Threads : ~HasRoot(t)
        /\ current' = [t \in Threads |-> 0] /\ UNCHANGED <<lock, scope, timers, pc, misused, now>>
    BY <1>4 DEF Destroyed, samples
  <2>2. \A t \in Threads : scope[t] = <<>>
    BY <2>1 DEF Ends
  <2>3. Tables'
    BY <2>1 DEF Tables
  <2>4. Locally'
    <3>1. \A u \in Threads : pc'[u] \in Calm /\ current'[u] = 0
      BY <2>1, <2>2, NoSamplesCalm
    <3> QED BY <2>1, <2>2, <3>1, NoSamplesMove
  <2>5. Ends'
    BY <2>1 DEF Ends, HasRoot
  <2> QED BY <2>1, <2>3, <2>4, <2>5, LocksStay
<1>5. ASSUME NEW t \in Threads, Report(t) PROVE ProfilerInv'
  <2>1. /\ ending /\ pc[Main] = "run" /\ HasRoot(t) /\ Goto(Main, "header") /\ Main \in Threads
        /\ timers' = [timers EXCEPT ![t] = StopTimer(timers[t], <<>>)]
        /\ misused' = (misused \/ ~Started(timers[t], <<>>))
        /\ UNCHANGED <<ending, lock, current, scope, now>>
    BY <1>5 DEF Report, maps, DiagnosticsAssumption
  <2>2. \A u \in Threads : scope[u] = <<>>
    BY <2>1 DEF Ends
  <2>3. pc' = [pc EXCEPT ![Main] = "header"] /\ pc \in [Threads -> Points]
    BY <2>1 DEF Goto, Tables
  <2>4. Tables'
    BY <2>1, <2>3 DEF Tables, Points
  <2>5. Locally'
    <3>1. \A u \in Threads : pc'[u] \in Calm /\ current'[u] = 0
      BY <2>1, <2>2, <2>3, NoSamplesCalm DEF Calm
    <3>2. \A u \in Threads : timers'[u] \in {timers[u], StopTimer(timers[u], <<>>), <<>>}
      BY <2>1 DEF Tables
    <3> QED BY <2>1, <2>2, <3>1, <3>2, NoSamplesMove
  <2>6. Started(timers[t], <<>>)
    BY <2>1 DEF Ends
  <2>7. Ends'
    BY <2>1, <2>2, <2>3 DEF Ends, HasRoot
  <2> QED BY <2>1, <2>4, <2>5, <2>6, <2>7, LocksStay DEF Points
<1> QED BY <1>1, <1>2, <1>3, <1>4, <1>5

LogStepOf(t) ==
  Log(t) \/ LogException(t) \/ Formatted(t) \/ WriteHeader(t) \/ WriteText(t)

LEMMA LogMoves ==
  ASSUME DiagnosticsAssumption, ProfilerInv, NEW t \in Threads, LogStepOf(t)
  PROVE  ProfilerInv'
<1> USE DEF ProfilerInv
<1>1. UNCHANGED <<ending, lock, current, scope, timers, misused, now>>
  BY DEF LogStepOf, Log, LogException, Formatted, WriteHeader, WriteText, maps, samples
<1>2. PICK to \in Calm :
        /\ Goto(t, to) /\ pc[t] \in Calm
        /\ to = "delete" => ending /\ t = Main
        /\ t = Main /\ ending => to \in {"header", "text", "delete"}
  <2>1. CASE Log(t)
    BY <2>1 DEF Log, Calm
  <2>2. CASE WriteHeader(t)
    BY <2>2 DEF WriteHeader, Calm
  <2>3. CASE WriteText(t)
    BY <2>3 DEF WriteText, Calm
  <2>4. CASE LogException(t)
    BY <2>4 DEF LogException, Calm
  <2>5. CASE Formatted(t)
    BY <2>5 DEF Formatted, Calm
  <2> QED BY <2>1, <2>2, <2>3, <2>4, <2>5 DEF LogStepOf
<1>3. pc' = [pc EXCEPT ![t] = to] /\ to \in Points /\ pc \in [Threads -> Points]
  BY <1>2 DEF Goto, Tables, Calm, Points
<1>4. Tables'
  BY <1>1, <1>3 DEF Tables
<1>5. Locks'
  BY <1>1, <1>2, <1>3, LocksStay DEF Calm
<1>6. Locally'
  <2> SUFFICES ASSUME NEW u \in Threads
               PROVE  Local(u, scope[u], pc'[u], current[u], timers[u], now)
    BY <1>1 DEF Locally
  <2>1. Local(u, scope[u], pc[u], current[u], timers[u], now)
    BY DEF Locally
  <2>2. CASE u = t
    <3>1. pc'[u] = to
      BY <1>3, <2>2
    <3>2. Local(u, scope[u], to, current[u], timers[u], now)
      BY <1>2, <2>1, <2>2, CalmKeepsLocal
    <3> QED BY <3>1, <3>2
  <2>3. CASE u # t
    BY <1>3, <2>1, <2>3
  <2> QED BY <2>2, <2>3
<1>7. Ends'
  <2>1. \A u \in Threads : pc'[u] = "delete" => u = Main /\ ending
    BY <1>2, <1>3 DEF Ends
  <2>2. ASSUME NEW u \in Threads, HasRoot(u), ~Started(timers[u], <<>>)
        PROVE  ending /\ pc'[Main] \in {"header", "text", "delete"}
    <3>1. ending /\ pc[Main] \in {"header", "text", "delete"}
      BY <2>2 DEF Ends
    <3> QED BY <1>2, <1>3, <3>1
  <2> QED BY <1>1, <2>1, <2>2 DEF Ends, HasRoot
<1> QED BY <1>1, <1>4, <1>5, <1>6, <1>7

LEMMA MovedStep ==
  ASSUME DiagnosticsAssumption, ProfilerInv, [Next]_vars
  PROVE  ProfilerInv'
<1>1. CASE UNCHANGED vars
  <2>1. UNCHANGED <<ending, lock, scope, pc, current, timers, now, misused>>
    BY <1>1 DEF vars, maps, samples
  <2>2. Tables /\ Locally /\ Ends /\ Locks /\ misused = FALSE
    BY DEF ProfilerInv
  <2>3. Tables' /\ Locally' /\ Ends'
    BY <2>1, <2>2 DEF Tables, Locally, Ends, HasRoot
  <2>4. Locks'
    BY <2>1, <2>2, LocksStay
  <2> QED BY <2>1, <2>2, <2>3, <2>4 DEF ProfilerInv
<1>2. CASE Tick
  BY <1>2, TickMoves
<1>3. CASE Create \/ Destroy \/ Delete \/ Destroyed \/ (\E t \in Threads : Report(t))
  BY <1>3, ProfilerMoves
<1>4. ASSUME NEW t \in Threads, LogStepOf(t) PROVE ProfilerInv'
  BY <1>4, LogMoves
<1>5. ASSUME NEW t \in Threads, SampleStep(t) PROVE ProfilerInv'
  BY <1>5, SampleStepMoves
<1> QED BY <1>1, <1>2, <1>3, <1>4, <1>5 DEF Next, SampleStep, LogStepOf

LEMMA MovedInit == ASSUME DiagnosticsAssumption, Init PROVE ProfilerInv
<1>1. /\ scope = [t \in Threads |-> <<>>] /\ pc = [t \in Threads |-> "run"]
      /\ current = [t \in Threads |-> 0] /\ timers = [t \in Threads |-> <<>>]
      /\ now = 1 /\ misused = FALSE /\ ending = FALSE /\ lock = [t \in Threads |-> 0]
  BY DEF Init, Unlocked
<1>2. Tables
  BY <1>1 DEF Tables, Points, DiagnosticsAssumption
<1>3. Locks
  BY <1>1 DEF Locks, InProfiler
<1>4. DOMAIN <<>> = {} /\ Len(<<>>) = 0
  OBVIOUS
<1>5. Locally
  <2> SUFFICES ASSUME NEW t \in Threads PROVE Local(t, <<>>, "run", 0, <<>>, now)
    BY <1>1 DEF Locally
  <2>1. Samples(t, <<>>)
    <3>1. <<>> \in Seq(SampleOf(t)) /\ MaxDepth[t] \in Nat
      BY PathIs
    <3> QED BY <1>4, <3>1 DEF Samples
  <2>2. Pointer(<<>>, "run", 0)
    BY <1>4 DEF Pointer, IsLast
  <2>3. Clocked(<<>>, "run", <<>>)
    BY <1>4 DEF Clocked
  <2> QED BY <2>1, <2>2, <2>3, NoTreeIsTree DEF Local
<1>6. Ends
  BY <1>1, <1>4 DEF Ends, HasRoot, HasTimer
<1> QED BY <1>1, <1>2, <1>3, <1>5, <1>6 DEF ProfilerInv

Flags == /\ profiler \in BOOLEAN /\ ending \in BOOLEAN
          /\ written \in [by : Threads, part : {"header", "text"}, of : Threads]

LEMMA FlagsStep ==
  ASSUME DiagnosticsAssumption, Flags, BufferInv, [Next]_vars
  PROVE  Flags'
<1>1. CASE UNCHANGED vars
  BY <1>1 DEF vars, Flags, logger
<1>2. CASE Tick \/ Create \/ Destroy \/ Delete \/ Destroyed
  BY <1>2 DEF Flags, logger, Tick, Create, Destroy, Delete, Destroyed
<1>3. ASSUME NEW t \in Threads, SampleStep(t) PROVE Flags'
  BY <1>3 DEF Flags, logger, SampleStep, Open, EnterProfiler, GetCurrentSample,
     SetCurrentSample, GetRootTimer, Start, CloseUnprofiled, Close, Restore
<1>4. ASSUME NEW t \in Threads, LogStepOf(t) \/ Report(t)
      PROVE  Flags'
  <2>1. CASE WriteText(t)
    <3>1. InBuffer \subseteq Threads
      BY DEF InBuffer, Formatting, BufferInv
    <3>2. PICK of \in Threads : written' = Piece(t, "text", of)
      BY <2>1, <3>1 DEF WriteText
    <3> QED BY <2>1, <3>2 DEF Flags, WriteText, Piece
  <2>2. CASE Log(t) \/ LogException(t) \/ Formatted(t) \/ WriteHeader(t) \/ Report(t)
    BY <2>2 DEF Flags, logger, Log, LogException, Formatted, WriteHeader, Report, Piece
  <2> QED BY <1>4, <2>1, <2>2 DEF LogStepOf
<1> QED BY <1>1, <1>2, <1>3, <1>4 DEF Next, SampleStep, LogStepOf

LEMMA FlagsInit == ASSUME DiagnosticsAssumption, Init PROVE Flags
BY DEF Init, Flags, Piece, DiagnosticsAssumption

LEMMA TypeFollows ==
  ASSUME DiagnosticsAssumption, ProfilerInv, Flags, LogInv, BufferInv
  PROVE  TypeOK
<1>1. Tables /\ Locally /\ Locks /\ misused = FALSE
  BY DEF ProfilerInv
<1>2. lock \in [Threads -> 0 .. 1] /\ logLock \in [Threads -> 0 .. 1]
  BY <1>1 DEF Locks, LogInv
<1>3. now \in 1 .. MaxTime /\ pc \in [Threads -> Points]
  BY <1>1 DEF Tables, DiagnosticsAssumption
<1>4. ASSUME NEW t \in Threads
      PROVE  /\ current[t] \in 0 .. Top(t) /\ Top(t) <= MaxDepth[t]
             /\ \A i \in DOMAIN scope[t] :
                  scope[t][i].timer \in Paths(t) /\ scope[t][i].parent \in 0 .. i - 1
             /\ DOMAIN timers[t] \subseteq Paths(t)
             /\ \A p \in DOMAIN timers[t] :
                  timers[t][p].start \in 0 .. now /\ timers[t][p].total \in 0 .. now
  <2> DEFINE s == scope[t]
  <2>1. Local(t, s, pc[t], current[t], timers[t], now)
    BY <1>1 DEF Locally
  <2>2. s \in Seq(SampleOf(t)) /\ Len(s) \in Nat /\ DOMAIN s = 1 .. Len(s) /\ Len(s) <= MaxDepth[t]
    BY <2>1 DEF Local, Samples
  <2>3. current[t] \in 0 .. Len(s)
    BY <2>1, <2>2 DEF Local, Pointer, IsLast
  <2>4. \A i \in 1 .. Len(s) : s[i].timer \in Paths(t) /\ s[i].parent \in 0 .. i - 1
    <3> SUFFICES ASSUME NEW i \in 1 .. Len(s)
                 PROVE  s[i].timer \in Paths(t) /\ s[i].parent \in 0 .. i - 1
      OBVIOUS
    <3>1. s[i] \in SampleOf(t)
      BY <2>2
    <3>2. s[i].parent \in 0 .. i - 1
      BY <2>1 DEF Local, Samples, Fits
    <3> QED BY <3>1, <3>2 DEF SampleOf
  <2>5. DOMAIN timers[t] \subseteq Paths(t)
    BY <2>1 DEF Local, Tree, Shape
  <2>6. \A p \in DOMAIN timers[t] :
          timers[t][p].start \in 0 .. now /\ timers[t][p].total \in 0 .. now
    <3>1. \A p \in DOMAIN timers[t] : Timed(timers[t][p], now)
      BY <2>1 DEF Local, Tree
    <3> QED BY <1>3, <3>1 DEF Timed
  <2> QED BY <2>2, <2>3, <2>4, <2>5, <2>6 DEF Top
<1> QED BY <1>1, <1>2, <1>3, <1>4 DEF TypeOK, Flags, BufferInv

LEMMA ReportFollows ==
  ASSUME DiagnosticsAssumption, ProfilerInv
  PROVE  ReportAddsUp
<1>1. Tables /\ Locally /\ Ends /\ misused = FALSE
  BY DEF ProfilerInv
<1>2. ASSUME NEW t \in Threads, Reported(t), NEW path \in DOMAIN timers[t]
      PROVE  SumFunctionOnSet(Totals(timers[t]), Children(timers[t], path))
               <= timers[t][path].total
  <2> DEFINE tree == timers[t]
  <2>1. ~Started(tree, <<>>) /\ scope[t] = <<>>
    BY <1>1, <1>2 DEF Reported, Ends
  <2>2. Local(t, <<>>, pc[t], current[t], tree, now)
    BY <1>1, <2>1 DEF Locally
  <2>3. Tree(tree, Paths(t), now) /\ DOMAIN tree \subseteq Paths(t) /\ now \in Nat
    BY <1>1, <2>2 DEF Local, Tree, Shape, Tables
  <2>4. \A p \in DOMAIN tree : ~Started(tree, p)
    BY <2>1, <2>2, NoSamplesLocal
  <2>5. SumFunctionOnSet(Totals(tree), Kids(tree, path)) <= tree[path].total
    BY <1>2, <2>3, <2>4, StoppedTotalsAddUp
  <2>6. Children(tree, path) = Kids(tree, path)
    BY <1>2, <2>3, KidsAreChildren
  <2> QED BY <2>5, <2>6
<1> QED BY <1>1, <1>2 DEF ReportAddsUp

\* The types hold for any number of threads and samples: in particular a thread
\* never follows a pointer to a sample that is gone.
THEOREM DiagnosticsTyped == Spec => []TypeOK
<1> USE DiagnosticsAssumption
<1> DEFINE I == ProfilerInv /\ Flags /\ LogInv /\ BufferInv
<1>1. Init => I
  BY MovedInit, FlagsInit, LogInit, BufferInit
<1>2. I /\ [Next]_vars => I'
  BY MovedStep, FlagsStep, LogStep, BufferStep
<1>3. I => TypeOK
  BY TypeFollows
<1> QED BY <1>1, <1>2, <1>3, PTL DEF Spec

\* Timers are started and stopped in turn, and what is printed adds up, however
\* the samples are nested and whichever of them are profiled.
THEOREM ReportsAddUp == Spec => []ReportAddsUp
<1> USE DiagnosticsAssumption
<1>1. Init => ProfilerInv
  BY MovedInit
<1>2. ProfilerInv /\ [Next]_vars => ProfilerInv'
  BY MovedStep
<1>3. ProfilerInv => ReportAddsUp
  BY ReportFollows
<1> QED BY <1>1, <1>2, <1>3, PTL DEF Spec
=============================================================================
