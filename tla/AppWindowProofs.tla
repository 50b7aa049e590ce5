-------------------------- MODULE AppWindowProofs --------------------------
(***************************************************************************)
(* What holds of a window and its frames for any sizes, any number of      *)
(* rebuilds, any surface and whatever the presentation engine does when.   *)
(* The two components the window is composed with are proved about by      *)
(* themselves; each step of the window is a step of theirs or leaves them  *)
(* alone.                                                                  *)
(***************************************************************************)
EXTENDS AppWindow, TLAPS

\* The semaphore is in use, and an image held, from the acquisition to the end of the
\* presentation.  All that time the program copies, or is at rest with the
\* presentation in the queue: the next frame begins with a wait for the queue.
OneQueued == queue # <<>> => fpc = "rest" /\ \E q : queue = <<q>> /\ held \subseteq {q}
Unused == queue = <<>> /\ fpc # "copy" => held = {} /\ sem["imageAvailable"] = "idle"
OneHeld == fpc = "copy" => queue = <<>> /\ \E i : held = {i}
PresentationInv == /\ sem \in [Semaphores -> {"idle", "pending", "set"}]
        /\ OneQueued /\ Unused /\ OneHeld

LEMMA StepKeepsPresentationInv ==
  ASSUME PresentationInv, [PresentationNext]_display
  PROVE  PresentationInv'
<1> USE DEF PresentationInv, OneQueued, Unused, OneHeld, Semaphores
<1>1. CASE StartFrame \/ SubmitFrame \/ FlushFrame
  BY <1>1 DEF StartFrame, SubmitFrame, FlushFrame, Submit, Flushed
<1>2. CASE OutOfDate
  BY <1>2 DEF OutOfDate
<1>3. CASE Present
  <2>1. PICK i \in held : queue' = Append(queue, i)
    BY <1>3 DEF Present
  <2>2. queue = <<>> /\ held = {i} /\ fpc' = "rest" /\ held' = held /\ sem' = sem
    BY <1>3, <2>1 DEF Present, Flushed
  <2>3. queue' = <<i>>
    BY <2>1, <2>2
  <2> QED BY <2>2, <2>3
<1>4. CASE \E r \in {"success", "suboptimal"} : Acquire(r)
  <2>1. PICK r \in {"success", "suboptimal"} : Acquire(r)
    BY <1>4
  <2>2. PICK i \in Free : held' = held \cup {i}
    BY <2>1 DEF Acquire
  <2>3. fpc = "acquire" /\ fpc' = "copy" /\ queue' = queue
    BY <2>1 DEF Acquire, GivesUp
  <2>4. queue = <<>> /\ held' = {i}
    BY <2>2, <2>3
  <2>5. sem' \in [Semaphores -> {"idle", "pending", "set"}]
    BY <2>1 DEF Acquire
  <2> QED BY <2>3, <2>4, <2>5
<1>5. CASE NewSwapchain
  <2>0. fpc = "rest" /\ fpc' = fpc /\ sem' = sem /\ held' = {}
    BY <1>5 DEF NewSwapchain
  <2>1. CASE queue = <<>>
    <3>1. queue' = <<>>
      BY <1>5, <2>1 DEF NewSwapchain
    <3> QED BY <2>0, <2>1, <3>1
  <2>2. CASE queue # <<>>
    <3>1. Len(queue) = 1
      BY <2>2
    <3>2. queue' = <<0>>
      BY <1>5, <3>1 DEF NewSwapchain
    <3> QED BY <2>0, <3>2
  <2> QED BY <2>1, <2>2
<1>6. CASE Signal
  BY <1>6 DEF Signal
<1>7. CASE ExecutePresent
  <2>1. PICK q : queue = <<q>> /\ held \subseteq {q} /\ fpc = "rest"
    BY <1>7 DEF ExecutePresent
  <2>2. queue' = <<>> /\ held' = {} /\ fpc' = "rest"
    BY <1>7, <2>1 DEF ExecutePresent
  <2>3. sem' \in [Semaphores -> {"idle", "pending", "set"}] /\ sem'["imageAvailable"] = "idle"
    BY <1>7 DEF ExecutePresent, WaitsFor
  <2> QED BY <2>2, <2>3
<1>8. CASE Flip
  BY <1>8 DEF Flip
<1>9. CASE UNCHANGED display
  BY <1>9 DEF display
<1> QED BY <1>1, <1>2, <1>3, <1>4, <1>5, <1>6, <1>7, <1>8, <1>9
      DEF PresentationNext, Frame, Engine

\* One semaphore and one image at a time are enough, and never too few, for all
\* frames: what an acquisition needs has always come back when it is made.
THEOREM AcquisitionsAreReady == PresentationSpec => []AcquireReady
<1>1. PresentationInit => PresentationInv
  BY DEF PresentationInit, PresentationInv, OneQueued, Unused, OneHeld, Semaphores
<1>2. PresentationInv => AcquireReady
  BY DEF PresentationInv, OneQueued, Unused, AcquireReady
<1> QED BY <1>1, <1>2, StepKeepsPresentationInv, PTL DEF PresentationSpec

---------------------------------------------------------------------------
(* The batch: its draws are exact for any techniques, any number of calls, *)
(* and arrays of any size.                                                 *)

\* What holds while a batch is collected: pLastTechnique tells the truth about the
\* command buffer, and every draw reads a part of the host's array that lies before
\* the counter and still has what its own call wrote.
Remembers == open /\ pLastTechnique # "NULL" => bound = pLastTechnique
DrawOK(d) == /\ d.bound = d.technique
             /\ d.first + d.count <= n[d.array]
             /\ \A i \in d.first .. d.first + d.count - 1 : host[d.array][i] = d.call
Sent == ~open => \A d \in draws : \A i \in d.first .. d.first + d.count - 1 : device[d.array][i] = d.call
NothingYet == calls = 0 => draws = {}
BatchInv == BatchTypeOK /\ Remembers /\ (\A d \in draws : DrawOK(d)) /\ Sent /\ NothingYet

LEMMA AddKeepsBatchInv ==
  ASSUME NEW a \in Arrays, NEW t \in Techniques, NEW k \in Nat, BatchInv, Add(a, t, k)
  PROVE  BatchInv'
<1> USE BatchAssumption
<1> DEFINE new == [array |-> a, technique |-> t, bound |-> bound',
                   first |-> n[a], count |-> k, call |-> calls + 1]
<1>1. /\ BatchTypeOK /\ open /\ open' = open /\ device' = device
      /\ n[a] \in Nat /\ calls \in Nat /\ n[a] + k \in 0 .. Capacity
      /\ calls' = calls + 1 /\ pLastTechnique' = t
      /\ draws' = draws \cup {new}
      /\ n' = [n EXCEPT ![a] = n[a] + k]
      /\ host' = [host EXCEPT ![a] =
            [i \in Slots |-> IF n[a] <= i /\ i < n[a] + k THEN calls + 1 ELSE host[a][i]]]
  BY DEF Add, BatchInv, BatchTypeOK
<1>2. bound' = t
  <2>1. CASE pLastTechnique # t
    BY <2>1 DEF Add
  <2>2. CASE pLastTechnique = t
    <3>1. pLastTechnique # "NULL"
      BY <2>2 DEF Techniques
    <3> QED BY <1>1, <2>2, <3>1 DEF Add, BatchInv, Remembers
  <2> QED BY <2>1, <2>2
<1>3. BatchTypeOK'
  <2>1. new \in Draws
    BY <1>1, <1>2 DEF Draws
  <2>2. draws' \in SUBSET Draws
    BY <1>1, <2>1 DEF BatchTypeOK
  <2>3. [i \in Slots |-> IF n[a] <= i /\ i < n[a] + k THEN calls + 1 ELSE host[a][i]] \in [Slots -> Nat]
    BY <1>1 DEF BatchTypeOK
  <2>4. host' \in [Arrays -> [Slots -> Nat]] /\ n' \in [Arrays -> 0 .. Capacity]
    BY <1>1, <2>3 DEF BatchTypeOK
  <2> QED BY <1>1, <1>2, <2>2, <2>4 DEF BatchTypeOK
<1>4. Remembers'
  BY <1>1, <1>2 DEF Remembers
<1>5. \A d \in draws' : DrawOK(d)'
  <2> SUFFICES ASSUME NEW d \in draws' PROVE DrawOK(d)'
    OBVIOUS
  <2>1. CASE d = new
    <3>1. /\ d.bound = bound' /\ d.technique = t /\ d.array = a
          /\ d.first = n[a] /\ d.count = k /\ d.call = calls + 1
      BY <2>1
    <3>2. n'[a] = n[a] + k
      BY <1>1 DEF BatchTypeOK
    <3>3. \A i \in n[a] .. n[a] + k - 1 : host'[a][i] = calls + 1
      <4> SUFFICES ASSUME NEW i \in n[a] .. n[a] + k - 1 PROVE host'[a][i] = calls + 1
        OBVIOUS
      <4>1. i \in Slots /\ n[a] <= i /\ i < n[a] + k
        BY <1>1 DEF Slots
      <4> QED BY <1>1, <4>1 DEF BatchTypeOK
    <3> QED BY <1>1, <1>2, <3>1, <3>2, <3>3 DEF DrawOK
  <2>2. CASE d \in draws
    <3>1. DrawOK(d) /\ d \in Draws
      BY <2>2 DEF BatchInv, BatchTypeOK
    <3>2. d.first \in Nat /\ d.count \in Nat /\ d.array \in Arrays
      BY <3>1 DEF Draws
    <3>3. n'[d.array] \in Nat /\ n[d.array] \in 0 .. Capacity /\ n'[d.array] >= n[d.array]
      BY <1>1, <3>2 DEF BatchTypeOK
    <3>4. \A i \in d.first .. d.first + d.count - 1 : host'[d.array][i] = host[d.array][i]
      <4> SUFFICES ASSUME NEW i \in d.first .. d.first + d.count - 1
                   PROVE  host'[d.array][i] = host[d.array][i]
        OBVIOUS
      <4>1. i \in Slots /\ i < n[d.array]
        BY <3>1, <3>2, <3>3 DEF DrawOK, Slots
      <4>2. CASE d.array = a
        <5>1. ~(n[a] <= i)
          BY <4>1, <4>2, <3>3
        <5> QED BY <1>1, <4>1, <4>2, <5>1 DEF BatchTypeOK
      <4>3. CASE d.array # a
        BY <1>1, <3>2, <4>3 DEF BatchTypeOK
      <4> QED BY <4>2, <4>3
    <3>5. d.first + d.count <= n'[d.array]
      BY <3>1, <3>2, <3>3 DEF DrawOK
    <3> QED BY <3>1, <3>4, <3>5 DEF DrawOK
  <2> QED BY <1>1, <2>1, <2>2
<1>6. Sent' /\ NothingYet'
  BY <1>1 DEF Sent, NothingYet
<1> QED BY <1>3, <1>4, <1>5, <1>6 DEF BatchInv

LEMMA EndKeepsBatchInv ==
  ASSUME BatchInv, End
  PROVE  BatchInv'
<1>1. /\ UNCHANGED <<calls, n, pLastTechnique, bound, host, draws>> /\ ~open'
      /\ device' = [a \in Arrays |-> [i \in Slots |-> IF i < n[a] THEN host[a][i] ELSE device[a][i]]]
  BY DEF End, Uploaded
<1>2. BatchTypeOK'
  <2>1. \A a \in Arrays : [i \in Slots |-> IF i < n[a] THEN host[a][i] ELSE device[a][i]] \in [Slots -> Nat]
    BY DEF BatchInv, BatchTypeOK
  <2>2. device' \in [Arrays -> [Slots -> Nat]]
    BY <1>1, <2>1
  <2> QED BY <1>1, <2>2 DEF BatchInv, BatchTypeOK, End
<1>3. (\A d \in draws' : DrawOK(d)') /\ Remembers' /\ NothingYet'
  BY <1>1 DEF BatchInv, DrawOK, Remembers, NothingYet
<1>4. Sent'
  <2> SUFFICES ASSUME NEW d \in draws, NEW i \in d.first .. d.first + d.count - 1
               PROVE  device'[d.array][i] = d.call
    BY <1>1 DEF Sent
  <2>1. DrawOK(d) /\ d.first \in Nat /\ d.count \in Nat /\ d.array \in Arrays
    BY DEF BatchInv, BatchTypeOK, Draws
  <2>2. n[d.array] \in 0 .. Capacity /\ Capacity \in Nat
    BY <2>1, BatchAssumption DEF BatchInv, BatchTypeOK
  <2>3. i \in Slots /\ i < n[d.array] /\ host[d.array][i] = d.call
    BY <2>1, <2>2 DEF DrawOK, Slots
  <2> QED BY <1>1, <2>1, <2>3
<1> QED BY <1>2, <1>3, <1>4 DEF BatchInv

LEMMA InvariantOfBatch == BatchSpec => []BatchInv
<1> USE BatchAssumption
<1>1. Earlier \in [Arrays -> [Slots -> Nat]] /\ [a \in Arrays |-> 0] \in [Arrays -> 0 .. Capacity]
  BY DEF Earlier
<1>2. BatchInit => BatchInv
  <2>1. BatchInit => BatchTypeOK
    <3> SUFFICES ASSUME BatchInit PROVE BatchTypeOK
      OBVIOUS
    <3>1. /\ open \in BOOLEAN /\ calls \in Nat /\ draws \subseteq Draws
          /\ pLastTechnique \in Techniques \cup {"NULL"} /\ bound \in Techniques \cup {"NULL"}
      BY DEF BatchInit
    <3>2. n \in [Arrays -> 0 .. Capacity]
      BY <1>1 DEF BatchInit
    <3>3. host \in [Arrays -> [Slots -> Nat]] /\ device \in [Arrays -> [Slots -> Nat]]
      BY <1>1 DEF BatchInit
    <3> QED BY <3>1, <3>2, <3>3 DEF BatchTypeOK
  <2>2. BatchInit => Remembers /\ Sent /\ NothingYet /\ \A d \in draws : DrawOK(d)
    BY DEF BatchInit, Remembers, Sent, NothingYet
  <2> QED BY <2>1, <2>2 DEF BatchInv
<1>3. BatchInv /\ [BatchNext]_batch => BatchInv'
  <2> SUFFICES ASSUME BatchInv, [BatchNext]_batch PROVE BatchInv'
    OBVIOUS
  <2>1. CASE Begin
    BY <1>1, <2>1 DEF Begin, LastAtBegin, BatchInv, BatchTypeOK, Remembers, Sent, NothingYet
  <2>2. CASE Calls
    <3>1. CASE \E t \in GUITechniques, k \in 1 .. Capacity : AddGUIElements(t, k)
      BY <3>1, AddKeepsBatchInv DEF AddGUIElements, Arrays, Techniques
    <3>2. CASE \E k \in 0 .. Capacity : AddText(k)
      BY <3>2, AddKeepsBatchInv DEF AddText, Arrays, Techniques
    <3> QED BY <2>2, <3>1, <3>2 DEF Calls
  <2>3. CASE End
    BY <2>3, EndKeepsBatchInv
  <2>4. CASE Freed
    BY <1>1, <2>4 DEF Freed, BatchInv, BatchTypeOK, Remembers, Sent, NothingYet
  <2>5. CASE UNCHANGED batch
    BY <2>5 DEF batch, BatchInv, BatchTypeOK, Remembers, DrawOK, Sent, NothingYet
  <2> QED BY <2>1, <2>2, <2>3, <2>4, <2>5 DEF BatchNext
<1> QED BY <1>2, <1>3, PTL DEF BatchSpec

\* What goes to the device is exact: every draw with its own technique and the data
\* of its own call, however many calls a frame makes, whatever frames came before.
THEOREM BatchIsExact == BatchSpec => []DrawsAreExact
<1>1. BatchInv => DrawsAreExact
  BY DEF BatchInv, DrawOK, Sent, DrawsAreExact
<1> QED BY <1>1, InvariantOfBatch, PTL

---------------------------------------------------------------------------
LEMMA WindowMovesDisplay ==
  ASSUME [Next]_vars
  PROVE  [PresentationNext]_display
<1> USE DEF drawing
<1>1. CASE Create \/ \E w \in Sizes : Size(w)
  BY <1>1 DEF Create, Size, Rebuild, PresentationNext
<1>2. CASE ExitSizeMove
  BY <1>2 DEF ExitSizeMove, Rebuild, PresentationNext
<1>3. CASE EnterSizeMove \/ EndPump \/ KeyDown \/ SurfaceChanges \/ Close \/ Quit \/ Return
  BY <1>3 DEF EnterSizeMove, EndPump, KeyDown, SurfaceChanges, Close, Quit, Return
<1>4. CASE Idle
  BY <1>4 DEF Idle, IdleBegins, IdleSubmits, IdlePresents, IdleAcquires, IdleCopies,
              PresentationNext, Frame
<1>5. CASE IdleAdds
  BY <1>5 DEF IdleAdds
<1>6. CASE EngineRuns
  BY <1>6 DEF EngineRuns, PresentationNext
<1>7. CASE UNCHANGED vars
  BY <1>7 DEF vars
<1> QED BY <1>1, <1>2, <1>3, <1>4, <1>5, <1>6, <1>7 DEF Next

LEMMA WindowMovesBatch ==
  ASSUME [Next]_vars
  PROVE  [BatchNext]_batch
<1> USE DEF drawing
<1>1. CASE Create \/ ExitSizeMove \/ \E w \in Sizes : Size(w)
  BY <1>1 DEF Create, ExitSizeMove, Size, Rebuild
<1>2. CASE EnterSizeMove \/ EndPump \/ KeyDown \/ SurfaceChanges \/ Close \/ Quit \/ Return
  BY <1>2 DEF EnterSizeMove, EndPump, KeyDown, SurfaceChanges, Close, Quit, Return
<1>3. CASE Idle \/ IdleAdds
  BY <1>3 DEF Idle, IdleBegins, IdleAdds, IdleSubmits, IdlePresents, IdleAcquires, IdleCopies, BatchNext
<1>4. CASE EngineRuns
  BY <1>4 DEF EngineRuns
<1>5. CASE UNCHANGED vars
  BY <1>5 DEF vars
<1> QED BY <1>1, <1>2, <1>3, <1>4, <1>5 DEF Next

\* In every history of a window, an image is asked for only when nothing is
\* outstanding on the semaphore and no other image is held.
THEOREM WindowAcquiresReady == Spec => []AcquireReady
<1>1. Init => PresentationInit
  BY DEF Init
<1> QED BY <1>1, WindowMovesDisplay, AcquisitionsAreReady, PTL DEF Spec, PresentationSpec

\* In every history of a window, what a frame draws is exact.
THEOREM WindowDrawsExactly == Spec => []DrawsAreExact
<1>1. Init => BatchInit
  BY DEF Init
<1> QED BY <1>1, WindowMovesBatch, BatchIsExact, PTL DEF Spec, BatchSpec

---------------------------------------------------------------------------
\* The flag of the window procedure follows the hand of the user, from the first
\* message on.
Followed == /\ sizing \in BOOLEAN
            /\ phase \in {"none", "open"} => sizing = drag
            /\ phase = "none" => ~drag
            /\ FramesFit

LEMMA StepKeepsFollowed ==
  ASSUME Followed, [Next]_vars
  PROVE  Followed'
<1> USE DEF Followed, FramesFit, window, Looping, Pumping
<1>1. CASE Create
  BY <1>1 DEF Create
<1>2. CASE EnterSizeMove \/ EndPump \/ KeyDown \/ SurfaceChanges \/ Close \/ Quit \/ Return
  BY <1>2 DEF EnterSizeMove, EndPump, KeyDown, SurfaceChanges, Close, Quit, Return
<1>3. CASE ExitSizeMove
  BY <1>3 DEF ExitSizeMove, Rebuild, SizingReset
<1>4. ASSUME NEW w \in Sizes, Size(w) PROVE Followed'
  <2>1. CASE sizing
    BY <1>4, <2>1 DEF Size
  <2>2. CASE ~sizing
    BY <1>4, <2>2 DEF Size, Rebuild
  <2> QED BY <2>1, <2>2
<1>5. CASE Idle \/ IdleAdds
  BY <1>5 DEF Idle, IdleBegins, IdleAdds, IdleSubmits, IdlePresents, IdleAcquires, IdleCopies
<1>6. CASE EngineRuns
  BY <1>6 DEF EngineRuns
<1>7. CASE UNCHANGED vars
  BY <1>7 DEF vars
<1> QED BY <1>1, <1>2, <1>3, <1>4, <1>5, <1>6, <1>7 DEF Next

\* Whatever the user does, the frames drawn while the window is not held have the size
\* of its client area.
THEOREM FramesAlwaysFit == Spec => []FramesFit
<1>1. Init => Followed
  BY DEF Init, Followed, FramesFit
<1>2. Followed => FramesFit
  BY DEF Followed
<1> QED BY <1>1, <1>2, StepKeepsFollowed, PTL DEF Spec

---------------------------------------------------------------------------
(* The Vulkan objects of the window.                                       *)

Graph == [device : BOOLEAN, build : 0 .. MaxBuilds, held : [Kinds -> 0 .. MaxBuilds],
          live : SUBSET Objects, pending : SUBSET Names,
          layout : {"undefined", "attachment", "source"}, wrong : BOOLEAN]

\* What each kind of object is made from, and which build it is of: onCreate's or the
\* last one.
MadeFrom(k) ==
  CASE k = "views" -> {"swapchain"}
    [] k \in {"graphicsPass", "guiPass"} -> {"targets"}
    [] k = "guiPipelines" -> {"guiPass", "static"}
    [] k = "facePipeline" -> {"graphicsPass", "static"}
    [] OTHER -> {}
BuildOf(k, b) == IF k = "static" THEN 1 ELSE b
Object(k, b) ==
  [kind |-> k, build |-> BuildOf(k, b), uses |-> {<<u, BuildOf(u, b)>> : u \in MadeFrom(k)}]

\* The program holds the objects of the kinds in K, and no others exist.
Has(s, K, b) ==
  /\ s.held = [k \in Kinds |-> IF k \in K THEN BuildOf(k, b) ELSE 0]
  /\ s.live = {Object(k, b) : k \in K}

Builds == 1 .. MaxBuilds

SameRest(r, s) == r.device = s.device /\ r.build = s.build /\ r.layout = s.layout /\ r.wrong = s.wrong

LEMMA ObjectTyped ==
  ASSUME NEW k \in Kinds, NEW b \in Builds
  PROVE  /\ Object(k, b) \in Objects /\ MadeFrom(k) \subseteq Kinds
         /\ Object(k, b).kind = k /\ Object(k, b).build = BuildOf(k, b)
         /\ Object(k, b).uses = {<<u, BuildOf(u, b)>> : u \in MadeFrom(k)}
         /\ Object(k, b).uses \subseteq Kinds \X Builds
<1>1. MadeFrom(k) \subseteq Kinds
  BY DEF MadeFrom, Kinds
<1>2. \A j \in Kinds : BuildOf(j, b) \in Builds
  BY WindowAssumption DEF BuildOf, Builds
<1>3. {<<u, BuildOf(u, b)>> : u \in MadeFrom(k)} \subseteq Kinds \X Builds
  BY <1>1, <1>2
<1>4. Kinds \X Builds \subseteq Names
  BY DEF Names, Builds
<1> QED BY <1>1, <1>2, <1>3, <1>4 DEF Object, Objects, Builds

LEMMA DestroyFields ==
  ASSUME NEW s \in Graph, NEW D \in SUBSET Kinds
  PROVE  /\ Destroy(s, D) \in Graph
         /\ Destroy(s, D).held = [k \in Kinds |-> IF k \in D THEN 0 ELSE s.held[k]]
         /\ Destroy(s, D).live = IF s.device
              THEN {o \in s.live : <<o.kind, o.build>> \notin {Name(s, k) : k \in D}} ELSE s.live
         /\ SameRest(Destroy(s, D), s)
<1> DEFINE kept == [k \in Kinds |-> IF k \in D THEN 0 ELSE s.held[k]]
           live == IF s.device
                   THEN {o \in s.live : <<o.kind, o.build>> \notin {Name(s, k) : k \in D}} ELSE s.live
<1>1. Destroy(s, D) = [s EXCEPT !.held = kept, !.live = live]
  BY DEF Destroy, Graph
<1>2. kept \in [Kinds -> 0 .. MaxBuilds] /\ live \in SUBSET Objects
  BY WindowAssumption DEF Graph
<1> HIDE DEF kept, live
<1>3. /\ Destroy(s, D) \in Graph /\ Destroy(s, D).held = kept /\ Destroy(s, D).live = live
      /\ SameRest(Destroy(s, D), s)
  BY <1>1, <1>2 DEF Graph, SameRest
<1> QED BY <1>3 DEF kept, live

Made(s, k, U) == [kind |-> k, build |-> s.build, uses |-> {Name(s, u) : u \in U}]

LEMMA MakeFields ==
  ASSUME NEW s \in Graph, NEW k \in Kinds, NEW U \in SUBSET Kinds, s.build > 0
  PROVE  /\ Make(s, k, U) \in Graph
         /\ Make(s, k, U).held = [s.held EXCEPT ![k] = s.build]
         /\ Make(s, k, U).live = s.live \cup {Made(s, k, U)}
         /\ SameRest(Make(s, k, U), s)
<1> DEFINE o == Made(s, k, U)
<1>1. {Name(s, u) : u \in U} \subseteq Names
  BY DEF Name, Names, Graph
<1>2. o \in Objects
  BY <1>1 DEF Objects, Graph, Made
<1> HIDE DEF o
<1>3. Make(s, k, U) = [s EXCEPT !.held[k] = s.build, !.live = @ \cup {o}]
  BY DEF Make, Made, o
<1>4. s.live \cup {o} \in SUBSET Objects /\ [s.held EXCEPT ![k] = s.build] \in [Kinds -> 0 .. MaxBuilds]
  BY <1>2 DEF Graph
<1>5. /\ Make(s, k, U) \in Graph /\ Make(s, k, U).held = [s.held EXCEPT ![k] = s.build]
      /\ Make(s, k, U).live = s.live \cup {o}
      /\ SameRest(Make(s, k, U), s)
  BY <1>3, <1>4 DEF Graph, SameRest
<1> QED BY <1>5 DEF o

LEMMA MakeTyped ==
  ASSUME NEW s \in Graph, NEW k \in Kinds, NEW U \in SUBSET Kinds, s.build > 0
  PROVE  Make(s, k, U) \in Graph /\ SameRest(Make(s, k, U), s)
BY MakeFields

LEMMA RecordFields ==
  ASSUME NEW s \in Graph, NEW K \in SUBSET Kinds
  PROVE  /\ Record(s, K) \in Graph
         /\ Record(s, K).held = s.held /\ Record(s, K).live = s.live /\ SameRest(Record(s, K), s)
<1>1. {Name(s, k) : k \in K} \subseteq Names
  BY DEF Name, Names, Graph
<1> QED BY <1>1 DEF Record, Graph, SameRest

LEMMA DestroyHas ==
  ASSUME NEW s \in Graph, s.device, NEW b \in Builds, NEW K \in SUBSET Kinds,
         NEW D \in SUBSET Kinds, Has(s, K, b)
  PROVE  Has(Destroy(s, D), K \ D, b)
<1>1. \A k \in Kinds : BuildOf(k, b) # 0
  BY DEF BuildOf, Builds
<1>2. ASSUME NEW k \in K
      PROVE  <<Object(k, b).kind, Object(k, b).build>> \in {Name(s, j) : j \in D} <=> k \in D
  <2>1. Object(k, b).kind = k /\ Object(k, b).build = BuildOf(k, b) /\ s.held[k] = BuildOf(k, b)
    BY ObjectTyped DEF Has
  <2> QED BY <2>1 DEF Name
<1>3. Destroy(s, D).live = {Object(k, b) : k \in K \ D}
  <2>1. Destroy(s, D).live = {o \in s.live : <<o.kind, o.build>> \notin {Name(s, k) : k \in D}}
    BY DestroyFields
  <2>2. s.live = {Object(k, b) : k \in K}
    BY DEF Has
  <2> QED BY <1>2, <2>1, <2>2
<1>4. Destroy(s, D).held = [k \in Kinds |-> IF k \in K \ D THEN BuildOf(k, b) ELSE 0]
  <2>1. Destroy(s, D).held = [k \in Kinds |-> IF k \in D THEN 0 ELSE s.held[k]]
    BY DestroyFields
  <2>2. s.held = [k \in Kinds |-> IF k \in K THEN BuildOf(k, b) ELSE 0]
    BY DEF Has
  <2> QED BY <2>1, <2>2
<1> QED BY <1>3, <1>4 DEF Has

LEMMA MakeHas ==
  ASSUME NEW s \in Graph, NEW b \in Builds, NEW K \in SUBSET Kinds, NEW k \in Kinds \ K,
         Has(s, K, b), MadeFrom(k) \subseteq K, s.build = BuildOf(k, b)
  PROVE  Has(Make(s, k, MadeFrom(k)), K \cup {k}, b)
<1>1. s.build > 0
  BY DEF BuildOf, Builds
<1>2. {Name(s, u) : u \in MadeFrom(k)} = {<<u, BuildOf(u, b)>> : u \in MadeFrom(k)}
  BY DEF Name, Has
<1>3. Made(s, k, MadeFrom(k)) = Object(k, b)
  BY <1>2 DEF Object, Made
<1>4. Make(s, k, MadeFrom(k)).live = {Object(j, b) : j \in K \cup {k}}
  <2>1. Make(s, k, MadeFrom(k)).live = s.live \cup {Object(k, b)}
    <3>1. \A U \in SUBSET Kinds : Make(s, k, U).live = s.live \cup {Made(s, k, U)}
      BY <1>1, MakeFields
    <3>2. MadeFrom(k) \in SUBSET Kinds
      OBVIOUS
    <3> QED BY <1>3, <3>1, <3>2
  <2>2. s.live = {Object(j, b) : j \in K}
    BY DEF Has
  <2> QED BY <2>1, <2>2
<1>5. Make(s, k, MadeFrom(k)).held = [j \in Kinds |-> IF j \in K \cup {k} THEN BuildOf(j, b) ELSE 0]
  BY <1>1, MakeFields DEF Has
<1> QED BY <1>4, <1>5 DEF Has

LEMMA SwapchainHas ==
  ASSUME NEW s \in Graph, s.device, NEW b \in Builds, b + 1 = s.build,
         NEW K \in SUBSET Kinds, K \subseteq {"static", "swapchain", "views"}, "static" \in K,
         Has(s, K, b)
  PROVE  /\ BuildSwapchain(s) \in Graph
         /\ Has(BuildSwapchain(s), {"static", "swapchain", "views"}, s.build)
         /\ SameRest(BuildSwapchain(s), s)
<1> USE DEF SameRest
<1> DEFINE old == Name(s, "swapchain")
           s1 == Destroy(s, {"views"})
           s2 == Make(s1, "swapchain", MadeFrom("swapchain"))
           s3 == [s2 EXCEPT !.live = {o \in @ : <<o.kind, o.build>> # old}]
           s4 == Record(s3, {"swapchain"})
<1>0. s.build \in Builds /\ b \in Nat
  BY DEF Graph, Builds
<1>1. /\ s1 \in Graph /\ SameRest(s1, s)
      /\ Has(s1, K \ {"views"}, b)
  <2>1. {"views"} \in SUBSET Kinds
    BY DEF Kinds
  <2> QED BY <2>1, DestroyFields, DestroyHas
<1> HIDE DEF s1
<1>2. /\ s2 \in Graph /\ SameRest(s2, s)
      /\ s2.held = [s1.held EXCEPT !["swapchain"] = s.build]
      /\ s2.live = s1.live \cup {Object("swapchain", s.build)}
  <2> DEFINE U == MadeFrom("swapchain")
  <2>1. "swapchain" \in Kinds /\ U \in SUBSET Kinds /\ s1.build > 0
    BY <1>0, <1>1 DEF Kinds, Builds, MadeFrom
  <2>2. {Name(s1, u) : u \in U} = {} /\ {<<u, BuildOf(u, s.build)>> : u \in U} = {}
    BY DEF MadeFrom
  <2> HIDE DEF U
  <2>3. /\ s2 \in Graph /\ SameRest(s2, s1) /\ s2.held = [s1.held EXCEPT !["swapchain"] = s1.build]
        /\ s2.live = s1.live \cup {Made(s1, "swapchain", U)}
    <3>1. s2 = Make(s1, "swapchain", U) /\ s1 \in Graph
      BY <1>1 DEF U
    <3> QED BY <2>1, <3>1, MakeFields
  <2>4. Made(s1, "swapchain", U) = Object("swapchain", s.build)
    BY <1>1, <2>2 DEF Object, BuildOf, Made, U
  <2> QED BY <1>1, <2>3, <2>4
<1> HIDE DEF s2
<1>3. /\ s3 \in Graph /\ s3.held = s2.held /\ s3.live = {o \in s2.live : <<o.kind, o.build>> # old}
      /\ SameRest(s3, s2)
  BY <1>2 DEF Graph
<1>4. Has(s3, {"static", "swapchain"}, s.build)
  <2>1. /\ Object("static", b) = Object("static", s.build)
        /\ Object("static", b).kind = "static"
        /\ Object("swapchain", b).kind = "swapchain" /\ Object("swapchain", b).build = b
        /\ Object("swapchain", s.build).kind = "swapchain"
        /\ Object("swapchain", s.build).build = s.build
    BY DEF Object, BuildOf, MadeFrom
  <2>2. old = <<"swapchain", IF "swapchain" \in K THEN b ELSE 0>>
    BY DEF Has, Name, Kinds, BuildOf
  <2>3. s2.live = {Object(k, b) : k \in K \ {"views"}} \cup {Object("swapchain", s.build)}
    BY <1>1, <1>2 DEF Has
  <2>4. {Object(k, b) : k \in K \ {"views"}} =
          {Object("static", b)} \cup IF "swapchain" \in K THEN {Object("swapchain", b)} ELSE {}
    OBVIOUS
  <2>5. s.build # b /\ s.build # 0
    BY <1>0
  <2>6. s3.live = {Object("static", s.build), Object("swapchain", s.build)}
    BY <1>3, <2>1, <2>2, <2>3, <2>4, <2>5
  <2>7. s3.held = [k \in Kinds |-> IF k \in {"static", "swapchain"} THEN BuildOf(k, s.build) ELSE 0]
    BY <1>1, <1>2, <1>3 DEF Has, BuildOf, Kinds
  <2> QED BY <2>6, <2>7 DEF Has
<1> HIDE DEF s3
<1>5. /\ s4 \in Graph /\ s4.held = s3.held /\ s4.live = s3.live
      /\ SameRest(s4, s)
  BY <1>2, <1>3, RecordFields DEF Kinds
<1>6. Has(s4, {"static", "swapchain"}, s.build)
  BY <1>4, <1>5 DEF Has
<1> HIDE DEF s4
<1>7. BuildSwapchain(s) = Make(s4, "views", MadeFrom("views"))
  <2>1. MadeFrom("swapchain") = {} /\ MadeFrom("views") = {"swapchain"}
    BY DEF MadeFrom
  <2> QED BY <2>1 DEF BuildSwapchain, s1, s2, s3, s4
<1>8. /\ MadeFrom("views") \in SUBSET Kinds /\ MadeFrom("views") \subseteq {"static", "swapchain"}
      /\ "views" \in Kinds /\ "views" \notin {"static", "swapchain"}
      /\ {"static", "swapchain"} \in SUBSET Kinds /\ BuildOf("views", s.build) = s4.build
      /\ {"static", "swapchain"} \cup {"views"} = {"static", "swapchain", "views"}
  BY <1>5 DEF MadeFrom, Kinds, BuildOf
<1>9. Has(BuildSwapchain(s), {"static", "swapchain"} \cup {"views"}, s.build)
  BY <1>0, <1>5, <1>6, <1>7, <1>8, MakeHas
<1>10. s4.build > 0
  BY <1>0, <1>5 DEF Builds
<1>11. BuildSwapchain(s) \in Graph /\ SameRest(BuildSwapchain(s), s4)
  <2>1. s4 \in Graph /\ "views" \in Kinds /\ MadeFrom("views") \in SUBSET Kinds
    BY <1>5, <1>8
  <2>2. Make(s4, "views", MadeFrom("views")) \in Graph
        /\ SameRest(Make(s4, "views", MadeFrom("views")), s4)
    BY <1>10, <2>1, MakeTyped
  <2> QED BY <1>7, <2>2
<1> QED BY <1>5, <1>8, <1>9, <1>11

LEMMA TargetsHas ==
  ASSUME NEW s \in Graph, s.build \in Builds,
         Has(s, {"static", "swapchain", "views"}, s.build)
  PROVE  /\ BuildTargets(s) \in Graph
         /\ Has(BuildTargets(s), {"static", "swapchain", "views", "targets"}, s.build)
         /\ BuildTargets(s).device = s.device /\ BuildTargets(s).build = s.build
         /\ BuildTargets(s).wrong = s.wrong /\ BuildTargets(s).layout = "source"
<1> USE DEF SameRest
<1> DEFINE s1 == Make(s, "targets", MadeFrom("targets"))
           s2 == Record(s1, {"targets"})
           K == {"static", "swapchain", "views"}
<1>1. /\ "targets" \in Kinds \ K /\ {"targets"} \in SUBSET Kinds /\ K \in SUBSET Kinds
      /\ MadeFrom("targets") \in SUBSET Kinds /\ MadeFrom("targets") \subseteq K
      /\ BuildOf("targets", s.build) = s.build /\ s.build > 0
      /\ K \cup {"targets"} = {"static", "swapchain", "views", "targets"}
  BY DEF MadeFrom, Kinds, BuildOf, Builds
<1>2. s1 \in Graph /\ Has(s1, K \cup {"targets"}, s.build) /\ SameRest(s1, s)
  <2>1. s1 \in Graph /\ SameRest(s1, s)
    BY <1>1, MakeTyped
  <2>2. Has(s1, K \cup {"targets"}, s.build)
    BY <1>1, MakeHas
  <2> QED BY <2>1, <2>2
<1> HIDE DEF s1
<1>3. s2 \in Graph /\ s2.held = s1.held /\ s2.live = s1.live
      /\ SameRest(s2, s)
  BY <1>1, <1>2, RecordFields
<1> HIDE DEF s2
<1>4. BuildTargets(s) = SetLayout([s2 EXCEPT !.layout = "attachment"], "attachment", "source")
  <2>1. MadeFrom("targets") = {}
    BY DEF MadeFrom
  <2> QED BY <2>1 DEF BuildTargets, s1, s2
<1>5. /\ BuildTargets(s) \in Graph /\ BuildTargets(s).held = s2.held /\ BuildTargets(s).live = s2.live
      /\ BuildTargets(s).device = s2.device /\ BuildTargets(s).build = s2.build
      /\ BuildTargets(s).wrong = s2.wrong /\ BuildTargets(s).layout = "source"
  BY <1>3, <1>4 DEF SetLayout, Graph
<1> QED BY <1>1, <1>2, <1>3, <1>5 DEF Has

LEMMA PassesHas ==
  ASSUME NEW s \in Graph, s.build \in Builds,
         Has(s, {"static", "swapchain", "views", "targets"}, s.build)
  PROVE  /\ BuildPasses(s) \in Graph /\ Has(BuildPasses(s), Kinds, s.build)
         /\ SameRest(BuildPasses(s), s)
<1> USE DEF SameRest
<1> DEFINE K0 == {"static", "swapchain", "views", "targets"}
           K1 == K0 \cup {"graphicsPass"}
           K2 == K1 \cup {"guiPass"}
           K3 == K2 \cup {"guiPipelines"}
           s1 == Make(s, "graphicsPass", MadeFrom("graphicsPass"))
           s2 == Make(s1, "guiPass", MadeFrom("guiPass"))
           s3 == Make(s2, "guiPipelines", MadeFrom("guiPipelines"))
           s4 == Make(s3, "facePipeline", MadeFrom("facePipeline"))
<1>1. /\ MadeFrom("graphicsPass") = {"targets"} /\ MadeFrom("guiPass") = {"targets"}
      /\ MadeFrom("guiPipelines") = {"guiPass", "static"}
      /\ MadeFrom("facePipeline") = {"graphicsPass", "static"}
  BY DEF MadeFrom
<1>2. BuildPasses(s) = s4
  BY <1>1 DEF BuildPasses
<1>3. ASSUME NEW r \in Graph, NEW K \in SUBSET Kinds, NEW k \in Kinds \ {"static"}, k \notin K,
             MadeFrom(k) \subseteq K, r.build = s.build, Has(r, K, s.build)
      PROVE  /\ Make(r, k, MadeFrom(k)) \in Graph /\ Has(Make(r, k, MadeFrom(k)), K \cup {k}, s.build)
             /\ SameRest(Make(r, k, MadeFrom(k)), r)
  <2>1. r.build > 0 /\ MadeFrom(k) \in SUBSET Kinds /\ BuildOf(k, s.build) = r.build /\ k \in Kinds \ K
    BY <1>3 DEF Builds, BuildOf
  <2> QED BY <1>3, <2>1, MakeFields, MakeHas
<1>4. {"graphicsPass", "guiPass", "guiPipelines", "facePipeline"} \cup K0 = Kinds
  BY DEF Kinds
<1>5. /\ s1 \in Graph /\ Has(s1, K1, s.build)
      /\ SameRest(s1, s)
  BY <1>1, <1>3, <1>4
<1> HIDE DEF s1
<1>6. /\ s2 \in Graph /\ Has(s2, K2, s.build)
      /\ SameRest(s2, s)
  BY <1>1, <1>3, <1>4, <1>5
<1> HIDE DEF s2
<1>7. /\ s3 \in Graph /\ Has(s3, K3, s.build)
      /\ SameRest(s3, s)
  BY <1>1, <1>3, <1>4, <1>6
<1> HIDE DEF s3
<1>8. /\ s4 \in Graph /\ Has(s4, K3 \cup {"facePipeline"}, s.build)
      /\ SameRest(s4, s)
  BY <1>1, <1>3, <1>4, <1>7
<1>9. K3 \cup {"facePipeline"} = Kinds
  BY <1>4
<1> QED BY <1>2, <1>8, <1>9

\* onSize leaves one complete set of objects, whether or not there was one before.
LEMMA SizeHas ==
  ASSUME NEW s \in Graph, s.device, s.build \in Builds, s.build < MaxBuilds,
         Has(s, Kinds, s.build) \/ Has(s, {"static"}, s.build)
  PROVE  /\ OnSize(s) \in Graph /\ OnSize(s).device /\ OnSize(s).build = s.build + 1
         /\ Has(OnSize(s), Kinds, OnSize(s).build)
         /\ OnSize(s).layout = "source" /\ OnSize(s).wrong = s.wrong
<1> USE DEF SameRest
<1> DEFINE s1 == Destroy(s, SwapchainUsers)
           s2 == [s1 EXCEPT !.build = @ + 1]
           s3 == BuildSwapchain(s2)
           s4 == BuildTargets(s3)
           s5 == BuildPasses(s4)
<1>1. PICK K \in SUBSET Kinds : K \in {Kinds, {"static"}} /\ Has(s, K, s.build)
  BY DEF Kinds
<1>2. /\ s1 \in Graph /\ SameRest(s1, s)
      /\ Has(s1, K \ SwapchainUsers, s.build)
  BY <1>1, DestroyFields, DestroyHas DEF SwapchainUsers, Kinds
<1> HIDE DEF s1
<1>3. /\ s2 \in Graph /\ s2.device /\ s2.build = s.build + 1 /\ s2.wrong = s.wrong
      /\ s2.held = s1.held /\ s2.live = s1.live
  <2>1. s1.build = s.build /\ s.build + 1 \in 0 .. MaxBuilds
    BY <1>2, WindowAssumption DEF Builds
  <2> QED BY <1>2, <2>1 DEF Graph
<1>4. Has(s2, K \ SwapchainUsers, s.build)
  BY <1>2, <1>3 DEF Has
<1> HIDE DEF s2
<1>5. K \ SwapchainUsers \subseteq {"static", "swapchain", "views"} /\ "static" \in K \ SwapchainUsers
  BY <1>1 DEF SwapchainUsers, Kinds
<1>6. s2.build \in Builds
  BY <1>3, WindowAssumption DEF Builds
<1>7. /\ s3 \in Graph /\ Has(s3, {"static", "swapchain", "views"}, s2.build)
      /\ SameRest(s3, s2)
  BY <1>3, <1>4, <1>5, SwapchainHas
<1> HIDE DEF s3
<1>8. /\ s4 \in Graph /\ Has(s4, {"static", "swapchain", "views", "targets"}, s2.build)
      /\ s4.device = s2.device /\ s4.build = s2.build /\ s4.wrong = s2.wrong /\ s4.layout = "source"
  BY <1>6, <1>7, TargetsHas
<1> HIDE DEF s4
<1>9. /\ s5 \in Graph /\ Has(s5, Kinds, s2.build)
      /\ SameRest(s5, s4)
  BY <1>6, <1>8, PassesHas
<1> HIDE DEF s5
<1>10. OnSize(s) = s5
  BY DEF OnSize, s1, s2, s3, s4, s5
<1> QED BY <1>3, <1>8, <1>9, <1>10

LEMMA CreateHas ==
  ASSUME NEW s, s = OnCreate([NoObjects EXCEPT !.device = TRUE, !.build = 1])
  PROVE  s \in Graph /\ s.device /\ s.build = 1 /\ ~s.wrong /\ Has(s, {"static"}, 1)
<1> USE DEF SameRest
<1> DEFINE s0 == [NoObjects EXCEPT !.device = TRUE, !.build = 1]
           s1 == Make(s0, "static", MadeFrom("static"))
<1>1. s0 \in Graph /\ s0.device /\ s0.build = 1 /\ ~s0.wrong /\ Has(s0, {}, 1)
  <2>1. [k \in Kinds |-> 0] \in [Kinds -> 0 .. MaxBuilds] /\ 1 \in 0 .. MaxBuilds /\ 0 \in 0 .. MaxBuilds
    BY WindowAssumption
  <2>2. NoObjects \in Graph /\ NoObjects.held = [k \in Kinds |-> 0] /\ NoObjects.live = {}
        /\ ~NoObjects.wrong
    BY <2>1 DEF NoObjects, Graph
  <2>3. s0 \in Graph /\ s0.device /\ s0.build = 1 /\ s0.wrong = NoObjects.wrong
        /\ s0.held = NoObjects.held /\ s0.live = NoObjects.live
    BY <2>1, <2>2 DEF Graph
  <2> HIDE DEF s0
  <2> QED BY <2>2, <2>3 DEF Has
<1> HIDE DEF s0
<1>2. /\ "static" \in Kinds \ {} /\ {"static"} \in SUBSET Kinds /\ {} \in SUBSET Kinds /\ 1 \in Builds
      /\ MadeFrom("static") \in SUBSET Kinds /\ MadeFrom("static") \subseteq {}
      /\ BuildOf("static", 1) = s0.build /\ s0.build > 0 /\ {} \cup {"static"} = {"static"}
  BY <1>1, WindowAssumption DEF MadeFrom, Kinds, BuildOf, Builds
<1>3. s1 \in Graph /\ SameRest(s1, s0)
  BY <1>1, <1>2, MakeTyped
<1>4. Has(s1, {} \cup {"static"}, 1)
  BY <1>1, <1>2, MakeHas
<1> HIDE DEF s1
<1>5. s = Record(s1, {"static"})
  <2>1. MadeFrom("static") = {}
    BY DEF MadeFrom
  <2> QED BY <2>1 DEF OnCreate, s0, s1
<1>6. s \in Graph /\ s.held = s1.held /\ s.live = s1.live /\ SameRest(s, s1)
  BY <1>2, <1>3, <1>5, RecordFields
<1> QED BY <1>1, <1>2, <1>3, <1>4, <1>6 DEF Has

\* onIdle changes the layout of the color image and submits what was recorded.
LEMMA ColorFields ==
  ASSUME NEW s \in Graph, NEW old, NEW new \in {"attachment", "source"}
  PROVE  LET r == Flush(SetLayout(s, old, new)) IN
         /\ r \in Graph /\ r.layout = new /\ r.held = s.held /\ r.live = s.live
         /\ r.device = s.device /\ r.build = s.build
         /\ ~s.wrong /\ s.layout = old => ~r.wrong
BY DEF Flush, SetLayout, Graph

Layout(at) == IF at \in {"record", "present"} THEN "attachment" ELSE "source"

\* The objects in each phase of the window, and the layout of the color image at each
\* point of onIdle.
ObjectsInv ==
  /\ g \in Graph /\ ~g.wrong
  /\ phase = "none" => g = NoObjects
  /\ phase = "open" => g.device /\ g.build \in Builds /\ Has(g, Kinds, g.build)
  /\ phase = "open" => g.layout = Layout(fpc)
  /\ fpc # "rest" => phase = "open" /\ ~quit /\ ~pump
  /\ phase = "closed" =>
       ~quit /\ g.device /\ g.build \in Builds /\ Has(g, {"swapchain", "views"}, g.build)
  /\ phase = "done" =>
       /\ g.build \in Builds /\ g.live \subseteq {Object(k, g.build) : k \in Kinds}
       /\ ~quit => \A o \in g.live : o.kind = "views"

\* The values of the variables that belong to the window alone.
Sized ==
  /\ phase \in {"none", "open", "closed", "done"}
  /\ quit \in BOOLEAN /\ pump \in BOOLEAN /\ drag \in BOOLEAN /\ sizing \in BOOLEAN /\ stale \in BOOLEAN
  /\ client \in Sizes /\ frame \in Sizes \cup {0} /\ extent \in Sizes \cup {0}

LEMMA StepKeepsSized ==
  ASSUME Sized, [Next]_vars
  PROVE  Sized'
<1> USE DEF Sized, window, Looping, Pumping
<1>1. CASE Create
  BY <1>1 DEF Create
<1>2. CASE EnterSizeMove \/ EndPump \/ KeyDown \/ SurfaceChanges \/ Close \/ Quit \/ Return
  BY <1>2 DEF EnterSizeMove, EndPump, KeyDown, SurfaceChanges, Close, Quit, Return
<1>3. CASE ExitSizeMove
  BY <1>3 DEF ExitSizeMove, Rebuild, SizingReset
<1>4. ASSUME NEW w \in Sizes, Size(w) PROVE Sized'
  <2>1. CASE sizing
    BY <1>4, <2>1 DEF Size
  <2>2. CASE ~sizing
    BY <1>4, <2>2 DEF Size, Rebuild
  <2> QED BY <2>1, <2>2
<1>5. CASE Idle \/ IdleAdds
  <2>1. pump' \in BOOLEAN
    BY <1>5 DEF Idle, IdleBegins, IdleAdds, IdleSubmits, IdlePresents, IdleAcquires, IdleCopies
  <2>2. UNCHANGED window
    BY <1>5 DEF Idle, IdleBegins, IdleAdds, IdleSubmits, IdlePresents, IdleAcquires, IdleCopies
  <2> QED BY <2>1, <2>2
<1>6. CASE EngineRuns
  BY <1>6 DEF EngineRuns
<1>7. CASE UNCHANGED vars
  BY <1>7 DEF vars
<1> QED BY <1>1, <1>2, <1>3, <1>4, <1>5, <1>6, <1>7 DEF Next

LEMMA RebuildKeepsObjects ==
  ASSUME ObjectsInv, phase = "open", UNCHANGED <<phase, quit>>, NEW w, Rebuild(w)
  PROVE  ObjectsInv'
<1>1. /\ OnSize(g) \in Graph /\ OnSize(g).device /\ OnSize(g).build = g.build + 1
      /\ Has(OnSize(g), Kinds, OnSize(g).build)
      /\ OnSize(g).layout = "source" /\ OnSize(g).wrong = g.wrong
  BY SizeHas DEF ObjectsInv, Rebuild
<1>2. g' = OnSize(g) /\ fpc' = "rest" /\ g.build < MaxBuilds
  BY DEF Rebuild, NewSwapchain
<1>3. g'.build \in Builds
  BY <1>1, <1>2, WindowAssumption DEF ObjectsInv, Builds
<1> QED BY <1>1, <1>2, <1>3 DEF ObjectsInv, Layout

LEMMA CreateKeepsObjects ==
  ASSUME ObjectsInv, Create
  PROVE  ObjectsInv'
<1> DEFINE s == OnCreate([NoObjects EXCEPT !.device = TRUE, !.build = 1])
<1>1. g' = OnSize(s) /\ phase' = "open" /\ fpc' = "rest"
  BY DEF Create, ObjectsInv, NewSwapchain
<1>2. s \in Graph /\ s.device /\ s.build = 1 /\ ~s.wrong /\ Has(s, {"static"}, 1)
  BY CreateHas
<1> HIDE DEF s
<1>3. 1 \in Builds /\ 1 < MaxBuilds /\ 2 \in Builds
  BY WindowAssumption DEF Builds
<1>4. /\ OnSize(s) \in Graph /\ OnSize(s).device /\ OnSize(s).build = 2
      /\ Has(OnSize(s), Kinds, OnSize(s).build)
      /\ OnSize(s).layout = "source" /\ OnSize(s).wrong = s.wrong
  BY <1>2, <1>3, SizeHas
<1> QED BY <1>1, <1>2, <1>3, <1>4 DEF ObjectsInv, Layout

LEMMA KeyDownKeepsObjects ==
  ASSUME ObjectsInv, KeyDown
  PROVE  ObjectsInv'
<1> USE DEF SameRest
<1> DEFINE s1 == Destroy(g, {"facePipeline"})
           s2 == Make(s1, "facePipeline", MadeFrom("facePipeline"))
           K == Kinds \ {"facePipeline"}
<1>1. phase = "open" /\ UNCHANGED <<phase, quit, pump, fpc>>
  BY DEF KeyDown, Pumping, Looping, drawing, display
<1>2. g' = s2
  BY DEF KeyDown, MadeFrom
<1>3. {"facePipeline"} \in SUBSET Kinds /\ Kinds \in SUBSET Kinds
  BY DEF Kinds
<1>4. s1 \in Graph /\ SameRest(s1, g)
  BY <1>3, DestroyFields DEF ObjectsInv
<1>5. Has(s1, K, g.build)
  BY <1>1, <1>3, DestroyHas DEF ObjectsInv
<1> HIDE DEF s1
<1>6. /\ "facePipeline" \in Kinds \ K /\ K \in SUBSET Kinds
      /\ MadeFrom("facePipeline") \in SUBSET Kinds /\ MadeFrom("facePipeline") \subseteq K
      /\ K \cup {"facePipeline"} = Kinds
  BY DEF MadeFrom, Kinds
<1>7. s1.build \in Builds /\ s1.build > 0 /\ s1.build = BuildOf("facePipeline", g.build)
  BY <1>1, <1>4 DEF ObjectsInv, Builds, BuildOf
<1>8. s2 \in Graph /\ SameRest(s2, s1)
  BY <1>4, <1>6, <1>7, MakeTyped
<1>9. Has(s2, K \cup {"facePipeline"}, g.build)
  BY <1>1, <1>4, <1>5, <1>6, <1>7, MakeHas DEF ObjectsInv
<1> QED BY <1>1, <1>2, <1>4, <1>6, <1>8, <1>9 DEF ObjectsInv

LEMMA DrawingKeepsObjects ==
  ASSUME ObjectsInv, Idle \/ IdleAdds \/ EngineRuns,
         fpc \in {"rest", "record", "present", "acquire", "copy"}
  PROVE  ObjectsInv'
<1>1. UNCHANGED <<phase, quit>>
  BY DEF Idle, IdleBegins, IdleAdds, IdleSubmits, IdlePresents, IdleAcquires, IdleCopies, EngineRuns, window
<1>2. CASE IdleBegins
  <2>1. phase = "open" /\ fpc = "rest" /\ fpc' = "record" /\ pump' = pump /\ ~pump /\ ~quit
    BY <1>2 DEF IdleBegins, Looping, StartFrame, Submit
  <2>2. g' = Flush(SetLayout(g, "source", "attachment")) /\ g.layout = "source" /\ g \in Graph
    BY <1>2, <2>1 DEF IdleBegins, TakeColor, ObjectsInv, Layout
  <2>3. g' \in Graph /\ g'.layout = "attachment" /\ g'.held = g.held /\ g'.live = g.live
        /\ g'.device = g.device /\ g'.build = g.build /\ ~g'.wrong
    BY <2>2, ColorFields DEF ObjectsInv
  <2> QED BY <1>1, <2>1, <2>3 DEF ObjectsInv, Layout, Has
<1>3. CASE IdlePresents
  <2>1. phase = "open" /\ fpc = "present" /\ fpc' = "acquire" /\ pump' = pump /\ ~pump /\ ~quit
    BY <1>3 DEF IdlePresents, FlushFrame, Submit, ObjectsInv
  <2>2. g' = Flush(SetLayout(g, "attachment", "source")) /\ g.layout = "attachment" /\ g \in Graph
    BY <1>3, <2>1 DEF IdlePresents, HandBackColor, ObjectsInv, Layout
  <2>3. g' \in Graph /\ g'.layout = "source" /\ g'.held = g.held /\ g'.live = g.live
        /\ g'.device = g.device /\ g'.build = g.build /\ ~g'.wrong
    BY <2>2, ColorFields DEF ObjectsInv
  <2> QED BY <1>1, <2>1, <2>3 DEF ObjectsInv, Layout, Has
<1>4. CASE IdleSubmits
  BY <1>1, <1>4 DEF IdleSubmits, SubmitFrame, Submit, ObjectsInv, Layout
<1>5. CASE IdleAcquires
  <2>1. fpc = "acquire" /\ fpc' \in {"rest", "copy"} /\ g' = g
    BY <1>5 DEF IdleAcquires, OutOfDate, Acquire
  <2>2. fpc' # "rest" => ~pump'
    BY <1>5 DEF IdleAcquires
  <2> QED BY <1>1, <2>1, <2>2 DEF ObjectsInv, Layout
<1>6. CASE IdleCopies
  BY <1>1, <1>6 DEF IdleCopies, Present, ObjectsInv, Layout
<1>7. CASE IdleAdds
  BY <1>1, <1>7 DEF IdleAdds, display, ObjectsInv
<1>8. CASE EngineRuns
  BY <1>1, <1>8 DEF EngineRuns, Engine, Signal, ExecutePresent, Flip, ObjectsInv
<1> QED BY <1>2, <1>3, <1>4, <1>5, <1>6, <1>7, <1>8 DEF Idle

\* The window is closed, or WinMain destroys it.
LEMMA EndKeepsObjects ==
  ASSUME ObjectsInv, Close \/ Return
  PROVE  ObjectsInv'
<1> USE DEF SameRest
<1> DEFINE D == Kinds \ {"swapchain", "views"}
<1>1. D \in SUBSET Kinds /\ {"swapchain"} \in SUBSET Kinds /\ Kinds \in SUBSET Kinds
      /\ Kinds \ D = {"swapchain", "views"} /\ {"swapchain", "views"} \in SUBSET Kinds
      /\ {"swapchain", "views"} \ {"swapchain"} = {"views"}
  BY DEF Kinds
<1> HIDE DEF D
<1>2. \A s : OnDestroy(s) = Destroy(s, D)
  BY DEF OnDestroy, D
<1>3. CASE Close
  <2>1. phase = "open" /\ ~quit /\ phase' = "closed" /\ quit' = quit /\ pump /\ fpc' = fpc
        /\ g' = Destroy(g, D)
    BY <1>2, <1>3 DEF Close, Pumping, Looping, drawing, display
  <2>2. g' \in Graph /\ SameRest(g', g)
    BY <1>1, <2>1, DestroyFields DEF ObjectsInv
  <2>3. Has(g', Kinds \ D, g.build)
    BY <1>1, <2>1, DestroyHas DEF ObjectsInv
  <2> QED BY <1>1, <2>1, <2>2, <2>3 DEF ObjectsInv
<1>4. CASE Return
  <2> DEFINE s1 == Destroy(g, {"swapchain"})
             s2 == DestroyContext(g)
  <2>1. /\ phase' = "done" /\ quit' = quit /\ fpc' = fpc /\ pump' = pump
        /\ phase = "closed" \/ (phase = "open" /\ quit)
        /\ g' = IF phase = "open" THEN Destroy(s2, D) ELSE s2
    BY <1>2, <1>4 DEF Return, drawing, display
  <2>2. s1 \in Graph /\ SameRest(s1, g)
    BY <1>1, DestroyFields DEF ObjectsInv
  <2>3. s2 \in Graph /\ s2.live = s1.live /\ s2.device = FALSE /\ s2.build = g.build /\ s2.wrong = g.wrong
    BY <2>2 DEF DestroyContext, Flush, Graph
  <2>4. g.device /\ g.build \in Builds /\ fpc = "rest"
    BY <2>1 DEF ObjectsInv
  <2>5. CASE phase = "closed"
    <3>1. Has(s1, {"views"}, g.build)
      BY <1>1, <2>4, <2>5, DestroyHas DEF ObjectsInv
    <3> HIDE DEF s1, s2
    <3>2. "views" \in Kinds /\ Object("views", g.build).kind = "views"
      BY DEF Kinds, Object
    <3>3. g' = s2 /\ g'.live = {Object("views", g.build)}
      BY <2>1, <2>3, <2>5, <3>1 DEF Has
    <3> QED BY <2>1, <2>3, <2>4, <2>5, <3>2, <3>3 DEF ObjectsInv
  <2>6. CASE phase = "open" /\ quit
    <3>1. Has(s1, Kinds \ {"swapchain"}, g.build)
      BY <1>1, <2>4, <2>6, DestroyHas DEF ObjectsInv
    <3> HIDE DEF s1, s2
    <3>2. s2.live \subseteq {Object(k, g.build) : k \in Kinds}
      BY <2>3, <3>1 DEF Has
    <3>3. g' = Destroy(s2, D)
      BY <2>1, <2>6
    <3>4. g' \in Graph /\ SameRest(g', s2)
      BY <1>1, <2>3, <3>3, DestroyFields
    <3>5. g'.live = s2.live
      BY <1>1, <2>3, <3>3, DestroyFields
    <3> QED BY <2>1, <2>3, <2>4, <2>6, <3>2, <3>4, <3>5 DEF ObjectsInv
  <2> QED BY <2>1, <2>5, <2>6
<1> QED BY <1>3, <1>4

LEMMA StepKeepsObjects ==
  ASSUME ObjectsInv, fpc \in {"rest", "record", "present", "acquire", "copy"}, [Next]_vars
  PROVE  ObjectsInv'
<1>1. CASE Create
  BY <1>1, CreateKeepsObjects
<1>2. CASE ExitSizeMove
  BY <1>2, RebuildKeepsObjects DEF ExitSizeMove, Pumping, Looping
<1>3. ASSUME NEW w \in Sizes, Size(w) PROVE ObjectsInv'
  <2>1. CASE sizing
    BY <1>3, <2>1 DEF Size, drawing, display, ObjectsInv
  <2>2. CASE ~sizing
    BY <1>3, <2>2, RebuildKeepsObjects DEF Size, Pumping, Looping
  <2> QED BY <2>1, <2>2
<1>4. CASE KeyDown
  BY <1>4, KeyDownKeepsObjects
<1>5. CASE Idle \/ IdleAdds \/ EngineRuns
  BY <1>5, DrawingKeepsObjects
<1>6. CASE Close \/ Return
  BY <1>6, EndKeepsObjects
<1>7. CASE EnterSizeMove \/ EndPump \/ SurfaceChanges \/ Quit
  BY <1>7 DEF EnterSizeMove, EndPump, SurfaceChanges, Quit, Pumping, Looping, drawing, display, ObjectsInv
<1>8. CASE UNCHANGED vars
  BY <1>8 DEF vars, display, ObjectsInv
<1> QED BY <1>1, <1>2, <1>3, <1>4, <1>5, <1>6, <1>7, <1>8 DEF Next

LEMMA StepKeepsDisplayTyped ==
  ASSUME PresentationTypeOK, [PresentationNext]_display
  PROVE  PresentationTypeOK'
<1> USE DEF PresentationTypeOK
<1>1. CASE StartFrame \/ SubmitFrame \/ FlushFrame
  BY <1>1 DEF StartFrame, SubmitFrame, FlushFrame, Submit
<1>2. CASE OutOfDate
  BY <1>2 DEF OutOfDate
<1>3. CASE Present
  <2>1. PICK i \in held : queue' = Append(queue, i)
    BY <1>3 DEF Present
  <2>2. queue' \in Seq(Nat)
    BY <2>1
  <2> QED BY <1>3, <2>2 DEF Present
<1>4. CASE \E r \in {"success", "suboptimal"} : Acquire(r)
  <2>1. PICK i \in Free : held' = held \cup {i}
    BY <1>4 DEF Acquire
  <2>2. i \in Nat
    BY DEF Free, Images
  <2> QED BY <1>4, <2>1, <2>2 DEF Acquire, Semaphores
<1>5. CASE NewSwapchain
  <2>1. queue' \in Seq(Nat)
    BY <1>5 DEF NewSwapchain
  <2> QED BY <1>5, <2>1 DEF NewSwapchain
<1>6. CASE Signal
  BY <1>6 DEF Signal, Semaphores
<1>7. CASE ExecutePresent
  <2>1. queue' \in Seq(Nat) /\ Head(queue) \in Nat
    BY <1>7 DEF ExecutePresent
  <2>2. line' \in Seq(Nat)
    <3>1. <<Head(queue)>> \in Seq(Nat) /\ Append(line, Head(queue)) \in Seq(Nat)
      BY <2>1
    <3> QED BY <1>7, <3>1 DEF ExecutePresent, InLineWith
  <2> QED BY <1>7, <2>1, <2>2 DEF ExecutePresent, Semaphores
<1>8. CASE Flip
  <2>1. line' \in Seq(Nat) /\ Head(line) \in Nat
    BY <1>8 DEF Flip
  <2> QED BY <1>8, <2>1 DEF Flip
<1>9. CASE UNCHANGED display
  BY <1>9 DEF display
<1> QED BY <1>1, <1>2, <1>3, <1>4, <1>5, <1>6, <1>7, <1>8, <1>9
      DEF PresentationNext, Frame, Engine

WindowInv == Sized /\ PresentationTypeOK /\ ObjectsInv

LEMMA InvariantOfWindow == Spec => []WindowInv
<1>1. Init => WindowInv
  <2> SUFFICES ASSUME Init PROVE WindowInv
    OBVIOUS
  <2>1. PresentationTypeOK
    BY DEF Init, PresentationInit, PresentationTypeOK, Semaphores
  <2>2. g \in Graph /\ ~g.wrong
    BY WindowAssumption DEF Init, NoObjects, Graph
  <2> QED BY <2>1, <2>2 DEF Init, PresentationInit, WindowInv, Sized, ObjectsInv
<1>2. WindowInv /\ [Next]_vars => WindowInv'
  BY StepKeepsSized, StepKeepsDisplayTyped, WindowMovesDisplay, StepKeepsObjects
     DEF WindowInv, PresentationTypeOK
<1> QED BY <1>1, <1>2, PTL DEF Spec

\* Type correctness of the window, its frames and its objects, for any sizes, any
\* surface and any number of rebuilds.
THEOREM WindowTyped == Spec => []TypeOK
<1>1. WindowInv /\ BatchInv => TypeOK
  <2> SUFFICES ASSUME WindowInv, BatchInv PROVE TypeOK
    OBVIOUS
  <2>1. \A o \in g.live : o.uses \subseteq Kinds \X Builds
    <3>1. CASE phase = "none"
      BY <3>1 DEF WindowInv, ObjectsInv, NoObjects
    <3>2. CASE phase # "none"
      <4>1. g.build \in Builds /\ g.live \subseteq {Object(k, g.build) : k \in Kinds}
        BY <3>2 DEF WindowInv, Sized, ObjectsInv, Has, Kinds
      <4> QED BY <4>1, ObjectTyped
    <3> QED BY <3>1, <3>2
  <2>2. g \in Graph
    BY DEF WindowInv, ObjectsInv
  <2>3. \A o \in g.live : o.kind \in Kinds /\ o.build \in Builds
    BY <2>2 DEF Graph, Objects, Builds
  <2> QED BY <2>1, <2>2, <2>3 DEF WindowInv, Sized, Graph, BatchInv, TypeOK, Builds
<1>2. Init => BatchInit
  BY DEF Init
<1>3. Spec => []BatchInv
  BY <1>2, WindowMovesBatch, InvariantOfBatch, PTL DEF Spec, BatchSpec
<1> QED BY <1>1, <1>3, InvariantOfWindow, PTL

\* Through every resize nothing outlives what it was made from, no handle to a live
\* object is lost and none is left over (onSize, buildSwapchain and onKeyDown).
THEOREM WindowObjectsFit == Spec => []ObjectsFit
<1>1. WindowInv => ObjectsFit
  <2> SUFFICES ASSUME WindowInv, Looping PROVE NoDangling /\ NothingLost
    BY DEF ObjectsFit, NoDangling, NothingLost
  <2>1. g.build \in Builds /\ Has(g, Kinds, g.build)
    BY DEF WindowInv, ObjectsInv, Looping
  <2>2. Live(g) = {<<k, BuildOf(k, g.build)>> : k \in Kinds}
    BY <2>1, ObjectTyped DEF Live, Has
  <2>3. NoDangling
    BY <2>1, <2>2, ObjectTyped DEF NoDangling, Has
  <2>4. \A k \in Kinds : g.held[k] = BuildOf(k, g.build) /\ g.held[k] # 0
    BY <2>1 DEF Has, BuildOf, Builds
  <2>5. NothingLost
    BY <2>2, <2>4 DEF NothingLost, Name
  <2> QED BY <2>3, <2>5
<1> QED BY <1>1, InvariantOfWindow, PTL

\* Each barrier on the color image names the layout the one before left it in.
THEOREM WindowLayoutsFollow == Spec => []LayoutsFollow
<1>1. WindowInv => LayoutsFollow
  BY DEF WindowInv, ObjectsInv, LayoutsFollow
<1> QED BY <1>1, InvariantOfWindow, PTL

\* A window that is closed leaves nothing to the device but the swapchain's views
\* (onDestroy and Context::destroy).
THEOREM WindowCloseReleases == Spec => []CloseReleases
<1>1. WindowInv => CloseReleases
  BY DEF WindowInv, ObjectsInv, CloseReleases
<1> QED BY <1>1, InvariantOfWindow, PTL
=============================================================================
