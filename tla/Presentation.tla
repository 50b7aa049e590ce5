---------------------------- MODULE Presentation ----------------------------
(***************************************************************************)
(* How a frame of onIdle (VKTest/main.cpp) gets to the screen:             *)
(* Context::flush and Context::present, the images of the swapchain that   *)
(* buildSwapchain asks for, the semaphores, the queue of the device and    *)
(* the presentation engine.                                                *)
(*                                                                         *)
(* The queue works in order and everything that is submitted to it is      *)
(* waited for by the program, but for the presentation itself: that stays  *)
(* in the queue until its semaphore is signalled.  The engine signals it   *)
(* when it no longer reads the image it has given.                         *)
(***************************************************************************)
EXTENDS Naturals, Sequences

CONSTANT Surfaces   \* what the surface may offer: minImageCount, maxImageCount, mailbox
ASSUME SurfacesAssumption ==
  \A s \in Surfaces : s.min \in Nat \ {0} /\ s.max \in Nat /\ (s.max = 0 \/ s.min <= s.max)

VARIABLES
  fpc,       \* where onIdle is: "rest" (not called), "record", "present", "acquire", "copy"
  surface,   \* the capabilities and the mode the swapchain was made with
  sem,       \* the two semaphores: "idle", "pending" (to be signalled) or "set"
  queue,     \* presentations waiting in the queue of the device; 0: of an old swapchain
  held,      \* images that were acquired and not yet presented
  line,      \* images presented and waiting to be shown
  shown      \* the image on the screen (0: none)
display == <<fpc, surface, sem, queue, held, line, shown>>

Semaphores == {"imageAvailable", "renderingFinished"}

\* One image more than the engine needs, or as many as there may be.
ImageCount(s) == IF s.max > 0 /\ s.min + 1 > s.max THEN s.max ELSE s.min + 1
Images == 1 .. ImageCount(surface)
InLine == {line[k] : k \in 1 .. Len(line)}
Free == Images \ (held \cup InLine \cup {shown})

\* Mutant: what was submitted is not waited for.
FlushedAtOnce == TRUE

\* vkQueueWaitIdle: all that was submitted is done, the presentation before it too.
Flushed == queue = <<>>

---------------------------------------------------------------------------
\* onIdle flushes its barriers; records and submits its commands; and flushes
\* the barriers after them at the beginning of present.
Submit(here, next) ==
  /\ fpc = here /\ Flushed
  /\ fpc' = next
  /\ UNCHANGED <<surface, sem, queue, held, line, shown>>

StartFrame == Submit("rest", "record")
SubmitFrame == Submit("record", "present")
FlushFrame == Submit("present", "acquire")

\* Mutant: suboptimal is taken for a failure, though the image was acquired.
GivesUpSuboptimal(result) == result # "success"

\* present returns when it has got no image.
GivesUp(result) == result \notin {"success", "suboptimal"}

\* vkAcquireNextImageKHR: an image, possibly with the remark that it does not match
\* the surface any more.
Acquire(result) ==
  /\ fpc = "acquire"
  /\ \E i \in Free : held' = held \cup {i}
  /\ sem' = [sem EXCEPT !["imageAvailable"] = "pending"]
  /\ fpc' = IF GivesUp(result) THEN "rest" ELSE "copy"
  /\ UNCHANGED <<surface, queue, line, shown>>

\* VK_ERROR_OUT_OF_DATE_KHR.
OutOfDate ==
  /\ fpc = "acquire"
  /\ fpc' = "rest"
  /\ UNCHANGED <<surface, sem, queue, held, line, shown>>

\* The copy to the image, flushed, and vkQueuePresentKHR, whose result the code
\* ignores: a presentation that is refused takes its turn in the queue as well.
Present ==
  /\ fpc = "copy" /\ Flushed
  /\ \E i \in held : queue' = Append(queue, i)
  /\ fpc' = "rest"
  /\ UNCHANGED <<surface, sem, held, line, shown>>

\* buildSwapchain: what was presented of the old swapchain is the platform's.
NewSwapchain ==
  /\ fpc = "rest"
  /\ surface' \in Surfaces
  /\ queue' = [k \in 1 .. Len(queue) |-> 0]
  /\ held' = {} /\ line' = <<>> /\ shown' = 0
  /\ UNCHANGED <<fpc, sem>>

---------------------------------------------------------------------------
(* The presentation engine.                                                *)

\* It has done with the image it gave.
Signal ==
  /\ sem["imageAvailable"] = "pending"
  /\ sem' = [sem EXCEPT !["imageAvailable"] = "set"]
  /\ UNCHANGED <<fpc, surface, queue, held, line, shown>>

\* Mutant: the other semaphore, which nothing signals.
WaitsForRendering == "renderingFinished"

\* The semaphore that vkQueuePresentKHR is given to wait for.
WaitsFor == "imageAvailable"

\* The image joins those that wait to be shown.  In mailbox mode it replaces them.
InLineWith(i) == IF surface.mailbox THEN <<i>> ELSE Append(line, i)

\* The presentation at the head of the queue waits for its semaphore.  One that was
\* refused, as out of date, does so too and gives its image back without showing it.
ExecutePresent ==
  /\ queue # <<>> /\ sem[WaitsFor] = "set"
  /\ sem' = [sem EXCEPT ![WaitsFor] = "idle"]
  /\ queue' = Tail(queue)
  /\ held' = held \ {Head(queue)}
  /\ \/ line' = line
     \/ Head(queue) # 0 /\ line' = InLineWith(Head(queue))
  /\ UNCHANGED <<fpc, surface, shown>>

\* The next image is shown.  An engine that needs one image only keeps none.
Flip ==
  /\ line # <<>>
  /\ shown' = IF surface.min > 1 THEN Head(line) ELSE 0
  /\ line' = Tail(line)
  /\ UNCHANGED <<fpc, surface, sem, queue, held>>

Engine == Signal \/ ExecutePresent \/ Flip

PresentationInit ==
  /\ fpc = "rest" /\ surface \in Surfaces
  /\ sem = [s \in Semaphores |-> "idle"]
  /\ queue = <<>> /\ held = {} /\ line = <<>> /\ shown = 0
Frame == StartFrame \/ SubmitFrame \/ FlushFrame \/ OutOfDate \/ Present
         \/ \E r \in {"success", "suboptimal"} : Acquire(r)
PresentationNext == Frame \/ NewSwapchain \/ Engine
PresentationSpec == PresentationInit /\ [][PresentationNext]_display

---------------------------------------------------------------------------
PresentationTypeOK ==
  /\ fpc \in {"rest", "record", "present", "acquire", "copy"}
  /\ surface \in Surfaces
  /\ sem \in [Semaphores -> {"idle", "pending", "set"}]
  /\ queue \in Seq(Nat) /\ held \subseteq Nat /\ line \in Seq(Nat) /\ shown \in Nat

\* When an image is asked for, no operation on its semaphore is outstanding and the
\* program holds no other image: with one semaphore for all frames, this rests on the
\* wait of the frame after and on presenting every image that was acquired.
AcquireReady ==
  fpc = "acquire" => sem["imageAvailable"] = "idle" /\ held = {}

\* VKContext.cpp:286: "Create semaphores to synchronize swapping images between the
\* back buffer and the screen".  The image is written only when the engine no longer
\* reads it.  The code does not keep it: the copy is submitted by flush, which
\* waits for no semaphore.
NotTorn == [][Present => sem["imageAvailable"] = "set"]_display
=============================================================================
