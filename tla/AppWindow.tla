------------------------------ MODULE AppWindow ------------------------------
(***************************************************************************)
(* The life of a window and of the Vulkan objects that depend on it:       *)
(* VK::Window (creation, window procedure, message loop), the parts of     *)
(* VK::Context it calls, and the handlers of the test program (onCreate,   *)
(* onSize, onIdle, onKeyDown, onDestroy).                                  *)
(*                                                                         *)
(* All of it runs in one thread: each action is one message handled to its *)
(* end, or one part of onIdle, which waits for the device (Presentation)   *)
(* and collects its GUI elements (Batch).  Run calls onIdle once, then     *)
(* handles all the messages there are, and so on; the user, the display    *)
(* and whoever posts WM_QUIT decide which messages those are.  While the   *)
(* user drags the frame of the window, Windows runs a message loop of its  *)
(* own inside one of them.                                                 *)
(*                                                                         *)
(* A client area of size 0 (a minimized window) is left out: the handler   *)
(* then asks for a swapchain and images of size 0, which Vulkan does not   *)
(* define.                                                                 *)
(***************************************************************************)
EXTENDS Presentation, Batch, FiniteSets

CONSTANTS Sizes,      \* sizes of the client area, none of them 0
          MaxBuilds   \* bound: builds of objects, the first two of which a new window makes

ASSUME WindowAssumption == Sizes # {} /\ Sizes \subseteq Nat \ {0} /\ MaxBuilds \in Nat \ {0, 1}

VARIABLES
  phase,   \* "none", "open", "closed" (WM_DESTROY was handled), "done" (WinMain returns)
  quit,    \* WM_QUIT was received
  pump,    \* Run is handling messages; otherwise it calls onIdle next
  drag,    \* the user holds the frame: the modal loop of Windows is running
  client,  \* size of the client area
  sizing,  \* m_bSizing
  stale,   \* the surface no longer matches the swapchain
  frame,   \* size of the images the program draws to; 0: none
  extent,  \* size of the swapchain; 0: none
  g        \* the Vulkan objects, see below

vars == <<phase, quit, pump, drag, client, sizing, stale, frame, extent, g, display, batch>>

\* What no part of onIdle changes.
window == <<phase, quit, drag, client, sizing, stale, frame, extent>>
\* What no message changes.
drawing == <<display, batch>>

\* The objects, by what is created and destroyed together.
Kinds == {"static",     \* buffers, height map, planetPass, pipeline layouts (onCreate)
          "swapchain", "views",
          "targets",    \* depth, color, normal
          "graphicsPass", "guiPass",
          "guiPipelines", "facePipeline"}

\* g.held[k]: the build whose object the program's handle refers to, 0: NULL.
\* g.live: the objects that exist, each with the objects it was made from.
\* g.pending: objects that recorded and unsubmitted commands of `cmd' refer to.
\* g.layout: layout of the color image; g.wrong: a barrier named another one.
Name(s, k) == <<k, s.held[k]>>
Live(s) == {<<o.kind, o.build>> : o \in s.live}

\* destroy() of each kind in K.  Without a device the calls have no effect on the
\* objects, and the handles are forgotten all the same.
Destroy(s, K) ==
  [s EXCEPT !.held = [k \in Kinds |-> IF k \in K THEN 0 ELSE @[k]],
            !.live = IF s.device THEN {o \in @ : <<o.kind, o.build>> \notin {Name(s, k) : k \in K}}
                     ELSE @]

\* create() of kind k from the objects of the kinds in U.
Make(s, k, U) ==
  [s EXCEPT !.held[k] = s.build,
            !.live = @ \cup {[kind |-> k, build |-> s.build, uses |-> {Name(s, u) : u \in U}]}]

\* Commands that refer to the objects of the kinds in K are recorded in `cmd'.
Record(s, K) == [s EXCEPT !.pending = @ \cup {Name(s, k) : k \in K}]

\* Image::setLayout of the color image.
SetLayout(s, old, new) ==
  [s EXCEPT !.layout = new, !.wrong = @ \/ s.layout # old]

\* Context::flush: submitted and waited for.
Flush(s) == [s EXCEPT !.pending = {}]

-----------------------------------------------------------------------------
(* The handlers.                                                           *)

NoObjects ==
  [device |-> FALSE, build |-> 0, held |-> [k \in Kinds |-> 0], live |-> {},
   pending |-> {}, layout |-> "undefined", wrong |-> FALSE]

\* onCreate: the copies of the height map are flushed, its last barrier is not.
OnCreate(s) == Record(Make(s, "static", {}), {"static"})

\* Mutant: the views are made before there is a swapchain.
BuildSwapchainViewsFirst(s) ==
  LET old == Name(s, "swapchain")
      s1 == Make(Destroy(s, {"views"}), "views", {"swapchain"})
      s2 == Make(s1, "swapchain", {})
  IN Record([s2 EXCEPT !.live = {o \in @ : <<o.kind, o.build>> # old}], {"swapchain"})

\* Context::buildSwapchain.  The old swapchain goes once the new one is made.
BuildSwapchain(s) ==
  LET old == Name(s, "swapchain")
      s1 == Destroy(s, {"views"})
      s2 == Make(s1, "swapchain", {})
      s3 == [s2 EXCEPT !.live = {o \in @ : <<o.kind, o.build>> # old}]
  IN Make(Record(s3, {"swapchain"}), "views", {"swapchain"})

\* Mutant: guiPass is not destroyed.
SwapchainUsersButGui == {"guiPipelines", "facePipeline", "graphicsPass", "targets"}

\* What onSize destroys before the swapchain is rebuilt.
SwapchainUsers == {"guiPipelines", "facePipeline", "guiPass", "graphicsPass", "targets"}

BuildTargets(s) ==
  SetLayout(
    [Record(Make(s, "targets", {}), {"targets"}) EXCEPT !.layout = "attachment"],
    "attachment", "source")

BuildPasses(s) ==
  LET s1 == Make(s, "graphicsPass", {"targets"})
      s2 == Make(s1, "guiPass", {"targets"})
      s3 == Make(s2, "guiPipelines", {"guiPass", "static"})
  IN Make(s3, "facePipeline", {"graphicsPass", "static"})

\* onSize.
OnSize(s) ==
  BuildPasses(BuildTargets(BuildSwapchain(
    [Destroy(s, SwapchainUsers) EXCEPT !.build = @ + 1])))

\* Mutant: the targets are kept for the context to clean up.
OnDestroyKeepsTargets(s) == Destroy(s, Kinds \ {"swapchain", "views", "targets"})

\* onDestroy: all the program made itself.
OnDestroy(s) == Destroy(s, Kinds \ {"swapchain", "views"})

\* Context::destroy.
DestroyContext(s) == [Flush(Destroy(s, {"swapchain"})) EXCEPT !.device = FALSE]

\* onIdle takes the color image to draw to.
TakeColor(s) == Flush(SetLayout(s, "source", "attachment"))

\* Mutant: the color image is handed back only when it can be presented.
HandBackUnlessStale(s) == IF stale THEN Flush(s) ELSE Flush(SetLayout(s, "attachment", "source"))

\* It hands it back to where present copies from.
HandBackColor(s) == Flush(SetLayout(s, "attachment", "source"))

-----------------------------------------------------------------------------
(* What happens.                                                           *)

\* The swapchain and its users are rebuilt for a client area of size w.
Rebuild(w) ==
  /\ g.build < MaxBuilds
  /\ NewSwapchain /\ UNCHANGED batch
  /\ g' = OnSize(g) /\ frame' = w /\ extent' = w /\ stale' = FALSE

\* Window::create.
Create ==
  /\ phase = "none"
  /\ phase' = "open"
  /\ NewSwapchain
  /\ frame' = client /\ extent' = client
  /\ UNCHANGED <<quit, pump, drag, client, sizing, stale, batch>>
  /\ g' = OnSize(OnCreate([g EXCEPT !.device = TRUE, !.build = 1]))

Looping == phase = "open" /\ ~quit
Pumping == Looping /\ pump

\* WM_ENTERSIZEMOVE.
EnterSizeMove ==
  /\ Pumping /\ ~drag
  /\ drag' = TRUE /\ sizing' = TRUE
  /\ UNCHANGED <<phase, quit, pump, client, stale, frame, extent, g, drawing>>

\* WM_SIZE, sent by every change of the client area.
Size(w) ==
  /\ Pumping /\ w # client
  /\ client' = w
  /\ IF sizing
     THEN stale' = TRUE /\ UNCHANGED <<sizing, frame, extent, g, drawing>>
     ELSE Rebuild(w) /\ sizing' = FALSE
  /\ UNCHANGED <<phase, quit, pump, drag>>

\* Mutant: the flag is left set.
SizingLeftSet == sizing

SizingReset == FALSE

\* WM_EXITSIZEMOVE.
ExitSizeMove ==
  /\ Pumping /\ drag
  /\ drag' = FALSE /\ sizing' = SizingReset
  /\ Rebuild(client)
  /\ UNCHANGED <<phase, quit, pump, client>>

\* A call of onIdle from Run, up to manager.begin.
IdleBegins ==
  /\ Looping /\ ~pump
  /\ StartFrame /\ Begin
  /\ g' = TakeColor(g)
  /\ UNCHANGED <<window, pump>>

\* GUI elements and texts, any number of each.
IdleAdds == Calls /\ UNCHANGED <<window, pump, g, display>>

\* manager.end; the commands are submitted, waited for and freed.
IdleSubmits == SubmitFrame /\ End /\ UNCHANGED <<window, pump, g>>
IdlePresents ==
  /\ FlushFrame /\ Freed
  /\ g' = HandBackColor(g)
  /\ UNCHANGED <<window, pump>>

\* present gives up when the surface has changed, and onIdle does not look at what
\* it returns: either way Run goes on to the messages.
IdleAcquires ==
  /\ IF stale THEN OutOfDate ELSE \E result \in {"success", "suboptimal"} : Acquire(result)
  /\ pump' = (fpc' = "rest")
  /\ UNCHANGED <<window, g, batch>>
IdleCopies == Present /\ pump' = TRUE /\ UNCHANGED <<window, g, batch>>
Idle == IdleBegins \/ IdleSubmits \/ IdlePresents \/ IdleAcquires \/ IdleCopies

EngineRuns == g.device /\ Engine /\ UNCHANGED <<window, pump, g, batch>>

\* PeekMessage finds no more messages.
EndPump ==
  /\ Pumping /\ ~drag
  /\ pump' = FALSE
  /\ UNCHANGED <<phase, quit, drag, client, sizing, stale, frame, extent, g, drawing>>

\* 'P': the pipeline of the planet's faces is built again.
KeyDown ==
  /\ Pumping
  /\ g' = Make(Destroy(g, {"facePipeline"}), "facePipeline", {"graphicsPass", "static"})
  /\ UNCHANGED <<phase, quit, pump, drag, client, sizing, stale, frame, extent, drawing>>

\* The surface changes and the window is not told (a mode switch, another screen).
SurfaceChanges ==
  /\ Looping /\ ~stale
  /\ stale' = TRUE
  /\ UNCHANGED <<phase, quit, pump, drag, client, sizing, frame, extent, g, drawing>>

\* WM_CLOSE, and the WM_DESTROY that DestroyWindow sends.
Close ==
  /\ Pumping /\ ~drag
  /\ phase' = "closed" /\ g' = OnDestroy(g)
  /\ UNCHANGED <<quit, pump, drag, client, sizing, stale, frame, extent, drawing>>

Quit ==
  /\ Pumping
  /\ quit' = TRUE
  /\ UNCHANGED <<phase, pump, drag, client, sizing, stale, frame, extent, g, drawing>>

\* Run returns and WinMain calls Window::destroy: the context first, which waits for
\* the device, and then, if there still is a window, DestroyWindow and with it onDestroy.
Return ==
  /\ phase = "closed" \/ (phase = "open" /\ quit)
  /\ Flushed
  /\ phase' = "done"
  /\ g' = IF phase = "open" THEN OnDestroy(DestroyContext(g)) ELSE DestroyContext(g)
  /\ UNCHANGED <<quit, pump, drag, client, sizing, stale, frame, extent, drawing>>

Init ==
  /\ phase = "none" /\ quit = FALSE /\ pump = FALSE /\ drag = FALSE
  /\ client \in Sizes
  /\ sizing = FALSE /\ stale = FALSE /\ frame = 0 /\ extent = 0
  /\ g = NoObjects
  /\ PresentationInit /\ BatchInit

Next ==
  \/ Create \/ EnterSizeMove \/ ExitSizeMove \/ Idle \/ IdleAdds \/ EndPump \/ KeyDown
  \/ SurfaceChanges \/ Close \/ Quit \/ Return \/ EngineRuns
  \/ \E w \in Sizes : Size(w)

\* Run goes on as long as it may: messages run out, and each time they do onIdle is
\* called, which calls end after its last element.  WinMain calls destroy when Run has
\* returned.  The presentation engine does each of its parts some time.
Spec ==
  /\ Init /\ [][Next]_vars
  /\ WF_vars(Idle) /\ WF_vars(EndPump) /\ WF_vars(Return)
  /\ WF_vars(EngineRuns /\ Signal) /\ WF_vars(EngineRuns /\ ExecutePresent) /\ WF_vars(EngineRuns /\ Flip)

-----------------------------------------------------------------------------
(* Properties.                                                             *)

Names == Kinds \X (0 .. MaxBuilds)
Objects == [kind : Kinds, build : 1 .. MaxBuilds, uses : SUBSET Names]

TypeOK ==
  /\ phase \in {"none", "open", "closed", "done"}
  /\ {quit, pump, drag} \subseteq BOOLEAN /\ sizing \in BOOLEAN /\ stale \in BOOLEAN
  /\ client \in Sizes /\ frame \in Sizes \cup {0} /\ extent \in Sizes \cup {0}
  /\ g.device \in BOOLEAN /\ g.build \in 0 .. MaxBuilds
  /\ g.held \in [Kinds -> 0 .. MaxBuilds]
  /\ \A o \in g.live :
       o.kind \in Kinds /\ o.build \in 1 .. MaxBuilds /\ o.uses \subseteq Kinds \X (1 .. MaxBuilds)
  /\ g.pending \subseteq Names
  /\ PresentationTypeOK /\ BatchTypeOK
  /\ g.layout \in {"undefined", "attachment", "source"} /\ g.wrong \in BOOLEAN

\* Whatever the user does to the window, the frames drawn once it is let go have
\* the size of the client area, and so has the swapchain they are copied to.
FramesFit == phase = "open" /\ ~drag => frame = client /\ extent = client

\* Nothing outlives what it was made from while the window is open: framebuffers
\* their images, views their swapchain, pipelines their render pass.
NoDangling == Looping => \A o \in g.live : o.uses \subseteq Live(g)

\* No handle to a live object is overwritten or dropped: what exists while the
\* window is open is what the program holds.
NothingLost == Looping => Live(g) = {Name(g, k) : k \in {j \in Kinds : g.held[j] # 0}}

\* Through every resize the objects are complete, of one build and none too many.
ObjectsFit == NoDangling /\ NothingLost

\* Each barrier on the color image names the layout the one before left it in,
\* through resizes and frames that could not be presented.
LayoutsFollow == ~g.wrong

\* No call of onIdle waits for ever: not for the queue, in which a presentation may
\* wait for its semaphore, and not for an image, while the engine may keep some.
FramesFlow == Looping /\ ~pump ~> pump

\* A window that is closed leaves nothing to the device but the swapchain's views.
CloseReleases ==
  phase = "done" /\ ~quit => \A o \in g.live : o.kind = "views"

\* VKWindow.h:61: "Destroys the window, its primary OpenVK context, and all objects
\* tied to that context."  No object is left when the device goes.  The code does
\* not keep it: the views of the swapchain are left.
AllReleased == phase = "done" => g.live = {}

\* VKImage.cpp:160: "Wait for the copy command to complete before the staging
\* texture goes out of scope!"  While the window is open, what recorded commands
\* refer to is kept until they were submitted.  The code does not keep it: two
\* changes of size without a frame in between destroy what barriers refer to.
PendingAlive == Looping => g.pending \subseteq Live(g)

\* VKContext.cpp:444: "Caller needs to check last error for
\* VK_ERROR_OUT_OF_DATE_KHR".  A window whose surface has changed shows frames again.
ShowsAgain == stale ~> (~stale \/ phase # "open" \/ quit \/ drag \/ g.build = MaxBuilds)
=============================================================================
