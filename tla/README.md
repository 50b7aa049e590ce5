# Verification of VKSandbox

VKSandbox is a C++ rendering sandbox for Windows. A library,
`src/Code/VKContext`, wraps Vulkan, windows, shaders, images, fonts, threads,
logging, profiling and SQLite. One program, `src/Code/VKTest`, uses it to draw a
planet mapped onto a cube, with nested clip maps for its level of detail. The
repository has no tests.

This directory holds TLA+ models of that code, the TLC runs that check them and
TLAPS proofs about them. `PROJECT.json` gives, for each definition, the source
lines it stands for; for each run, its properties; and for each property, a
mutated definition (marked `Mutant` or `Faulty variant` in the modules) under
which it fails.

To check: `tlc -workers 2 -config X.cfg M` for a run, `tlapm M.tla` for a proof
module. Names in `monospace` are modules, runs or properties.

## 1. Inventory

Paths are below `src/Code/VKContext` unless they say otherwise.

| Component | State | Operations | Hard behaviour | Module |
|---|---|---|---|---|
| `DB::Connection`, `DB::Statement` (VKDatabase) | handle, recursive lock, exception and transaction flags; for each Statement, its life and whether its AutoLock is locked | open, close, exec, insert, begin, commit, rollback, backup, getInt and its like; prepare, bind, next, exec, insert, update, reset, destroy | threads share one connection opened without SQLite's own mutex; `next` returns with the lock held; exceptions unwind locks; nested calls | `Database` |
| Lock, AutoLock (VKThread.h) | owner and levels; one Boolean in each AutoLock | lock, unlock | the lock is recursive, the AutoLock is not | `VKThread` |
| Cube-face geometry (VKTest/CubeFace, Build/shaders/VKTest.h) | none | neighbor tables, CrossEdge, GetNeighborCoordinates, AdjustCoords, GetFace, GetFaceCoordinates, GetPlanetaryVector | twelve edges and eight corners, each with a formula of its own; ties on diagonals; truncating division | `CubeFace` |
| Flood fill (VKTest/main.cpp 855-912) | number of each texel, coast lists, two stacks | scan, visit, claim, exchange stacks | wrap-around at edges and corners; claiming before visiting | `LandMass` |
| Clip map (VKTest/main.cpp 205-282 and 394-517, the geometry shader of VKTest.glfx) | camera position and level, one mesh | moving the camera; levels of the front face and of its neighbors, centers, holes; the triangles a hole drops | every level rounds by itself; reversed edges; corners; rows of the mesh with fewer vertices | `ClipMap`, `ClipMesh`, `VectorWalk` |
| Shader reload (VKManager, VKShaderFile, VKShaderTechnique, VKShaderProgram) | cached files with times and dependencies, techniques, modules, pipelines | updateShaders, load, parse, compile, buildPipeline, cleanup | an editor writes files between any two steps; reads fail; texts do not compile; effects share headers | `ShaderReload` |
| Window (VKWindow) and handlers of the program (VKTest/main.cpp) | window, drag flag, Vulkan objects, recorded commands, image layouts | create, window procedure, Run, onCreate, onSize, onIdle, onKeyDown, onDestroy, destroy | messages in any order; objects rebuilt while commands wait; surfaces that change without a message | `AppWindow` |
| Presentation (VKContext.cpp 347-461) | swapchain images, two semaphores, the queue | flush, present, buildSwapchain | the presentation engine reads images concurrently and signals when it likes | `Presentation`, in `AppWindow` |
| GUI and text batches (VKManager.h 129-163, Font::draw2D) | two arrays, two counters, last technique | begin, addGUIElements, addText, end | draws are recorded before their data is on the device; fixed capacity without a test | `Batch`, in `AppWindow` |
| Queue selection (VKContext.cpp 253-276) | none | the loop over the queue families | a family for both kinds of work may come late or not at all | `DeviceQueues` |
| Profiler (VKProfiler) | per thread a tree of timers and a chain of samples, two maps, a lock | Sample, ~Sample, ~Profiler | threads share the maps and not the trees; destruction while samples are open | `Diagnostics` |
| Logger (VKLogger), Singleton, Timer | file, lock, buffer; a pointer; a clock | logMessage, logException | a message is written in pieces; a shared exception buffer | partly `Diagnostics` |
| Object registry (VKContext.h 132-146) | counter, map | addObject, removeObject | order of destruction | not modelled |
| The rest of context creation, fonts, technique grammar, paths, pixel buffers, noise, math | | | data and one-time setup | not modelled |
| glslang, libjpeg, libpng, libsqlite3, libzip, zlib, Vulkan, GL | | | | external |

How they interact. WinMain fills the land masses (single thread, before there is a
window), then creates the window, and runs its message loop. Window handlers own the
Vulkan objects and call the Context (swapchain, command buffer, present) and the
Manager (techniques, pipelines, batches). Every frame asks CubeFace for the face and
coordinates beneath the camera and derives the patches to draw. The database wrapper
is a library of its own; nothing in the program calls it yet, so its clients are
modelled as any threads that obey a stated discipline. The threads of the process, the
presentation engine and the editor that writes shader files are the true concurrency;
the rest is one thread whose handlers may be called in any order.

What would make each part correct:

- Database: m_lock is a mutex however it is nested, thrown through and handed to
  Statements; the engine is never entered twice; results belong to the caller;
  an open row is not disturbed; an engine transaction is not forgotten; no level
  is left behind; every thread gets the lock.
- Geometry: the six faces fit together without gap, jump or one-way step; three
  routines agree on the face.
- Flood fill: ends; touching land has one number; each texel is visited once;
  coasts are exact.
- Clip map: the mesh has no cracks; each hole is filled exactly by its child,
  vertex for vertex; patches of two faces cover the same stretch of the edge between
  them.
- Shader reload: a program that ran keeps running, changes as a whole, follows
  the files, and passes stop finding work.
- Window: frames fit; nothing outlives what it was made from; nothing is lost;
  layouts follow; everything is released.
- Presentation: an image is asked for only when its semaphore is free; no frame
  waits for ever; no image is written while it is read.
- Batches: each draw has its own pipeline and the data of its own call.
- Queue selection: a family that does both is never passed over.
- Profiler: no timer is started or stopped twice, and what is reported adds up.
- Logger: messages of different threads do not mix.

## 2. Modules

`PROJECT.json` "map" has the lines. What follows is how to read the modules.

**`VKThread`** gives the recursive lock as a function from threads to levels
held; `Enter`, `Leave` and `CanEnter` are Lock::lock and Lock::unlock. Leaving a
level that is not held is undefined in Windows; the model lets the count go
wrong, and `UnlocksCovered` shows that it never does.

**`Mutex`** is the abstract specification: a holder, taken only when free, and
released only by itself.

**`Database`** models every method as a sequence of points (`pc`): the call,
waiting for the lock, the engine call, what follows. Points lie at the engine
calls and at each acquisition that may have to wait, so two threads interleave
wherever they can affect each other. Two kinds of points are reached without the lock:
`Bind` (bind and the column getters) and `Report`, the handleError with which prepare and
reset report a failure after they have unlocked. A client that calls getRowid or
getChangeCount itself makes a third such call, like bind for what is modelled here. An exception is a step that unwinds the AutoLocks
of the call (`RunLevels` counts them). The engine decides outcomes
nondeterministically. Its clients (`MayCall`) are assumed to open and close only
while no thread is inside a method, to use a connection only when it is open, to reset
only what they have stepped, and to do nothing with a Statement of a closed
connection but destroy it. `ResetsFirst` adds the discipline of resetting a
Statement before using it otherwise. `got` and `swallowed` are history variables.

**`CubeFace`** holds the pure definitions: tables, edge crossing, both face
lookups, and `CubePoint`, the point of the cube a texel stands for, which serves as the
reference definition for all of them. Coordinates are integers; the overloads of the
code on doubles are the same formulas with w = 1. **`TexelGrid`** is the grid of the
height map with its eight neighbors; **`TexelWalk`** the steps a fill may take;
**`VectorWalk`** a camera that moves around the planet, over edges and corners, with the
face and coordinates found for it, in 32-bit and 64-bit builds (`muldiv` rounds in one and
truncates in the other).

**`LandMass`** is the loop of WinMain, one action for each part of it: `Seed`
(the scan), `Pop`, `Look` (one neighbor), `Leave` (the coast), `Swap`. `land` is an
input: the height map. `visited` is a history variable: the texels whose visits have
begun.

**`ClipMesh`** holds the index buffer of onCreate as a set of triangles, and which of
them the geometry shader drops for a hole. **`ClipMap`** extends it and `VectorWalk`: the
patches are functions of the camera; `Move` is a step of the camera of `VectorWalk`,
`Zoom` changes its distance. Positions are integers, in units of which a level's
quads are multiples, so the truncations of the code are exact integer divisions.

**`ShaderReload`** splits updateShaders where another process can act: the listing
of the directory, each header, each effect's time, each effect's load. Parsing and
compiling touch no file and are part of the step that loads. A text is given by what
it includes, declares and whether each stage compiles. Write times are distinct.
`NoText` is what a failed open leaves behind. `whole` is history: the last parse
found its includes.

**`Presentation`** models how a frame reaches the screen. The queue of the device
works in order and flush waits for it, so what stays in it is a presentation whose
semaphore is not signalled. The engine (`Signal`, `ExecutePresent`, `Flip`) is an actor of
its own: it shows images in order or, in mailbox mode, the latest. A presentation may
be refused; its result is ignored, as in the code, and it then waits for its semaphore and
gives its image back like any other, without showing it. Surfaces say how
many images they need and may give, so the numbers buildSwapchain computes are the
modelled ones. What is in flight when the swapchain is rebuilt still signals.

**`Batch`** models one frame's batch. Array elements are the number of the call that
wrote them; a draw remembers the pipeline bound when it was recorded. So a draw that
reads another call's data, or data not uploaded, shows. That a frame fits into the
arrays is a premise: the code does not test it.

**`AppWindow`** composes the two with the window: one action for each message
handled, and onIdle cut where it waits for the device (`IdleBegins`, `IdleAdds`,
`IdleSubmits`, `IdlePresents`, `IdleAcquires`, `IdleCopies`), so that the engine and the display
act in between. Objects created and destroyed together are one kind; each object
remembers which objects it was made from, so an order of destruction that is wrong
shows. `pending` is what unsubmitted commands refer to. There is one window; sizes of 0
(a minimized window) are left out, since Vulkan does not define what follows.

**`DeviceQueues`** is the loop of Context::create over the queue families as a fold.

**`Diagnostics`** models the Profiler and the Logger under several threads, at the
granularity of their locks: each access to a map is a step, with the lock taken before
it. `std::map` is not safe without it, so an access while another thread is inside has
several `Outcomes`; with the lock there is one. A timer is known by its path of names; the
name of a sample is chosen where it is first used. Samples whose level is not profiled
are opened too. Main creates and destroys the Profiler; that no sample is open then is a
premise of `Destroy`, as it is the caller's duty. A message is written as a header and a text
(of the eight pieces, those two tell mixing from order), and each piece tells who writes
it and whose words it has. logFormattedMessage (`Log`) has its text in a buffer of its
thread. logException (`LogException`, `Formatted`) has it in `exception`, the one
m_szException of the Logger, which it fills without the lock before it calls logMessage:
while several threads format there, and until each has written, it may hold the text of
any of them. `failing` are the threads inside logException; `mixed`, a history variable,
those of them that another one has joined there.

**`MCDatabase`**, **`MCLandMass`**, **`MCShaderReload`**, **`MCAppWindow`** and
**`MCDiagnostics`** instantiate modules for TLC.

## 3. Runs

| Run | What it asks | Bounds |
|---|---|---|
| `database_calls` | The methods that lock, failing anywhere (insert stands for update): levels are counted right (`UnlocksCovered`), threads exclude each other in the engine wherever they hold the lock (`LockedCallsSerialized`), rowids are the caller's (`OwnResult`), open rows are undisturbed, transactions are known, and the whole implements `Mutex` | two threads, `MaxDepth` 2 |
| `database_careful` | With clients that reset what they step, and bind, update and backup: no level is leaked and every waiting thread gets the lock | the same |
| `database_getter_leak` | expected violation, see section 5 | the same |
| `texel_walk` | Faces fit (`FacesFit`: the tables agree with the cube, and there and back is the identity), neighbors are mutual, steps are short | faces of 6 by 6 texels |
| `land_mass` | No visit begins at a texel visited before (`VisitedOnce`), touching land is joined, coasts are exact, the fill ends | faces of 3 by 3; no land, all land, all but a point, every one or two points, hemispheres |
| `clip_map` | For every camera position: face routines agree, directions are kept, holes fit, the mesh is sewn to its children (`MeshSewn`), faces meet at corners and on edges they count alike (`SeamsMeet`), patches fit faceData | four levels of 8 quads, `MaxCoord` 64, every vector up to 9, both builds |
| `clip_map_shader` | expected violation | six levels as in the program, 8 quads instead of 128 |
| `shader_reload` | A program changes as a whole or not at all and keeps running (`AllOrNothing`); checks notice shared headers; passes settle; the last good text wins | two effects sharing a header, two stages, two edits, one failed read, any first files |
| `shader_iteration` | expected violation | the same |
| `app_window` | Frames fit, objects are complete and of one build (`ObjectsFit`), layouts follow, closing releases, images are asked for when the semaphore is free (`AcquireReady`), draws are exact, frames flow | two sizes, four builds of objects, three surfaces, two techniques and two calls a frame with arrays of two |
| `window_stale` | expected violation | the same, one technique and one call |
| `diagnostics` | No timer is misused and reports add up (`ReportAddsUp`), messages are whole, and have their own text unless two threads fail at once (`MessagesWhole`) | two threads, one nests two samples of two names, two clock readings; a thread logs while it has no sample open (`LogDepth` 0) |

Why the bounds are enough to see the interesting cases:

- Two threads are the fewest that can interfere. `MaxDepth` 2 stops new Statement
  calls of a thread that holds two levels: one leaked level and a call within it are
  reached, more repeat the same states with larger counts. The proofs have no such
  bounds.
- A face of 6 by 6 texels has corners, edges and interior; its formulas are linear in
  the width, and the proofs hold for every width.
- Every vector with components up to 9 is a direction of the camera, in both builds:
  all six faces, all ties of two and three components, and quotients that are exact,
  odd and even.
- With `MaxEdits` 2 a text can become bad and good again; with one failed read, an
  edit can be missed once. Times grow with edits, so three edits add histories, not
  new relations between cache and disk.
- Four builds of objects are onCreate, the first swapchain and two changes of size, by
  resize or drag, with or without frames between. A run stops resizing at the bound,
  and `ShowsAgain` excuses that state. The surfaces need one image or two, and can
  give one more or not: the cases that buildSwapchain's count distinguishes, in both
  modes of showing. Two calls in a frame can change the technique or keep it and write
  the same array or both. The proofs have no such bounds.
- `MCAppWindow` also states, as an assumption TLC evaluates, `QueuesWellChosen` for
  every device of up to four queue families.
- `clip_map` keeps the proportions of the program (a child is half its parent) with
  fewer levels. The tolerance of 0.001 never matters at these sizes, where a unit is
  larger. 8 quads have all the rows and columns that the index buffer treats
  differently.
- Two nested samples of two names on one thread give siblings, children and repeats;
  the second thread meets the first in the maps. With two readings of the clock a
  timer can measure something or nothing, and a child more than its parent if a stop
  were lost. The log and the samples share no state but the point each thread is at, so
  `LogDepth` 0 removes combinations, not cases: two threads meet in the log, in either
  of its functions, while another may be in the Profiler.

Deadlock checking is off where stopping is right: the fill and the program end,
and in `database_calls` and `database_getter_leak` clients that leak a level stop
everyone, which is a result and not an error of the model.

### Fairness

- `database_careful`: a thread inside a method keeps running (WF `Proceed`); a thread
  waiting for the lock is not passed over for ever (SF `EnterLock`: a critical section
  does not promise order, but it does wake waiters); a client that has stepped its
  Statement resets it some time (SF `Call(reset)`), which is the duty the code leaves
  to it.
- `land_mass`: a loop of one thread, WF `Next`.
- `shader_reload`: passes go on (WF `Update`), as Manager::update is meant to be
  called every frame (its call in main.cpp:390 is a comment at this commit). The
  editor owes nothing.
- `app_window`, `window_stale`: the loop of Run goes on (WF `Idle`, `EndPump`,
  `Return`), and the presentation engine signals, executes and shows some time (WF of
  each of its parts), without which no program that presents could go on. Users owe
  nothing, not even a first window, and no call of onIdle is assumed to come through:
  that is what `FramesFlow` shows.

## 4. Proofs

Eight modules hold proofs; all theorems are for every value of the constants. Each
safety invariant and each action property of the passing runs is the statement of a
theorem; the end of this section names what else is only model-checked. The
assumptions are those that the modules state of their constants; a theorem that needs
more says so after ASSUME.

**`DatabaseProofs`**: any set of threads, any mix of calls, with or without the
clients' discipline of resetting, any nesting. `UnlocksCovered` is not inductive:
whether a level may be left depends on where the thread is and on its AutoLock. The
inductive invariant `IInv` adds to it and `TypeOK` that levels exclude (`Excludes`)
and what each point of a method says of its thread (`PointOK`: at an engine call of a
Statement its AutoLock is locked; a rowid is asked for right after the caller's own
write). Every action is first summarized by its effect on the levels (`LevelsMove`,
one lemma for each action), and `EffectKeepsIInv` then shows once that such an effect
preserves `IInv`. From `Invariance` follow `ConnectionIsTyped`,
`UnlocksAlwaysCovered`, `ResultsAreOwn`, `CursorsUndisturbed`, `ImplementsMutex`
(initial states map to initial states, steps to steps or stutters), and `Serialized`:
of two threads in the engine at once, one is at a point without the lock. `TransactionStaysKnown` adds in `Known` what
holds between the engine's change of its transaction and the flag of the Connection.
`CarefulClientsLeakNothing` needs two hypotheses: clients reset what they step
(`ResetsFirst`) and call no getter with a Statement of its own ("get"), which leaks a level
whatever they do (section 5). Its invariant says how many levels a thread holds at
each point exactly (`Exact`), where `UnlocksCovered` only bounds them from below.

**`TexelGridProofs`**, **`TexelWalkProofs`**: for every width, the neighbor
tables are inverse to each other (`TablesInverse`), looking back over an edge is the
identity (`NeighborCoordinatesInvolution`), a crossed edge is the same line of the
cube (`CrossEdgeShared`, one case for each of the 24 face edges), and `AdjustCoords` ends on a
face also past a corner. Hence `WalkStaysOnFaces` and `FacesFitTogether`. That a
neighbor's neighbors include the same point of the cube again, and that a step moves by
one unit of it, follow from where a step ends on the cube, by edge and by corner: `WalkIsMutual`,
`WalkStepsAreShort`.

**`LandMassProofs`**: for every width and height map. That touching land has one
number is not inductive while a texel is being visited; the invariant `IInv` adds
that the neighbors already looked at have their numbers, that all texels waiting belong
to the land mass being filled, and that only land has numbers of listed masses.
`TouchingIsNeighbor` connects touching to the eight neighbors. Theorems:
`FillInvariant`, `FillIsTyped`, `FillIsRight`, `FillKeepsLabels`. `FillVisitsOnce`
says that no visit ever begins at a texel in the history `visited`. It rests on
`NoneTwice`: the two stacks and the texel being visited have no texel twice nor in common,
no texel that waits has been visited, and every visited one has a number, so that it is
never claimed again. `FillListsCoast` rests on `CoastInv`: while a
texel is visited land_locked tells whether the neighbors looked at so far are land
(`LockedTells`), and the list holds the coast among the texels left behind
(`CoastLists`).

**`ClipMapProofs`**, for vectors and faces of every size, both builds, every number of
levels and every size of the mesh:

- `FaceRoutinesAgree`: ties included, since in a tie the quotient is exact (`MulDivTie`), so
  rounding and truncation agree.
- `FaceCoordinatesKeepDirection`: each quotient is less than a unit off (`FoundIsNear`),
  which bounds the difference of directions that `DirectionKept` measures.
- `PatchesFitFaceData`: there is at most one patch for each level of each of the five
  faces drawn, the opposite one being left out.
- `HolesAlwaysFit`: all levels divide the same power of two (`ScaleOfLevel`,
  `FactorHalves`), so truncating to a level and then to its parent is truncating to the
  parent (`TruncIs`). That settles the front face. A neighbor's center lies along the
  border at the same truncated coordinate, and as far outside as the nearest level
  drawn beyond it (`NeighborCenterIs`, `Least`); an edge that is reached over is never
  farther away than one that is not (`OverlapsNearer`), so what a level widens by is half of
  what its parent does (`LeastHalves`), and the centers of a neighbor nest as well
  (`NeighborCenterNests`).
- `SeamsAlwaysMeet`: along an edge counted in the same direction both faces compute
  their stretch from the same truncated coordinate (`StretchIs`); at a corner, the two
  faces besides the front one meet by a table of the corners (`Joint`,
  `FacesMeetAtCorners`).
- `MeshAlwaysSewn`: the loops of onCreate write exactly the triangles of eight kinds,
  each kind told by its corners' rows and columns (`Fits`, `TrianglesAre`). A side fixes
  its triangle and its place in it (`SidesDiffer`), so there are three times as many sides
  as triangles (`SidesCount`), and each side is on the rim, between even places, or has
  its counterpart (`SidesMeet`): the mesh is tiled (`MeshIsTiled`). No triangle reaches
  through the border of a hole that does not touch the rim, and every place of that
  border is a corner of a triangle that is kept (`NothingLost`, `SewnOutside`), as are
  all even places of the child's rim (`SewnInside`). Its hypothesis, `NodeFourth >= 2`, keeps
  a hole that is off by one from touching the rim of a mesh of four quads (the code's
  is 128 quads wide).

**`ShaderReloadProofs`**: any files, techniques and stages, any number of edits and
failed reads. `Typed` gives the fields of each cache and pipeline, and `HaveSources` says that every
stage with a module has a source. `ProgramsAllOrNothing` needs both to show that
what a load does to a technique is one of the outcomes of Rebuild, in which all the
sources compile or the modules stay.
`ReloadChecksAreComplete` needs that a header that is newer than an effect's note of
it is noticed: times in memory are never ahead of those on disk (`Clock`), an
effect depends on every header its text was put together from (`DependsOnAll`), and its
sources hold the texts of those that have not changed since (`BuiltFrom`). Its hypothesis `OwnTechniques` says that no technique is declared by
two effects; without it, one effect's load marks the other's technique, which is
then skipped.

**`AppWindowProofs`**: first the two components by themselves.
`AcquisitionsAreReady`, from the invariant `PresentationInv`: at most one presentation is
in the queue, only while the program is at rest, and unless there is one, or the program
copies, no image is held and the semaphore is idle. `BatchIsExact`, for any techniques,
capacity and number of calls: `DrawsAreExact` speaks of the moment when the batch has
ended; `BatchInv` says before it that every recorded draw lies below the counter of its
array, that the host's array has the number of its call there, and that
pLastTechnique, unless NULL, tells which pipeline is bound. Each step of the window is
then shown to be a step of `Presentation` and of `Batch` or to leave them alone
(`WindowMovesDisplay`, `WindowMovesBatch`), which carries both over to every history
of a window: `WindowAcquiresReady`, `WindowDrawsExactly`. `FramesAlwaysFit` rests on
`Followed`, which adds that the flag m_bSizing is set exactly during a drag. The
objects: `WindowInv` adds to `Sized` and `PresentationTypeOK` the
invariant `ObjectsInv`, which says for each phase which kinds of objects exist, of which
build, and from what they were made, which layout the image has at each point of
onIdle, and that a wrong layout or order of destruction never occurred. It gives
`WindowTyped`, `WindowObjectsFit`, `WindowLayoutsFollow` and `WindowCloseReleases`.

**`DiagnosticsProofs`**: any number of threads, names, samples and readings. `LogIsWhole`:
`LogInv` connects the lock with the place of each thread: a thread holds it exactly
while it is between header and text, and then wrote the last piece. `BufferInv` says of
m_szException that a thread which no other has joined in logException is alone there and
finds its own text. `ReportsAddUp`:
`ProfilerInv` says that a thread inside the Profiler is alone there (`Locks`), that
the root timers stop only at the end (`Ends`), and of each thread (`Locally`) that its
timers form a tree whose started ones are exactly those of its open samples, so at most
one child of each timer runs (`Chain`), and that a timer has measured at least what its
children have, the running time of both included (`Adds`): a parent is started before
its child and stopped after it. Sums over children are by induction on their
number.

Only model-checked:

- Liveness (`LockObtained`, `Finishes`, `Settles`, `CatchesUp`, `FramesFlow`), which
  together with ENABLED is out of the prover's reach.
- `QueuesWellChosen` of `DeviceQueues`, a fold over a sequence.

The induction theorems of the library that take an operator cannot be used with the
installed provers. Where a proof needs induction over numbers it goes by the least
counterexample (`NatInduct` in `ClipMapProofs`, from the well-foundedness of the
naturals); that a power of two doubles comes from the number of subsets of a finite set
(`PowerDoubles`).

## 5. Where the code does not do what it says

Four runs show a violation of something a comment or a declaration says:

- `database_getter_leak`: getInt, getInt64, getDouble and getText leave a level
  of the lock behind. `next` locks, ~Statement locks again, and one AutoLock
  unlocks one of them. Every other thread then waits for ever.
- `clip_map_shader`: more patches are drawn than the MAX_LEVELS, 6, for which
  VKTest.glfx declares its array. Their number does not depend on the width of the mesh.
- `shader_iteration`: VKManager.h:95-98 promises that the previous iteration of a
  technique is kept if the new one fails; its attributes are replaced all the same, and the
  next pipeline mixes the two.
- `window_stale`: VKContext.cpp:444 says what the caller of present must check;
  onIdle does not, and a surface that changes without a WM_SIZE shows no frame
  until the window is resized.

Eleven more statements are in the modules, with a comment that says the code does not
keep them. They have no run of their own. To see one fail, put it
in place of the properties of the configuration named (`NotTorn` and
`ModifiedIsRebuilt` as PROPERTY, the others as INVARIANT):

| Statement | Configuration | What is seen |
|---|---|---|
| `ModifiedIsRebuilt` (`ShaderReload`) | ShaderReload.cfg, `MaxFailures` 0 | an include that comes late, or a bad stage that is dropped later, leaves the effect as it was; `CatchesUp` excludes just these cases |
| `AllReleased` (`AppWindow`) | AppWindow.cfg | views of the swapchain are never destroyed with the context; `CloseReleases` says the rest is |
| `PendingAlive` (`AppWindow`) | AppWindow.cfg | two resizes without a frame in between destroy images that recorded barriers refer to |
| `PointHasOneLabel` (`LandMass`) | LandMass.cfg | an island on an edge counts as two land masses; `TouchingLand` holds within each face |
| `EdgesMeet` (`ClipMap`) | ClipMap.cfg | on edges counted in opposite directions a level is a unit off; `StraightEdgesMeet` says where it is not |
| `NothingNearer` (`VectorWalk`) | ClipMap.cfg | for a vector behind the face asked for, a corner is returned that is not nearest |
| `NothingDropped` (`ClipMap`) | ClipMap.cfg | a hole of level 0 over an edge of the face cuts a triangle of the rim in its middle; the part outside is dropped with it |
| `EngineSerialized` (`Database`) | DatabaseCalls.cfg | one thread reports a failed prepare, asking the connection for its error after the unlock, while another is inside sqlite3_exec (with "bind" among the calls, bind is another way); `LockedCallsSerialized` says that there is no other. m_strLastError, which the report writes and throws, is exposed in the same way |
| `TextIsOwn` (`Diagnostics`) | Diagnostics.cfg | two threads are in logException together and one writes the text of the other; `MessagesWhole` excludes just this case |
| `NotTorn` (`Presentation`) | AppWindow.cfg | the copy to a swapchain image does not wait for sigImageAvailable, only the presentation does: the image may still be read while it is written |
| `PresentsWithPresentQueue` (`DeviceQueues`) | as an ASSUME of `MCAppWindow` in place of `QueuesWellChosen` | with no family that does both, the queue of the first family that presents is asked for, and the graphics queue is presented with |

## 6. Not modelled, and why

SQLite, the compiler of shaders, Vulkan, the presentation engine and Windows are
external: the models give them every outcome the code must expect. Of the Database: the
text of errors (the thrown pointer refers to a string another thread may change, as that to
m_szException of the Logger does) and the NULL handle. Of the geometry: float conversions and
the scaling by a square root; of the shaders all but the triangles of a patch. Of
reloading: the text of effects, Path::read's buffer (a failed open asks for 2^32 - 1 bytes, since
tellg() is -1, and gets an empty text after that; where so much memory cannot be had it
throws and the program ends), and a vkCreateShaderModule that fails when some modules are
already replaced: `AllOrNothing` says nothing of it, as all failures of Vulkan but those of
acquiring and presenting are left out. Of the mesh: that the shader also
drops triangles outside the cube face, so `MeshSewn` is about the mesh before. Of the window:
minimizing, several windows, Shutdown, keyboard and mouse state. Of batches: a frame that
overruns the arrays. Of diagnostics: levels, formats and wording of messages, TScopeLog,
Timer::reset, and ~Profiler while samples are open. VK::Event has no caller. Components
listed as `not_modelled` in PROJECT.json say why there.

The larger part of the repository's lines is vendored: SQLite, glslang, libpng,
libjpeg, libzip and zlib make up most of its C and C++ and are used through a few
calls. They are other projects' programs, with their own tests, and a faithful model
of them would say nothing about this one. Of its own code what is left is
floating-point arithmetic, parsing and one-time setup.

## 7. Plan

Done, in this order:

1. `VKThread`, `Mutex`, `Database`, with refinement and proofs.
2. `CubeFace`, `TexelGrid`, `TexelWalk`, `VectorWalk`, with proofs.
3. `LandMass` on the same grid, with proofs.
4. `ClipMesh`, and `ClipMap` composed of it and the moving camera.
5. `ShaderReload`.
6. `Presentation` and `Batch`, with proofs, and `AppWindow` composed of them and the window.
7. `Diagnostics`, with the proof for the log; `DeviceQueues`.

8. Proofs for every module that a passing run checks: `ShaderReloadProofs`, the
   objects of `AppWindow`, the reports of the Profiler, the transaction and the careful
   clients of the Database, the visits and coasts of the fill, and the patches of
   `ClipMap`.

Left:

- Proofs. `QueuesWellChosen` for every list of families, with the loop as a recursive
  function instead of a fold.
- An abstract specification of a shader program ("what is drawn is some whole version
  that was on disk") that `ShaderReload` implements for modules.
- The registry of objects, with the order in which a Context and its objects go.
