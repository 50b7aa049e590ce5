---------------------------- MODULE ShaderReload ----------------------------
(***************************************************************************)
(* Live reloading of shader effects: Manager::updateShaders, the           *)
(* ShaderFile / FXFile caches it keeps and the ShaderTechnique /           *)
(* ShaderProgram objects it rebuilds, beside an editor (another process)   *)
(* that saves, deletes and locks the files at any moment.                  *)
(*                                                                         *)
(* A pass of updateShaders lists the directory once, loads every header    *)
(* whose info differs from the cached one, then for each effect file asks  *)
(* for its info, loads it and, when it or a file it includes has changed,  *)
(* parses it.  The editor can act between any two of those steps; the rest *)
(* of the program runs in the same thread and so only between passes.      *)
(*                                                                         *)
(* A file's info is the time of its last write (Path::operator== compares  *)
(* it with size and attributes).  Texts are data given by the constants:   *)
(* what matters of an effect's text is what it includes, in which order,   *)
(* and which techniques it declares with which stages.                     *)
(***************************************************************************)
EXTENDS Naturals, Sequences, FiniteSets

CONSTANTS
  Headers,      \* names of the .glsl and .h files
  FXFiles,      \* the effect files given to loadFX
  Techniques,   \* technique names
  Stages,       \* shader stages
  HeaderTexts,  \* what a header may say
  GoodHeaders,  \* the header texts that compile
  FXTexts,      \* [effect |-> what it may say]: records [uses, blocks]
  MaxEdits,     \* bound: edits the editor makes
  MaxFailures   \* bound: reads that fail

CONSTANTS NoText, \* the contents of a file that was not, or could not be, read
          Gone    \* in place of a text: the file does not exist

\* A technique block: its name for the states, inputs and outputs it declares,
\* whether its statements are well formed, and for each stage it has whether
\* that stage's code is good.
AllFX == UNION {FXTexts[f] : f \in FXFiles}
Blocks == UNION {{x.blocks[t] : t \in DOMAIN x.blocks} : x \in AllFX}
BlockNames == {b.name : b \in Blocks}
CodeHeads == UNION {[H -> HeaderTexts \cup {NoText}] : H \in SUBSET Headers}

ASSUME ReloadAssumption ==
  /\ Headers \cap FXFiles = {} /\ {"idle", "headers", "effects"} \cap FXFiles = {}
  /\ GoodHeaders \subseteq HeaderTexts
  /\ \A x \in AllFX : x.uses \in Seq(Headers) /\ DOMAIN x.blocks \subseteq Techniques
  /\ \A b \in Blocks : DOMAIN b.stages \subseteq Stages
  /\ NoText \notin HeaderTexts \cup AllFX /\ Gone \notin HeaderTexts \cup AllFX
  /\ MaxEdits \in Nat /\ MaxFailures \in Nat

VARIABLES
  disk,      \* [file |-> [time, text]]: what the editor last wrote
  edits,     \* edits so far; also the clock of write times
  failures,  \* reads that failed so far
  heads,     \* m_mapGLSLFiles: [header |-> [info, text]], info 0: not in the map
  fx,        \* m_mapGLFXFiles: [effect |-> [info, text, deps, whole]]
  techs,     \* m_mapTechniques: [technique |-> the object or NoTechnique]
  pipes,     \* the pipelines: [technique |-> [attrs, modules] or NoPipeline]
  pass       \* where updateShaders is

vars == <<disk, edits, failures, heads, fx, techs, pipes, pass>>

Files == Headers \cup FXFiles
NoCode == [made |-> FALSE]
NoTechnique == [known |-> FALSE]
NoPipeline == [built |-> FALSE]
NoAttrs == "default"      \* ShaderTechnique::clear
Partial == "partial"      \* cleared, then filled up to the faulty statement

\* The source text of one stage: the included headers, then the block's own.
Code(b, H) == [made |-> TRUE, block |-> b, heads |-> H]
Codes == [made : {TRUE}, block : Blocks, heads : CodeHeads] \cup {NoCode}
Sources == [Stages -> Codes]

-----------------------------------------------------------------------------
(* ShaderProgram and ShaderTechnique.                                      *)

\* glslang's verdict on one stage.
Compiles(c, s) ==
  /\ s \in DOMAIN c.block.stages /\ c.block.stages[s]
  /\ \A h \in DOMAIN c.heads : c.heads[h] \in GoodHeaders

\* ShaderProgram::isValid: some stage has a module.
HasModules(modules) == \E s \in Stages : modules[s].made

\* What m_mapTechniques[name] yields: the object, or a new empty one.
Held(tech) ==
  IF tech.known THEN tech
  ELSE [known |-> TRUE, attrs |-> NoAttrs,
        glsl |-> [s \in Stages |-> NoCode], modules |-> [s \in Stages |-> NoCode]]

\* setStage for each stage the block has; the others keep their old source.
SetStages(glsl, b, H) ==
  [s \in Stages |-> IF s \in DOMAIN b.stages THEN Code(b, H) ELSE glsl[s]]

\* ShaderProgram::compile: all the stages that have a source, or no change.  The
\* modules are replaced one by one, and the device accepts them all: a
\* vkCreateShaderModule that fails is left out, as all failures of the device are.
AllCompile(glsl) == \A s \in Stages : glsl[s].made => Compiles(glsl[s], s)

\* Mutant: each stage that compiles is taken over at once.
ParseTechniqueEager(tech, b, H) ==
  LET glsl == SetStages(tech.glsl, b, H) IN
  IF ~b.parses
  THEN [known |-> TRUE, attrs |-> Partial, glsl |-> tech.glsl, modules |-> tech.modules]
  ELSE [known |-> TRUE, attrs |-> b.name, glsl |-> glsl,
        modules |-> [s \in Stages |-> IF glsl[s].made /\ Compiles(glsl[s], s)
                                      THEN glsl[s] ELSE tech.modules[s]]]

\* ShaderTechnique::parse.  The old attributes go first, whatever follows.
ParseTechnique(tech, b, H) ==
  LET glsl == SetStages(tech.glsl, b, H) IN
  IF ~b.parses
  THEN [known |-> TRUE, attrs |-> Partial, glsl |-> tech.glsl, modules |-> tech.modules]
  ELSE [known |-> TRUE, attrs |-> b.name, glsl |-> glsl,
        modules |-> IF AllCompile(glsl) THEN glsl ELSE tech.modules]

ParseSucceeds(tech, b, H) == b.parses /\ AllCompile(SetStages(tech.glsl, b, H))

\* One technique block of FXFile::parse: a technique that failed and has never
\* been compiled is erased from the map.
Rebuild(tech, b, H) ==
  IF ~ParseSucceeds(tech, b, H) /\ ~HasModules(tech.modules)
  THEN NoTechnique
  ELSE ParseTechnique(tech, b, H)

-----------------------------------------------------------------------------
(* FXFile::parse.                                                          *)

\* Mutant: operator[] in place of find(), which makes what it does not find.
KnownAlways(h) == TRUE

Known(h) == heads[h].info > 0

\* The includes before the first one that is not in the map.
Included(text) ==
  {i \in DOMAIN text.uses : \A j \in 1 .. i : Known(text.uses[j])}

\* Mutant: the list is only added to.
OldDependencies(f) == fx[f].deps

\* What clear_dependencies leaves of the list.
ClearedDependencies(f) == {}

\* Mutant: add_dependency is not called.
DependenciesNone(text) == {}

Dependencies(text) ==
  {[header |-> text.uses[i], info |-> heads[text.uses[i]].info] : i \in Included(text)}

\* The parse of an effect whose contents are `text', read with info `info'.
ParseFX(f, info, text) ==
  IF text = NoText
  THEN /\ fx' = [fx EXCEPT ![f] =
              [info |-> info, text |-> text,
               deps |-> ClearedDependencies(f), whole |-> TRUE]]
       /\ UNCHANGED techs
  ELSE LET used == {text.uses[i] : i \in DOMAIN text.uses}
           found == Included(text) = DOMAIN text.uses
           H == [h \in used |-> heads[h].text]
       IN /\ fx' = [fx EXCEPT ![f] = [info |-> info, text |-> text,
                 deps |-> ClearedDependencies(f) \cup Dependencies(text), whole |-> found]]
          /\ techs' = IF found
                      THEN [t \in Techniques |->
                              IF t \in DOMAIN text.blocks
                              THEN Rebuild(Held(techs[t]), text.blocks[t], H)
                              ELSE techs[t]]
                      ELSE techs

-----------------------------------------------------------------------------
(* Manager::updateShaders.                                                 *)

Idle == [at |-> "idle", listing |-> [h \in {} |-> 0], todo |-> {}, info |-> 0]

\* Path::read while the editor may hold the file: `got' is what it returns.  If the
\* file cannot be opened that is nothing, after room was made for the 2^32 - 1
\* bytes that tellg() = -1 asks for; where that throws, the program ends.
Reads(x, got) ==
  \/ got = (IF disk[x].text = Gone THEN NoText ELSE disk[x].text) /\ UNCHANGED failures
  \/ got = NoText /\ failures < MaxFailures /\ failures' = failures + 1

\* Path::files: the names and infos of the files there are.
ListFiles ==
  /\ pass.at = "idle"
  /\ LET there == {h \in Headers : disk[h].text # Gone}
     IN pass' = [at |-> "headers", listing |-> [h \in there |-> disk[h].time],
                 todo |-> there, info |-> 0]
  /\ UNCHANGED <<disk, edits, failures, heads, fx, techs, pipes>>

\* Mutant: what has been loaded once is not loaded again.
CachedOnce(h, info) == Known(h)

Cached(h, info) == heads[h].info = info

\* ShaderFile::load of one header: nothing when the info is the cached one.
LoadHeader(h) ==
  /\ pass.at = "headers" /\ h \in pass.todo
  /\ IF Cached(h, pass.listing[h])
     THEN UNCHANGED <<heads, failures>>
     ELSE \E got \in HeaderTexts \cup {NoText} :
            /\ Reads(h, got)
            /\ heads' = [heads EXCEPT ![h] = [info |-> pass.listing[h], text |-> got]]
  /\ pass' = [pass EXCEPT !.todo = @ \ {h}]
  /\ UNCHANGED <<disk, edits, fx, techs, pipes>>

StartEffects ==
  /\ pass.at = "headers" /\ pass.todo = {}
  /\ pass' = [at |-> "effects", listing |-> [h \in {} |-> 0], todo |-> FXFiles, info |-> 0]
  /\ UNCHANGED <<disk, edits, failures, heads, fx, techs, pipes>>

\* Path::exists: the effect's info now, or on to the next one.
StatFX(f) ==
  /\ pass.at = "effects" /\ f \in pass.todo /\ pass.info = 0
  /\ IF disk[f].text = Gone
     THEN pass' = [pass EXCEPT !.todo = @ \ {f}]
     ELSE pass' = [pass EXCEPT !.at = f, !.info = disk[f].time]
  /\ UNCHANGED <<disk, edits, failures, heads, fx, techs, pipes>>

\* A file the effect was built from is no longer the one in the map.
DependencyChanged(f) == \E d \in fx[f].deps : heads[d.header].info # d.info

\* load, the check of the dependencies, and the parse they call for.
CheckFX(f) ==
  /\ pass.at = f
  /\ IF fx[f].info = pass.info
     THEN /\ UNCHANGED failures
          /\ IF DependencyChanged(f)
             THEN ParseFX(f, fx[f].info, fx[f].text)
             ELSE UNCHANGED <<fx, techs>>
     ELSE \E got \in FXTexts[f] \cup {NoText} :
            /\ Reads(f, got)
            /\ IF got # NoText \/ DependencyChanged(f)
               THEN ParseFX(f, pass.info, got)
               ELSE /\ fx' = [fx EXCEPT ![f] = [info |-> pass.info, text |-> NoText,
                                  deps |-> fx[f].deps, whole |-> fx[f].whole]]
                    /\ UNCHANGED techs
  /\ pass' = [pass EXCEPT !.at = "effects", !.todo = @ \ {f}, !.info = 0]
  /\ UNCHANGED <<disk, edits, heads, pipes>>

EndPass ==
  /\ pass.at = "effects" /\ pass.todo = {}
  /\ pass' = Idle
  /\ UNCHANGED <<disk, edits, failures, heads, fx, techs, pipes>>

-----------------------------------------------------------------------------
(* The rest of the program, and the editor.                                *)

\* ShaderTechnique::buildPipeline: today's modules with today's attributes.
BuildPipeline(t) ==
  /\ pass.at = "idle"
  /\ techs[t].known /\ HasModules(techs[t].modules)
  /\ pipes' = [pipes EXCEPT ![t] =
                 [built |-> TRUE, attrs |-> techs[t].attrs, modules |-> techs[t].modules]]
  /\ UNCHANGED <<disk, edits, failures, heads, fx, techs, pass>>

\* Manager::cleanup, before the swapchain is rebuilt.
Cleanup ==
  /\ pass.at = "idle"
  /\ pipes' = [t \in Techniques |-> NoPipeline]
  /\ UNCHANGED <<disk, edits, failures, heads, fx, techs, pass>>

\* The editor saves a file, or deletes it.
Edit(x, text) ==
  /\ edits < MaxEdits
  /\ text # disk[x].text
  /\ edits' = edits + 1
  /\ disk' = [disk EXCEPT ![x] = [time |-> edits + 2, text |-> text]]
  /\ UNCHANGED <<failures, heads, fx, techs, pipes, pass>>

Texts(x) == (IF x \in Headers THEN HeaderTexts ELSE FXTexts[x]) \cup {Gone}

Init ==
  /\ disk \in [Files -> [time : {1}, text : HeaderTexts \cup AllFX \cup {Gone}]]
  /\ \A x \in Files : disk[x].text \in Texts(x)
  /\ edits = 0 /\ failures = 0
  /\ heads = [h \in Headers |-> [info |-> 0, text |-> NoText]]
  /\ fx = [f \in FXFiles |-> [info |-> 0, text |-> NoText, deps |-> {}, whole |-> TRUE]]
  /\ techs = [t \in Techniques |-> NoTechnique]
  /\ pipes = [t \in Techniques |-> NoPipeline]
  /\ pass = Idle

Update ==
  \/ ListFiles \/ StartEffects \/ EndPass
  \/ \E h \in Headers : LoadHeader(h)
  \/ \E f \in FXFiles : StatFX(f) \/ CheckFX(f)

Next ==
  \/ Update \/ Cleanup
  \/ \E t \in Techniques : BuildPipeline(t)
  \/ \E x \in Files : \E text \in Texts(x) : Edit(x, text)

\* Manager::update runs every frame and starts a pass once per period.
Spec == Init /\ [][Next]_vars /\ WF_vars(Update)

-----------------------------------------------------------------------------
(* Properties.                                                             *)

Techs == [known : {TRUE}, attrs : BlockNames \cup {NoAttrs, Partial},
          glsl : Sources, modules : Sources] \cup {NoTechnique}

TypeOK ==
  /\ disk \in [Files -> [time : Nat \ {0}, text : HeaderTexts \cup AllFX \cup {Gone}]]
  /\ edits \in 0 .. MaxEdits /\ failures \in 0 .. MaxFailures
  /\ heads \in [Headers -> [info : Nat, text : HeaderTexts \cup {NoText}]]
  /\ \A f \in FXFiles :
       /\ fx[f].text \in FXTexts[f] \cup {NoText}
       /\ \A d \in fx[f].deps : d.header \in Headers /\ d.info \in Nat \ {0}
  /\ \A t \in Techniques : techs[t].known => techs[t] \in Techs
  /\ \A t \in Techniques : pipes[t].built => HasModules(pipes[t].modules)
  /\ pass.at \in {"idle", "headers", "effects"} \cup FXFiles

Valid(t) == techs[t].known /\ HasModules(techs[t].modules)

\* No technique is declared by two effects: the map of techniques is keyed by name
\* alone, and a second declaration would take the object of the first.
OwnTechniques ==
  \A f, g \in FXFiles : f # g =>
    \A x \in FXTexts[f], y \in FXTexts[g] : DOMAIN x.blocks \cap DOMAIN y.blocks = {}

\* When a pass is done with an effect, no technique of it is behind the headers in
\* memory: if the effect found its includes, every source set is made of the
\* texts cached now, so a header two effects share is noticed by both.
Follows(f) ==
  fx[f].text # NoText /\ fx[f].whole =>
    \A t \in DOMAIN fx[f].text.blocks :
      LET b == fx[f].text.blocks[t] IN
      techs[t].known /\ b.parses =>
        \A s \in DOMAIN b.stages :
          techs[t].glsl[s] = Code(b, [h \in DOMAIN techs[t].glsl[s].heads |-> heads[h].text])

ChecksAreComplete ==
  [][\A f \in FXFiles : pass.at = f /\ pass'.at # f => (Follows(f))']_vars

\* A technique that has compiled once can be drawn with for ever after, while
\* render code holds the pointer getTechnique gave it: no edit, deletion or failed
\* read takes its program away or erases it from the map.  The program changes all
\* its stages at once, to sources that compile together, or not at all.
AllOrNothing ==
  [][\A t \in Techniques : Valid(t) =>
       /\ Valid(t)'
       /\ techs'[t].modules # techs[t].modules =>
            techs'[t].modules = techs'[t].glsl /\ AllCompile(techs'[t].glsl)]_vars

\* Once the editor stops, passes stop finding work: from some pass on, no check
\* finds an effect to load or a dependency that differs, and nothing is parsed.
Settles ==
  <>[](\A f \in FXFiles : pass.at = f => fx[f].info = pass.info /\ ~DependencyChanged(f))

\* What technique t of effect f should be made of, for the files on disk now.
Wanted(f, t) ==
  LET x == disk[f].text
  IN Code(x.blocks[t], [h \in {x.uses[i] : i \in DOMAIN x.uses} |-> disk[h].text])

\* Technique t of effect f can be built from the files on disk, all of its code
\* good.
Buildable(f, t) ==
  LET x == disk[f].text IN
  /\ x # Gone /\ t \in DOMAIN x.blocks
  /\ x.blocks[t].parses /\ DOMAIN x.blocks[t].stages # {}
  /\ \A i \in DOMAIN x.uses : disk[x.uses[i]].text \in HeaderTexts
  /\ \A s \in DOMAIN x.blocks[t].stages : Compiles(Wanted(f, t), s)

UpToDate(f, t) ==
  /\ techs[t].known
  /\ \A s \in DOMAIN disk[f].text.blocks[t].stages : techs[t].modules[s] = Wanted(f, t)

\* Nothing went wrong on the way: the last reads succeeded, the last parse found
\* its includes, and no other stage is left over from an earlier text.
Undisturbed(f, t) ==
  LET x == disk[f].text IN
  /\ fx[f].text # NoText /\ fx[f].whole
  /\ \A i \in DOMAIN x.uses : heads[x.uses[i]].text # NoText
  /\ techs[t].known =>
       \A s \in Stages : techs[t].glsl[s].made => s \in DOMAIN x.blocks[t].stages

\* Once the editor stops, each technique whose files are all good is running
\* their last version, unless a read failed, an include came late or a stage
\* was dropped (see ModifiedIsRebuilt).
CatchesUp ==
  <>[](\A f \in FXFiles, t \in Techniques :
         Buildable(f, t) /\ Undisturbed(f, t) => UpToDate(f, t))

\* VKManager.h:95: "Checks for modified shader files and rebuilds affected
\* techniques."  Once the editor stops, a technique whose files are all good is
\* running their last version.  The code does not keep it: hence the premise
\* Undisturbed of CatchesUp.
ModifiedIsRebuilt ==
  <>[](\A f \in FXFiles, t \in Techniques : Buildable(f, t) => UpToDate(f, t))

\* VKManager.h:96: "If any modified techniques fail to compile/link, a warning is
\* logged and the previous iteration is kept": a pipeline never joins the
\* attributes of one iteration to the modules of another.
IterationIsWhole ==
  \A t \in Techniques : pipes[t].built =>
    \E s \in Stages : pipes[t].modules[s].made /\ pipes[t].modules[s].block.name = pipes[t].attrs

=============================================================================
