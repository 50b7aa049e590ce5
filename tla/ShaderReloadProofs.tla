------------------------- MODULE ShaderReloadProofs -------------------------
(***************************************************************************)
(* What holds of shader reloading for any files, techniques and stages,    *)
(* any number of edits and failed reads, and any texts.                    *)
(***************************************************************************)
EXTENDS ShaderReload, TLAPS

\* What the variables are made of, in more detail than TypeOK says.
Caches == [info : Nat, text : AllFX \cup {NoText},
           deps : SUBSET [header : Headers, info : Nat \ {0}], whole : BOOLEAN]
Listings == UNION {[H -> Nat \ {0}] : H \in SUBSET Headers}
Passes == [at : {"idle", "headers", "effects"} \cup FXFiles, listing : Listings,
           todo : SUBSET Files, info : Nat]
Pipes == [built : {TRUE}, attrs : BlockNames \cup {NoAttrs, Partial}, modules : Sources]

Typed ==
  /\ TypeOK
  /\ fx \in [FXFiles -> Caches] /\ techs \in [Techniques -> Techs]
  /\ pipes \in [Techniques -> Pipes \cup {NoPipeline}]
  /\ pass \in Passes
  /\ pass.at = "headers" => pass.todo \subseteq DOMAIN pass.listing
  /\ pass.at \in {"effects"} \cup FXFiles => pass.todo \subseteq FXFiles

\* The clock: a header in memory is never newer than the one listed, nor that one
\* newer than the one on disk, whose times only grow.
Clock ==
  /\ \A x \in Files : disk[x].time <= edits + 1
  /\ \A h \in Headers : heads[h].info <= disk[h].time
  /\ pass.at = "headers" => \A h \in pass.todo :
       heads[h].info <= pass.listing[h] /\ pass.listing[h] <= disk[h].time
  /\ pass.at \in FXFiles => pass.info > 0

\* A module belongs to a stage that has a source.
HaveSources ==
  \A t \in Techniques : techs[t].known =>
    \A s \in Stages : techs[t].modules[s].made => techs[t].glsl[s].made

---------------------------------------------------------------------------
LEMMA TextsOfEffects ==
  ASSUME NEW f \in FXFiles, NEW x \in FXTexts[f]
  PROVE  /\ x \in AllFX /\ x # NoText /\ x # Gone
         /\ x.uses \in Seq(Headers) /\ DOMAIN x.blocks \subseteq Techniques
         /\ \A t \in DOMAIN x.blocks :
              x.blocks[t] \in Blocks /\ DOMAIN x.blocks[t].stages \subseteq Stages
<1>1. x \in AllFX
  BY DEF AllFX
<1>2. \A t \in DOMAIN x.blocks : x.blocks[t] \in Blocks
  BY <1>1 DEF Blocks
<1> QED BY <1>1, <1>2, ReloadAssumption

TechObjects == [known : {TRUE}, attrs : BlockNames \cup {NoAttrs, Partial},
                glsl : Sources, modules : Sources]

LEMMA KnownTyped ==
  ASSUME NEW tech \in Techs, tech.known
  PROVE  tech \in TechObjects
<1>1. NoTechnique.known = FALSE
  BY DEF NoTechnique
<1>2. tech # NoTechnique
  BY <1>1
<1> QED BY <1>2 DEF Techs, TechObjects

\* A parse of a technique block yields a technique, complete or partial.
LEMMA ParseTechniqueTyped ==
  ASSUME NEW tech \in Techs, tech.known, NEW b \in Blocks, NEW H \in CodeHeads
  PROVE  /\ ParseTechnique(tech, b, H) \in Techs
         /\ ParseTechnique(tech, b, H).known
<1>1. tech \in TechObjects
  BY KnownTyped
<1>2. Code(b, H) \in Codes
  BY DEF Code, Codes
<1>3. SetStages(tech.glsl, b, H) \in Sources
  BY <1>1, <1>2 DEF SetStages, Sources, TechObjects
<1>4. b.name \in BlockNames
  BY DEF BlockNames
<1>5. ParseTechnique(tech, b, H) \in TechObjects
  <2>1. CASE b.parses
    BY <1>1, <1>3, <1>4, <2>1 DEF ParseTechnique, TechObjects
  <2>2. CASE ~b.parses
    BY <1>1, <2>2 DEF ParseTechnique, TechObjects
  <2> QED BY <2>1, <2>2
<1>6. ParseTechnique(tech, b, H).known
  BY <1>5 DEF TechObjects
<1> QED BY <1>5, <1>6 DEF Techs, TechObjects

LEMMA HeldTyped ==
  ASSUME NEW tech \in Techs
  PROVE  Held(tech) \in Techs /\ Held(tech).known
<1>1. [s \in Stages |-> NoCode] \in Sources
  BY DEF Sources, Codes
<1> QED BY <1>1 DEF Held, Techs, NoTechnique

LEMMA RebuildTyped ==
  ASSUME NEW tech \in Techs, tech.known, NEW b \in Blocks, NEW H \in CodeHeads
  PROVE  Rebuild(tech, b, H) \in Techs
BY ParseTechniqueTyped DEF Rebuild, Techs

Used(text) == {text.uses[i] : i \in DOMAIN text.uses}
HeadsNow(text) == [h \in Used(text) |-> heads[h].text]

\* What a parse does, in one formula for each of its two results.
LEMMA ParseEffect ==
  ASSUME NEW f \in FXFiles, NEW info, NEW text, ParseFX(f, info, text), text # NoText
  PROVE  /\ fx' = [fx EXCEPT ![f] = [info |-> info, text |-> text, deps |-> Dependencies(text),
                                     whole |-> Included(text) = DOMAIN text.uses]]
         /\ techs' = IF Included(text) = DOMAIN text.uses
                     THEN [t \in Techniques |->
                             IF t \in DOMAIN text.blocks
                             THEN Rebuild(Held(techs[t]), text.blocks[t], HeadsNow(text))
                             ELSE techs[t]]
                     ELSE techs
BY DEF ParseFX, ClearedDependencies, Used, HeadsNow

LEMMA UsesTyped ==
  ASSUME Typed, NEW f \in FXFiles, NEW text \in FXTexts[f]
  PROVE  /\ Used(text) \subseteq Headers /\ HeadsNow(text) \in CodeHeads
         /\ Dependencies(text) \subseteq [header : Headers, info : Nat \ {0}]
<1>1. \A i \in DOMAIN text.uses : text.uses[i] \in Headers
  BY TextsOfEffects
<1>2. Used(text) \in SUBSET Headers
  BY <1>1 DEF Used
<1>3. HeadsNow(text) \in [Used(text) -> HeaderTexts \cup {NoText}]
  BY <1>2 DEF HeadsNow, Typed, TypeOK
<1>4. \A i \in Included(text) :
        i \in DOMAIN text.uses /\ text.uses[i] \in Headers /\ heads[text.uses[i]].info \in Nat \ {0}
  <2> SUFFICES ASSUME NEW i \in Included(text)
               PROVE  i \in DOMAIN text.uses /\ text.uses[i] \in Headers
                      /\ heads[text.uses[i]].info \in Nat \ {0}
    OBVIOUS
  <2>1. i \in DOMAIN text.uses /\ \A j \in 1 .. i : Known(text.uses[j])
    BY DEF Included
  <2>2. i \in 1 .. i
    BY <2>1, TextsOfEffects
  <2>3. Known(text.uses[i])
    BY <2>1, <2>2
  <2> QED BY <1>1, <2>1, <2>3 DEF Known, Typed, TypeOK
<1>5. Dependencies(text) \subseteq [header : Headers, info : Nat \ {0}]
  BY <1>4 DEF Dependencies
<1> QED BY <1>2, <1>3, <1>5 DEF CodeHeads

LEMMA ParseTyped ==
  ASSUME Typed, NEW f \in FXFiles, NEW info \in Nat, NEW text \in FXTexts[f] \cup {NoText},
         ParseFX(f, info, text)
  PROVE  /\ fx' \in [FXFiles -> Caches] /\ techs' \in [Techniques -> Techs]
         /\ fx'[f].text = text /\ \A g \in FXFiles \ {f} : fx'[g] = fx[g]
<1>1. CASE text = NoText
  <2>1. fx' = [fx EXCEPT ![f] = [info |-> info, text |-> text, deps |-> {}, whole |-> TRUE]]
        /\ techs' = techs
    BY <1>1 DEF ParseFX, ClearedDependencies
  <2>2. [info |-> info, text |-> text, deps |-> {}, whole |-> TRUE] \in Caches
    BY <1>1 DEF Caches
  <2> QED BY <2>1, <2>2 DEF Typed
<1>2. CASE text # NoText
  <2>1. text \in FXTexts[f] /\ text \in AllFX
    BY <1>2, TextsOfEffects
  <2>2. [info |-> info, text |-> text, deps |-> Dependencies(text),
         whole |-> Included(text) = DOMAIN text.uses] \in Caches
    BY <2>1, UsesTyped DEF Caches
  <2>3. fx' \in [FXFiles -> Caches] /\ fx'[f].text = text /\ \A g \in FXFiles \ {f} : fx'[g] = fx[g]
    BY <1>2, <2>2, ParseEffect DEF Typed
  <2>4. \A t \in Techniques : t \in DOMAIN text.blocks =>
          Rebuild(Held(techs[t]), text.blocks[t], HeadsNow(text)) \in Techs
    BY <2>1, TextsOfEffects, UsesTyped, HeldTyped, RebuildTyped DEF Typed
  <2>5. techs' \in [Techniques -> Techs]
    BY <1>2, <2>4, ParseEffect DEF Typed
  <2> QED BY <2>3, <2>5
<1> QED BY <1>1, <1>2

---------------------------------------------------------------------------
Invariant == Typed /\ Clock /\ HaveSources

LEMMA InitInvariant == Init => Invariant
<1> SUFFICES ASSUME Init PROVE Invariant
  OBVIOUS
<1> USE ReloadAssumption
<1>1. /\ fx \in [FXFiles -> Caches] /\ techs \in [Techniques -> Techs]
      /\ pipes \in [Techniques -> Pipes \cup {NoPipeline}]
  BY DEF Init, Caches, Techs
<1>2. pass \in Passes /\ pass.at = "idle"
  <2>1. [h \in {} |-> 0] \in [{} -> Nat \ {0}]
    OBVIOUS
  <2>2. [h \in {} |-> 0] \in Listings
    BY <2>1 DEF Listings
  <2> QED BY <2>2 DEF Init, Idle, Passes
<1>3. \A t \in Techniques : ~techs[t].known /\ ~pipes[t].built
  BY DEF Init, NoTechnique, NoPipeline
<1>4. TypeOK
  BY <1>2, <1>3 DEF Init, TypeOK, Passes
<1>5. Clock
  BY <1>2 DEF Init, Clock, Files
<1> QED BY <1>1, <1>2, <1>3, <1>4, <1>5 DEF Invariant, Typed, HaveSources

LEMMA EditKeepsInvariant ==
  ASSUME Invariant, NEW x \in Files, NEW text \in Texts(x), Edit(x, text)
  PROVE  Invariant'
<1> USE DEF Invariant
<1>1. text \in HeaderTexts \cup AllFX \cup {Gone}
  BY DEF Texts, AllFX, Files
<1>2. edits' \in 0 .. MaxEdits /\ edits' = edits + 1 /\ edits \in Nat
  BY ReloadAssumption DEF Edit, Typed, TypeOK
<1>3. disk' \in [Files -> [time : Nat \ {0}, text : HeaderTexts \cup AllFX \cup {Gone}]]
  BY <1>1, <1>2 DEF Edit, Typed, TypeOK
<1>4. disk'[x].time = edits + 2 /\ \A y \in Files \ {x} : disk'[y] = disk[y]
  BY DEF Edit, Typed, TypeOK
<1>5. \A y \in Files : disk[y].time \in Nat /\ disk'[y].time \in Nat
                       /\ disk[y].time <= disk'[y].time /\ disk'[y].time <= edits' + 1
  BY <1>2, <1>3, <1>4 DEF Clock, Typed, TypeOK
<1>6. UNCHANGED <<failures, heads, fx, techs, pipes, pass>>
  BY DEF Edit
<1>7. Typed'
  BY <1>2, <1>3, <1>6 DEF Typed, TypeOK, HasModules
<1>8. \A h \in Headers : h \in Files /\ heads[h].info \in Nat
  BY DEF Files, Typed, TypeOK
<1>9. pass.at = "headers" => \A h \in pass.todo : pass.listing[h] \in Nat /\ h \in Headers
  BY DEF Typed, Passes, Listings
<1>10. Clock'
  BY <1>5, <1>6, <1>8, <1>9 DEF Clock
<1> QED BY <1>6, <1>7, <1>10 DEF HaveSources

LEMMA LoadHeaderKeepsInvariant ==
  ASSUME Invariant, NEW h \in Headers, LoadHeader(h)
  PROVE  Invariant'
<1> USE DEF Invariant
<1>1. pass.at = "headers" /\ h \in pass.todo /\ pass.listing[h] \in Nat \ {0}
      /\ heads[h].info <= pass.listing[h] /\ pass.listing[h] <= disk[h].time
  BY DEF LoadHeader, Typed, Passes, Listings, Clock
<1>2. pass' = [pass EXCEPT !.todo = @ \ {h}] /\ UNCHANGED <<disk, edits, fx, techs, pipes>>
  BY DEF LoadHeader
<1>3. pass' \in Passes /\ pass'.at = "headers" /\ pass'.listing = pass.listing
      /\ pass'.todo = pass.todo \ {h}
  BY <1>1, <1>2 DEF Typed, Passes
<1>4. /\ heads' \in [Headers -> [info : Nat, text : HeaderTexts \cup {NoText}]]
      /\ failures' \in 0 .. MaxFailures
      /\ \A k \in Headers : heads'[k] = heads[k] \/ (k = h /\ heads'[k].info = pass.listing[k])
  <2>1. CASE UNCHANGED <<heads, failures>>
    BY <2>1 DEF Typed, TypeOK
  <2>2. ASSUME NEW got \in HeaderTexts \cup {NoText}, Reads(h, got),
               heads' = [heads EXCEPT ![h] = [info |-> pass.listing[h], text |-> got]]
        PROVE  <1>4!1 /\ <1>4!2 /\ <1>4!3
    <3>1. failures' \in 0 .. MaxFailures
      BY <2>2, ReloadAssumption DEF Reads, Typed, TypeOK
    <3> QED BY <1>1, <2>2, <3>1 DEF Typed, TypeOK
  <2> QED BY <2>1, <2>2 DEF LoadHeader
<1>5. Typed'
  BY <1>2, <1>3, <1>4 DEF Typed, TypeOK, Passes, HasModules
<1>6. \A k \in Headers : heads'[k].info <= disk[k].time
  BY <1>1, <1>4 DEF Clock
<1>7. \A k \in pass.todo \ {h} : heads'[k] = heads[k]
  BY <1>1, <1>4 DEF Typed, Passes, Listings
<1>8. pass'.at \notin FXFiles
  BY <1>3, ReloadAssumption
<1>9. Clock'
  BY <1>1, <1>2, <1>3, <1>6, <1>7, <1>8 DEF Clock
<1> QED BY <1>2, <1>5, <1>9 DEF HaveSources

LEMMA PassKeepsInvariant ==
  ASSUME Invariant,
         ListFiles \/ StartEffects \/ EndPass \/ \E f \in FXFiles : StatFX(f)
  PROVE  Invariant'
<1> USE ReloadAssumption DEF Invariant
<1>1. UNCHANGED <<disk, edits, failures, heads, fx, techs, pipes>>
  BY DEF ListFiles, StartEffects, EndPass, StatFX
<1>2. [h \in {} |-> 0] \in Listings
  <2>1. [h \in {} |-> 0] \in [{} -> Nat \ {0}]
    OBVIOUS
  <2> QED BY <2>1 DEF Listings
<1>3. CASE ListFiles
  <2> DEFINE there == {h \in Headers : disk[h].text # Gone}
             listing == [h \in there |-> disk[h].time]
  <2>1. pass' = [at |-> "headers", listing |-> listing, todo |-> there, info |-> 0]
    BY <1>3 DEF ListFiles
  <2>2. listing \in [there -> Nat \ {0}]
    BY DEF Typed, TypeOK, Files
  <2>3. listing \in Listings
    BY <2>2 DEF Listings
  <2>4. pass' \in Passes
    BY <2>1, <2>3 DEF Passes, Files
  <2>5. Typed'
    BY <1>1, <2>1, <2>4 DEF Typed, TypeOK, HasModules
  <2>6. Clock'
    BY <1>1, <2>1 DEF Clock, Files, Typed, TypeOK
  <2> QED BY <1>1, <2>5, <2>6 DEF HaveSources
<1>4. CASE StartEffects
  <2>1. pass' = [at |-> "effects", listing |-> [h \in {} |-> 0], todo |-> FXFiles, info |-> 0]
    BY <1>4 DEF StartEffects
  <2>2. pass' \in Passes
    BY <1>2, <2>1 DEF Passes, Files
  <2>3. Typed'
    BY <1>1, <2>1, <2>2 DEF Typed, TypeOK, HasModules
  <2> QED BY <1>1, <2>1, <2>3 DEF Clock, HaveSources
<1>5. CASE EndPass
  <2>1. pass' \in Passes /\ pass'.at = "idle"
    BY <1>2, <1>5 DEF EndPass, Idle, Passes
  <2>2. Typed'
    BY <1>1, <2>1 DEF Typed, TypeOK, HasModules
  <2> QED BY <1>1, <2>1, <2>2 DEF Clock, HaveSources
<1>6. ASSUME NEW f \in FXFiles, StatFX(f) PROVE Invariant'
  <2>1. pass' \in Passes /\ (pass'.at \in {"effects"} \cup FXFiles => pass'.todo \subseteq FXFiles)
        /\ (pass'.at \in FXFiles => pass'.info > 0) /\ pass'.at # "headers"
    <3>1. disk[f].time \in Nat \ {0} /\ pass \in Passes /\ pass.at = "effects" /\ pass.todo \subseteq FXFiles
      BY <1>6 DEF StatFX, Typed, TypeOK, Files
    <3>2. CASE disk[f].text = Gone
      <4>1. pass' = [pass EXCEPT !.todo = @ \ {f}]
        BY <1>6, <3>2 DEF StatFX
      <4>2. pass' \in Passes /\ pass'.at = "effects" /\ pass'.todo \subseteq FXFiles
        BY <3>1, <4>1 DEF Passes
      <4> QED BY <4>2
    <3>3. CASE disk[f].text # Gone
      <4>1. pass' = [pass EXCEPT !.at = f, !.info = disk[f].time]
        BY <1>6, <3>3 DEF StatFX
      <4>2. pass' \in Passes /\ pass'.at = f /\ pass'.info = disk[f].time /\ pass'.todo = pass.todo
        BY <3>1, <4>1 DEF Passes
      <4> QED BY <3>1, <4>2
    <3> QED BY <3>2, <3>3
  <2>2. Typed'
    BY <1>1, <2>1 DEF Typed, TypeOK, Passes, HasModules
  <2> QED BY <1>1, <2>1, <2>2 DEF Clock, HaveSources
<1> QED BY <1>3, <1>4, <1>5, <1>6

NotRead(f) ==
  /\ fx' = [fx EXCEPT ![f] = [info |-> pass.info, text |-> NoText,
                              deps |-> fx[f].deps, whole |-> fx[f].whole]]
  /\ UNCHANGED techs

\* What CheckFX may do: a parse, or at most a note that the text could not be read.
LEMMA CheckEffect ==
  ASSUME Typed, NEW f \in FXFiles, CheckFX(f)
  PROVE  \/ \E info \in Nat, text \in FXTexts[f] \cup {NoText} : ParseFX(f, info, text)
         \/ UNCHANGED <<fx, techs>>
         \/ NotRead(f)
<1>1. fx[f].info \in Nat /\ pass.info \in Nat /\ fx[f].text \in FXTexts[f] \cup {NoText}
  BY DEF Typed, TypeOK, Caches, Passes
<1> QED BY <1>1 DEF CheckFX, NotRead

\* A parse takes no program away: a technique with modules keeps them or gets a whole
\* new set.
LEMMA ParseKeepsPrograms ==
  ASSUME NEW tech \in Techs, NEW b \in Blocks, NEW H,
         \A s \in Stages : Held(tech).modules[s].made => Held(tech).glsl[s].made
  PROVE  LET new == Rebuild(Held(tech), b, H) IN
         /\ new.known => \A s \in Stages : new.modules[s].made => new.glsl[s].made
         /\ tech.known /\ HasModules(tech.modules) =>
              /\ new.known /\ HasModules(new.modules)
              /\ new.modules # tech.modules => new.modules = new.glsl /\ AllCompile(new.glsl)
<1> DEFINE old == Held(tech)
           glsl == SetStages(old.glsl, b, H)
           new == ParseTechnique(old, b, H)
<1>1. \A s \in Stages : old.glsl[s].made => glsl[s].made
  BY DEF SetStages, Code
<1>2. CASE ~b.parses
  <2>1. new.known /\ new.glsl = old.glsl /\ new.modules = old.modules
    BY <1>2 DEF ParseTechnique
  <2> QED BY <2>1 DEF Rebuild, Held, HasModules, NoTechnique
<1>3. CASE b.parses
  <2>1. new.known /\ new.glsl = glsl /\ new.modules = IF AllCompile(glsl) THEN glsl ELSE old.modules
    BY <1>3 DEF ParseTechnique
  <2>2. Rebuild(old, b, H) = new \/ (~Rebuild(old, b, H).known /\ ~HasModules(old.modules))
    BY DEF Rebuild, NoTechnique
  <2> HIDE DEF glsl, new
  <2>3. CASE Rebuild(old, b, H) = new
    BY <1>1, <2>1, <2>3 DEF Held, HasModules
  <2>4. CASE ~Rebuild(old, b, H).known /\ ~HasModules(old.modules)
    BY <2>4 DEF Held, HasModules
  <2> QED BY <2>2, <2>3, <2>4
<1> QED BY <1>2, <1>3

\* What a check does to one technique.
LEMMA CheckTechnique ==
  ASSUME Invariant, NEW f \in FXFiles, CheckFX(f), NEW t \in Techniques
  PROVE  \/ techs'[t] = techs[t]
         \/ \E b \in Blocks, H \in CodeHeads : techs'[t] = Rebuild(Held(techs[t]), b, H)
<1>1. CASE UNCHANGED techs
  BY <1>1
<1>2. ASSUME NEW info \in Nat, NEW text \in FXTexts[f] \cup {NoText}, ParseFX(f, info, text),
             ~UNCHANGED techs
      PROVE  \/ techs'[t] = techs[t]
             \/ \E b \in Blocks, H \in CodeHeads : techs'[t] = Rebuild(Held(techs[t]), b, H)
  <2>1. text # NoText /\ text \in FXTexts[f]
    BY <1>2 DEF ParseFX
  <2>2. HeadsNow(text) \in CodeHeads /\ \A u \in DOMAIN text.blocks : text.blocks[u] \in Blocks
    BY <2>1, UsesTyped, TextsOfEffects DEF Invariant
  <2> QED BY <1>2, <2>1, <2>2, ParseEffect
<1> QED BY <1>1, <1>2, CheckEffect DEF Invariant, NotRead

LEMMA HeldHasSources ==
  ASSUME HaveSources, NEW t \in Techniques
  PROVE  \A s \in Stages : Held(techs[t]).modules[s].made => Held(techs[t]).glsl[s].made
BY DEF HaveSources, Held, NoCode

LEMMA CheckKeepsInvariant ==
  ASSUME Invariant, NEW f \in FXFiles, CheckFX(f)
  PROVE  Invariant'
<1> USE ReloadAssumption DEF Invariant
<1>1. UNCHANGED <<disk, edits, heads, pipes>> /\ pass.at = f
      /\ pass' = [pass EXCEPT !.at = "effects", !.todo = @ \ {f}, !.info = 0]
  BY DEF CheckFX
<1>2. pass' \in Passes /\ pass'.at = "effects" /\ pass'.todo \subseteq pass.todo
  BY <1>1 DEF Typed, Passes
<1>3. failures' \in 0 .. MaxFailures
  BY DEF CheckFX, Reads, Typed, TypeOK
<1> DEFINE Loaded == /\ fx' \in [FXFiles -> Caches] /\ techs' \in [Techniques -> Techs]
                     /\ \A g \in FXFiles : fx'[g].text \in FXTexts[g] \cup {NoText}
<1>4. Loaded
  <2>1. ASSUME NEW info \in Nat, NEW text \in FXTexts[f] \cup {NoText}, ParseFX(f, info, text)
        PROVE  Loaded
    <3>1. /\ fx' \in [FXFiles -> Caches] /\ techs' \in [Techniques -> Techs]
          /\ fx'[f].text = text /\ \A g \in FXFiles \ {f} : fx'[g] = fx[g]
      BY <2>1, ParseTyped
    <3>2. \A g \in FXFiles : fx[g].text \in FXTexts[g] \cup {NoText}
      BY DEF Typed, TypeOK
    <3> QED BY <3>1, <3>2
  <2>2. CASE UNCHANGED <<fx, techs>>
    BY <2>2 DEF Typed, TypeOK
  <2>3. CASE NotRead(f)
    <3>1. [info |-> pass.info, text |-> NoText, deps |-> fx[f].deps, whole |-> fx[f].whole] \in Caches
      BY DEF Typed, Caches, Passes
    <3> QED BY <2>3, <3>1 DEF Typed, TypeOK, NotRead
  <2> HIDE DEF Loaded
  <2> QED BY <2>1, <2>2, <2>3, CheckEffect
<1>5. TypeOK'
  BY <1>1, <1>2, <1>3, <1>4 DEF Typed, TypeOK, Caches, HasModules
<1>6. pass'.todo \subseteq FXFiles
  BY <1>1, <1>2 DEF Typed
<1>8. HaveSources'
  <2> SUFFICES ASSUME NEW t \in Techniques, techs'[t].known
               PROVE  \A s \in Stages : techs'[t].modules[s].made => techs'[t].glsl[s].made
    BY DEF HaveSources
  <2>1. CASE techs'[t] = techs[t]
    BY <2>1 DEF HaveSources
  <2>2. ASSUME NEW b \in Blocks, NEW H \in CodeHeads, techs'[t] = Rebuild(Held(techs[t]), b, H)
        PROVE  \A s \in Stages : techs'[t].modules[s].made => techs'[t].glsl[s].made
    BY <2>2, HeldHasSources, ParseKeepsPrograms DEF Typed
  <2> QED BY <2>1, <2>2, CheckTechnique
<1> QED BY <1>1, <1>2, <1>4, <1>5, <1>6, <1>8 DEF Typed, Clock

LEMMA StepKeepsInvariant == Invariant /\ [Next]_vars => Invariant'
<1> SUFFICES ASSUME Invariant, [Next]_vars PROVE Invariant'
  OBVIOUS
<1>1. ASSUME NEW h \in Headers, LoadHeader(h) PROVE Invariant'
  BY <1>1, LoadHeaderKeepsInvariant
<1>2. ASSUME NEW f \in FXFiles, CheckFX(f) PROVE Invariant'
  BY <1>2, CheckKeepsInvariant
<1>3. CASE ListFiles \/ StartEffects \/ EndPass \/ \E f \in FXFiles : StatFX(f)
  BY <1>3, PassKeepsInvariant
<1>4. ASSUME NEW x \in Files, NEW text \in Texts(x), Edit(x, text) PROVE Invariant'
  BY <1>4, EditKeepsInvariant
<1>5. ASSUME NEW t \in Techniques, BuildPipeline(t) PROVE Invariant'
  <2> DEFINE pipe == [built |-> TRUE, attrs |-> techs[t].attrs, modules |-> techs[t].modules]
  <2>1. techs[t] \in TechObjects /\ HasModules(techs[t].modules)
    BY <1>5, KnownTyped DEF BuildPipeline, Invariant, Typed
  <2>2. pipe \in Pipes /\ HasModules(pipe.modules)
    BY <2>1 DEF Pipes, TechObjects
  <2>3. pipes' = [pipes EXCEPT ![t] = pipe]
        /\ UNCHANGED <<disk, edits, failures, heads, fx, techs, pass>>
    BY <1>5 DEF BuildPipeline
  <2> HIDE DEF pipe
  <2>4. pipes' \in [Techniques -> Pipes \cup {NoPipeline}]
        /\ \A u \in Techniques : pipes'[u] = pipes[u] \/ pipes'[u] = pipe
    BY <2>2, <2>3 DEF Invariant, Typed
  <2>5. TypeOK'
    BY <2>2, <2>3, <2>4 DEF Invariant, Typed, TypeOK, HasModules
  <2> QED BY <2>3, <2>4, <2>5 DEF Invariant, Typed, Clock, HaveSources
<1>6. CASE Cleanup
  <2>1. pipes' \in [Techniques -> Pipes \cup {NoPipeline}]
        /\ \A t \in Techniques : ~pipes'[t].built
    BY <1>6 DEF Cleanup, NoPipeline
  <2>2. UNCHANGED <<disk, edits, failures, heads, fx, techs, pass>>
    BY <1>6 DEF Cleanup
  <2> QED BY <2>1, <2>2 DEF Invariant, Typed, TypeOK, Clock, HaveSources
<1>7. CASE UNCHANGED vars
  BY <1>7 DEF vars, Invariant, Typed, TypeOK, HasModules, Clock, HaveSources
<1> QED BY <1>1, <1>2, <1>3, <1>4, <1>5, <1>6, <1>7 DEF Next, Update

\* Type correctness, for any files and any number of edits and failed reads: what
\* the pass, the caches and the technique objects hold.
THEOREM ReloadTyped == Spec => []TypeOK
<1>1. Invariant => TypeOK
  BY DEF Invariant, Typed
<1> QED BY <1>1, InitInvariant, StepKeepsInvariant, PTL DEF Spec

\* A technique that has compiled once stays usable, and its program changes all its
\* stages at once to sources that compile together, or not at all
\* (ShaderTechnique::parse, ShaderProgram::compile and the erase of FXFile::parse).
THEOREM ProgramsAllOrNothing == Spec => AllOrNothing
<1> DEFINE Kept(t) == Valid(t) =>
             /\ Valid(t)'
             /\ techs'[t].modules # techs[t].modules =>
                  techs'[t].modules = techs'[t].glsl /\ AllCompile(techs'[t].glsl)
<1>1. ASSUME Invariant, [Next]_vars PROVE [\A t \in Techniques : Kept(t)]_vars
  <2> SUFFICES ASSUME NEW t \in Techniques PROVE Kept(t)
    OBVIOUS
  <2>1. CASE UNCHANGED techs
    BY <2>1 DEF Valid, HasModules
  <2>2. ASSUME NEW f \in FXFiles, CheckFX(f) PROVE Kept(t)
    <3>1. CASE techs'[t] = techs[t]
      BY <3>1 DEF Valid, HasModules
    <3>2. ASSUME NEW b \in Blocks, NEW H \in CodeHeads, techs'[t] = Rebuild(Held(techs[t]), b, H)
          PROVE  Kept(t)
      BY <1>1, <3>2, HeldHasSources, ParseKeepsPrograms DEF Valid, HasModules, Invariant, Typed
    <3> QED BY <1>1, <2>2, <3>1, <3>2, CheckTechnique
  <2> QED BY <1>1, <2>1, <2>2 DEF Next, Update, vars, ListFiles, StartEffects, EndPass,
        LoadHeader, StatFX, Cleanup, BuildPipeline, Edit
<1> QED BY <1>1, InitInvariant, StepKeepsInvariant, PTL DEF Spec, AllOrNothing, Kept
---------------------------------------------------------------------------
(* Checks are complete.  The invariant relates what an effect remembers of *)
(* its includes to the sources its techniques were given.                  *)

\* Technique t was last given sources whose included texts are the ones in memory,
\* except those of the headers that changed since.
BuiltFrom(f, t) ==
  LET b == fx[f].text.blocks[t] IN
  techs[t].known /\ b.parses => \A s \in DOMAIN b.stages : \E H \in CodeHeads :
    /\ techs[t].glsl[s] = Code(b, H) /\ DOMAIN H = Used(fx[f].text)
    /\ \A d \in fx[f].deps : heads[d.header].info = d.info => H[d.header] = heads[d.header].text

DependsOnAll(f) ==
  /\ \A h \in Used(fx[f].text) : \E d \in fx[f].deps : d.header = h
  /\ \A d \in fx[f].deps : d.header \in Used(fx[f].text) /\ d.info <= heads[d.header].info

Built(f) ==
  fx[f].text # NoText /\ fx[f].whole =>
    DependsOnAll(f) /\ \A t \in DOMAIN fx[f].text.blocks : BuiltFrom(f, t)

\* The effect that was parsed.
LEMMA ParseBuilds ==
  ASSUME Invariant, NEW f \in FXFiles, NEW info \in Nat, NEW text \in FXTexts[f] \cup {NoText},
         ParseFX(f, info, text), UNCHANGED heads
  PROVE  Built(f)' /\ (fx'[f].text # NoText /\ fx'[f].whole => ~DependencyChanged(f)')
<1>1. fx'[f].text = text
  BY ParseTyped DEF Invariant
<1> SUFFICES ASSUME text # NoText, fx'[f].whole
             PROVE  /\ DependsOnAll(f)' /\ \A t \in DOMAIN text.blocks : BuiltFrom(f, t)'
                    /\ ~DependencyChanged(f)'
  BY <1>1 DEF Built
<1>2. text \in FXTexts[f]
  OBVIOUS
<1>3. /\ fx'[f].deps = Dependencies(text) /\ Included(text) = DOMAIN text.uses
      /\ techs' = [t \in Techniques |->
                     IF t \in DOMAIN text.blocks
                     THEN Rebuild(Held(techs[t]), text.blocks[t], HeadsNow(text))
                     ELSE techs[t]]
  <2> DEFINE found == Included(text) = DOMAIN text.uses
             new == [info |-> info, text |-> text, deps |-> Dependencies(text), whole |-> found]
  <2>1. fx' = [fx EXCEPT ![f] = new]
    BY ParseEffect
  <2>2. fx'[f] = new
    BY <2>1 DEF Invariant, Typed
  <2> HIDE DEF found
  <2>3. new.deps = Dependencies(text) /\ new.whole = found
    BY Zenon
  <2>4. found
    BY <2>2, <2>3, Zenon
  <2>5. fx'[f].deps = Dependencies(text) /\ Included(text) = DOMAIN text.uses
    BY <2>2, <2>3, <2>4 DEF found
  <2> QED BY <2>5, ParseEffect
<1>4. \A d \in Dependencies(text) :
        d.header \in Used(text) /\ d.info = heads[d.header].info /\ d.info \in Nat
  BY <1>2, UsesTyped DEF Dependencies, Used, Included, Invariant
<1>5. \A h \in Used(text) : \E d \in Dependencies(text) : d.header = h
  <2> SUFFICES ASSUME NEW i \in DOMAIN text.uses
               PROVE  \E d \in Dependencies(text) : d.header = text.uses[i]
    BY DEF Used
  <2> DEFINE d == [header |-> text.uses[i], info |-> heads[text.uses[i]].info]
  <2>1. d \in Dependencies(text)
    BY <1>3 DEF Dependencies
  <2> QED BY <2>1
<1>6. DependsOnAll(f)' /\ ~DependencyChanged(f)'
  BY <1>1, <1>3, <1>4, <1>5 DEF DependsOnAll, DependencyChanged
<1>7. ASSUME NEW t \in DOMAIN text.blocks PROVE BuiltFrom(f, t)'
  <2> DEFINE b == text.blocks[t]
             H == HeadsNow(text)
  <2> SUFFICES ASSUME techs'[t].known, b.parses, NEW s \in DOMAIN b.stages
               PROVE  techs'[t].glsl[s] = Code(b, H)
    <3>1. H \in CodeHeads /\ DOMAIN H = Used(text)
      BY <1>2, UsesTyped DEF Invariant, HeadsNow
    <3>2. \A d \in fx'[f].deps : H[d.header] = heads'[d.header].text
      BY <1>3, <1>4 DEF HeadsNow
    <3> QED BY <1>1, <3>1, <3>2 DEF BuiltFrom
  <2>1. t \in Techniques /\ s \in Stages
    BY <1>2, TextsOfEffects
  <2>2. techs'[t] = Rebuild(Held(techs[t]), b, H)
    BY <1>3, <2>1
  <2>3. techs'[t] = ParseTechnique(Held(techs[t]), b, H)
    BY <2>2 DEF Rebuild, NoTechnique
  <2> QED BY <2>1, <2>3 DEF ParseTechnique, SetStages
<1> QED BY <1>6, <1>7

\* A parse of one effect leaves what was built from another.
LEMMA ParseKeepsOthers ==
  ASSUME OwnTechniques, Invariant, NEW f \in FXFiles, NEW info \in Nat,
         NEW text \in FXTexts[f] \cup {NoText}, ParseFX(f, info, text), UNCHANGED heads,
         NEW g \in FXFiles \ {f}, Built(g)
  PROVE  Built(g)'
<1>1. fx'[g] = fx[g]
  BY ParseTyped DEF Invariant
<1> SUFFICES ASSUME fx[g].text # NoText, fx[g].whole, NEW t \in DOMAIN fx[g].text.blocks
             PROVE  techs'[t] = techs[t]
  BY <1>1 DEF Built, DependsOnAll, BuiltFrom
<1>2. fx[g].text \in FXTexts[g]
  BY DEF Invariant, Typed, TypeOK
<1>3. t \in Techniques
  BY <1>2, TextsOfEffects
<1>4. CASE text = NoText
  BY <1>4 DEF ParseFX
<1>5. CASE text # NoText
  <2>1. t \notin DOMAIN text.blocks
    BY <1>2, <1>5 DEF OwnTechniques
  <2> QED BY <1>3, <1>5, <2>1, ParseEffect DEF Invariant, Typed
<1> QED BY <1>4, <1>5

LEMMA CheckKeepsBuilt ==
  ASSUME OwnTechniques, Invariant, NEW f \in FXFiles, CheckFX(f),
         \A g \in FXFiles : Built(g)
  PROVE  /\ \A g \in FXFiles : Built(g)'
         /\ fx'[f].text # NoText /\ fx'[f].whole => ~DependencyChanged(f)'
<1>1. UNCHANGED heads
  BY DEF CheckFX
<1>2. ASSUME NEW info \in Nat, NEW text \in FXTexts[f] \cup {NoText}, ParseFX(f, info, text)
      PROVE  /\ \A g \in FXFiles : Built(g)'
             /\ fx'[f].text # NoText /\ fx'[f].whole => ~DependencyChanged(f)'
  BY <1>1, <1>2, ParseBuilds, ParseKeepsOthers
<1>3. CASE NotRead(f)
  <2>1. fx'[f].text = NoText /\ UNCHANGED techs /\ \A g \in FXFiles \ {f} : fx'[g] = fx[g]
    BY <1>3 DEF NotRead, Invariant, Typed
  <2> QED BY <1>1, <2>1 DEF Built, DependsOnAll, BuiltFrom
<1>4. CASE UNCHANGED <<fx, techs>> /\ ~DependencyChanged(f)
  BY <1>1, <1>4 DEF Built, DependsOnAll, BuiltFrom, DependencyChanged
<1>5. \/ \E info \in Nat, text \in FXTexts[f] \cup {NoText} : ParseFX(f, info, text)
      \/ UNCHANGED <<fx, techs>> /\ ~DependencyChanged(f)
      \/ NotRead(f)
  <2>1. fx[f].info \in Nat /\ pass.info \in Nat /\ fx[f].text \in FXTexts[f] \cup {NoText}
    BY DEF Invariant, Typed, TypeOK, Caches, Passes
  <2> QED BY <2>1 DEF CheckFX, NotRead
<1> QED BY <1>2, <1>3, <1>4, <1>5

\* A header that is loaded again gets another info: no dependency on its old text is
\* taken for one on the new.
LEMMA LoadKeepsBuilt ==
  ASSUME Invariant, NEW h \in Headers, LoadHeader(h), NEW f \in FXFiles, Built(f)
  PROVE  Built(f)'
<1>1. UNCHANGED <<fx, techs>>
  BY DEF LoadHeader
<1>2. CASE UNCHANGED heads
  BY <1>1, <1>2 DEF Built, DependsOnAll, BuiltFrom
<1>3. CASE ~UNCHANGED heads
  <2>1. PICK got : heads' = [heads EXCEPT ![h] = [info |-> pass.listing[h], text |-> got]]
    BY <1>3 DEF LoadHeader
  <2>2. ~Cached(h, pass.listing[h]) /\ pass.at = "headers" /\ h \in pass.todo
    BY <1>3 DEF LoadHeader
  <2>3. heads[h].info < pass.listing[h] /\ heads[h].info \in Nat /\ pass.listing[h] \in Nat
    <3>1. heads[h].info \in Nat /\ pass.listing[h] \in Nat
      BY <2>2 DEF Invariant, Typed, TypeOK, Passes, Listings
    <3>2. heads[h].info <= pass.listing[h] /\ heads[h].info # pass.listing[h]
      BY <2>2 DEF Invariant, Clock, Cached
    <3> QED BY <3>1, <3>2
  <2>4. heads'[h].info = pass.listing[h] /\ \A k \in Headers \ {h} : heads'[k] = heads[k]
    BY <2>1 DEF Invariant, Typed, TypeOK
  <2>5. \A d \in fx[f].deps : d.header \in Headers /\ d.info \in Nat
    BY DEF Invariant, Typed, TypeOK
  <2>6. \A d \in fx[f].deps : d.info <= heads[d.header].info =>
          /\ d.info <= heads'[d.header].info
          /\ heads'[d.header].info = d.info => heads'[d.header] = heads[d.header]
    BY <2>3, <2>4, <2>5
  <2> QED BY <1>1, <2>6 DEF Built, DependsOnAll, BuiltFrom
<1> QED BY <1>2, <1>3

\* Effects whose dependencies all hold are made of the texts in memory.
LEMMA BuiltFollows ==
  ASSUME NEW f \in FXFiles, Built(f)',
         fx'[f].text # NoText /\ fx'[f].whole => ~DependencyChanged(f)'
  PROVE  Follows(f)'
<1> SUFFICES ASSUME fx'[f].text # NoText, fx'[f].whole, NEW t \in DOMAIN fx'[f].text.blocks,
                    techs'[t].known, fx'[f].text.blocks[t].parses,
                    NEW s \in DOMAIN fx'[f].text.blocks[t].stages
             PROVE  techs'[t].glsl[s] = Code(fx'[f].text.blocks[t],
                      [h \in DOMAIN techs'[t].glsl[s].heads |-> heads'[h].text])
  BY DEF Follows
<1>1. PICK H \in CodeHeads :
        /\ techs'[t].glsl[s] = Code(fx'[f].text.blocks[t], H) /\ DOMAIN H = Used(fx'[f].text)
        /\ \A d \in fx'[f].deps :
             heads'[d.header].info = d.info => H[d.header] = heads'[d.header].text
  BY DEF Built, BuiltFrom, Used
<1>2. \A h \in DOMAIN H : H[h] = heads'[h].text
  <2> SUFFICES ASSUME NEW h \in Used(fx'[f].text) PROVE H[h] = heads'[h].text
    BY <1>1
  <2>1. PICK d \in fx'[f].deps : d.header = h
    BY DEF Built, DependsOnAll, Used
  <2>2. heads'[d.header].info = d.info
    BY DEF DependencyChanged
  <2> QED BY <1>1, <2>1, <2>2
<1>3. H = [h \in DOMAIN H |-> heads'[h].text]
  BY <1>2 DEF CodeHeads
<1>4. techs'[t].glsl[s].heads = H
  BY <1>1 DEF Code
<1> QED BY <1>1, <1>3, <1>4

\* When a pass is done with an effect, no technique of it is behind the headers in
\* memory: the dependencies FXFile::parse records, and the infos updateShaders
\* compares them with, miss no header that was loaded again.
THEOREM ReloadChecksAreComplete ==
  ASSUME OwnTechniques PROVE Spec => ChecksAreComplete
<1> DEFINE AllBuilt == Invariant /\ \A f \in FXFiles : Built(f)
           Complete == \A f \in FXFiles : pass.at = f /\ pass'.at # f => Follows(f)'
<1>1. Init => AllBuilt
  BY InitInvariant DEF Init, Built
<1>2. ASSUME AllBuilt, [Next]_vars PROVE AllBuilt' /\ [Complete]_vars
  <2>1. Invariant'
    BY <1>2, StepKeepsInvariant
  <2>2. ASSUME NEW f \in FXFiles, CheckFX(f) PROVE AllBuilt' /\ Complete
    <3>1. /\ \A g \in FXFiles : Built(g)'
          /\ fx'[f].text # NoText /\ fx'[f].whole => ~DependencyChanged(f)'
      BY <1>2, <2>2, CheckKeepsBuilt
    <3>2. Follows(f)'
      BY <2>1, <3>1, BuiltFollows
    <3> QED BY <2>1, <2>2, <3>1, <3>2 DEF CheckFX
  <2>3. ASSUME NEW h \in Headers, LoadHeader(h) PROVE AllBuilt' /\ Complete
    BY <1>2, <2>1, <2>3, LoadKeepsBuilt, ReloadAssumption DEF LoadHeader
  <2>4. ASSUME UNCHANGED <<heads, fx, techs>>,
               UNCHANGED pass \/ pass.at \in {"idle", "headers", "effects"}
        PROVE  AllBuilt' /\ [Complete]_vars
    <3>1. \A f \in FXFiles : Built(f)'
      <4> SUFFICES ASSUME NEW f \in FXFiles, Built(f) PROVE Built(f)'
        BY <1>2
      <4> QED BY <2>4 DEF Built, DependsOnAll, BuiltFrom
    <3>2. Complete \/ UNCHANGED pass
      BY <2>4, ReloadAssumption
    <3>3. UNCHANGED pass => Complete
      OBVIOUS
    <3> QED BY <2>1, <3>1, <3>2, <3>3
  <2> HIDE DEF AllBuilt, Complete
  <2>5. \/ (\E f \in FXFiles : CheckFX(f)) \/ (\E h \in Headers : LoadHeader(h))
        \/ /\ UNCHANGED <<heads, fx, techs>>
           /\ UNCHANGED pass \/ pass.at \in {"idle", "headers", "effects"}
    BY <1>2 DEF Next, Update, vars, ListFiles, StartEffects, EndPass,
        StatFX, Cleanup, BuildPipeline, Edit
  <2> QED BY <2>2, <2>3, <2>4, <2>5
<1> QED BY <1>1, <1>2, PTL DEF Spec, ChecksAreComplete
=============================================================================
