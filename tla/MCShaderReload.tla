--------------------------- MODULE MCShaderReload ---------------------------
(***************************************************************************)
(* Instance of ShaderReload: two effects that include the same header.     *)
(* Effect A is edited in every way that matters (good, with a stage less,  *)
(* with code that does not compile, with a malformed statement); effect B  *)
(* only has to notice the header.                                          *)
(***************************************************************************)
EXTENDS ShaderReload

CONSTANTS lib, good1, good2, bad

Block(name, parses, stages) == [name |-> name, parses |-> parses, stages |-> stages]
Effect(tech, block) == [uses |-> <<lib>>, blocks |-> [t \in {tech} |-> block]]

V(ok) == [s \in {"vertex"} |-> ok]
VG(v, g) == [s \in {"vertex", "geometry"} |-> IF s = "vertex" THEN v ELSE g]

MCFXTexts ==
  [f \in {"A.glfx", "B.glfx"} |->
    IF f = "A.glfx"
    THEN {Effect("Planet", Block("first", TRUE, VG(TRUE, TRUE))),
          Effect("Planet", Block("shorter", TRUE, V(TRUE))),
          Effect("Planet", Block("broken", TRUE, VG(TRUE, FALSE))),
          Effect("Planet", Block("malformed", FALSE, V(TRUE)))}
    ELSE {Effect("Text2D", Block("text", TRUE, V(TRUE)))}]

\* What ReloadChecksAreComplete supposes holds of these texts.
ASSUME TechniquesAreOwn == OwnTechniques
=============================================================================
