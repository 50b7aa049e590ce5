SPECIFICATION Spec
CONSTANT Headers = {lib}
CONSTANT FXFiles = {"A.glfx", "B.glfx"}
CONSTANT Techniques = {"Planet", "Text2D"}
CONSTANT Stages = {"vertex", "geometry"}
CONSTANT HeaderTexts = {good1, good2, bad}
CONSTANT GoodHeaders = {good1, good2}
CONSTANT FXTexts <- MCFXTexts
CONSTANT MaxEdits = 2
CONSTANT MaxFailures = 1
CONSTANT lib = lib
CONSTANT good1 = good1
CONSTANT good2 = good2
CONSTANT bad = bad
CONSTANT NoText = NoText
CONSTANT Gone = Gone
INVARIANT TypeOK
PROPERTY AllOrNothing
PROPERTY ChecksAreComplete
PROPERTY Settles
PROPERTY CatchesUp
