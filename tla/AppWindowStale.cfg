SPECIFICATION Spec
CONSTANT Sizes = {1, 2}
CONSTANT MaxBuilds = 4
CONSTANT Surfaces <- MCSurfaces
CONSTANT GUITechniques = {"GUIBox"}
CONSTANT Capacity = 1
CONSTANT MaxCalls = 1
CHECK_DEADLOCK FALSE
PROPERTY ShowsAgain
