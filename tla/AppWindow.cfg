SPECIFICATION Spec
CONSTANT Sizes = {1, 2}
CONSTANT MaxBuilds = 4
CONSTANT Surfaces <- MCSurfaces
CONSTANT GUITechniques = {"GUIBox", "GUIButton"}
CONSTANT Capacity = 2
CONSTANT MaxCalls = 2
CHECK_DEADLOCK FALSE
INVARIANT TypeOK
INVARIANT FramesFit
INVARIANT ObjectsFit
INVARIANT LayoutsFollow
INVARIANT CloseReleases
INVARIANT AcquireReady
INVARIANT DrawsAreExact
PROPERTY FramesFlow
