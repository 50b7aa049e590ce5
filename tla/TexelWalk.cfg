CONSTANT Width = 5
SPECIFICATION Spec
INVARIANT TypeOK
INVARIANT FacesFit
INVARIANT NeighborsMutual
PROPERTY StepsAreShort
