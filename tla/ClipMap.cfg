CONSTANT MaxLevels = 4
CONSTANT NodeFourth = 2
CONSTANT MaxCoord = 64
CONSTANT Reach = 9
SPECIFICATION Spec
INVARIANT TypeOK
INVARIANT RoutinesAgree
INVARIANT DirectionKept
INVARIANT HolesFit
INVARIANT MeshSewn
INVARIANT SeamsMeet
