CONSTANT MaxLevels = 6
CONSTANT NodeFourth = 2
CONSTANT MaxCoord = 256
CONSTANT Reach = 4
SPECIFICATION Spec
INVARIANT PatchesDeclared
