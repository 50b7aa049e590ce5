SPECIFICATION Spec
CONSTANT main = main
CONSTANT other = other
CONSTANT Threads <- MCThreads
CONSTANT Main = main
CONSTANT Names <- MCNames
CONSTANT MaxDepth <- MCMaxDepth
CONSTANT LogDepth = 0
CONSTANT MaxTime = 2
INVARIANT TypeOK
INVARIANT ReportAddsUp
PROPERTY MessagesWhole
