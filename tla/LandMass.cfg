CONSTANT Width = 2
CONSTANT LandForms <- MCLandForms
SPECIFICATION Spec
CHECK_DEADLOCK FALSE
INVARIANT TypeOK
INVARIANT TouchingLand
INVARIANT CoastExact
PROPERTY VisitedOnce
PROPERTY Finishes
