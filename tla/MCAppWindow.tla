---------------------------- MODULE MCAppWindow ----------------------------
EXTENDS AppWindow

DQ == INSTANCE DeviceQueues

\* Surfaces that need one image or two, can give more or not, in both modes.
MCSurfaces ==
  {[min |-> 1, max |-> 1, mailbox |-> FALSE], [min |-> 2, max |-> 2, mailbox |-> FALSE],
   [min |-> 2, max |-> 0, mailbox |-> TRUE]}
\* All devices with up to four queue families.
ASSUME MCQueuesWellChosen ==
  \A families \in DQ!BoundedSeq(DQ!Families, 4) : DQ!QueuesWellChosen(families)
=============================================================================
