---------------------------- MODULE DeviceQueues ----------------------------
(***************************************************************************)
(* Which queue families Context::create asks the device for: one family    *)
(* that both draws and presents, if there is one, and otherwise the first  *)
(* of each.  The loop over the families is a fold; what it should find is  *)
(* QueuesWellChosen.                                                       *)
(***************************************************************************)
EXTENDS Naturals, SequencesExt

\* What vkGetPhysicalDeviceQueueFamilyProperties and
\* vkGetPhysicalDeviceSurfaceSupportKHR say of a family.
Families == [graphics : BOOLEAN, presents : BOOLEAN]

NoIndex == 0    \* UINT32_MAX; the first family is 1 here

\* One turn of the loop for family n.  `both' says that the loop was left.
Scan(families, c, n) ==
  LET f == families[n] IN
  IF c.both THEN c
  ELSE IF f.presents /\ f.graphics THEN [graphics |-> n, present |-> n, both |-> TRUE]
  ELSE IF f.presents /\ c.present = NoIndex THEN [c EXCEPT !.present = n]
  ELSE IF f.graphics /\ c.graphics = NoIndex THEN [c EXCEPT !.graphics = n]
  ELSE c

Chosen(families) ==
  FoldLeftDomain(LAMBDA c, n : Scan(families, c, n),
                 [graphics |-> NoIndex, present |-> NoIndex, both |-> FALSE], families)

\* The queues created with the device.
DeviceQueueFamilies(families) == {Chosen(families).graphics, Chosen(families).present}

First(S) == IF S = {} THEN NoIndex ELSE CHOOSE n \in S : \A m \in S : n <= m
That(families, Has(_)) == {n \in DOMAIN families : Has(families[n])}

\* A family that does both is never passed over, wherever the loop meets it, and
\* without one each kind of work gets the first family that does it.
QueuesWellChosen(families) ==
  LET both == That(families, LAMBDA f : f.graphics /\ f.presents)
      draws == That(families, LAMBDA f : f.graphics)
      presents == That(families, LAMBDA f : f.presents)
      c == Chosen(families)
  IN  IF both # {} THEN c.graphics = First(both) /\ c.present = First(both)
      ELSE c.graphics = First(draws) /\ c.present = First(presents)

\* VKContext.cpp:270: "Otherwise use the first present queue we find".  The family
\* whose queue vkQueuePresentKHR is given can present.  The code does not keep it:
\* it asks for that queue and presents with the one for graphics.
PresentsWithPresentQueue(families) ==
  LET c == Chosen(families) IN
  c.graphics # NoIndex /\ c.present # NoIndex => families[c.graphics].presents
=============================================================================
