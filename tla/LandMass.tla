------------------------------ MODULE LandMass ------------------------------
(***************************************************************************)
(* The flood fill of WinMain that numbers the land masses of the planet:   *)
(* it scans all texels, and from every land texel without a number it      *)
(* spreads a new number to the land that can be reached from neighbor to   *)
(* neighbor, one generation (stack) after the other, collecting the texels *)
(* that have a neighbor in the sea as the coast of the land mass.          *)
(***************************************************************************)
EXTENDS TexelGrid, Sequences, FiniteSets

CONSTANT
  LandForms   \* bound: the sets of points of the cube that are tried as land

VARIABLES
  land,       \* the texels with a height above 0
  label,      \* pv->y: the land mass a texel belongs to, or 0
  coast,      \* land: for each land mass its coast, a sequence of texels
  stack,      \* the texels of this generation still to be visited
  next,       \* next_stack: those of the next generation
  current,    \* the texel being visited, or NoTexel
  dir,        \* i: which of its neighbors is looked at next
  locked,     \* land_locked: no sea seen among its neighbors so far
  visited     \* history: the texels whose visit has begun
vars == <<land, label, coast, stack, next, current, dir, locked, visited>>

NoTexel == [face |-> "none", x |-> 0, y |-> 0]

\* The height of a texel follows from its position on the planet, so the texels
\* that are one point of a shared edge are all land or all sea.
LandOf(form) == {p \in Texels : CubePoint(Width, p) \in form}

Init ==
  /\ \E form \in LandForms : land = LandOf(form)
  /\ label = [p \in Texels |-> 0]
  /\ coast = <<>>
  /\ stack = <<>> /\ next = <<>>
  /\ current = NoTexel /\ dir = 1 /\ locked = TRUE
  /\ visited = {}

---------------------------------------------------------------------------
\* The order in which the scan visits the faces, rows and columns.
FaceOrder == <<"right", "left", "top", "bottom", "front", "back">>
Rank(f) == CHOOSE k \in 1 .. 6 : FaceOrder[k] = f
Earlier(p, q) ==
  \/ Rank(p.face) < Rank(q.face)
  \/ p.face = q.face /\ p.y < q.y
  \/ p.face = q.face /\ p.y = q.y /\ p.x < q.x

Unlabelled == {p \in land : label[p] = 0}
Mass == Len(coast)

\* The scan finds land that has no number yet.  Labels are never taken back, so
\* the first such texel of all is the next one the scan comes to.
Seed ==
  /\ current = NoTexel /\ stack = <<>> /\ next = <<>>
  /\ \E p \in Unlabelled :
       /\ \A q \in Unlabelled \ {p} : Earlier(p, q)
       /\ label' = [label EXCEPT ![p] = Mass + 1]
       /\ stack' = <<p>>
  /\ coast' = Append(coast, <<>>)
  /\ UNCHANGED <<land, next, current, dir, locked, visited>>

\* Mutant: what the last visit saw of the sea is kept.
PopKeepsLocked ==
  /\ current = NoTexel /\ stack # <<>>
  /\ current' = stack[Len(stack)]
  /\ stack' = SubSeq(stack, 1, Len(stack) - 1)
  /\ dir' = 1
  /\ visited' = visited \cup {current'}
  /\ UNCHANGED <<land, label, coast, next, locked>>

Pop ==
  /\ current = NoTexel /\ stack # <<>>
  /\ current' = stack[Len(stack)]
  /\ stack' = SubSeq(stack, 1, Len(stack) - 1)
  /\ dir' = 1 /\ locked' = TRUE
  /\ visited' = visited \cup {current'}
  /\ UNCHANGED <<land, label, coast, next>>

\* Mutant: the test of the neighbor's number is missing.
ClaimAgain(q) ==
  IF q \in land THEN label' = [label EXCEPT ![q] = Mass] /\ next' = Append(next, q)
                ELSE UNCHANGED <<label, next>>

\* Mutant: the test of the neighbor's height is missing.
ClaimSea(q) ==
  IF label[q] = 0 THEN label' = [label EXCEPT ![q] = Mass] /\ next' = Append(next, q)
                  ELSE UNCHANGED <<label, next>>

\* A neighbor that is land joins the land mass, unless it has a number already.
Claim(q) ==
  IF q \in Unlabelled
  THEN label' = [label EXCEPT ![q] = Mass] /\ next' = Append(next, q)
  ELSE UNCHANGED <<label, next>>

\* One turn of the loop over the eight neighbors.
Look ==
  /\ current # NoTexel /\ dir <= 8
  /\ Claim(Neighbor(current, dir))
  /\ locked' = (locked /\ Neighbor(current, dir) \in land)
  /\ dir' = dir + 1
  /\ UNCHANGED <<land, coast, stack, current, visited>>

\* Mutant: the coast is extended after the visit is forgotten.
LeaveTooSoon ==
  /\ current # NoTexel /\ dir = 9
  /\ current' = NoTexel
  /\ coast' = IF locked THEN coast ELSE [coast EXCEPT ![Mass] = Append(@, current')]
  /\ UNCHANGED <<land, label, stack, next, dir, locked, visited>>

\* The end of a visit: the texel joins the coast unless it is land-locked.
Leave ==
  /\ current # NoTexel /\ dir = 9
  /\ coast' = IF locked THEN coast
              ELSE [coast EXCEPT ![Mass] = Append(@, current)]
  /\ current' = NoTexel
  /\ UNCHANGED <<land, label, stack, next, dir, locked, visited>>

\* Mutant: next_stack outlives the loop.
SwapKeepsNext ==
  /\ current = NoTexel /\ stack = <<>> /\ next # <<>>
  /\ stack' = next
  /\ UNCHANGED <<land, label, coast, current, next, dir, locked, visited>>

\* next_stack.swap(stack), and then a new next_stack.
Swap ==
  /\ current = NoTexel /\ stack = <<>> /\ next # <<>>
  /\ stack' = next
  /\ next' = <<>>
  /\ UNCHANGED <<land, label, coast, current, dir, locked, visited>>

Next == Seed \/ Pop \/ Look \/ Leave \/ Swap

\* The fill is a loop of one thread: it goes on while it can.
Spec == Init /\ [][Next]_vars /\ WF_vars(Next)

---------------------------------------------------------------------------
Elements(s) == {s[k] : k \in DOMAIN s}
Pending == Elements(stack) \cup Elements(next)
Open == Pending \cup ({current} \ {NoTexel})

TypeOK ==
  /\ land \subseteq Texels
  /\ label \in [Texels -> Nat]
  /\ coast \in Seq(Seq(Texels))
  /\ stack \in Seq(Texels) /\ next \in Seq(Texels)
  /\ current \in Texels \cup {NoTexel}
  /\ dir \in 1 .. 9 /\ locked \in BOOLEAN
  /\ visited \subseteq Texels

\* All texels that wait to be visited are land of the land mass being filled.
OpenIsMass == \A p \in Open : p \in land /\ label[p] = Mass /\ Mass # 0

\* Every texel is visited at most once in the whole fill, whichever neighbors,
\* generations and land masses lead to it: a visit only ever begins at a texel
\* that has not been visited (main.cpp 875-905).
VisitedOnce ==
  [][\A p \in Texels : current # p /\ current' = p => p \notin visited]_vars

\* The numbers are those of the land masses listed, and only land has one.
LabelsListed == \A p \in Texels : label[p] # 0 => p \in land /\ label[p] <= Mass

\* A texel that has a number keeps it.
LabelsKept == [][\A p \in Texels : label[p] # 0 => label'[p] = label[p]]_vars

\* Land that touches on one face is one land mass: of two touching texels of a
\* face, neither is left out once the other has been visited.
TouchingLand ==
  \A p \in land \ Open, q \in land :
    label[p] # 0 /\ Touch(p, q) => label[q] = label[p]

\* The neighbors already looked at have a number if they are land.
LookedAt ==
  current # NoTexel =>
    \A k \in 1 .. 8 : k < dir /\ Neighbor(current, k) \in land => label[Neighbor(current, k)] # 0

\* What the proof needs to know about every state for TouchingLand to survive
\* the next step.
IInv == TypeOK /\ OpenIsMass /\ LabelsListed /\ LookedAt /\ TouchingLand

\* The coast of a land mass lists, once each, its visited texels that have a
\* neighbor in the sea.
Ashore(p) == \E q \in Neighbors(p) : q \notin land
CoastExact ==
  \A m \in 1 .. Mass :
    /\ Elements(coast[m]) = {p \in land \ Open : label[p] = m /\ Ashore(p)}
    /\ Cardinality(Elements(coast[m])) = Len(coast[m])

\* The scan ends, with a number for all land.
Finishes == <>[](Unlabelled = {} /\ Open = {})

\* "The land mass index already assigned to this point" (main.cpp:865): two
\* texels that are the same point of a shared edge belong to one land mass.  The
\* code does not keep it: an island of one point on an edge gets two numbers.
PointHasOneLabel ==
  \A p, q \in land :
    CubePoint(Width, p) = CubePoint(Width, q) /\ Unlabelled = {} => label[p] = label[q]
=============================================================================
