--------------------------- MODULE LandMassProofs ---------------------------
(***************************************************************************)
(* The flood fill is right for every width and every land: labels name     *)
(* land masses that exist, are never taken back, land that touches on a    *)
(* face is one land mass, no texel is visited twice and every coast is     *)
(* listed in full.                                                         *)
(***************************************************************************)
EXTENDS LandMass, TexelGridProofs, FiniteSetTheorems

---------------------------------------------------------------------------
(* Sequences as the sets of their elements. *)

LEMMA ElementsOfEmpty == Elements(<<>>) = {}
BY DEF Elements

LEMMA ElementsOfOne ==
  ASSUME NEW e
  PROVE  Elements(<<e>>) = {e}
BY DEF Elements

LEMMA ElementsOfAppend ==
  ASSUME NEW S, NEW s \in Seq(S), NEW e \in S
  PROVE  /\ Append(s, e) \in Seq(S)
         /\ Elements(Append(s, e)) = Elements(s) \cup {e}
<1>1. /\ Append(s, e) \in Seq(S)
      /\ Len(s) \in Nat
      /\ DOMAIN s = 1 .. Len(s)
      /\ DOMAIN Append(s, e) = 1 .. Len(s) + 1
      /\ Append(s, e)[Len(s) + 1] = e
      /\ \A k \in 1 .. Len(s) : Append(s, e)[k] = s[k]
  OBVIOUS
<1>2. \A k \in DOMAIN Append(s, e) : k \in DOMAIN s \/ k = Len(s) + 1
  BY <1>1
<1>3. \A k \in DOMAIN s : k \in DOMAIN Append(s, e)
  BY <1>1
<1>4. Len(s) + 1 \in DOMAIN Append(s, e)
  BY <1>1
<1>5. \A k \in DOMAIN s : Append(s, e)[k] = s[k]
  BY <1>1
<1>6. Elements(Append(s, e)) \subseteq Elements(s) \cup {e}
  BY <1>1, <1>2, <1>5 DEF Elements
<1>7. Elements(s) \cup {e} \subseteq Elements(Append(s, e))
  BY <1>1, <1>3, <1>4, <1>5 DEF Elements
<1> QED BY <1>1, <1>6, <1>7

LEMMA ElementsOfFront ==
  ASSUME NEW S, NEW s \in Seq(S), s # <<>>
  PROVE  /\ s[Len(s)] \in S
         /\ SubSeq(s, 1, Len(s) - 1) \in Seq(S)
         /\ Elements(s) = Elements(SubSeq(s, 1, Len(s) - 1)) \cup {s[Len(s)]}
<1> DEFINE f == SubSeq(s, 1, Len(s) - 1)
<1>1. Len(s) \in Nat /\ Len(s) > 0 /\ DOMAIN s = 1 .. Len(s)
  OBVIOUS
<1>2. f \in Seq(S) /\ Len(f) = Len(s) - 1 /\ DOMAIN f = 1 .. Len(s) - 1
  BY <1>1
<1>3. \A k \in 1 .. Len(s) - 1 : f[k] = s[k]
  BY <1>1
<1>4. s[Len(s)] \in S
  BY <1>1
<1> HIDE DEF f
<1>5. \A k \in DOMAIN s : k \in DOMAIN f \/ k = Len(s)
  BY <1>1, <1>2
<1>6. Len(s) \in DOMAIN s /\ \A k \in DOMAIN f : k \in DOMAIN s /\ f[k] = s[k]
  BY <1>1, <1>2, <1>3
<1>7. Elements(s) = Elements(f) \cup {s[Len(s)]}
  BY <1>5, <1>6 DEF Elements
<1> QED BY <1>2, <1>4, <1>7 DEF f

---------------------------------------------------------------------------
(* Neighbors. *)

LEMMA NoTexelIsNone == NoTexel \notin Texels
BY DEF NoTexel, Texels, Faces

---------------------------------------------------------------------------
(* The inductive invariant: one lemma for each action. *)

LEMMA InitIInv == Init => IInv
<1> SUFFICES ASSUME Init PROVE IInv
  OBVIOUS
<1>1. TypeOK
  BY DEF Init, TypeOK, LandOf
<1>2. Open = {}
  BY ElementsOfEmpty DEF Init, Open, Pending
<1>3. \A p \in Texels : label[p] = 0
  BY DEF Init
<1>4. current = NoTexel /\ land \subseteq Texels
  BY <1>1 DEF Init, TypeOK
<1> QED BY <1>1, <1>2, <1>3, <1>4
        DEF IInv, OpenIsMass, LabelsListed, LookedAt, TouchingLand

LEMMA SeedIInv == IInv /\ Seed => IInv'
<1> SUFFICES ASSUME IInv, Seed PROVE IInv'
  OBVIOUS
<1> USE DEF IInv
<1>1. PICK p \in Unlabelled : label' = [label EXCEPT ![p] = Mass + 1] /\ stack' = <<p>>
  BY DEF Seed
<1>2. /\ p \in land /\ p \in Texels /\ label[p] = 0
      /\ land' = land /\ next' = <<>> /\ current' = NoTexel /\ dir' = dir /\ locked' = locked
      /\ visited' = visited
      /\ coast' = Append(coast, <<>>)
      /\ current = NoTexel /\ stack = <<>> /\ next = <<>>
  BY DEF Seed, Unlabelled, TypeOK
<1>3. Open = {} /\ Open' = {p}
  BY <1>1, <1>2, ElementsOfEmpty, ElementsOfOne DEF Open, Pending
<1>4. Mass \in Nat /\ Mass' = Mass + 1
  BY <1>2 DEF TypeOK, Mass
<1>5. TypeOK'
  <2>1. coast' \in Seq(Seq(Texels)) /\ stack' \in Seq(Texels) /\ next' \in Seq(Texels)
    BY <1>1, <1>2 DEF TypeOK
  <2> QED BY <1>1, <1>2, <1>4, <2>1 DEF TypeOK
<1>6. \A q \in Texels : label'[q] = IF q = p THEN Mass + 1 ELSE label[q]
  BY <1>1, <1>2 DEF TypeOK
<1>7. OpenIsMass'
  BY <1>2, <1>3, <1>4, <1>6 DEF OpenIsMass
<1>8. LabelsListed'
  BY <1>2, <1>4, <1>6 DEF LabelsListed, TypeOK
<1>9. LookedAt'
  BY <1>2 DEF LookedAt
<1>10. TouchingLand'
  BY <1>2, <1>3, <1>6 DEF TouchingLand, TypeOK
<1> QED BY <1>5, <1>7, <1>8, <1>9, <1>10

\* Pop and Swap move the open texels about and change nothing else.
LEMMA MovedIInv ==
  ASSUME IInv, TypeOK', UNCHANGED <<land, label, coast>>, Open' = Open,
         current' # NoTexel => dir' = 1
  PROVE  IInv'
<1>1. Mass' = Mass
  BY DEF Mass
<1>2. OpenIsMass' /\ LabelsListed' /\ TouchingLand'
  BY <1>1 DEF IInv, OpenIsMass, LabelsListed, TouchingLand
<1>3. LookedAt'
  BY DEF LookedAt
<1> QED BY <1>2, <1>3 DEF IInv

LEMMA PopIInv == IInv /\ Pop => IInv'
<1> SUFFICES ASSUME IInv, Pop PROVE IInv'
  OBVIOUS
<1>1. stack \in Seq(Texels) /\ stack # <<>> /\ current = NoTexel
  BY DEF IInv, TypeOK, Pop
<1>2. current' \in Texels /\ stack' \in Seq(Texels) /\ Elements(stack) = Elements(stack') \cup {current'}
  BY <1>1, ElementsOfFront DEF Pop
<1>3. Open' = Open
  BY <1>1, <1>2, NoTexelIsNone DEF Open, Pending, Pop
<1>4. TypeOK'
  BY <1>2 DEF IInv, TypeOK, Pop
<1> QED BY <1>3, <1>4, MovedIInv DEF Pop

LEMMA SwapIInv == IInv /\ Swap => IInv'
<1> SUFFICES ASSUME IInv, Swap PROVE IInv'
  OBVIOUS
<1>1. Open' = Open
  BY DEF Open, Pending, Swap
<1>2. TypeOK'
  BY DEF IInv, TypeOK, Swap
<1> QED BY <1>1, <1>2, MovedIInv DEF Swap

LEMMA LookIInv == IInv /\ Look => IInv'
<1> SUFFICES ASSUME IInv, Look PROVE IInv'
  OBVIOUS
<1> USE DEF IInv
<1> DEFINE q == Neighbor(current, dir)
<1>1. /\ current \in Texels /\ dir \in 1 .. 8 /\ dir' = dir + 1
      /\ land' = land /\ coast' = coast /\ stack' = stack /\ current' = current
      /\ locked' \in BOOLEAN /\ visited' = visited
  BY DEF Look, TypeOK
<1>2. q \in Texels
  BY <1>1, NeighborIsTexel
<1>3. Claim(q) /\ Mass' = Mass /\ Mass \in Nat
  BY <1>1 DEF Look, Mass, TypeOK
<1>4. Mass # 0
  BY <1>1, NoTexelIsNone DEF OpenIsMass, Open
<1> HIDE DEF q
<1>5. CASE q \in Unlabelled
  <2>1. q \in land /\ label[q] = 0 /\ next' = Append(next, q)
        /\ \A p \in Texels : label'[p] = IF p = q THEN Mass ELSE label[p]
    BY <1>2, <1>3, <1>5 DEF Claim, Unlabelled, TypeOK
  <2>2. next' \in Seq(Texels) /\ Elements(next') = Elements(next) \cup {q}
    BY <1>2, <2>1, ElementsOfAppend DEF TypeOK
  <2>3. Open' = Open \cup {q}
    BY <1>1, <2>2 DEF Open, Pending
  <2>4. TypeOK'
    <3>1. label' \in [Texels -> Nat]
      BY <1>2, <1>3, <1>5 DEF Claim, TypeOK
    <3> QED BY <1>1, <2>2, <3>1 DEF TypeOK
  <2>5. OpenIsMass'
    BY <1>1, <1>3, <1>4, <2>1, <2>3 DEF OpenIsMass, TypeOK
  <2>6. LabelsListed'
    BY <1>1, <1>3, <2>1 DEF LabelsListed
  <2>7. LookedAt'
    <3>1. \A k \in 1 .. 8 : Neighbor(current, k) \in Texels
      BY <1>1, NeighborIsTexel
    <3>2. \A k \in 1 .. 8 : k < dir' => k < dir \/ k = dir
      BY <1>1
    <3> QED BY <1>1, <1>4, <2>1, <3>1, <3>2 DEF LookedAt, q
  <2>8. TouchingLand'
    BY <1>1, <1>4, <2>1, <2>3 DEF TouchingLand, TypeOK
  <2> QED BY <2>4, <2>5, <2>6, <2>7, <2>8
<1>6. CASE q \notin Unlabelled
  <2>1. label' = label /\ next' = next /\ (q \in land => label[q] # 0)
    BY <1>3, <1>6 DEF Claim, Unlabelled
  <2>2. Open' = Open
    BY <1>1, <2>1 DEF Open, Pending
  <2>3. TypeOK'
    BY <1>1, <2>1 DEF TypeOK
  <2>4. OpenIsMass' /\ LabelsListed' /\ TouchingLand'
    BY <1>1, <1>3, <2>1, <2>2 DEF OpenIsMass, LabelsListed, TouchingLand
  <2>5. LookedAt'
    <3>1. \A k \in 1 .. 8 : k < dir' => k < dir \/ k = dir
      BY <1>1
    <3> QED BY <1>1, <2>1, <3>1 DEF LookedAt, q
  <2> QED BY <2>3, <2>4, <2>5
<1> QED BY <1>5, <1>6

\* At the end of a visit all land that touches the texel has a number, and it
\* is the same number: another one would have come from a visit that had not
\* left this texel out.
LEMMA LeaveIInv == IInv /\ Leave => IInv'
<1> SUFFICES ASSUME IInv, Leave PROVE IInv'
  OBVIOUS
<1> USE DEF IInv
<1>1. /\ current \in Texels /\ dir = 9 /\ current' = NoTexel /\ current # NoTexel
      /\ land' = land /\ label' = label /\ stack' = stack /\ next' = next
      /\ dir' = dir /\ locked' = locked /\ visited' = visited
      /\ coast' = IF locked THEN coast ELSE [coast EXCEPT ![Mass] = Append(@, current)]
  BY DEF Leave, TypeOK
<1>2. current \in Open /\ current \in land /\ label[current] = Mass /\ Mass # 0
  BY <1>1 DEF OpenIsMass, Open
<1>3. coast' \in Seq(Seq(Texels)) /\ Len(coast') = Len(coast)
  <2>1. coast \in Seq(Seq(Texels)) /\ Mass \in DOMAIN coast
    BY <1>2 DEF TypeOK, Mass
  <2>2. Append(coast[Mass], current) \in Seq(Texels)
    BY <1>1, <2>1
  <2> DEFINE longer == Append(coast[Mass], current)
             c == [coast EXCEPT ![Mass] = longer]
  <2>3. c \in Seq(Seq(Texels)) /\ Len(c) = Len(coast)
    <3> HIDE DEF longer
    <3>1. Len(coast) \in Nat /\ DOMAIN coast = 1 .. Len(coast)
          /\ coast \in [1 .. Len(coast) -> Seq(Texels)]
      BY <2>1
    <3>2. longer \in Seq(Texels)
      BY <2>2 DEF longer
    <3>3. c \in [1 .. Len(coast) -> Seq(Texels)]
      BY <3>1, <3>2
    <3> HIDE DEF c
    <3> QED BY <3>1, <3>3
  <2> QED BY <1>1, <2>1, <2>3
<1>4. TypeOK' /\ Mass' = Mass
  BY <1>1, <1>3 DEF TypeOK, Mass
<1>5. Open \subseteq Open' \cup {current} /\ Open' \subseteq Open
  BY <1>1 DEF Open, Pending
<1>6. OpenIsMass' /\ LabelsListed' /\ LookedAt'
  BY <1>1, <1>4, <1>5 DEF OpenIsMass, LabelsListed, LookedAt
<1>7. \A q \in land : Touch(current, q) => label[q] = Mass
  <2> SUFFICES ASSUME NEW q \in land, Touch(current, q) PROVE label[q] = Mass
    OBVIOUS
  <2>1. q \in Texels
    BY DEF TypeOK
  <2>2. CASE q = current
    BY <1>2, <2>2
  <2>3. CASE q # current
    <3>1. PICK k \in 1 .. 8 : Neighbor(current, k) = q
      BY <1>1, <2>1, <2>3, TouchingIsNeighbor
    <3>2. label[q] # 0
      BY <1>1, <3>1 DEF LookedAt
    <3>3. CASE q \in Open
      BY <3>3 DEF OpenIsMass
    <3>4. CASE q \notin Open
      <4>1. Touch(q, current)
        BY <1>1, <2>1, TouchSymmetric
      <4> QED BY <1>2, <3>2, <3>4, <4>1 DEF TouchingLand
    <3> QED BY <3>3, <3>4
  <2> QED BY <2>2, <2>3
<1>8. TouchingLand'
  <2> SUFFICES ASSUME NEW p \in land \ Open', NEW q \in land, label[p] # 0, Touch(p, q)
               PROVE  label[q] = label[p]
    BY <1>1 DEF TouchingLand
  <2>1. CASE p = current
    BY <1>2, <1>7, <2>1
  <2>2. CASE p # current
    BY <1>5, <2>2 DEF TouchingLand
  <2> QED BY <2>1, <2>2
<1> QED BY <1>4, <1>6, <1>8

LEMMA NextIInv == IInv /\ [Next]_vars => IInv'
<1> SUFFICES ASSUME IInv, [Next]_vars PROVE IInv'
  OBVIOUS
<1>1. CASE Seed   BY <1>1, SeedIInv
<1>2. CASE Pop    BY <1>2, PopIInv
<1>3. CASE Look   BY <1>3, LookIInv
<1>4. CASE Leave  BY <1>4, LeaveIInv
<1>5. CASE Swap   BY <1>5, SwapIInv
<1>6. CASE UNCHANGED vars
  <2>1. Open' = Open /\ Mass' = Mass
    BY <1>6 DEF vars, Open, Pending, Mass
  <2> QED BY <1>6, <2>1
          DEF vars, IInv, TypeOK, OpenIsMass, LabelsListed, LookedAt, TouchingLand
<1> QED BY <1>1, <1>2, <1>3, <1>4, <1>5, <1>6 DEF Next

---------------------------------------------------------------------------
\* The inductive invariant holds in every state of the fill.
THEOREM FillInvariant == Spec => []IInv
<1> QED BY InitIInv, NextIInv, PTL DEF Spec

\* Every variable of the fill keeps its type: only texels are ever pushed, visited
\* or listed as coast.
THEOREM FillIsTyped == Spec => []TypeOK
<1>1. IInv => TypeOK
  BY DEF IInv
<1> QED BY <1>1, FillInvariant, PTL

\* On every planet, land that touches on a face gets one number, and numbers
\* are those of listed land masses.
THEOREM FillIsRight == Spec => [](TouchingLand /\ LabelsListed)
<1>1. IInv => TouchingLand /\ LabelsListed
  BY DEF IInv
<1> QED BY <1>1, FillInvariant, PTL

\* No step of the fill takes a number back or changes it.
THEOREM FillKeepsLabels == Spec => LabelsKept
<1>1. IInv /\ [Next]_vars => [\A p \in Texels : label[p] # 0 => label'[p] = label[p]]_vars
  <2> SUFFICES ASSUME IInv, Next, NEW p \in Texels, label[p] # 0
               PROVE  label'[p] = label[p]
    OBVIOUS
  <2>0. label \in [Texels -> Nat]
    BY DEF IInv, TypeOK
  <2>1. CASE Seed
    BY <2>0, <2>1 DEF Seed, Unlabelled
  <2>2. CASE Look
    BY <2>0, <2>2 DEF Look, Claim, Unlabelled
  <2>3. CASE Pop \/ Leave \/ Swap
    BY <2>3 DEF Pop, Leave, Swap
  <2> QED BY <2>1, <2>2, <2>3 DEF Next
<1> QED BY <1>1, FillInvariant, PTL DEF Spec, LabelsKept

---------------------------------------------------------------------------
(* Sequences without repetitions. *)

Distinct(s) == \A i, j \in DOMAIN s : s[i] = s[j] => i = j

LEMMA DistinctCounts ==
  ASSUME NEW S, NEW s \in Seq(S), Distinct(s)
  PROVE  IsFiniteSet(Elements(s)) /\ Cardinality(Elements(s)) = Len(s)
<1>1. Len(s) \in Nat /\ DOMAIN s = 1 .. Len(s) /\ s \in [1 .. Len(s) -> S]
  OBVIOUS
<1>2. s \in [1 .. Len(s) -> Elements(s)]
  BY <1>1 DEF Elements
<1>3. s \in Bijection(1 .. Len(s), Elements(s))
  BY <1>1, <1>2 DEF Bijection, Injection, Surjection, IsInjective, Distinct, Elements
<1>4. ExistsBijection(1 .. Len(s), Elements(s))
  BY <1>3 DEF ExistsBijection
<1> QED BY <1>1, <1>4, FS_CountingElements, FS_NatBijection

LEMMA DistinctSmall ==
  ASSUME NEW e
  PROVE  Distinct(<<>>) /\ Distinct(<<e>>)
BY DEF Distinct

LEMMA DistinctAppend ==
  ASSUME NEW S, NEW s \in Seq(S), NEW e \in S, Distinct(s), e \notin Elements(s)
  PROVE  Distinct(Append(s, e))
<1>1. /\ Len(s) \in Nat
      /\ DOMAIN s = 1 .. Len(s)
      /\ DOMAIN Append(s, e) = 1 .. Len(s) + 1
      /\ Append(s, e)[Len(s) + 1] = e
      /\ \A k \in 1 .. Len(s) : Append(s, e)[k] = s[k]
  OBVIOUS
<1>2. \A k \in DOMAIN s : s[k] # e
  BY DEF Elements
<1> SUFFICES ASSUME NEW i \in DOMAIN Append(s, e), NEW j \in DOMAIN Append(s, e),
                    Append(s, e)[i] = Append(s, e)[j]
             PROVE  i = j
  BY DEF Distinct
<1>3. (i \in 1 .. Len(s) \/ i = Len(s) + 1) /\ (j \in 1 .. Len(s) \/ j = Len(s) + 1)
  BY <1>1
<1> QED BY <1>1, <1>2, <1>3 DEF Distinct

LEMMA DistinctFront ==
  ASSUME NEW S, NEW s \in Seq(S), s # <<>>, Distinct(s)
  PROVE  /\ Distinct(SubSeq(s, 1, Len(s) - 1))
         /\ s[Len(s)] \notin Elements(SubSeq(s, 1, Len(s) - 1))
<1> DEFINE f == SubSeq(s, 1, Len(s) - 1)
<1>1. Len(s) \in Nat /\ Len(s) > 0 /\ DOMAIN s = 1 .. Len(s)
  OBVIOUS
<1>2. DOMAIN f = 1 .. Len(s) - 1
  BY <1>1
<1>3. \A k \in 1 .. Len(s) - 1 : f[k] = s[k]
  BY <1>1
<1> HIDE DEF f
<1>4. \A k \in DOMAIN f : k \in DOMAIN s /\ k # Len(s) /\ f[k] = s[k]
  BY <1>1, <1>2, <1>3
<1>5. Len(s) \in DOMAIN s
  BY <1>1
<1>6. Distinct(f)
  BY <1>4 DEF Distinct
<1>7. s[Len(s)] \notin Elements(f)
  BY <1>4, <1>5 DEF Distinct, Elements
<1> QED BY <1>6, <1>7 DEF f

---------------------------------------------------------------------------
(* No texel is visited twice. *)

\* Nothing waits twice: neither within a generation, nor in both, nor while it
\* is being visited or after that.  What has been visited has a number, so it
\* is not claimed again.
NoneTwice ==
  /\ Distinct(stack) /\ Distinct(next)
  /\ Elements(stack) \cap Elements(next) = {}
  /\ current \notin Pending
  /\ \A p \in visited : p \notin Pending /\ label[p] # 0

LEMMA NoneTwiceStep == IInv /\ NoneTwice /\ [Next]_vars => NoneTwice'
<1> SUFFICES ASSUME IInv, NoneTwice, [Next]_vars PROVE NoneTwice'
  OBVIOUS
<1>0. TypeOK
  BY DEF IInv
<1>1. CASE Seed
  <2>1. PICK p \in Unlabelled : stack' = <<p>> /\ label' = [label EXCEPT ![p] = Mass + 1]
    BY <1>1 DEF Seed
  <2>2. p \in Texels /\ label[p] = 0 /\ next' = <<>> /\ current' = NoTexel /\ visited' = visited
    BY <1>0, <1>1 DEF Seed, Unlabelled, TypeOK
  <2>3. Mass + 1 # 0
    BY <1>0 DEF TypeOK, Mass
  <2>4. \A q \in visited' : q # p /\ label'[q] # 0
    BY <1>0, <2>1, <2>2, <2>3 DEF NoneTwice, TypeOK
  <2> QED BY <2>1, <2>2, <2>4, ElementsOfOne, ElementsOfEmpty, DistinctSmall, NoTexelIsNone
          DEF NoneTwice, Pending
<1>2. CASE Pop
  <2>1. stack \in Seq(Texels) /\ stack # <<>> /\ next' = next /\ Distinct(stack)
    BY <1>0, <1>2 DEF TypeOK, Pop, NoneTwice
  <2>2. /\ current' = stack[Len(stack)]
        /\ stack' = SubSeq(stack, 1, Len(stack) - 1)
    BY <1>2 DEF Pop
  <2>3. Elements(stack) = Elements(stack') \cup {current'}
    BY <2>1, <2>2, ElementsOfFront
  <2>4. Distinct(stack') /\ current' \notin Elements(stack')
    BY <2>1, <2>2, DistinctFront
  <2>5. label' = label /\ visited' = visited \cup {current'} /\ label[current'] # 0
    BY <1>2, <2>3 DEF Pop, IInv, OpenIsMass, Open, Pending
  <2>6. current' \notin Pending' /\ Pending' \subseteq Pending
    BY <2>1, <2>3, <2>4 DEF NoneTwice, Pending
  <2>7. \A p \in visited' : p \notin Pending' /\ label'[p] # 0
    BY <2>5, <2>6 DEF NoneTwice
  <2> QED BY <2>1, <2>3, <2>4, <2>7 DEF NoneTwice, Pending
<1>3. CASE Look
  <2> DEFINE q == Neighbor(current, dir)
  <2>1. current \in Texels /\ dir \in 1 .. 8 /\ stack' = stack /\ current' = current /\ Claim(q)
        /\ visited' = visited
    BY <1>0, <1>3 DEF Look, TypeOK
  <2>2. q \in Texels
    BY <2>1, NeighborIsTexel
  <2> HIDE DEF q
  <2>3. CASE q \in Unlabelled
    <3>1. next' = Append(next, q) /\ next \in Seq(Texels) /\ Distinct(next)
      BY <1>0, <2>1, <2>3 DEF Claim, TypeOK, NoneTwice
    <3>2. q \notin Open /\ current \in Open
      BY <2>1, <2>3, NoTexelIsNone DEF Unlabelled, IInv, OpenIsMass, Open
    <3>3. q \notin Elements(stack) /\ q \notin Elements(next) /\ q # current
      BY <3>2 DEF Open, Pending
    <3>4. Distinct(next') /\ Elements(next') = Elements(next) \cup {q}
      BY <2>2, <3>1, <3>3, DistinctAppend, ElementsOfAppend
    <3>5. Mass # 0
      BY <3>2 DEF IInv, OpenIsMass
    <3>6. label[q] = 0 /\ label' = [label EXCEPT ![q] = Mass]
      BY <2>1, <2>3 DEF Claim, Unlabelled
    <3>7. \A p \in visited : p # q /\ label'[p] # 0
      BY <1>0, <3>5, <3>6 DEF NoneTwice, TypeOK
    <3> QED BY <2>1, <3>3, <3>4, <3>7 DEF NoneTwice, Pending
  <2>4. CASE q \notin Unlabelled
    BY <2>1, <2>4 DEF Claim, NoneTwice, Pending
  <2> QED BY <2>3, <2>4
<1>4. CASE Leave
  <2>1. /\ stack' = stack /\ next' = next /\ current' = NoTexel
        /\ visited' = visited /\ label' = label
    BY <1>4 DEF Leave
  <2>2. NoTexel \notin Pending
    BY <1>0, NoTexelIsNone DEF TypeOK, Pending, Elements
  <2> QED BY <2>1, <2>2 DEF NoneTwice, Pending
<1>5. CASE Swap
  <2>1. stack' = next /\ next' = <<>> /\ current' = current /\ visited' = visited /\ label' = label
    BY <1>5 DEF Swap
  <2> QED BY <2>1, ElementsOfEmpty, DistinctSmall DEF NoneTwice, Pending
<1>6. CASE UNCHANGED vars
  BY <1>6 DEF vars, NoneTwice, Pending
<1> QED BY <1>1, <1>2, <1>3, <1>4, <1>5, <1>6 DEF Next

\* On every planet a texel is visited at most once in the whole fill: no visit
\* ever begins at a texel that was visited before.
THEOREM FillVisitsOnce == Spec => VisitedOnce
<1>1. Init => NoneTwice
  BY ElementsOfEmpty, DistinctSmall DEF Init, NoneTwice, Pending
<1>2. IInv /\ NoneTwice /\ [Next]_vars =>
        [\A p \in Texels : current # p /\ current' = p => p \notin visited]_vars
  <2> SUFFICES ASSUME IInv, NoneTwice, Next, NEW p \in Texels, current # p, current' = p
               PROVE  p \notin visited
    OBVIOUS
  <2>1. p # NoTexel
    BY NoTexelIsNone
  <2>2. Pop
    BY <2>1 DEF Next, Seed, Look, Leave, Swap
  <2>3. p \in Elements(stack)
    BY <2>2, ElementsOfFront DEF Pop, IInv, TypeOK
  <2> QED BY <2>3 DEF NoneTwice, Pending
<1> QED BY <1>1, <1>2, NoneTwiceStep, FillInvariant, PTL DEF Spec, VisitedOnce

---------------------------------------------------------------------------
(* The coast. *)

\* While a texel is visited, land_locked tells whether all the neighbors looked
\* at so far are land.
LockedTells ==
  current # NoTexel =>
    (locked <=> \A k \in 1 .. 8 : k < dir => Neighbor(current, k) \in land)

Shore(m) == {p \in land \ Open : label[p] = m /\ Ashore(p)}

CoastLists(m) == Elements(coast[m]) = Shore(m) /\ Distinct(coast[m])

CoastInv == LockedTells /\ \A m \in 1 .. Mass : CoastLists(m)

LEMMA CoastInvCounts ==
  ASSUME TypeOK, CoastInv
  PROVE  CoastExact
<1> SUFFICES ASSUME NEW m \in 1 .. Mass
             PROVE  Elements(coast[m]) = Shore(m) /\ Cardinality(Elements(coast[m])) = Len(coast[m])
  BY DEF CoastExact, Shore
<1>1. coast[m] \in Seq(Texels)
  BY DEF TypeOK, Mass
<1> QED BY <1>1, DistinctCounts DEF CoastInv, CoastLists

\* A step that leaves the coasts alone and claims only texels that had no number.
LEMMA CoastSame ==
  ASSUME CoastInv, coast' = coast, land' = land, LockedTells',
         \A m \in 1 .. Mass : Shore(m)' = Shore(m)
  PROVE  CoastInv'
<1>1. Mass' = Mass
  BY DEF Mass
<1> QED BY <1>1 DEF CoastInv, CoastLists

LEMMA SeedCoast == IInv /\ CoastInv /\ Seed => CoastInv'
<1> SUFFICES ASSUME IInv, CoastInv, Seed PROVE CoastInv'
  OBVIOUS
<1>1. PICK p \in Unlabelled : label' = [label EXCEPT ![p] = Mass + 1] /\ stack' = <<p>>
  BY DEF Seed
<1>2. /\ p \in land /\ p \in Texels /\ label[p] = 0 /\ land \subseteq Texels
      /\ land' = land /\ next' = <<>> /\ current' = NoTexel
      /\ coast' = Append(coast, <<>>)
      /\ current = NoTexel /\ stack = <<>> /\ next = <<>>
      /\ coast \in Seq(Seq(Texels))
  BY DEF Seed, Unlabelled, IInv, TypeOK
<1> DEFINE n == Mass + 1
<1>3. Open = {} /\ Open' = {p}
  BY <1>1, <1>2, ElementsOfEmpty, ElementsOfOne DEF Open, Pending
<1>4. /\ Mass \in Nat /\ n \in Nat /\ Mass' = n /\ coast'[n] = <<>>
      /\ \A m \in 1 .. Mass : coast'[m] = coast[m] /\ m # n /\ m # 0
      /\ \A m \in 1 .. n : m \in 1 .. Mass \/ m = n
  BY <1>2 DEF Mass
<1>5. \A q \in Texels : label'[q] = IF q = p THEN n ELSE label[q]
  BY <1>1, <1>2 DEF IInv, TypeOK
<1>6. \A q \in land : label[q] # n
  <2>1. \A q \in land : label[q] \in Nat /\ (label[q] # 0 => label[q] <= Mass)
    BY <1>2 DEF IInv, LabelsListed, TypeOK
  <2> QED BY <1>4, <2>1
<1>7. PICK k : k = n
  OBVIOUS
<1> HIDE DEF n
<1>8. ASSUME NEW m \in 1 .. Mass PROVE CoastLists(m)'
  <2>1. m # 0 /\ m # n
    BY <1>4
  <2>2. Shore(m)' = Shore(m)
    BY <1>2, <1>3, <1>5, <2>1 DEF Shore, Ashore
  <2> QED BY <1>4, <2>2 DEF CoastLists, CoastInv
<1>9. CoastLists(k)'
  <2>1. Shore(k)' = {}
    BY <1>2, <1>3, <1>5, <1>6, <1>7 DEF Shore
  <2> QED BY <1>4, <1>7, <2>1, ElementsOfEmpty, DistinctSmall DEF CoastLists
<1> QED BY <1>2, <1>4, <1>7, <1>8, <1>9 DEF CoastInv, LockedTells

LEMMA PopCoast == IInv /\ CoastInv /\ Pop => CoastInv'
<1> SUFFICES ASSUME IInv, CoastInv, Pop PROVE CoastInv'
  OBVIOUS
<1>1. stack \in Seq(Texels) /\ stack # <<>> /\ current = NoTexel
  BY DEF IInv, TypeOK, Pop
<1>2. current' \in Texels /\ Elements(stack) = Elements(stack') \cup {current'}
  BY <1>1, ElementsOfFront DEF Pop
<1>3. Open' = Open
  BY <1>1, <1>2, NoTexelIsNone DEF Open, Pending, Pop
<1>4. LockedTells'
  BY DEF Pop, LockedTells
<1>5. \A m \in 1 .. Mass : Shore(m)' = Shore(m)
  BY <1>3 DEF Pop, Shore, Ashore
<1> QED BY <1>4, <1>5, CoastSame DEF Pop

LEMMA SwapCoast == IInv /\ CoastInv /\ Swap => CoastInv'
<1> SUFFICES ASSUME IInv, CoastInv, Swap PROVE CoastInv'
  OBVIOUS
<1>1. Open' = Open
  BY DEF Open, Pending, Swap
<1>2. LockedTells'
  BY DEF Swap, LockedTells
<1>3. \A m \in 1 .. Mass : Shore(m)' = Shore(m)
  BY <1>1 DEF Swap, Shore, Ashore
<1> QED BY <1>2, <1>3, CoastSame DEF Swap

LEMMA LookCoast == IInv /\ CoastInv /\ Look => CoastInv'
<1> SUFFICES ASSUME IInv, CoastInv, Look PROVE CoastInv'
  OBVIOUS
<1> DEFINE q == Neighbor(current, dir)
<1>1. /\ current \in Texels /\ dir \in 1 .. 8 /\ dir' = dir + 1
      /\ land' = land /\ coast' = coast /\ stack' = stack /\ current' = current
      /\ locked' = (locked /\ q \in land) /\ Claim(q) /\ land \subseteq Texels
  BY DEF Look, IInv, TypeOK
<1>2. LockedTells'
  <2>1. \A k \in 1 .. 8 : k < dir' <=> k < dir \/ k = dir
    BY <1>1
  <2>2. current # NoTexel
    BY <1>1, NoTexelIsNone
  <2> QED BY <1>1, <2>1, <2>2 DEF CoastInv, LockedTells
<1>3. q \in Texels
  BY <1>1, NeighborIsTexel
<1> HIDE DEF q
<1>4. ASSUME NEW m \in 1 .. Mass PROVE Shore(m)' = Shore(m)
  <2>1. CASE q \in Unlabelled
    <3>1. label[q] = 0 /\ m # 0
          /\ \A p \in Texels : label'[p] = IF p = q THEN Mass ELSE label[p]
      BY <1>1, <1>3, <2>1 DEF Claim, Unlabelled, IInv, TypeOK
    <3>2. Elements(next') = Elements(next) \cup {q}
      <4>1. next \in Seq(Texels) /\ next' = Append(next, q)
        BY <1>1, <2>1 DEF Claim, IInv, TypeOK
      <4> QED BY <1>3, <4>1, ElementsOfAppend
    <3>3. Open' = Open \cup {q}
      BY <1>1, <3>2 DEF Open, Pending
    <3> QED BY <1>1, <3>1, <3>3 DEF Shore, Ashore
  <2>2. CASE q \notin Unlabelled
    <3>1. label' = label /\ Open' = Open
      BY <1>1, <2>2 DEF Claim, Open, Pending
    <3> QED BY <1>1, <3>1 DEF Shore, Ashore
  <2> QED BY <2>1, <2>2
<1> QED BY <1>1, <1>2, <1>4, CoastSame

\* At the end of a visit the texel joins the coast of its land mass just when a
\* neighbor of it is sea.
LEMMA LeaveCoast == IInv /\ NoneTwice /\ CoastInv /\ Leave => CoastInv'
<1> SUFFICES ASSUME IInv, NoneTwice, CoastInv, Leave PROVE CoastInv'
  OBVIOUS
<1>1. /\ current \in Texels /\ dir = 9 /\ current' = NoTexel /\ current # NoTexel
      /\ land' = land /\ label' = label /\ stack' = stack /\ next' = next
      /\ coast' = IF locked THEN coast ELSE [coast EXCEPT ![Mass] = Append(@, current)]
      /\ coast \in Seq(Seq(Texels))
  BY DEF Leave, IInv, TypeOK
<1>2. current \in Open /\ current \in land /\ label[current] = Mass /\ Mass # 0
  BY <1>1 DEF IInv, OpenIsMass, Open
<1>3. Mass \in 1 .. Mass /\ DOMAIN coast = 1 .. Mass
  BY <1>1, <1>2 DEF Mass
<1>4. Open' = Open \ {current}
  BY <1>1 DEF Open, Pending, NoneTwice
<1>5. locked <=> ~Ashore(current)
  <2>1. \A k \in 1 .. 8 : k < dir
    BY <1>1
  <2> QED BY <1>1, <2>1 DEF CoastInv, LockedTells, Ashore, Neighbors
<1>6. LockedTells'
  BY <1>1 DEF LockedTells
<1>7. ASSUME NEW m \in 1 .. Mass
      PROVE  Shore(m)' = IF m = Mass /\ ~locked THEN Shore(m) \cup {current} ELSE Shore(m)
  <2>1. Shore(m)' = {p \in land \ (Open \ {current}) : label[p] = m /\ Ashore(p)}
    BY <1>1, <1>4 DEF Shore, Ashore
  <2> QED BY <1>2, <1>5, <2>1 DEF Shore
<1>8. CASE locked
  <2>1. \A m \in 1 .. Mass : Shore(m)' = Shore(m)
    BY <1>7, <1>8
  <2> QED BY <1>1, <1>6, <1>8, <2>1, CoastSame
<1>9. CASE ~locked
  <2> DEFINE longer == Append(coast[Mass], current)
  <2>1. /\ coast[Mass] \in Seq(Texels) /\ Distinct(coast[Mass])
        /\ Elements(coast[Mass]) = Shore(Mass)
    BY <1>1, <1>3 DEF CoastInv, CoastLists
  <2>2. current \notin Elements(coast[Mass])
    BY <1>2, <2>1 DEF Shore
  <2>3. Distinct(longer) /\ Elements(longer) = Shore(Mass) \cup {current}
    BY <1>1, <2>1, <2>2, DistinctAppend, ElementsOfAppend
  <2> HIDE DEF longer
  <2>4. coast' = [coast EXCEPT ![Mass] = longer]
    BY <1>1, <1>9 DEF longer
  <2>5. Mass' = Mass
    BY <1>1, <2>4 DEF Mass
  <2>6. \A m \in 1 .. Mass : coast'[m] = IF m = Mass THEN longer ELSE coast[m]
    BY <1>3, <2>4
  <2>7. ASSUME NEW m \in 1 .. Mass PROVE CoastLists(m)'
    BY <1>7, <1>9, <2>3, <2>6 DEF CoastInv, CoastLists
  <2> QED BY <1>6, <2>5, <2>7 DEF CoastInv
<1> QED BY <1>8, <1>9

\* The coast of every land mass is listed completely and without repetition, in
\* every state of the fill: no visit that saw the sea is lost, none is listed twice.
THEOREM FillListsCoast == Spec => []CoastExact
<1>1. Init => NoneTwice
  BY ElementsOfEmpty, DistinctSmall DEF Init, NoneTwice, Pending
<1>2. Init => CoastInv
  BY DEF Init, CoastInv, LockedTells, Mass
<1>3. IInv /\ NoneTwice /\ CoastInv /\ [Next]_vars => CoastInv'
  <2> SUFFICES ASSUME IInv, NoneTwice, CoastInv, [Next]_vars PROVE CoastInv'
    OBVIOUS
  <2>1. CASE UNCHANGED vars
    <3>1. Open' = Open /\ Mass' = Mass
      BY <2>1 DEF vars, Open, Pending, Mass
    <3>2. \A m \in 1 .. Mass : Shore(m)' = Shore(m)
      BY <2>1, <3>1 DEF vars, Shore, Ashore
    <3>3. LockedTells'
      BY <2>1 DEF vars, CoastInv, LockedTells
    <3> QED BY <2>1, <3>2, <3>3, CoastSame DEF vars
  <2> QED BY <2>1, SeedCoast, PopCoast, LookCoast, LeaveCoast, SwapCoast DEF Next
<1>4. IInv /\ CoastInv => CoastExact
  BY CoastInvCounts DEF IInv
<1> QED BY <1>1, <1>2, <1>3, <1>4, NoneTwiceStep, FillInvariant, PTL DEF Spec
=============================================================================
