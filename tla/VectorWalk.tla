----------------------------- MODULE VectorWalk -----------------------------
(***************************************************************************)
(* A vector (the camera seen from the center of the planet) moving about,  *)
(* and the face coordinates found for it, which is how main.cpp decides    *)
(* every frame what part of the planet is in front.  The state is the      *)
(* vector and the kind of build, which selects the rounding of muldiv.     *)
(***************************************************************************)
EXTENDS CubeFace

CONSTANTS
  MaxCoord,   \* half the width of a face (1 << 24 in the code)
  Reach       \* bound: the largest component of a vector

ASSUME CoordAssumption == MaxCoord \in Nat \ {0} /\ MaxCoord % 2 = 0
ASSUME ReachAssumption == Reach \in Nat \ {0}

VARIABLES
  v,          \* the vector, as the integers to_i makes of it
  win64       \* whether this is a 64-bit build
camera == <<v, win64>>

Zero == [x |-> 0, y |-> 0, z |-> 0]
\* A vector of length 0 cannot be scaled to a direction: the code never asks.
Vectors == [x : -Reach .. Reach, y : -Reach .. Reach, z : -Reach .. Reach] \ {Zero}

\* The program begins in front of the planet.
CameraInit == v = [x |-> 0, y |-> 0, z |-> Reach] /\ win64 \in BOOLEAN
CameraMove ==
  /\ \E c \in {"x", "y", "z"}, d \in {-1, 1} : v' = [v EXCEPT ![c] = @ + d]
  /\ v' \in Vectors
  /\ UNCHANGED win64
CameraSpec == CameraInit /\ [][CameraMove]_camera

---------------------------------------------------------------------------
Found == GetFaceCoordinates(win64, MaxCoord, v)

\* The three routines that find a face agree on it, also for vectors through
\* an edge or a corner, where each has tests of its own; and the one told the
\* face finds the same coordinates as the one that chose it.
RoutinesAgree ==
  /\ GetFace(v) = Found.face
  /\ NearestCoordinates(win64, MaxCoord, Found.face, v) = Found

\* The coordinates found name a direction that differs from v by less than two
\* units of a face (the rounding of muldiv and of >> 1).
Longest == CHOOSE n \in {Abs(v.x), Abs(v.y), Abs(v.z)} :
             n >= Abs(v.x) /\ n >= Abs(v.y) /\ n >= Abs(v.z)
DirectionKept ==
  \A c \in {"x", "y", "z"} :
    Abs(CubePoint(MaxCoord, Found)[c] * Longest - v[c] * MaxCoord) < 2 * Longest

\* "If the vector is not in the specified face, the nearest coordinates are
\* returned" (CubeFace.h:92): no point of the face is nearer to the vector in
\* one component and at least as near in the others.  The code does not keep it
\* for a vector behind the face asked for, which is given a corner.
NothingNearer ==
  \A f \in Faces : LET p == CubePoint(MaxCoord, NearestCoordinates(win64, MaxCoord, f, v)) IN
    \A q \in [face : {f}, x : 0 .. MaxCoord, y : 0 .. MaxCoord] :
      LET u == CubePoint(MaxCoord, q) IN
      (\A c \in {"x", "y", "z"} : Abs(u[c] - v[c]) <= Abs(p[c] - v[c])) =>
      (\A c \in {"x", "y", "z"} : Abs(u[c] - v[c]) = Abs(p[c] - v[c]))
===========================================================================
