----------------------------- MODULE TexelGrid -----------------------------
(***************************************************************************)
(* The texels of the planet's cube map as the flood fill of main.cpp sees  *)
(* them.  Each face has (Width + 1) x (Width + 1) texels; the outermost    *)
(* ones lie on the shared edges, so a point of an edge is a texel of two   *)
(* faces and a corner one of three.                                        *)
(***************************************************************************)
EXTENDS CubeFace

CONSTANT
  Width       \* TestWidth - 1

ASSUME WidthAssumption == Width \in Nat \ {0}

Texels == [face : Faces, x : 0 .. Width, y : 0 .. Width]

\* Mutant: the last line copied and not changed.
CompassTwice == << <<-1, 0>>, <<1, 0>>, <<0, -1>>, <<0, 1>>,
                   <<-1, -1>>, <<-1, 1>>, <<1, -1>>, <<1, -1>> >>

\* W, E, S, N, SW, NW, SE, NE.
Compass == << <<-1, 0>>, <<1, 0>>, <<0, -1>>, <<0, 1>>,
              <<-1, -1>>, <<-1, 1>>, <<1, -1>>, <<1, 1>> >>

\* The k-th neighbor of a texel, brought back into a face.
Neighbor(p, k) ==
  AdjustCoords(Width, [face |-> p.face, x |-> p.x + Compass[k][1], y |-> p.y + Compass[k][2]])
Neighbors(p) == {Neighbor(p, k) : k \in 1 .. 8}

\* Two texels of one face next to each other, or the same one.
Touch(p, q) == p.face = q.face /\ Abs(p.x - q.x) <= 1 /\ Abs(p.y - q.y) <= 1
============================================================================
