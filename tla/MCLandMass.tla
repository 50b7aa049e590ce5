----------------------------- MODULE MCLandMass -----------------------------
EXTENDS LandMass

\* All the points of the cube that are texels.
Points == {CubePoint(Width, p) : p \in Texels}

\* The points on one side of a plane through the center of the planet.
Halves == {{u \in Points : a * u.x + b * u.y + c * u.z > 0} : a, b, c \in {-1, 0, 1}}

\* No land, up to two points of land anywhere, land everywhere but in one
\* point, land everywhere, and hemispheres.
MCLandForms ==
  {{}, Points} \cup Halves \cup {{u, v} : u, v \in Points} \cup {Points \ {u} : u \in Points}
=============================================================================
