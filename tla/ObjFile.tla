------------------------------ MODULE ObjFile ------------------------------
(***************************************************************************)
(* Renderer3D::LoadOBJ() of user_prog/Game3D/Renderer3D.cpp: a model is    *)
(* read twice, to count what it has and then to fill the arrays.  A line   *)
(* of the file is a vertex, a normal, or a face with the numbers of its    *)
(* corners' vertices and normals.  (Texture coordinates are read the same  *)
(* way as normals.)                                                        *)
(***************************************************************************)
EXTENDS Naturals, Sequences, FiniteSets

CONSTANT Models   \* the files: sequences of lines

VARIABLES
  model,
  counts,         \* of the first pass: vertices, normals and faces
  line,           \* the line that the second pass has come to
  vi, ni,         \* the next place in the array of vertices and of normals
  tris            \* mesh->tris: for each triangle its three corners

vars == <<model, counts, line, vi, ni, tris>>

NotCounted == [verts |-> 0, norms |-> 0, faces |-> 0]
Lines(kind) == {i \in DOMAIN model : model[i].kind = kind}

FirstPass ==
  /\ line = 0
  /\ counts' = [verts |-> Cardinality(Lines("v")), norms |-> Cardinality(Lines("vn")),
                faces |-> Cardinality(Lines("f"))]
  \* without vertices or faces there is no mesh
  /\ line' = IF Lines("v") = {} \/ Lines("f") = {} THEN Len(model) + 1 ELSE 1
  /\ UNCHANGED <<model, vi, ni, tris>>

CornerOfAll(c) ==
  <<IF c[1] \in 1..counts.verts THEN c[1] ELSE 0,
    IF counts.norms > 0 /\ c[2] \in 1..counts.norms THEN c[2] ELSE 0>>

\* A corner's vertex and normal, or none (0) when the file does not have it so far.
Corner(c) ==
  <<IF c[1] \in 1..(vi - 1) THEN c[1] ELSE 0,
    IF counts.norms > 0 /\ c[2] \in 1..(ni - 1) THEN c[2] ELSE 0>>

Triangle(c, i, j, k) == <<Corner(c[i]), Corner(c[j]), Corner(c[k])>>

\* Of a face the first four corners are read.
Face(c) ==
  tris' = tris \o (IF Len(c) >= 3 THEN <<Triangle(c, 1, 2, 3)>> ELSE <<>>)
               \o (IF Len(c) >= 4 THEN <<Triangle(c, 1, 3, 4)>> ELSE <<>>)

SecondPass ==
  /\ line \in DOMAIN model
  /\ LET l == model[line]
     IN  /\ vi' = IF l.kind = "v" THEN vi + 1 ELSE vi
         /\ ni' = IF l.kind = "vn" THEN ni + 1 ELSE ni
         /\ IF l.kind = "f" THEN Face(l.corners) ELSE UNCHANGED tris
  /\ line' = line + 1
  /\ UNCHANGED <<model, counts>>

Init ==
  /\ model \in Models
  /\ counts = NotCounted /\ line = 0 /\ vi = 1 /\ ni = 1 /\ tris = <<>>

Next == FirstPass \/ SecondPass

Spec == Init /\ [][Next]_vars

\* What the second pass writes fits what the first one counted, every triangle
\* refers to vertices and normals that are there, and a face gives the triangles of
\* its corners from the first one on (LoadOBJ: arrays of vertCount + 1, normCount + 1
\* and 2 * faceCount).
MeshRight ==
  line > 0 /\ (line \in DOMAIN model \/ tris # <<>>) =>
    /\ vi <= counts.verts + 1 /\ ni <= counts.norms + 1 /\ Len(tris) <= 2 * counts.faces
    /\ \A t \in DOMAIN tris : \A k \in 1..3 :
         tris[t][k][1] \in 0..(vi - 1) /\ tris[t][k][2] \in 0..(ni - 1)
    /\ Len(tris) = Cardinality({p \in {i \in Lines("f") : i < line} \X {3, 4} :
                                  Len(model[p[1]].corners) >= p[2]})
=============================================================================
