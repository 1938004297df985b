------------------------------ MODULE FileTree ------------------------------
(***************************************************************************)
(* What the file system promises: a tree of files and directories in which *)
(* each operation takes effect at once or not at all, a stop in the middle *)
(* included.                                                               *)
(***************************************************************************)
EXTENDS Naturals, Sequences, Functions

CONSTANTS Path,  \* the paths there can be, sequences of names
          Size   \* the sizes a file can have

VARIABLE tree    \* from the paths that exist to what is there

Node == [dir : BOOLEAN, size : Size]

TreeInit == tree \in UNION {[P -> Node] : P \in SUBSET Path}

\* A path lies in the root, or in a directory that exists.
HasParent(p) == LET q == SubSeq(p, 1, Len(p) - 1) IN
  Len(p) > 1 => q \in DOMAIN tree /\ tree[q].dir

Childless(p) == \A q \in DOMAIN tree : Len(q) > Len(p) => SubSeq(q, 1, Len(p)) # p

Make(p, isDir) ==
  /\ p \notin DOMAIN tree
  /\ HasParent(p)
  /\ tree' = [q \in DOMAIN tree \cup {p} |->
                IF q = p THEN [dir |-> isDir, size |-> 0] ELSE tree[q]]

Remove(p) ==
  /\ p \in DOMAIN tree
  /\ Childless(p)
  /\ tree' = Restrict(tree, DOMAIN tree \ {p})

Resize(p, size) ==
  /\ p \in DOMAIN tree
  /\ ~tree[p].dir
  /\ tree' = [tree EXCEPT ![p].size = size]

Wipe == tree' = [q \in {} |-> [dir |-> FALSE, size |-> 0]]

TreeNext ==
  /\ tree' # tree
  /\ \/ \E p \in Path, isDir \in BOOLEAN : Make(p, isDir)
     \/ \E p \in Path : Remove(p)
     \/ \E p \in Path, size \in Size : Resize(p, size)
     \/ Wipe

TreeSpec == TreeInit /\ [][TreeNext]_tree

=============================================================================
