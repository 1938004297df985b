------------------------------ MODULE MCFat32 ------------------------------
(* Bounds for TLC: two paths stored under one name, another name, and a     *)
(* path through it; as many clusters as let a directory and a file grow and *)
(* the disk become full at each point.                                      *)
EXTENDS Fat32

MCUpper == [ch \in {"a", "A", "b", "d", "."} |->
              CASE ch = "a" -> "A" [] ch = "b" -> "B" [] ch = "d" -> "D" [] OTHER -> ch]
a == <<"a", ".", "b">>
aOther == <<"A", "b", ".", "b", "d">>
d == <<"d">>
MCPaths == {<<a>>, <<aOther>>, <<d>>, <<d, a>>}
MCLengths == {0, 3}
MCHostFiles == <<StringToFatName(a)>>
=============================================================================
