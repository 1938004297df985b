------------------------------ MODULE MCDesktop ------------------------------
(* Two programs with windows and room for one tab, so that one program gets  *)
(* none; two games that can take the screen from each other.                 *)
EXTENDS Desktop

MCApps == {1, 2}
MCGames == {3, 4}
=============================================================================
