------------------------------- MODULE Runes -------------------------------
(***************************************************************************)
(* The two runes there are: Tighten and Ease (src/lib.rs).                 *)
(***************************************************************************)
ID0 == "tighten"
ID1 == "ease"
Rune == {ID0, ID1}
Other(r) == IF r = ID0 THEN ID1 ELSE ID0
=============================================================================
