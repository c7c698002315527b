---------------------------- MODULE MCSqlStorage ----------------------------
(***************************************************************************)
(* Two tables, rows of two kinds, the keys 0, 1 and 2 as integers and as   *)
(* strings, and a string that is no integer.  Every text that reads as an  *)
(* integer here is the one that integer is written as.                     *)
(***************************************************************************)
EXTENDS SqlStorage

MCInts == 0..2
MCTexts == {"0", "1", "2", "a"}
MCFormat(n) == CASE n = 0 -> "0" [] n = 1 -> "1" [] OTHER -> "2"
MCParse(x) == CASE x = "0" -> 0 [] x = "1" -> 1 [] x = "2" -> 2 [] OTHER -> NotInt
=============================================================================
