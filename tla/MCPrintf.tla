------------------------------ MODULE MCPrintf ------------------------------
(***************************************************************************)
(* Printf with ints of 7 bits and longs of 8: the edges of both, and what  *)
(* is cut off on the way from one to the other.                            *)
(***************************************************************************)
EXTENDS Printf

MCCharacters == {"%", "0", "3", "#", ".", "l", "d", "p", "s", "u", "x", "c", "t"}
MCLongs == {0, 9, 64, 127, 128, 255}
MCStrings == {<<>>, <<"a", "b", "c", "a">>}
=============================================================================
