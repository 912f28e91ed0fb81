----------------------------- MODULE MCHashing ------------------------------
(* Small instances of Hashing for TLC. *)
EXTENDS Hashing

Bytes == {"x", "y"}
\* empty, shorter than a block, a block and a byte
Messages == {<<>>, <<"y">>, <<"y", "x", "y">>}
=============================================================================
