----------------------------- MODULE MCMessages -----------------------------
(* A small instance of Messages: the character 3 stands for a byte that is *)
(* not UTF-8, and the number 5 is beyond an int32 of three bits.           *)
EXTENDS Messages

MCStrings == {<<1>>, <<2, 1>>, <<3>>}
MCUtf8    == {0, 1, 2}
=============================================================================
