---------------------------- MODULE MCKeyDecoder ----------------------------
(***************************************************************************)
(* KeyDecoder with every kind of key: one byte, sequences of both kinds    *)
(* that the tables know or not, characters of two to four bytes, and       *)
(* sequences cut off by the end of the input.                              *)
(***************************************************************************)
EXTENDS KeyDecoder

AllKeys == DOMAIN BytesOf
=============================================================================
