------------------------------- MODULE MCShell -------------------------------
(***************************************************************************)
(* Shell with two letters and a one-character prompt.  One line enters the *)
(* write command, one leaves it, one ends the shell; the others are the    *)
(* expressions it evaluates.                                               *)
(***************************************************************************)
EXTENDS Shell

MCText == {"w", "."}
MCPrompt == <<">">>
MCWriteLine == <<"w">>
MCDotLine == <<".">>
MCExitLine == {<<".", ".">>}
=============================================================================
