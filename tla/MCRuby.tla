-------------------------------- MODULE MCRuby --------------------------------
(***************************************************************************)
(* Two parts of the editor's way into the kernel in one run: VfsRequire,   *)
(* by which its files are found and evaluated, and KeyDecoder with every   *)
(* kind of key: one byte, sequences of both kinds that the tables know or  *)
(* not, characters of two to four bytes, and sequences cut off by the end  *)
(* of the input.                                                           *)
(***************************************************************************)
EXTENDS MCVfsRequire

CONSTANTS Pressed, MaxKeys
VARIABLES half, pressed, unread, pc, seq, pending_byte, returned
Keys == INSTANCE KeyDecoder
keysVars == <<pressed, unread, pc, seq, pending_byte, returned>>

ASSUME ProgramsAssumed == ProgramsAssumption
ASSUME KeysAssumed == Keys!PressedAssumption
AllKeys ==
  {"x", "Ctrl", "Escape", "bracket", "bigO", "bigA", "six", "tilde",
   "Up", "ShiftTab", "PageDown", "F5", "CtrlRight",
   "AppHome", "F1", "e_acute", "kanji", "emoji", "stray", "Hangup",
   "EscHangup", "CsiHangup", "Ss3Hangup", "Utf8Hangup"}
ASSUME AllKeysNamed == AllKeys = DOMAIN Keys!BytesOf

MCInit == half \in {"require", "keys"} /\ Init /\ Keys!Init
MCNext ==
  /\ UNCHANGED half
  /\ \/ half = "require" /\ Next /\ UNCHANGED keysVars
     \/ half = "keys" /\ Keys!Next /\ UNCHANGED vars
MCSpec == MCInit /\ [][MCNext]_<<half, vars, keysVars>>

\* Evaluations nest no deeper than there are files to mark, and the variables
\* keep their types.
NestingBounded == DepthBounded /\ TypeOK /\ Keys!TypeOK

\* See KeyDecoder.
KeysInOrder == Keys!KeysInOrder
EscapeCostsItsSequence == Keys!EscapeCostsItsSequence
=============================================================================
