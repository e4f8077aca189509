------------------------------ MODULE MCConsole ------------------------------
(***************************************************************************)
(* The consoles in one run, for console.h compiles one of them into a      *)
(* kernel: SerialConsole; or UefiKeys with a firmware queue shorter than   *)
(* what is pressed, among it Enter and a key without a character; or       *)
(* UefiScreen with room for two parameters.                                *)
(***************************************************************************)
EXTENDS MCSerialConsole

CONSTANTS
  QUEUE_SIZE, LastKey, KeysReadLen, MaxErrors,  \* of UefiKeys
  MAX_PARAMS, Token, Stray, MaxTokens           \* of UefiScreen
VARIABLES
  part, pressed, queue, pending_key, pending_key_valid, where, len, keysBuf,
  got, errors, ready, printed, unsent, ansi_state, csi_params, csi_n, csi_cur,
  csi_seen_digit, attr, calls

CR == 13
LF == 10
H == 72
f == 102
J == 74
m == 109
UnicodeChar ==
  [k \in 1 .. LastKey |-> IF k = 2 THEN CR ELSE IF k = 3 THEN 0 ELSE 96 + k]
Keys == INSTANCE UefiKeys WITH
  Last <- LastKey, ReadLen <- KeysReadLen,
  typed <- pressed, pc <- where, buf <- keysBuf, taken <- got
Screen == INSTANCE UefiScreen
keysVars ==
  <<pressed, queue, pending_key, pending_key_valid, where, len, keysBuf, got,
    errors, ready>>
screenVars ==
  <<printed, unsent, ansi_state, csi_params, csi_n, csi_cur, csi_seen_digit,
    attr, calls>>

ASSUME KeysAssumed == Keys!KeysAssumption
ASSUME ScreenAssumed == Screen!ScreenAssumption

-----------------------------------------------------------------------------
Seqn(marks, params, end) == [marks |-> marks, params |-> params, end |-> end]
Sgr1(p) == Seqn(<<>>, <<p>>, m)

\* Text, a new line, colours, a reset with no parameter, cursor positions with
\* none, two and three parameters, both erasures, a private mode, and ESC c; a
\* sequence cut short after a digit by a bell, and by the ESC of the next one,
\* and an ESC twice: the text that follows is a sequence the program meant.
Plain ==
  {[char |-> 91], [char |-> m], [char |-> LF],
   Sgr1(31), Sgr1(97), Sgr1(-1), Seqn(<<>>, <<1, 44>>, m),
   Seqn(<<>>, <<-1>>, H), Seqn(<<>>, <<12, 5>>, H),
   Seqn(<<>>, <<3, -1, 9>>, f), Seqn(<<>>, <<2>>, J),
   Seqn(<<>>, <<-1>>, J), Seqn(<<63>>, <<25>>, 108),
   Seqn(<<>>, <<4>>, 7), Seqn(<<>>, <<4>>, 27),
   [esc |-> 27], [esc |-> 99]}
Overflowing == {Seqn(<<>>, <<31, 44, 33>>, m)}
AllToken == Plain \cup Overflowing
MCStray == {-1, 0, 2, 35, 107}

-----------------------------------------------------------------------------
MCInit ==
  /\ part \in {"serial", "keys", "screen"}
  /\ Init /\ Keys!Init /\ Screen!Init
MCNext ==
  /\ UNCHANGED part
  /\ \/ part = "serial" /\ Next /\ UNCHANGED <<keysVars, screenVars>>
     \/ part = "keys" /\ Keys!Next /\ UNCHANGED <<vars, screenVars>>
     \/ part = "screen" /\ Screen!Next /\ UNCHANGED <<vars, keysVars>>
MCSpec ==
  /\ MCInit /\ [][MCNext]_<<part, vars, keysVars, screenVars>>
  /\ part = "serial" => Fairness
  /\ part = "keys" => Keys!Fairness

\* No read of either console writes past its caller's buffer, and the variables
\* keep their types.
ReadsFit == ReadFitsBuffer /\ TypeOK /\ Keys!TypeOK

\* Either console is a ByteStream: bytes or keys reach reads in order, each
\* once, lost only where the device has no room.
BothStreams == StreamSpec /\ Keys!StreamSpec

\* Every byte or key the device accepted is delivered.
BothDeliver ==
  /\ part = "serial" => AllDelivered
  /\ part = "keys" => Keys!AllDelivered

\* See UefiKeys and UefiScreen.
ReadyIsTrue == Keys!ReadyIsTrue
ErrorsOnlyRepeat == Keys!ErrorsOnlyRepeat
TokensInterpreted == Screen!TypeOK /\ Screen!TokensInterpreted
OverflowHarmsColoursOnly == Screen!OverflowHarmsColoursOnly
=============================================================================
