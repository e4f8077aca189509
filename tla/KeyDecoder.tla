----------------------------- MODULE KeyDecoder -----------------------------
(***************************************************************************)
(* The editor's keyboard input                                             *)
(* (patches/mui_terminal_adapter_ruby_on_bare_metal.rb): getch reads bytes *)
(* one by one, each with a blocking sysread, and returns one key: a        *)
(* character, a control byte, or the curses code of an escape sequence.    *)
(***************************************************************************)
EXTENDS Integers, Sequences, SequencesExt, TLC

CONSTANTS Pressed,    \* the keys pressed, a subset of the domain of BytesOf
          MaxKeys     \* bound: how many of them

\* Bytes: characters stand for themselves, "semi" for a semicolon; "nil" is the
\* end of the input, "lead2", "lead3", "lead4" are the first bytes of UTF-8
\* characters of that length, "cont" is one that continues them and "high" one
\* that starts none.
ESC == "ESC"
Lead == [lead2 |-> 2, lead3 |-> 3, lead4 |-> 4]
Final == {"A", "B", "C", "D", "H", "F", "Z", "P", "[", "O", "x", "~"}  \* 0x40-0x7E

-----------------------------------------------------------------------------
(* What is returned for a sequence: the curses codes of its tables. *)

CsiLetter == [A |-> 259, B |-> 258, C |-> 261, D |-> 260,
              H |-> 262, F |-> 360, Z |-> 353]
CsiTilde == [b \in {"1", "2", "3", "4", "5", "6"} |->
  CASE b = "1" -> 262 [] b = "2" -> 331 [] b = "3" -> 330
    [] b = "4" -> 360 [] b = "5" -> 339 [] b = "6" -> 338]
CsiModified == [m \in {"2", "5"} \X {"C", "D"} |->
  CASE m = <<"5", "C">> -> 561 [] m = <<"5", "D">> -> 546
    [] m = <<"2", "C">> -> 402 [] m = <<"2", "D">> -> 393]
Ss3Letter == [A |-> 259, B |-> 258, C |-> 261, D |-> 260,
              H |-> 262, F |-> 360]

CsiCode(params) ==
  CASE Len(params) = 1 /\ params[1] \in DOMAIN CsiLetter -> CsiLetter[params[1]]
    [] /\ Len(params) = 2 /\ params[2] = "~"
       /\ params[1] \in DOMAIN CsiTilde -> CsiTilde[params[1]]
    [] /\ Len(params) = 4 /\ SubSeq(params, 1, 2) = <<"1", "semi">>
       /\ SubSeq(params, 3, 4) \in DOMAIN CsiModified ->
         CsiModified[SubSeq(params, 3, 4)]
    [] OTHER -> ESC

Ss3Code(b) == IF b \in DOMAIN Ss3Letter THEN Ss3Letter[b] ELSE ESC

-----------------------------------------------------------------------------
(* The keyboard: what a key sends and what getch should return for it. *)

BytesOf ==
  [x |-> <<"x">>, Ctrl |-> <<"^X">>, Escape |-> <<ESC>>,
   bracket |-> <<"[">>, bigO |-> <<"O">>, bigA |-> <<"A">>,
   six |-> <<"6">>, tilde |-> <<"~">>,
   Up |-> <<ESC, "[", "A">>, ShiftTab |-> <<ESC, "[", "Z">>,
   PageDown |-> <<ESC, "[", "6", "~">>, F5 |-> <<ESC, "[", "1", "5", "~">>,
   CtrlRight |-> <<ESC, "[", "1", "semi", "5", "C">>,
   AppHome |-> <<ESC, "O", "H">>, F1 |-> <<ESC, "O", "P">>,
   e_acute |-> <<"lead2", "cont">>, kanji |-> <<"lead3", "cont", "cont">>,
   emoji |-> <<"lead4", "cont", "cont", "cont">>, stray |-> <<"high">>,
   Hangup |-> <<"nil">>, EscHangup |-> <<ESC, "nil">>,
   CsiHangup |-> <<ESC, "[", "1", "nil">>, Ss3Hangup |-> <<ESC, "O", "nil">>,
   Utf8Hangup |-> <<"lead3", "cont", "nil">>]

CodeOf ==
  [x |-> "x", Ctrl |-> "^X", Escape |-> ESC,
   bracket |-> "[", bigO |-> "O", bigA |-> "A", six |-> "6", tilde |-> "~",
   Up |-> 259, ShiftTab |-> 353, PageDown |-> 338, F5 |-> ESC,
   CtrlRight |-> 561, AppHome |-> 262, F1 |-> ESC,
   e_acute |-> BytesOf.e_acute, kanji |-> BytesOf.kanji,
   emoji |-> BytesOf.emoji, stray |-> "high",
   Hangup |-> "nil", EscHangup |-> ESC, CsiHangup |-> ESC, Ss3Hangup |-> ESC,
   Utf8Hangup |-> <<"lead3", "cont">>]

SingleByte ==
  {"x", "Ctrl", "Escape", "stray", "bracket", "bigO", "bigA", "six", "tilde"}

PressedAssumption == Pressed \subseteq DOMAIN BytesOf /\ MaxKeys \in Nat

VARIABLES pressed,       \* the keys pressed
          unread,        \* the bytes of the last one not yet read
          pc,            \* where getch waits: "byte", "esc", "csi", "ss3", "utf8"
          seq,           \* params, or the bytes of a UTF-8 character
          pending_byte,  \* @pending_byte
          returned       \* what getch returned

vars == <<pressed, unread, pc, seq, pending_byte, returned>>

Init ==
  /\ pressed = <<>> /\ unread = <<>> /\ pc = "byte" /\ seq = <<>>
  /\ pending_byte = "nil" /\ returned = <<>>

Press(k) ==
  /\ unread = <<>> /\ Len(pressed) < MaxKeys
  /\ pressed' = Append(pressed, k)
  /\ unread' = BytesOf[k]
  /\ UNCHANGED <<pc, seq, pending_byte, returned>>

-----------------------------------------------------------------------------
\* read_byte returns b to the read at "where".
ReadByte(where, b) ==
  /\ pc = where
  /\ unread # <<>> /\ b = Head(unread)
  /\ unread' = Tail(unread)
  /\ UNCHANGED pressed

Wait(where, so_far) == pc' = where /\ seq' = so_far /\ UNCHANGED returned
ReturnKey(code) ==
  pc' = "byte" /\ seq' = <<>> /\ returned' = Append(returned, code)

\* An ordinary byte is its own key.  A defect: the byte kept by an ESC before
\* is returned in its place.
KeyPending(b) == IF pending_byte = "nil" THEN b ELSE pending_byte
Key(b) == b

\* handle_input_byte, and getch's return of nil without a byte: a byte kept by
\* an ESC before is forgotten at the next byte that is not ESC.
FirstByte(b) ==
  /\ ReadByte("byte", b)
  /\ CASE b = "nil" -> ReturnKey("nil") /\ UNCHANGED pending_byte
       [] b = ESC -> Wait("esc", <<>>) /\ UNCHANGED pending_byte
       [] OTHER ->
            /\ pending_byte' = "nil"
            /\ IF b \in DOMAIN Lead THEN Wait("utf8", <<b>>)
                                    ELSE ReturnKey(Key(b))

SecondByte(b) ==
  /\ ReadByte("esc", b)
  /\ CASE b = "[" -> Wait("csi", <<>>) /\ UNCHANGED pending_byte
       [] b = "O" -> Wait("ss3", <<>>) /\ UNCHANGED pending_byte
       [] b = "nil" -> ReturnKey(ESC) /\ UNCHANGED pending_byte
       [] OTHER -> ReturnKey(ESC) /\ pending_byte' = b

\* read_csi_sequence's loop ends at a byte in 0x40-0x7E.
EndsCsi(b) == b \in Final

CsiByte(b) ==
  /\ ReadByte("csi", b)
  /\ IF b = "nil" THEN ReturnKey(CsiCode(seq))
     ELSE IF EndsCsi(b) THEN ReturnKey(CsiCode(Append(seq, b)))
     ELSE Wait("csi", Append(seq, b))
  /\ UNCHANGED pending_byte

Ss3Byte(b) ==
  /\ ReadByte("ss3", b)
  /\ ReturnKey(Ss3Code(b))
  /\ UNCHANGED pending_byte

\* The bytes read_utf8_char still wants, and a defect: one too many.
\* A byte that does not continue the character ends it and is lost.
MissingOneMore(s) == Lead[Head(s)] + 1 - Len(s)
Missing(s) == Lead[Head(s)] - Len(s)

Utf8Byte(b) ==
  /\ ReadByte("utf8", b)
  /\ IF b # "cont" THEN ReturnKey(seq)
     ELSE IF Missing(Append(seq, b)) = 0 THEN ReturnKey(Append(seq, b))
     ELSE Wait("utf8", Append(seq, b))
  /\ UNCHANGED pending_byte

Getch ==
  \E b \in Range(unread) :
    FirstByte(b) \/ SecondByte(b) \/ CsiByte(b) \/ Ss3Byte(b) \/ Utf8Byte(b)

Next == Getch \/ \E k \in Pressed : Press(k)

Spec == Init /\ [][Next]_vars

-----------------------------------------------------------------------------
\* The bytes kept between two reads are those of a sequence still open.
TypeOK ==
  /\ pressed \in Seq(Pressed)
  /\ pc \in {"byte", "esc", "csi", "ss3", "utf8"}
  /\ pc \in {"byte", "esc", "ss3"} => seq = <<>>
  /\ pc = "csi" => \A i \in DOMAIN seq : seq[i] \notin Final
  /\ pc = "utf8" => Missing(seq) > 0

Codes(keys) == [i \in DOMAIN keys |-> CodeOf[keys[i]]]

\* One key pressed is one key returned, in order, as long as none is a bare
\* ESC: no byte of a sequence, known or not, whole or cut off, is taken for a
\* key of its own, and none belongs to the next key.
KeysInOrder ==
  "Escape" \notin Range(pressed) =>
    /\ IsPrefix(returned, Codes(pressed))
    /\ unread = <<>> => returned = Codes(pressed)

\* "If it's something else, return ESC then process that byte next" (line 139):
\* a letter typed after a bare ESC is returned after it.
LetterAfterEscape ==
  pressed = <<"Escape", "x">> /\ unread = <<>> => returned = <<ESC, "x">>

\* What a bare ESC costs: the one key after it; with O the key after that too;
\* with [ every key up to the first letter or other byte that ends a sequence.
\* `spelled` holds the bytes from the ESC on.
Whole(spelled) ==
  CASE spelled[2] = "O" -> Len(spelled) = 3
    [] spelled[2] = "[" -> Len(spelled) > 2 /\ Last(spelled) \in Final
    [] OTHER -> TRUE
\* What is returned in place of these keys: what they spell.
Meaning(spelled) ==
  CASE spelled[2] = "O" -> Ss3Code(spelled[3])
    [] spelled[2] = "[" -> CsiCode(SubSeq(spelled, 3, Len(spelled)))
    [] OTHER -> ESC

\* What should have been returned of keys of one byte: the codes, and the bytes
\* from a bare ESC on that are not yet answered.
AfterKey(heard, k) ==
  LET spelled == Append(heard.spelled, Head(BytesOf[k]))
  IN  CASE heard.spelled = <<>> /\ k # "Escape" ->
             [codes |-> Append(heard.codes, CodeOf[k]), spelled |-> <<>>]
        [] heard.spelled # <<>> /\ Whole(spelled) ->
             [codes |-> Append(heard.codes, Meaning(spelled)), spelled |-> <<>>]
        [] OTHER -> [codes |-> heard.codes, spelled |-> spelled]
Heard(keys) ==
  LET upto[i \in 0 .. Len(keys)] ==
        IF i = 0 THEN [codes |-> <<>>, spelled |-> <<>>]
        ELSE AfterKey(upto[i - 1], keys[i])
  IN  upto[Len(keys)]

\* Of keys of one byte, a bare ESC costs those keys it makes a sequence of and no
\* other, and these end at the first that can end one: then the decoder is in
\* step again, and a stale pending byte never shows up.
EscapeCostsItsSequence ==
  unread = <<>> /\ Range(pressed) \subseteq SingleByte =>
    LET heard == Heard(pressed)
    IN  returned = heard.codes /\ (pc = "byte" <=> heard.spelled = <<>>)
=============================================================================
