----------------------------- MODULE UefiScreen -----------------------------
(***************************************************************************)
(* The output half of the UEFI console (kernel/uefi_console.c): a parser   *)
(* fed one byte at a time, whatever writes the bytes come in, that turns a *)
(* small part of the ANSI sequences into calls of the firmware's text      *)
(* output protocol and drops the rest.  Bytes are their ASCII codes.       *)
(***************************************************************************)
EXTENDS Integers, Sequences, SequencesExt

CONSTANTS MAX_PARAMS,  \* 8: the length of csi_params
          Stray,       \* values a read past the end of csi_params may yield
          Token,       \* what the program prints: characters and sequences
          MaxTokens    \* bound: how many of them

ESC == 27
LBRACKET == 91
SEMI == 59
CR == 13
LF == 10
Digit == 48 .. 57
PrivateByte == {63, 62, 61, 32}        \* '?', '>', '=', ' '
FinalByte == 64 .. 126
H == 72
f == 102
J == 74
m == 109

\* What ends a sequence: its final byte or, ESC among them, any that has no
\* place in one.
EndByte == (0 .. 255) \ (Digit \cup {SEMI} \cup PrivateByte)

\* A token is a record: a character [char |-> c]; [esc |-> c], ESC and a byte
\* that begins no sequence, a second ESC among them; or a sequence with its
\* private marks, its parameters (-1: left out) and the byte that ends it.
\* Bounds: parameters of three digits at most, and no marks behind a digit.
IsToken(t) ==
  IF "char" \in DOMAIN t THEN t.char \in (0 .. 255) \ {ESC}
  ELSE IF "esc" \in DOMAIN t THEN t.esc \in (0 .. 255) \ {LBRACKET}
  ELSE /\ t.marks \in Seq(PrivateByte)
       /\ t.params \in Seq(-1 .. 999) /\ t.params # <<>>
       /\ t.end \in EndByte

\* The cursor's sequences have two parameters.
ScreenAssumption ==
  /\ MAX_PARAMS \in Nat /\ MAX_PARAMS >= 2
  /\ Stray \subseteq Int /\ MaxTokens \in Nat
  /\ \A t \in Token : IsToken(t)

VARIABLES printed,     \* the tokens the program has printed
          unsent,      \* the bytes of the last one not yet written
          ansi_state,  \* "ST_NORMAL", "ST_ESC", "ST_CSI"
          csi_params, csi_n, csi_cur, csi_seen_digit,
          attr,        \* Mode->Attribute: the last attribute set
          calls        \* the calls made of the firmware, oldest first

parser == <<ansi_state, csi_params, csi_n, csi_cur, csi_seen_digit>>
vars == <<printed, unsent, ansi_state, csi_params, csi_n, csi_cur,
          csi_seen_digit, attr, calls>>

-----------------------------------------------------------------------------
(* Calls of the firmware. *)

OutputString(chars) == [call |-> "OutputString", chars |-> chars]
SetCursorPosition(col, row) == [call |-> "SetCursorPosition", col |-> col, row |-> row]
ClearScreen == [call |-> "ClearScreen"]
SetAttribute(a) == [call |-> "SetAttribute", attr |-> a]

\* raw_putc.
Character(c) == OutputString(IF c = LF THEN <<CR, LF>> ELSE <<c>>)

Foreground(a, n) == (a - (a % 16)) + n     \* (attr & 0xF0) | n
Background(a, n) == (a % 16) + 16 * n     \* (attr & 0x0F) | (n << 4)

\* One parameter of an SGR sequence.
Sgr(a, param) ==
  LET p == IF param < 0 THEN 0 ELSE param
  IN  CASE p = 0 -> 7
        [] p \in 30 .. 37 -> Foreground(a, p - 30)
        [] p \in 90 .. 97 -> Foreground(a, p - 90 + 8)
        [] p \in 40 .. 47 -> Background(a, p - 40)
        [] p \in 100 .. 107 -> Background(a, p - 100 + 8)
        [] OTHER -> a

\* The parameters of an SGR sequence, one after the other.
SgrAll(a, params) ==
  LET after[i \in 0 .. Len(params)] ==
        IF i = 0 THEN a ELSE Sgr(after[i - 1], params[i])
  IN  after[Len(params)]

\* What a final byte does, given the parameters: the call it makes, if any.
Positive(params, i) ==
  IF i <= Len(params) /\ params[i] > 0 THEN params[i] ELSE 1
Erases(params) == IF params[1] >= 0 THEN params[1] ELSE 0
Calls(final, params, a) ==
  CASE final \in {H, f} ->
         <<SetCursorPosition(Positive(params, 2) - 1, Positive(params, 1) - 1)>>
    [] final = J /\ Erases(params) = 2 -> <<ClearScreen>>
    [] final = m -> <<SetAttribute(SgrAll(a, params))>>
    [] OTHER -> <<>>

-----------------------------------------------------------------------------
(* The program's output. *)

Digits(n) ==
  IF n < 0 THEN <<>>
  ELSE IF n < 10 THEN <<48 + n>>
  ELSE IF n < 100 THEN <<48 + (n \div 10), 48 + (n % 10)>>
  ELSE <<48 + (n \div 100), 48 + ((n \div 10) % 10), 48 + (n % 10)>>

\* The bytes of a sequence from the end of its last parameter but k.
Rest(t) ==
  LET rest[k \in 0 .. Len(t.params) - 1] ==
        IF k = 0 THEN <<t.end>>
        ELSE <<SEMI>> \o Digits(t.params[Len(t.params) - k + 1]) \o rest[k - 1]
  IN  rest

BytesOf(t) ==
  IF "char" \in DOMAIN t THEN <<t.char>>
  ELSE IF "esc" \in DOMAIN t THEN <<ESC, t.esc>>
  ELSE <<ESC, LBRACKET>> \o t.marks \o Digits(t.params[1])
         \o Rest(t)[Len(t.params) - 1]

Init ==
  /\ printed = <<>> /\ unsent = <<>>
  /\ ansi_state = "ST_NORMAL"
  /\ csi_params = [i \in 1 .. MAX_PARAMS |-> 0]
  /\ csi_n = 0 /\ csi_cur = 0 /\ csi_seen_digit = 0
  /\ attr = 7
  /\ calls = <<ClearScreen>>           \* uefi_console_init

Write(t) ==
  /\ unsent = <<>> /\ Len(printed) < MaxTokens
  /\ printed' = Append(printed, t)
  /\ unsent' = BytesOf(t)
  /\ UNCHANGED <<ansi_state, csi_params, csi_n, csi_cur, csi_seen_digit,
                 attr, calls>>

-----------------------------------------------------------------------------
\* parse_byte of c, the next byte of a write.
Parse(state, c) ==
  /\ ansi_state = state
  /\ unsent # <<>> /\ c = Head(unsent)
  /\ unsent' = Tail(unsent)
  /\ UNCHANGED printed

Silent == UNCHANGED <<attr, calls>>
KeepParams == UNCHANGED <<csi_params, csi_n, csi_cur, csi_seen_digit>>

NormalByte(c) ==
  /\ Parse("ST_NORMAL", c)
  /\ IF c = ESC THEN ansi_state' = "ST_ESC" /\ UNCHANGED calls
     ELSE calls' = Append(calls, Character(c)) /\ UNCHANGED ansi_state
  /\ KeepParams /\ UNCHANGED attr

\* ansi_reset's parameters, and a defect: the number of an aborted sequence is
\* kept.
ResetKeepsNumber == csi_n' = 0 /\ UNCHANGED <<csi_cur, csi_seen_digit, csi_params>>
Reset ==
  /\ csi_n' = 0 /\ csi_cur' = 0 /\ csi_seen_digit' = 0
  /\ csi_params' = [i \in 1 .. MAX_PARAMS |-> 0]

EscByte(c) ==
  /\ Parse("ST_ESC", c)
  /\ IF c = LBRACKET THEN ansi_state' = "ST_CSI" /\ Reset
     ELSE ansi_state' = "ST_NORMAL" /\ KeepParams
  /\ Silent

\* ansi_push_param: csi_n counts on when the array is full.
Pushed == IF csi_seen_digit = 1 THEN csi_cur ELSE -1
Stored == IF csi_n < MAX_PARAMS THEN [csi_params EXCEPT ![csi_n + 1] = Pushed]
                                ELSE csi_params

PushParam ==
  /\ csi_params' = Stored
  /\ csi_n' = csi_n + 1
  /\ csi_cur' = 0 /\ csi_seen_digit' = 0

\* A digit, and a defect: every digit starts the number anew.
LastDigit(c) == c - 48
Shifted(c) == csi_cur * 10 + (c - 48)

DigitByte(c) ==
  /\ c \in Digit
  /\ csi_cur' = Shifted(c)
  /\ csi_seen_digit' = 1
  /\ UNCHANGED <<ansi_state, csi_params, csi_n>>
  /\ Silent

Separator(c) ==
  /\ c = SEMI
  /\ PushParam
  /\ UNCHANGED ansi_state
  /\ Silent

Private(c) ==
  /\ c \in PrivateByte
  /\ UNCHANGED ansi_state /\ KeepParams /\ Silent

\* ansi_exec.  The SGR loop runs to csi_n, the end of the array or not: beyond
\* it, any value may be read.
Exec(c) ==
  /\ c \in FinalByte
  /\ PushParam
  /\ ansi_state' = "ST_NORMAL"
  /\ \E stray \in Stray :
       LET params == [i \in 1 .. csi_n' |->
                        IF i <= MAX_PARAMS THEN csi_params'[i] ELSE stray]
       IN  /\ calls' = calls \o Calls(c, params, attr)
           /\ attr' = IF c = m THEN SgrAll(attr, params) ELSE attr

\* Any other byte ends the sequence and is dropped with it; an ESC, too, which
\* begins no sequence of its own.
Abort(c) ==
  /\ c \notin Digit \cup {SEMI} \cup PrivateByte \cup FinalByte
  /\ ansi_state' = "ST_NORMAL"
  /\ KeepParams /\ Silent

CsiByte(c) ==
  /\ Parse("ST_CSI", c)
  /\ DigitByte(c) \/ Separator(c) \/ Private(c) \/ Exec(c) \/ Abort(c)

Next ==
  \/ \E t \in Token : Write(t)
  \/ \E c \in Range(unsent) : NormalByte(c) \/ EscByte(c) \/ CsiByte(c)

Spec == Init /\ [][Next]_vars

-----------------------------------------------------------------------------
\* The attribute is a byte whatever a read past the array yields.
TypeOK ==
  /\ ansi_state \in {"ST_NORMAL", "ST_ESC", "ST_CSI"}
  /\ csi_params \in [1 .. MAX_PARAMS -> Nat \cup {-1}]
  /\ csi_n \in Nat /\ csi_cur \in Nat /\ csi_seen_digit \in {0, 1}
  /\ attr \in 0 .. 255

\* What a token does by itself, in a firmware whose attribute is a: nothing, if
\* it is a sequence that its end cuts short.
Meaning(t, a) ==
  IF "char" \in DOMAIN t THEN <<Character(t.char)>>
  ELSE IF "esc" \in DOMAIN t THEN <<>>
  ELSE Calls(t.end, t.params, a)
AttrAfter(t, a) ==
  LET made == Meaning(t, a)
  IN  IF made # <<>> /\ Last(made).call = "SetAttribute" THEN Last(made).attr
                                                         ELSE a
AfterToken(so_far, t) ==
  [calls |-> so_far.calls \o Meaning(t, so_far.attr),
   attr |-> AttrAfter(t, so_far.attr)]
Expected(tokens) ==
  LET after[i \in 0 .. Len(tokens)] ==
        IF i = 0 THEN [calls |-> <<ClearScreen>>, attr |-> 7]
        ELSE AfterToken(after[i - 1], tokens[i])
  IN  after[Len(tokens)]

Overflows(t) ==
  /\ "char" \notin DOMAIN t /\ "esc" \notin DOMAIN t
  /\ t.end = m /\ Len(t.params) > MAX_PARAMS

\* Whatever is printed, in whatever order, each token makes the calls it would
\* make alone: no digit, parameter or state of one sequence, complete, private
\* or cut short, shows in the next, and a cursor position keeps its first two
\* parameters however many follow.  A sequence is cut short by the first byte
\* that has no place in it and shows nothing.  That byte may be the ESC of the
\* next sequence, which then is none: parse_byte drops its ESC with the cut one,
\* as it drops an ESC after an ESC, and "[31m" is four characters on the screen.
\* Past an SGR sequence with more parameters than the array holds nothing is
\* promised of colours.
TokensInterpreted ==
  unsent = <<>> /\ (\A i \in DOMAIN printed : ~Overflows(printed[i]))
    => /\ ansi_state = "ST_NORMAL"
       /\ calls = Expected(printed).calls
       /\ attr = Expected(printed).attr

\* Nothing but colours is harmed by such a sequence: every other call is made,
\* in its place.
BothSetAttribute(a, b) == a.call = "SetAttribute" /\ b.call = "SetAttribute"
OverflowHarmsColoursOnly ==
  unsent = <<>> =>
    LET due == Expected(printed).calls
    IN  /\ Len(calls) = Len(due)
        /\ \A i \in 1 .. Len(due) :
             calls[i] = due[i] \/ BothSetAttribute(calls[i], due[i])
=============================================================================
