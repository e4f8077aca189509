-------------------------------- MODULE Shell --------------------------------
(***************************************************************************)
(* The shell's line reader and the loops that call it                      *)
(* (ruby/scripts/init.rb): read_line takes one byte at a time from a       *)
(* terminal that sends a key as one byte or as an escape sequence, edits a *)
(* buffer, recalls the history, and keeps the terminal's row up to date.   *)
(***************************************************************************)
EXTENDS Integers, Sequences, SequencesExt

CONSTANTS Text,         \* the printable keys pressed
          OtherKey,     \* the further keys pressed, a subset of SpecialKey
          Prompt,       \* the shell's prompt, as it shows on the terminal
          WriteLine,    \* the line that runs the write command
          DotLine,      \* the line that ends it
          ExitLine,     \* the lines that end the shell
          MaxLine,      \* bound: text keys are pressed on shorter lines only
          MaxHistory,   \* bound: lines are entered while the history is shorter
          MaxStray      \* bound: Unknown keys are pressed when the line and
                        \* the history together are no longer

Arrow == [Up |-> "A", Down |-> "B", Right |-> "C", Left |-> "D"]
Control == {"LF", "DEL", "^C", "^D", "TAB"}
SpecialKey == DOMAIN Arrow \cup Control \cup {"Delete", "Home", "Escape", "F1"}
\* Keys whose bytes read_line does not know to be one key.
Unknown == {"Escape", "F1"}
Parameter == {".", "3"}                \* the bytes from 0x20 to 0x3F
Printable == Text \cup Parameter \cup {"[", "A", "B", "C", "D", "H", "O", "P", "~"}

ASSUME KeysAssumption ==
  /\ OtherKey \subseteq SpecialKey
  /\ Text \cap (SpecialKey \cup {"ESC", "none"}) = {}
ASSUME LinesAssumption ==
  /\ {WriteLine, DotLine} \cup ExitLine \subseteq Seq(Text)
  /\ WriteLine \notin ExitLine /\ <<>> \notin ExitLine \cup {WriteLine}
  /\ Prompt \in Seq(Range(Prompt))
  /\ MaxLine \in Nat /\ MaxHistory \in Nat /\ MaxStray \in Nat

VARIABLES key, sending, synced,   \* a key pressed, its bytes not yet read, and
                                  \* whether it found pc = "char"
          pc,        \* the sysread that read_line waits in
          buf, cursor, saved_input, history_index,   \* read_line's locals
          history,   \* $history
          mode,      \* the caller: "shell", "write"; "halted" after the loop
          screen     \* the terminal's current row and cursor column

vars == <<key, sending, synced, pc, buf, cursor, saved_input, history_index,
          history, mode, screen>>

-----------------------------------------------------------------------------
(* The terminal. *)

BytesOf(k) ==
  CASE k \in DOMAIN Arrow -> <<"ESC", "[", Arrow[k]>>
    [] k = "Delete" -> <<"ESC", "[", "3", "~">>
    [] k = "Home" -> <<"ESC", "[", "H">>
    [] k = "F1" -> <<"ESC", "O", "P">>
    [] k = "Escape" -> <<"ESC">>
    [] OTHER -> <<k>>

NewRow == [row |-> <<>>, col |-> 0]
Typed(s, text) ==
  [row |-> SubSeq(s.row, 1, s.col) \o text
             \o SubSeq(s.row, s.col + Len(text) + 1, Len(s.row)),
   col |-> s.col + Len(text)]
CarriageReturn(s) == [s EXCEPT !.col = 0]
EraseToEnd(s) == [s EXCEPT !.row = SubSeq(@, 1, s.col)]
\* CSI n D and CSI C.  A count of 0 counts as 1.
Back(s, n) ==
  [s EXCEPT !.col = LET step == IF n = 0 THEN 1 ELSE n
                    IN  IF step > @ THEN 0 ELSE @ - step]
Forward(s) == [s EXCEPT !.col = @ + 1]

-----------------------------------------------------------------------------
PromptOf(m) == IF m = "shell" THEN Prompt ELSE <<>>

\* redraw, and a defect: the cursor is moved back even when it is at the end.
RedrawAlwaysBack(b, c) ==
  Back(Typed(EraseToEnd(CarriageReturn(screen)), PromptOf(mode) \o b),
       Len(b) - c)
Redraw(b, c) ==
  LET shown == Typed(EraseToEnd(CarriageReturn(screen)), PromptOf(mode) \o b)
  IN  IF c < Len(b) THEN Back(shown, Len(b) - c) ELSE shown

Before(b, c) == SubSeq(b, 1, c)             \* buf[0...cursor]
From(b, c) == SubSeq(b, c + 1, Len(b))      \* buf[cursor..-1]

Edit(b, c) == buf' = b /\ cursor' = c

\* read_line is called: for the shell's prompt, or after the two blanks of
\* the write command.
Call(m, h) ==
  /\ mode' = m
  /\ history' = h
  /\ Edit(<<>>, 0)
  /\ saved_input' = <<>>
  /\ history_index' = Len(h)
  /\ screen' = Typed(NewRow, IF m = "write" THEN <<" ", " ">> ELSE PromptOf(m))

Halt ==
  /\ mode' = "halted"
  /\ screen' = NewRow
  /\ UNCHANGED history
  /\ Edit(<<>>, 0)
  /\ saved_input' = <<>> /\ history_index' = Len(history)

Init ==
  /\ key = "none" /\ sending = <<>> /\ synced = TRUE
  /\ pc = "char"
  /\ buf = <<>> /\ cursor = 0 /\ saved_input = <<>> /\ history_index = 0
  /\ history = <<>> /\ mode = "shell"
  /\ screen = Typed(NewRow, Prompt)

\* The user presses a key when the bytes of the one before have been read.
\* Bounds: the lengths, and lines with strays are not entered in the history.
Press(k) ==
  /\ mode # "halted"
  /\ sending = <<>>
  /\ k \in Text \cup {"F1"} => Len(buf) < MaxLine
  /\ pc # "char" => Len(buf) + Len(BytesOf(k)) - 1 <= MaxLine
  /\ k = "LF" => Len(history) < MaxHistory /\ buf \in Seq(Text)
  /\ k \in Unknown => Len(buf) + Len(history) <= MaxStray
  /\ key' = k
  /\ sending' = BytesOf(k)
  /\ synced' = (pc = "char")
  /\ UNCHANGED <<pc, buf, cursor, saved_input, history_index, history, mode,
                 screen>>

\* $stdin.sysread(1) returns b to the read in progress at "where".
Read(where, b) ==
  /\ pc = where
  /\ sending # <<>> /\ b = Head(sending)
  /\ sending' = Tail(sending)
  /\ IF sending' = <<>> THEN key' = "none" /\ synced' = TRUE
                        ELSE UNCHANGED <<key, synced>>

KeepLine == UNCHANGED <<buf, cursor, saved_input, history_index, screen>>
SameCall == UNCHANGED <<history, mode>>

-----------------------------------------------------------------------------
(* The branches on the first byte of a key. *)

\* A line is returned: the loop that asked for it takes it and asks again.
\* An empty line, or any line but the terminator in write, changes nothing.
Return(line) ==
  CASE mode = "shell" /\ line = <<>> -> Call("shell", history)
    [] mode = "shell" /\ line \in ExitLine ->
         /\ mode' = "halted" /\ screen' = NewRow
         /\ history' = Append(history, line)
         /\ Edit(<<>>, 0)
         /\ saved_input' = <<>> /\ history_index' = Len(history')
    [] mode = "shell" /\ line = WriteLine ->
         Call("write", Append(history, line))
    [] mode = "shell" /\ line # <<>> /\ line \notin ExitLine \cup {WriteLine} ->
         Call("shell", Append(history, line))
    [] mode = "write" /\ line = DotLine -> Call("shell", history)
    [] mode = "write" /\ line # DotLine -> Call("write", history)

Enter(b) ==
  /\ b = "LF"
  /\ pc' = "char"
  /\ Return(buf)

StartSequence(b) ==
  /\ b = "ESC"
  /\ pc' = "esc"
  /\ KeepLine /\ SameCall

\* What Backspace leaves, and a defect: one character more is removed.
EraseTwo(b, c) == Before(b, c - 2) \o From(b, c)
EraseBefore(b, c) == Before(b, c - 1) \o From(b, c)

Backspace(b) ==
  /\ b = "DEL"
  /\ pc' = "char"
  /\ IF cursor > 0
     THEN /\ Edit(EraseBefore(buf, cursor), cursor - 1)
          /\ screen' = Redraw(buf', cursor')
     ELSE UNCHANGED <<buf, cursor, screen>>
  /\ UNCHANGED <<saved_input, history_index>> /\ SameCall

\* Ctrl-C: the empty line is returned.
Interrupt(b) ==
  /\ b = "^C"
  /\ pc' = "char"
  /\ Return(<<>>)

\* Ctrl-D: EOFError ends the shell's loop; in the write command the shell
\* catches it and prompts again.
EndOfFile(b) ==
  /\ b = "^D"
  /\ pc' = "char"
  /\ IF mode = "shell" THEN Halt ELSE Call("shell", history)

Insert(b) ==
  /\ b \in Printable
  /\ pc' = "char"
  /\ Edit(Before(buf, cursor) \o <<b>> \o From(buf, cursor), cursor + 1)
  /\ screen' = IF cursor' = Len(buf') THEN Typed(screen, <<b>>)
                                      ELSE Redraw(buf', cursor')
  /\ UNCHANGED <<saved_input, history_index>> /\ SameCall

\* Other control bytes.
Ignore(b) ==
  /\ b = "TAB"
  /\ pc' = "char"
  /\ KeepLine /\ SameCall

FirstByte(b) ==
  /\ Read("char", b)
  /\ \/ Enter(b) \/ StartSequence(b) \/ Backspace(b) \/ Interrupt(b)
     \/ EndOfFile(b) \/ Insert(b) \/ Ignore(b)

-----------------------------------------------------------------------------
(* Escape sequences. *)

\* The byte after ESC is dropped unless it opens a CSI sequence.
SecondByte(b) ==
  /\ Read("esc", b)
  /\ pc' = IF b = "[" THEN "csi" ELSE "char"
  /\ KeepLine /\ SameCall

Show(b) ==
  /\ Edit(b, Len(b))
  /\ screen' = Redraw(b, Len(b))

\* saved_input when an older line is shown, and a defect: overwritten each time.
SavedAlways == buf
Saved == IF history_index = Len(history) THEN buf ELSE saved_input

Up(b) ==
  /\ b = "A"
  /\ IF Len(history) > 0 /\ history_index > 0
     THEN /\ saved_input' = Saved
          /\ history_index' = history_index - 1
          /\ Show(history[history_index])
     ELSE KeepLine

Down(b) ==
  /\ b = "B"
  /\ IF history_index < Len(history)
     THEN /\ history_index' = history_index + 1
          /\ Show(IF history_index' = Len(history) THEN saved_input
                  ELSE history[history_index' + 1])
          /\ UNCHANGED saved_input
     ELSE KeepLine

Right(b) ==
  /\ b = "C"
  /\ IF cursor < Len(buf)
     THEN /\ Edit(buf, cursor + 1)
          /\ screen' = Forward(screen)
          /\ UNCHANGED <<saved_input, history_index>>
     ELSE KeepLine

Left(b) ==
  /\ b = "D"
  /\ IF cursor > 0
     THEN /\ Edit(buf, cursor - 1)
          /\ screen' = Back(screen, 1)
          /\ UNCHANGED <<saved_input, history_index>>
     ELSE KeepLine

FinalByte(b) ==
  /\ Read("csi", b)
  /\ b \in Range(Arrow)
  /\ pc' = "char"
  /\ Up(b) \/ Down(b) \/ Right(b) \/ Left(b)
  /\ SameCall

\* The while loop of an unknown sequence: bytes are dropped up to the first
\* that is no parameter.  Two defects: the first byte ends the sequence, only
\* the final byte of function keys does.
EndsAtOnce(b) == TRUE
EndsAtTilde(b) == b = "~"
EndsSequence(b) == b \notin Parameter

UnknownByte(b) ==
  /\ \/ Read("csi", b) /\ b \notin Range(Arrow)
     \/ Read("skip", b)
  /\ pc' = IF EndsSequence(b) THEN "char" ELSE "skip"
  /\ KeepLine /\ SameCall

Sysread ==
  /\ mode # "halted"
  /\ \E b \in Printable \cup Control \cup {"ESC"} :
       FirstByte(b) \/ SecondByte(b) \/ FinalByte(b) \/ UnknownByte(b)

Next == Sysread \/ \E k \in Text \cup OtherKey : Press(k)

Spec == Init /\ [][Next]_vars

-----------------------------------------------------------------------------
Line == Seq(Printable)

\* read_line's locals are a position in a line and one in the history.
TypeOK ==
  /\ key \in Text \cup OtherKey \cup {"none"} /\ synced \in BOOLEAN
  /\ pc \in {"char", "esc", "csi", "skip"}
  /\ buf \in Line /\ saved_input \in Line /\ history \in Seq(Line)
  /\ cursor \in 0 .. Len(buf)
  /\ history_index \in 0 .. Len(history)
  /\ mode \in {"shell", "write", "halted"}

\* What the user sees is what Enter will return: while a key is awaited the
\* row ends with buf, after the prompt, and the terminal's cursor stands on
\* the character that cursor indexes, whatever mix of echoed characters,
\* cursor movements and redraws led there.
ScreenShowsLine ==
  mode # "halted" =>
    LET shown == Len(screen.row) - Len(buf)
    IN  /\ shown >= Len(PromptOf(mode))
        /\ SubSeq(screen.row, shown + 1, Len(screen.row)) = buf
        /\ SubSeq(screen.row, shown - Len(PromptOf(mode)) + 1, shown)
             = PromptOf(mode)
        /\ screen.col = shown + cursor

\* A key sent as an escape sequence is taken whole: none of its bytes is
\* inserted as text, unless ESC alone or an ESC O sequence, which read_line
\* does not know, came just before.
OnlyTextIsTyped ==
  [][Len(buf') > Len(buf) /\ synced /\ key \notin Text
       => key \in {"Up", "Down", "F1"}]_vars

\* And no such key swallows the next one: when its bytes have been read,
\* read_line waits for the first byte of a key.
KeysEndInStep ==
  [][sending # <<>> /\ sending' = <<>> /\ synced /\ key # "Escape"
       => pc' = "char"]_vars

Editor ==
  INSTANCE EditLine WITH
    Character <- Printable,
    lines <- history,
    left <- SubSeq(buf, 1, cursor),
    right <- SubSeq(buf, cursor + 1, Len(buf)),
    at <- history_index + 1,
    draft <- saved_input,
    open <- mode # "halted"

\* read_line is a line editor: bytes, slices and indices implement keys, a
\* text with a cursor, and a draft kept while older lines are shown.
EditorSpec == Editor!Spec
=============================================================================
