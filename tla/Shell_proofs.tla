---------------------------- MODULE Shell_proofs ----------------------------
(***************************************************************************)
(* Proofs about Shell for any printable keys, any of the other keys, any   *)
(* prompt and any lines that the two loops know.                           *)
(***************************************************************************)
EXTENDS Shell, SequenceTheorems, TLAPS

-----------------------------------------------------------------------------
(* Slices of a line. *)

\* A line cut at a cursor, and put together again.
LEMMA Cut ==
  ASSUME NEW S, NEW s \in Seq(S), NEW c \in 0 .. Len(s)
  PROVE  /\ Before(s, c) \in Seq(S) /\ Len(Before(s, c)) = c
         /\ \A i \in 1 .. c : Before(s, c)[i] = s[i]
         /\ From(s, c) \in Seq(S) /\ Len(From(s, c)) = Len(s) - c
         /\ \A i \in 1 .. Len(s) - c : From(s, c)[i] = s[c + i]
         /\ Before(s, c) \o From(s, c) = s
<1>1. Len(s) \in Nat /\ \A i \in 1 .. Len(s) : s[i] \in S
  BY ElementOfSeq
<1>2. /\ Before(s, c) \in Seq(S) /\ Len(Before(s, c)) = c
      /\ \A i \in 1 .. c : Before(s, c)[i] = s[i]
  <2>1. c \in Int /\ 1 \in Int /\ \A i \in 1 .. c : s[i] \in S
    BY <1>1
  <2> QED
    BY <1>1, <2>1, SubSeqProperties DEF Before
<1>3. /\ From(s, c) \in Seq(S) /\ Len(From(s, c)) = Len(s) - c
      /\ \A i \in 1 .. Len(s) - c : From(s, c)[i] = s[c + i]
  <2>1. /\ c + 1 \in Int /\ Len(s) \in Int
        /\ \A i \in c + 1 .. Len(s) : s[i] \in S
    BY <1>1
  <2>2. /\ From(s, c) \in Seq(S)
        /\ Len(From(s, c)) =
             IF c + 1 <= Len(s) THEN Len(s) - (c + 1) + 1 ELSE 0
        /\ \A i \in 1 .. Len(s) - (c + 1) + 1 :
             From(s, c)[i] = s[(c + 1) + i - 1]
    BY <2>1, SubSeqProperties DEF From
  <2>3. Len(From(s, c)) = Len(s) - c /\ Len(s) - (c + 1) + 1 = Len(s) - c
    BY <1>1, <2>2
  <2>4. ASSUME NEW i \in 1 .. Len(s) - c PROVE From(s, c)[i] = s[c + i]
    <3>1. (c + 1) + i - 1 = c + i
      OBVIOUS
    <3> QED
      BY <2>2, <2>3, <3>1
  <2> QED
    BY <2>2, <2>3, <2>4
<1>4. Before(s, c) \o From(s, c) = s
  <2>1. /\ 1 \in 1 .. Len(s) + 1 /\ c \in 1 - 1 .. Len(s)
        /\ Len(s) \in c .. Len(s)
    BY <1>1
  <2>2. SubSeq(s, 1, c) \o SubSeq(s, c + 1, Len(s)) = SubSeq(s, 1, Len(s))
    BY <2>1, ConcatAdjacentSubSeq
  <2> QED
    BY <2>2, SubSeqFull DEF Before, From
<1> QED
  BY <1>2, <1>3, <1>4

\* The two parts of a line put together, cut where they meet.
LEMMA CutConcat ==
  ASSUME NEW S, NEW s \in Seq(S), NEW t \in Seq(S)
  PROVE  /\ s \o t \in Seq(S) /\ Len(s \o t) = Len(s) + Len(t)
         /\ Before(s \o t, Len(s)) = s /\ From(s \o t, Len(s)) = t
<1> DEFINE u == s \o t
           c == Len(s)
<1>1. /\ u \in Seq(S) /\ Len(u) = Len(s) + Len(t)
      /\ \A i \in 1 .. Len(s) + Len(t) :
           u[i] = IF i <= Len(s) THEN s[i] ELSE t[i - Len(s)]
  BY ConcatProperties
<1>2. Len(s) \in Nat /\ Len(t) \in Nat /\ c \in 0 .. Len(u)
  BY <1>1, LenProperties
<1> HIDE DEF u
<1>3. /\ Before(u, c) \in Seq(S) /\ Len(Before(u, c)) = c
      /\ \A i \in 1 .. c : Before(u, c)[i] = u[i]
      /\ From(u, c) \in Seq(S) /\ Len(From(u, c)) = Len(u) - c
      /\ \A i \in 1 .. Len(u) - c : From(u, c)[i] = u[c + i]
  BY <1>1, <1>2, Cut
<1>4. Before(u, c) = s
  BY <1>1, <1>2, <1>3, SeqEqual
<1>5. From(u, c) = t
  <2>1. Len(From(u, c)) = Len(t)
    BY <1>1, <1>2, <1>3
  <2>2. ASSUME NEW i \in 1 .. Len(t) PROVE From(u, c)[i] = t[i]
    <3>1. /\ i \in 1 .. Len(u) - c /\ c + i \in 1 .. Len(s) + Len(t)
          /\ ~(c + i <= Len(s)) /\ (c + i) - Len(s) = i
      BY <1>1, <1>2
    <3> QED
      BY <1>1, <1>3, <3>1
  <2> QED
    BY <1>3, <2>1, <2>2, SeqEqual
<1> QED
  BY <1>1, <1>4, <1>5 DEF u

LEMMA Single ==
  ASSUME NEW S, NEW e \in S PROVE <<e>> \in Seq(S) /\ Len(<<e>>) = 1
  OBVIOUS

LEMMA CutAtEnd ==
  ASSUME NEW S, NEW s \in Seq(S)
  PROVE  Before(s, Len(s)) = s /\ From(s, Len(s)) = <<>>
<1>1. Len(s) \in Nat
  BY LenProperties
<1>2. Before(s, Len(s)) = s
  BY SubSeqFull DEF Before
<1>3. From(s, Len(s)) = <<>>
  <2>1. Len(s) + 1 \in Int /\ Len(s) \in Int /\ Len(s) < Len(s) + 1
    BY <1>1
  <2> QED
    BY <2>1, SubSeqEmpty DEF From
<1> QED
  BY <1>2, <1>3

\* A character typed at the cursor, and one erased before it.
WithInserted(s, c, b) == Before(s, c) \o <<b>> \o From(s, c)

LEMMA CutInserted ==
  ASSUME NEW S, NEW s \in Seq(S), NEW c \in 0 .. Len(s), NEW b \in S
  PROVE  /\ WithInserted(s, c, b) \in Seq(S)
         /\ Len(WithInserted(s, c, b)) = Len(s) + 1
         /\ Before(WithInserted(s, c, b), c + 1) = Append(Before(s, c), b)
         /\ From(WithInserted(s, c, b), c + 1) = From(s, c)
<1> DEFINE l == Append(Before(s, c), b)
           n == WithInserted(s, c, b)
<1>1. /\ Before(s, c) \in Seq(S) /\ Len(Before(s, c)) = c
      /\ From(s, c) \in Seq(S) /\ Len(From(s, c)) = Len(s) - c
  BY Cut
<1>2. l = Before(s, c) \o <<b>> /\ l \in Seq(S) /\ Len(l) = c + 1
  BY <1>1, AppendIsConcat, AppendProperties
<1>3. n = l \o From(s, c)
  BY <1>2 DEF WithInserted
<1> HIDE DEF l, n
<1>4. /\ n \in Seq(S) /\ Len(n) = Len(l) + Len(From(s, c))
      /\ Before(n, Len(l)) = l /\ From(n, Len(l)) = From(s, c)
  <2> DEFINE r == From(s, c)
  <2>1. l \in Seq(S) /\ r \in Seq(S) /\ n = l \o r
    BY <1>1, <1>2, <1>3
  <2> HIDE DEF r
  <2> QED
    BY ONLY <2>1, CutConcat DEF r
<1>5. Len(n) = Len(s) + 1
  <2>1. Len(s) \in Nat
    BY LenProperties
  <2> QED
    BY <1>1, <1>2, <1>4, <2>1
<1> QED
  BY <1>2, <1>4, <1>5 DEF l, n

LEMMA CutLeftwards ==
  ASSUME NEW S, NEW s \in Seq(S), NEW c \in 1 .. Len(s)
  PROVE  /\ Before(s, c) # <<>>
         /\ Before(s, c - 1) = Front(Before(s, c))
         /\ From(s, c - 1) = <<Last(Before(s, c))>> \o From(s, c)
<1>1. /\ Len(s) \in Nat /\ c \in 0 .. Len(s) /\ c - 1 \in 0 .. Len(s)
      /\ c \in Nat /\ s[c] \in S
  BY LenProperties, ElementOfSeq
<1>2. /\ Before(s, c) \in Seq(S) /\ Len(Before(s, c)) = c
      /\ \A i \in 1 .. c : Before(s, c)[i] = s[i]
      /\ From(s, c) \in Seq(S) /\ Len(From(s, c)) = Len(s) - c
      /\ \A i \in 1 .. Len(s) - c : From(s, c)[i] = s[c + i]
  BY <1>1, Cut
<1>3. /\ Before(s, c - 1) \in Seq(S) /\ Len(Before(s, c - 1)) = c - 1
      /\ \A i \in 1 .. c - 1 : Before(s, c - 1)[i] = s[i]
      /\ From(s, c - 1) \in Seq(S) /\ Len(From(s, c - 1)) = Len(s) - (c - 1)
      /\ \A i \in 1 .. Len(s) - (c - 1) : From(s, c - 1)[i] = s[c - 1 + i]
  BY <1>1, Cut
<1>4. Before(s, c) # <<>>
  BY <1>1, <1>2, EmptySeq
<1>5. Before(s, c - 1) = Front(Before(s, c))
  <2> DEFINE l == Before(s, c)
             f == SubSeq(l, 1, c - 1)
  <2>1. c - 1 \in 0 .. Len(l)
    BY <1>1, <1>2
  <2>2. /\ Before(l, c - 1) \in Seq(S) /\ Len(Before(l, c - 1)) = c - 1
        /\ \A i \in 1 .. c - 1 : Before(l, c - 1)[i] = l[i]
    BY <1>2, <2>1, Cut
  <2>3. Before(l, c - 1) = f /\ Front(l) = f
    BY <1>2 DEF Before, Front
  <2>4. ASSUME NEW i \in 1 .. c - 1 PROVE f[i] = Before(s, c - 1)[i]
    <3>1. i \in 1 .. c
      BY <1>1
    <3> QED
      BY <1>2, <1>3, <2>2, <2>3, <3>1
  <2> HIDE DEF l, f
  <2> QED
    BY <1>3, <2>2, <2>3, <2>4, SeqEqual DEF l
<1>6. From(s, c - 1) = <<Last(Before(s, c))>> \o From(s, c)
  <2> DEFINE t == <<s[c]>> \o From(s, c)
  <2>1. Last(Before(s, c)) = s[c]
    BY <1>1, <1>2 DEF Last
  <2>2. <<s[c]>> \in Seq(S) /\ Len(<<s[c]>>) = 1 /\ <<s[c]>>[1] = s[c]
    BY <1>1, Single
  <2>3. /\ t \in Seq(S) /\ Len(t) = 1 + (Len(s) - c)
        /\ \A i \in 1 .. 1 + (Len(s) - c) :
             t[i] = IF i <= 1 THEN <<s[c]>>[i] ELSE From(s, c)[i - 1]
    <3> DEFINE r == From(s, c)
               h == <<s[c]>>
    <3>1. r \in Seq(S) /\ Len(r) = Len(s) - c /\ h \in Seq(S) /\ Len(h) = 1
      BY <1>2, <2>2
    <3> HIDE DEF r, h
    <3>2. /\ h \o r \in Seq(S) /\ Len(h \o r) = Len(h) + Len(r)
          /\ \A i \in 1 .. Len(h) + Len(r) :
               (h \o r)[i] = IF i <= Len(h) THEN h[i] ELSE r[i - Len(h)]
      BY <3>1, ConcatProperties
    <3> QED
      BY <3>1, <3>2 DEF h, r
  <2> HIDE DEF t
  <2>4. ASSUME NEW i \in 1 .. Len(s) - (c - 1) PROVE From(s, c - 1)[i] = t[i]
    <3>1. i \in 1 .. 1 + (Len(s) - c)
      BY <1>1
    <3>2. CASE i = 1
      <4>1. t[i] = s[c]
        BY <2>2, <2>3, <3>1, <3>2
      <4>2. c - 1 + i = c
        BY <1>1, <3>2
      <4> QED
        BY <1>3, <4>1, <4>2
    <3>3. CASE i # 1
      <4>1. /\ i - 1 \in 1 .. Len(s) - c /\ ~(i <= 1)
            /\ c + (i - 1) = c - 1 + i
        BY <1>1, <3>3
      <4> QED
        BY <1>2, <1>3, <2>3, <3>1, <4>1
    <3> QED
      BY <3>2, <3>3
  <2>5. Len(t) = Len(s) - (c - 1)
    BY <1>1, <2>3
  <2> QED
    BY <1>3, <2>1, <2>3, <2>4, <2>5, SeqEqual DEF t
<1> QED
  BY <1>4, <1>5, <1>6

LEMMA CutRightwards ==
  ASSUME NEW S, NEW s \in Seq(S), NEW c \in 0 .. Len(s) - 1
  PROVE  /\ From(s, c) # <<>>
         /\ Before(s, c + 1) = Append(Before(s, c), Head(From(s, c)))
         /\ From(s, c + 1) = Tail(From(s, c))
<1>1. /\ Len(s) \in Nat /\ c \in 0 .. Len(s) /\ c + 1 \in 1 .. Len(s)
      /\ (c + 1) - 1 = c
  BY LenProperties
<1> DEFINE l == Before(s, c + 1)
           e == Last(l)
<1>2. From(s, c) = <<e>> \o From(s, c + 1) /\ Before(s, c) = Front(l)
  BY <1>1, CutLeftwards
<1>3. /\ l \in Seq(S) /\ Len(l) = c + 1
      /\ From(s, c + 1) \in Seq(S)
      /\ From(s, c) \in Seq(S) /\ Len(From(s, c)) = Len(s) - c
  BY <1>1, Cut
<1>4. e \in S
  BY <1>1, <1>3, ElementOfSeq DEF Last
<1>5. From(s, c) # <<>>
  BY <1>1, <1>3, EmptySeq
<1>6. Head(From(s, c)) = e /\ Tail(From(s, c)) = From(s, c + 1)
  <2>1. /\ Before(<<e>> \o From(s, c + 1), 1) = <<e>>
        /\ From(<<e>> \o From(s, c + 1), 1) = From(s, c + 1)
    <3> DEFINE r == From(s, c + 1)
               h == <<e>>
    <3>1. r \in Seq(S) /\ h \in Seq(S) /\ Len(h) = 1
      BY <1>3, <1>4, Single
    <3> HIDE DEF r, h
    <3>2. Before(h \o r, Len(h)) = h /\ From(h \o r, Len(h)) = r
      BY <3>1, CutConcat
    <3> QED
      BY <3>1, <3>2 DEF h, r
  <2>2. /\ Head(From(s, c)) = From(s, c)[1]
        /\ Tail(From(s, c)) = SubSeq(From(s, c), 2, Len(From(s, c)))
    <3> DEFINE r == From(s, c)
    <3>1. r \in Seq(S) /\ r # <<>>
      BY <1>3, <1>5
    <3> HIDE DEF r
    <3> QED
      BY <3>1, TailIsSubSeq DEF r
  <2>3. Tail(From(s, c)) = From(From(s, c), 1)
    BY <2>2 DEF From
  <2>4. From(s, c)[1] = e
    <3>1. Len(<<e>>) = 1 /\ <<e>> \in Seq(S) /\ <<e>>[1] = e
      BY <1>4, Single
    <3>2. Len(From(s, c + 1)) \in Nat
      BY <1>3, LenProperties
    <3> QED
      BY <1>2, <1>3, <3>1, <3>2, ConcatProperties
  <2> QED
    BY <1>2, <2>1, <2>2, <2>3, <2>4
<1>7. l = Append(Front(l), e)
  <2>1. SubSeq(l, 1, Len(l)) = SubSeq(l, 1, Len(l) - 1) \o <<l[Len(l)]>>
    <3>1. 1 \in 1 .. Len(l) /\ Len(l) \in 1 .. Len(l)
      BY <1>1, <1>3
    <3> QED
      BY <1>3, <3>1, SubSeqRecursiveSecond
  <2>2. SubSeq(l, 1, Len(l)) = l
    BY <1>3, SubSeqFull
  <2>3. l = Front(l) \o <<e>>
    BY <2>1, <2>2 DEF Front, Last
  <2>4. Front(l) \in Seq(S)
    BY <1>1, <1>2, Cut
  <2> QED
    BY <1>4, <2>3, <2>4, AppendIsConcat
<1> QED
  BY <1>2, <1>5, <1>6, <1>7

LEMMA CutErased ==
  ASSUME NEW S, NEW s \in Seq(S), NEW c \in 1 .. Len(s)
  PROVE  /\ EraseBefore(s, c) \in Seq(S)
         /\ Len(EraseBefore(s, c)) = Len(s) - 1
         /\ Before(EraseBefore(s, c), c - 1) = Front(Before(s, c))
         /\ From(EraseBefore(s, c), c - 1) = From(s, c)
<1> DEFINE n == EraseBefore(s, c)
<1>1. Len(s) \in Nat /\ c \in 0 .. Len(s) /\ c - 1 \in 0 .. Len(s)
  BY LenProperties
<1>2. /\ Before(s, c - 1) \in Seq(S) /\ Len(Before(s, c - 1)) = c - 1
      /\ From(s, c) \in Seq(S) /\ Len(From(s, c)) = Len(s) - c
  BY <1>1, Cut
<1>3. n = Before(s, c - 1) \o From(s, c)
  BY DEF EraseBefore
<1> HIDE DEF n
<1>4. /\ n \in Seq(S) /\ Len(n) = (c - 1) + (Len(s) - c)
      /\ Before(n, c - 1) = Before(s, c - 1) /\ From(n, c - 1) = From(s, c)
  <2> DEFINE l == Before(s, c - 1)
             r == From(s, c)
  <2>1. /\ l \in Seq(S) /\ Len(l) = c - 1
        /\ r \in Seq(S) /\ Len(r) = Len(s) - c /\ n = l \o r
    BY <1>2, <1>3
  <2> HIDE DEF l, r
  <2>2. /\ n \in Seq(S) /\ Len(n) = Len(l) + Len(r)
        /\ Before(n, Len(l)) = l /\ From(n, Len(l)) = r
    BY <2>1, CutConcat
  <2> QED
    BY <2>1, <2>2 DEF l, r
<1>5. Before(s, c - 1) = Front(Before(s, c))
  BY CutLeftwards
<1>6. (c - 1) + (Len(s) - c) = Len(s) - 1
  BY <1>1
<1> QED
  BY <1>4, <1>5, <1>6 DEF n

-----------------------------------------------------------------------------
(* What a byte does to the line. *)

\* A fresh line, asked for or, after the loop's end, not.
Fresh(m, h) ==
  /\ mode' = m /\ history' = h
  /\ Edit(<<>>, 0) /\ saved_input' = <<>> /\ history_index' = Len(h)
  /\ screen' = IF m = "halted" THEN NewRow
               ELSE Typed(NewRow, IF m = "write" THEN <<" ", " ">> ELSE Prompt)

Entered ==
  \E m \in {"shell", "write", "halted"},
     h \in {history, Append(history, buf)} :
    Fresh(m, h) /\ (h # history => buf # <<>>)

Inserted == \E b \in Printable : Insert(b)

Erased ==
  /\ cursor > 0
  /\ Edit(EraseBefore(buf, cursor), cursor - 1)
  /\ screen' = Redraw(buf', cursor')
  /\ UNCHANGED <<saved_input, history_index>> /\ SameCall

ShownOlder ==
  /\ history_index > 0
  /\ saved_input' = Saved
  /\ history_index' = history_index - 1
  /\ Show(history[history_index]) /\ SameCall

ShownNewer ==
  /\ history_index < Len(history)
  /\ history_index' = history_index + 1
  /\ Show(IF history_index + 1 = Len(history) THEN saved_input
          ELSE history[history_index + 1 + 1])
  /\ UNCHANGED saved_input /\ SameCall

MovedRight ==
  /\ cursor < Len(buf)
  /\ Edit(buf, cursor + 1)
  /\ screen' = Forward(screen)
  /\ UNCHANGED <<saved_input, history_index>> /\ SameCall

MovedLeft ==
  /\ cursor > 0
  /\ Edit(buf, cursor - 1)
  /\ screen' = Back(screen, 1)
  /\ UNCHANGED <<saved_input, history_index>> /\ SameCall

Kept == KeepLine /\ SameCall

Edited == Inserted \/ Erased \/ ShownOlder \/ ShownNewer \/ MovedRight
            \/ MovedLeft \/ Entered \/ Kept

LEMMA ReturnIs ==
  ASSUME mode \in {"shell", "write"}, NEW line, Return(line)
  PROVE  \E m \in {"shell", "write", "halted"},
            h \in {history, Append(history, line)} :
           Fresh(m, h) /\ (h # history => line # <<>>)
<1>1. ASSUME NEW m \in {"shell", "write"}, NEW h, Call(m, h) PROVE Fresh(m, h)
  BY <1>1 DEF Call, Fresh, PromptOf
<1>2. CASE mode = "shell" /\ line = <<>>
  <2>1. Call("shell", history)
    BY <1>2, LinesAssumption DEF Return
  <2> QED
    BY <1>1, <2>1
<1>3. CASE mode = "shell" /\ line \in ExitLine
  <2>1. line # <<>> /\ line # WriteLine
    BY <1>3, LinesAssumption
  <2>2. Fresh("halted", Append(history, line))
    BY <1>3, <2>1 DEF Return, Fresh
  <2> QED
    BY <2>1, <2>2
<1>4. CASE mode = "shell" /\ line = WriteLine
  <2>1. line # <<>> /\ line \notin ExitLine
    BY <1>4, LinesAssumption
  <2>2. Call("write", Append(history, line))
    BY <1>4, <2>1 DEF Return
  <2> QED
    BY <1>1, <2>1, <2>2
<1>5. CASE /\ mode = "shell" /\ line # <<>>
           /\ line \notin ExitLine \cup {WriteLine}
  <2>1. Call("shell", Append(history, line))
    BY <1>5 DEF Return
  <2> QED
    BY <1>1, <1>5, <2>1
<1>6. CASE mode = "write"
  <2>1. Call("shell", history) \/ Call("write", history)
    BY <1>6 DEF Return
  <2> QED
    BY <1>1, <2>1
<1> QED
  BY <1>2, <1>3, <1>4, <1>5, <1>6

LEMMA FirstByteEdits ==
  ASSUME TypeOK, mode # "halted", NEW b, FirstByte(b) PROVE Edited
<1>1. mode \in {"shell", "write"}
  BY DEF TypeOK
<1>2. CASE Enter(b)
  BY <1>1, <1>2, ReturnIs DEF Enter, Edited, Entered
<1>3. CASE StartSequence(b)
  BY <1>3 DEF StartSequence, Edited, Kept
<1>4. CASE Backspace(b)
  BY <1>4 DEF Backspace, Edited, Kept, Erased, KeepLine
<1>5. CASE Interrupt(b)
  <2>1. PICK m \in {"shell", "write", "halted"},
             h \in {history, Append(history, <<>>)} :
          Fresh(m, h) /\ (h # history => <<>> # <<>>)
    BY <1>1, <1>5, ReturnIs DEF Interrupt
  <2>2. h = history
    BY <2>1
  <2> QED
    BY <2>1, <2>2 DEF Edited, Entered
<1>6. CASE EndOfFile(b)
  <2>1. Fresh("halted", history) \/ Fresh("shell", history)
    BY <1>1, <1>6 DEF EndOfFile, Halt, Call, Fresh, PromptOf
  <2> QED
    BY <2>1 DEF Edited, Entered
<1>7. CASE Insert(b)
  BY <1>7 DEF Insert, Edited, Inserted
<1>8. CASE Ignore(b)
  BY <1>8 DEF Ignore, Edited, Kept
<1> QED
  BY <1>2, <1>3, <1>4, <1>5, <1>6, <1>7, <1>8 DEF FirstByte

LEMMA SysreadEdits == ASSUME TypeOK, Sysread PROVE Edited
<1>1. mode # "halted"
  BY DEF Sysread
<1>2. ASSUME NEW b, FirstByte(b) PROVE Edited
  BY <1>1, <1>2, FirstByteEdits
<1>3. ASSUME NEW b, SecondByte(b) \/ UnknownByte(b) PROVE Edited
  BY <1>3 DEF SecondByte, UnknownByte, Edited, Kept
<1>4. ASSUME NEW b, FinalByte(b) PROVE Edited
  <2>1. SameCall /\ (Up(b) \/ Down(b) \/ Right(b) \/ Left(b))
    BY <1>4 DEF FinalByte
  <2>2. CASE Up(b)
    BY <2>1, <2>2 DEF Up, Edited, Kept, ShownOlder
  <2>3. CASE Down(b)
    <3>1. CASE history_index < Len(history)
      <4>1. history_index' = history_index + 1
        BY <2>3, <3>1 DEF Down
      <4> QED
        BY <2>1, <2>3, <3>1, <4>1 DEF Down, Edited, ShownNewer
    <3>2. CASE ~(history_index < Len(history))
      BY <2>1, <2>3, <3>2 DEF Down, Edited, Kept
    <3> QED
      BY <3>1, <3>2
  <2>4. CASE Right(b)
    BY <2>1, <2>4 DEF Right, Edited, Kept, MovedRight
  <2>5. CASE Left(b)
    BY <2>1, <2>5 DEF Left, Edited, Kept, MovedLeft
  <2> QED
    BY <2>1, <2>2, <2>3, <2>4, <2>5
<1> QED
  BY <1>2, <1>3, <1>4 DEF Sysread

-----------------------------------------------------------------------------
(* Types. *)

\* read_line's locals, the history and the loop that called.
LineTypeOK ==
  /\ buf \in Line /\ saved_input \in Line /\ history \in Seq(Line)
  /\ cursor \in 0 .. Len(buf)
  /\ history_index \in 0 .. Len(history)
  /\ mode \in {"shell", "write", "halted"}

LEMMA EditedTyped == ASSUME TypeOK, Edited PROVE LineTypeOK'
<1>1. /\ buf \in Seq(Printable) /\ saved_input \in Seq(Printable)
      /\ history \in Seq(Line) /\ Line = Seq(Printable)
      /\ cursor \in 0 .. Len(buf) /\ history_index \in 0 .. Len(history)
      /\ mode \in {"shell", "write", "halted"}
      /\ Len(buf) \in Nat /\ Len(history) \in Nat
  BY LenProperties DEF TypeOK, Line
<1>2. \A i \in 1 .. Len(history) : history[i] \in Line
  BY <1>1, ElementOfSeq
<1>3. CASE Inserted
  <2>1. PICK b \in Printable : Insert(b)
    BY <1>3 DEF Inserted
  <2>2. /\ buf' = WithInserted(buf, cursor, b)
        /\ cursor' = cursor + 1
        /\ UNCHANGED <<saved_input, history_index, history, mode>>
    BY <2>1 DEF Insert, Edit, SameCall, WithInserted
  <2>3. buf' \in Seq(Printable) /\ Len(buf') = Len(buf) + 1
    <3>1. /\ buf \in Seq(Printable) /\ cursor \in 0 .. Len(buf)
          /\ b \in Printable /\ buf' = WithInserted(buf, cursor, b)
      BY <1>1, <2>2
    <3> QED
      BY ONLY <3>1, CutInserted
  <2>4. cursor' \in 0 .. Len(buf')
    BY <1>1, <2>2, <2>3
  <2> QED
    BY <1>1, <2>2, <2>3, <2>4 DEF LineTypeOK, Line
<1>4. CASE Erased
  <2>1. /\ buf' = EraseBefore(buf, cursor) /\ cursor' = cursor - 1
        /\ cursor \in 1 .. Len(buf)
        /\ UNCHANGED <<saved_input, history_index, history, mode>>
    BY <1>1, <1>4 DEF Erased, Edit, SameCall
  <2>2. buf' \in Seq(Printable) /\ Len(buf') = Len(buf) - 1
    BY <1>1, <2>1, CutErased
  <2>3. cursor' \in 0 .. Len(buf')
    BY <1>1, <2>1, <2>2
  <2> QED
    BY <1>1, <2>1, <2>2, <2>3 DEF LineTypeOK, Line
<1>5. ASSUME NEW b \in Line, Show(b)
      PROVE  buf' \in Line /\ cursor' \in 0 .. Len(buf')
  <2>1. Len(b) \in Nat
    BY LenProperties DEF Line
  <2> QED
    BY <1>5, <2>1 DEF Show, Edit
<1>6. CASE ShownOlder
  <2>1. /\ Saved \in Line /\ history[history_index] \in Line
        /\ history_index - 1 \in 0 .. Len(history)
    BY <1>1, <1>2, <1>6 DEF ShownOlder, Saved
  <2>2. /\ Show(history[history_index]) /\ saved_input' = Saved
        /\ history_index' = history_index - 1
        /\ history' = history /\ mode' = mode
    BY <1>6 DEF ShownOlder, SameCall
  <2> QED
    BY <1>1, <1>5, <2>1, <2>2 DEF LineTypeOK
<1>7. CASE ShownNewer
  <2> DEFINE line == IF history_index + 1 = Len(history) THEN saved_input
                     ELSE history[history_index + 1 + 1]
  <2>1. /\ Show(line) /\ history_index < Len(history)
        /\ history_index' = history_index + 1
        /\ UNCHANGED <<saved_input, history, mode>>
    BY <1>7 DEF ShownNewer, SameCall
  <2>2. line \in Line /\ history_index' \in 0 .. Len(history)
    <3>1. CASE history_index + 1 = Len(history)
      BY <1>1, <2>1, <3>1
    <3>2. CASE history_index + 1 # Len(history)
      <4>1. history_index + 1 + 1 \in 1 .. Len(history)
        BY <1>1, <2>1, <3>2
      <4> QED
        BY <1>1, <1>2, <2>1, <3>2, <4>1
    <3> QED
      BY <3>1, <3>2
  <2> HIDE DEF line
  <2> QED
    BY <1>1, <1>5, <2>1, <2>2 DEF LineTypeOK
<1>8. CASE MovedRight \/ MovedLeft
  BY <1>1, <1>8 DEF MovedRight, MovedLeft, Edit, SameCall, LineTypeOK
<1>9. CASE Entered
  <2>1. PICK m \in {"shell", "write", "halted"},
             h \in {history, Append(history, buf)} : Fresh(m, h)
    BY <1>9 DEF Entered
  <2>2. h \in Seq(Line)
    <3>1. Append(history, buf) \in Seq(Line)
      BY <1>1, AppendProperties
    <3> QED
      BY <1>1, <3>1
  <2>3. Len(h) \in Nat
    BY <2>2, LenProperties
  <2>4. <<>> \in Line /\ Len(<<>>) = 0
    BY EmptySeq DEF Line
  <2>5. /\ buf' = <<>> /\ cursor' = 0 /\ saved_input' = <<>> /\ history' = h
        /\ history_index' = Len(h) /\ mode' = m
    BY <2>1 DEF Fresh, Edit
  <2> QED
    BY <2>2, <2>3, <2>4, <2>5 DEF LineTypeOK
<1>10. CASE Kept
  BY <1>1, <1>10 DEF Kept, KeepLine, SameCall, LineTypeOK
<1> QED
  BY <1>3, <1>4, <1>6, <1>7, <1>8, <1>9, <1>10 DEF Edited

\* A read leaves the key in progress or none.
LEMMA SysreadReads ==
  ASSUME Sysread
  PROVE  /\ \E where, b : Read(where, b)
         /\ pc' \in {"char", "esc", "csi", "skip"}
<1>1. ASSUME NEW b, FirstByte(b)
      PROVE  Read("char", b) /\ pc' \in {"char", "esc", "csi", "skip"}
  BY <1>1 DEF FirstByte, Enter, StartSequence, Backspace, Interrupt, EndOfFile,
              Insert, Ignore
<1>2. ASSUME NEW b, SecondByte(b)
      PROVE  Read("esc", b) /\ pc' \in {"char", "esc", "csi", "skip"}
  BY <1>2 DEF SecondByte
<1>3. ASSUME NEW b, FinalByte(b)
      PROVE  Read("csi", b) /\ pc' \in {"char", "esc", "csi", "skip"}
  BY <1>3 DEF FinalByte
<1>4. ASSUME NEW b, UnknownByte(b)
      PROVE  /\ Read("csi", b) \/ Read("skip", b)
             /\ pc' \in {"char", "esc", "csi", "skip"}
  BY <1>4 DEF UnknownByte
<1> QED
  BY <1>1, <1>2, <1>3, <1>4 DEF Sysread

LEMMA NextTyped == ASSUME TypeOK, [Next]_vars PROVE TypeOK'
<1>1. CASE Sysread
  <2>1. LineTypeOK'
    BY <1>1, SysreadEdits, EditedTyped
  <2>2. pc' \in {"char", "esc", "csi", "skip"}
    BY <1>1, SysreadReads
  <2>3. /\ key' \in Text \cup OtherKey \cup {"none"} /\ synced' \in BOOLEAN
    <3>1. PICK where, b : Read(where, b)
      BY <1>1, SysreadReads
    <3> QED
      BY <3>1 DEF Read, TypeOK
  <2> QED
    BY <2>1, <2>2, <2>3 DEF LineTypeOK, TypeOK
<1>2. ASSUME NEW k \in Text \cup OtherKey, Press(k) PROVE TypeOK'
  BY <1>2 DEF Press, TypeOK
<1>3. CASE UNCHANGED vars
  BY <1>3 DEF vars, TypeOK
<1> QED
  BY <1>1, <1>2, <1>3 DEF Next

\* The cursor stays in the line and history_index in the history, which is
\* what buf[0...cursor] and $history[history_index] rely on (read_line).
THEOREM ShellTypeCorrect == Spec => []TypeOK
<1>1. Init => TypeOK
  <2>1. <<>> \in Line /\ <<>> \in Seq(Line) /\ Len(<<>>) = 0
    BY EmptySeq DEF Line
  <2> QED
    BY <2>1 DEF Init, TypeOK
<1> QED
  BY <1>1, NextTyped, PTL DEF Spec

-----------------------------------------------------------------------------
(* The screen. *)

\* What has been printed on the row: the prompt and the line, after the two
\* blanks of the write command until the line is redrawn.
Blanks == {<<>>, <<" ", " ">>}
ScreenOf(pre, m, b, c) ==
  [row |-> (pre \o PromptOf(m)) \o b,
   col |-> Len(pre) + Len(PromptOf(m)) + c]
ScreenInv ==
  mode # "halted" =>
    \E pre \in Blanks : screen = ScreenOf(pre, mode, buf, cursor)

Cell == Printable \cup Range(Prompt) \cup {" "}

LEMMA Cells ==
  /\ \A m : PromptOf(m) \in Seq(Cell) /\ Len(PromptOf(m)) \in Nat
  /\ \A pre \in Blanks : pre \in Seq(Cell) /\ Len(pre) \in Nat
  /\ \A b \in Line : b \in Seq(Cell) /\ Len(b) \in Nat
<1>1. <<>> \in Seq(Cell)
  BY EmptySeq
<1>2. Prompt \in Seq(Cell)
  BY LinesAssumption, SeqMonotonic DEF Cell
<1>3. \A m : PromptOf(m) \in Seq(Cell)
  BY <1>1, <1>2 DEF PromptOf
<1>4. <<" ", " ">> \in Seq(Cell)
  BY DEF Cell
<1>5. \A b \in Line : b \in Seq(Cell)
  BY SeqMonotonic DEF Line, Cell
<1> QED
  BY <1>1, <1>3, <1>4, <1>5, LenProperties DEF Blanks

\* Text typed at the end of the row is appended to it.
LEMMA TypedAtEnd ==
  ASSUME NEW S, NEW r \in Seq(S), NEW t \in Seq(S)
  PROVE  Typed([row |-> r, col |-> Len(r)], t)
           = [row |-> r \o t, col |-> Len(r) + Len(t)]
<1>1. Len(r) \in Nat /\ Len(t) \in Nat
  BY LenProperties
<1>2. SubSeq(r, 1, Len(r)) = r
  BY SubSeqFull
<1>3. SubSeq(r, Len(r) + Len(t) + 1, Len(r)) = <<>>
  <2>1. /\ Len(r) + Len(t) + 1 \in Int /\ Len(r) \in Int
        /\ Len(r) < Len(r) + Len(t) + 1
    BY <1>1
  <2> QED
    BY <2>1, SubSeqEmpty
<1>4. r \o t \in Seq(S) /\ (r \o t) \o <<>> = r \o t
  BY ConcatProperties, ConcatEmptySeq
<1> QED
  BY <1>2, <1>3, <1>4 DEF Typed

LEMMA TypedOnNewRow ==
  ASSUME NEW S, NEW t \in Seq(S)
  PROVE  Typed(NewRow, t) = [row |-> t, col |-> Len(t)]
<1>1. <<>> \in Seq(S) /\ Len(<<>>) = 0
  BY EmptySeq
<1>2. Typed([row |-> <<>>, col |-> Len(<<>>)], t)
        = [row |-> <<>> \o t, col |-> Len(<<>>) + Len(t)]
  BY <1>1, TypedAtEnd
<1>3. <<>> \o t = t /\ Len(t) \in Nat
  BY ConcatEmptySeq, LenProperties
<1> QED
  BY <1>1, <1>2, <1>3 DEF NewRow

\* A line is redrawn from the start of the row: what was there is gone.
LEMMA RedrawIs ==
  ASSUME NEW r, NEW k, screen = [row |-> r, col |-> k],
         NEW b \in Line, NEW c \in 0 .. Len(b)
  PROVE  Redraw(b, c) = ScreenOf(<<>>, mode, b, c)
<1> DEFINE P == PromptOf(mode)
<1>1. /\ P \in Seq(Cell) /\ Len(P) \in Nat /\ b \in Seq(Cell) /\ Len(b) \in Nat
  BY Cells
<1>2. EraseToEnd(CarriageReturn(screen)) = NewRow
  <2>1. SubSeq(r, 1, 0) = <<>>
    BY SubSeqEmpty
  <2>2. CarriageReturn(screen) = [row |-> r, col |-> 0]
    BY DEF CarriageReturn
  <2>3. EraseToEnd([row |-> r, col |-> 0])
          = [row |-> SubSeq(r, 1, 0), col |-> 0]
    BY DEF EraseToEnd
  <2> QED
    BY <2>1, <2>2, <2>3 DEF NewRow
<1> HIDE DEF P
<1>3. /\ P \o b \in Seq(Cell) /\ Len(P \o b) = Len(P) + Len(b)
      /\ <<>> \o P = P /\ Len(<<>>) = 0
  BY <1>1, ConcatProperties, ConcatEmptySeq, EmptySeq
<1> DEFINE shown == [row |-> P \o b, col |-> Len(P) + Len(b)]
<1>4. Typed(NewRow, P \o b) = shown
  BY <1>3, TypedOnNewRow
<1>5. Redraw(b, c) = IF c < Len(b) THEN Back(shown, Len(b) - c) ELSE shown
  BY <1>2, <1>4 DEF Redraw, P
<1>6. ScreenOf(<<>>, mode, b, c) = [row |-> P \o b, col |-> Len(P) + c]
  BY <1>1, <1>3 DEF ScreenOf, P
<1>7. CASE c < Len(b)
  <2>1. /\ Len(b) - c # 0 /\ ~(Len(b) - c > Len(P) + Len(b))
        /\ (Len(P) + Len(b)) - (Len(b) - c) = Len(P) + c
    BY <1>1, <1>7
  <2> DEFINE n == Len(b) - c
             end == Len(P) + Len(b)
             row == P \o b
  <2> HIDE DEF n, end, row
  <2>3. Back([row |-> row, col |-> end], n) = [row |-> row, col |-> end - n]
    BY <2>1 DEF Back, n, end
  <2>2. Back(shown, Len(b) - c) = [row |-> P \o b, col |-> Len(P) + c]
    BY <2>1, <2>3 DEF n, end, row
  <2> QED
    BY <1>5, <1>6, <1>7, <2>2
<1>8. CASE ~(c < Len(b))
  <2>1. c = Len(b)
    BY <1>1, <1>8
  <2> QED
    BY <1>5, <1>6, <1>8, <2>1
<1> QED
  BY <1>7, <1>8

LEMMA EditedScreen ==
  ASSUME TypeOK, mode # "halted", ScreenInv, Edited PROVE ScreenInv'
<1>1. PICK pre \in Blanks : screen = ScreenOf(pre, mode, buf, cursor)
  BY DEF ScreenInv
<1> DEFINE P == PromptOf(mode)
           r == (pre \o P) \o buf
           k == Len(pre) + Len(P) + cursor
<1>2. screen = [row |-> r, col |-> k]
  BY <1>1 DEF ScreenOf
<1>3. /\ P \in Seq(Cell) /\ Len(P) \in Nat /\ pre \in Seq(Cell)
      /\ Len(pre) \in Nat /\ buf \in Seq(Cell) /\ Len(buf) \in Nat
      /\ buf \in Line /\ cursor \in 0 .. Len(buf) /\ <<>> \in Blanks
  BY Cells DEF TypeOK, Blanks
<1>4. LineTypeOK'
  BY EditedTyped
<1>5. ASSUME screen' = Redraw(buf', cursor'), mode' = mode PROVE ScreenInv'
  <2>1. buf' \in Line /\ cursor' \in 0 .. Len(buf')
    BY <1>4 DEF LineTypeOK
  <2>2. screen' = ScreenOf(<<>>, mode, buf', cursor')
    BY <1>2, <1>5, <2>1, RedrawIs
  <2> QED
    BY <1>3, <1>5, <2>2 DEF ScreenInv, ScreenOf, PromptOf
<1>6. ASSUME buf' = buf, mode' = mode,
             screen' = [row |-> r, col |-> Len(pre) + Len(P) + cursor']
      PROVE  ScreenInv'
  BY <1>6 DEF ScreenInv, ScreenOf, PromptOf
<1>7. CASE Inserted
  <2>1. PICK b \in Printable : Insert(b)
    BY <1>7 DEF Inserted
  <2>2. /\ buf' = WithInserted(buf, cursor, b) /\ cursor' = cursor + 1
        /\ screen' = IF cursor' = Len(buf') THEN Typed(screen, <<b>>)
                                            ELSE Redraw(buf', cursor')
        /\ mode' = mode
    BY <2>1 DEF Insert, Edit, SameCall, WithInserted
  <2>3. CASE cursor' = Len(buf')
    <3>1. cursor = Len(buf) /\ buf' = buf \o <<b>>
      <4>1. Len(buf') = Len(buf) + 1
        BY <1>3, <2>2, CutInserted DEF Line
      <4>2. cursor = Len(buf)
        BY <1>3, <2>2, <2>3, <4>1
      <4>3. Before(buf, cursor) = buf /\ From(buf, cursor) = <<>>
        BY <1>3, <4>2, CutAtEnd
      <4>4. <<b>> \in Seq(Cell)
        BY Single DEF Cell
      <4>5. (buf \o <<b>>) \o <<>> = buf \o <<b>>
        BY <1>3, <4>4, ConcatProperties, ConcatEmptySeq
      <4> QED
        BY <2>2, <4>2, <4>3, <4>5 DEF WithInserted
    <3> DEFINE h == <<b>>
    <3>2. h \in Seq(Cell) /\ Len(h) = 1
      BY Single DEF Cell
    <3> HIDE DEF h, P
    <3>3. /\ r \in Seq(Cell) /\ Len(r) = Len(pre) + Len(P) + Len(buf)
          /\ r \o h = (pre \o P) \o (buf \o h)
      <4>1. pre \o P \in Seq(Cell) /\ Len(pre \o P) = Len(pre) + Len(P)
        BY <1>3, ConcatProperties
      <4> DEFINE l == pre \o P
      <4> HIDE DEF l
      <4>2. l \o buf \in Seq(Cell) /\ Len(l \o buf) = Len(l) + Len(buf)
        BY <1>3, <4>1, ConcatProperties DEF l
      <4>3. (l \o buf) \o h = l \o (buf \o h)
        BY <1>3, <3>2, <4>1, ConcatAssociative DEF l
      <4> QED
        BY <4>1, <4>2, <4>3 DEF l
    <3>4. Typed([row |-> r, col |-> Len(r)], h)
            = [row |-> r \o h, col |-> Len(r) + Len(h)]
      BY <3>2, <3>3, TypedAtEnd
    <3>5. screen' = [row |-> r \o h, col |-> Len(r) + Len(h)]
      BY <1>2, <2>2, <2>3, <3>1, <3>3, <3>4 DEF h
    <3>6. Len(r) + Len(h) = Len(pre) + Len(P) + cursor'
      BY <1>3, <2>2, <3>1, <3>2, <3>3
    <3>7. screen' = [row |-> (pre \o P) \o buf',
                     col |-> Len(pre) + Len(P) + cursor']
      BY <3>1, <3>3, <3>5, <3>6 DEF h
    <3> QED
      BY <2>2, <3>7 DEF ScreenInv, ScreenOf, PromptOf, P
  <2>4. CASE cursor' # Len(buf')
    BY <1>5, <2>2, <2>4
  <2> QED
    BY <2>3, <2>4
<1>8. CASE Erased
  BY <1>5, <1>8 DEF Erased, SameCall
<1>9. ASSUME NEW b, Show(b), mode' = mode PROVE ScreenInv'
  <2>1. screen' = Redraw(buf', cursor')
    BY <1>9 DEF Show, Edit
  <2> QED
    BY <1>5, <1>9, <2>1
<1>10. CASE ShownOlder \/ ShownNewer
  BY <1>9, <1>10 DEF ShownOlder, ShownNewer, SameCall
<1>11. CASE MovedRight
  <2>1. /\ buf' = buf /\ cursor' = cursor + 1 /\ mode' = mode
        /\ screen' = [row |-> r, col |-> k + 1]
    BY <1>2, <1>11 DEF MovedRight, Edit, SameCall, Forward
  <2>2. k + 1 = Len(pre) + Len(P) + cursor'
    BY <1>3, <2>1
  <2> QED
    BY <1>6, <2>1, <2>2
<1>12. CASE MovedLeft
  <2>1. cursor > 0 /\ k \in Nat /\ ~(1 > k)
    BY <1>3, <1>12 DEF MovedLeft
  <2>2. /\ buf' = buf /\ cursor' = cursor - 1 /\ mode' = mode
        /\ screen' = [row |-> r, col |-> k - 1]
    BY <1>2, <1>12, <2>1 DEF MovedLeft, Edit, SameCall, Back
  <2>3. k - 1 = Len(pre) + Len(P) + cursor'
    BY <1>3, <2>2
  <2> QED
    BY <1>6, <2>2, <2>3
<1>13. CASE Entered
  <2>1. PICK m, h : m \in {"shell", "write", "halted"} /\ Fresh(m, h)
    BY <1>13 DEF Entered
  <2>2. SUFFICES ASSUME m # "halted" PROVE ScreenInv'
    BY <2>1 DEF Fresh, ScreenInv
  <2>3. /\ buf' = <<>> /\ cursor' = 0 /\ mode' = m
        /\ screen' = Typed(NewRow, IF m = "write" THEN <<" ", " ">>
                                                  ELSE Prompt)
    BY <2>1, <2>2 DEF Fresh, Edit
  <2>4. CASE m = "write"
    <3> DEFINE two == <<" ", " ">>
    <3>1. two \in Seq(Cell) /\ Len(two) = 2 /\ two \in Blanks
      <4>1. two \in Blanks /\ Len(two) = 2
        BY DEF Blanks
      <4> QED
        BY <4>1, Cells
    <3>2. PromptOf(m) = <<>> /\ Len(<<>>) = 0
      BY <2>4 DEF PromptOf
    <3> HIDE DEF two
    <3>3. (two \o <<>>) \o <<>> = two
      BY <3>1, ConcatEmptySeq
    <3>4. screen' = [row |-> two, col |-> 2]
      BY <2>3, <2>4, <3>1, TypedOnNewRow DEF two
    <3>5. screen' = ScreenOf(two, m, <<>>, 0)
      BY <3>1, <3>2, <3>3, <3>4 DEF ScreenOf
    <3> QED
      BY <2>3, <3>1, <3>5 DEF ScreenInv, ScreenOf, PromptOf
  <2>5. CASE m = "shell"
    <3>1. PromptOf(m) = Prompt /\ Len(<<>>) = 0
      BY <2>5 DEF PromptOf
    <3>2. Prompt \in Seq(Cell) /\ Len(Prompt) \in Nat
      BY <3>1, Cells
    <3>3. (<<>> \o Prompt) \o <<>> = Prompt
      BY <3>2, ConcatEmptySeq
    <3>4. screen' = [row |-> Prompt, col |-> Len(Prompt)]
      BY <2>3, <2>5, <3>2, TypedOnNewRow
    <3>5. screen' = ScreenOf(<<>>, m, <<>>, 0)
      BY <3>1, <3>2, <3>3, <3>4 DEF ScreenOf
    <3> QED
      BY <1>3, <2>3, <3>5 DEF ScreenInv, ScreenOf, PromptOf
  <2> QED
    BY <2>1, <2>2, <2>4, <2>5
<1>14. CASE Kept
  BY <1>1, <1>14 DEF Kept, KeepLine, SameCall, ScreenInv, ScreenOf, PromptOf
<1> QED
  BY <1>7, <1>8, <1>10, <1>11, <1>12, <1>13, <1>14 DEF Edited

LEMMA NextScreen == ASSUME TypeOK, ScreenInv, [Next]_vars PROVE ScreenInv'
<1>1. CASE Sysread
  BY <1>1, SysreadEdits, EditedScreen DEF Sysread
<1>2. ASSUME NEW k, Press(k) PROVE ScreenInv'
  BY <1>2 DEF Press, ScreenInv, ScreenOf, PromptOf
<1>3. CASE UNCHANGED vars
  BY <1>3 DEF vars, ScreenInv, ScreenOf, PromptOf
<1> QED
  BY <1>1, <1>2, <1>3 DEF Next

LEMMA InitScreen == Init => ScreenInv
<1>1. Prompt \in Seq(Cell) /\ Len(Prompt) \in Nat
  <2>1. PromptOf("shell") = Prompt
    BY DEF PromptOf
  <2> QED
    BY <2>1, Cells
<1>2. (<<>> \o Prompt) \o <<>> = Prompt /\ Len(<<>>) = 0
  BY <1>1, ConcatEmptySeq
<1>3. Typed(NewRow, Prompt) = [row |-> Prompt, col |-> Len(Prompt)]
  BY <1>1, TypedOnNewRow
<1>4. ScreenOf(<<>>, "shell", <<>>, 0) = [row |-> Prompt, col |-> Len(Prompt)]
  BY <1>1, <1>2 DEF ScreenOf, PromptOf
<1>5. <<>> \in Blanks
  BY DEF Blanks
<1> QED
  BY <1>3, <1>4, <1>5 DEF Init, ScreenInv

LEMMA ScreenInvShows == ASSUME TypeOK, ScreenInv PROVE ScreenShowsLine
<1> SUFFICES ASSUME mode # "halted" PROVE ScreenShowsLine
  BY DEF ScreenShowsLine
<1>1. PICK pre \in Blanks : screen = ScreenOf(pre, mode, buf, cursor)
  BY DEF ScreenInv
<1> DEFINE P == PromptOf(mode)
           l == pre \o P
           r == l \o buf
           shown == Len(r) - Len(buf)
<1>2. screen.row = r /\ screen.col = Len(pre) + Len(P) + cursor
  BY <1>1 DEF ScreenOf
<1>3. /\ P \in Seq(Cell) /\ Len(P) \in Nat /\ pre \in Seq(Cell)
      /\ Len(pre) \in Nat /\ buf \in Seq(Cell) /\ Len(buf) \in Nat
      /\ cursor \in Nat
  BY Cells DEF TypeOK
<1> HIDE DEF P
<1>4. /\ l \in Seq(Cell) /\ Len(l) = Len(pre) + Len(P)
      /\ From(l, Len(pre)) = P
  BY <1>3, CutConcat
<1> HIDE DEF l
<1>5. /\ Len(r) = Len(l) + Len(buf) /\ r \in Seq(Cell)
      /\ Before(r, Len(l)) = l /\ From(r, Len(l)) = buf
  <2>1. buf \in Seq(Cell) /\ l \in Seq(Cell)
    BY <1>3, <1>4
  <2> QED
    BY ONLY <2>1, CutConcat
<1>6. shown = Len(l) /\ shown - Len(P) = Len(pre)
  BY <1>3, <1>4, <1>5
<1>7. SubSeq(r, shown + 1, Len(r)) = buf
  BY <1>5, <1>6 DEF From
<1>8. SubSeq(r, shown - Len(P) + 1, shown) = P
  <2>1. SubSeq(l, Len(pre) + 1, Len(l)) = P
    BY <1>4 DEF From
  <2>2. SubSeq(r, Len(pre) + 1, Len(l)) = SubSeq(l, Len(pre) + 1, Len(l))
    <3>1. CASE Len(pre) < Len(l)
      <4>1. Len(pre) + 1 \in 1 .. Len(l) /\ Len(l) \in 1 .. Len(l)
        BY <1>3, <1>4, <3>1
      <4> QED
        BY <1>3, <1>4, <4>1, SubSeqOfConcat1
    <3>2. CASE ~(Len(pre) < Len(l))
      <4>1. /\ Len(pre) + 1 \in Int /\ Len(l) \in Int
            /\ Len(l) < Len(pre) + 1
        BY <1>3, <1>4, <3>2
      <4> QED
        BY <4>1, SubSeqEmpty
    <3> QED
      BY <3>1, <3>2
  <2> QED
    BY <1>6, <2>1, <2>2
<1>9. shown >= Len(P) /\ screen.col = shown + cursor
  BY <1>2, <1>3, <1>4, <1>6
<1> HIDE DEF r
<1> QED
  BY <1>2, <1>7, <1>8, <1>9 DEF ScreenShowsLine, P

\* While a key is awaited the row ends with the line that Enter will return,
\* after the prompt, and the terminal's cursor is where read_line's is,
\* whatever was echoed, moved and redrawn (read_line, redraw).
THEOREM ScreenAlwaysShowsLine == Spec => []ScreenShowsLine
<1>1. TypeOK /\ ScreenInv => ScreenShowsLine
  BY ScreenInvShows
<1>2. TypeOK /\ ScreenInv /\ [Next]_vars => ScreenInv'
  BY NextScreen
<1> QED
  BY <1>1, <1>2, InitScreen, ShellTypeCorrect, PTL DEF Spec

-----------------------------------------------------------------------------
(* The line editor that read_line implements. *)

LEMMA EditedIsKey ==
  ASSUME TypeOK, mode # "halted", Edited PROVE [Editor!Next]_(Editor!vars)
<1> DEFINE l == Before(buf, cursor)
           r == From(buf, cursor)
<1>1. /\ buf \in Seq(Printable) /\ cursor \in 0 .. Len(buf)
      /\ Len(buf) \in Nat /\ Len(history) \in Nat
      /\ history \in Seq(Line) /\ history_index \in 0 .. Len(history)
  BY LenProperties DEF TypeOK, Line
<1>2. l = SubSeq(buf, 1, cursor) /\ r = SubSeq(buf, cursor + 1, Len(buf))
  BY DEF Before, From
<1>3. /\ Before(buf', cursor') = SubSeq(buf', 1, cursor')
      /\ From(buf', cursor') = SubSeq(buf', cursor' + 1, Len(buf'))
  BY DEF Before, From
<1>4. l \o r = buf
  BY <1>1, Cut
<1>5. CASE Inserted
  <2>1. PICK b \in Printable : Insert(b)
    BY <1>5 DEF Inserted
  <2>2. /\ buf' = WithInserted(buf, cursor, b) /\ cursor' = cursor + 1
        /\ UNCHANGED <<saved_input, history_index, history, mode>>
    BY <2>1 DEF Insert, Edit, SameCall, WithInserted
  <2>3. Before(buf', cursor') = Append(l, b) /\ From(buf', cursor') = r
    <3>1. /\ buf \in Seq(Printable) /\ cursor \in 0 .. Len(buf)
          /\ b \in Printable /\ buf' = WithInserted(buf, cursor, b)
          /\ cursor' = cursor + 1
      BY <1>1, <2>2
    <3> QED
      BY ONLY <3>1, CutInserted
  <2> HIDE DEF l, r
  <2>4. Editor!Insert
    BY <1>2, <1>3, <2>2, <2>3 DEF Editor!Insert
  <2> QED
    BY <2>4 DEF Editor!Next
<1>6. CASE Erased
  <2>1. /\ buf' = EraseBefore(buf, cursor) /\ cursor' = cursor - 1
        /\ cursor \in 1 .. Len(buf)
        /\ UNCHANGED <<saved_input, history_index, history, mode>>
    BY <1>1, <1>6 DEF Erased, Edit, SameCall
  <2>2. Before(buf', cursor') = Front(l) /\ From(buf', cursor') = r /\ l # <<>>
    BY <1>1, <2>1, CutErased, CutLeftwards
  <2> HIDE DEF l, r
  <2>3. Editor!Erase
    BY <1>2, <1>3, <2>1, <2>2 DEF Editor!Erase, Editor!Front, Front
  <2> QED
    BY <2>3 DEF Editor!Next
<1>7. CASE MovedLeft
  <2>1. /\ buf' = buf /\ cursor' = cursor - 1
        /\ cursor \in 1 .. Len(buf)
        /\ UNCHANGED <<saved_input, history_index, history, mode>>
    BY <1>1, <1>7 DEF MovedLeft, Edit, SameCall
  <2>2. /\ Before(buf', cursor') = Front(l) /\ l # <<>>
        /\ From(buf', cursor') = <<Last(l)>> \o r
    BY <1>1, <2>1, CutLeftwards
  <2> HIDE DEF l, r
  <2>3. Editor!Leftwards
    BY <1>2, <1>3, <2>1, <2>2
    DEF Editor!Leftwards, Editor!Front, Editor!Last, Front, Last
  <2> QED
    BY <2>3 DEF Editor!Next
<1>8. CASE MovedRight
  <2>1. /\ buf' = buf /\ cursor' = cursor + 1
        /\ cursor \in 0 .. Len(buf) - 1
        /\ UNCHANGED <<saved_input, history_index, history, mode>>
    BY <1>1, <1>8 DEF MovedRight, Edit, SameCall
  <2>2. /\ Before(buf', cursor') = Append(l, Head(r)) /\ r # <<>>
        /\ From(buf', cursor') = Tail(r)
    BY <1>1, <2>1, CutRightwards
  <2> HIDE DEF l, r
  <2>3. Editor!Rightwards
    BY <1>2, <1>3, <2>1, <2>2 DEF Editor!Rightwards
  <2> QED
    BY <2>3 DEF Editor!Next
<1>9. ASSUME NEW b \in Line, Show(b)
      PROVE  Before(buf', cursor') = b /\ From(buf', cursor') = <<>>
  <2>1. buf' = b /\ cursor' = Len(b)
    BY <1>9 DEF Show, Edit
  <2> QED
    BY <2>1, CutAtEnd DEF Line
<1>10. CASE ShownOlder
  <2> DEFINE line == history[history_index]
  <2>1. /\ history_index > 0 /\ saved_input' = Saved
        /\ history_index' = history_index - 1 /\ Show(line)
        /\ UNCHANGED <<history, mode>>
    BY <1>10 DEF ShownOlder, SameCall
  <2>2. line \in Line
    BY <1>1, <2>1, ElementOfSeq
  <2>3. Before(buf', cursor') = line /\ From(buf', cursor') = <<>>
    BY <1>9, <2>1, <2>2
  <2>4. Saved = IF history_index + 1 = Len(history) + 1 THEN l \o r
                                                       ELSE saved_input
    BY <1>1, <1>4 DEF Saved
  <2>5. /\ history_index + 1 > 1
        /\ history_index' + 1 = (history_index + 1) - 1
        /\ history[(history_index + 1) - 1] = line
    BY <1>1, <2>1
  <2> HIDE DEF l, r, line
  <2>6. Editor!Older
    BY <1>2, <1>3, <2>1, <2>3, <2>4, <2>5
    DEF Editor!Older, Editor!Show, Editor!AtDraft
  <2> QED
    BY <2>6 DEF Editor!Next
<1>11. CASE ShownNewer
  <2> DEFINE line == IF history_index + 1 = Len(history) THEN saved_input
                     ELSE history[history_index + 1 + 1]
  <2>1. /\ history_index < Len(history)
        /\ history_index' = history_index + 1 /\ Show(line)
        /\ UNCHANGED <<saved_input, history, mode>>
    BY <1>11 DEF ShownNewer, SameCall
  <2>2. line \in Line
    <3>1. CASE history_index + 1 = Len(history)
      BY <3>1 DEF TypeOK
    <3>2. CASE history_index + 1 # Len(history)
      <4>1. history_index + 1 + 1 \in 1 .. Len(history)
        BY <1>1, <2>1, <3>2
      <4> QED
        BY <1>1, <3>2, <4>1, ElementOfSeq
    <3> QED
      BY <3>1, <3>2
  <2>3. Before(buf', cursor') = line /\ From(buf', cursor') = <<>>
    BY <1>9, <2>1, <2>2
  <2>4. /\ history_index + 1 # Len(history) + 1
        /\ line = IF history_index + 1 = Len(history) THEN saved_input
                  ELSE history[history_index + 1 + 1]
        /\ history_index' + 1 = (history_index + 1) + 1
    BY <1>1, <2>1
  <2> HIDE DEF l, r, line
  <2>5. Editor!Newer
    BY <1>2, <1>3, <2>1, <2>3, <2>4
    DEF Editor!Newer, Editor!Show, Editor!AtDraft
  <2> QED
    BY <2>5 DEF Editor!Next
<1>12. CASE Entered
  <2>1. PICK m, h : /\ h \in {history, Append(history, buf)} /\ Fresh(m, h)
                    /\ h # history => buf # <<>>
    BY <1>12 DEF Entered
  <2>2. /\ buf' = <<>> /\ cursor' = 0 /\ saved_input' = <<>> /\ history' = h
        /\ history_index' = Len(h)
    BY <2>1 DEF Fresh, Edit
  <2>3. Before(buf', cursor') = <<>> /\ From(buf', cursor') = <<>>
    <3>1. <<>> \in Seq(Printable) /\ Len(<<>>) = 0
      BY EmptySeq
    <3> QED
      BY <2>2, <3>1, CutAtEnd
  <2>4. history' \in {history, Append(history, l \o r)}
    BY <1>4, <2>1, <2>2
  <2>5. history' # history => l \o r # <<>>
    BY <1>4, <2>1, <2>2
  <2> HIDE DEF l, r
  <2>6. Editor!Done
    BY <1>2, <1>3, <2>2, <2>3, <2>4, <2>5 DEF Editor!Done, Editor!Show
  <2> QED
    BY <2>6 DEF Editor!Next
<1>13. CASE Kept
  BY <1>13 DEF Kept, KeepLine, SameCall, Editor!vars
<1> QED
  BY <1>5, <1>6, <1>7, <1>8, <1>10, <1>11, <1>12, <1>13 DEF Edited

LEMMA NextIsKey == ASSUME TypeOK, [Next]_vars PROVE [Editor!Next]_(Editor!vars)
<1>1. CASE Sysread
  BY <1>1, SysreadEdits, EditedIsKey DEF Sysread
<1>2. ASSUME NEW k, Press(k) PROVE UNCHANGED Editor!vars
  BY <1>2 DEF Press, Editor!vars
<1>3. CASE UNCHANGED vars
  BY <1>3 DEF vars, Editor!vars
<1> QED
  BY <1>1, <1>2, <1>3 DEF Next

\* read_line is a line editor: each byte does to the buffer, the cursor, the
\* history and the saved input what EditLine has one key do, or nothing.
THEOREM ImplementsEditLine == Spec => EditorSpec
<1>1. Init => Editor!Init
  <2>1. Before(<<>>, 0) = <<>> /\ From(<<>>, 0) = <<>> /\ Len(<<>>) = 0
    <3>1. <<>> \in Seq(Printable) /\ Len(<<>>) = 0
      BY EmptySeq
    <3> QED
      BY <3>1, CutAtEnd
  <2> QED
    BY <2>1 DEF Init, Editor!Init, Before, From
<1>2. TypeOK /\ [Next]_vars => [Editor!Next]_(Editor!vars)
  BY NextIsKey
<1> QED
  BY <1>1, <1>2, ShellTypeCorrect, PTL DEF Spec, EditorSpec, Editor!Spec

-----------------------------------------------------------------------------
(* Keys and their bytes. *)

\* Where read_line waits for the i-th byte of a key that found it waiting for
\* the first byte of one: it does not know an ESC O sequence.
PcAt(k, i) ==
  CASE i = 1 -> "char" [] i = 2 -> "esc"
    [] i = 3 -> IF k = "F1" THEN "char" ELSE "csi"
    [] i = 4 -> "skip"

InStep(k, i) ==
  /\ sending = SubSeq(BytesOf(k), i, Len(BytesOf(k)))
  /\ pc = PcAt(k, i)

DecoderInv ==
  /\ key = "none" => sending = <<>>
  /\ synced /\ key # "none" =>
       \E i \in 1 .. Len(BytesOf(key)) : InStep(key, i)

LEMMA Arrows ==
  /\ DOMAIN Arrow = {"Up", "Down", "Right", "Left"}
  /\ Range(Arrow) = {"A", "B", "C", "D"}
<1>1. DOMAIN Arrow = {"Up", "Down", "Right", "Left"}
  BY DEF Arrow
<1>2. /\ Arrow["Up"] = "A" /\ Arrow["Down"] = "B"
      /\ Arrow["Right"] = "C" /\ Arrow["Left"] = "D"
  BY DEF Arrow
<1>3. Range(Arrow) = {Arrow[k] : k \in {"Up", "Down", "Right", "Left"}}
  BY <1>1 DEF Range
<1> QED
  BY <1>1, <1>2, <1>3

LEMMA KeyBytes ==
  ASSUME NEW k \in Text \cup OtherKey
  PROVE  \/ k = "Up" /\ BytesOf(k) = <<"ESC", "[", "A">>
         \/ k = "Down" /\ BytesOf(k) = <<"ESC", "[", "B">>
         \/ k = "Right" /\ BytesOf(k) = <<"ESC", "[", "C">>
         \/ k = "Left" /\ BytesOf(k) = <<"ESC", "[", "D">>
         \/ k = "Delete" /\ BytesOf(k) = <<"ESC", "[", "3", "~">>
         \/ k = "Home" /\ BytesOf(k) = <<"ESC", "[", "H">>
         \/ k = "F1" /\ BytesOf(k) = <<"ESC", "O", "P">>
         \/ k = "Escape" /\ BytesOf(k) = <<"ESC">>
         \/ k \in Text \cup Control /\ BytesOf(k) = <<k>>
<1>1. k \in Text \cup SpecialKey /\ (k \in Text => k \notin SpecialKey)
  BY KeysAssumption
<1>2. CASE k \in {"Up", "Down", "Right", "Left"}
  <2>1. BytesOf(k) = <<"ESC", "[", Arrow[k]>>
    BY <1>2, Arrows DEF BytesOf
  <2> QED
    BY <1>2, <2>1 DEF Arrow
<1>3. CASE k \in {"Delete", "Home", "F1", "Escape"}
  <2>1. k \notin DOMAIN Arrow
    BY <1>3, Arrows
  <2> QED
    BY <1>3, <2>1 DEF BytesOf
<1>4. CASE k \in Text \cup Control
  <2>1. k \notin DOMAIN Arrow \cup {"Delete", "Home", "F1", "Escape"}
    BY <1>1, <1>4, Arrows DEF Control, SpecialKey
  <2>2. BytesOf(k) = <<k>>
    BY <2>1 DEF BytesOf
  <2> QED
    BY <1>4, <2>2
<1> QED
  BY <1>1, <1>2, <1>3, <1>4, Arrows DEF SpecialKey

LEMMA KeyBytesSeq ==
  ASSUME NEW k \in Text \cup OtherKey
  PROVE  /\ \E S : BytesOf(k) \in Seq(S)
         /\ Len(BytesOf(k)) \in Nat \ {0}
<1>1. ASSUME NEW S, NEW a \in S, NEW b \in S, NEW c \in S, NEW d \in S
      PROVE  /\ <<a>> \in Seq(S) /\ <<a, b, c>> \in Seq(S)
             /\ <<a, b, c, d>> \in Seq(S)
  OBVIOUS
<1>2. PICK a, b, c, d :
        BytesOf(k) \in {<<a>>, <<a, b, c>>, <<a, b, c, d>>}
  BY KeyBytes
<1>3. BytesOf(k) \in Seq({a, b, c, d})
  BY <1>1, <1>2
<1>4. Len(BytesOf(k)) \in {1, 3, 4}
  BY <1>2
<1> QED
  BY <1>3, <1>4

\* Where a byte takes read_line.
LEMMA SysreadByte ==
  ASSUME Sysread
  PROVE  \E b :
           /\ sending # <<>> /\ b = Head(sending) /\ sending' = Tail(sending)
           /\ IF sending' = <<>> THEN key' = "none" /\ synced' = TRUE
                                 ELSE key' = key /\ synced' = synced
           /\ pc = "char" => pc' = IF b = "ESC" THEN "esc" ELSE "char"
           /\ pc = "esc" => pc' = IF b = "[" THEN "csi" ELSE "char"
           /\ pc = "csi" => pc' = IF b \in Range(Arrow) \/ b \notin Parameter
                                  THEN "char" ELSE "skip"
           /\ pc = "skip" => pc' = IF b \notin Parameter
                                   THEN "char" ELSE "skip"
<1>1. PICK b : FirstByte(b) \/ SecondByte(b) \/ FinalByte(b) \/ UnknownByte(b)
  BY DEF Sysread
<1>2. /\ sending # <<>> /\ b = Head(sending) /\ sending' = Tail(sending)
      /\ IF sending' = <<>> THEN key' = "none" /\ synced' = TRUE
                            ELSE key' = key /\ synced' = synced
  BY <1>1 DEF FirstByte, SecondByte, FinalByte, UnknownByte, Read
<1>3. CASE FirstByte(b)
  <2>1. pc = "char"
    BY <1>3 DEF FirstByte, Read
  <2>2. b \in Printable \cup Control => b # "ESC"
    BY KeysAssumption DEF Printable, Parameter, Control
  <2>3. pc' = IF b = "ESC" THEN "esc" ELSE "char"
    BY <1>3, <2>2
    DEF FirstByte, Enter, StartSequence, Backspace, Interrupt, EndOfFile,
        Insert, Ignore, Control
  <2> QED
    BY <1>2, <2>1, <2>3
<1>4. CASE SecondByte(b)
  BY <1>2, <1>4 DEF SecondByte, Read
<1>5. CASE FinalByte(b)
  BY <1>2, <1>5 DEF FinalByte, Read
<1>6. CASE UnknownByte(b)
  BY <1>2, <1>6 DEF UnknownByte, Read, EndsSequence
<1> QED
  BY <1>1, <1>3, <1>4, <1>5, <1>6

\* The i-th byte of a key read in step: the next one is, too, or the key ends.
LEMMA ByteInStep ==
  ASSUME TypeOK, key # "none", NEW i \in 1 .. Len(BytesOf(key)),
         InStep(key, i), Sysread
  PROVE  /\ Head(sending) = BytesOf(key)[i]
         /\ i < Len(BytesOf(key)) =>
              /\ sending' = SubSeq(BytesOf(key), i + 1, Len(BytesOf(key)))
              /\ sending' # <<>> /\ pc' = PcAt(key, i + 1)
         /\ i = Len(BytesOf(key)) =>
              /\ sending' = <<>>
              /\ key # "Escape" => pc' = "char"
<1> DEFINE B == BytesOf(key)
           n == Len(B)
<1>1. key \in Text \cup OtherKey
  BY DEF TypeOK
<1>2. PICK S : B \in Seq(S)
  BY <1>1, KeyBytesSeq
<1> HIDE DEF B
<1>3. n \in Nat /\ i \in 1 .. n /\ n \in i .. n /\ sending = SubSeq(B, i, n)
  BY <1>2, LenProperties DEF InStep, B
<1>4. Head(sending) = B[i] /\ Tail(sending) = SubSeq(B, i + 1, n)
  BY <1>2, <1>3, HeadTailOfSubSeq
<1>5. sending' = SubSeq(B, i + 1, n)
  BY <1>4, SysreadByte
<1>6. ASSUME i < n PROVE sending' # <<>>
  <2>1. i + 1 \in Int /\ n \in Int /\ \A j \in i + 1 .. n : B[j] \in S
    BY <1>2, <1>3, ElementOfSeq
  <2>2. Len(sending') = IF i + 1 <= n THEN n - (i + 1) + 1 ELSE 0
    BY <1>5, <2>1, SubSeqProperties
  <2>3. Len(sending') # 0
    BY <1>3, <1>6, <2>2
  <2> QED
    BY <2>3, EmptySeq
<1>7. ASSUME i = n PROVE sending' = <<>>
  <2>1. i + 1 \in Int /\ n \in Int /\ n < i + 1
    BY <1>3, <1>7
  <2> QED
    BY <1>5, <2>1, SubSeqEmpty
<1>8. /\ i < n => pc' = PcAt(key, i + 1)
      /\ i = n /\ key # "Escape" => pc' = "char"
  <2>1. PICK b :
          /\ b = B[i]
          /\ pc = "char" => pc' = IF b = "ESC" THEN "esc" ELSE "char"
          /\ pc = "esc" => pc' = IF b = "[" THEN "csi" ELSE "char"
          /\ pc = "csi" => pc' = IF b \in Range(Arrow) \/ b \notin Parameter
                                 THEN "char" ELSE "skip"
          /\ pc = "skip" => pc' = IF b \notin Parameter THEN "char" ELSE "skip"
    BY <1>4, SysreadByte
  <2>2. pc = PcAt(key, i)
    BY DEF InStep
  <2>3. \/ key \in {"Up", "Down", "Right", "Left", "Home"}
           /\ n = 3 /\ B[1] = "ESC" /\ B[2] = "["
           /\ B[3] \in {"A", "B", "C", "D", "H"}
        \/ key = "Delete" /\ n = 4 /\ B[1] = "ESC" /\ B[2] = "[" /\ B[3] = "3"
           /\ B[4] = "~"
        \/ key = "F1" /\ n = 3 /\ B[1] = "ESC" /\ B[2] = "O" /\ B[3] = "P"
        \/ key = "Escape" /\ n = 1
        \/ n = 1 /\ B[1] # "ESC"
    <3>1. key \in Text \cup Control => key # "ESC"
      BY KeysAssumption DEF Control
    <3> QED
      BY <1>1, <3>1, KeyBytes DEF B
  <2>4. i \in {1, 2, 3, 4}
    BY <1>3, <2>3
  <2>5. Range(Arrow) = {"A", "B", "C", "D"} /\ Parameter = {".", "3"}
    BY Arrows DEF Parameter
  <2> HIDE DEF n
  <2>6. CASE key \in {"Up", "Down", "Right", "Left", "Home"}
             /\ n = 3 /\ B[1] = "ESC" /\ B[2] = "["
             /\ B[3] \in {"A", "B", "C", "D", "H"}
    BY <1>3, <2>1, <2>2, <2>4, <2>5, <2>6 DEF PcAt
  <2>7. CASE key = "Delete" /\ n = 4 /\ B[1] = "ESC" /\ B[2] = "["
             /\ B[3] = "3" /\ B[4] = "~"
    BY <1>3, <2>1, <2>2, <2>4, <2>5, <2>7 DEF PcAt
  <2>8. CASE key = "F1" /\ n = 3 /\ B[1] = "ESC" /\ B[2] = "O" /\ B[3] = "P"
    BY <1>3, <2>1, <2>2, <2>4, <2>5, <2>8 DEF PcAt
  <2>9. CASE n = 1 /\ (key = "Escape" \/ B[1] # "ESC")
    BY <1>3, <2>1, <2>2, <2>4, <2>5, <2>9 DEF PcAt
  <2> QED
    BY <2>3, <2>6, <2>7, <2>8, <2>9
<1> QED
  BY <1>3, <1>4, <1>5, <1>6, <1>7, <1>8 DEF B

LEMMA NextDecoder == ASSUME TypeOK, DecoderInv, [Next]_vars PROVE DecoderInv'
<1>1. CASE Sysread
  <2>1. IF sending' = <<>> THEN key' = "none" /\ synced' = TRUE
                           ELSE key' = key /\ synced' = synced
    BY <1>1, SysreadByte
  <2>2. CASE sending' = <<>>
    BY <2>1, <2>2 DEF DecoderInv
  <2>3. CASE sending' # <<>>
    <3>1. key' = key /\ synced' = synced /\ key # "none"
      <4>1. sending # <<>>
        BY <1>1, SysreadByte
      <4> QED
        BY <2>1, <2>3, <4>1 DEF DecoderInv
    <3>2. SUFFICES ASSUME synced PROVE DecoderInv'
      BY <3>1 DEF DecoderInv
    <3>3. PICK i \in 1 .. Len(BytesOf(key)) : InStep(key, i)
      BY <3>1, <3>2 DEF DecoderInv
    <3>4. /\ i < Len(BytesOf(key)) =>
               /\ sending' = SubSeq(BytesOf(key), i + 1, Len(BytesOf(key)))
               /\ pc' = PcAt(key, i + 1)
          /\ i = Len(BytesOf(key)) => sending' = <<>>
      BY <1>1, <3>1, <3>3, ByteInStep
    <3>5. Len(BytesOf(key)) \in Nat
      <4>1. key \in Text \cup OtherKey
        BY <3>1 DEF TypeOK
      <4> QED
        BY <4>1, KeyBytesSeq
    <3>6. i < Len(BytesOf(key)) /\ i + 1 \in 1 .. Len(BytesOf(key))
      BY <2>3, <3>4, <3>5
    <3>7. InStep(key, i + 1)'
      BY <3>1, <3>4, <3>6 DEF InStep, PcAt, BytesOf
    <3> QED
      BY <3>1, <3>6, <3>7 DEF DecoderInv, BytesOf
  <2> QED
    BY <2>2, <2>3
<1>2. ASSUME NEW k \in Text \cup OtherKey, Press(k) PROVE DecoderInv'
  <2>1. /\ key' = k /\ sending' = BytesOf(k) /\ synced' = (pc = "char")
        /\ pc' = pc
    BY <1>2 DEF Press
  <2>2. k # "none"
    BY KeysAssumption, Arrows DEF SpecialKey, Control
  <2>3. Len(BytesOf(k)) \in Nat \ {0}
    BY KeyBytesSeq
  <2>4. SubSeq(BytesOf(k), 1, Len(BytesOf(k))) = BytesOf(k)
    <3>1. PICK S : BytesOf(k) \in Seq(S)
      BY KeyBytesSeq
    <3> QED
      BY <3>1, SubSeqFull
  <2>5. SUFFICES ASSUME pc = "char" PROVE DecoderInv'
    BY <2>1, <2>2 DEF DecoderInv
  <2>6. InStep(k, 1)'
    BY <2>1, <2>4, <2>5 DEF InStep, PcAt, BytesOf
  <2>7. 1 \in 1 .. Len(BytesOf(k))
    BY <2>3
  <2> QED
    BY <2>1, <2>2, <2>6, <2>7 DEF DecoderInv, BytesOf
<1>3. CASE UNCHANGED vars
  BY <1>3 DEF vars, DecoderInv, InStep, PcAt, BytesOf
<1> QED
  BY <1>1, <1>2, <1>3 DEF Next

LEMMA AlwaysDecoder == Spec => []DecoderInv
<1>1. Init => DecoderInv
  BY DEF Init, DecoderInv
<1>2. TypeOK /\ DecoderInv /\ [Next]_vars => DecoderInv'
  BY NextDecoder
<1> QED
  BY <1>1, <1>2, ShellTypeCorrect, PTL DEF Spec

\* When the bytes of a key that came while a first byte was awaited have been
\* read, a first byte is awaited again, unless the key was ESC alone
\* (read_line's case on "\e").
THEOREM KeysAlwaysEndInStep == Spec => KeysEndInStep
<1> DEFINE Ends ==
             sending # <<>> /\ sending' = <<>> /\ synced /\ key # "Escape"
               => pc' = "char"
<1>1. ASSUME TypeOK, DecoderInv, [Next]_vars PROVE [Ends]_vars
  <2> SUFFICES ASSUME sending # <<>>, sending' = <<>>, synced, key # "Escape",
                      ~UNCHANGED vars
               PROVE  pc' = "char"
    OBVIOUS
  <2>1. Sysread
    <3>1. ASSUME NEW k \in Text \cup OtherKey, Press(k) PROVE FALSE
      BY <3>1 DEF Press
    <3> QED
      BY <1>1, <3>1 DEF Next
  <2>2. key # "none" /\ \E i \in 1 .. Len(BytesOf(key)) : InStep(key, i)
    BY <1>1 DEF DecoderInv
  <2>3. PICK i \in 1 .. Len(BytesOf(key)) : InStep(key, i)
    BY <2>2
  <2>4. Len(BytesOf(key)) \in Nat
    <3>1. key \in Text \cup OtherKey
      BY <1>1, <2>2 DEF TypeOK
    <3> QED
      BY <3>1, KeyBytesSeq
  <2>5. /\ i < Len(BytesOf(key)) => sending' # <<>>
        /\ i = Len(BytesOf(key)) => pc' = "char"
    BY <1>1, <2>1, <2>2, <2>3, ByteInStep
  <2> QED
    BY <2>4, <2>5
<1> QED
  BY <1>1, ShellTypeCorrect, AlwaysDecoder, PTL DEF Spec, KeysEndInStep

\* A byte that makes the line longer is a character or recalls another line.
LEMMA Grows ==
  ASSUME TypeOK, Sysread, Len(buf') > Len(buf)
  PROVE  \/ pc = "char" /\ Head(sending) \in Printable
         \/ pc = "csi" /\ Head(sending) \in {"A", "B"}
<1>1. Len(buf) \in Nat /\ Len(<<>>) = 0
  BY LenProperties DEF TypeOK, Line
<1>2. buf' # buf /\ buf' # <<>>
  BY <1>1
<1>3. mode \in {"shell", "write"}
  BY DEF TypeOK, Sysread
<1>4. PICK b : FirstByte(b) \/ SecondByte(b) \/ FinalByte(b) \/ UnknownByte(b)
  BY DEF Sysread
<1>5. CASE FirstByte(b)
  <2>1. pc = "char" /\ b = Head(sending)
    BY <1>5 DEF FirstByte, Read
  <2>2. CASE Enter(b) \/ Interrupt(b)
    <3>1. PICK line : Return(line)
      BY <2>2 DEF Enter, Interrupt
    <3>2. PICK m, h : Fresh(m, h)
      BY <1>3, <3>1, ReturnIs
    <3> QED
      BY <1>2, <3>2 DEF Fresh, Edit
  <2>3. CASE EndOfFile(b)
    BY <1>2, <2>3 DEF EndOfFile, Halt, Call, Edit
  <2>4. CASE StartSequence(b) \/ Ignore(b)
    BY <1>2, <2>4 DEF StartSequence, Ignore, KeepLine
  <2>5. CASE Backspace(b)
    <3>1. cursor > 0 /\ buf' = EraseBefore(buf, cursor)
      BY <1>2, <2>5 DEF Backspace, Edit
    <3>2. buf \in Seq(Printable) /\ cursor \in 1 .. Len(buf)
      BY <1>1, <3>1 DEF TypeOK, Line
    <3>3. Len(buf') = Len(buf) - 1
      BY <3>1, <3>2, CutErased
    <3> QED
      BY <1>1, <3>3
  <2>6. CASE Insert(b)
    BY <2>1, <2>6 DEF Insert
  <2> QED
    BY <1>5, <2>2, <2>3, <2>4, <2>5, <2>6 DEF FirstByte
<1>6. CASE SecondByte(b) \/ UnknownByte(b)
  BY <1>2, <1>6 DEF SecondByte, UnknownByte, KeepLine
<1>7. CASE FinalByte(b)
  <2>1. pc = "csi" /\ b = Head(sending)
    BY <1>7 DEF FinalByte, Read
  <2>2. CASE Up(b) \/ Down(b)
    BY <2>1, <2>2 DEF Up, Down
  <2>3. CASE Right(b) \/ Left(b)
    BY <1>2, <2>3 DEF Right, Left, KeepLine, Edit
  <2> QED
    BY <1>7, <2>2, <2>3 DEF FinalByte
<1> QED
  BY <1>4, <1>5, <1>6, <1>7

\* No byte of a key that is sent as a sequence, or is a control byte, is
\* inserted, but for F1's: read_line takes its last byte for a character.  A
\* line recalled by an arrow may be longer.
THEOREM OnlyTextIsEverTyped == Spec => OnlyTextIsTyped
<1> DEFINE Typing == Len(buf') > Len(buf) /\ synced /\ key \notin Text
                       => key \in {"Up", "Down", "F1"}
<1>1. ASSUME TypeOK, DecoderInv, [Next]_vars PROVE [Typing]_vars
  <2> SUFFICES ASSUME Len(buf') > Len(buf), synced, key \notin Text,
                      ~UNCHANGED vars
               PROVE  key \in {"Up", "Down", "F1"}
    OBVIOUS
  <2>1. Sysread
    <3>1. ASSUME NEW k \in Text \cup OtherKey, Press(k) PROVE FALSE
      <4>1. buf' = buf /\ Len(buf) \in Nat
        BY <1>1, <3>1, LenProperties DEF Press, TypeOK, Line
      <4> QED
        BY <4>1
    <3> QED
      BY <1>1, <3>1 DEF Next
  <2>2. key # "none"
    <3>1. sending # <<>>
      BY <2>1, SysreadByte
    <3> QED
      BY <1>1, <3>1 DEF DecoderInv
  <2>3. PICK i \in 1 .. Len(BytesOf(key)) : InStep(key, i)
    BY <1>1, <2>2 DEF DecoderInv
  <2>4. Head(sending) = BytesOf(key)[i]
    BY <1>1, <2>1, <2>2, <2>3, ByteInStep
  <2>5. pc = PcAt(key, i)
    BY <2>3 DEF InStep
  <2>6. \/ pc = "char" /\ BytesOf(key)[i] \in Printable
        \/ pc = "csi" /\ BytesOf(key)[i] \in {"A", "B"}
    BY <1>1, <2>1, <2>4, Grows
  <2>7. key \in Text \cup OtherKey
    BY <1>1, <2>2 DEF TypeOK
  <2>8. "ESC" \notin Printable /\ (key \in Control => key \notin Printable)
    BY KeysAssumption DEF Printable, Parameter, Control, SpecialKey
  <2>9. key \notin {"Right", "Left", "Delete", "Home", "Escape"} \cup Control
    <3>1. ASSUME key \in {"Right", "Left", "Home"} PROVE FALSE
      BY <2>3, <2>5, <2>6, <2>7, <2>8, <3>1, KeyBytes DEF PcAt, Control
    <3>2. ASSUME key = "Delete" PROVE FALSE
      BY <2>3, <2>5, <2>6, <2>7, <2>8, <3>2, KeyBytes DEF PcAt, Control
    <3>3. ASSUME key = "Escape" PROVE FALSE
      BY <2>3, <2>5, <2>6, <2>7, <2>8, <3>3, KeyBytes DEF PcAt, Control
    <3>4. ASSUME key \in Control PROVE FALSE
      BY <2>3, <2>5, <2>6, <2>7, <2>8, <3>4, KeyBytes DEF PcAt, Control
    <3> QED
      BY <3>1, <3>2, <3>3, <3>4
  <2> QED
    BY <2>7, <2>9, KeyBytes
<1> QED
  BY <1>1, ShellTypeCorrect, AlwaysDecoder, PTL DEF Spec, OnlyTextIsTyped
=============================================================================
