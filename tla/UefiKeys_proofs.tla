--------------------------- MODULE UefiKeys_proofs ---------------------------
(***************************************************************************)
(* Proofs about UefiKeys for a queue of any size, any keys, reads of any   *)
(* length and any number of device errors.                                 *)
(***************************************************************************)
EXTENDS UefiKeys, SequenceTheorems, TLAPS

-----------------------------------------------------------------------------
(* Two sequences in a row, and elements that join the end of the second,   *)
(* cross from the second to the first, or leave with all of the first: the *)
(* moves of input on its way through a driver (serial_read,                *)
(* uefi_console_read) to the program.                                      *)

\* The first element of t goes to the end of s.
LEMMA MoveOne ==
  ASSUME NEW S, NEW s \in Seq(S), NEW t \in Seq(S), t # <<>>
  PROVE  /\ Head(t) \in S /\ Tail(t) \in Seq(S)
         /\ Len(Tail(t)) = Len(t) - 1 /\ Len(t) \in Nat \ {0}
         /\ Append(s, Head(t)) \in Seq(S)
         /\ Len(Append(s, Head(t))) = Len(s) + 1 /\ Len(s) \in Nat
         /\ Append(s, Head(t)) \o Tail(t) = s \o t
<1>1. /\ Head(t) \in S /\ Tail(t) \in Seq(S) /\ Len(Tail(t)) = Len(t) - 1
      /\ \A i \in 1 .. Len(Tail(t)) : Tail(t)[i] = t[i + 1]
      /\ Len(t) \in Nat \ {0} /\ Head(t) = t[1] /\ Len(s) \in Nat
  BY HeadTailProperties, EmptySeq, LenProperties
<1>2. /\ Append(s, Head(t)) \in Seq(S)
      /\ Len(Append(s, Head(t))) = Len(s) + 1
      /\ \A i \in 1 .. Len(s) : Append(s, Head(t))[i] = s[i]
      /\ Append(s, Head(t))[Len(s) + 1] = Head(t)
  BY <1>1, AppendProperties
<1> DEFINE a == Append(s, Head(t))
           l == a \o Tail(t)
           r == s \o t
<1>3. /\ l \in Seq(S) /\ Len(l) = Len(a) + Len(Tail(t))
      /\ \A i \in 1 .. Len(a) + Len(Tail(t)) :
           l[i] = IF i <= Len(a) THEN a[i] ELSE Tail(t)[i - Len(a)]
  BY <1>1, <1>2, ConcatProperties
<1>4. /\ r \in Seq(S) /\ Len(r) = Len(s) + Len(t)
      /\ \A i \in 1 .. Len(s) + Len(t) :
           r[i] = IF i <= Len(s) THEN s[i] ELSE t[i - Len(s)]
  BY ConcatProperties
<1>5. Len(l) = Len(r)
  BY <1>1, <1>2, <1>3, <1>4
<1> HIDE DEF l, r
<1>6. ASSUME NEW i \in 1 .. Len(l) PROVE l[i] = r[i]
  <2>1. i \in 1 .. Len(s) + Len(t) /\ i \in 1 .. Len(a) + Len(Tail(t))
    BY <1>1, <1>2, <1>3, <1>4, <1>5, <1>6
  <2>2. CASE i <= Len(s)
    BY <1>1, <1>2, <1>3, <1>4, <2>1, <2>2
  <2>3. CASE i = Len(s) + 1
    BY <1>1, <1>2, <1>3, <1>4, <2>1, <2>3
  <2>4. CASE i > Len(s) + 1
    <3>1. /\ i - Len(a) \in 1 .. Len(Tail(t)) /\ (i - Len(a)) + 1 = i - Len(s)
      BY <1>1, <1>2, <2>1, <2>4
    <3> QED
      BY <1>1, <1>2, <1>3, <1>4, <2>1, <2>4, <3>1
  <2> QED
    BY <1>1, <2>1, <2>2, <2>3, <2>4
<1>7. l = r
  BY <1>3, <1>4, <1>5, <1>6, SeqEqual
<1> QED
  BY <1>1, <1>2, <1>7 DEF l, r

\* What joins the end of t joins the end of s and t.
LEMMA AppendBehind ==
  ASSUME NEW S, NEW s \in Seq(S), NEW t \in Seq(S), NEW e \in S
  PROVE  s \o Append(t, e) = Append(s \o t, e)
<1>1. <<e>> \in Seq(S) /\ s \o t \in Seq(S)
  BY ConcatProperties
<1>2. Append(t, e) = t \o <<e>> /\ Append(s \o t, e) = (s \o t) \o <<e>>
  BY <1>1, AppendIsConcat
<1> QED
  BY <1>1, <1>2, ConcatAssociative

\* All of s is taken from the front of s and t.
LEMMA TakeFront ==
  ASSUME NEW S, NEW s \in Seq(S), NEW t \in Seq(S), s # <<>>
  PROVE  /\ Len(s) \in 1 .. Len(s \o t)
         /\ SubSeq(s \o t, 1, Len(s)) = s
         /\ SubSeq(s \o t, Len(s) + 1, Len(s \o t)) = t
<1>1. /\ Len(s) \in Nat \ {0} /\ Len(t) \in Nat /\ Len(s \o t) = Len(s) + Len(t)
  BY ConcatProperties, LenProperties, EmptySeq
<1>2. SubSeq(s \o t, 1, Len(s)) = SubSeq(s, 1, Len(s))
  BY <1>1, SubSeqOfConcat1
<1>3. SubSeq(s, 1, Len(s)) = s
  BY SubSeqFull
<1>4. CASE t = <<>>
  <2>1. Len(s \o t) < Len(s) + 1
    BY <1>1, <1>4
  <2>2. SubSeq(s \o t, Len(s) + 1, Len(s \o t)) = <<>>
    BY <1>1, <2>1, SubSeqEmpty
  <2> QED
    BY <1>1, <1>2, <1>3, <1>4, <2>2
<1>5. CASE t # <<>>
  <2>1. Len(t) >= 1
    BY <1>1, <1>5, EmptySeq
  <2>2. /\ Len(s) + 1 \in Len(s) + 1 .. Len(s) + Len(t)
        /\ Len(s) + Len(t) \in Len(s) + 1 .. Len(s) + Len(t)
        /\ (Len(s) + 1) - Len(s) = 1 /\ (Len(s) + Len(t)) - Len(s) = Len(t)
    BY <1>1, <2>1
  <2>3. SubSeq(s \o t, Len(s) + 1, Len(s) + Len(t)) = SubSeq(t, 1, Len(t))
    BY <2>2, SubSeqOfConcat2
  <2> QED
    BY <1>1, <1>2, <1>3, <2>3, SubSeqFull
<1> QED
  BY <1>4, <1>5

-----------------------------------------------------------------------------
Key == 0 .. Last
Item == {Got(k) : k \in Key}

-----------------------------------------------------------------------------
(* The keys of what reads have gathered. *)

LEMMA GotKey == \A k \in Key : Got(k) \in Item /\ Got(k).key = k
  BY DEF Item, Got

LEMMA ItemKey == \A x \in Item : x.key \in Key
  BY GotKey DEF Item

LEMMA KeysOfSeq ==
  ASSUME NEW s \in Seq(Item)
  PROVE  /\ KeysOf(s) \in Seq(Key) /\ Len(KeysOf(s)) = Len(s) /\ Len(s) \in Nat
         /\ \A i \in 1 .. Len(s) : KeysOf(s)[i] = s[i].key
<1>1. DOMAIN s = 1 .. Len(s) /\ Len(s) \in Nat
  BY LenProperties
<1>2. \A i \in 1 .. Len(s) : s[i].key \in Key
  BY <1>1, ItemKey, ElementOfSeq
<1>3. KeysOf(s) = [i \in 1 .. Len(s) |-> s[i].key]
  BY <1>1 DEF KeysOf
<1> QED
  BY <1>1, <1>2, <1>3

LEMMA KeysOfEmpty == KeysOf(<<>>) = <<>> /\ <<>> \in Seq(Item)
  BY DEF KeysOf

LEMMA KeysOfAppend ==
  ASSUME NEW s \in Seq(Item), NEW k \in Key
  PROVE  KeysOf(Append(s, Got(k))) = Append(KeysOf(s), k)
<1> DEFINE t == Append(s, Got(k))
           l == KeysOf(t)
           r == Append(KeysOf(s), k)
<1>1. /\ t \in Seq(Item) /\ Len(t) = Len(s) + 1 /\ Len(s) \in Nat
      /\ \A i \in 1 .. Len(s) : t[i] = s[i]
      /\ t[Len(s) + 1] = Got(k)
  BY GotKey, AppendProperties, LenProperties
<1>2. /\ l \in Seq(Key) /\ Len(l) = Len(t)
      /\ \A i \in 1 .. Len(t) : l[i] = t[i].key
  BY <1>1, KeysOfSeq
<1>3. /\ r \in Seq(Key) /\ Len(r) = Len(s) + 1
      /\ \A i \in 1 .. Len(s) : r[i] = s[i].key
      /\ r[Len(s) + 1] = k
  BY KeysOfSeq, AppendProperties
<1> HIDE DEF t, l, r
<1>4. Len(l) = Len(r) /\ \A i \in 1 .. Len(l) : l[i] = r[i]
  BY <1>1, <1>2, <1>3, GotKey
<1>5. l = r
  BY <1>2, <1>3, <1>4, SeqEqual
<1> QED
  BY <1>5 DEF t, l, r

LEMMA KeysOfConcat ==
  ASSUME NEW s \in Seq(Item), NEW t \in Seq(Item)
  PROVE  KeysOf(s \o t) = KeysOf(s) \o KeysOf(t)
<1> DEFINE u == s \o t
           l == KeysOf(u)
           ks == KeysOf(s)
           kt == KeysOf(t)
           r == ks \o kt
<1>1. /\ u \in Seq(Item) /\ Len(u) = Len(s) + Len(t)
      /\ \A i \in 1 .. Len(s) + Len(t) :
           u[i] = IF i <= Len(s) THEN s[i] ELSE t[i - Len(s)]
  BY ConcatProperties
<1>2. /\ l \in Seq(Key) /\ Len(l) = Len(u)
      /\ \A i \in 1 .. Len(u) : l[i] = u[i].key
  BY <1>1, KeysOfSeq
<1>3. /\ Len(s) \in Nat /\ Len(t) \in Nat
      /\ \A i \in 1 .. Len(s) : ks[i] = s[i].key
      /\ \A i \in 1 .. Len(t) : kt[i] = t[i].key
      /\ Len(ks) = Len(s) /\ Len(kt) = Len(t)
      /\ ks \in Seq(Key) /\ kt \in Seq(Key)
  BY KeysOfSeq
<1> HIDE DEF u, l, ks, kt
<1>4. /\ r \in Seq(Key) /\ Len(r) = Len(s) + Len(t)
      /\ \A i \in 1 .. Len(s) + Len(t) :
           r[i] = IF i <= Len(s) THEN ks[i] ELSE kt[i - Len(s)]
  <2>0. ks \in Seq(Key) /\ kt \in Seq(Key)
    BY <1>3
  <2>1. /\ r \in Seq(Key) /\ Len(r) = Len(ks) + Len(kt)
        /\ \A i \in 1 .. Len(ks) + Len(kt) :
             r[i] = IF i <= Len(ks) THEN ks[i] ELSE kt[i - Len(ks)]
    BY <2>0, ConcatProperties
  <2> QED
    BY <1>3, <2>1
<1> HIDE DEF r
<1>5. ASSUME NEW i \in 1 .. Len(l) PROVE l[i] = r[i]
  <2>1. i \in 1 .. Len(s) + Len(t)
    BY <1>1, <1>2, <1>5
  <2>2. CASE i <= Len(s)
    <3>1. i \in 1 .. Len(s) /\ i \in 1 .. Len(u)
      BY <1>1, <1>3, <2>1, <2>2
    <3>2. l[i] = s[i].key
      BY <1>1, <1>2, <2>1, <2>2, <3>1
    <3> QED
      BY <1>3, <1>4, <2>1, <2>2, <3>1, <3>2
  <2>3. CASE ~(i <= Len(s))
    <3>1. i - Len(s) \in 1 .. Len(t)
      BY <1>3, <2>1, <2>3
    <3> QED
      BY <1>1, <1>2, <1>3, <1>4, <2>1, <2>3, <3>1
  <2> QED
    BY <2>2, <2>3
<1>6. l = r
  BY <1>1, <1>2, <1>4, <1>5, SeqEqual
<1> QED
  BY <1>6 DEF u, l, r, ks, kt

-----------------------------------------------------------------------------
\* The inductive invariant: a read in progress has something in its buffer once
\* it is past its first key and a key kept for the next one before it takes it;
\* a yes that the program still relies on has a key behind it.
KeysInv ==
  /\ typed \in 0 .. Last
  /\ queue \in Seq(1 .. Last) /\ Len(queue) <= QUEUE_SIZE
  /\ pending_key \in Key /\ pending_key_valid \in {0, 1}
  /\ pc \in {"program", "getc", "drain", "take"}
  /\ taken \in Seq(Item) /\ buf \in Seq(Item) /\ len \in Nat
  /\ pc \in {"program", "getc"} => buf = <<>>
  /\ pc = "getc" => len # 0
  /\ pc \in {"drain", "take"} => Len(buf) \in 1 .. len
  /\ pc = "take" => Len(buf) < len
  /\ errors \in Nat
  /\ ready \in BOOLEAN
  /\ ready => pc = "program" /\ (pending_key_valid = 1 \/ queue # <<>>)

Ahead == Pending \o queue

LEMMA AheadIs ==
  ASSUME KeysInv
  PROVE  /\ Pending \in Seq(Key) /\ queue \in Seq(Key) /\ Ahead \in Seq(Key)
         /\ pending_key_valid = 0 => Ahead = queue
         /\ pending_key_valid = 1 => Head(Ahead) = pending_key
                                     /\ Tail(Ahead) = queue /\ Ahead # <<>>
<1>1. queue \in Seq(Key) /\ <<>> \in Seq(Key)
  <2>1. 1 .. Last \subseteq Key
    BY DEF Key
  <2> QED
    BY <2>1, SeqMonotonic, EmptySeq DEF KeysInv
<1>2. Pending \in Seq(Key)
  BY <1>1 DEF KeysInv, Pending
<1> QED
  BY <1>1, <1>2, ConcatProperties DEF Ahead, Pending

\* ReadKeyStroke moves the first key of the queue into pending_key.
LEMMA KeyStrokeFacts ==
  ASSUME KeysAssumption, KeysInv, KeyStroke
  PROVE  /\ queue' \in Seq(1 .. Last) /\ Len(queue') <= QUEUE_SIZE
         /\ pending_key' \in Key
         /\ queue # <<>> /\ pending_key' = Head(queue) /\ queue' = Tail(queue)
         /\ <<pending_key'>> \o queue' = queue
<1>1. queue \in Seq(1 .. Last) /\ queue # <<>> /\ Len(queue) <= QUEUE_SIZE
  BY DEF KeysInv, KeyStroke
<1>2. /\ Head(queue) \in 1 .. Last /\ Tail(queue) \in Seq(1 .. Last)
      /\ Len(Tail(queue)) = Len(queue) - 1 /\ Len(queue) \in Nat
  BY <1>1, HeadTailProperties, LenProperties
<1>3. Append(<<>>, Head(queue)) \o Tail(queue) = <<>> \o queue
  BY <1>1, EmptySeq, MoveOne
<1>4. Append(<<>>, Head(queue)) = <<Head(queue)>> /\ <<>> \o queue = queue
  BY <1>1, ConcatEmptySeq
<1>5. Len(Tail(queue)) <= QUEUE_SIZE
  BY <1>1, <1>2 DEF KeysAssumption
<1> QED
  BY <1>1, <1>2, <1>3, <1>4, <1>5 DEF KeyStroke, Key

\* A test leaves what is ahead as it is; a yes has a key behind it.
LEMMA DataReadyFacts ==
  ASSUME KeysAssumption, KeysInv, NEW yes \in BOOLEAN, DataReady(yes)
  PROVE  /\ queue' \in Seq(1 .. Last) /\ Len(queue') <= QUEUE_SIZE
         /\ pending_key' \in Key /\ pending_key_valid' \in {0, 1}
         /\ yes => pending_key_valid' = 1
         /\ Ahead' = Ahead
<1>1. CASE UNCHANGED <<queue, pending_key, pending_key_valid>>
  <2>1. Ahead' = Ahead
    BY <1>1 DEF Ahead, Pending
  <2> QED
    BY <1>1, <2>1 DEF DataReady, KeysInv
<1>2. CASE yes /\ pending_key_valid = 0 /\ KeyStroke /\ pending_key_valid' = 1
  <2>1. Ahead = queue /\ Ahead' = <<pending_key'>> \o queue'
    BY <1>2, AheadIs DEF Ahead, Pending
  <2> QED
    BY <1>2, <2>1, KeyStrokeFacts
<1> QED
  BY <1>1, <1>2 DEF DataReady

\* getc takes the first key ahead, unless the keyboard fails.
LEMMA GetCFacts ==
  ASSUME KeysAssumption, KeysInv, NEW k \in Key, GetC(k)
  PROVE  /\ queue' \in Seq(1 .. Last) /\ Len(queue') <= QUEUE_SIZE
         /\ pending_key' \in Key /\ pending_key_valid' = 0
         /\ errors' \in Nat
         /\ errors' = 0 => Ahead # <<>> /\ k = Head(Ahead) /\ Ahead' = Tail(Ahead)
<1>1. pending_key_valid \in {0, 1} /\ queue \in Seq(Key) /\ errors \in Nat
  BY AheadIs DEF KeysInv
<1>2. pending_key_valid' = 0 /\ k = pending_key'
  BY DEF GetC
<1>3. Ahead' = queue' \/ queue' \notin Seq(Key)
  <2>1. Pending' = <<>>
    BY <1>2 DEF Pending
  <2> QED
    BY <2>1, ConcatEmptySeq DEF Ahead
<1>4. CASE pending_key_valid = 1
  <2>1. UNCHANGED <<queue, pending_key, errors>>
    BY <1>4 DEF GetC
  <2> QED
    BY <1>1, <1>2, <1>3, <1>4, <2>1, AheadIs DEF KeysInv
<1>5. CASE pending_key_valid = 0 /\ KeyStroke /\ UNCHANGED errors
  <2>1. Ahead = queue /\ queue' \in Seq(Key)
    <3>1. queue' \in Seq(1 .. Last) /\ 1 .. Last \subseteq Key
      BY <1>5, KeyStrokeFacts DEF Key
    <3> QED
      BY <1>5, <3>1, AheadIs, SeqMonotonic
  <2> QED
    BY <1>1, <1>2, <1>3, <1>5, <2>1, KeyStrokeFacts
<1>6. CASE pending_key_valid = 0 /\ DeviceError
  <2>1. errors' \in Nat /\ errors' # 0
    BY <1>1, <1>6 DEF DeviceError
  <2> QED
    BY <1>2, <1>6, <2>1 DEF DeviceError, KeysInv
<1> QED
  BY <1>1, <1>4, <1>5, <1>6 DEF GetC

LEMMA InitKeysInv == KeysAssumption /\ Init => KeysInv
<1> SUFFICES ASSUME KeysAssumption, Init PROVE KeysInv
  OBVIOUS
<1>1. /\ queue \in Seq(1 .. Last) /\ Len(queue) = 0
      /\ taken \in Seq(Item) /\ buf \in Seq(Item)
  BY EmptySeq DEF Init
<1>2. typed \in 0 .. Last /\ Len(queue) <= QUEUE_SIZE /\ pending_key \in Key
  BY <1>1 DEF KeysAssumption, Init, Key, NoKey
<1> QED
  BY <1>1, <1>2 DEF Init, KeysInv

LEMMA KeyPressedStep ==
  ASSUME KeysAssumption, KeysInv, KeyPressed
  PROVE  /\ KeysInv'
         /\ \/ Ahead' = Append(Ahead, typed')
            \/ Len(queue) >= QUEUE_SIZE /\ Ahead' = Ahead
<1>1. typed' \in 1 .. Last /\ typed' \in 0 .. Last /\ typed' \in Key
  BY DEF KeysAssumption, KeysInv, KeyPressed, Key
<1>2. queue \in Seq(1 .. Last) /\ Len(queue) \in Nat /\ Len(queue) <= QUEUE_SIZE
  BY LenProperties DEF KeysInv
<1>3. Pending' = Pending
  BY DEF KeyPressed, Pending
<1>4. CASE Len(queue) < QUEUE_SIZE
  <2>1. queue' = Append(queue, typed')
    BY <1>4 DEF KeyPressed
  <2>2. /\ queue' \in Seq(1 .. Last) /\ Len(queue') = Len(queue) + 1
        /\ queue' # <<>>
    BY <1>1, <1>2, <2>1, AppendProperties
  <2>3. Len(queue') <= QUEUE_SIZE
    BY <1>2, <1>4, <2>2 DEF KeysAssumption
  <2>4. Ahead' = Append(Ahead, typed')
    BY <1>1, <1>3, <2>1, AheadIs, AppendBehind DEF Ahead
  <2> QED
    BY <1>1, <2>2, <2>3, <2>4 DEF KeyPressed, KeysInv
<1>5. CASE ~(Len(queue) < QUEUE_SIZE)
  <2>1. queue' = queue /\ Len(queue) >= QUEUE_SIZE
    BY <1>2, <1>5 DEF KeysAssumption, KeyPressed
  <2>2. Ahead' = Ahead
    BY <1>3, <2>1 DEF Ahead
  <2> QED
    BY <1>1, <2>1, <2>2 DEF KeyPressed, KeysInv
<1> QED
  BY <1>4, <1>5

LEMMA StoreStep ==
  ASSUME KeysAssumption, KeysInv, Store
  PROVE  /\ KeysInv'
         /\ errors' = 0 => KeysOf(buf') \o Ahead' = KeysOf(buf) \o Ahead
<1>1. PICK k \in Key : GetC(k) /\ buf' = Append(buf, Got(k))
  BY DEF Store, Key
<1>2. /\ buf \in Seq(Item) /\ Len(buf) \in Nat /\ Len(<<>>) = 0
      /\ pc \in {"getc", "take"} /\ len \in Nat
  BY LenProperties DEF KeysInv, Store
<1>3. /\ buf' \in Seq(Item) /\ Len(buf') = Len(buf) + 1
  BY <1>1, <1>2, GotKey, AppendProperties
<1>4. Len(buf') \in 1 .. len
  <2>1. CASE pc = "getc"
    BY <1>2, <1>3, <2>1 DEF KeysInv
  <2>2. CASE pc = "take"
    BY <1>2, <1>3, <2>2 DEF KeysInv
  <2> QED
    BY <1>2, <2>1, <2>2
<1>5. KeysInv'
  <2>1. ~ready
    BY <1>2 DEF KeysInv
  <2> QED
    BY <1>1, <1>3, <1>4, <2>1, GetCFacts DEF Store, KeysInv
<1>6. ASSUME errors' = 0
      PROVE  KeysOf(buf') \o Ahead' = KeysOf(buf) \o Ahead
  <2>1. Ahead # <<>> /\ k = Head(Ahead) /\ Ahead' = Tail(Ahead)
    BY <1>1, <1>6, GetCFacts
  <2>2. KeysOf(buf') = Append(KeysOf(buf), k)
    BY <1>1, <1>2, KeysOfAppend
  <2> QED
    BY <1>2, <2>1, <2>2, AheadIs, KeysOfSeq, MoveOne
<1> QED
  BY <1>5, <1>6

LEMMA NextKeysInv == ASSUME KeysAssumption, KeysInv, [Next]_vars PROVE KeysInv'
<1>1. CASE KeyPressed
  BY <1>1, KeyPressedStep
<1>2. CASE Test
  BY <1>2, DataReadyFacts DEF Test, KeysInv
<1>3. CASE ReadCall
  <2>1. PICK n \in ReadLen : Read(n)
    BY <1>3 DEF ReadCall
  <2>2. n \in Nat
    BY DEF KeysAssumption
  <2> QED
    BY <2>1, <2>2 DEF Read, KeysInv
<1>4. CASE Store
  BY <1>4, StoreStep
<1>5. CASE DrainMore
  <2>1. ~ready
    BY <1>5 DEF DrainMore, KeysInv
  <2> QED
    BY <1>5, <2>1, DataReadyFacts DEF DrainMore, Room, KeysInv
<1>6. CASE Returns
  <2>1. ~ready
    BY <1>6 DEF Returns, KeysInv
  <2>2. taken' \in Seq(Item) /\ buf' \in Seq(Item) /\ buf' = <<>>
    BY <1>6, ConcatProperties, EmptySeq DEF Returns, KeysInv
  <2>3. CASE UNCHANGED <<queue, pending_key, pending_key_valid>>
    BY <1>6, <2>1, <2>2, <2>3 DEF Returns, KeysInv
  <2>4. CASE DataReady(FALSE)
    BY <1>6, <2>1, <2>2, <2>4, DataReadyFacts DEF Returns, KeysInv
  <2> QED
    BY <1>6, <2>3, <2>4 DEF Returns
<1>7. CASE UNCHANGED vars
  BY <1>7 DEF vars, KeysInv
<1> QED
  BY <1>1, <1>2, <1>3, <1>4, <1>5, <1>6, <1>7 DEF Next, Driver

LEMMA AlwaysKeysInv == KeysAssumption /\ Spec => []KeysInv
<1> SUFFICES ASSUME KeysAssumption PROVE Spec => []KeysInv
  OBVIOUS
<1>1. Init => KeysInv
  BY InitKeysInv
<1>2. KeysInv /\ [Next]_vars => KeysInv'
  BY NextKeysInv
<1> QED
  BY <1>1, <1>2, PTL DEF Spec

\* Once a readiness test has said yes, the key it saw is there until the next
\* read (uefi_console_data_ready), whatever is pressed or fails meanwhile.
THEOREM ReadyKeysStay == KeysAssumption /\ Spec => []ReadyIsTrue
<1> SUFFICES ASSUME KeysAssumption PROVE Spec => []ReadyIsTrue
  OBVIOUS
<1>1. KeysInv => ReadyIsTrue
  <2> SUFFICES ASSUME KeysInv, ready PROVE Pending \o queue # <<>>
    BY DEF ReadyIsTrue
  <2>1. pending_key_valid \in {0, 1}
    BY DEF KeysInv
  <2> QED
    BY <2>1, AheadIs DEF KeysInv, Ahead
<1>2. Spec => []KeysInv
  BY AlwaysKeysInv
<1> QED
  BY <1>1, <1>2, PTL

-----------------------------------------------------------------------------
(* The steps of ByteStream. *)

Waiting == KeysOf(buf) \o Pending \o queue

LEMMA Regroup ==
  ASSUME NEW b \in Seq(Item), NEW p \in Seq(Key), NEW q \in Seq(Key)
  PROVE  KeysOf(b) \o p \o q = KeysOf(b) \o (p \o q)
<1>1. KeysOf(b) \in Seq(Key)
  BY KeysOfSeq
<1> QED
  BY <1>1, ConcatAssociative

LEMMA WaitingIs ==
  ASSUME KeysInv
  PROVE  Waiting = KeysOf(buf) \o Ahead /\ KeysOf(buf) \in Seq(Key)
<1>1. buf \in Seq(Item) /\ Pending \in Seq(Key) /\ queue \in Seq(Key)
  BY AheadIs DEF KeysInv
<1> QED
  BY <1>1, Regroup, KeysOfSeq DEF Waiting, Ahead

LEMMA WaitingNext == ASSUME KeysInv' PROVE Waiting' = KeysOf(buf') \o Ahead'
<1>1. buf' \in Seq(Item) /\ queue' \in Seq(1 .. Last) /\ pending_key' \in Key
  BY DEF KeysInv
<1>2. queue' \in Seq(Key) /\ <<>> \in Seq(Key)
  <2>1. 1 .. Last \subseteq Key
    BY DEF Key
  <2> QED
    BY <1>1, <2>1, SeqMonotonic, EmptySeq
<1>3. Pending' \in Seq(Key)
  BY <1>1, <1>2 DEF Pending
<1>4. Waiting' = KeysOf(buf') \o Pending' \o queue'
  BY DEF Waiting, KeysOf
<1> QED
  BY <1>1, <1>2, <1>3, <1>4, Regroup DEF Ahead

LEMMA KeyPressedStream == ASSUME KeysAssumption, KeysInv, KeyPressed PROVE Stream!Type
<1>1. /\ KeysInv' /\ KeysOf(buf') = KeysOf(buf) /\ KeysOf(taken') = KeysOf(taken)
  BY KeyPressedStep DEF KeyPressed, KeysOf
<1>2. /\ Waiting = KeysOf(buf) \o Ahead /\ Waiting' = KeysOf(buf) \o Ahead'
      /\ KeysOf(buf) \in Seq(Key) /\ Ahead \in Seq(Key)
  <2>1. Waiting' = KeysOf(buf') \o Ahead'
    BY <1>1, WaitingNext
  <2> QED
    BY <1>1, <2>1, WaitingIs, AheadIs
<1>3. typed' \in Key
  BY <1>1 DEF KeysInv, Key
<1>4. \/ Waiting' = Append(Waiting, typed')
      \/ Len(Waiting) >= QUEUE_SIZE /\ Waiting' = Waiting
  <2>1. CASE Ahead' = Append(Ahead, typed')
    BY <1>2, <1>3, <2>1, AppendBehind
  <2>2. CASE Len(queue) >= QUEUE_SIZE /\ Ahead' = Ahead
    <3>1. /\ Len(Waiting) = Len(KeysOf(buf)) + (Len(Pending) + Len(queue))
          /\ Len(KeysOf(buf)) \in Nat /\ Len(Pending) \in Nat
          /\ Len(queue) \in Nat
      BY <1>2, AheadIs, ConcatProperties, LenProperties DEF Ahead
    <3>2. Len(Waiting) >= QUEUE_SIZE
      BY <2>2, <3>1 DEF KeysAssumption
    <3> QED
      BY <1>2, <2>2, <3>2
  <2> QED
    BY <2>1, <2>2, KeyPressedStep
<1> QED
  BY <1>1, <1>4 DEF KeyPressed, Stream!Type, Waiting, KeysOf

LEMMA ReturnsStream == ASSUME KeysAssumption, KeysInv, Returns PROVE Stream!Take
<1> DEFINE got == KeysOf(buf)
<1>1. /\ buf \in Seq(Item) /\ taken \in Seq(Item) /\ Len(buf) \in 1 .. len
      /\ len \in Nat /\ taken' = taken \o buf /\ buf' = <<>> /\ typed' = typed
  BY DEF KeysInv, Returns
<1>2. /\ got \in Seq(Key) /\ Len(got) = Len(buf) /\ got # <<>>
      /\ Waiting = got \o Ahead /\ Ahead \in Seq(Key)
  BY <1>1, KeysOfSeq, WaitingIs, AheadIs, EmptySeq
<1>3. Ahead' = Ahead
  <2>1. CASE UNCHANGED <<queue, pending_key, pending_key_valid>>
    BY <2>1 DEF Ahead, Pending
  <2> QED
    BY <2>1, DataReadyFacts DEF Returns
<1>4. Waiting' = Ahead
  <2>1. KeysInv'
    BY NextKeysInv DEF Next, Driver
  <2>2. Waiting' = KeysOf(buf') \o Ahead'
    BY <2>1, WaitingNext
  <2>3. KeysOf(buf') = <<>>
    BY <1>1 DEF KeysOf
  <2> QED
    BY <1>2, <1>3, <2>2, <2>3, ConcatEmptySeq
<1>5. KeysOf(taken') = KeysOf(taken) \o got
  BY <1>1, KeysOfConcat
<1> HIDE DEF got
<1>6. /\ Len(got) \in 1 .. Len(Waiting)
      /\ SubSeq(Waiting, 1, Len(got)) = got
      /\ SubSeq(Waiting, Len(got) + 1, Len(Waiting)) = Ahead
  BY <1>2, TakeFront
<1>7. /\ KeysOf(taken') = KeysOf(taken) \o SubSeq(Waiting, 1, Len(got))
      /\ Waiting' = SubSeq(Waiting, Len(got) + 1, Len(Waiting))
  BY <1>4, <1>5, <1>6
<1> QED
  BY <1>1, <1>6, <1>7 DEF Stream!Take, Waiting, KeysOf

\* A step that gathers no key but moves those ahead.
LEMMA GathersNothing ==
  ASSUME KeysInv, KeysInv', UNCHANGED <<typed, taken>>,
         KeysOf(buf') \o Ahead' = KeysOf(buf) \o Ahead
  PROVE  UNCHANGED Stream!vars
<1>1. Waiting' = Waiting
  <2>1. Waiting' = KeysOf(buf') \o Ahead'
    BY WaitingNext
  <2> QED
    BY <2>1, WaitingIs
<1> QED
  BY <1>1 DEF Stream!vars, Waiting, KeysOf

LEMMA NextStream ==
  ASSUME KeysAssumption, KeysInv, [Next]_vars
  PROVE  [errors' = 0 => Stream!Type \/ Stream!Take]_(Stream!vars)
<1>1. CASE KeyPressed
  BY <1>1, KeyPressedStream
<1>2. CASE Test \/ DrainMore
  <2>1. Ahead' = Ahead
    BY <1>2, DataReadyFacts DEF Test, DrainMore
  <2>2. KeysOf(buf') = KeysOf(buf)
    BY <1>2 DEF Test, DrainMore, KeysOf
  <2>3. KeysInv'
    BY NextKeysInv
  <2> QED
    BY <1>2, <2>1, <2>2, <2>3, GathersNothing DEF Test, DrainMore
<1>3. CASE Store
  <2>1. UNCHANGED <<typed, taken>>
    BY <1>3 DEF Store
  <2> QED
    BY <1>3, <2>1, StoreStep, GathersNothing
<1>4. CASE Returns
  BY <1>4, ReturnsStream
<1>5. CASE ReadCall \/ UNCHANGED vars
  <2>1. UNCHANGED <<typed, queue, pending_key, pending_key_valid, buf, taken>>
    BY <1>5 DEF ReadCall, Read, vars
  <2> QED
    BY <2>1 DEF Stream!vars, Pending, KeysOf
<1> QED
  BY <1>1, <1>2, <1>3, <1>4, <1>5 DEF Next, Driver

\* While the keyboard does not fail, the keys that reads return are those
\* pressed, in order and each once, the one a readiness test had to take
\* included (uefi_console_data_ready, uefi_console_getc, uefi_console_read).
THEOREM KeysAreAByteStream == KeysAssumption /\ Spec => StreamSpec
<1> SUFFICES ASSUME KeysAssumption PROVE Spec => StreamSpec
  OBVIOUS
<1>1. KeysInv /\ [Next]_vars =>
        [errors' = 0 => Stream!Type \/ Stream!Take]_(Stream!vars)
  BY NextStream
<1>2. Spec => []KeysInv
  BY AlwaysKeysInv
<1> QED
  BY <1>1, <1>2, PTL DEF Spec, StreamSpec

-----------------------------------------------------------------------------
\* Under device errors.  What reads have gathered never decreases and does not
\* pass pending_key, which the keys of the queue, in order, do; and until the
\* firmware can have dropped a key, each one pressed is gathered, pending or
\* queued.
Gathered == KeysOf(taken \o buf)

In(s, k) == \E i \in DOMAIN s : s[i] = k
Kept(k) ==
  \/ In(Gathered, k) \/ In(queue, k)
  \/ pending_key_valid = 1 /\ k = pending_key

OrderInv ==
  /\ \A i, j \in DOMAIN Gathered : i < j => Gathered[i] <= Gathered[j]
  /\ \A i \in DOMAIN Gathered : Gathered[i] <= pending_key
  /\ pending_key <= typed
  /\ \A i \in DOMAIN queue : pending_key < queue[i] /\ queue[i] <= typed
  /\ \A i, j \in DOMAIN queue : i < j => queue[i] < queue[j]
  /\ Len(queue) <= typed
  /\ typed <= QUEUE_SIZE => \A k \in 1 .. typed : Kept(k)

LEMMA GatheredIs ==
  ASSUME KeysInv
  PROVE  /\ Gathered \in Seq(Key) /\ taken \o buf \in Seq(Item)
         /\ DOMAIN Gathered = 1 .. Len(Gathered) /\ Len(Gathered) \in Nat
         /\ queue \in Seq(1 .. Last)
         /\ DOMAIN queue = 1 .. Len(queue) /\ Len(queue) \in Nat
         /\ typed \in Int /\ pending_key \in Int
         /\ \A i \in DOMAIN queue : queue[i] \in Int
         /\ \A i \in DOMAIN Gathered : Gathered[i] \in Int
<1>1. taken \o buf \in Seq(Item)
  BY ConcatProperties DEF KeysInv
<1>2. Gathered \in Seq(Key)
  BY <1>1, KeysOfSeq DEF Gathered
<1>3. queue \in Seq(1 .. Last)
  BY DEF KeysInv
<1>4. /\ \A i \in 1 .. Len(queue) : queue[i] \in 1 .. Last
      /\ \A i \in 1 .. Len(Gathered) : Gathered[i] \in Key
  BY <1>2, <1>3, ElementOfSeq
<1> QED
  BY <1>1, <1>2, <1>3, <1>4, LenProperties DEF KeysInv, Key

LEMMA OrderInvImplies ==
  ASSUME KeysInv, OrderInv PROVE ErrorsOnlyRepeat
<1>1. SUFFICES ASSUME typed <= QUEUE_SIZE, NEW i \in DOMAIN Gathered,
                      NEW k \in 1 .. Gathered[i]
               PROVE  In(Gathered, k)
  BY DEF ErrorsOnlyRepeat, OrderInv, Gathered, In
<1>2. k \in 1 .. typed /\ k <= pending_key /\ k \in Int
  BY <1>1, GatheredIs DEF OrderInv
<1>3. ~In(queue, k)
  BY <1>2, GatheredIs DEF OrderInv, In
<1>4. CASE pending_key_valid = 1 /\ k = pending_key
  <2>1. Gathered[i] = k
    BY <1>1, <1>2, <1>4, GatheredIs DEF OrderInv
  <2> QED
    BY <2>1 DEF In
<1> QED
  BY <1>1, <1>2, <1>3, <1>4 DEF OrderInv, Kept

LEMMA InitOrderInv == KeysAssumption /\ Init => OrderInv
<1> SUFFICES ASSUME KeysAssumption, Init PROVE OrderInv
  OBVIOUS
<1>1. taken \o buf = <<>> /\ Len(queue) = 0
  BY ConcatEmptySeq, EmptySeq DEF Init
<1>2. Gathered = <<>>
  BY <1>1, KeysOfEmpty DEF Gathered
<1>3. DOMAIN Gathered = {} /\ DOMAIN queue = {}
  BY <1>2 DEF Init
<1>4. pending_key = 0 /\ typed = 0 /\ 1 .. typed = {}
  BY DEF Init, NoKey
<1> QED
  BY <1>1, <1>3, <1>4 DEF OrderInv

LEMMA InAppend ==
  ASSUME NEW S, NEW s \in Seq(S), NEW e \in S, NEW k
  PROVE  In(Append(s, e), k) <=> In(s, k) \/ k = e
<1>1. /\ Append(s, e) \in Seq(S) /\ Len(Append(s, e)) = Len(s) + 1
      /\ \A i \in 1 .. Len(s) : Append(s, e)[i] = s[i]
      /\ Append(s, e)[Len(s) + 1] = e
  BY AppendProperties
<1>2. /\ DOMAIN s = 1 .. Len(s) /\ Len(s) \in Nat
      /\ DOMAIN Append(s, e) = 1 .. Len(Append(s, e))
  BY <1>1, LenProperties
<1> DEFINE a == Append(s, e)
<1> HIDE DEF a
<1>3. DOMAIN a = 1 .. Len(s) + 1 /\ a[Len(s) + 1] = e
      /\ \A i \in 1 .. Len(s) : a[i] = s[i]
  BY <1>1, <1>2 DEF a
<1>4. In(a, k) <=> In(s, k) \/ k = e
  <2>1. ASSUME NEW i \in DOMAIN a, a[i] = k PROVE In(s, k) \/ k = e
    BY <1>2, <1>3, <2>1 DEF In
  <2>2. ASSUME NEW i \in DOMAIN s, s[i] = k PROVE In(a, k)
    BY <1>2, <1>3, <2>2 DEF In
  <2>3. k = e => In(a, k)
    BY <1>2, <1>3 DEF In
  <2> QED
    BY <2>1, <2>2, <2>3 DEF In
<1> QED
  BY <1>4 DEF a

LEMMA InHeadTail ==
  ASSUME NEW S, NEW s \in Seq(S), s # <<>>, NEW k
  PROVE  In(s, k) <=> k = Head(s) \/ In(Tail(s), k)
<1>1. /\ Tail(s) \in Seq(S) /\ Len(Tail(s)) = Len(s) - 1 /\ Head(s) = s[1]
      /\ \A i \in 1 .. Len(Tail(s)) : Tail(s)[i] = s[i + 1]
      /\ Len(s) \in Nat \ {0} /\ DOMAIN s = 1 .. Len(s)
  BY HeadTailProperties, EmptySeq, LenProperties
<1>2. DOMAIN Tail(s) = 1 .. Len(s) - 1
  BY <1>1, LenProperties
<1> DEFINE t == Tail(s)
<1> HIDE DEF t
<1>3. DOMAIN t = 1 .. Len(s) - 1 /\ \A i \in 1 .. Len(s) - 1 : t[i] = s[i + 1]
  BY <1>1, <1>2 DEF t
<1>4. ASSUME NEW i \in DOMAIN s, s[i] = k PROVE k = Head(s) \/ In(t, k)
  <2>1. CASE i = 1
    BY <1>1, <1>4, <2>1
  <2>2. CASE i # 1
    <3>1. i - 1 \in DOMAIN t /\ (i - 1) + 1 = i
      BY <1>1, <1>3, <2>2
    <3>2. t[i - 1] = k
      BY <1>3, <1>4, <3>1
    <3> QED
      BY <3>1, <3>2 DEF In
  <2> QED
    BY <2>1, <2>2
<1>5. ASSUME NEW i \in DOMAIN t, t[i] = k PROVE In(s, k)
  <2>1. i + 1 \in DOMAIN s /\ s[i + 1] = k
    BY <1>1, <1>3, <1>5
  <2> QED
    BY <2>1 DEF In
<1>6. k = Head(s) => In(s, k)
  BY <1>1 DEF In
<1> QED
  BY <1>4, <1>5, <1>6 DEF In, t

\* ReadKeyStroke takes the first key of the queue: those behind it are larger.
LEMMA KeyStrokeOrder ==
  ASSUME KeysInv, OrderInv, KeyStroke, typed' = typed
  PROVE  /\ pending_key < pending_key' /\ pending_key' <= typed'
         /\ \A i \in DOMAIN queue' :
              pending_key' < queue'[i] /\ queue'[i] <= typed'
         /\ \A i, j \in DOMAIN queue' : i < j => queue'[i] < queue'[j]
         /\ Len(queue') <= typed'
         /\ \A k : In(queue, k) => k = pending_key' \/ In(queue', k)
<1>1. /\ queue \in Seq(1 .. Last) /\ queue # <<>>
      /\ pending_key' = Head(queue) /\ queue' = Tail(queue)
  BY DEF KeysInv, KeyStroke
<1>2. /\ Head(queue) = queue[1] /\ Len(queue') = Len(queue) - 1
      /\ Len(queue) \in Nat \ {0} /\ queue' \in Seq(1 .. Last)
      /\ \A i \in 1 .. Len(queue') : queue'[i] = queue[i + 1]
  BY <1>1, HeadTailProperties, EmptySeq, LenProperties
<1>3. /\ DOMAIN queue = 1 .. Len(queue) /\ DOMAIN queue' = 1 .. Len(queue) - 1
      /\ \A i \in DOMAIN queue : queue[i] \in Int
      /\ typed \in Int /\ pending_key \in Int
  BY <1>2, GatheredIs, LenProperties
<1>4. /\ \A i \in DOMAIN queue' :
           /\ i \in Int /\ i + 1 \in DOMAIN queue /\ 1 \in DOMAIN queue
           /\ 1 < i + 1 /\ queue'[i] = queue[i + 1]
      /\ 1 \in DOMAIN queue
  BY <1>2, <1>3
<1>5. \A i, j \in DOMAIN queue' : i < j => i + 1 < j + 1
  BY <1>3
<1>6. pending_key < pending_key' /\ pending_key' <= typed'
  BY <1>1, <1>2, <1>4 DEF OrderInv
<1>7. \A i \in DOMAIN queue' : pending_key' < queue'[i] /\ queue'[i] <= typed'
  BY <1>1, <1>2, <1>4 DEF OrderInv
<1>8. \A i, j \in DOMAIN queue' : i < j => queue'[i] < queue'[j]
  BY <1>4, <1>5 DEF OrderInv
<1>9. Len(queue') <= typed'
  BY <1>2, <1>3 DEF OrderInv
<1>10. \A k : In(queue, k) => k = pending_key' \/ In(queue', k)
  BY <1>1, InHeadTail
<1> QED
  BY <1>6, <1>7, <1>8, <1>9, <1>10

LEMMA DataReadyOrder ==
  ASSUME KeysInv, OrderInv, NEW yes \in BOOLEAN, DataReady(yes),
         typed' = typed, Gathered' = Gathered
  PROVE  OrderInv'
<1>1. CASE UNCHANGED <<queue, pending_key, pending_key_valid>>
  BY <1>1 DEF OrderInv, Kept, In
<1>2. CASE pending_key_valid = 0 /\ KeyStroke /\ pending_key_valid' = 1
  <2>1. /\ \A i \in DOMAIN Gathered' : Gathered'[i] <= pending_key'
        /\ \A i, j \in DOMAIN Gathered' : i < j => Gathered'[i] <= Gathered'[j]
    <3>1. pending_key < pending_key' /\ pending_key \in Int /\ pending_key' \in Int
      <4>1. queue \in Seq(1 .. Last) /\ queue # <<>>
        BY <1>2 DEF KeyStroke, KeysInv
      <4>2. pending_key' \in 1 .. Last
        BY <1>2, <4>1, HeadTailProperties DEF KeyStroke
      <4> QED
        BY <1>2, <4>2, KeyStrokeOrder, GatheredIs
    <3> QED
      BY <3>1, GatheredIs DEF OrderInv
  <2>2. ASSUME typed' <= QUEUE_SIZE, NEW k \in 1 .. typed' PROVE Kept(k)'
    <3>1. Kept(k)
      BY <2>2 DEF OrderInv
    <3>2. In(Gathered, k) => In(Gathered', k)
      BY DEF In
    <3>3. In(queue, k) => k = pending_key' \/ In(queue', k)
      BY <1>2, KeyStrokeOrder
    <3> QED
      BY <1>2, <3>1, <3>2, <3>3 DEF Kept, In
  <2> QED
    BY <1>2, <2>1, <2>2, KeyStrokeOrder DEF OrderInv
<1> QED
  BY <1>1, <1>2 DEF DataReady

LEMMA KeyPressedOrder ==
  ASSUME KeysAssumption, KeysInv, OrderInv, KeyPressed PROVE OrderInv'
<1>1. /\ Gathered' = Gathered /\ typed' = typed + 1 /\ typed' \in 1 .. Last
      /\ UNCHANGED <<pending_key, pending_key_valid>>
  BY DEF KeysAssumption, KeysInv, KeyPressed, Gathered, KeysOf
<1>2. /\ \A i, j \in DOMAIN Gathered' : i < j => Gathered'[i] <= Gathered'[j]
      /\ \A i \in DOMAIN Gathered' : Gathered'[i] <= pending_key'
      /\ pending_key' <= typed'
  BY <1>1, GatheredIs DEF OrderInv
<1>3. CASE Len(queue) < QUEUE_SIZE
  <2>1. queue' = Append(queue, typed')
    BY <1>3 DEF KeyPressed
  <2>2. /\ Len(queue') = Len(queue) + 1 /\ queue'[Len(queue) + 1] = typed'
        /\ queue' \in Seq(1 .. Last)
        /\ \A i \in 1 .. Len(queue) : queue'[i] = queue[i]
    BY <1>1, <2>1, GatheredIs, AppendProperties
  <2>3. DOMAIN queue' = 1 .. Len(queue) + 1
    BY <2>2, LenProperties
  <2>4. \A i \in DOMAIN queue' : pending_key' < queue'[i] /\ queue'[i] <= typed'
    <3> TAKE i \in DOMAIN queue'
    <3>1. CASE i \in DOMAIN queue
      BY <1>1, <2>2, <3>1, GatheredIs DEF OrderInv
    <3>2. CASE i = Len(queue) + 1
      BY <1>1, <2>2, <3>2, GatheredIs DEF OrderInv
    <3> QED
      BY <2>3, <3>1, <3>2, GatheredIs
  <2>5. \A i, j \in DOMAIN queue' : i < j => queue'[i] < queue'[j]
    <3> SUFFICES ASSUME NEW i \in DOMAIN queue', NEW j \in DOMAIN queue', i < j
                 PROVE  queue'[i] < queue'[j]
      OBVIOUS
    <3>1. i \in DOMAIN queue /\ queue'[i] = queue[i]
      BY <2>2, <2>3, GatheredIs
    <3>2. CASE j \in DOMAIN queue
      BY <2>2, <3>1, <3>2, GatheredIs DEF OrderInv
    <3>3. CASE j = Len(queue) + 1
      <4>1. queue[i] <= typed /\ queue[i] \in Int /\ typed \in Int
        BY <3>1, GatheredIs DEF OrderInv
      <4> QED
        BY <1>1, <2>2, <3>1, <3>3, <4>1
    <3> QED
      BY <2>3, <3>2, <3>3, GatheredIs
  <2>6. Len(queue') <= typed'
    BY <1>1, <2>2, GatheredIs DEF OrderInv
  <2>7. ASSUME typed' <= QUEUE_SIZE, NEW k \in 1 .. typed' PROVE Kept(k)'
    <3>1. In(queue', k) <=> In(queue, k) \/ k = typed'
      <4>1. queue \in Seq(1 .. Last) /\ typed' \in 1 .. Last
        BY <1>1, GatheredIs
      <4>2. In(Append(queue, typed'), k) <=> In(queue, k) \/ k = typed'
        BY <4>1, InAppend
      <4> QED
        BY <2>1, <4>2
    <3>2. In(Gathered, k) => In(Gathered', k)
      BY <1>1 DEF In
    <3>3. k = typed' \/ Kept(k)
      <4>1. typed <= QUEUE_SIZE /\ (k = typed' \/ k \in 1 .. typed)
        BY <1>1, <2>7, GatheredIs DEF KeysAssumption
      <4> QED
        BY <4>1 DEF OrderInv
    <3> QED
      BY <1>1, <3>1, <3>2, <3>3 DEF Kept, In
  <2> QED
    BY <1>2, <2>4, <2>5, <2>6, <2>7 DEF OrderInv
<1>4. CASE ~(Len(queue) < QUEUE_SIZE)
  <2>1. queue' = queue
    BY <1>4 DEF KeyPressed
  <2>2. ~(typed' <= QUEUE_SIZE)
    BY <1>1, <1>4, GatheredIs DEF OrderInv, KeysAssumption
  <2>3. \A i \in DOMAIN queue' : pending_key' < queue'[i] /\ queue'[i] <= typed'
    BY <1>1, <2>1, GatheredIs DEF OrderInv
  <2>4. Len(queue') <= typed'
    BY <1>1, <2>1, GatheredIs DEF OrderInv
  <2> QED
    BY <1>2, <2>1, <2>2, <2>3, <2>4 DEF OrderInv
<1> QED
  BY <1>3, <1>4

\* getc gives the program a key no smaller than any it has had.
LEMMA StoreOrder ==
  ASSUME KeysAssumption, KeysInv, OrderInv, Store PROVE OrderInv'
<1>1. PICK k \in Key : GetC(k) /\ buf' = Append(buf, Got(k))
  BY DEF Store, Key
<1>2. Gathered' = Append(Gathered, k)
  <2>1. taken' = taken /\ taken \in Seq(Item) /\ buf \in Seq(Item) /\ Got(k) \in Item
    BY GotKey DEF Store, KeysInv
  <2>2. taken' \o buf' = Append(taken \o buf, Got(k))
    BY <1>1, <2>1, AppendBehind
  <2>3. Gathered' = KeysOf(Append(taken \o buf, Got(k)))
    BY <2>2 DEF Gathered, KeysOf
  <2> QED
    BY <2>3, GatheredIs, KeysOfAppend DEF Gathered
<1>3. /\ typed' = typed /\ k = pending_key' /\ pending_key_valid' = 0
      /\ typed \in Int /\ k \in Int
  BY <1>1, GatheredIs DEF Store, GetC, Key
<1>4. /\ pending_key <= k /\ pending_key' <= typed'
      /\ \A i \in DOMAIN queue' : pending_key' < queue'[i] /\ queue'[i] <= typed'
      /\ \A i, j \in DOMAIN queue' : i < j => queue'[i] < queue'[j]
      /\ Len(queue') <= typed'
      /\ \A m : In(queue, m) => m = k \/ In(queue', m)
      /\ pending_key_valid = 1 => k = pending_key
  <2>1. CASE UNCHANGED <<queue, pending_key>>
    <3>1. \A m : In(queue, m) => In(queue', m)
      BY <2>1 DEF In
    <3>2. pending_key <= k /\ pending_key' <= typed' /\ Len(queue') <= typed'
      BY <1>3, <2>1, GatheredIs DEF OrderInv
    <3>3. /\ \A i \in DOMAIN queue' :
               pending_key' < queue'[i] /\ queue'[i] <= typed'
          /\ \A i, j \in DOMAIN queue' : i < j => queue'[i] < queue'[j]
      BY <1>3, <2>1 DEF OrderInv
    <3> QED
      BY <1>3, <2>1, <3>1, <3>2, <3>3
  <2>2. CASE pending_key_valid = 0 /\ KeyStroke
    BY <1>3, <2>2, KeyStrokeOrder, GatheredIs
  <2>3. pending_key_valid \in {0, 1}
    BY DEF KeysInv
  <2> QED
    BY <1>1, <2>1, <2>2, <2>3 DEF GetC, DeviceError
<1> DEFINE g == Gathered
           h == Append(g, k)
<1>5. /\ DOMAIN g = 1 .. Len(g) /\ Len(g) \in Nat /\ g \in Seq(Key)
      /\ \A i \in 1 .. Len(g) : g[i] <= pending_key /\ g[i] \in Int
      /\ \A i, j \in 1 .. Len(g) : i < j => g[i] <= g[j]
      /\ pending_key \in Int
  BY GatheredIs DEF OrderInv
<1> HIDE DEF g
<1>6. /\ DOMAIN h = 1 .. Len(g) + 1 /\ h[Len(g) + 1] = k
      /\ \A i \in 1 .. Len(g) : h[i] = g[i]
  BY <1>5, AppendProperties, LenProperties
<1>7. Gathered' = h
  BY <1>2 DEF g
<1> HIDE DEF h
<1>8. \A i \in DOMAIN h : h[i] <= k
  BY <1>3, <1>4, <1>5, <1>6
<1>9. \A i, j \in DOMAIN h : i < j => h[i] <= h[j]
  <2> SUFFICES ASSUME NEW i \in DOMAIN h, NEW j \in DOMAIN h, i < j
               PROVE  h[i] <= h[j]
    OBVIOUS
  <2>1. CASE j = Len(g) + 1
    BY <1>6, <1>8, <2>1
  <2>2. CASE j \in 1 .. Len(g)
    BY <1>5, <1>6, <2>2
  <2> QED
    BY <1>5, <1>6, <2>1, <2>2
<1>10. ASSUME typed' <= QUEUE_SIZE, NEW m \in 1 .. typed' PROVE Kept(m)'
  <2>1. Kept(m)
    BY <1>3, <1>10 DEF OrderInv
  <2>2. In(Gathered', m) <=> In(Gathered, m) \/ m = k
    BY <1>1, <1>2, GatheredIs, InAppend
  <2> QED
    BY <1>4, <2>1, <2>2 DEF Kept, In
<1> QED
  BY <1>3, <1>4, <1>7, <1>8, <1>9, <1>10 DEF OrderInv

LEMMA NextOrderInv ==
  ASSUME KeysAssumption, KeysInv, OrderInv, [Next]_vars PROVE OrderInv'
<1>1. CASE KeyPressed
  BY <1>1, KeyPressedOrder
<1>2. CASE Test \/ DrainMore
  <2>1. Gathered' = Gathered /\ typed' = typed
    BY <1>2 DEF Test, DrainMore, Gathered, KeysOf
  <2> QED
    BY <1>2, <2>1, DataReadyOrder DEF Test, DrainMore
<1>3. CASE ReadCall \/ UNCHANGED vars
  <2>1. /\ Gathered' = Gathered /\ typed' = typed
        /\ UNCHANGED <<queue, pending_key, pending_key_valid>>
    BY <1>3 DEF ReadCall, Read, vars, Gathered, KeysOf
  <2> QED
    BY <2>1 DEF OrderInv, Kept, In
<1>4. CASE Store
  BY <1>4, StoreOrder
<1>5. CASE Returns
  <2>1. Gathered' = Gathered
    <3>1. taken' = taken \o buf /\ buf' = <<>>
      BY <1>5 DEF Returns
    <3>2. taken' \o buf' = taken \o buf
      BY <3>1, GatheredIs, ConcatEmptySeq
    <3> QED
      BY <3>2 DEF Gathered, KeysOf
  <2>2. typed' = typed
    BY <1>5 DEF Returns
  <2>3. CASE UNCHANGED <<queue, pending_key, pending_key_valid>>
    BY <2>1, <2>2, <2>3 DEF OrderInv, Kept, In
  <2> QED
    BY <1>5, <2>1, <2>2, <2>3, DataReadyOrder DEF Returns
<1> QED
  BY <1>1, <1>2, <1>3, <1>4, <1>5 DEF Next, Driver

\* When the keyboard fails, uefi_console_getc may hand out the last key again,
\* but never one out of order, and it skips none before the firmware can have
\* dropped one, however tests, reads and failures follow each other.
THEOREM FailuresOnlyRepeat == KeysAssumption /\ Spec => []ErrorsOnlyRepeat
<1> SUFFICES ASSUME KeysAssumption PROVE Spec => []ErrorsOnlyRepeat
  OBVIOUS
<1>1. Init => OrderInv
  BY InitOrderInv
<1>2. KeysInv /\ OrderInv /\ [Next]_vars => OrderInv'
  BY NextOrderInv
<1>3. KeysInv /\ OrderInv => ErrorsOnlyRepeat
  BY OrderInvImplies
<1>4. Spec => []KeysInv
  BY AlwaysKeysInv
<1> QED
  BY <1>1, <1>2, <1>3, <1>4, PTL DEF Spec

\* The variables keep their types; a read in progress fills a buffer of its
\* length (uefi_console_read).
THEOREM KeysTypeCorrect == KeysAssumption /\ Spec => []TypeOK
<1> SUFFICES ASSUME KeysAssumption PROVE Spec => []TypeOK
  OBVIOUS
<1>1. KeysInv => TypeOK
  BY DEF KeysInv, TypeOK, Key
<1> QED
  BY <1>1, AlwaysKeysInv, PTL
=============================================================================
