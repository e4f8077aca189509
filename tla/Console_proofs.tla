--------------------------- MODULE Console_proofs ---------------------------
(***************************************************************************)
(* Proofs about SerialConsole, for a FIFO of any size, any number of bytes *)
(* and any calls, that it implements ByteStream among them; and about      *)
(* MCConsole, which puts the serial and the UEFI console in one            *)
(* specification: what UefiKeys_proofs shows of the keyboard is taken from *)
(* there.  The second half is about the screen, for any tokens, any number *)
(* of parameters and anything a read past their array yields.              *)
(***************************************************************************)
EXTENDS MCConsole, SequenceTheorems, FiniteSetTheorems, WellFoundedInduction,
        TLAPS

KeyProofs == INSTANCE UefiKeys_proofs WITH
  Last <- LastKey, ReadLen <- KeysReadLen,
  typed <- pressed, pc <- where, buf <- keysBuf, taken <- got

Byte == 1 .. Last
Events == {"POLLIN", "POLLOUT"}

-----------------------------------------------------------------------------
\* The inductive invariant: what a call in progress has, and that an answer
\* "readable", given or in the making, has a byte to show for it.
Reading ==
  /\ call.call = "read" /\ call.len \in Nat \ {0} /\ buf \in Seq(Byte)
  /\ pc = "drain" => Len(buf) \in 1 .. call.len

Polling ==
  /\ call.call \in {"poll", "ppoll"} /\ call.fds \in PollArg
  /\ buf \in Seq(SUBSET Events)
  /\ (\E i \in DOMAIN buf : "POLLIN" \in buf[i]) => serial_data_ready

SerialInv ==
  /\ typed \in 0 .. Last
  /\ fifo \in Seq(Byte) /\ Len(fifo) <= FIFO_SIZE
  /\ taken \in Seq(Byte)
  /\ pc \in {"boot", "program", "getc", "drain", "poll"}
  /\ pc \in {"getc", "drain"} => Reading
  /\ pc = "poll" => Polling
  /\ reply.count \in Nat /\ reply.stdin \in BOOLEAN
  /\ reply.stdin => pc = "program" /\ serial_data_ready

LEMMA SerialInvImplies ==
  SerialInv => TypeOK /\ ReadFitsBuffer /\ ReadableIsTrue
  BY DEF SerialInv, Reading, Polling, Byte, TypeOK, ReadFitsBuffer,
         ReadableIsTrue

LEMMA InitSerialInv == Init => SerialInv
<1> SUFFICES ASSUME Init PROVE SerialInv
  OBVIOUS
<1>1. fifo \in Seq(Byte) /\ Len(fifo) = 0 /\ taken \in Seq(Byte)
  BY EmptySeq DEF Init
<1>2. typed \in 0 .. Last /\ Len(fifo) <= FIFO_SIZE
  BY <1>1, ConsoleAssumption DEF Init
<1> QED
  BY <1>1, <1>2 DEF Init, NoReply, SerialInv

LEMMA PollArgs ==
  ASSUME NEW fds \in PollArg
  PROVE  /\ Len(fds) \in Nat
         /\ \A i \in 1 .. Len(fds) : fds[i].events \subseteq Events
<1>1. fds \in Seq(PollEntry)
  BY ConsoleAssumption
<1>2. /\ Len(fds) \in Nat /\ \A i \in 1 .. Len(fds) : fds[i] \in PollEntry
  BY <1>1, LenProperties, ElementOfSeq
<1> QED
  BY <1>2 DEF PollEntry, Events

LEMMA ReadyEntriesIsNat ==
  ASSUME NEW S, buf \in Seq(S) PROVE ReadyEntries \in Nat
<1>1. Len(buf) \in Nat /\ DOMAIN buf = 1 .. Len(buf)
  BY LenProperties
<1>2. IsFiniteSet(1 .. Len(buf))
  BY <1>1, FS_Interval
<1>3. IsFiniteSet({i \in DOMAIN buf : buf[i] # {}})
  BY <1>1, <1>2, FS_Subset
<1> QED
  BY <1>3, FS_CardinalityType DEF ReadyEntries

\* A call begins: nothing is in its buffer and nothing has been answered.
LEMMA EnterStep ==
  ASSUME SerialInv, NEW place, NEW args, Enter(place, args),
         \/ place = "program"
         \/ /\ place = "getc" /\ args.call = "read" /\ args.len \in Nat \ {0}
         \/ /\ place = "poll" /\ args.call \in {"poll", "ppoll"}
            /\ args.fds \in PollArg
  PROVE  SerialInv'
<1>1. \A S : <<>> \in Seq(S)
  BY EmptySeq
<1> QED
  BY <1>1 DEF Enter, SerialInv, Reading, Polling, NoReply, serial_data_ready

LEMMA HostTypesStep == ASSUME SerialInv, HostTypes PROVE SerialInv'
<1>1. typed' \in Byte /\ typed' \in 0 .. Last
  BY ConsoleAssumption DEF SerialInv, HostTypes, Byte
<1>2. /\ fifo' \in Seq(Byte) /\ Len(fifo') <= FIFO_SIZE
      /\ fifo # <<>> => fifo' # <<>>
  <2>1. CASE Len(fifo) < FIFO_SIZE
    <3>1. fifo' = Append(fifo, typed') /\ Len(fifo) \in Nat
      BY <2>1, LenProperties DEF HostTypes, SerialInv
    <3>2. /\ fifo' \in Seq(Byte) /\ fifo' # <<>> /\ Len(fifo') = Len(fifo) + 1
      BY <1>1, <3>1, AppendProperties DEF SerialInv
    <3> QED
      BY <2>1, <3>1, <3>2, ConsoleAssumption
  <2>2. CASE ~(Len(fifo) < FIFO_SIZE)
    BY <2>2 DEF HostTypes, SerialInv
  <2> QED
    BY <2>1, <2>2
<1> QED
  BY <1>1, <1>2
  DEF HostTypes, SerialInv, Reading, Polling, serial_data_ready

LEMMA NextSerialInv == ASSUME SerialInv, [Next]_vars PROVE SerialInv'
<1>1. CASE HostTypes
  BY <1>1, HostTypesStep
<1>2. CASE SerialInit
  <2>1. fifo' \in Seq(Byte) /\ Len(fifo') = 0 /\ 0 <= FIFO_SIZE
    BY <1>2, EmptySeq, ConsoleAssumption DEF SerialInit
  <2> QED
    BY <1>2, <2>1 DEF SerialInit, SerialInv
<1>3. CASE GetC
  <2>1. /\ Head(fifo) \in Byte /\ Tail(fifo) \in Seq(Byte)
        /\ Len(Tail(fifo)) = Len(fifo) - 1 /\ Len(fifo) \in Nat
    BY <1>3, HeadTailProperties, LenProperties
    DEF GetC, SerialInv, serial_data_ready
  <2>2. buf' \in Seq(Byte) /\ Len(buf') = 1
    BY <1>3, <2>1 DEF GetC
  <2>3. Len(fifo') <= FIFO_SIZE
    BY <1>3, <2>1, ConsoleAssumption DEF GetC, SerialInv
  <2> QED
    BY <1>3, <2>1, <2>2, <2>3 DEF GetC, SerialInv, Reading
<1>4. CASE DrainOne
  <2>1. /\ buf \in Seq(Byte) /\ Len(buf) \in 1 .. call.len
        /\ Len(buf) < call.len /\ call.len \in Nat /\ fifo \in Seq(Byte)
        /\ fifo # <<>> /\ Reading
    BY <1>4 DEF DrainOne, SerialInv, Reading, serial_data_ready
  <2>2. /\ fifo' \in Seq(Byte) /\ Len(fifo') = Len(fifo) - 1
        /\ Len(fifo) \in Nat
        /\ buf' \in Seq(Byte) /\ Len(buf') = Len(buf) + 1
    BY <1>4, <2>1, KeyProofs!MoveOne DEF DrainOne, Stored
  <2>3. Len(fifo') <= FIFO_SIZE /\ Len(buf') \in 1 .. call.len
    BY <2>1, <2>2, ConsoleAssumption DEF SerialInv
  <2> QED
    BY <1>4, <2>1, <2>2, <2>3 DEF DrainOne, SerialInv, Reading
<1>5. CASE ReadReturns
  <2>1. taken' \in Seq(Byte)
    BY <1>5, ConcatProperties DEF ReadReturns, SerialInv, Reading
  <2> QED
    BY <1>5, <2>1 DEF ReadReturns, SerialInv
<1>6. CASE PollNext
  <2> DEFINE e == call.fds[Len(buf) + 1]
  <2>1. /\ call.fds \in PollArg /\ buf \in Seq(SUBSET Events) /\ Len(buf) \in Nat
        /\ Len(buf) < Len(call.fds)
    BY <1>6, LenProperties DEF PollNext, SerialInv, Polling
  <2>2. Len(buf) + 1 \in 1 .. Len(call.fds)
    BY <2>1, PollArgs
  <2>3. e.events \subseteq Events
    BY <2>1, <2>2, PollArgs
  <2>4. /\ Revents(e) \in SUBSET Events
        /\ "POLLIN" \in Revents(e) => serial_data_ready
    BY <2>3 DEF Revents
  <2> HIDE DEF e
  <2>5. /\ Append(buf, Revents(e)) \in Seq(SUBSET Events)
        /\ Len(Append(buf, Revents(e))) = Len(buf) + 1
        /\ \A i \in 1 .. Len(buf) : Append(buf, Revents(e))[i] = buf[i]
        /\ Append(buf, Revents(e))[Len(buf) + 1] = Revents(e)
    BY <2>1, <2>4, AppendProperties
  <2>6. buf' = Append(buf, Revents(e))
    BY <1>6 DEF PollNext, e
  <2>7. /\ DOMAIN buf = 1 .. Len(buf) /\ DOMAIN buf' = 1 .. Len(buf')
    BY <2>1, <2>5, <2>6, LenProperties
  <2>8. ASSUME NEW i \in DOMAIN buf', "POLLIN" \in buf'[i]
        PROVE  serial_data_ready
    <3>1. CASE i \in 1 .. Len(buf)
      BY <1>6, <2>5, <2>6, <2>7, <2>8, <3>1 DEF PollNext, SerialInv, Polling
    <3>2. CASE i = Len(buf) + 1
      BY <2>4, <2>5, <2>6, <2>8, <3>2
    <3> QED
      BY <2>1, <2>5, <2>6, <2>7, <3>1, <3>2
  <2> QED
    BY <1>6, <2>1, <2>5, <2>6, <2>8
    DEF PollNext, SerialInv, Polling, serial_data_ready
<1>7. CASE PollReturns
  <2>1. ReadyEntries \in Nat
    BY <1>7, ReadyEntriesIsNat DEF PollReturns, SerialInv, Polling
  <2> QED
    BY <1>7, <2>1 DEF PollReturns, SerialInv, Polling, serial_data_ready
<1>8. CASE ReadCall
  <2>1. PICK asked \in ReadLen : SerialRead(asked)
    BY <1>8 DEF ReadCall
  <2>2. asked \in Nat
    BY ConsoleAssumption
  <2> QED
    BY <2>1, <2>2, EnterStep DEF SerialRead
<1>9. CASE PollCall
  BY <1>9, EnterStep DEF PollCall, Poll
<1>10. CASE SelectCall
  BY <1>10 DEF SelectCall, Pselect, SerialInv, serial_data_ready
<1>11. CASE UNCHANGED vars
  BY <1>11 DEF vars, SerialInv, Reading, Polling, serial_data_ready
<1> QED
  BY <1>1, <1>2, <1>3, <1>4, <1>5, <1>6, <1>7, <1>8, <1>9, <1>10, <1>11
  DEF Next, Driver

LEMMA AlwaysSerialInv == Spec => []SerialInv
  BY InitSerialInv, NextSerialInv, PTL DEF Spec

\* "Read up to `len` bytes" (serial_read): never more than the buffer holds,
\* however fast bytes arrive.
THEOREM ReadsStayInBuffer == Spec => []ReadFitsBuffer
  BY AlwaysSerialInv, SerialInvImplies, PTL

\* "Readable" stays true until the program reads (sys_poll, sys_ppoll,
\* sys_pselect6), whenever bytes arrive.
THEOREM ReadableAnswersHold == Spec => []ReadableIsTrue
  BY AlwaysSerialInv, SerialInvImplies, PTL

-----------------------------------------------------------------------------
(* The bytes that wait for the program, and the steps of ByteStream. *)

Waiting == (IF pc = "drain" THEN buf ELSE <<>>) \o fifo

LEMMA WaitingIs ==
  ASSUME SerialInv
  PROVE  /\ pc # "drain" => Waiting = fifo
         /\ Waiting \in Seq(Byte)
<1>1. fifo \in Seq(Byte) /\ <<>> \o fifo = fifo /\ <<>> \in Seq(Byte)
  BY ConcatEmptySeq, EmptySeq DEF SerialInv
<1>2. CASE pc = "drain"
  <2>1. buf \in Seq(Byte)
    BY <1>2 DEF SerialInv, Reading
  <2> QED
    BY <1>1, <1>2, <2>1, ConcatProperties DEF Waiting
<1> QED
  BY <1>1, <1>2 DEF Waiting

LEMMA InitStream == Init => Stream!Init
<1> SUFFICES ASSUME Init PROVE Stream!Init
  OBVIOUS
<1>1. <<>> \o <<>> = <<>>
  BY ConcatEmptySeq, EmptySeq
<1> QED
  BY <1>1 DEF Init, Stream!Init

LEMMA HostTypesStream == ASSUME SerialInv, HostTypes PROVE Stream!Type
<1> DEFINE front == IF pc = "drain" THEN buf ELSE <<>>
<1>1. /\ front \in Seq(Byte) /\ fifo \in Seq(Byte) /\ typed' \in Byte
      /\ Waiting = front \o fifo /\ Waiting' = front \o fifo'
  <2>1. typed' \in Byte /\ fifo \in Seq(Byte)
    BY ConsoleAssumption DEF SerialInv, HostTypes, Byte
  <2>2. <<>> \in Seq(Byte)
    BY EmptySeq
  <2>3. front \in Seq(Byte)
    BY <2>2 DEF SerialInv, Reading
  <2>4. Waiting = front \o fifo /\ Waiting' = front \o fifo'
    BY DEF Waiting, HostTypes
  <2> QED
    BY <2>1, <2>3, <2>4
<1> HIDE DEF front
<1>2. \/ Waiting' = Append(Waiting, typed')
      \/ Len(Waiting) >= FIFO_SIZE /\ Waiting' = Waiting
  <2>1. CASE Len(fifo) < FIFO_SIZE
    BY <1>1, <2>1, KeyProofs!AppendBehind DEF HostTypes
  <2>2. CASE ~(Len(fifo) < FIFO_SIZE)
    <3>1. Len(front \o fifo) = Len(front) + Len(fifo)
      BY <1>1, ConcatProperties
    <3>2. Len(front) \in Nat /\ Len(fifo) \in Nat
      BY <1>1, LenProperties
    <3>3. Len(Waiting) >= FIFO_SIZE
      BY <1>1, <2>2, <3>1, <3>2, ConsoleAssumption
    <3>4. Waiting' = Waiting
      BY <1>1, <2>2 DEF HostTypes
    <3> QED
      BY <3>3, <3>4
  <2> QED
    BY <2>1, <2>2
<1> QED
  BY <1>2 DEF HostTypes, Stream!Type, Waiting

\* The bytes of a finished read are a prefix of those that waited.
LEMMA ReadReturnsStream == ASSUME SerialInv, ReadReturns PROVE Stream!Take
<1>1. /\ buf \in Seq(Byte) /\ fifo \in Seq(Byte) /\ Len(buf) \in 1 .. call.len
      /\ Waiting = buf \o fifo
  BY DEF SerialInv, Reading, ReadReturns, Waiting
<1>2. buf # <<>>
  BY <1>1, EmptySeq, ConsoleAssumption
<1>3. /\ Len(buf) \in 1 .. Len(Waiting)
      /\ SubSeq(Waiting, 1, Len(buf)) = buf
      /\ SubSeq(Waiting, Len(buf) + 1, Len(Waiting)) = fifo
  BY <1>1, <1>2, KeyProofs!TakeFront
<1>4. Waiting' = fifo
  BY <1>1, ConcatEmptySeq DEF ReadReturns, Waiting
<1>5. /\ taken' = taken \o SubSeq(Waiting, 1, Len(buf))
      /\ Waiting' = SubSeq(Waiting, Len(buf) + 1, Len(Waiting))
  BY <1>3, <1>4 DEF ReadReturns
<1>6. pc # "boot" /\ pc' # "boot" /\ typed' = typed
  BY DEF ReadReturns
<1> QED
  BY <1>3, <1>5, <1>6 DEF Stream!Take, Waiting

\* A byte taken from the FIFO into serial_read's buffer still waits.
LEMMA GetCStream == ASSUME SerialInv, GetC \/ DrainOne PROVE Waiting' = Waiting
<1>1. CASE GetC
  <2>1. fifo \in Seq(Byte) /\ fifo # <<>> /\ <<>> \in Seq(Byte)
    BY <1>1, EmptySeq DEF GetC, SerialInv, serial_data_ready
  <2>2. Append(<<>>, Head(fifo)) \o Tail(fifo) = <<>> \o fifo
    BY <2>1, KeyProofs!MoveOne
  <2>3. Append(<<>>, Head(fifo)) = <<Head(fifo)>>
    OBVIOUS
  <2> QED
    BY <1>1, <2>2, <2>3 DEF GetC, Waiting
<1>2. CASE DrainOne
  <2>1. buf \in Seq(Byte) /\ fifo \in Seq(Byte) /\ fifo # <<>>
    BY <1>2 DEF DrainOne, SerialInv, Reading, serial_data_ready
  <2> QED
    BY <1>2, <2>1, KeyProofs!MoveOne DEF DrainOne, Stored, Waiting
<1> QED
  BY <1>1, <1>2

LEMMA SerialInitStream == ASSUME SerialInv, SerialInit PROVE Stream!SetUp
<1>1. <<>> \o <<>> = <<>>
  BY ConcatEmptySeq, EmptySeq
<1> QED
  BY <1>1 DEF SerialInit, Stream!SetUp

\* A step that leaves the bytes where they are and starts or ends no read.
LEMMA ElsewhereStream ==
  ASSUME UNCHANGED <<typed, fifo, taken>>, pc # "drain", pc' # "drain",
         (pc = "boot") <=> (pc' = "boot")
  PROVE  UNCHANGED Stream!vars
  BY DEF Stream!vars

LEMMA NextStream ==
  ASSUME SerialInv, [Next]_vars PROVE [Stream!Next]_(Stream!vars)
<1>1. CASE HostTypes
  BY <1>1, HostTypesStream DEF Stream!Next
<1>2. CASE SerialInit
  BY <1>2, SerialInitStream DEF Stream!Next
<1>3. CASE GetC \/ DrainOne
  <2>1. Waiting' = Waiting
    BY <1>3, GetCStream
  <2> QED
    BY <1>3, <2>1 DEF GetC, DrainOne, Stream!vars, Waiting
<1>4. CASE ReadReturns
  BY <1>4, ReadReturnsStream DEF Stream!Next
<1>5. CASE PollNext \/ PollReturns
  BY <1>5, ElsewhereStream DEF PollNext, PollReturns
<1>6. CASE ReadCall
  BY <1>6, ElsewhereStream DEF ReadCall, SerialRead, Enter
<1>7. CASE PollCall
  BY <1>7, ElsewhereStream DEF PollCall, Poll, Enter
<1>8. CASE SelectCall
  BY <1>8, ElsewhereStream DEF SelectCall, Pselect
<1>9. CASE UNCHANGED vars
  BY <1>9 DEF vars, Stream!vars
<1> QED
  BY <1>1, <1>2, <1>3, <1>4, <1>5, <1>6, <1>7, <1>8, <1>9 DEF Next, Driver

\* What the program reads from the serial line is what was typed, in order and
\* each byte once; a byte is lost only to a full FIFO or before serial_init
\* (serial_read, serial_getc), for a FIFO of any size and any calls.
THEOREM ImplementsByteStream == Spec => StreamSpec
  BY InitStream, NextStream, AlwaysSerialInv, PTL DEF Spec, StreamSpec, Stream!Spec

-----------------------------------------------------------------------------
(* Either console, as console.h compiles it into a kernel.  A step of one  *)
(* leaves the variables of the other alone.                                *)

LEMMA ConsoleInit == MCInit => Init /\ KeyProofs!Init /\ KeyProofs!KeysAssumption
<1>1. KeyProofs!KeysAssumption
  BY KeysAssumed DEF Keys!KeysAssumption, KeyProofs!KeysAssumption
<1> QED
  BY <1>1 DEF MCInit, Keys!Init, KeyProofs!Init, Keys!NoKey, KeyProofs!NoKey

\* The keyboard as UefiKeys_proofs has it.
LEMMA SameKeysNext == Keys!Next => KeyProofs!Next
<1>1. Keys!KeyPressed => KeyProofs!KeyPressed
  BY DEF Keys!KeyPressed, KeyProofs!KeyPressed
<1>2. \A yes : Keys!DataReady(yes) => KeyProofs!DataReady(yes)
  BY DEF Keys!DataReady, KeyProofs!DataReady, Keys!KeyStroke, KeyProofs!KeyStroke
<1>3. Keys!Test => KeyProofs!Test
  BY <1>2 DEF Keys!Test, KeyProofs!Test
<1>4. Keys!ReadCall => KeyProofs!ReadCall
  BY DEF Keys!ReadCall, KeyProofs!ReadCall, Keys!Read, KeyProofs!Read
<1>5. \A k : Keys!GetC(k) => KeyProofs!GetC(k)
  BY DEF Keys!GetC, KeyProofs!GetC, Keys!KeyStroke, KeyProofs!KeyStroke,
         Keys!DeviceError, KeyProofs!DeviceError
<1>6. \A k : Keys!Got(k) = KeyProofs!Got(k)
  BY DEF Keys!Got, KeyProofs!Got, Keys!Char, KeyProofs!Char, Keys!NoKey,
         KeyProofs!NoKey
<1>7. Keys!Store => KeyProofs!Store
  BY <1>5, <1>6 DEF Keys!Store, KeyProofs!Store
<1>8. Keys!DrainMore => KeyProofs!DrainMore
  BY <1>2 DEF Keys!DrainMore, KeyProofs!DrainMore, Keys!Room, KeyProofs!Room
<1>9. Keys!Returns => KeyProofs!Returns
  BY <1>2 DEF Keys!Returns, KeyProofs!Returns, Keys!Room, KeyProofs!Room
<1> QED
  BY <1>1, <1>3, <1>4, <1>7, <1>8, <1>9
  DEF Keys!Next, KeyProofs!Next, Keys!Driver, KeyProofs!Driver

mcVars == <<part, vars, keysVars, screenVars>>

LEMMA ConsoleNext ==
  ASSUME [MCNext]_mcVars PROVE [Next]_vars /\ [KeyProofs!Next]_(KeyProofs!vars)
<1>1. CASE part = "serial" /\ Next /\ UNCHANGED <<keysVars, screenVars>>
  BY <1>1 DEF keysVars, KeyProofs!vars
<1>2. CASE part = "keys" /\ Keys!Next /\ UNCHANGED <<vars, screenVars>>
  BY <1>2, SameKeysNext
<1>3. CASE part = "screen" /\ Screen!Next /\ UNCHANGED <<vars, keysVars>>
  BY <1>3 DEF keysVars, KeyProofs!vars
<1>4. CASE UNCHANGED mcVars
  BY <1>4 DEF mcVars, keysVars, KeyProofs!vars
<1> QED
  BY <1>1, <1>2, <1>3, <1>4 DEF MCNext

ConsoleInv == SerialInv /\ KeyProofs!KeysInv /\ KeyProofs!OrderInv

LEMMA AlwaysConsoleInv == MCSpec => []ConsoleInv
<1>1. KeyProofs!KeysAssumption
  BY KeysAssumed DEF Keys!KeysAssumption, KeyProofs!KeysAssumption
<1>2. MCInit => ConsoleInv
  BY ConsoleInit, InitSerialInv, KeyProofs!InitKeysInv, KeyProofs!InitOrderInv
  DEF ConsoleInv
<1>3. ConsoleInv /\ [MCNext]_mcVars => ConsoleInv'
  <2> SUFFICES ASSUME ConsoleInv, [MCNext]_mcVars PROVE ConsoleInv'
    OBVIOUS
  <2>1. [Next]_vars /\ [KeyProofs!Next]_(KeyProofs!vars)
    BY ConsoleNext
  <2>2. SerialInv'
    BY <2>1, NextSerialInv DEF ConsoleInv
  <2>3. KeyProofs!KeysInv'
    BY <1>1, <2>1, KeyProofs!NextKeysInv DEF ConsoleInv
  <2>4. KeyProofs!OrderInv'
    BY <1>1, <2>1, KeyProofs!NextOrderInv DEF ConsoleInv
  <2> QED
    BY <2>2, <2>3, <2>4 DEF ConsoleInv
<1> QED
  BY <1>2, <1>3, PTL DEF MCSpec, mcVars

\* On either console a read never stores more than its caller's buffer holds
\* (serial_read, uefi_console_read), however fast bytes or keys arrive.
THEOREM ReadsFitBuffers == MCSpec => []ReadsFit
<1>1. ConsoleInv => ReadsFit
  BY SerialInvImplies
  DEF ConsoleInv, ReadsFit, Keys!TypeOK, KeyProofs!KeysInv, KeyProofs!Key
<1> QED
  BY <1>1, AlwaysConsoleInv, PTL

\* A yes of uefi_console_data_ready stays true until the next read.
THEOREM ReadyStaysTrue == MCSpec => []ReadyIsTrue
<1>1. ConsoleInv => ReadyIsTrue
  <2> SUFFICES ASSUME KeyProofs!KeysInv, ready PROVE Keys!Pending \o queue # <<>>
    BY DEF ConsoleInv, ReadyIsTrue, Keys!ReadyIsTrue
  <2>1. Keys!Pending = KeyProofs!Pending
    BY DEF Keys!Pending, KeyProofs!Pending
  <2> QED
    BY <2>1, KeyProofs!AheadIs DEF KeyProofs!KeysInv, KeyProofs!Ahead
<1> QED
  BY <1>1, AlwaysConsoleInv, PTL

\* A failing keyboard makes uefi_console_getc repeat a key at most.
THEOREM ErrorsRepeatAtMost == MCSpec => []ErrorsOnlyRepeat
<1>1. ConsoleInv => ErrorsOnlyRepeat
  <2>1. \A s : Keys!KeysOf(s) = KeyProofs!KeysOf(s)
    BY DEF Keys!KeysOf, KeyProofs!KeysOf
  <2>2. KeyProofs!ErrorsOnlyRepeat => ErrorsOnlyRepeat
    BY <2>1
    DEF ErrorsOnlyRepeat, Keys!ErrorsOnlyRepeat, KeyProofs!ErrorsOnlyRepeat
  <2> QED
    BY <2>2, KeyProofs!OrderInvImplies DEF ConsoleInv
<1> QED
  BY <1>1, AlwaysConsoleInv, PTL

\* Both consoles are byte streams: what was typed reaches the program in order
\* and each byte or key once, lost only where the device has no room
\* (serial_read; uefi_console_read while the keyboard does not fail).
THEOREM BothImplementByteStream == MCSpec => BothStreams
<1>1. KeyProofs!KeysAssumption
  BY KeysAssumed DEF Keys!KeysAssumption, KeyProofs!KeysAssumption
<1>2. MCInit => Stream!Init
  BY ConsoleInit, InitStream
<1>3. ConsoleInv /\ [MCNext]_mcVars => [Stream!Next]_(Stream!vars)
  BY ConsoleNext, NextStream DEF ConsoleInv
<1>4. ConsoleInv /\ [MCNext]_mcVars =>
        [errors' = 0 => Keys!Stream!Type \/ Keys!Stream!Take]_(Keys!Stream!vars)
  <2>1. ASSUME ConsoleInv, [MCNext]_mcVars
        PROVE  [errors' = 0 => KeyProofs!Stream!Type \/ KeyProofs!Stream!Take]_
                 (KeyProofs!Stream!vars)
    BY <1>1, <2>1, ConsoleNext, KeyProofs!NextStream DEF ConsoleInv
  <2>2. /\ KeyProofs!Stream!Type => Keys!Stream!Type
        /\ KeyProofs!Stream!Take => Keys!Stream!Take
        /\ UNCHANGED KeyProofs!Stream!vars => UNCHANGED Keys!Stream!vars
    BY DEF KeyProofs!Stream!Type, Keys!Stream!Type, KeyProofs!Stream!Take,
           Keys!Stream!Take, KeyProofs!Stream!vars, Keys!Stream!vars,
           KeyProofs!KeysOf, Keys!KeysOf, KeyProofs!Pending, Keys!Pending
  <2> QED
    BY <2>1, <2>2
<1> QED
  BY <1>2, <1>3, <1>4, AlwaysConsoleInv, PTL
  DEF MCSpec, mcVars, BothStreams, StreamSpec, Stream!Spec, Keys!StreamSpec

-----------------------------------------------------------------------------
(* Induction: a set of natural numbers that is not empty has a least one.    *)

LEMMA LeastOf ==
  ASSUME NEW R, IsWellFoundedOn(R, Nat),
         \A x, y \in Nat : <<y, x>> \in R <=> y < x,
         NEW T \in SUBSET Nat, T # {}
  PROVE  \E n \in T : \A k \in T : n <= k
<1>1. PICK x \in T : \A y \in T : <<y, x>> \notin R
  BY WFMin
<1>2. ASSUME NEW y \in T PROVE x <= y
  <2>1. x \in Nat /\ y \in Nat
    OBVIOUS
  <2>2. ~(y < x)
    BY <1>1, <2>1
  <2> QED
    BY <2>1, <2>2
<1> QED
  BY <1>2

LEMMA LeastNumber ==
  ASSUME NEW T \in SUBSET Nat, T # {}
  PROVE  \E n \in T : \A k \in T : n <= k
<1>1. PICK R : R = OpToRel(<, Nat)
  OBVIOUS
<1>2. IsWellFoundedOn(R, Nat)
  BY <1>1, NatLessThanWellFounded
<1>3. \A x, y \in Nat : <<y, x>> \in R <=> y < x
  BY <1>1 DEF OpToRel
<1> QED
  BY <1>2, <1>3, LeastOf

\* Functions that begin alike and go on alike are alike.
GoOnAlike(g, h, n) ==
  g[0] = h[0] /\ \A i \in 1 .. n : g[i - 1] = h[i - 1] => g[i] = h[i]

LEMMA SameFunction ==
  ASSUME NEW n \in Nat, NEW g, NEW h, GoOnAlike(g, h, n)
  PROVE  \A i \in 0 .. n : g[i] = h[i]
<1> DEFINE T == {i \in 0 .. n : g[i] # h[i]}
<1> SUFFICES ASSUME T # {} PROVE FALSE
  OBVIOUS
<1>1. T \in SUBSET Nat
  OBVIOUS
<1>2. PICK i \in T : \A k \in T : i <= k
  BY <1>1, LeastNumber
<1>3. i \in 1 .. n /\ i - 1 \in 0 .. n /\ ~(i <= i - 1)
  <2>1. i # 0
    BY <1>2 DEF GoOnAlike
  <2> QED
    BY <1>2, <2>1
<1>4. g[i - 1] = h[i - 1]
  BY <1>2, <1>3
<1> QED
  BY <1>2, <1>3, <1>4 DEF GoOnAlike

\* One function is defined by where it begins and how it goes on.
Follows(g, base, step, n) ==
  g[0] = base /\ \A i \in 1 .. n : g[i] = step[<<g[i - 1], i>>]

LEMMA Recursion ==
  ASSUME NEW S, NEW base \in S, NEW n \in Nat, NEW step \in [S \X (1 .. n) -> S]
  PROVE  \E g \in [0 .. n -> S] : Follows(g, base, step, n)
<1> DEFINE T == {k \in 0 .. n : ~ \E g \in [0 .. k -> S] : Follows(g, base, step, k)}
<1> SUFFICES ASSUME T # {} PROVE FALSE
  OBVIOUS
<1>1. T \in SUBSET Nat
  OBVIOUS
<1>2. PICK k \in T : \A i \in T : k <= i
  BY <1>1, LeastNumber
<1>3. k # 0
  <2> DEFINE g == [i \in 0 .. 0 |-> base]
  <2>1. g \in [0 .. 0 -> S] /\ Follows(g, base, step, 0)
    BY DEF Follows
  <2> QED
    BY <1>2, <2>1
<1>4. k \in 1 .. n /\ k - 1 \in 0 .. n /\ k - 1 \notin T
  BY <1>2, <1>3
<1>5. PICK h \in [0 .. k - 1 -> S] : Follows(h, base, step, k - 1)
  BY <1>4
<1> DEFINE g == [i \in 0 .. k |-> IF i = k THEN step[<<h[k - 1], k>>] ELSE h[i]]
<1>6. step[<<h[k - 1], k>>] \in S
  BY <1>4, <1>5
<1>7. g \in [0 .. k -> S]
  BY <1>4, <1>5, <1>6
<1>8. Follows(g, base, step, k)
  <2>1. g[0] = base
    BY <1>4, <1>5 DEF Follows
  <2>2. ASSUME NEW i \in 1 .. k PROVE g[i] = step[<<g[i - 1], i>>]
    <3>1. i - 1 \in 0 .. k /\ i - 1 # k /\ g[i - 1] = h[i - 1]
      BY <1>4
    <3>2. CASE i = k
      BY <3>1, <3>2
    <3>3. CASE i # k
      <4>1. i \in 1 .. k - 1 /\ g[i] = h[i]
        BY <1>4, <3>3
      <4> QED
        BY <1>5, <3>1, <4>1 DEF Follows
    <3> QED
      BY <3>2, <3>3
  <2> QED
    BY <2>1, <2>2 DEF Follows
<1> QED
  BY <1>2, <1>7, <1>8

-----------------------------------------------------------------------------
(* Colours. *)

LEMMA SgrRange ==
  ASSUME NEW a \in 0 .. 255, NEW param PROVE Screen!Sgr(a, param) \in 0 .. 255
<1> DEFINE p == IF param < 0 THEN 0 ELSE param
<1>1. \A n \in 0 .. 15 : Screen!Foreground(a, n) \in 0 .. 255
                        /\ Screen!Background(a, n) \in 0 .. 255
  BY DEF Screen!Foreground, Screen!Background
<1> HIDE DEF p
<1>2. /\ p \in 30 .. 37 => p - 30 \in 0 .. 15
      /\ p \in 90 .. 97 => p - 90 + 8 \in 0 .. 15
      /\ p \in 40 .. 47 => p - 40 \in 0 .. 15
      /\ p \in 100 .. 107 => p - 100 + 8 \in 0 .. 15
  OBVIOUS
<1> QED
  BY <1>1, <1>2 DEF Screen!Sgr, p

LEMMA SgrAllRange ==
  ASSUME NEW a \in 0 .. 255, NEW params, Len(params) \in Nat
  PROVE  Screen!SgrAll(a, params) \in 0 .. 255
<1> DEFINE n == Len(params)
           step == [x \in (0 .. 255) \X (1 .. n) |-> Screen!Sgr(x[1], params[x[2]])]
           Is(g) == g = [i \in 0 .. n |-> IF i = 0 THEN a
                                          ELSE Screen!Sgr(g[i - 1], params[i])]
           after == CHOOSE g : Is(g)
<1>0. n \in Nat
  OBVIOUS
<1>1. step \in [(0 .. 255) \X (1 .. n) -> 0 .. 255]
  <2>1. ASSUME NEW x \in (0 .. 255) \X (1 .. n)
        PROVE  Screen!Sgr(x[1], params[x[2]]) \in 0 .. 255
    <3>1. x[1] \in 0 .. 255
      OBVIOUS
    <3> QED
      BY ONLY <3>1, SgrRange
  <2> QED
    BY ONLY <2>1
<1> HIDE DEF n
<1>2. PICK g \in [0 .. n -> 0 .. 255] : Follows(g, a, step, n)
  <2> DEFINE attrs == 0 .. 255
  <2>1. a \in attrs /\ step \in [attrs \X (1 .. n) -> attrs]
    BY <1>1
  <2> HIDE DEF attrs, step
  <2>2. \E g \in [0 .. n -> attrs] : Follows(g, a, step, n)
    BY ONLY <1>0, <2>1, Recursion
  <2> QED
    BY <2>2 DEF attrs
<1>3. \A i \in 1 .. n : g[i] = Screen!Sgr(g[i - 1], params[i])
  <2> SUFFICES ASSUME NEW i \in 1 .. n
               PROVE  g[i] = Screen!Sgr(g[i - 1], params[i])
    OBVIOUS
  <2>1. i - 1 \in 0 .. n
    BY <1>0
  <2>2. <<g[i - 1], i>> \in (0 .. 255) \X (1 .. n)
    BY <1>2, <2>1
  <2>3. step[<<g[i - 1], i>>] = Screen!Sgr(g[i - 1], params[i])
    BY <2>2
  <2> QED
    BY <1>2, <2>3 DEF Follows
<1>4. Is(g)
  BY <1>0, <1>2, <1>3 DEF Follows
<1>5. Is(after)
  BY <1>4
<1>6. Screen!SgrAll(a, params) = after[n]
  BY DEF Screen!SgrAll, n
<1> HIDE DEF after
<1>7. GoOnAlike(after, g, n) /\ n \in 0 .. n
  BY <1>0, <1>3, <1>4, <1>5 DEF GoOnAlike
<1>8. after[n] = g[n]
  BY <1>0, <1>7, SameFunction
<1> QED
  BY <1>0, <1>2, <1>6, <1>8
-----------------------------------------------------------------------------
(* The bytes of a sequence.                                                  *)

Value == -1 .. 999       \* of a parameter
IsSequence(t) ==
  "char" \notin DOMAIN t /\ "esc" \notin DOMAIN t /\ Screen!IsToken(t)
IsEscape(t) == "char" \notin DOMAIN t /\ "esc" \in DOMAIN t
End(t) == <<t.end>>
Param(t, k) == t.params[Len(t.params) - k + 1]
More(t, k, bytes) == <<Screen!SEMI>> \o Screen!Digits(Param(t, k)) \o bytes

LEMMA Parameters ==
  ASSUME NEW params \in Seq(Value), params # <<>>
  PROVE  /\ Len(params) \in Nat \ {0}
         /\ \A i \in 1 .. Len(params) : params[i] \in Value
         /\ \A i \in 1 .. Len(params) : params[i] \in Int
         /\ params \in Seq(Int)
<1>1. \A i \in 1 .. Len(params) : params[i] \in Value
  BY ElementOfSeq
<1>2. Len(params) \in Nat \ {0}
  BY EmptySeq
<1>3. Value \subseteq Int
  BY DEF Value
<1>4. params \in Seq(Int)
  BY <1>3, SeqMonotonic
<1> QED
  BY ONLY <1>1, <1>2, <1>3, <1>4

LEMMA ParamIs ==
  ASSUME NEW t, IsSequence(t), NEW k \in 1 .. Len(t.params)
  PROVE  Param(t, k) \in Value
<1> DEFINE i == Len(t.params) - k + 1
<1>1. t.params \in Seq(Value) /\ t.params # <<>>
  BY DEF IsSequence, Screen!IsToken, Value
<1>2. Len(t.params) \in Nat \ {0}
  BY <1>1, Parameters
<1>3. i \in 1 .. Len(t.params)
  BY <1>2
<1> HIDE DEF i
<1>4. t.params[i] \in Value
  BY ONLY <1>1, <1>3, ElementOfSeq
<1> QED
  BY <1>4 DEF Param, i

LEMMA DigitsAreBytes ==
  ASSUME NEW n \in Value PROVE Screen!Digits(n) \in Seq(Nat)
<1>1. n \in Int
  BY DEF Value
<1>2. n >= 0 => /\ n \div 10 \in Nat /\ n % 10 \in Nat
                /\ n \div 100 \in Nat /\ (n \div 10) % 10 \in Nat
  BY <1>1
<1> QED
  BY <1>1, <1>2 DEF Screen!Digits

LEMMA RestIs ==
  ASSUME NEW t, IsSequence(t)
  PROVE  LET n == Len(t.params) IN
         /\ n \in Nat \ {0}
         /\ Screen!Rest(t)[0] = End(t)
         /\ \A k \in 0 .. n - 1 : Screen!Rest(t)[k] \in Seq(Nat)
         /\ \A k \in 1 .. n - 1 :
              Screen!Rest(t)[k] = More(t, k, Screen!Rest(t)[k - 1])
<1> DEFINE n == Len(t.params)
           step == [x \in Seq(Nat) \X (1 .. n - 1) |-> More(t, x[2], x[1])]
           Is(g) == g = [k \in 0 .. n - 1 |-> IF k = 0 THEN End(t)
                                              ELSE More(t, k, g[k - 1])]
           rest == CHOOSE g : Is(g)
<1>1. /\ t.params \in Seq(Value) /\ n \in Nat \ {0} /\ n - 1 \in Nat
      /\ End(t) \in Seq(Nat)
  <2>1. t.params \in Seq(Value) /\ t.params # <<>>
    BY DEF IsSequence, Screen!IsToken, Value
  <2>2. t.end \in Nat
    <3>1. t.end \in 0 .. 255
      BY DEF IsSequence, Screen!IsToken, Screen!EndByte
    <3> QED
      BY <3>1
  <2> QED
    BY <2>1, <2>2 DEF End
<1>2. ASSUME NEW k \in 1 .. n - 1, NEW bytes \in Seq(Nat)
      PROVE  More(t, k, bytes) \in Seq(Nat)
  <2>1. Param(t, k) \in Value
    <3>1. k \in 1 .. Len(t.params)
      BY <1>1
    <3> QED
      BY <3>1, ParamIs
  <2>2. <<Screen!SEMI>> \in Seq(Nat)
    BY DEF Screen!SEMI
  <2>3. Screen!Digits(Param(t, k)) \in Seq(Nat)
    BY <2>1, DigitsAreBytes
  <2> QED
    BY <2>2, <2>3, ConcatProperties DEF More
<1> HIDE DEF n
<1>3. step \in [Seq(Nat) \X (1 .. n - 1) -> Seq(Nat)]
  BY <1>2
<1>4. PICK g \in [0 .. n - 1 -> Seq(Nat)] : Follows(g, End(t), step, n - 1)
  BY <1>1, <1>3, Recursion
<1>5. ASSUME NEW k \in 1 .. n - 1 PROVE g[k] = More(t, k, g[k - 1])
  <2>1. k - 1 \in 0 .. n - 1
    BY <1>1
  <2>2. <<g[k - 1], k>> \in Seq(Nat) \X (1 .. n - 1)
    BY <1>4, <2>1
  <2>3. step[<<g[k - 1], k>>] = More(t, k, g[k - 1])
    BY <2>2
  <2> QED
    BY <1>4, <2>3 DEF Follows
<1>6. Is(g)
  BY <1>1, <1>4, <1>5 DEF Follows
<1>7. Is(rest)
  BY <1>6
<1>8. Screen!Rest(t) = rest
  BY DEF Screen!Rest, n, More, Param, End, Screen!SEMI
<1> HIDE DEF rest
<1>9. GoOnAlike(rest, g, n - 1)
  BY <1>1, <1>5, <1>6, <1>7 DEF GoOnAlike
<1>10. \A k \in 0 .. n - 1 : rest[k] = g[k]
  BY <1>1, <1>9, SameFunction
<1>11. \A k \in 0 .. n - 1 : rest[k] \in Seq(Nat)
  BY <1>4, <1>10
<1>12. rest[0] = End(t) /\ \A k \in 1 .. n - 1 : rest[k] = More(t, k, rest[k - 1])
  BY <1>1, <1>7
<1> QED
  BY <1>1, <1>8, <1>11, <1>12 DEF n
-----------------------------------------------------------------------------
(* The calls.                                                                *)

Call ==
  {Screen!OutputString(chars) : chars \in Seq(Int)}
  \cup {Screen!SetCursorPosition(col, row) : col \in Nat, row \in Nat}
  \cup {Screen!ClearScreen} \cup {Screen!SetAttribute(a) : a \in 0 .. 255}

LEMMA CharacterIsCall ==
  ASSUME NEW c \in Nat
  PROVE  Screen!Character(c) \in Call /\ Screen!Character(c).call # "SetAttribute"
<1>1. <<Screen!CR, Screen!LF>> \in Seq(Int) /\ <<c>> \in Seq(Int)
  BY DEF Screen!CR, Screen!LF
<1>2. \A chars \in Seq(Int) : /\ Screen!OutputString(chars) \in Call
                              /\ Screen!OutputString(chars).call # "SetAttribute"
  BY DEF Call, Screen!OutputString
<1> QED
  BY <1>1, <1>2 DEF Screen!Character

LEMMA CallsAre ==
  ASSUME NEW final, NEW params, Len(params) \in Nat \ {0},
         \A i \in 1 .. Len(params) : params[i] \in Int, NEW a \in 0 .. 255
  PROVE  LET made == Screen!Calls(final, params, a)
             set == Screen!SetAttribute(Screen!SgrAll(a, params)) IN
         /\ final = Screen!m => made = <<set>> /\ set \in Call
                                /\ set.call = "SetAttribute"
         /\ final # Screen!m =>
              \/ made = <<>>
              \/ \E c \in Call : made = <<c>> /\ c.call # "SetAttribute"
<1> DEFINE made == Screen!Calls(final, params, a)
<1> USE DEF Screen!H, Screen!f, Screen!J, Screen!m
<1>1. CASE final \in {Screen!H, Screen!f}
  <2> DEFINE col == Screen!Positive(params, 2) - 1
             row == Screen!Positive(params, 1) - 1
  <2>1. made = <<Screen!SetCursorPosition(col, row)>> /\ final # Screen!m
    BY <1>1 DEF Screen!Calls
  <2>2. col \in Nat /\ row \in Nat
    BY DEF Screen!Positive
  <2> HIDE DEF col, row
  <2>3. /\ Screen!SetCursorPosition(col, row) \in Call
        /\ Screen!SetCursorPosition(col, row).call # "SetAttribute"
    BY <2>2 DEF Call, Screen!SetCursorPosition
  <2> QED
    BY <2>1, <2>3
<1>2. CASE final = Screen!J
  <2>1. Screen!ClearScreen \in Call /\ Screen!ClearScreen.call # "SetAttribute"
    BY DEF Call, Screen!ClearScreen
  <2>2. made = <<Screen!ClearScreen>> \/ made = <<>>
    BY <1>2 DEF Screen!Calls
  <2> QED
    BY <1>2, <2>1, <2>2
<1>3. CASE final = Screen!m
  <2> DEFINE after == Screen!SgrAll(a, params)
  <2>1. made = <<Screen!SetAttribute(after)>>
    BY <1>3 DEF Screen!Calls
  <2>2. after \in 0 .. 255
    BY SgrAllRange
  <2> HIDE DEF after
  <2>3. /\ Screen!SetAttribute(after) \in Call
        /\ Screen!SetAttribute(after).call = "SetAttribute"
    <3>1. Screen!SetAttribute(after) \in {Screen!SetAttribute(x) : x \in 0 .. 255}
      BY ONLY <2>2
    <3>2. Screen!SetAttribute(after) \in Call
      BY ONLY <3>1 DEF Call
    <3> QED
      BY <3>2 DEF Screen!SetAttribute
  <2> QED
    BY <1>3, <2>1, <2>3 DEF after
<1>4. CASE final \notin {Screen!H, Screen!f, Screen!J, Screen!m}
  BY <1>4 DEF Screen!Calls
<1> QED
  BY <1>1, <1>2, <1>3, <1>4

Colours(t) == IsSequence(t) /\ t.end = Screen!m

LEMMA MeaningIs ==
  ASSUME NEW t, Screen!IsToken(t), NEW a \in 0 .. 255
  PROVE  LET made == Screen!Meaning(t, a)
             set == Screen!SetAttribute(Screen!SgrAll(a, t.params)) IN
         /\ Colours(t) => /\ made = <<set>> /\ set \in Call
                          /\ Screen!AttrAfter(t, a) = Screen!SgrAll(a, t.params)
         /\ ~Colours(t) => /\ \/ made = <<>>
                              \/ \E c \in Call : made = <<c>>
                           /\ Screen!AttrAfter(t, a) = a
<1> DEFINE made == Screen!Meaning(t, a)
<1>0. ASSUME NEW c, made = <<c>>
      PROVE  Screen!AttrAfter(t, a) = IF c.call = "SetAttribute" THEN c.attr ELSE a
  BY <1>0 DEF Screen!AttrAfter, Screen!Last
<1>1. CASE "char" \in DOMAIN t
  <2>1. t.char \in Nat /\ made = <<Screen!Character(t.char)>> /\ ~Colours(t)
    BY <1>1 DEF Screen!IsToken, Screen!Meaning, Colours, IsSequence
  <2> QED
    BY <1>0, <2>1, CharacterIsCall
<1>2. CASE IsEscape(t)
  <2>1. made = <<>> /\ ~Colours(t)
    BY <1>2 DEF IsEscape, IsSequence, Screen!Meaning, Colours
  <2> QED
    BY <2>1 DEF Screen!AttrAfter
<1>3. CASE IsSequence(t)
  <2>1. made = Screen!Calls(t.end, t.params, a) /\ (Colours(t) <=> t.end = Screen!m)
    BY <1>3 DEF Screen!Meaning, Colours, IsSequence
  <2>2. /\ Len(t.params) \in Nat \ {0}
        /\ \A i \in 1 .. Len(t.params) : t.params[i] \in Int
    <3>1. t.params \in Seq(Value) /\ t.params # <<>>
      BY <1>3 DEF IsSequence, Screen!IsToken, Value
    <3> QED
      BY ONLY <3>1, Parameters
  <2>3. CASE t.end = Screen!m
    <3> DEFINE after == Screen!SgrAll(a, t.params)
    <3>1. made = <<Screen!SetAttribute(after)>> /\ Screen!SetAttribute(after) \in Call
      BY <2>1, <2>2, <2>3, CallsAre
    <3>2. Screen!SetAttribute(after).call = "SetAttribute"
          /\ Screen!SetAttribute(after).attr = after
      BY DEF Screen!SetAttribute
    <3> HIDE DEF after, made
    <3>3. Screen!AttrAfter(t, a) = after
      BY <1>0, <3>1, <3>2
    <3> QED
      BY <2>1, <2>3, <3>1, <3>3 DEF after, made
  <2>4. CASE t.end # Screen!m
    <3>2. made = <<>> => Screen!AttrAfter(t, a) = a
      BY DEF Screen!AttrAfter
    <3> HIDE DEF made
    <3>1. \/ made = <<>>
          \/ \E c \in Call : made = <<c>> /\ c.call # "SetAttribute"
      BY <2>1, <2>2, <2>4, CallsAre
    <3>3. Screen!AttrAfter(t, a) = a
      BY <1>0, <3>1, <3>2
    <3> QED
      BY <2>1, <2>4, <3>1, <3>3 DEF made
  <2> QED
    BY <2>3, <2>4
<1> QED
  BY <1>1, <1>2, <1>3 DEF IsEscape, IsSequence
-----------------------------------------------------------------------------
(* What is due for the tokens printed: one more token is one more step.     *)

Due == [calls : Seq(Call), attr : 0 .. 255]
Start == [calls |-> <<Screen!ClearScreen>>, attr |-> 7]

LEMMA AfterTokenIsDue ==
  ASSUME NEW t, Screen!IsToken(t), NEW due \in Due
  PROVE  Screen!AfterToken(due, t) \in Due
<1>0. <<>> \in Seq(Call) /\ \A c \in Call : <<c>> \in Seq(Call)
  OBVIOUS
<1>1. due.attr \in 0 .. 255 /\ due.calls \in Seq(Call)
  BY DEF Due
<1> DEFINE made == Screen!Meaning(t, due.attr)
           after == Screen!AttrAfter(t, due.attr)
<1>2. made \in Seq(Call) /\ after \in 0 .. 255
  <2>1. CASE Colours(t)
    <3>1. Len(t.params) \in Nat
      BY <2>1, Parameters DEF Colours, IsSequence, Screen!IsToken
    <3>2. Screen!SgrAll(due.attr, t.params) \in 0 .. 255
      BY <1>1, <3>1, SgrAllRange
    <3> DEFINE set == Screen!SetAttribute(Screen!SgrAll(due.attr, t.params))
    <3>3. made = <<set>> /\ set \in Call
          /\ after = Screen!SgrAll(due.attr, t.params)
      BY <1>1, <2>1, MeaningIs
    <3> HIDE DEF made, after, set
    <3> QED
      BY <1>0, <3>2, <3>3
  <2>2. CASE ~Colours(t)
    <3>1. after = due.attr /\ (made = <<>> \/ \E c \in Call : made = <<c>>)
      BY <1>1, <2>2, MeaningIs
    <3> HIDE DEF made, after
    <3> QED
      BY <1>0, <1>1, <3>1
  <2> QED
    BY <2>1, <2>2
<1> HIDE DEF made, after
<1>3. due.calls \o made \in Seq(Call)
  BY <1>1, <1>2, ConcatProperties
<1>4. Screen!AfterToken(due, t) = [calls |-> due.calls \o made, attr |-> after]
  BY DEF Screen!AfterToken, made, after
<1> QED
  BY <1>2, <1>3, <1>4 DEF Due

DueAfter(tokens, g, i) ==
  IF i = 0 THEN Start ELSE Screen!AfterToken(g[i - 1], tokens[i])
IsDue(tokens, n, g) == g = [i \in 0 .. n |-> DueAfter(tokens, g, i)]

LEMMA ExpectedIs ==
  ASSUME NEW tokens \in Seq(Token)
  PROVE  \E g \in [0 .. Len(tokens) -> Due] :
           IsDue(tokens, Len(tokens), g) /\ Screen!Expected(tokens) = g[Len(tokens)]
<1> DEFINE n == Len(tokens)
           step == [x \in Due \X (1 .. n) |-> Screen!AfterToken(x[1], tokens[x[2]])]
           after == CHOOSE g : IsDue(tokens, n, g)
<1>0. n \in Nat /\ Start \in Due
  <2>1. Screen!ClearScreen \in Call
    BY DEF Call
  <2> QED
    BY <2>1 DEF Due, Start
<1>1. step \in [Due \X (1 .. n) -> Due]
  <2>1. ASSUME NEW i \in 1 .. n PROVE Screen!IsToken(tokens[i])
    BY ScreenAssumed, ElementOfSeq DEF Screen!ScreenAssumption
  <2> QED
    BY <2>1, AfterTokenIsDue
<1> HIDE DEF n
<1>2. PICK g \in [0 .. n -> Due] : Follows(g, Start, step, n)
  BY <1>0, <1>1, Recursion
<1>3. ASSUME NEW i \in 1 .. n
      PROVE  g[i] = Screen!AfterToken(g[i - 1], tokens[i])
  <2>1. i - 1 \in 0 .. n
    BY <1>0
  <2>2. <<g[i - 1], i>> \in Due \X (1 .. n)
    BY <1>2, <2>1
  <2>3. step[<<g[i - 1], i>>] = Screen!AfterToken(g[i - 1], tokens[i])
    BY <2>2
  <2> QED
    BY <1>2, <2>3 DEF Follows
<1> HIDE DEF step
<1>4. IsDue(tokens, n, g)
  <2>1. \A i \in 0 .. n : g[i] = DueAfter(tokens, g, i)
    BY <1>0, <1>2, <1>3 DEF Follows, DueAfter
  <2> QED
    BY <1>2, <2>1 DEF IsDue
<1>5. IsDue(tokens, n, after)
  BY <1>4
<1>6. Screen!Expected(tokens) = after[n]
  BY DEF Screen!Expected, n, IsDue, DueAfter, Start
<1> HIDE DEF after
<1>7. GoOnAlike(after, g, n)
  BY <1>0, <1>4, <1>5 DEF GoOnAlike, IsDue, DueAfter
<1>8. after[n] = g[n]
  BY <1>0, <1>7, SameFunction
<1> QED
  BY <1>2, <1>4, <1>6, <1>8 DEF n

LEMMA ExpectedIsDue ==
  ASSUME NEW tokens \in Seq(Token) PROVE Screen!Expected(tokens) \in Due
<1>1. PICK g \in [0 .. Len(tokens) -> Due] :
        Screen!Expected(tokens) = g[Len(tokens)]
  BY ExpectedIs
<1>2. Len(tokens) \in 0 .. Len(tokens)
  BY LenProperties
<1> QED
  BY <1>1, <1>2

LEMMA ExpectedEmpty == Screen!Expected(<<>>) = Start
<1>1. <<>> \in Seq(Token) /\ Len(<<>>) = 0
  BY EmptySeq
<1>2. PICK g : IsDue(<<>>, 0, g) /\ Screen!Expected(<<>>) = g[0]
  BY <1>1, ExpectedIs
<1> QED
  BY <1>2 DEF IsDue, DueAfter

LEMMA ExpectedAppend ==
  ASSUME NEW tokens \in Seq(Token), NEW t \in Token
  PROVE  Screen!Expected(Append(tokens, t))
           = Screen!AfterToken(Screen!Expected(tokens), t)
<1> DEFINE more == Append(tokens, t)
           n == Len(tokens)
<1>1. /\ more \in Seq(Token) /\ n \in Nat /\ Len(more) = n + 1
      /\ more[n + 1] = t /\ \A i \in 1 .. n : more[i] = tokens[i]
  BY AppendProperties, LenProperties
<1> HIDE DEF more, n
<1>2. PICK g : IsDue(tokens, n, g) /\ Screen!Expected(tokens) = g[n]
  BY ExpectedIs DEF n
<1>3. PICK h : IsDue(more, n + 1, h) /\ Screen!Expected(more) = h[n + 1]
  BY <1>1, ExpectedIs
<1>4. GoOnAlike(g, h, n)
  <2>1. g[0] = Start /\ h[0] = Start
    BY <1>1, <1>2, <1>3 DEF IsDue, DueAfter
  <2>2. ASSUME NEW i \in 1 .. n, g[i - 1] = h[i - 1] PROVE g[i] = h[i]
    <3>1. i \in 0 .. n /\ i \in 0 .. n + 1 /\ i # 0 /\ more[i] = tokens[i]
      BY <1>1
    <3>2. g[i] = DueAfter(tokens, g, i) /\ h[i] = DueAfter(more, h, i)
      BY <1>2, <1>3, <3>1 DEF IsDue
    <3> QED
      BY <2>2, <3>1, <3>2 DEF DueAfter
  <2> QED
    BY <2>1, <2>2 DEF GoOnAlike
<1>5. g[n] = h[n]
  BY <1>1, <1>4, SameFunction
<1>6. h[n + 1] = Screen!AfterToken(h[n], t)
  <2>1. n + 1 \in 0 .. n + 1 /\ n + 1 # 0 /\ (n + 1) - 1 = n
    BY <1>1
  <2>2. h[n + 1] = DueAfter(more, h, n + 1)
    BY <1>3, <2>1 DEF IsDue
  <2> QED
    BY <1>1, <2>1, <2>2 DEF DueAfter
<1> QED
  BY <1>2, <1>3, <1>5, <1>6 DEF more

\* The same calls, but for the attributes set.
Alike(made, due) ==
  /\ Len(made) = Len(due)
  /\ \A i \in 1 .. Len(due) :
       made[i] = due[i] \/ Screen!BothSetAttribute(made[i], due[i])

LEMMA AlikeOneMore ==
  ASSUME NEW made \in Seq(Call), NEW due \in Seq(Call), Alike(made, due),
         NEW c \in Call, NEW d \in Call, c = d \/ Screen!BothSetAttribute(c, d)
  PROVE  Alike(made \o <<c>>, due \o <<d>>)
<1>1. made \o <<c>> = Append(made, c) /\ due \o <<d>> = Append(due, d)
  BY AppendIsConcat
<1>2. /\ Len(Append(made, c)) = Len(made) + 1 /\ Len(made) \in Nat
      /\ \A i \in 1 .. Len(made) : Append(made, c)[i] = made[i]
      /\ Append(made, c)[Len(made) + 1] = c
  BY AppendProperties, LenProperties
<1>3. /\ Len(Append(due, d)) = Len(due) + 1 /\ Len(due) \in Nat
      /\ \A i \in 1 .. Len(due) : Append(due, d)[i] = due[i]
      /\ Append(due, d)[Len(due) + 1] = d
  BY AppendProperties, LenProperties
<1>4. ASSUME NEW i \in 1 .. Len(due) + 1
      PROVE  \/ Append(made, c)[i] = Append(due, d)[i]
             \/ Screen!BothSetAttribute(Append(made, c)[i], Append(due, d)[i])
  <2>1. i \in 1 .. Len(due) \/ i = Len(due) + 1
    BY <1>3
  <2> QED
    BY <1>2, <1>3, <2>1 DEF Alike
<1>5. Alike(Append(made, c), Append(due, d))
  BY <1>2, <1>3, <1>4 DEF Alike
<1> QED
  BY <1>1, <1>5

-----------------------------------------------------------------------------
(* Bytes: numbers, and what is at the front of what is not sent yet.        *)

Bytes == Seq(Nat)

LEMMA FrontOf ==
  ASSUME NEW s \in Bytes, s # <<>>, NEW r \in Bytes
  PROVE  /\ s \o r \in Bytes /\ s \o r # <<>>
         /\ Head(s \o r) = Head(s) /\ Tail(s \o r) = Tail(s) \o r
<1> USE DEF Bytes
<1>1. /\ s \o r \in Bytes /\ Len(s \o r) = Len(s) + Len(r)
      /\ \A i \in 1 .. Len(s) + Len(r) :
           (s \o r)[i] = IF i <= Len(s) THEN s[i] ELSE r[i - Len(s)]
  BY ConcatProperties
<1>2. Len(s) \in Nat \ {0} /\ Len(r) \in Nat
  BY EmptySeq, LenProperties
<1>3. s \o r # <<>>
  BY <1>1, <1>2
<1>4. Head(s \o r) = (s \o r)[1] /\ Head(s) = s[1]
  BY <1>1, <1>3
<1>5. /\ Tail(s \o r) \in Bytes /\ Len(Tail(s \o r)) = Len(s) + Len(r) - 1
      /\ \A i \in 1 .. Len(s) + Len(r) - 1 : Tail(s \o r)[i] = (s \o r)[i + 1]
  BY <1>1, <1>2, <1>3, HeadTailProperties
<1>6. /\ Tail(s) \in Bytes /\ Len(Tail(s)) = Len(s) - 1
      /\ \A i \in 1 .. Len(s) - 1 : Tail(s)[i] = s[i + 1]
  BY <1>2, HeadTailProperties
<1>7. /\ Tail(s) \o r \in Bytes /\ Len(Tail(s) \o r) = Len(s) - 1 + Len(r)
      /\ \A i \in 1 .. Len(s) - 1 + Len(r) :
           (Tail(s) \o r)[i] = IF i <= Len(s) - 1 THEN Tail(s)[i]
                               ELSE r[i - (Len(s) - 1)]
  BY <1>6, ConcatProperties
<1>8. ASSUME NEW i \in 1 .. Len(s) + Len(r) - 1
      PROVE  Tail(s \o r)[i] = (Tail(s) \o r)[i]
  <2>1. i + 1 \in 1 .. Len(s) + Len(r) /\ i \in 1 .. Len(s) - 1 + Len(r)
    BY <1>2
  <2>2. Tail(s \o r)[i] = IF i + 1 <= Len(s) THEN s[i + 1]
                          ELSE r[(i + 1) - Len(s)]
    BY <1>1, <1>5, <2>1
  <2>3. CASE i + 1 <= Len(s)
    <3>1. i <= Len(s) - 1 /\ i \in 1 .. Len(s) - 1
      BY <1>2, <2>3
    <3> QED
      BY <1>6, <1>7, <2>1, <2>2, <2>3, <3>1
  <2>4. CASE ~(i + 1 <= Len(s))
    <3>1. ~(i <= Len(s) - 1) /\ (i + 1) - Len(s) = i - (Len(s) - 1)
      BY <1>2, <2>4
    <3> QED
      BY <1>7, <2>1, <2>2, <2>4, <3>1
  <2> QED
    BY <2>3, <2>4
<1>9. Tail(s \o r) = Tail(s) \o r
  <2>1. Len(Tail(s \o r)) = Len(Tail(s) \o r)
    BY <1>2, <1>5, <1>7
  <2> QED
    BY <1>5, <1>7, <1>8, <2>1, SeqEqual
<1>10. (s \o r)[1] = s[1]
  BY <1>1, <1>2
<1> QED
  BY <1>1, <1>3, <1>4, <1>9, <1>10

LEMMA FirstOf ==
  ASSUME NEW c \in Nat, NEW r \in Bytes
  PROVE  /\ <<c>> \o r \in Bytes /\ <<c>> \o r # <<>>
         /\ Head(<<c>> \o r) = c /\ Tail(<<c>> \o r) = r
<1>1. <<c>> \in Bytes /\ <<c>> # <<>> /\ Head(<<c>>) = c /\ Tail(<<c>>) = <<>>
  BY DEF Bytes
<1>2. <<>> \o r = r
  <2>1. r \in Seq(Nat)
    BY DEF Bytes
  <2> QED
    BY ONLY <2>1, ConcatEmptySeq
<1> DEFINE s == <<c>>
<1>3. s \in Bytes /\ s # <<>> /\ Head(s) = c /\ Tail(s) = <<>>
  BY <1>1
<1> HIDE DEF s
<1>4. /\ s \o r \in Bytes /\ s \o r # <<>>
      /\ Head(s \o r) = Head(s) /\ Tail(s \o r) = Tail(s) \o r
  BY ONLY <1>3, FrontOf, r \in Bytes
<1> QED
  BY <1>2, <1>3, <1>4 DEF s

LEMMA BytesIn ==
  ASSUME NEW B \in SUBSET Nat, NEW s \in Seq(B)
  PROVE  /\ s \in Bytes
         /\ s # <<>> => Head(s) \in B /\ Tail(s) \in Seq(B)
<1>1. s \in Seq(Nat)
  BY SeqMonotonic
<1> QED
  BY <1>1, HeadTailProperties DEF Bytes

-----------------------------------------------------------------------------
(* A parameter's digits: those not read yet, the number and whether a digit *)
(* was seen.                                                                *)

Number(digits, p, cur, seen) ==
  \/ /\ digits = <<>>
     /\ p < 0 => seen = 0
     /\ p >= 0 => seen = 1 /\ cur = p
  \/ p >= 0 /\ digits = <<48 + (p % 10)>> /\ cur = p \div 10
  \/ /\ p >= 0 /\ digits = <<48 + ((p \div 10) % 10), 48 + (p % 10)>>
     /\ cur = p \div 100
  \/ /\ p >= 0 /\ cur = 0
     /\ digits = <<48 + (p \div 100), 48 + ((p \div 10) % 10), 48 + (p % 10)>>

LEMMA DecimalDigits ==
  ASSUME NEW p \in 0 .. 999
  PROVE  /\ p % 10 \in 0 .. 9 /\ (p \div 10) % 10 \in 0 .. 9
         /\ p \div 100 \in 0 .. 9 /\ p \div 10 \in Nat
         /\ p = (p \div 10) * 10 + (p % 10)
         /\ p \div 10 = (p \div 100) * 10 + ((p \div 10) % 10)
<1> DEFINE q == p \div 10
           r == q \div 10
<1>1. /\ q \in Nat /\ p % 10 \in 0 .. 9 /\ p = q * 10 + (p % 10)
      /\ p \div 100 \in 0 .. 9
  OBVIOUS
<1> HIDE DEF q
<1>2. r \in Nat /\ q % 10 \in 0 .. 9 /\ q = r * 10 + (q % 10)
  BY <1>1
<1> HIDE DEF r
<1>3. p \div 100 = r
  BY <1>1, <1>2
<1> QED
  BY <1>1, <1>2, <1>3 DEF q

LEMMA NumberBegins ==
  ASSUME NEW p \in Value
  PROVE  /\ Number(Screen!Digits(p), p, 0, 0)
         /\ Screen!Digits(p) \in Seq(Screen!Digit)
<1> DEFINE a == p % 10
           b == (p \div 10) % 10
           d == p \div 100
<1>0. \A x \in 0 .. 9 : 48 + x \in Screen!Digit
  BY DEF Screen!Digit
<1>1. CASE p < 0
  <2>1. Screen!Digits(p) = <<>>
    BY <1>1 DEF Screen!Digits
  <2> QED
    BY <1>1, <2>1 DEF Number, Value
<1>2. CASE p \in 0 .. 9
  <2>1. a = p /\ p \div 10 = 0 /\ a \in 0 .. 9
    BY <1>2
  <2>2. Screen!Digits(p) = <<48 + a>>
    BY <1>2, <2>1 DEF Screen!Digits
  <2>3. <<48 + a>> \in Seq(Screen!Digit)
    BY <1>0, <2>1
  <2> QED
    BY <1>2, <2>1, <2>2, <2>3 DEF Number
<1>3. CASE p \in 10 .. 99
  <2>1. /\ b = p \div 10 /\ d = 0 /\ a \in 0 .. 9 /\ b \in 0 .. 9
    BY <1>3
  <2>2. Screen!Digits(p) = <<48 + b, 48 + a>>
    BY <1>3, <2>1 DEF Screen!Digits
  <2>3. <<48 + b, 48 + a>> \in Seq(Screen!Digit)
    <3> HIDE DEF a, b
    <3> QED
      BY <1>0, <2>1
  <2>4. p >= 0
    BY <1>3
  <2> QED
    BY <2>1, <2>2, <2>3, <2>4 DEF Number
<1>4. CASE p \in 100 .. 999
  <2>1. a \in 0 .. 9 /\ b \in 0 .. 9 /\ d \in 0 .. 9
    BY <1>4
  <2>2. Screen!Digits(p) = <<48 + d, 48 + b, 48 + a>>
    BY <1>4 DEF Screen!Digits
  <2>3. <<48 + d, 48 + b, 48 + a>> \in Seq(Screen!Digit)
    <3> HIDE DEF a, b, d
    <3> QED
      BY <1>0, <2>1
  <2>4. p >= 0
    BY <1>4
  <2> QED
    BY <2>2, <2>3, <2>4 DEF Number
<1> QED
  <2>1. p < 0 \/ p \in 0 .. 9 \/ p \in 10 .. 99 \/ p \in 100 .. 999
    BY DEF Value
  <2> QED
    BY <1>1, <1>2, <1>3, <1>4, <2>1

LEMMA NumberGoesOn ==
  ASSUME NEW p \in Value, NEW digits, NEW cur, NEW seen, digits # <<>>,
         Number(digits, p, cur, seen)
  PROVE  Number(Tail(digits), p, cur * 10 + (Head(digits) - 48), 1)
<1> DEFINE a == p % 10
           b == (p \div 10) % 10
           d == p \div 100
           q == p \div 10
<1>1. p \in 0 .. 999
  BY DEF Number, Value
<1>2. /\ a \in 0 .. 9 /\ b \in 0 .. 9 /\ d \in 0 .. 9 /\ q \in Nat
      /\ p = q * 10 + a /\ q = d * 10 + b
  BY <1>1, DecimalDigits
<1>3. \/ digits = <<48 + a>> /\ cur = q
      \/ digits = <<48 + b, 48 + a>> /\ cur = d
      \/ digits = <<48 + d, 48 + b, 48 + a>> /\ cur = 0
  BY DEF Number
<1> DEFINE next == cur * 10 + (Head(digits) - 48)
<1>4. /\ Number(<<>>, p, p, 1) /\ Number(<<48 + a>>, p, q, 1)
      /\ Number(<<48 + b, 48 + a>>, p, d, 1)
  BY <1>1 DEF Number
<1> HIDE DEF a, b, d, q
<1>5. CASE digits = <<48 + a>> /\ cur = q
  <2>1. Tail(digits) = <<>> /\ next = p
    BY <1>2, <1>5
  <2> HIDE DEF next
  <2>2. Number(Tail(digits), p, next, 1)
    BY <1>4, <2>1
  <2> QED
    BY <2>2 DEF next
<1>6. CASE digits = <<48 + b, 48 + a>> /\ cur = d
  <2>1. Tail(digits) = <<48 + a>> /\ next = q
    BY <1>2, <1>6
  <2> HIDE DEF next
  <2>2. Number(Tail(digits), p, next, 1)
    BY <1>4, <2>1
  <2> QED
    BY <2>2 DEF next
<1>7. CASE digits = <<48 + d, 48 + b, 48 + a>> /\ cur = 0
  <2>1. Tail(digits) = <<48 + b, 48 + a>> /\ next = d
    BY <1>2, <1>7
  <2> HIDE DEF next
  <2>2. Number(Tail(digits), p, next, 1)
    BY <1>4, <2>1
  <2> QED
    BY <2>2 DEF next
<1> QED
  BY <1>3, <1>5, <1>6, <1>7

-----------------------------------------------------------------------------
(* Where the parser is within a token.                                      *)

Body(t) ==
  t.marks \o (Screen!Digits(t.params[1]) \o Screen!Rest(t)[Len(t.params) - 1])

\* Of a sequence, some private bytes and digits of a parameter are not read
\* yet, and k more parameters.
InParameters(t) ==
  \E k \in 0 .. Len(t.params) - 1,
     marks \in Seq(Screen!PrivateByte), digits \in Seq(Screen!Digit) :
    /\ unsent = marks \o (digits \o Screen!Rest(t)[k])
    /\ Number(digits, Param(t, k + 1), csi_cur, csi_seen_digit)
    /\ csi_n = Len(t.params) - k - 1
    /\ \A i \in 1 .. csi_n : i <= MAX_PARAMS => csi_params[i] = t.params[i]

Position(t) ==
  \/ /\ "char" \in DOMAIN t /\ unsent = <<t.char>>
     /\ ansi_state = "ST_NORMAL"
  \/ /\ IsEscape(t)
     /\ \/ ansi_state = "ST_NORMAL" /\ unsent = <<Screen!ESC, t.esc>>
        \/ ansi_state = "ST_ESC" /\ unsent = <<t.esc>>
  \/ /\ IsSequence(t)
     /\ \/ /\ ansi_state = "ST_NORMAL"
           /\ unsent = <<Screen!ESC>> \o (<<Screen!LBRACKET>> \o Body(t))
        \/ ansi_state = "ST_ESC" /\ unsent = <<Screen!LBRACKET>> \o Body(t)
        \/ ansi_state = "ST_CSI" /\ InParameters(t)

LEMMA Reassociate ==
  ASSUME NEW r \in Bytes, NEW s \in Bytes, NEW u \in Bytes
  PROVE  (r \o s) \o u = r \o (s \o u)
<1> DEFINE numbers == Nat
<1>1. r \in Seq(numbers) /\ s \in Seq(numbers) /\ u \in Seq(numbers)
  BY DEF Bytes
<1> HIDE DEF numbers
<1> QED
  BY ONLY <1>1, ConcatAssociative

LEMMA ByteClasses ==
  /\ Screen!Digit \in SUBSET Nat /\ Screen!PrivateByte \in SUBSET Nat
  /\ Screen!SEMI \in Nat /\ Screen!ESC \in Nat /\ Screen!LBRACKET \in Nat
  BY DEF Screen!Digit, Screen!PrivateByte, Screen!SEMI, Screen!ESC,
         Screen!LBRACKET

LEMMA SequenceIs ==
  ASSUME NEW t, IsSequence(t)
  PROVE  /\ Len(t.params) \in Nat \ {0} /\ t.params \in Seq(Value)
         /\ t.marks \in Seq(Screen!PrivateByte) /\ t.marks \in Bytes
         /\ \A k \in 1 .. Len(t.params) : Param(t, k) \in Value
         /\ t.params[1] = Param(t, Len(t.params))
<1>1. /\ t.params \in Seq(Value) /\ t.params # <<>>
      /\ t.marks \in Seq(Screen!PrivateByte)
  BY DEF IsSequence, Screen!IsToken, Value
<1>2. Len(t.params) \in Nat \ {0}
  BY <1>1, Parameters
<1>3. ASSUME NEW k \in 1 .. Len(t.params) PROVE Param(t, k) \in Value
  BY ParamIs
<1>4. t.params[1] = Param(t, Len(t.params))
  <2>1. Len(t.params) - Len(t.params) + 1 = 1
    BY <1>2
  <2> QED
    BY <2>1 DEF Param
<1>5. t.marks \in Bytes
  BY <1>1, ByteClasses, BytesIn
<1> QED
  BY <1>1, <1>2, <1>3, <1>4, <1>5

LEMMA RestIsBytes ==
  ASSUME NEW t, IsSequence(t), NEW k \in 0 .. Len(t.params) - 1
  PROVE  Screen!Rest(t)[k] \in Bytes
  BY RestIs DEF Bytes

LEMMA ParamDigits ==
  ASSUME NEW t, IsSequence(t), NEW k \in 1 .. Len(t.params)
  PROVE  Screen!Digits(Param(t, k)) \in Bytes
<1> DEFINE p == Param(t, k)
<1>1. p \in Value
  BY ParamIs
<1> HIDE DEF p
<1>2. Screen!Digits(p) \in Seq(Nat)
  BY <1>1, DigitsAreBytes
<1> QED
  BY <1>2 DEF Bytes, p

LEMMA RestSplits ==
  ASSUME NEW t, IsSequence(t), NEW k \in 1 .. Len(t.params) - 1
  PROVE  Screen!Rest(t)[k]
           = <<Screen!SEMI>>
               \o (Screen!Digits(Param(t, k)) \o Screen!Rest(t)[k - 1])
<1>1. Screen!Rest(t)[k] = More(t, k, Screen!Rest(t)[k - 1])
  BY RestIs
<1>2. k - 1 \in 0 .. Len(t.params) - 1 /\ k \in 1 .. Len(t.params)
  BY SequenceIs
<1>3. Screen!Rest(t)[k - 1] \in Bytes
  BY <1>2, RestIsBytes
<1>4. Screen!Digits(Param(t, k)) \in Bytes
  BY <1>2, ParamDigits
<1>5. <<Screen!SEMI>> \in Bytes
  BY ByteClasses DEF Bytes
<1> QED
  BY ONLY <1>1, <1>3, <1>4, <1>5, Reassociate DEF More

LEMMA BytesOfSequence ==
  ASSUME NEW t, IsSequence(t)
  PROVE  /\ Body(t) \in Bytes
         /\ Screen!BytesOf(t)
              = <<Screen!ESC>> \o (<<Screen!LBRACKET>> \o Body(t))
<1> DEFINE n == Len(t.params)
           first == Screen!Digits(t.params[1])
           rest == Screen!Rest(t)[n - 1]
           start == <<Screen!ESC, Screen!LBRACKET>>
<1>1. first \in Bytes
  <2>1. n \in 1 .. n /\ t.params[1] = Param(t, n)
    BY SequenceIs
  <2> QED
    BY <2>1, SequenceIs, DigitsAreBytes DEF Bytes
<1>2. rest \in Bytes
  <2>1. n - 1 \in 0 .. n - 1
    BY SequenceIs
  <2> QED
    BY <2>1, RestIsBytes
<1>3. t.marks \in Bytes
  BY SequenceIs
<1>4. /\ <<Screen!ESC>> \in Bytes /\ <<Screen!LBRACKET>> \in Bytes
      /\ start \in Bytes /\ start = <<Screen!ESC>> \o <<Screen!LBRACKET>>
  <2>1. ASSUME NEW x \in Nat, NEW y \in Nat
        PROVE  /\ <<x>> \in Bytes /\ <<x, y>> \in Bytes
               /\ <<x>> \o <<y>> = <<x, y>>
    <3>1. <<x>> \in Bytes /\ <<x, y>> \in Bytes
      BY DEF Bytes
    <3>2. Append(<<x>>, y) = <<x, y>>
      <4> DEFINE one == Append(<<x>>, y)
                 two == <<x, y>>
      <4>1. one \in Seq(Nat) /\ Len(one) = 2 /\ one[1] = x /\ one[2] = y
        BY <3>1, AppendProperties DEF Bytes
      <4>2. two \in Seq(Nat) /\ Len(two) = 2 /\ two[1] = x /\ two[2] = y
        OBVIOUS
      <4> HIDE DEF one, two
      <4>3. \A i \in 1 .. Len(one) : one[i] = two[i]
        BY <4>1, <4>2
      <4>4. one = two
        BY ONLY <4>1, <4>2, <4>3, SeqEqual
      <4> QED
        BY <4>4 DEF one, two
    <3>3. Append(<<x>>, y) = <<x>> \o <<y>>
      BY <3>1, AppendIsConcat DEF Bytes
    <3> QED
      BY ONLY <3>1, <3>2, <3>3
  <2> QED
    BY ONLY <2>1, ByteClasses
<1>5. Screen!BytesOf(t) = ((start \o t.marks) \o first) \o rest
  BY RestIs DEF Screen!BytesOf, IsSequence, End
<1>6. Body(t) = t.marks \o (first \o rest)
  BY DEF Body
<1> HIDE DEF first, rest, start
<1>7. first \o rest \in Bytes /\ start \o t.marks \in Bytes
  BY <1>1, <1>2, <1>3, <1>4, ConcatProperties DEF Bytes
<1>8. Body(t) \in Bytes
  BY <1>3, <1>6, <1>7, ConcatProperties DEF Bytes
<1>9. ((start \o t.marks) \o first) \o rest = start \o Body(t)
  <2>1. ((start \o t.marks) \o first) \o rest = (start \o t.marks) \o (first \o rest)
    BY ONLY <1>1, <1>2, <1>7, Reassociate
  <2>2. (start \o t.marks) \o (first \o rest) = start \o Body(t)
    <3> DEFINE both == first \o rest
    <3>1. both \in Bytes /\ Body(t) = t.marks \o both
      BY <1>6, <1>7
    <3> HIDE DEF both
    <3>2. (start \o t.marks) \o both = start \o (t.marks \o both)
      BY ONLY <1>3, <1>4, <3>1, Reassociate
    <3> QED
      BY ONLY <3>1, <3>2 DEF both
  <2> QED
    BY ONLY <2>1, <2>2
<1>10. start \o Body(t) = <<Screen!ESC>> \o (<<Screen!LBRACKET>> \o Body(t))
  BY ONLY <1>4, <1>8, Reassociate
<1> QED
  BY ONLY <1>5, <1>8, <1>9, <1>10

-----------------------------------------------------------------------------
(* One byte within a sequence.                                              *)

\* What a sequence is taken for when its last byte is read: its parameters, as
\* far as the array holds them.
Agrees(params, t) ==
  /\ params \in Seq(Int) /\ Len(params) = Len(t.params)
  /\ \A i \in 1 .. Len(params) : i <= MAX_PARAMS => params[i] = t.params[i]

GoesOn(t) ==
  /\ ansi_state' = "ST_CSI" /\ InParameters(t)'
  /\ UNCHANGED <<printed, attr, calls>>

Ended(t) ==
  /\ unsent' = <<>> /\ ansi_state' = "ST_NORMAL" /\ UNCHANGED printed
  /\ \E params :
       /\ Agrees(params, t)
       /\ calls' = calls \o Screen!Calls(t.end, params, attr)
       /\ attr' = IF t.end = Screen!m THEN Screen!SgrAll(attr, params)
                  ELSE attr

LEMMA CsiByteIs ==
  ASSUME NEW c, Screen!CsiByte(c)
  PROVE  /\ c = Head(unsent) /\ unsent' = Tail(unsent) /\ UNCHANGED printed
         /\ c \in Screen!PrivateByte => Screen!Private(c)
         /\ c \in Screen!Digit => Screen!DigitByte(c)
         /\ c = Screen!SEMI => Screen!Separator(c)
         /\ c \in Screen!EndByte \ Screen!FinalByte => Screen!Abort(c)
         /\ c \in Screen!FinalByte => Screen!Exec(c)
<1>1. /\ c = Head(unsent) /\ unsent' = Tail(unsent) /\ UNCHANGED printed
      /\ \/ Screen!Private(c) \/ Screen!DigitByte(c) \/ Screen!Separator(c)
         \/ Screen!Abort(c) \/ Screen!Exec(c)
  BY DEF Screen!CsiByte, Screen!Parse
<1>2. /\ Screen!Private(c) => c \in Screen!PrivateByte
      /\ Screen!DigitByte(c) => c \in Screen!Digit
      /\ Screen!Separator(c) => c = Screen!SEMI
      /\ Screen!Exec(c) => c \in Screen!FinalByte
      /\ Screen!Abort(c) => /\ c \notin Screen!PrivateByte /\ c # Screen!SEMI
                            /\ c \notin Screen!Digit
                            /\ c \notin Screen!FinalByte
  BY DEF Screen!Private, Screen!DigitByte, Screen!Separator, Screen!Exec,
         Screen!Abort
<1>3. /\ c \in Screen!PrivateByte =>
           c \notin Screen!Digit /\ c # Screen!SEMI /\ c \notin Screen!FinalByte
      /\ c \in Screen!Digit => c # Screen!SEMI /\ c \notin Screen!FinalByte
      /\ c = Screen!SEMI => c \notin Screen!FinalByte
      /\ c \in Screen!EndByte => /\ c \notin Screen!PrivateByte /\ c # Screen!SEMI
                                 /\ c \notin Screen!Digit
  BY DEF Screen!PrivateByte, Screen!Digit, Screen!SEMI, Screen!FinalByte,
         Screen!EndByte
<1> QED
  BY ONLY <1>1, <1>2, <1>3

LEMMA Stores ==
  ASSUME Screen!TypeOK, NEW p \in Value,
         Number(<<>>, p, csi_cur, csi_seen_digit), Screen!PushParam
  PROVE  /\ csi_n' = csi_n + 1 /\ csi_cur' = 0 /\ csi_seen_digit' = 0
         /\ csi_n + 1 <= MAX_PARAMS => csi_params'[csi_n + 1] = p
         /\ \A i \in 1 .. MAX_PARAMS :
              i # csi_n + 1 => csi_params'[i] = csi_params[i]
<1>1. Screen!Pushed = p
  BY DEF Number, Screen!Pushed, Value
<1>2. csi_n \in Nat /\ csi_params \in [1 .. MAX_PARAMS -> Nat \cup {-1}]
  BY DEF Screen!TypeOK
<1>3. MAX_PARAMS \in Nat
  BY ScreenAssumed DEF Screen!ScreenAssumption
<1> QED
  BY <1>1, <1>2, <1>3 DEF Screen!PushParam, Screen!Stored

LEMMA PrivateGoesOn ==
  ASSUME NEW t, IsSequence(t), NEW c, Screen!CsiByte(c), ansi_state = "ST_CSI",
         NEW k \in 0 .. Len(t.params) - 1,
         NEW marks \in Seq(Screen!PrivateByte), marks # <<>>,
         NEW digits \in Seq(Screen!Digit),
         unsent = marks \o (digits \o Screen!Rest(t)[k]),
         Number(digits, Param(t, k + 1), csi_cur, csi_seen_digit),
         csi_n = Len(t.params) - k - 1,
         \A i \in 1 .. csi_n : i <= MAX_PARAMS => csi_params[i] = t.params[i]
  PROVE  GoesOn(t)
<1>1. digits \in Bytes /\ marks \in Bytes /\ Head(marks) \in Screen!PrivateByte
      /\ Tail(marks) \in Seq(Screen!PrivateByte)
  BY ByteClasses, BytesIn
<1>2. digits \o Screen!Rest(t)[k] \in Bytes
  BY <1>1, RestIsBytes, ConcatProperties DEF Bytes
<1>3. /\ Head(unsent) = Head(marks)
      /\ Tail(unsent) = Tail(marks) \o (digits \o Screen!Rest(t)[k])
  BY <1>1, <1>2, FrontOf
<1>4. Screen!Private(c) /\ unsent' = Tail(unsent) /\ UNCHANGED printed
  BY <1>1, <1>3, CsiByteIs
<1>5. UNCHANGED <<ansi_state, csi_params, csi_n, csi_cur, csi_seen_digit,
                  attr, calls>>
  BY <1>4 DEF Screen!Private, Screen!KeepParams, Screen!Silent
<1>6. /\ unsent' = Tail(marks) \o (digits \o Screen!Rest(t)[k])
      /\ Number(digits, Param(t, k + 1), csi_cur', csi_seen_digit')
      /\ csi_n' = Len(t.params) - k - 1
      /\ \A i \in 1 .. csi_n' : i <= MAX_PARAMS => csi_params'[i] = t.params[i]
  BY <1>3, <1>4, <1>5
<1>7. InParameters(t)'
  BY <1>1, <1>6 DEF InParameters
<1> QED
  BY <1>4, <1>5, <1>7 DEF GoesOn

LEMMA DigitGoesOn ==
  ASSUME NEW t, IsSequence(t), NEW c, Screen!CsiByte(c), ansi_state = "ST_CSI",
         NEW k \in 0 .. Len(t.params) - 1,
         NEW digits \in Seq(Screen!Digit), digits # <<>>,
         unsent = digits \o Screen!Rest(t)[k],
         Number(digits, Param(t, k + 1), csi_cur, csi_seen_digit),
         csi_n = Len(t.params) - k - 1,
         \A i \in 1 .. csi_n : i <= MAX_PARAMS => csi_params[i] = t.params[i]
  PROVE  GoesOn(t)
<1>1. digits \in Bytes /\ Head(digits) \in Screen!Digit
      /\ Tail(digits) \in Seq(Screen!Digit) /\ Tail(digits) \in Bytes
  BY ByteClasses, BytesIn
<1>2. Screen!Rest(t)[k] \in Bytes
  BY RestIsBytes
<1>3. /\ Head(unsent) = Head(digits)
      /\ Tail(unsent) = Tail(digits) \o Screen!Rest(t)[k]
  BY <1>1, <1>2, FrontOf
<1>4. /\ Screen!DigitByte(c) /\ unsent' = Tail(unsent) /\ UNCHANGED printed
      /\ c = Head(digits)
  BY <1>1, <1>3, CsiByteIs
<1>5. /\ UNCHANGED <<ansi_state, csi_params, csi_n, attr, calls>>
      /\ csi_cur' = csi_cur * 10 + (Head(digits) - 48) /\ csi_seen_digit' = 1
  BY <1>4 DEF Screen!DigitByte, Screen!Silent, Screen!Shifted
<1>6. k + 1 \in 1 .. Len(t.params)
  BY SequenceIs
<1>7. Number(Tail(digits), Param(t, k + 1), csi_cur', csi_seen_digit')
  BY <1>5, <1>6, SequenceIs, NumberGoesOn
<1> DEFINE left == Tail(digits) \o Screen!Rest(t)[k]
<1>8. left = <<>> \o left
  BY <1>1, <1>2, ConcatProperties, ConcatEmptySeq DEF Bytes
<1>9. <<>> \in Seq(Screen!PrivateByte)
  OBVIOUS
<1>10. /\ unsent' = <<>> \o (Tail(digits) \o Screen!Rest(t)[k])
       /\ csi_n' = Len(t.params) - k - 1
       /\ \A i \in 1 .. csi_n' : i <= MAX_PARAMS => csi_params'[i] = t.params[i]
  BY <1>3, <1>4, <1>5, <1>8
<1>11. InParameters(t)'
  BY <1>1, <1>7, <1>9, <1>10 DEF InParameters
<1> QED
  BY <1>4, <1>5, <1>11 DEF GoesOn

LEMMA SeparatorGoesOn ==
  ASSUME Screen!TypeOK, NEW t, IsSequence(t), NEW c, Screen!CsiByte(c),
         ansi_state = "ST_CSI",
         NEW k \in 1 .. Len(t.params) - 1, unsent = Screen!Rest(t)[k],
         Number(<<>>, Param(t, k + 1), csi_cur, csi_seen_digit),
         csi_n = Len(t.params) - k - 1,
         \A i \in 1 .. csi_n : i <= MAX_PARAMS => csi_params[i] = t.params[i]
  PROVE  GoesOn(t)
<1> DEFINE next == Screen!Digits(Param(t, k))
           left == next \o Screen!Rest(t)[k - 1]
<1>1. /\ k \in 1 .. Len(t.params) /\ k + 1 \in 1 .. Len(t.params)
      /\ k - 1 \in 0 .. Len(t.params) - 1 /\ Len(t.params) \in Nat
  BY SequenceIs
<1>2. Param(t, k) \in Value /\ Param(t, k + 1) \in Value
  <2>1. \A i \in 1 .. Len(t.params) : Param(t, i) \in Value
    BY SequenceIs
  <2> QED
    BY ONLY <1>1, <2>1
<1>3. Number(next, Param(t, k), 0, 0) /\ next \in Seq(Screen!Digit)
  BY <1>2, NumberBegins
<1>4. next \in Bytes
  BY <1>3, ByteClasses, BytesIn
<1>5. left \in Bytes /\ left = <<>> \o left
  <2>1. Screen!Rest(t)[k - 1] \in Bytes
    BY <1>1, RestIsBytes
  <2> QED
    BY <1>4, <2>1, ConcatProperties, ConcatEmptySeq DEF Bytes
<1>6. unsent = <<Screen!SEMI>> \o left
  BY RestSplits
<1> HIDE DEF left, next
<1>7. Head(unsent) = Screen!SEMI /\ Tail(unsent) = left
  BY <1>5, <1>6, ByteClasses, FirstOf
<1>8. Screen!Separator(c) /\ unsent' = left /\ UNCHANGED printed
  BY <1>7, CsiByteIs
<1>9. Screen!PushParam /\ UNCHANGED <<ansi_state, attr, calls>>
  BY <1>8 DEF Screen!Separator, Screen!Silent
<1>10. /\ csi_n' = csi_n + 1 /\ csi_cur' = 0 /\ csi_seen_digit' = 0
       /\ csi_n + 1 <= MAX_PARAMS => csi_params'[csi_n + 1] = Param(t, k + 1)
       /\ \A i \in 1 .. MAX_PARAMS :
            i # csi_n + 1 => csi_params'[i] = csi_params[i]
  BY <1>2, <1>9, Stores
<1>11. /\ csi_n' = Len(t.params) - (k - 1) - 1
       /\ Param(t, k + 1) = t.params[csi_n + 1]
  <2>1. Len(t.params) - (k + 1) + 1 = csi_n + 1
    BY <1>1
  <2> QED
    BY <1>1, <1>10, <2>1 DEF Param
<1>12. ASSUME NEW i \in 1 .. csi_n', i <= MAX_PARAMS
       PROVE  csi_params'[i] = t.params[i]
  <2>1. csi_n \in Nat /\ csi_n' = csi_n + 1 /\ MAX_PARAMS \in Nat
    BY <1>10, ScreenAssumed DEF Screen!ScreenAssumption, Screen!TypeOK
  <2>3. i \in 1 .. MAX_PARAMS /\ (i = csi_n + 1 \/ i \in 1 .. csi_n)
    <3>1. i \in 1 .. csi_n + 1
      BY <2>1
    <3>2. i \in 1 .. MAX_PARAMS
      BY <1>12, <2>1, <3>1
    <3>3. i = csi_n + 1 \/ i \in 1 .. csi_n
      BY <2>1, <3>1
    <3> QED
      BY <3>2, <3>3
  <2>2. i \in 1 .. csi_n => i # csi_n + 1
    BY <2>1
  <2> QED
    BY <1>10, <1>11, <1>12, <2>1, <2>2, <2>3
<1>13. InParameters(t)'
  <2>1. <<>> \in Seq(Screen!PrivateByte)
    OBVIOUS
  <2>2. unsent' = <<>> \o (next \o Screen!Rest(t)[k - 1])
    BY <1>5, <1>8 DEF left
  <2>3. Number(next, Param(t, (k - 1) + 1), csi_cur', csi_seen_digit')
    <3>1. (k - 1) + 1 = k
      BY <1>1
    <3> QED
      BY <1>3, <1>10, <3>1
  <2> QED
    BY <1>1, <1>3, <1>11, <1>12, <2>1, <2>2, <2>3 DEF InParameters
<1> QED
  BY <1>8, <1>9, <1>13 DEF GoesOn

LEMMA LastByteEnds ==
  ASSUME Screen!TypeOK, calls \in Seq(Call),
         NEW t, IsSequence(t), NEW c, Screen!CsiByte(c),
         unsent = Screen!Rest(t)[0],
         Number(<<>>, Param(t, 1), csi_cur, csi_seen_digit),
         csi_n = Len(t.params) - 1,
         \A i \in 1 .. csi_n : i <= MAX_PARAMS => csi_params[i] = t.params[i]
  PROVE  Ended(t)
<1>1. Screen!Rest(t)[0] = End(t) /\ Len(t.params) \in Nat \ {0}
  BY RestIs
<1>2. CASE t.end \notin Screen!FinalByte
  <2>1. unsent = <<t.end>> /\ t.end \in Screen!EndByte \ Screen!FinalByte
    BY <1>1, <1>2 DEF End, IsSequence, Screen!IsToken
  <2>2. Head(unsent) = t.end /\ Tail(unsent) = <<>>
    BY <2>1
  <2>3. Screen!Abort(c) /\ unsent' = <<>> /\ UNCHANGED printed
    BY <2>1, <2>2, CsiByteIs
  <2>4. ansi_state' = "ST_NORMAL" /\ calls' = calls /\ attr' = attr
    BY <2>3 DEF Screen!Abort, Screen!Silent
  <2>5. /\ t.end # Screen!m /\ Screen!Calls(t.end, t.params, attr) = <<>>
        /\ calls \o <<>> = calls
    <3>0. {Screen!H, Screen!f, Screen!J, Screen!m} \subseteq Screen!FinalByte
      BY DEF Screen!FinalByte, Screen!H, Screen!f, Screen!J, Screen!m
    <3>1. t.end \notin {Screen!H, Screen!f, Screen!J, Screen!m}
      BY ONLY <1>2, <3>0
    <3>2. Screen!Calls(t.end, t.params, attr) = <<>>
      BY <3>1 DEF Screen!Calls
    <3> QED
      BY <3>1, <3>2, ConcatEmptySeq
  <2>6. Agrees(t.params, t)
    <3>1. t.params \in Seq(Value) /\ t.params # <<>>
      BY DEF IsSequence, Screen!IsToken, Value
    <3>2. t.params \in Seq(Int)
      BY ONLY <3>1, Parameters
    <3> QED
      BY <3>2 DEF Agrees
  <2> QED
    BY <2>3, <2>4, <2>5, <2>6 DEF Ended
<1>3. CASE t.end \in Screen!FinalByte
  <2>1. unsent = <<t.end>> /\ t.end \in Screen!FinalByte
    BY <1>1, <1>3 DEF End
  <2>2. Head(unsent) = t.end /\ Tail(unsent) = <<>>
    BY <2>1
  <2>3. /\ Screen!Exec(c) /\ unsent' = <<>> /\ UNCHANGED printed
        /\ c = t.end
    BY <2>1, <2>2, CsiByteIs
  <2>4. PICK stray \in Stray :
          LET params == [i \in 1 .. csi_n' |->
                           IF i <= MAX_PARAMS THEN csi_params'[i] ELSE stray]
          IN  /\ calls' = calls \o Screen!Calls(c, params, attr)
              /\ attr' = IF c = Screen!m THEN Screen!SgrAll(attr, params)
                         ELSE attr
    BY <2>3 DEF Screen!Exec
  <2> DEFINE n == Len(t.params)
             params == [i \in 1 .. csi_n' |->
                          IF i <= MAX_PARAMS THEN csi_params'[i] ELSE stray]
  <2>5. ansi_state' = "ST_NORMAL" /\ Screen!PushParam
    BY <2>3 DEF Screen!Exec
  <2>6. /\ MAX_PARAMS \in Nat /\ stray \in Int /\ csi_n \in Nat
        /\ csi_n + 1 = n /\ n \in Nat \ {0}
        /\ t.params \in Seq(Value) /\ Param(t, 1) \in Value
        /\ Param(t, 1) = t.params[n]
    <3>1. MAX_PARAMS \in Nat /\ stray \in Int
      BY ScreenAssumed DEF Screen!ScreenAssumption
    <3>2. Len(t.params) - 1 + 1 = n /\ 1 \in 1 .. n /\ csi_n \in Nat
      BY <1>1
    <3>3. \A i \in 1 .. n : Param(t, i) \in Value
      BY SequenceIs
    <3> QED
      BY <1>1, <3>1, <3>2, <3>3, SequenceIs DEF Param
  <2>7. /\ csi_n' = n
        /\ n <= MAX_PARAMS => csi_params'[n] = t.params[n]
        /\ \A i \in 1 .. MAX_PARAMS : i # n => csi_params'[i] = csi_params[i]
    <3>1. /\ csi_n' = csi_n + 1
          /\ csi_n + 1 <= MAX_PARAMS => csi_params'[csi_n + 1] = Param(t, 1)
          /\ \A i \in 1 .. MAX_PARAMS :
               i # csi_n + 1 => csi_params'[i] = csi_params[i]
      BY <2>5, <2>6, Stores
    <3> HIDE DEF n
    <3> QED
      BY ONLY <2>6, <3>1
  <2>8. ASSUME NEW i \in 1 .. n, i <= MAX_PARAMS
        PROVE  csi_params'[i] = t.params[i]
    <3>1. i \in 1 .. MAX_PARAMS /\ (i = n \/ i \in 1 .. csi_n)
      BY <2>6, <2>8
    <3> QED
      BY <2>6, <2>7, <2>8, <3>1
  <2>9. ASSUME NEW i \in 1 .. n PROVE t.params[i] \in Int
    BY <2>6, Parameters, EmptySeq
  <2>10. Agrees(params, t)
    <3>1. params = [i \in 1 .. n |-> IF i <= MAX_PARAMS THEN t.params[i]
                                     ELSE stray]
      BY <2>7, <2>8
    <3> DEFINE held == [i \in 1 .. n |-> IF i <= MAX_PARAMS THEN t.params[i]
                                         ELSE stray]
    <3>2. held \in Seq(Int) /\ Len(held) = n
      BY <2>6, <2>9
    <3>3. \A i \in 1 .. n : i <= MAX_PARAMS => held[i] = t.params[i]
      OBVIOUS
    <3> HIDE DEF params, held, n
    <3>4. params = held
      BY <3>1 DEF held
    <3> QED
      BY <3>2, <3>3, <3>4 DEF Agrees, n
  <2>11. /\ calls' = calls \o Screen!Calls(t.end, params, attr)
         /\ attr' = IF t.end = Screen!m THEN Screen!SgrAll(attr, params)
                    ELSE attr
    BY <2>3, <2>4
  <2> HIDE DEF params
  <2> QED
    BY <2>3, <2>5, <2>10, <2>11 DEF Ended
<1> QED
  BY <1>2, <1>3

LEMMA CsiStep ==
  ASSUME Screen!TypeOK, calls \in Seq(Call), NEW t, IsSequence(t), InParameters(t),
         NEW c, Screen!CsiByte(c)
  PROVE  GoesOn(t) \/ Ended(t)
<1>1. PICK k \in 0 .. Len(t.params) - 1,
           marks \in Seq(Screen!PrivateByte), digits \in Seq(Screen!Digit) :
        /\ unsent = marks \o (digits \o Screen!Rest(t)[k])
        /\ Number(digits, Param(t, k + 1), csi_cur, csi_seen_digit)
        /\ csi_n = Len(t.params) - k - 1
        /\ \A i \in 1 .. csi_n : i <= MAX_PARAMS => csi_params[i] = t.params[i]
  BY DEF InParameters
<1>2. ansi_state = "ST_CSI"
  BY DEF Screen!CsiByte, Screen!Parse
<1>3. CASE marks # <<>>
  BY <1>1, <1>2, <1>3, PrivateGoesOn
<1>4. CASE marks = <<>>
  <2>1. Screen!Rest(t)[k] \in Bytes /\ digits \in Bytes
    BY RestIsBytes, ByteClasses, BytesIn
  <2>2. unsent = digits \o Screen!Rest(t)[k]
    BY <1>1, <1>4, <2>1, ConcatProperties, ConcatEmptySeq DEF Bytes
  <2>3. CASE digits # <<>>
    BY <1>1, <1>2, <2>2, <2>3, DigitGoesOn
  <2>4. CASE digits = <<>>
    <3>1. unsent = Screen!Rest(t)[k]
      BY <2>1, <2>2, <2>4, ConcatEmptySeq DEF Bytes
    <3>2. CASE k = 0
      <4>1. Param(t, k + 1) = Param(t, 1) /\ csi_n = Len(t.params) - 1
        BY <1>1, <3>2, SequenceIs
      <4> QED
        BY <1>1, <2>4, <3>1, <3>2, <4>1, LastByteEnds
    <3>3. CASE k # 0
      <4>1. k \in 1 .. Len(t.params) - 1
        BY <3>3
      <4> QED
        BY <1>1, <1>2, <2>4, <3>1, <4>1, SeparatorGoesOn
    <3> QED
      BY <3>2, <3>3
  <2> QED
    BY <2>3, <2>4
<1> QED
  BY <1>3, <1>4

-----------------------------------------------------------------------------
(* The calls made are those due.                                            *)

Matches(tokens) ==
  LET due == Screen!Expected(tokens) IN
  /\ Alike(calls, due.calls)
  /\ (\A i \in DOMAIN tokens : ~Screen!Overflows(tokens[i])) =>
       calls = due.calls /\ attr = due.attr

\* What has been made of a token that was read: its colours, whatever they are
\* when the array overflowed, or the same calls as anywhere.
MadeColours(t) ==
  /\ Colours(t)
  /\ \E a \in 0 .. 255 :
       /\ calls' = calls \o <<Screen!SetAttribute(a)>> /\ attr' = a
       /\ ~Screen!Overflows(t) => a = Screen!SgrAll(attr, t.params)

MadeCalls(t) ==
  /\ ~Colours(t) /\ attr' = attr
  /\ \E made : /\ calls' = calls \o made
               /\ \A a \in 0 .. 255 : Screen!Meaning(t, a) = made

LEMMA NoOverflowBefore ==
  ASSUME NEW tokens \in Seq(Token), NEW t \in Token,
         \A i \in DOMAIN Append(tokens, t) :
           ~Screen!Overflows(Append(tokens, t)[i])
  PROVE  /\ ~Screen!Overflows(t)
         /\ \A i \in DOMAIN tokens : ~Screen!Overflows(tokens[i])
<1>1. /\ DOMAIN Append(tokens, t) = 1 .. Len(tokens) + 1
      /\ DOMAIN tokens = 1 .. Len(tokens) /\ Len(tokens) \in Nat
      /\ Append(tokens, t)[Len(tokens) + 1] = t
      /\ \A i \in 1 .. Len(tokens) : Append(tokens, t)[i] = tokens[i]
  BY AppendProperties, LenProperties
<1> QED
  BY <1>1

LEMMA OneMoreMatches ==
  ASSUME calls \in Seq(Call), attr \in 0 .. 255, NEW tokens \in Seq(Token),
         NEW t \in Token, Matches(tokens), MadeColours(t) \/ MadeCalls(t)
  PROVE  /\ calls' \in Seq(Call) /\ attr' \in 0 .. 255
         /\ Matches(Append(tokens, t))'
<1> DEFINE due == Screen!Expected(tokens)
           next == Screen!Expected(Append(tokens, t))
           NoOverflow(s) == \A i \in DOMAIN s : ~Screen!Overflows(s[i])
<1>1. due \in Due /\ due.calls \in Seq(Call) /\ due.attr \in 0 .. 255
  BY ExpectedIsDue DEF Due
<1>2. /\ next.calls = due.calls \o Screen!Meaning(t, due.attr)
      /\ next.attr = Screen!AttrAfter(t, due.attr)
  <2>1. next = Screen!AfterToken(due, t)
    BY ExpectedAppend
  <2> HIDE DEF due, next
  <2> QED
    BY <2>1 DEF Screen!AfterToken
<1>3. Screen!IsToken(t)
  BY ScreenAssumed DEF Screen!ScreenAssumption
<1>4. Alike(calls, due.calls)
      /\ (NoOverflow(tokens) => calls = due.calls /\ attr = due.attr)
  BY DEF Matches
<1>5. NoOverflow(Append(tokens, t)) => ~Screen!Overflows(t) /\ NoOverflow(tokens)
  BY NoOverflowBefore
<1> SUFFICES /\ calls' \in Seq(Call) /\ attr' \in 0 .. 255
             /\ Alike(calls', next.calls)
             /\ NoOverflow(Append(tokens, t)) =>
                  calls' = next.calls /\ attr' = next.attr
  BY DEF Matches
<1> HIDE DEF due, next, NoOverflow
<1>6. CASE MadeColours(t)
  <2>1. PICK a \in 0 .. 255 :
          /\ calls' = calls \o <<Screen!SetAttribute(a)>> /\ attr' = a
          /\ ~Screen!Overflows(t) => a = Screen!SgrAll(attr, t.params)
    BY <1>6 DEF MadeColours
  <2> DEFINE b == Screen!SgrAll(due.attr, t.params)
             c == Screen!SetAttribute(a)
             d == Screen!SetAttribute(b)
  <2>2. Screen!Meaning(t, due.attr) = <<d>> /\ d \in Call
        /\ Screen!AttrAfter(t, due.attr) = b
    BY <1>1, <1>3, <1>6, MeaningIs DEF MadeColours
  <2>3. c \in Call
    <3>1. c \in {Screen!SetAttribute(x) : x \in 0 .. 255}
      OBVIOUS
    <3> HIDE DEF c
    <3> QED
      BY ONLY <3>1 DEF Call
  <2>4. Screen!BothSetAttribute(c, d)
    BY DEF Screen!BothSetAttribute, Screen!SetAttribute
  <2>5. NoOverflow(Append(tokens, t)) => a = b /\ calls = due.calls
    BY <1>4, <1>5, <2>1
  <2> HIDE DEF b
  <2>6. NoOverflow(Append(tokens, t)) => c = d /\ calls = due.calls /\ a = b
    BY <2>5
  <2> HIDE DEF c, d
  <2>7. calls' = calls \o <<c>> /\ next.calls = due.calls \o <<d>>
        /\ next.attr = b
    BY <1>2, <2>1, <2>2 DEF c
  <2>8. Alike(calls', next.calls)
    BY <1>1, <1>4, <2>2, <2>3, <2>4, <2>7, AlikeOneMore
  <2>9. calls' \in Seq(Call)
    <3>1. <<c>> \in Seq(Call)
      BY <2>3
    <3> QED
      BY <2>7, <3>1, ConcatProperties
  <2> QED
    BY <2>1, <2>6, <2>7, <2>8, <2>9
<1>7. CASE MadeCalls(t)
  <2>1. PICK made : /\ calls' = calls \o made
                    /\ \A a \in 0 .. 255 : Screen!Meaning(t, a) = made
    BY <1>7 DEF MadeCalls
  <2>2. ~Colours(t) /\ attr' = attr
    BY <1>7 DEF MadeCalls
  <2>3. Screen!Meaning(t, due.attr) = made
    BY <1>1, <2>1
  <2>4. /\ made = <<>> \/ \E c \in Call : made = <<c>>
        /\ Screen!AttrAfter(t, due.attr) = due.attr
    BY <1>1, <1>3, <2>2, <2>3, MeaningIs
  <2>5. /\ calls' = calls \o made /\ next.calls = due.calls \o made
        /\ next.attr = due.attr
    BY <1>2, <2>1, <2>3, <2>4
  <2>6. Alike(calls', next.calls) /\ calls' \in Seq(Call)
    <3>1. CASE made = <<>>
      <4>1. calls' = calls /\ next.calls = due.calls
        BY <1>1, <2>5, <3>1, ConcatEmptySeq
      <4> QED
        BY <1>4, <4>1
    <3>2. ASSUME NEW c \in Call, made = <<c>>
          PROVE  Alike(calls', next.calls) /\ calls' \in Seq(Call)
      <4>1. <<c>> \in Seq(Call)
        OBVIOUS
      <4>2. calls' = calls \o <<c>> /\ next.calls = due.calls \o <<c>>
        BY <2>5, <3>2
      <4>3. calls' \in Seq(Call)
        BY <4>1, <4>2, ConcatProperties
      <4>4. Alike(calls', next.calls)
        BY <1>1, <1>4, <4>2, AlikeOneMore
      <4> QED
        BY <4>3, <4>4
    <3> QED
      BY <2>4, <3>1, <3>2
  <2>7. NoOverflow(Append(tokens, t)) => calls' = next.calls /\ attr' = next.attr
    BY <1>4, <1>5, <2>2, <2>5
  <2> QED
    BY <2>2, <2>6, <2>7
<1> QED
  BY <1>6, <1>7

LEMMA SameCalls ==
  ASSUME NEW t, IsSequence(t), t.end # Screen!m,
         NEW params, Agrees(params, t), NEW a, NEW b
  PROVE  Screen!Calls(t.end, params, a) = Screen!Calls(t.end, t.params, b)
<1>1. /\ MAX_PARAMS \in Nat /\ MAX_PARAMS >= 2 /\ Len(t.params) \in Nat \ {0}
  BY ScreenAssumed, SequenceIs DEF Screen!ScreenAssumption
<1>2. /\ Len(params) = Len(t.params) /\ params[1] = t.params[1]
      /\ Len(params) >= 2 => params[2] = t.params[2]
  BY <1>1 DEF Agrees
<1>3. /\ Screen!Positive(params, 1) = Screen!Positive(t.params, 1)
      /\ Screen!Positive(params, 2) = Screen!Positive(t.params, 2)
  BY <1>2 DEF Screen!Positive
<1>4. Screen!Erases(params) = Screen!Erases(t.params)
  BY <1>2 DEF Screen!Erases
<1> QED
  BY <1>3, <1>4 DEF Screen!Calls

LEMMA EndedIs ==
  ASSUME attr \in 0 .. 255, calls \in Seq(Call), NEW t, IsSequence(t), Ended(t)
  PROVE  MadeColours(t) \/ MadeCalls(t)
<1>1. PICK params :
        /\ Agrees(params, t)
        /\ calls' = calls \o Screen!Calls(t.end, params, attr)
        /\ attr' = IF t.end = Screen!m THEN Screen!SgrAll(attr, params)
                   ELSE attr
  BY DEF Ended
<1>2. /\ Len(t.params) \in Nat \ {0} /\ t.params \in Seq(Value)
      /\ params \in Seq(Int) /\ Len(params) = Len(t.params)
  BY <1>1, SequenceIs DEF Agrees
<1>3. CASE t.end = Screen!m
  <2> DEFINE a == Screen!SgrAll(attr, params)
  <2>1. Screen!Calls(t.end, params, attr) = <<Screen!SetAttribute(a)>>
    <3>1. \A i \in 1 .. Len(params) : params[i] \in Int
      BY <1>2, ElementOfSeq
    <3> QED
      BY <1>2, <1>3, <3>1, CallsAre
  <2>2. a \in 0 .. 255
    BY <1>2, SgrAllRange
  <2>3. ASSUME ~Screen!Overflows(t) PROVE a = Screen!SgrAll(attr, t.params)
    <3>1. Len(t.params) <= MAX_PARAMS
      BY <1>2, <1>3, <2>3, ScreenAssumed
      DEF Screen!Overflows, IsSequence, Screen!ScreenAssumption
    <3>2. \A i \in 1 .. Len(params) : params[i] = t.params[i]
      BY <1>1, <1>2, <3>1, ScreenAssumed DEF Agrees, Screen!ScreenAssumption
    <3>3. t.params \in Seq(Int)
      <4>1. t.params # <<>>
        BY DEF IsSequence, Screen!IsToken
      <4> QED
        BY <1>2, <4>1, Parameters
    <3>4. params = t.params
      BY ONLY <1>2, <3>2, <3>3, SeqEqual
    <3> QED
      BY <3>4
  <2> HIDE DEF a
  <2>4. attr' = a
    BY <1>1, <1>3 DEF a
  <2> QED
    BY <1>1, <1>3, <2>1, <2>2, <2>3, <2>4 DEF MadeColours, Colours
<1>4. CASE t.end # Screen!m
  <2>1. \A a \in 0 .. 255 : Screen!Meaning(t, a)
                              = Screen!Calls(t.end, params, attr)
    BY <1>1, <1>4, SameCalls DEF Screen!Meaning, IsSequence
  <2> QED
    BY <1>1, <1>4, <2>1 DEF MadeCalls, Colours
<1> QED
  BY <1>3, <1>4

-----------------------------------------------------------------------------
(* The inductive invariant of the screen: between two tokens the calls made  *)
(* are those due, and within one those due before it.                        *)

Within(before, t) ==
  printed = Append(before, t) /\ Position(t) /\ Matches(before)

ScreenInv ==
  /\ Screen!TypeOK /\ calls \in Seq(Call) /\ printed \in Seq(Token)
  /\ \/ unsent = <<>> /\ ansi_state = "ST_NORMAL" /\ Matches(printed)
     \/ \E before \in Seq(Token), t \in Token : Within(before, t)

LEMMA TokenIs == ASSUME NEW t \in Token PROVE Screen!IsToken(t)
  BY ScreenAssumed DEF Screen!ScreenAssumption

LEMMA PositionUnsent ==
  ASSUME NEW t \in Token, Position(t) PROVE unsent # <<>>
<1>1. CASE "char" \in DOMAIN t \/ IsEscape(t)
  BY <1>1 DEF Position, IsSequence, IsEscape
<1>2. CASE IsSequence(t)
  <2>1. Body(t) \in Bytes
    BY <1>2, BytesOfSequence
  <2>2. /\ <<Screen!LBRACKET>> \o Body(t) \in Bytes
        /\ <<Screen!LBRACKET>> \o Body(t) # <<>>
    BY <2>1, ByteClasses, FirstOf
  <2>3. <<Screen!ESC>> \o (<<Screen!LBRACKET>> \o Body(t)) # <<>>
    BY <2>2, ByteClasses, FirstOf
  <2>4. ASSUME InParameters(t) PROVE unsent # <<>>
    <3>1. PICK k \in 0 .. Len(t.params) - 1,
               marks \in Seq(Screen!PrivateByte),
               digits \in Seq(Screen!Digit) :
            unsent = marks \o (digits \o Screen!Rest(t)[k])
      BY <2>4 DEF InParameters
    <3> DEFINE rest == Screen!Rest(t)[k]
    <3>2. marks \in Bytes /\ digits \in Bytes /\ rest \in Bytes
      BY <1>2, RestIsBytes, ByteClasses, BytesIn
    <3>3. rest # <<>>
      <4>1. CASE k = 0
        <5>1. rest = End(t)
          BY <1>2, <4>1, RestIs
        <5>2. End(t) # <<>>
          BY DEF End
        <5> QED
          BY <5>1, <5>2
      <4>2. CASE k # 0
        <5> DEFINE left == Screen!Digits(Param(t, k)) \o Screen!Rest(t)[k - 1]
        <5>1. k \in 1 .. Len(t.params) - 1 /\ k \in 1 .. Len(t.params)
              /\ k - 1 \in 0 .. Len(t.params) - 1
          BY <1>2, <4>2, SequenceIs
        <5>2. rest = <<Screen!SEMI>> \o left
          BY <1>2, <5>1, RestSplits
        <5>3. left \in Bytes
          <6>1. Screen!Digits(Param(t, k)) \in Bytes
            BY <1>2, <5>1, ParamDigits
          <6>2. Screen!Rest(t)[k - 1] \in Bytes
            BY <1>2, <5>1, RestIsBytes
          <6> QED
            BY <6>1, <6>2, ConcatProperties DEF Bytes
        <5> HIDE DEF left, rest
        <5> QED
          BY <5>2, <5>3, ByteClasses, FirstOf
      <4> QED
        BY <4>1, <4>2
    <3> HIDE DEF rest
    <3>4. digits \o rest \in Bytes /\ digits \o rest # <<>>
      BY <3>2, <3>3, ConcatProperties, ConcatEqualIffEmpty DEF Bytes
    <3> DEFINE left == digits \o rest
    <3> HIDE DEF left
    <3>5. left \in Bytes /\ left # <<>>
      BY <3>4 DEF left
    <3>6. marks \o left # <<>>
      BY <3>2, <3>5, ConcatEqualIffEmpty DEF Bytes
    <3> QED
      BY <3>1, <3>6 DEF left, rest
  <2> QED
    BY <1>2, <2>2, <2>3, <2>4 DEF Position, IsSequence, IsEscape
<1> QED
  BY <1>1, <1>2, TokenIs DEF IsSequence, IsEscape

LEMMA InitScreen == Screen!Init => ScreenInv
<1> SUFFICES ASSUME Screen!Init PROVE ScreenInv
  OBVIOUS
<1>1. Screen!TypeOK
  BY ScreenAssumed
  DEF Screen!Init, Screen!TypeOK, Screen!ScreenAssumption
<1>2. calls = <<Screen!ClearScreen>> /\ attr = 7 /\ printed = <<>>
      /\ unsent = <<>> /\ ansi_state = "ST_NORMAL"
  BY DEF Screen!Init
<1>3. calls \in Seq(Call) /\ printed \in Seq(Token)
  BY <1>2 DEF Call
<1>4. Screen!Expected(<<>>).calls = calls /\ Screen!Expected(<<>>).attr = attr
  BY <1>2, ExpectedEmpty DEF Start
<1>5. Matches(printed)
  BY <1>2, <1>4 DEF Matches, Alike
<1> QED
  BY <1>1, <1>2, <1>3, <1>5 DEF ScreenInv

LEMMA TypeStays ==
  ASSUME Screen!TypeOK, Screen!Next PROVE Screen!TypeOK'
<1> USE DEF Screen!TypeOK
<1>0. MAX_PARAMS \in Nat
  BY ScreenAssumed DEF Screen!ScreenAssumption
<1>1. ASSUME NEW t \in Token, Screen!Write(t) PROVE Screen!TypeOK'
  BY <1>1 DEF Screen!Write
<1>2. ASSUME NEW c, Screen!NormalByte(c) PROVE Screen!TypeOK'
  BY <1>2 DEF Screen!NormalByte, Screen!KeepParams, Screen!Parse
<1>3. ASSUME NEW c, Screen!EscByte(c) PROVE Screen!TypeOK'
  BY <1>0, <1>3
  DEF Screen!EscByte, Screen!KeepParams, Screen!Silent, Screen!Reset
<1>4. ASSUME Screen!PushParam
      PROVE  /\ csi_n' \in Nat /\ csi_cur' \in Nat
             /\ csi_seen_digit' \in {0, 1}
             /\ csi_params' \in [1 .. MAX_PARAMS -> Nat \cup {-1}]
  BY <1>0, <1>4 DEF Screen!PushParam, Screen!Stored, Screen!Pushed
<1>5. ASSUME NEW c, Screen!CsiByte(c) PROVE Screen!TypeOK'
  <2>0. ansi_state = "ST_CSI"
    BY <1>5 DEF Screen!CsiByte, Screen!Parse
  <2>1. CASE Screen!DigitByte(c)
    BY <2>0, <2>1
    DEF Screen!DigitByte, Screen!Silent, Screen!Shifted, Screen!Digit
  <2>2. CASE Screen!Separator(c)
    BY <1>4, <2>0, <2>2 DEF Screen!Separator, Screen!Silent
  <2>3. CASE Screen!Private(c)
    BY <2>0, <2>3 DEF Screen!Private, Screen!KeepParams, Screen!Silent
  <2>4. CASE Screen!Exec(c)
    <3>1. ansi_state' = "ST_NORMAL" /\ Screen!PushParam
      BY <2>4 DEF Screen!Exec
    <3>2. PICK stray \in Stray :
            attr' = IF c = Screen!m
                    THEN Screen!SgrAll(attr, [i \in 1 .. csi_n' |->
                           IF i <= MAX_PARAMS THEN csi_params'[i] ELSE stray])
                    ELSE attr
      BY <2>4 DEF Screen!Exec
    <3> DEFINE params == [i \in 1 .. csi_n' |->
                           IF i <= MAX_PARAMS THEN csi_params'[i] ELSE stray]
    <3>3. Len(params) \in Nat
      BY <1>4, <3>1
    <3> HIDE DEF params
    <3>4. Screen!SgrAll(attr, params) \in 0 .. 255
      BY <3>3, SgrAllRange
    <3>5. attr' \in 0 .. 255
      BY <3>2, <3>4 DEF params
    <3> QED
      BY <1>4, <3>1, <3>5
  <2>5. CASE Screen!Abort(c)
    BY <2>5 DEF Screen!Abort, Screen!KeepParams, Screen!Silent
  <2> QED
    BY <1>5, <2>1, <2>2, <2>3, <2>4, <2>5 DEF Screen!CsiByte
<1> QED
  BY <1>1, <1>2, <1>3, <1>5 DEF Screen!Next

LEMMA WriteKeeps ==
  ASSUME ScreenInv, NEW t \in Token, Screen!Write(t)
  PROVE  /\ calls' \in Seq(Call) /\ printed' \in Seq(Token)
         /\ \E before \in Seq(Token) : Within(before, t)'
<1>1. /\ unsent = <<>> /\ printed' = Append(printed, t)
      /\ unsent' = Screen!BytesOf(t)
      /\ UNCHANGED <<ansi_state, attr, calls>>
  BY DEF Screen!Write
<1>2. ansi_state = "ST_NORMAL" /\ Matches(printed)
  BY <1>1, PositionUnsent DEF ScreenInv, Within
<1>3. PICK before \in Seq(Token) : before = printed
  BY DEF ScreenInv
<1>4. Matches(before)'
  BY <1>1, <1>2, <1>3 DEF Matches
<1>5. Position(t)'
  <2>1. CASE "char" \in DOMAIN t
    <3>1. unsent' = <<t.char>>
      BY <1>1, <2>1 DEF Screen!BytesOf
    <3> QED
      BY <1>1, <1>2, <2>1, <3>1 DEF Position
  <2>2. CASE IsEscape(t)
    <3>1. unsent' = <<Screen!ESC, t.esc>>
      BY <1>1, <2>2 DEF Screen!BytesOf, IsEscape
    <3> QED
      BY <1>1, <1>2, <2>2, <3>1 DEF Position
  <2>3. CASE IsSequence(t)
    BY <1>1, <1>2, <2>3, BytesOfSequence DEF Position
  <2> QED
    BY <2>1, <2>2, <2>3, TokenIs DEF IsSequence, IsEscape
<1>6. calls' \in Seq(Call) /\ printed' \in Seq(Token)
  BY <1>1, AppendProperties DEF ScreenInv
<1> QED
  BY <1>1, <1>3, <1>4, <1>5, <1>6 DEF Within

\* What a byte does to the token it is of: it goes on, or it has been read.
Read(t) ==
  /\ unsent' = <<>> /\ ansi_state' = "ST_NORMAL" /\ UNCHANGED printed
  /\ MadeColours(t) \/ MadeCalls(t)
StaysWithin(t) == Position(t)' /\ UNCHANGED <<printed, attr, calls>>

LEMMA NormalStep ==
  ASSUME ScreenInv, NEW t \in Token, Position(t), NEW c, Screen!NormalByte(c)
  PROVE  Read(t) \/ StaysWithin(t)
<1>1. /\ ansi_state = "ST_NORMAL" /\ c = Head(unsent) /\ unsent' = Tail(unsent)
      /\ UNCHANGED <<printed, attr>>
      /\ c = Screen!ESC => ansi_state' = "ST_ESC" /\ UNCHANGED calls
      /\ c # Screen!ESC => /\ calls' = Append(calls, Screen!Character(c))
                           /\ UNCHANGED ansi_state
  BY DEF Screen!NormalByte, Screen!Parse
<1>2. CASE "char" \in DOMAIN t
  <2>1. unsent = <<t.char>> /\ t.char \in Nat /\ t.char # Screen!ESC
    <3>1. t.char \in (0 .. 255) \ {Screen!ESC}
      BY <1>2, TokenIs DEF Screen!IsToken
    <3>2. t.char \in Nat /\ t.char # Screen!ESC
      BY <3>1
    <3>3. unsent = <<t.char>>
      BY <1>2 DEF Position, IsSequence, IsEscape
    <3> QED
      BY <3>2, <3>3
  <2>2. c = t.char /\ unsent' = <<>>
    BY <1>1, <2>1
  <2> DEFINE call_made == Screen!Character(t.char)
  <2>3. call_made \in Call
    BY <2>1, CharacterIsCall
  <2>4. calls' = Append(calls, call_made) /\ UNCHANGED ansi_state
    BY <1>1, <2>1, <2>2
  <2>5. \A a \in 0 .. 255 : Screen!Meaning(t, a) = <<call_made>>
    BY <1>2 DEF Screen!Meaning
  <2> HIDE DEF call_made
  <2>6. calls' = calls \o <<call_made>>
    BY <2>3, <2>4, AppendIsConcat DEF ScreenInv
  <2>7. MadeCalls(t)
    BY <1>1, <1>2, <2>5, <2>6 DEF MadeCalls, Colours, IsSequence
  <2> QED
    BY <1>1, <2>2, <2>4, <2>7 DEF Read
<1>3. CASE IsSequence(t)
  <2> DEFINE left == <<Screen!LBRACKET>> \o Body(t)
  <2>1. unsent = <<Screen!ESC>> \o left /\ left \in Bytes
    <3>1. unsent = <<Screen!ESC>> \o left
      BY <1>1, <1>3 DEF Position, IsSequence, IsEscape
    <3>2. Body(t) \in Bytes
      BY <1>3, BytesOfSequence
    <3> QED
      BY <3>1, <3>2, ByteClasses, FirstOf
  <2> HIDE DEF left
  <2>2. Head(unsent) = Screen!ESC /\ Tail(unsent) = left
    BY <2>1, ByteClasses, FirstOf
  <2>3. /\ unsent' = left /\ ansi_state' = "ST_ESC"
        /\ UNCHANGED <<printed, attr, calls>>
    BY <1>1, <2>2
  <2>4. Position(t)'
    BY <1>3, <2>3 DEF Position, left
  <2> QED
    BY <2>3, <2>4 DEF StaysWithin
<1>4. CASE IsEscape(t)
  <2>1. unsent = <<Screen!ESC, t.esc>>
    BY <1>1, <1>4 DEF Position, IsSequence, IsEscape
  <2>2. c = Screen!ESC /\ unsent' = <<t.esc>>
    BY <1>1, <2>1
  <2>3. Position(t)'
    BY <1>1, <1>4, <2>2 DEF Position
  <2> QED
    BY <1>1, <2>2, <2>3 DEF StaysWithin
<1> QED
  BY <1>2, <1>3, <1>4, TokenIs DEF IsSequence, IsEscape

\* ESC and a byte that begins no sequence: both are dropped.
LEMMA EscapeStep ==
  ASSUME ScreenInv, NEW t \in Token, Position(t), IsEscape(t),
         NEW c, Screen!EscByte(c)
  PROVE  Read(t)
<1>1. /\ ansi_state = "ST_ESC" /\ c = Head(unsent) /\ unsent' = Tail(unsent)
      /\ UNCHANGED <<printed, attr, calls>>
      /\ c # Screen!LBRACKET => ansi_state' = "ST_NORMAL"
  BY DEF Screen!EscByte, Screen!Parse, Screen!Silent
<1>2. unsent = <<t.esc>> /\ t.esc # Screen!LBRACKET
  BY <1>1, TokenIs DEF Position, IsSequence, IsEscape, Screen!IsToken
<1>3. unsent' = <<>> /\ ansi_state' = "ST_NORMAL"
  BY <1>1, <1>2
<1>4. calls' = calls \o <<>>
  BY <1>1, ConcatEmptySeq DEF ScreenInv
<1>5. \A a \in 0 .. 255 : Screen!Meaning(t, a) = <<>>
  BY DEF Screen!Meaning, IsEscape
<1>6. MadeCalls(t)
  BY <1>1, <1>4, <1>5 DEF MadeCalls, Colours, IsSequence, IsEscape
<1> QED
  BY <1>1, <1>3, <1>6 DEF Read

LEMMA EscStep ==
  ASSUME Screen!TypeOK, NEW t \in Token, Position(t), ~IsEscape(t),
         NEW c, Screen!EscByte(c)
  PROVE  StaysWithin(t)
<1>1. /\ ansi_state = "ST_ESC" /\ c = Head(unsent) /\ unsent' = Tail(unsent)
      /\ UNCHANGED <<printed, attr, calls>>
      /\ c = Screen!LBRACKET => ansi_state' = "ST_CSI" /\ Screen!Reset
  BY DEF Screen!EscByte, Screen!Parse, Screen!Silent
<1>2. IsSequence(t) /\ unsent = <<Screen!LBRACKET>> \o Body(t)
  BY <1>1 DEF Position
<1>3. Body(t) \in Bytes
  BY <1>2, BytesOfSequence
<1>4. Head(unsent) = Screen!LBRACKET /\ Tail(unsent) = Body(t)
  BY <1>2, <1>3, ByteClasses, FirstOf
<1>5. /\ unsent' = Body(t) /\ ansi_state' = "ST_CSI"
      /\ csi_n' = 0 /\ csi_cur' = 0 /\ csi_seen_digit' = 0
  BY <1>1, <1>4 DEF Screen!Reset
<1> DEFINE n == Len(t.params)
           digits == Screen!Digits(t.params[1])
<1>6. /\ n \in Nat \ {0} /\ n - 1 \in 0 .. n - 1 /\ (n - 1) + 1 = n
      /\ t.marks \in Seq(Screen!PrivateByte)
      /\ t.params[1] = Param(t, n) /\ Param(t, n) \in Value
  <2>1. n \in Nat \ {0}
    BY <1>2, SequenceIs
  <2>2. n \in 1 .. n /\ n - 1 \in 0 .. n - 1 /\ (n - 1) + 1 = n
    BY <2>1
  <2>3. /\ t.marks \in Seq(Screen!PrivateByte) /\ t.params[1] = Param(t, n)
    BY <1>2, SequenceIs
  <2>4. \A i \in 1 .. n : Param(t, i) \in Value
    BY <1>2, SequenceIs
  <2> HIDE DEF n
  <2> QED
    BY <2>1, <2>2, <2>3, <2>4
<1>7. Number(digits, Param(t, n), 0, 0) /\ digits \in Seq(Screen!Digit)
  BY <1>6, NumberBegins
<1>8. unsent' = t.marks \o (digits \o Screen!Rest(t)[n - 1])
  BY <1>5 DEF Body
<1>9. csi_n' = n - (n - 1) - 1 /\ 1 .. csi_n' = {}
  BY <1>5, <1>6
<1>10. Number(digits, Param(t, (n - 1) + 1), csi_cur', csi_seen_digit')
  BY <1>5, <1>6, <1>7
<1> HIDE DEF digits
<1>11. \A i \in 1 .. csi_n' : i <= MAX_PARAMS => csi_params'[i] = t.params[i]
  BY <1>9
<1>12. InParameters(t)'
  <2>1. /\ n - 1 \in 0 .. Len(t.params) - 1
        /\ csi_n' = Len(t.params) - (n - 1) - 1
    BY <1>6, <1>9
  <2> DEFINE k == n - 1
  <2>2. /\ k \in 0 .. Len(t.params) - 1 /\ csi_n' = Len(t.params) - k - 1
        /\ unsent' = t.marks \o (digits \o Screen!Rest(t)[k])
        /\ Number(digits, Param(t, k + 1), csi_cur', csi_seen_digit')
    BY <1>8, <1>10, <2>1
  <2> HIDE DEF k, n
  <2> QED
    BY <1>6, <1>7, <1>11, <2>2 DEF InParameters
<1> QED
  BY <1>1, <1>2, <1>5, <1>12 DEF Position, StaysWithin

LEMMA CsiStays ==
  ASSUME ScreenInv, NEW t \in Token, Position(t), NEW c, Screen!CsiByte(c)
  PROVE  Read(t) \/ StaysWithin(t)
<1>1. ansi_state = "ST_CSI"
  BY DEF Screen!CsiByte, Screen!Parse
<1>2. IsSequence(t) /\ InParameters(t)
  BY <1>1 DEF Position
<1>3. Screen!TypeOK /\ calls \in Seq(Call) /\ attr \in 0 .. 255
  BY DEF ScreenInv, Screen!TypeOK
<1>4. GoesOn(t) \/ Ended(t)
  BY <1>2, <1>3, CsiStep
<1>5. GoesOn(t) => StaysWithin(t)
  BY <1>2 DEF GoesOn, StaysWithin, Position
<1>6. Ended(t) => Read(t)
  BY <1>2, <1>3, EndedIs DEF Ended, Read
<1> QED
  BY <1>4, <1>5, <1>6

LEMMA ByteKeeps ==
  ASSUME ScreenInv, NEW t \in Token, NEW before \in Seq(Token),
         Within(before, t), Read(t) \/ StaysWithin(t)
  PROVE  /\ calls' \in Seq(Call) /\ printed' \in Seq(Token)
         /\ \/ unsent' = <<>> /\ ansi_state' = "ST_NORMAL" /\ Matches(printed)'
            \/ Within(before, t)'
<1>1. /\ printed = Append(before, t) /\ Matches(before)
      /\ calls \in Seq(Call) /\ attr \in 0 .. 255 /\ printed \in Seq(Token)
  BY DEF Within, ScreenInv, Screen!TypeOK
<1>2. CASE Read(t)
  <2>1. calls' \in Seq(Call) /\ Matches(Append(before, t))'
    BY <1>1, <1>2, OneMoreMatches DEF Read
  <2>2. /\ printed' = Append(before, t) /\ printed' = printed
        /\ unsent' = <<>> /\ ansi_state' = "ST_NORMAL"
    BY <1>1, <1>2 DEF Read
  <2>3. Matches(printed)'
    BY <2>1, <2>2
  <2> QED
    BY <1>1, <2>1, <2>2, <2>3
<1>3. CASE StaysWithin(t)
  BY <1>1, <1>3 DEF StaysWithin, Within, Matches
<1> QED
  BY <1>2, <1>3

LEMMA NextScreen == ScreenInv /\ [Screen!Next]_screenVars => ScreenInv'
<1> SUFFICES ASSUME ScreenInv, [Screen!Next]_screenVars PROVE ScreenInv'
  OBVIOUS
<1>0. Screen!Next => Screen!TypeOK'
  BY TypeStays DEF ScreenInv
<1>1. ASSUME NEW t \in Token, Screen!Write(t), Screen!TypeOK' PROVE ScreenInv'
  <2>2. /\ calls' \in Seq(Call) /\ printed' \in Seq(Token)
        /\ \E before \in Seq(Token) : Within(before, t)'
    BY <1>1, WriteKeeps
  <2> QED
    BY <1>1, <2>2 DEF ScreenInv
<1>2. ASSUME NEW c, Screen!TypeOK',
             Screen!NormalByte(c) \/ Screen!EscByte(c) \/ Screen!CsiByte(c)
      PROVE  ScreenInv'
  <2>2. unsent # <<>>
    BY <1>2
    DEF Screen!NormalByte, Screen!EscByte, Screen!CsiByte, Screen!Parse
  <2>3. PICK before \in Seq(Token), t \in Token : Within(before, t)
    BY <2>2 DEF ScreenInv
  <2>4. Read(t) \/ StaysWithin(t)
    BY <1>2, <2>3, NormalStep, EscapeStep, EscStep, CsiStays
    DEF Within, ScreenInv
  <2>5. /\ calls' \in Seq(Call) /\ printed' \in Seq(Token)
        /\ \/ unsent' = <<>> /\ ansi_state' = "ST_NORMAL" /\ Matches(printed)'
           \/ Within(before, t)'
    BY <2>3, <2>4, ByteKeeps
  <2>6. \/ unsent' = <<>> /\ ansi_state' = "ST_NORMAL" /\ Matches(printed)'
        \/ \E old \in Seq(Token), u \in Token : Within(old, u)'
    BY <2>3, <2>5
  <2> QED
    BY <1>2, <2>5, <2>6 DEF ScreenInv
<1>3. CASE UNCHANGED screenVars
  <2>1. UNCHANGED <<printed, unsent, ansi_state, csi_params, csi_n, csi_cur,
                    csi_seen_digit, attr, calls>>
    BY <1>3 DEF screenVars
  <2>2. Screen!TypeOK'
    BY <2>1 DEF ScreenInv, Screen!TypeOK
  <2>3. ASSUME NEW tokens, Matches(tokens) PROVE Matches(tokens)'
    BY <2>1, <2>3 DEF Matches
  <2>4. ASSUME NEW t, Position(t) PROVE Position(t)'
    <3>1. InParameters(t) => InParameters(t)'
      BY <2>1 DEF InParameters
    <3> QED
      BY <2>1, <2>4, <3>1 DEF Position
  <2>5. ASSUME NEW before, NEW t, Within(before, t) PROVE Within(before, t)'
    BY <2>1, <2>3, <2>4, <2>5 DEF Within
  <2>6. Matches(printed) => Matches(printed)'
    BY <2>1 DEF Matches
  <2> QED
    BY <2>1, <2>2, <2>5, <2>6 DEF ScreenInv
<1> QED
  BY <1>0, <1>1, <1>2, <1>3 DEF Screen!Next

LEMMA AlwaysScreenInv == MCSpec => []ScreenInv
<1>1. MCInit => ScreenInv
  BY InitScreen DEF MCInit
<1>2. ScreenInv /\ [MCNext]_<<part, vars, keysVars, screenVars>> => ScreenInv'
  <2>1. [MCNext]_<<part, vars, keysVars, screenVars>> =>
          [Screen!Next]_screenVars
    BY DEF MCNext, screenVars
  <2> QED
    BY <2>1, NextScreen
<1> QED
  BY <1>1, <1>2, PTL DEF MCSpec

\* Whatever is printed, in whatever order and however the bytes of a write are
\* split, every token makes the calls it would make alone (parse_byte,
\* ansi_exec): no digit, parameter or state of one sequence shows in the next,
\* whatever byte ended it.  A sequence whose ESC is that byte, or comes after an
\* ESC, is no token: its bytes from "[" on are, and appear as text.
THEOREM TokensKeepTheirMeaning == MCSpec => []TokensInterpreted
<1>1. ScreenInv => TokensInterpreted
  <2> SUFFICES ASSUME ScreenInv PROVE Screen!TypeOK /\ Screen!TokensInterpreted
    BY DEF TokensInterpreted
  <2>1. unsent = <<>> => ansi_state = "ST_NORMAL" /\ Matches(printed)
    BY PositionUnsent DEF ScreenInv, Within
  <2> QED
    BY <2>1 DEF Screen!TokensInterpreted, Matches, ScreenInv
<1> QED
  BY <1>1, AlwaysScreenInv, PTL

\* An SGR sequence of more parameters than csi_params holds (ansi_exec reads
\* past its end) harms colours only: every other call is made in its place.
THEOREM OverflowHarmsOnlyColours == MCSpec => []OverflowHarmsColoursOnly
<1>1. ScreenInv => OverflowHarmsColoursOnly
  <2> SUFFICES ASSUME ScreenInv PROVE Screen!OverflowHarmsColoursOnly
    BY DEF OverflowHarmsColoursOnly
  <2>1. unsent = <<>> => Matches(printed)
    BY PositionUnsent DEF ScreenInv, Within
  <2> QED
    BY <2>1 DEF Screen!OverflowHarmsColoursOnly, Matches, Alike
<1> QED
  BY <1>1, AlwaysScreenInv, PTL
=============================================================================
