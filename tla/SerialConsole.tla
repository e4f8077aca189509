---------------------------- MODULE SerialConsole ----------------------------
(***************************************************************************)
(* Serial console input: the UART's receive FIFO, filled by the far end at *)
(* any moment, and the polled driver (kernel/serial.c) under the calls of  *)
(* the syscall shim that wait for or consume input: read of descriptor 0,  *)
(* poll, ppoll and pselect6.  There are no interrupts, so the steps of one *)
(* call interleave with arriving bytes and with nothing else.              *)
(***************************************************************************)
EXTENDS Integers, Sequences, FiniteSets

CONSTANTS FIFO_SIZE,  \* the UART's receive FIFO, 16 bytes on the hardware
          Last,       \* the far end types bytes 1, 2, ..., Last
          ReadLen,    \* the lengths given to read
          PollArg,    \* the arrays given to poll and ppoll
          SelectArg   \* the arguments given to pselect6

\* An entry of a poll array; the arguments of a select.
PollEntry == [fd : Nat, events : SUBSET {"POLLIN", "POLLOUT"}]
Select == [nfds : Nat, readfds : SUBSET Nat, writefds : SUBSET Nat]

ASSUME ConsoleAssumption ==
  /\ FIFO_SIZE \in Nat \ {0} /\ Last \in Nat /\ ReadLen \subseteq Nat
  /\ PollArg \subseteq Seq(PollEntry) /\ SelectArg \subseteq Select

VARIABLES typed,      \* bytes the far end has typed
          fifo,       \* the UART's receive FIFO
          pc,         \* where the one thread of control is
          call,       \* the call in progress: its arguments
          buf,        \* serial_read's buffer; poll's revents
          taken,      \* the bytes returned to the program, oldest first
          reply       \* what the last poll, ppoll or select answered

vars == <<typed, fifo, pc, call, buf, taken, reply>>

None == [call |-> "none"]
NoReply == [call |-> "none", count |-> 0, stdin |-> FALSE]

Init ==
  /\ typed = 0 /\ fifo = <<>> /\ taken = <<>>
  /\ pc = "boot" /\ call = None /\ buf = <<>> /\ reply = NoReply

-----------------------------------------------------------------------------
\* The far end types a byte.  The UART drops it when its FIFO is full.
HostTypes ==
  /\ typed < Last
  /\ typed' = typed + 1
  /\ fifo' = IF Len(fifo) < FIFO_SIZE THEN Append(fifo, typed') ELSE fifo
  /\ UNCHANGED <<pc, call, buf, taken, reply>>

\* The line status register's data bit, and a defect: the test of another bit,
\* that of a full FIFO.
overrun_imminent == Len(fifo) = FIFO_SIZE
serial_data_ready == fifo # <<>>

\* serial_init: 0xC7 to the FIFO control register clears the receive FIFO.
SerialInit ==
  /\ pc = "boot"
  /\ fifo' = <<>>
  /\ pc' = "program"
  /\ UNCHANGED <<typed, call, buf, taken, reply>>

Enter(where, args) ==
  /\ pc = "program"
  /\ pc' = where
  /\ call' = args
  /\ buf' = <<>>
  /\ reply' = NoReply
  /\ UNCHANGED <<typed, fifo, taken>>

-----------------------------------------------------------------------------
\* serial_read of nothing returns at once.  A defect: it does not look.
SerialReadAlways(len) == Enter("getc", [call |-> "read", len |-> len])
SerialRead(len) ==
  IF len = 0 THEN Enter("program", None)
             ELSE Enter("getc", [call |-> "read", len |-> len])

\* serial_getc spins until the line status register shows data.
GetC ==
  /\ pc = "getc"
  /\ serial_data_ready
  /\ buf' = <<Head(fifo)>>
  /\ fifo' = Tail(fifo)
  /\ pc' = "drain"
  /\ UNCHANGED <<typed, call, taken, reply>>

\* Further bytes are taken only while they are there and there is room.
\* buf[i++] = byte, and a defect: i stays where it was.
StoredAtFirst(byte) == <<byte>>
Stored(byte) == Append(buf, byte)

DrainOne ==
  /\ pc = "drain"
  /\ Len(buf) < call.len /\ serial_data_ready
  /\ buf' = Stored(Head(fifo))
  /\ fifo' = Tail(fifo)
  /\ UNCHANGED <<typed, pc, call, taken, reply>>

ReadReturns ==
  /\ pc = "drain"
  /\ ~(Len(buf) < call.len /\ serial_data_ready)
  /\ taken' = taken \o buf
  /\ buf' = <<>>
  /\ pc' = "program"
  /\ call' = None
  /\ UNCHANGED <<typed, fifo, reply>>

-----------------------------------------------------------------------------
\* poll and ppoll look at one entry after the other; the line status register
\* is read for each entry that asks for input on descriptor 0.
Poll(which, fds) == Enter("poll", [call |-> which, fds |-> fds])

\* A defect: input reported without a look at the UART.
ReventsBlind(e) ==
  {ev \in e.events : \/ ev = "POLLIN" /\ e.fd = 0
                     \/ ev = "POLLOUT" /\ e.fd \in {1, 2}}
Revents(e) ==
  {ev \in e.events : \/ ev = "POLLIN" /\ e.fd = 0 /\ serial_data_ready
                     \/ ev = "POLLOUT" /\ e.fd \in {1, 2}}

PollNext ==
  /\ pc = "poll"
  /\ Len(buf) < Len(call.fds)
  /\ buf' = Append(buf, Revents(call.fds[Len(buf) + 1]))
  /\ UNCHANGED <<typed, fifo, pc, call, taken, reply>>

\* ppoll counts one for each entry with an event (an entry has descriptor 0 or
\* an output descriptor, never both); poll always answers 1.
ReadyEntries == Cardinality({i \in DOMAIN buf : buf[i] # {}})

PollReturns ==
  /\ pc = "poll"
  /\ Len(buf) = Len(call.fds)
  /\ reply' = [call |-> call.call,
               count |-> IF call.call = "poll" THEN 1 ELSE ReadyEntries,
               stdin |-> \E i \in DOMAIN buf : "POLLIN" \in buf[i]]
  /\ buf' = <<>>
  /\ pc' = "program"
  /\ call' = None
  /\ UNCHANGED <<typed, fifo, taken>>

\* pselect6: one look at the UART; the timeout is not an input.  stdout and
\* stderr are looked at only when nfds exceeds 2.  A set that is not looked at
\* keeps its bits.
StdinAsked(s) == s.nfds > 0 /\ 0 \in s.readfds
Writable(s) == s.nfds > 2 /\ s.writefds \cap {1, 2} # {}

Pselect(s) ==
  /\ pc = "program"
  /\ LET stdin == StdinAsked(s) /\ serial_data_ready
         ready == (IF stdin THEN 1 ELSE 0) + (IF Writable(s) THEN 1 ELSE 0)
     IN  reply' = [call |-> "pselect6", count |-> ready, stdin |-> stdin]
  /\ call' = [call |-> "pselect6", args |-> s]
  /\ UNCHANGED <<typed, fifo, pc, buf, taken>>

-----------------------------------------------------------------------------
ReadCall == \E len \in ReadLen : SerialRead(len)
PollCall == \E fds \in PollArg : Poll("poll", fds) \/ Poll("ppoll", fds)
SelectCall == \E s \in SelectArg : Pselect(s)
Driver == SerialInit \/ GetC \/ DrainOne \/ ReadReturns \/ PollNext \/ PollReturns

Next == HostTypes \/ Driver \/ ReadCall \/ PollCall \/ SelectCall

Spec == Init /\ [][Next]_vars

\* The CPU never stops inside a call: there is no scheduler to take it away
\* and spinning ends once the UART shows data.  The read-eval loops of
\* init.rb and the editor come back to a read of at least one byte for ever,
\* whatever they poll in between.
Fairness ==
  WF_vars(Driver) /\ SF_vars(\E len \in ReadLen \ {0} : SerialRead(len))
FairSpec == Spec /\ Fairness

-----------------------------------------------------------------------------
\* A read in progress or a poll has its arguments; bytes are those typed.
TypeOK ==
  /\ typed \in 0 .. Last
  /\ fifo \in Seq(1 .. Last) /\ Len(fifo) <= FIFO_SIZE
  /\ taken \in Seq(1 .. Last)
  /\ pc \in {"boot", "program", "getc", "drain", "poll"}
  /\ pc \in {"getc", "drain"} => call.call = "read" /\ buf \in Seq(1 .. Last)
  /\ pc = "poll" => call.call \in {"poll", "ppoll"} /\ call.fds \in PollArg
  /\ reply.count \in Nat /\ reply.stdin \in BOOLEAN

\* The program sees the typed bytes in order, each once; only a full FIFO or
\* serial_init loses one.  Bytes in the buffer of a read in progress are still
\* waiting: they reach the program when serial_read returns.
Stream ==
  INSTANCE ByteStream WITH
    Depth <- FIFO_SIZE,
    waiting <- (IF pc = "drain" THEN buf ELSE <<>>) \o fifo,
    up <- pc # "boot"

StreamSpec == Stream!Spec

\* "Read up to `len` bytes" (serial.c, line 48): however fast bytes arrive, a
\* read in progress stays inside the buffer it was given.
ReadFitsBuffer == pc = "drain" => Len(buf) \in 1 .. call.len

\* Once a poll or select has said that stdin is readable, a byte is there until
\* the program reads: bytes arriving while the array is walked, or after, never
\* make the answer wrong, so the read that follows does not block.
ReadableIsTrue == pc = "program" /\ reply.stdin => serial_data_ready

\* "stdout/stderr always writable" (syscall.c, line 482).
StdoutAlwaysWritable ==
  reply.call = "pselect6" /\ (\E fd \in call.args.writefds \cap {1, 2} :
                                fd < call.args.nfds)
    => reply.count > 0

\* Every byte the UART accepted after serial_init reaches the program: no read
\* stays blocked while a byte waits, and every poll returns.
AllDelivered == [](pc # "boot" => <>(fifo = <<>> /\ pc # "drain"))
=============================================================================
