------------------------------ MODULE UefiKeys ------------------------------
(***************************************************************************)
(* The input half of the UEFI console (kernel/uefi_console.c): keystrokes  *)
(* queued by the firmware at any moment, a place for one key that a        *)
(* readiness test had to take to know it was there, and the calls of the   *)
(* syscall shim that read and test.  The firmware has a console: without   *)
(* one a test says no, and each read returns one byte 255.                 *)
(***************************************************************************)
EXTENDS Integers, Sequences

CONSTANTS QUEUE_SIZE,   \* keystrokes the firmware holds
          Last,         \* the keys pressed are 1, 2, ..., Last
          UnicodeChar,  \* their 16-bit characters; 0 for a key without one
          CR, LF,       \* '\r' and '\n'
          ReadLen,      \* the lengths given to read
          MaxErrors     \* bound: how often getc's ReadKeyStroke may fail with
                        \* EFI_DEVICE_ERROR

KeysAssumption ==
  /\ QUEUE_SIZE \in Nat \ {0} /\ Last \in Nat
  /\ UnicodeChar \in [1 .. Last -> Nat]
  /\ ReadLen \subseteq Nat /\ MaxErrors \in Nat

VARIABLES typed,               \* keys pressed
          queue,               \* the firmware's keystroke queue
          pending_key, pending_key_valid,
          pc,                  \* where the one thread of control is
          len,                 \* the length of the read in progress
          buf,                 \* its buffer
          taken,               \* what reads have returned, oldest first
          errors,              \* the device errors so far
          ready                \* the last readiness test said yes, no read since

vars == <<typed, queue, pending_key, pending_key_valid, pc, len, buf, taken,
          errors, ready>>

\* pending_key's initial value: no key, no character.
NoKey == 0
Char(k) == IF k = NoKey THEN 0 ELSE UnicodeChar[k]

\* uefi_console_getc's result, the low byte, beside the key it stands for.
Got(k) == [key |-> k, byte |-> IF Char(k) = CR THEN LF ELSE Char(k) % 256]

Init ==
  /\ typed = 0 /\ queue = <<>>
  /\ pending_key = NoKey /\ pending_key_valid = 0
  /\ pc = "program" /\ len = 0 /\ buf = <<>> /\ taken = <<>>
  /\ errors = 0 /\ ready = FALSE

\* A key is pressed.  The firmware drops it when its queue is full.
KeyPressed ==
  /\ typed < Last
  /\ typed' = typed + 1
  /\ queue' = IF Len(queue) < QUEUE_SIZE THEN Append(queue, typed') ELSE queue
  /\ UNCHANGED <<pending_key, pending_key_valid, pc, len, buf, taken,
                 errors, ready>>

\* ReadKeyStroke(&pending_key): EFI_SUCCESS.
KeyStroke ==
  /\ queue # <<>>
  /\ pending_key' = Head(queue)
  /\ queue' = Tail(queue)

\* uefi_console_data_ready: EFI_NOT_READY and EFI_DEVICE_ERROR are both a no.
\* Two defects: it asks although a key is pending; it does not keep the key.
DataReadyAsksAgain(yes) ==
  \/ yes /\ KeyStroke /\ pending_key_valid' = 1
  \/ ~yes /\ queue = <<>> /\ UNCHANGED <<queue, pending_key, pending_key_valid>>
DataReadyForgets(yes) ==
  IF pending_key_valid = 1 \/ queue = <<>>
  THEN /\ yes = (pending_key_valid = 1)
       /\ UNCHANGED <<queue, pending_key, pending_key_valid>>
  ELSE yes /\ KeyStroke /\ UNCHANGED pending_key_valid
DataReady(yes) ==
  \/ /\ pending_key_valid = 1
     /\ yes
     /\ UNCHANGED <<queue, pending_key, pending_key_valid>>
  \/ /\ pending_key_valid = 0
     /\ yes
     /\ KeyStroke
     /\ pending_key_valid' = 1
  \/ /\ pending_key_valid = 0
     /\ ~yes
     /\ queue = <<>> \/ MaxErrors > 0
     /\ UNCHANGED <<queue, pending_key, pending_key_valid>>

DeviceError ==
  /\ errors < MaxErrors
  /\ errors' = errors + 1
  /\ UNCHANGED <<queue, pending_key>>

\* uefi_console_getc: the pending key, or a loop that only EFI_NOT_READY keeps
\* turning.  After an error it returns what pending_key held before.  Two
\* defects: the key stays pending; a pending key is not looked at.
GetCKeepsPending(k) ==
  /\ IF pending_key_valid = 1 THEN UNCHANGED <<queue, pending_key, errors>>
     ELSE (KeyStroke /\ UNCHANGED errors) \/ DeviceError
  /\ k = pending_key'
  /\ UNCHANGED pending_key_valid
GetCAsksAgain(k) ==
  KeyStroke /\ k = pending_key' /\ pending_key_valid' = 0 /\ UNCHANGED errors
GetC(k) ==
  /\ IF pending_key_valid = 1 THEN UNCHANGED <<queue, pending_key, errors>>
     ELSE (KeyStroke /\ UNCHANGED errors) \/ DeviceError
  /\ k = pending_key'
  /\ pending_key_valid' = 0

-----------------------------------------------------------------------------
\* poll, ppoll and pselect6 ask for input; init.rb and CRuby read.
Test ==
  /\ pc = "program"
  /\ ready' \in BOOLEAN /\ DataReady(ready')
  /\ UNCHANGED <<typed, pc, len, buf, taken, errors>>

Read(n) ==
  /\ pc = "program"
  /\ pc' = IF n = 0 THEN "program" ELSE "getc"
  /\ len' = n /\ ready' = FALSE
  /\ UNCHANGED <<typed, queue, pending_key, pending_key_valid, buf, taken,
                 errors>>

\* buf[0], or buf[i++] after data_ready has said yes.
Store ==
  /\ pc \in {"getc", "take"}
  /\ \E k \in 0 .. Last : GetC(k) /\ buf' = Append(buf, Got(k))
  /\ pc' = "drain"
  /\ UNCHANGED <<typed, len, taken, ready>>

\* Whether the loop looks for another key.
Room == Len(buf) < len

DrainMore ==
  /\ pc = "drain" /\ Room
  /\ DataReady(TRUE)
  /\ pc' = "take"
  /\ UNCHANGED <<typed, len, buf, taken, errors, ready>>

Returns ==
  /\ pc = "drain"
  /\ \/ ~Room /\ UNCHANGED <<queue, pending_key, pending_key_valid>>
     \/ Room /\ DataReady(FALSE)
  /\ taken' = taken \o buf
  /\ buf' = <<>>
  /\ pc' = "program"
  /\ UNCHANGED <<typed, len, errors, ready>>

ReadCall == \E n \in ReadLen : Read(n)
Driver == Store \/ DrainMore \/ Returns
Next == KeyPressed \/ Test \/ ReadCall \/ Driver

Spec == Init /\ [][Next]_vars

\* As on the serial line: nothing takes the CPU away inside a call, and the
\* program comes back to a read of at least one byte for ever.
Fairness == WF_vars(Driver) /\ SF_vars(\E n \in ReadLen \ {0} : Read(n))
FairSpec == Spec /\ Fairness

-----------------------------------------------------------------------------
\* Keys wait in the queue; a read in progress fills a buffer of its length.
TypeOK ==
  /\ typed \in 0 .. Last
  /\ queue \in Seq(1 .. Last) /\ Len(queue) <= QUEUE_SIZE
  /\ pending_key \in 0 .. Last /\ pending_key_valid \in {0, 1}
  /\ pc \in {"program", "getc", "drain", "take"}
  /\ pc \in {"drain", "take"} => Len(buf) \in 1 .. len
  /\ pc = "take" => Len(buf) < len
  /\ ready \in BOOLEAN

KeysOf(s) == [i \in DOMAIN s |-> s[i].key]
Pending == IF pending_key_valid = 1 THEN <<pending_key>> ELSE <<>>

\* Keys reach the program in order, each once; one is lost only when the
\* firmware's queue is full.  The key a readiness test had to take to give its
\* answer is not lost and not repeated, however tests, reads of any length and
\* key presses follow each other.
Stream ==
  INSTANCE ByteStream WITH
    Depth <- QUEUE_SIZE,
    waiting <- KeysOf(buf) \o Pending \o queue,
    taken <- KeysOf(taken),
    up <- TRUE

\* Promised while the keyboard does not fail.
StreamSpec ==
  [][errors' = 0 => Stream!Type \/ Stream!Take]_(Stream!vars)

\* Once a test has said that input is ready, the key is kept for the next
\* read: it will not block.
ReadyIsTrue == ready => Pending \o queue # <<>>

\* Every key the firmware accepted reaches the program.
AllDelivered == []<>(queue = <<>> /\ pc \in {"program", "getc"} /\ Pending = <<>>)

\* When the keyboard fails now and then, getc may repeat the last key (or
\* return a 0 before the first), but none is returned out of order, and none
\* is skipped before the firmware can have dropped one.
ErrorsOnlyRepeat ==
  LET got == KeysOf(taken \o buf)
  IN  /\ \A i, j \in DOMAIN got : i < j => got[i] <= got[j]
      /\ typed <= QUEUE_SIZE =>
           \A i \in DOMAIN got : \A k \in 1 .. got[i] :
             \E j \in DOMAIN got : got[j] = k
=============================================================================
