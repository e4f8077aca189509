----------------------------- MODULE ByteStream -----------------------------
(***************************************************************************)
(* What a program may rely on of console input: the bytes the far end      *)
(* typed, in order, each once.  A byte is lost only when Depth bytes are   *)
(* already waiting or before the console is set up.                        *)
(***************************************************************************)
EXTENDS Naturals, Sequences

CONSTANTS Depth,     \* bytes that may wait before one is lost
          Last       \* the far end types bytes 1, 2, ..., Last

VARIABLES typed,     \* bytes typed so far
          waiting,   \* typed and not yet given to the program
          taken,     \* given to the program, oldest first
          up         \* the console is set up

vars == <<typed, waiting, taken, up>>

Init == typed = 0 /\ waiting = <<>> /\ taken = <<>> /\ up = FALSE

Type ==
  /\ typed < Last
  /\ typed' = typed + 1
  /\ \/ waiting' = Append(waiting, typed')
     \/ Len(waiting) >= Depth /\ waiting' = waiting
  /\ UNCHANGED <<taken, up>>

SetUp == ~up /\ up' = TRUE /\ waiting' = <<>> /\ UNCHANGED <<typed, taken>>

\* The program is given one byte or more, from the front.
Take ==
  /\ up
  /\ \E n \in 1 .. Len(waiting) :
       /\ taken' = taken \o SubSeq(waiting, 1, n)
       /\ waiting' = SubSeq(waiting, n + 1, Len(waiting))
  /\ UNCHANGED <<typed, up>>

Next == Type \/ SetUp \/ Take

Spec == Init /\ [][Next]_vars
=============================================================================
