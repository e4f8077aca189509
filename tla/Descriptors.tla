----------------------------- MODULE Descriptors -----------------------------
(***************************************************************************)
(* What the descriptor calls of the syscall shim promise a caller that     *)
(* only passes descriptors it holds.  A descriptor is either closed or a   *)
(* cursor: an embedded file, or nothing (a terminal or a dummy pipe), and  *)
(* a position in it.  Nothing here says how slots are found or recorded;   *)
(* FdTable does, and is checked to implement this specification.           *)
(***************************************************************************)
EXTENDS Integers

CONSTANTS Fd,         \* the descriptor numbers
          Stdio,      \* 0, 1 and 2
          File,       \* the embedded files
          FileSize,   \* their sizes
          NoFile      \* what a terminal or pipe descriptor names

VARIABLES open,       \* descriptor -> cursor or Closed
          reply       \* what the last call returned

vars == <<open, reply>>

Closed == [object |-> NoFile, pos |-> -1]

\* A call's return value and, for a call that copies data or attributes out,
\* the object they come from and a position in it (or its size).
Answer(ret, object, at) == [ret |-> ret, object |-> object, at |-> at]
Returns(ret) == Answer(ret, NoFile, 0)

SizeOf(object) == IF object = NoFile THEN 0 ELSE FileSize[object]

Init ==
  /\ open = [d \in Fd |-> IF d \in Stdio THEN [object |-> NoFile, pos |-> 0]
                                         ELSE Closed]
  /\ reply = Returns(0)

\* A descriptor no one holds starts naming an object at a position.
Acquire(d, object, pos) ==
  /\ d \notin Stdio
  /\ open[d] = Closed
  /\ open' = [open EXCEPT ![d] = [object |-> object, pos |-> pos]]
  /\ reply' = Returns(d)

OpenFile == \E d \in Fd, f \in File : Acquire(d, f, 0)

\* A duplicate starts at the original's position and then moves on its own.
Duplicate ==
  \E d, e \in Fd :
    /\ open[e] # Closed
    /\ Acquire(d, open[e].object, open[e].pos)

DuplicateOnto ==
  \E d, e \in Fd :
    /\ open[e] # Closed
    /\ open' = [open EXCEPT ![d] = open[e]]
    /\ reply' = Returns(d)

\* Both ends of a pipe are empty files nobody else holds.
MakePipe ==
  \E r, w \in Fd \ Stdio :
    LET end == [object |-> NoFile, pos |-> 0]
    IN  /\ r # w /\ open[r] = Closed /\ open[w] = Closed
        /\ open' = [open EXCEPT ![r] = end, ![w] = end]
        /\ reply' = Returns(0)

\* The next bytes of the file, all of them within it.
ReadFile ==
  \E d \in Fd \ Stdio :
    LET n == reply'.ret
    IN  /\ open[d] # Closed
        /\ reply' = Answer(n, open[d].object, open[d].pos)
        /\ n \in Nat /\ open[d].pos + n <= SizeOf(open[d].object)
        /\ open' = [open EXCEPT ![d].pos = @ + n]

\* Attributes are those of the object the descriptor names.
Attributes ==
  /\ \E d \in Fd \ Stdio :
       /\ open[d] # Closed
       /\ reply' = Answer(0, open[d].object, SizeOf(open[d].object))
  /\ open' = open

Close ==
  \E d \in Fd :
    /\ open[d] # Closed
    /\ open' = [open EXCEPT ![d] = Closed]
    /\ reply' = Returns(0)

\* Terminal input and output, calls on paths, stubs and errors touch no cursor.
Other ==
  /\ reply' = Returns(reply'.ret)
  /\ open' = open

PathAttributes ==
  /\ \E f \in File : reply' = Answer(0, f, FileSize[f])
  /\ open' = open

Next ==
  \/ OpenFile \/ Duplicate \/ DuplicateOnto \/ MakePipe \/ ReadFile
  \/ Attributes \/ Close \/ Other \/ PathAttributes

Spec == Init /\ [][Next]_vars
=============================================================================
