------------------------------ MODULE EditLine ------------------------------
(***************************************************************************)
(* What a line editor with a history promises, key by key: text on both    *)
(* sides of a cursor, the lines entered so far, and the line under         *)
(* composition kept aside while older lines are looked at.                 *)
(***************************************************************************)
EXTENDS Naturals, Sequences, SequencesExt

CONSTANT Character

VARIABLES lines,         \* the lines entered, oldest first
          left, right,   \* the text before and after the cursor
          at,            \* the line shown: lines[at], or the draft after them
          draft,         \* the line under composition when it was left
          open           \* there is a line to edit

vars == <<lines, left, right, at, draft, open>>

AtDraft == at = Len(lines) + 1

Init ==
  /\ lines = <<>> /\ left = <<>> /\ right = <<>> /\ draft = <<>>
  /\ at = 1 /\ open = TRUE

Insert ==
  /\ \E c \in Character : left' = Append(left, c)
  /\ UNCHANGED <<lines, right, at, draft, open>>

Erase ==
  /\ left # <<>>
  /\ left' = Front(left)
  /\ UNCHANGED <<lines, right, at, draft, open>>

Leftwards ==
  /\ left # <<>>
  /\ left' = Front(left) /\ right' = <<Last(left)>> \o right
  /\ UNCHANGED <<lines, at, draft, open>>

Rightwards ==
  /\ right # <<>>
  /\ left' = Append(left, Head(right)) /\ right' = Tail(right)
  /\ UNCHANGED <<lines, at, draft, open>>

\* Changes made to an older line are gone once another one is shown.
Show(n, text) == at' = n /\ left' = text /\ right' = <<>>

Older ==
  /\ at > 1
  /\ Show(at - 1, lines[at - 1])
  /\ draft' = IF AtDraft THEN left \o right ELSE draft
  /\ UNCHANGED <<lines, open>>

Newer ==
  /\ ~AtDraft
  /\ Show(at + 1, IF at = Len(lines) THEN draft ELSE lines[at + 1])
  /\ UNCHANGED <<lines, draft, open>>

\* A line is entered, for the history or not, or given up: a fresh one follows.
Done ==
  /\ lines' \in {lines, Append(lines, left \o right)}
  /\ lines' # lines => left \o right # <<>>
  /\ Show(Len(lines') + 1, <<>>)
  /\ draft' = <<>>
  /\ open' \in BOOLEAN

Next ==
  open /\ (Insert \/ Erase \/ Leftwards \/ Rightwards \/ Older \/ Newer \/ Done)

Spec == Init /\ [][Next]_vars
=============================================================================
