----------------------------- MODULE Ruby_proofs -----------------------------
(***************************************************************************)
(* Proofs about VfsRequire for any files, contents and commands, about     *)
(* KeyDecoder for any keys of its table, and about MCRuby, which runs one  *)
(* or the other.                                                           *)
(***************************************************************************)
EXTENDS MCRuby, SequenceTheorems, FiniteSetTheorems, WellFoundedInduction,
        TLAPS

-----------------------------------------------------------------------------
(* The stack as a sequence.  Of its frames only the number matters. *)

IsSeq(s) == \E S : s \in Seq(S)

LEMMA PushFrame ==
  ASSUME NEW s, NEW frame, IsSeq(s)
  PROVE  /\ IsSeq(Append(s, frame)) /\ Len(Append(s, frame)) = Len(s) + 1
         /\ Last(Append(s, frame)) = frame /\ Len(s) \in Nat
<1>1. PICK S : s \in Seq(S)
  BY DEF IsSeq
<1> DEFINE T == S \union {frame}
<1>2. s \in Seq(T) /\ frame \in T
  BY <1>1
<1> HIDE DEF T
<1>3. /\ Append(s, frame) \in Seq(T) /\ Len(Append(s, frame)) = Len(s) + 1
      /\ Append(s, frame)[Len(s) + 1] = frame /\ Len(s) \in Nat
  BY <1>2
<1> QED
  BY <1>3 DEF IsSeq, Last

LEMMA Shorter ==
  ASSUME NEW s, IsSeq(s), NEW n \in Nat, n <= Len(s)
  PROVE  IsSeq(SubSeq(s, 1, n)) /\ Len(SubSeq(s, 1, n)) = n
<1>1. PICK S : s \in Seq(S)
  BY DEF IsSeq
<1>2. SubSeq(s, 1, n) \in Seq(S) /\ Len(SubSeq(s, 1, n)) = n
  BY <1>1
<1> QED
  BY <1>2 DEF IsSeq

LEMMA AdvancedLength ==
  ASSUME NEW s, IsSeq(s)
  PROVE  IsSeq(Advanced(s)) /\ Len(Advanced(s)) = Len(s)
<1>1. PICK S : s \in Seq(S)
  BY DEF IsSeq
<1>2. CASE s = <<>>
  BY <1>2 DEF Advanced
<1>3. CASE s # <<>>
  <2> DEFINE top == [s[Len(s)] EXCEPT !.next = @ + 1]
             T == S \union {top}
  <2>1. s \in Seq(T) /\ top \in T /\ Len(s) \in 1 .. Len(s)
    BY <1>1, <1>3
  <2>2. Advanced(s) = [s EXCEPT ![Len(s)] = top]
    BY <1>3 DEF Advanced
  <2> HIDE DEF T, top
  <2>3. /\ [s EXCEPT ![Len(s)] = top] \in Seq(T)
        /\ Len([s EXCEPT ![Len(s)] = top]) = Len(s)
    BY <2>1
  <2> QED
    BY <2>2, <2>3 DEF IsSeq
<1> QED
  BY <1>2, <1>3

-----------------------------------------------------------------------------
\* What is evaluated was marked before, and every evaluation within another
\* has added a mark.
RequireInv ==
  /\ IsSeq(stack) /\ IsFiniteSet(loaded)
  /\ evaluated \subseteq loaded
  /\ DepthBounded

LEMMA InitRequireInv == Init => RequireInv
<1> SUFFICES ASSUME Init PROVE RequireInv
  OBVIOUS
<1>1. stack \in Seq({}) /\ Len(stack) = 0
  BY DEF Init
<1>2. IsFiniteSet(loaded) /\ Cardinality(loaded) = 0
  BY FS_EmptySet DEF Init
<1> QED
  BY <1>1, <1>2 DEF Init, RequireInv, IsSeq, DepthBounded

\* Steps that evaluate nothing: the stack does not grow.
Quiet ==
  /\ IsSeq(stack') /\ Len(stack') <= Len(stack)
  /\ UNCHANGED <<loaded, evaluated>>

LEMMA LengthIsNat == ASSUME NEW s, IsSeq(s) PROVE Len(s) \in Nat
  BY DEF IsSeq

LEMMA QuietStep ==
  ASSUME RequireInv, Quiet PROVE RequireInv' /\ ~(Len(stack') > Len(stack))
<1>1. Len(stack) \in Nat /\ Len(stack') \in Nat
  BY LengthIsNat DEF RequireInv, Quiet
<1>2. Cardinality(loaded) \in Nat
  BY FS_CardinalityType DEF RequireInv
<1> QED
  BY <1>1, <1>2 DEF RequireInv, Quiet, DepthBounded

LEMMA GoOnIsQuiet == ASSUME RequireInv, GoOn PROVE Quiet
<1>1. IsSeq(stack') /\ Len(stack') = Len(stack)
  BY AdvancedLength DEF RequireInv, GoOn
<1>2. Len(stack) \in Nat
  BY LengthIsNat DEF RequireInv
<1> QED
  BY <1>1, <1>2 DEF Quiet, GoOn

LEMMA UnwindingIsQuiet ==
  ASSUME RequireInv, Unwinds, UNCHANGED <<loaded, evaluated>> PROVE Quiet
<1>1. IsSeq(stack) /\ Len(stack) \in Nat
  BY LengthIsNat DEF RequireInv
<1>2. CASE stack' = <<>>
  <2>1. stack' \in Seq({}) /\ Len(stack') = 0
    BY <1>2
  <2> QED
    BY <1>1, <2>1 DEF Quiet, IsSeq
<1>3. ASSUME NEW k \in 1 .. Len(stack), stack' = Advanced(SubSeq(stack, 1, k))
      PROVE  Quiet
  <2>1. k \in Nat /\ k <= Len(stack)
    BY <1>1
  <2>2. IsSeq(SubSeq(stack, 1, k)) /\ Len(SubSeq(stack, 1, k)) = k
    BY <1>1, <2>1, Shorter
  <2>3. IsSeq(stack') /\ Len(stack') = k
    BY <1>3, <2>2, AdvancedLength
  <2> QED
    BY <2>1, <2>3 DEF Quiet
<1> QED
  BY <1>2, <1>3 DEF Unwinds

\* A path that is not marked yet is evaluated.
LEMMA EvaluateStep ==
  ASSUME RequireInv, NEW path, Fresh(path), Evaluate(path)
  PROVE  RequireInv' /\ Last(stack').path \notin evaluated
<1> DEFINE frame == Frame(path, Code[FileRead(path)])
<1>1. /\ IsSeq(stack') /\ Len(stack') = Len(stack) + 1 /\ Len(stack) \in Nat
      /\ Last(stack') = frame
  BY PushFrame DEF RequireInv, Evaluate
<1>2. /\ IsFiniteSet(loaded') /\ Cardinality(loaded') = Cardinality(loaded) + 1
      /\ Cardinality(loaded) \in Nat
  BY FS_AddElement, FS_CardinalityType
  DEF RequireInv, Evaluate, Marked, Fresh
<1>3. Last(stack').path = path
  BY <1>1 DEF Frame
<1>4. path \notin evaluated /\ evaluated' \subseteq loaded'
  BY DEF RequireInv, Evaluate, Marked, Fresh
<1>5. DepthBounded'
  BY <1>1, <1>2 DEF RequireInv, DepthBounded
<1> QED
  BY <1>1, <1>2, <1>3, <1>4, <1>5 DEF RequireInv

OnlyOnce ==
  Len(stack') > Len(stack) /\ Busy => Last(stack').path \notin evaluated

LEMMA NextRequireInv ==
  ASSUME RequireInv, [Next]_vars PROVE RequireInv' /\ OnlyOnce
<1> USE DEF OnlyOnce
<1>1. CASE UNCHANGED vars
  <2>1. Quiet
    <3>1. Len(stack) \in Nat
      BY LengthIsNat DEF RequireInv
    <3> QED
      BY <1>1, <3>1 DEF Quiet, vars, RequireInv
  <2> QED
    BY <2>1, QuietStep
<1>2. CASE Raise
  BY <1>2, UnwindingIsQuiet, QuietStep DEF Raise
<1>3. CASE Require
  <2>1. CASE GoOn
    BY <2>1, GoOnIsQuiet, QuietStep
  <2>2. ASSUME NEW path, Usable(path), Evaluate(path)
        PROVE  RequireInv' /\ OnlyOnce
    BY <2>2, EvaluateStep DEF Usable
  <2> QED
    BY <1>3, <2>1, <2>2 DEF Require
<1>4. CASE RequireRelative
  <2>1. CASE GoOn
    BY <2>1, GoOnIsQuiet, QuietStep
  <2>2. ASSUME NEW path, Usable(path), Evaluate(path)
        PROVE  RequireInv' /\ OnlyOnce
    BY <2>2, EvaluateStep DEF Usable
  <2>3. CASE Unwinds /\ UNCHANGED <<loaded, evaluated>>
    BY <2>3, UnwindingIsQuiet, QuietStep
  <2> QED
    BY <1>4, <2>1, <2>2, <2>3 DEF RequireRelative
<1>5. CASE Write
  BY <1>5, GoOnIsQuiet, QuietStep DEF Write
<1>6. CASE Delete
  BY <1>6, GoOnIsQuiet, QuietStep DEF Delete
<1>7. CASE Return
  <2>1. IsSeq(stack) /\ Len(stack) \in Nat /\ stack # <<>>
    BY <1>7, LengthIsNat DEF Return, Busy, RequireInv
  <2>2. Len(stack) - 1 \in Nat /\ Len(stack) - 1 <= Len(stack)
    <3>1. PICK S : stack \in Seq(S)
      BY <2>1 DEF IsSeq
    <3>2. Len(stack) # 0
      BY <2>1, <3>1
    <3> QED
      BY <2>1, <3>2
  <2>3. IsSeq(Front(stack)) /\ Len(Front(stack)) = Len(stack) - 1
    BY <2>1, <2>2, Shorter DEF Front
  <2>4. IsSeq(stack') /\ Len(stack') = Len(stack) - 1
    BY <1>7, <2>3, AdvancedLength DEF Return
  <2>5. Quiet
    BY <1>7, <2>1, <2>4 DEF Quiet, Return
  <2> QED
    BY <2>5, QuietStep
<1>8. ASSUME ~Busy, NEW frame, stack' = <<frame>>,
             UNCHANGED <<loaded, evaluated>>
      PROVE  RequireInv' /\ OnlyOnce
  <2>1. stack' \in Seq({frame}) /\ Len(stack') = 1
    BY <1>8
  <2>2. Cardinality(loaded) \in Nat
    BY FS_CardinalityType DEF RequireInv
  <2>3. IsSeq(stack')
    BY <2>1 DEF IsSeq
  <2>4. DepthBounded'
    BY <1>8, <2>1, <2>2 DEF DepthBounded
  <2> QED
    BY <1>8, <2>3, <2>4 DEF RequireInv
<1>9. CASE TypeExpression
  BY <1>8, <1>9 DEF TypeExpression
<1>10. CASE Run
  BY <1>8, <1>10 DEF Run
<1> QED
  BY <1>1, <1>2, <1>3, <1>4, <1>5, <1>6, <1>7, <1>9, <1>10 DEF Next, Step

-----------------------------------------------------------------------------
\* Files that require each other, in whatever cycles, nest no deeper than there
\* are marked files: the mark comes before the evaluation (init.rb:40, 77).
THEOREM CyclesEnd == Spec => []DepthBounded
<1>1. RequireInv /\ [Next]_vars => RequireInv'
  BY NextRequireInv
<1>2. RequireInv => DepthBounded
  BY DEF RequireInv
<1> QED
  BY <1>1, <1>2, InitRequireInv, PTL DEF Spec

\* No path is evaluated a second time by require and require_relative, whatever
\* files hold and whenever they are rewritten, deleted or raise.
THEOREM NothingIsEvaluatedTwice == Spec => EvaluatedOnce
<1>1. RequireInv /\ [Next]_vars => RequireInv'
  BY NextRequireInv
<1>2. RequireInv /\ [Next]_vars =>
        [Len(stack') > Len(stack) /\ Busy
           => Last(stack').path \notin evaluated]_vars
  BY NextRequireInv DEF OnlyOnce
<1> QED
  BY <1>1, <1>2, InitRequireInv, PTL DEF Spec, EvaluatedOnce

-----------------------------------------------------------------------------
(* The types of VfsRequire.  A frame below the top waits at the statement   *)
(* that required the one above it.                                          *)

IsFrame(f) ==
  /\ f = [Frame(f.path, f.body) EXCEPT !.next = f.next]
  /\ f.body \in Seq(Statements)
  /\ IsSeq(f.path.at)

Within(f) == f.next \in 1 .. Len(f.body)
AtEnd(f) == f.next = Len(f.body) + 1

FilesTyped(files) ==
  /\ DOMAIN files \subseteq DOMAIN VfsAtBoot \cup Written
  /\ \A p \in DOMAIN files : files[p] \in Text

FramesTyped(s) ==
  /\ IsSeq(s)
  /\ \A k \in 1 .. Len(s) : IsFrame(s[k])
  /\ \A k \in 1 .. Len(s) : Within(s[k]) \/ (k = Len(s) /\ AtEnd(s[k]))

InnerMarked(s, marks) == \A k \in 1 .. Len(s) : k > 1 => s[k].path \in marks

VfsInv == FilesTyped(vfs) /\ FramesTyped(stack) /\ InnerMarked(stack, loaded)

LEMMA VfsInvIsTypeOK == VfsInv => TypeOK
<1> SUFFICES ASSUME VfsInv PROVE TypeOK
  OBVIOUS
<1>1. ASSUME NEW k \in 1 .. Len(stack)
      PROVE  stack[k].next \in 1 .. Len(stack[k].body) + 1
  <2>1. Len(stack[k].body) \in Nat
    BY DEF VfsInv, FramesTyped, IsFrame
  <2> QED
    BY <2>1 DEF VfsInv, FramesTyped, Within, AtEnd
<1> QED
  BY <1>1 DEF TypeOK, VfsInv, FilesTyped, InnerMarked

LEMMA NewFrame ==
  ASSUME NEW path, IsSeq(path.at), NEW body \in Seq(Statements)
  PROVE  /\ IsFrame(Frame(path, body))
         /\ Within(Frame(path, body)) \/ AtEnd(Frame(path, body))
         /\ Frame(path, body).path = path
<1> DEFINE f == Frame(path, body)
<1>1. f.path = path /\ f.body = body /\ f.next = 1
  BY DEF Frame
<1>2. Len(body) \in Nat
  OBVIOUS
<1>3. f = [Frame(f.path, f.body) EXCEPT !.next = f.next]
  BY <1>1 DEF Frame
<1> HIDE DEF f
<1>4. Within(f) \/ AtEnd(f)
  BY <1>1, <1>2 DEF Within, AtEnd
<1> QED
  BY <1>1, <1>3, <1>4 DEF IsFrame, f

\* The frames of a shorter stack, or of one whose top has gone on.
LEMMA CutTyped ==
  ASSUME NEW s, FramesTyped(s), NEW n \in Nat, n <= Len(s)
  PROVE  /\ FramesTyped(SubSeq(s, 1, n)) /\ Len(SubSeq(s, 1, n)) = n
         /\ \A k \in 1 .. n : SubSeq(s, 1, n)[k] = s[k]
<1>1. PICK S : s \in Seq(S)
  BY DEF FramesTyped, IsSeq
<1>2. /\ SubSeq(s, 1, n) \in Seq(S) /\ Len(SubSeq(s, 1, n)) = n
      /\ \A k \in 1 .. n : SubSeq(s, 1, n)[k] = s[k]
  BY <1>1
<1>3. Len(s) \in Nat
  BY <1>1
<1> QED
  BY <1>2, <1>3 DEF FramesTyped, IsSeq

LEMMA AdvancedTyped ==
  ASSUME NEW s, FramesTyped(s), s # <<>> => Within(s[Len(s)])
  PROVE  /\ FramesTyped(Advanced(s)) /\ Len(Advanced(s)) = Len(s)
         /\ \A k \in 1 .. Len(s) : Advanced(s)[k].path = s[k].path
<1>1. IsSeq(Advanced(s)) /\ Len(Advanced(s)) = Len(s)
  BY AdvancedLength DEF FramesTyped
<1>2. CASE s = <<>>
  BY <1>2 DEF Advanced
<1>3. CASE s # <<>>
  <2> DEFINE n == Len(s)  top == s[n]  new == [top EXCEPT !.next = @ + 1]
  <2>1. PICK S : s \in Seq(S)
    BY DEF FramesTyped, IsSeq
  <2>2. n \in Nat /\ n # 0 /\ DOMAIN s = 1 .. n
    BY <2>1, <1>3
  <2>3. IsFrame(top) /\ Within(top)
    <3>1. n \in 1 .. n
      BY <2>2
    <3> QED
      BY <1>3, <3>1 DEF FramesTyped
  <2>4. /\ new.path = top.path /\ new.body = top.body
        /\ new.next = top.next + 1
        /\ new = [Frame(new.path, new.body) EXCEPT !.next = new.next]
    BY <2>3 DEF IsFrame, Frame
  <2>5. IsFrame(new) /\ (Within(new) \/ AtEnd(new))
    BY <2>3, <2>4 DEF IsFrame, Within, AtEnd
  <2>6. /\ Advanced(s)[n] = new
        /\ \A k \in 1 .. n : k # n => Advanced(s)[k] = s[k]
    BY <1>3, <2>2 DEF Advanced
  <2> HIDE DEF n, top, new
  <2>7. ASSUME NEW k \in 1 .. n
        PROVE  /\ IsFrame(Advanced(s)[k])
               /\ Within(Advanced(s)[k]) \/ (k = n /\ AtEnd(Advanced(s)[k]))
               /\ Advanced(s)[k].path = s[k].path
    <3>1. CASE k = n
      BY <3>1, <2>4, <2>5, <2>6 DEF top, n
    <3>2. CASE k # n
      BY <3>2, <2>6 DEF FramesTyped, n
    <3> QED
      BY <3>1, <3>2
  <2> QED
    BY <1>1, <2>7 DEF FramesTyped, n
<1> QED
  BY <1>2, <1>3

\* A step of the innermost evaluation is one of its statements.
LEMMA TopIsWithin ==
  ASSUME VfsInv, NEW op, Executes(op)
  PROVE  /\ stack # <<>> /\ Len(stack) \in Nat \ {0} /\ Top = stack[Len(stack)]
         /\ Within(Top) /\ Current \in Statements /\ Current.op = op
<1>1. PICK S : stack \in Seq(S)
  BY DEF VfsInv, FramesTyped, IsSeq
<1>2. stack # <<>> /\ Len(stack) \in Nat \ {0} /\ Top = stack[Len(stack)]
  BY <1>1 DEF Executes, Busy, Top, Last
<1>3. Len(stack) \in 1 .. Len(stack)
  BY <1>2
<1>4. IsFrame(Top) /\ (Within(Top) \/ AtEnd(Top))
  BY <1>2, <1>3 DEF VfsInv, FramesTyped
<1>5. Len(Top.body) \in Nat /\ Top.body \in Seq(Statements)
  BY <1>4 DEF IsFrame
<1>6. Within(Top)
  BY <1>4, <1>5 DEF Executes, Finished, AtEnd
<1>7. Current \in Statements
  BY <1>5, <1>6 DEF Current, Within
<1> QED
  BY <1>2, <1>6, <1>7 DEF Executes

LEMMA GoOnTyped ==
  ASSUME VfsInv, Within(stack[Len(stack)]), GoOn
  PROVE  FramesTyped(stack') /\ InnerMarked(stack', loaded')
<1>1. /\ FramesTyped(stack') /\ Len(stack') = Len(stack)
      /\ \A k \in 1 .. Len(stack) : stack'[k].path = stack[k].path
  BY AdvancedTyped DEF VfsInv, GoOn
<1> QED
  BY <1>1 DEF VfsInv, InnerMarked, GoOn

LEMMA UnwindingTyped ==
  ASSUME VfsInv, Within(stack[Len(stack)]), Unwinds, UNCHANGED loaded
  PROVE  FramesTyped(stack') /\ InnerMarked(stack', loaded')
<1>1. CASE stack' = <<>>
  <2>1. stack' \in Seq({}) /\ Len(stack') = 0
    BY <1>1
  <2> QED
    BY <2>1 DEF FramesTyped, InnerMarked, IsSeq
<1>2. ASSUME NEW k \in 1 .. Len(stack), stack' = Advanced(SubSeq(stack, 1, k))
      PROVE  FramesTyped(stack') /\ InnerMarked(stack', loaded')
  <2> DEFINE s == SubSeq(stack, 1, k)
  <2>1. k \in Nat /\ 0 < k /\ k <= Len(stack) /\ Len(stack) \in Nat
    BY LengthIsNat DEF VfsInv, FramesTyped
  <2>2. /\ FramesTyped(s) /\ Len(s) = k
        /\ \A j \in 1 .. k : s[j] = stack[j]
    BY <2>1, CutTyped DEF VfsInv
  <2>3. Within(stack[k])
    <3>1. CASE k = Len(stack)
      BY <3>1
    <3>2. CASE k # Len(stack)
      BY <3>2 DEF VfsInv, FramesTyped
    <3> QED
      BY <3>1, <3>2
  <2>4. k \in 1 .. k
    BY <2>1
  <2>5. Within(s[Len(s)])
    BY <2>2, <2>3, <2>4
  <2> HIDE DEF s
  <2>6. /\ FramesTyped(stack') /\ Len(stack') = k
        /\ \A j \in 1 .. k : stack'[j].path = s[j].path
    BY <1>2, <2>2, <2>5, AdvancedTyped DEF s
  <2>7. ASSUME NEW j \in 1 .. k, j > 1 PROVE stack'[j].path \in loaded'
    <3>1. j \in 1 .. Len(stack)
      BY <2>1
    <3> QED
      BY <2>2, <2>6, <2>7, <3>1 DEF VfsInv, InnerMarked
  <2> QED
    BY <2>6, <2>7 DEF InnerMarked
<1> QED
  BY <1>1, <1>2 DEF Unwinds

LEMMA EvaluateTyped ==
  ASSUME ProgramsAssumption, VfsInv, Within(stack[Len(stack)]),
         NEW path, Exists(path), Evaluate(path)
  PROVE  FramesTyped(stack') /\ InnerMarked(stack', loaded')
<1> DEFINE n == Len(stack)
           f == Frame(path, Code[FileRead(path)])
<1>1. FileRead(path) \in Text /\ IsSeq(path.at)
  BY DEF ProgramsAssumption, VfsInv, FilesTyped, FileRead, Exists, Range, IsSeq,
         IsSequence
<1>2. /\ IsFrame(f) /\ (Within(f) \/ AtEnd(f)) /\ f.path = path
  BY <1>1, NewFrame DEF ProgramsAssumption
<1> HIDE DEF f
<1>3. PICK S : stack \in Seq(S)
  BY DEF VfsInv, FramesTyped, IsSeq
<1>4. /\ n \in Nat /\ stack' = Append(stack, f) /\ IsSeq(stack')
      /\ Len(stack') = n + 1 /\ Last(stack') = f
  BY <1>3, PushFrame DEF Evaluate, f, IsSeq
<1>5. stack'[n + 1] = f /\ \A k \in 1 .. n : stack'[k] = stack[k]
  BY <1>3, <1>4 DEF Last
<1>6. path \in loaded' /\ loaded \subseteq loaded'
  BY DEF Evaluate, Marked
<1> HIDE DEF n
<1>7. ASSUME NEW k \in 1 .. n + 1
      PROVE  /\ IsFrame(stack'[k])
             /\ Within(stack'[k]) \/ (k = n + 1 /\ AtEnd(stack'[k]))
             /\ k > 1 => stack'[k].path \in loaded'
  <2>1. CASE k = n + 1
    BY <1>2, <1>5, <1>6, <2>1
  <2>2. CASE k # n + 1
    <3>1. k \in 1 .. n
      BY <1>4, <2>2
    <3>2. stack'[k] = stack[k] /\ IsFrame(stack[k]) /\ Within(stack[k])
      BY <1>5, <3>1 DEF VfsInv, FramesTyped, n
    <3> QED
      BY <1>6, <3>1, <3>2 DEF VfsInv, InnerMarked, n
  <2> QED
    BY <2>1, <2>2
<1> QED
  BY <1>4, <1>7 DEF FramesTyped, InnerMarked

LEMMA FirstFrame ==
  ASSUME NEW path, IsSeq(path.at), NEW body \in Seq(Statements),
         stack' = <<Frame(path, body)>>
  PROVE  FramesTyped(stack') /\ InnerMarked(stack', loaded')
<1> DEFINE f == Frame(path, body)
<1>1. IsFrame(f) /\ (Within(f) \/ AtEnd(f))
  BY NewFrame
<1> HIDE DEF f
<1>2. stack' = <<f>> /\ stack' \in Seq({f}) /\ Len(stack') = 1 /\ stack'[1] = f
  BY DEF f
<1>3. \A k \in 1 .. Len(stack') : k = 1
  BY <1>2
<1>4. IsSeq(stack')
  BY <1>2 DEF IsSeq
<1>5. FramesTyped(stack')
  BY <1>1, <1>2, <1>3, <1>4 DEF FramesTyped
<1> QED
  BY <1>3, <1>5 DEF InnerMarked

LEMMA NextVfsInv ==
  ASSUME ProgramsAssumption, VfsInv, [Next]_vars PROVE VfsInv'
<1> SUFFICES /\ FilesTyped(vfs') /\ FramesTyped(stack')
             /\ InnerMarked(stack', loaded')
  BY DEF VfsInv, FilesTyped, FramesTyped, InnerMarked
<1>1. CASE UNCHANGED vars
  BY <1>1 DEF vars, VfsInv
<1>2. CASE Raise
  BY <1>2, TopIsWithin, UnwindingTyped DEF Raise, VfsInv
<1>3. CASE Require
  <2>1. FilesTyped(vfs') /\ Within(stack[Len(stack)])
    BY <1>3, TopIsWithin DEF Require, VfsInv
  <2>2. CASE GoOn
    BY <2>1, <2>2, GoOnTyped
  <2>3. ASSUME NEW path, Usable(path), Evaluate(path)
        PROVE  FramesTyped(stack') /\ InnerMarked(stack', loaded')
    BY <2>1, <2>3, EvaluateTyped DEF Usable
  <2> QED
    BY <1>3, <2>1, <2>2, <2>3 DEF Require
<1>4. CASE RequireRelative
  <2>1. FilesTyped(vfs') /\ Within(stack[Len(stack)])
    BY <1>4, TopIsWithin DEF RequireRelative, VfsInv
  <2>2. CASE GoOn
    BY <2>1, <2>2, GoOnTyped
  <2>3. ASSUME NEW path, Usable(path), Evaluate(path)
        PROVE  FramesTyped(stack') /\ InnerMarked(stack', loaded')
    BY <2>1, <2>3, EvaluateTyped DEF Usable
  <2>4. CASE Unwinds /\ UNCHANGED <<loaded, evaluated>>
    BY <2>1, <2>4, UnwindingTyped
  <2> QED
    BY <1>4, <2>1, <2>2, <2>3, <2>4 DEF RequireRelative
<1>5. CASE Write
  <2>1. /\ Within(stack[Len(stack)])
        /\ Current.path \in Written /\ Current.text \in Text
    BY <1>5, TopIsWithin DEF Write, ProgramsAssumption
  <2>2. /\ DOMAIN vfs' = {Current.path} \cup DOMAIN vfs
        /\ \A p \in DOMAIN vfs' : vfs'[p] = Current.text
                           \/ (p \in DOMAIN vfs /\ vfs'[p] = vfs[p])
    BY <1>5 DEF Write
  <2>3. FilesTyped(vfs')
    BY <2>1, <2>2 DEF VfsInv, FilesTyped
  <2> QED
    BY <1>5, <2>1, <2>3, GoOnTyped DEF Write
<1>6. CASE Delete
  <2>1. Within(stack[Len(stack)])
    BY <1>6, TopIsWithin DEF Delete
  <2>2. FilesTyped(vfs')
    BY <1>6 DEF Delete, VfsInv, FilesTyped
  <2> QED
    BY <1>6, <2>1, <2>2, GoOnTyped DEF Delete
<1>7. CASE Return
  <2> DEFINE n == Len(stack)  s == Front(stack)
  <2>1. n \in Nat \ {0} /\ n - 1 \in Nat /\ n - 1 <= n
    <3>1. PICK S : stack \in Seq(S)
      BY DEF VfsInv, FramesTyped, IsSeq
    <3> QED
      BY <1>7, <3>1 DEF Return, Busy
  <2>2. /\ FramesTyped(s) /\ Len(s) = n - 1
        /\ \A k \in 1 .. n - 1 : s[k] = stack[k]
    BY <2>1, CutTyped DEF VfsInv, Front
  <2>3. s # <<>> => Within(s[Len(s)])
    <3> HAVE s # <<>>
    <3>1. Len(s) # 0
      <4>1. PICK S : s \in Seq(S)
        BY <2>2 DEF FramesTyped, IsSeq
      <4> QED
        BY <4>1
    <3>2. /\ n - 1 \in 1 .. n - 1 /\ n - 1 \in 1 .. Len(stack)
          /\ n - 1 # Len(stack)
      BY <2>1, <2>2, <3>1
    <3> QED
      BY <2>2, <3>2 DEF VfsInv, FramesTyped
  <2> HIDE DEF s
  <2>4. /\ FramesTyped(stack') /\ Len(stack') = n - 1
        /\ \A k \in 1 .. n - 1 : stack'[k].path = s[k].path
    BY <1>7, <2>2, <2>3, AdvancedTyped DEF Return, s
  <2>5. ASSUME NEW k \in 1 .. n - 1, k > 1 PROVE stack'[k].path \in loaded'
    <3>1. k \in 1 .. Len(stack)
      BY <2>1
    <3>2. stack[k].path \in loaded
      BY <2>5, <3>1 DEF VfsInv, InnerMarked
    <3> QED
      BY <1>7, <2>2, <2>4, <3>2 DEF Return
  <2>6. InnerMarked(stack', loaded')
    BY <2>4, <2>5 DEF InnerMarked
  <2> QED
    BY <1>7, <2>4, <2>6 DEF Return, VfsInv
<1>8. CASE TypeExpression
  <2>1. PICK statement \in Typed : stack' = <<Frame(Prompt, <<statement>>)>>
    BY <1>8 DEF TypeExpression
  <2>2. <<statement>> \in Seq(Statements)
    BY DEF Statements
  <2>3. Prompt.at \in Seq({"(eval)"})
    BY DEF Prompt, Path
  <2>4. IsSeq(Prompt.at)
    BY <2>3 DEF IsSeq
  <2> QED
    BY <1>8, <2>1, <2>2, <2>4, FirstFrame DEF TypeExpression, VfsInv
<1>9. CASE Run
  <2>1. PICK path \in DOMAIN vfs : stack' = <<Frame(path, Code[vfs[path]])>>
    BY <1>9 DEF Run
  <2>2. Code[vfs[path]] \in Seq(Statements) /\ IsSeq(path.at)
    BY DEF ProgramsAssumption, VfsInv, FilesTyped, IsSeq, IsSequence
  <2> QED
    BY <1>9, <2>1, <2>2, FirstFrame DEF Run, VfsInv
<1> QED
  BY <1>1, <1>2, <1>3, <1>4, <1>5, <1>6, <1>7, <1>8, <1>9 DEF Next, Step

LEMMA InitVfsInv == ASSUME ProgramsAssumption, Init PROVE VfsInv
<1>1. stack \in Seq({}) /\ Len(stack) = 0
  BY DEF Init
<1>2. FilesTyped(vfs)
  BY DEF Init, ProgramsAssumption, FilesTyped, Range
<1> QED
  BY <1>1, <1>2 DEF VfsInv, FramesTyped, InnerMarked, IsSeq

-----------------------------------------------------------------------------
(* KeyDecoder.  Its sequences of bytes are written out as terms that the     *)
(* provers take apart by the lemmas Reading and Appending only.              *)

B1(a) == <<a>>
B2(a, b) == <<a, b>>
B3(a, b, c) == <<a, b, c>>
B4(a, b, c, d) == <<a, b, c, d>>
B5(a, b, c, d, e) == <<a, b, c, d, e>>
B6(a, b, c, d, e, f) == <<a, b, c, d, e, f>>

First(s) == Head(s)
Others(s) == Tail(s)
Put(s, e) == Append(s, e)

LEMMA Reading1 ==
  ASSUME NEW a
  PROVE  First(B1(a)) = a /\ Others(B1(a)) = <<>>
  BY DEF First, Others, B1

LEMMA Reading2 ==
  ASSUME NEW a, NEW b
  PROVE  First(B2(a, b)) = a /\ Others(B2(a, b)) = B1(b)
  BY DEF First, Others, B2, B1

LEMMA Reading3 ==
  ASSUME NEW a, NEW b, NEW c
  PROVE  First(B3(a, b, c)) = a /\ Others(B3(a, b, c)) = B2(b, c)
  BY DEF First, Others, B3, B2

LEMMA Reading4 ==
  ASSUME NEW a, NEW b, NEW c, NEW d
  PROVE  First(B4(a, b, c, d)) = a /\ Others(B4(a, b, c, d)) = B3(b, c, d)
  BY DEF First, Others, B4, B3

LEMMA Reading5 ==
  ASSUME NEW a, NEW b, NEW c, NEW d, NEW e
  PROVE  /\ First(B5(a, b, c, d, e)) = a
         /\ Others(B5(a, b, c, d, e)) = B4(b, c, d, e)
  BY DEF First, Others, B5, B4

LEMMA Reading6 ==
  ASSUME NEW a, NEW b, NEW c, NEW d, NEW e, NEW f
  PROVE  /\ First(B6(a, b, c, d, e, f)) = a
         /\ Others(B6(a, b, c, d, e, f)) = B5(b, c, d, e, f)
  BY DEF First, Others, B6, B5

LEMMA Spelled ==
  ASSUME NEW S, NEW s \in Seq(S)
  PROVE  /\ Len(s) = 1 => s = <<s[1]>>
         /\ Len(s) = 2 => s = <<s[1], s[2]>>
         /\ Len(s) = 3 => s = <<s[1], s[2], s[3]>>
         /\ Len(s) = 4 => s = <<s[1], s[2], s[3], s[4]>>
<1>1. ASSUME Len(s) = 1 PROVE s = <<s[1]>>
  BY <1>1
<1>2. ASSUME Len(s) = 2 PROVE s = <<s[1], s[2]>>
  BY <1>2
<1>3. ASSUME Len(s) = 3 PROVE s = <<s[1], s[2], s[3]>>
  BY <1>3
<1>4. ASSUME Len(s) = 4 PROVE s = <<s[1], s[2], s[3], s[4]>>
  BY <1>4
<1> QED
  BY <1>1, <1>2, <1>3, <1>4

LEMMA Cut ==
  ASSUME NEW S, NEW s \in Seq(S), Len(s) = 4
  PROVE  SubSeq(s, 1, 2) = <<s[1], s[2]>> /\ SubSeq(s, 3, 4) = <<s[3], s[4]>>
<1>1. SubSeq(s, 1, 2) = <<s[1], s[2]>>
  <2>1. SubSeq(s, 1, 2) \in Seq(S)
    OBVIOUS
  <2>2. Len(SubSeq(s, 1, 2)) = 2
    OBVIOUS
  <2>3. SubSeq(s, 1, 2)[1] = s[1] /\ SubSeq(s, 1, 2)[2] = s[2]
    OBVIOUS
  <2> QED
    BY <2>1, <2>2, <2>3, Spelled
<1>2. SubSeq(s, 3, 4) = <<s[3], s[4]>>
  <2>1. SubSeq(s, 3, 4) \in Seq(S)
    OBVIOUS
  <2>2. Len(SubSeq(s, 3, 4)) = 2
    OBVIOUS
  <2>3. SubSeq(s, 3, 4)[1] = s[3] /\ SubSeq(s, 3, 4)[2] = s[4]
    OBVIOUS
  <2> QED
    BY <2>1, <2>2, <2>3, Spelled
<1> QED
  BY <1>1, <1>2

LEMMA Putting1 == ASSUME NEW a PROVE Put(<<>>, a) = B1(a)
  BY DEF Put, B1

LEMMA Putting2 ==
  ASSUME NEW a, NEW b
  PROVE  Put(B1(a), b) = B2(a, b)
<1> DEFINE t == Append(<<a>>, b)
<1>1. t \in Seq({a, b})
  OBVIOUS
<1>2. Len(t) = 2
  OBVIOUS
<1>3. t[1] = a /\ t[2] = b
  OBVIOUS
<1> QED
  BY <1>1, <1>2, <1>3, Spelled DEF Put, B1, B2

LEMMA Putting3 ==
  ASSUME NEW a, NEW b, NEW c
  PROVE  Put(B2(a, b), c) = B3(a, b, c)
<1> DEFINE t == Append(<<a, b>>, c)
<1>1. t \in Seq({a, b, c})
  OBVIOUS
<1>2. Len(t) = 3
  OBVIOUS
<1>3. t[1] = a /\ t[2] = b /\ t[3] = c
  OBVIOUS
<1> QED
  BY <1>1, <1>2, <1>3, Spelled DEF Put, B2, B3

LEMMA Putting4 ==
  ASSUME NEW a, NEW b, NEW c, NEW d
  PROVE  Put(B3(a, b, c), d) = B4(a, b, c, d)
<1> DEFINE t == Append(<<a, b, c>>, d)
<1>1. t \in Seq({a, b, c, d})
  OBVIOUS
<1>2. Len(t) = 4
  OBVIOUS
<1>3. t[1] = a /\ t[2] = b /\ t[3] = c /\ t[4] = d
  OBVIOUS
<1> QED
  BY <1>1, <1>2, <1>3, Spelled DEF Put, B3, B4

LEMMA Four ==
  ASSUME NEW a, NEW b, NEW c, NEW d
  PROVE  /\ <<a, b, c, d>> \in Seq({a, b, c, d}) /\ Len(<<a, b, c, d>>) = 4
         /\ <<a, b, c, d>>[1] = a /\ <<a, b, c, d>>[2] = b
         /\ <<a, b, c, d>>[3] = c /\ <<a, b, c, d>>[4] = d
  OBVIOUS

LEMMA CsiCodes ==
  /\ Keys!CsiCode(B1("A")) = 259 /\ Keys!CsiCode(B1("Z")) = 353
  /\ Keys!CsiCode(B2("6", "~")) = 338
  /\ Keys!CsiCode(B3("1", "5", "~")) = Keys!ESC
  /\ Keys!CsiCode(B1("1")) = Keys!ESC
  /\ Keys!CsiCode(B4("1", "semi", "5", "C")) = 561
<1>1. Keys!CsiCode(B1("A")) = 259
  BY DEF Keys!CsiCode, Keys!CsiLetter, B1
<1>2. Keys!CsiCode(B1("Z")) = 353
  BY DEF Keys!CsiCode, Keys!CsiLetter, B1
<1>3. Keys!CsiCode(B2("6", "~")) = 338
  BY DEF Keys!CsiCode, Keys!CsiTilde, B2
<1>4. Keys!CsiCode(B3("1", "5", "~")) = Keys!ESC
  BY DEF Keys!CsiCode, B3
<1>5. Keys!CsiCode(B1("1")) = Keys!ESC
  BY DEF Keys!CsiCode, Keys!CsiLetter, B1
<1>6. Keys!CsiCode(B4("1", "semi", "5", "C")) = 561
  <2> DEFINE s == B4("1", "semi", "5", "C")
  <2>1. /\ s \in Seq({"1", "semi", "5", "C"}) /\ Len(s) = 4
        /\ s[1] = "1" /\ s[2] = "semi" /\ s[3] = "5" /\ s[4] = "C"
    BY Four DEF B4
  <2> HIDE DEF s
  <2>2. SubSeq(s, 1, 2) = <<"1", "semi">> /\ SubSeq(s, 3, 4) = <<"5", "C">>
    BY <2>1, Cut
  <2>3. /\ <<"5", "C">> \in DOMAIN Keys!CsiModified
        /\ Keys!CsiModified[<<"5", "C">>] = 561
    BY DEF Keys!CsiModified
  <2>4. Len(s) # 1 /\ Len(s) # 2 /\ Len(s) = 4
    BY <2>1
  <2>5. Keys!CsiCode(s) = Keys!CsiModified[SubSeq(s, 3, 4)]
    <3> HIDE DEF Keys!CsiModified
    <3> QED
      BY <2>2, <2>3, <2>4 DEF Keys!CsiCode
  <2>6. Keys!CsiCode(s) = 561
    BY <2>2, <2>3, <2>5
  <2> QED
    BY <2>6 DEF s
<1> QED
  BY <1>1, <1>2, <1>3, <1>4, <1>5, <1>6

-----------------------------------------------------------------------------
(* What getch still has to read of a key, where it waits, what it has of    *)
(* the sequence, and the code it will return with the last byte.            *)

ESC == Keys!ESC

\* The bytes that are keys of their own; the end of the input ends like one.
Plain == {"x", "^X", "high", "[", "O", "A", "6", "~"}
Alone == Plain \cup {"nil"}

AtByte(rest, code) ==
  \/ \E b \in Alone : rest = B1(b) /\ code = b
  \/ rest = B2("lead2", "cont") /\ code = B2("lead2", "cont")
  \/ rest = B3("lead3", "cont", "cont") /\ code = B3("lead3", "cont", "cont")
  \/ /\ rest = B4("lead4", "cont", "cont", "cont")
     /\ code = B4("lead4", "cont", "cont", "cont")
  \/ rest = B3("lead3", "cont", "nil") /\ code = B2("lead3", "cont")
  \/ rest = B3(ESC, "[", "A") /\ code = 259
  \/ rest = B3(ESC, "[", "Z") /\ code = 353
  \/ rest = B4(ESC, "[", "6", "~") /\ code = 338
  \/ rest = B5(ESC, "[", "1", "5", "~") /\ code = ESC
  \/ rest = B6(ESC, "[", "1", "semi", "5", "C") /\ code = 561
  \/ rest = B3(ESC, "O", "H") /\ code = 262
  \/ rest = B3(ESC, "O", "P") /\ code = ESC
  \/ rest = B2(ESC, "nil") /\ code = ESC
  \/ rest = B4(ESC, "[", "1", "nil") /\ code = ESC
  \/ rest = B3(ESC, "O", "nil") /\ code = ESC

AtEsc(rest, code) ==
  \/ rest = B2("[", "A") /\ code = 259
  \/ rest = B2("[", "Z") /\ code = 353
  \/ rest = B3("[", "6", "~") /\ code = 338
  \/ rest = B4("[", "1", "5", "~") /\ code = ESC
  \/ rest = B5("[", "1", "semi", "5", "C") /\ code = 561
  \/ rest = B3("[", "1", "nil") /\ code = ESC
  \/ rest = B2("O", "H") /\ code = 262
  \/ rest = B2("O", "P") /\ code = ESC
  \/ rest = B2("O", "nil") /\ code = ESC
  \/ rest = B1("nil") /\ code = ESC

AtCsi(rest, sofar, code) ==
  \/ rest = B1("A") /\ sofar = <<>> /\ code = 259
  \/ rest = B1("Z") /\ sofar = <<>> /\ code = 353
  \/ rest = B2("6", "~") /\ sofar = <<>> /\ code = 338
  \/ rest = B1("~") /\ sofar = B1("6") /\ code = 338
  \/ rest = B3("1", "5", "~") /\ sofar = <<>> /\ code = ESC
  \/ rest = B2("5", "~") /\ sofar = B1("1") /\ code = ESC
  \/ rest = B1("~") /\ sofar = B2("1", "5") /\ code = ESC
  \/ rest = B4("1", "semi", "5", "C") /\ sofar = <<>> /\ code = 561
  \/ rest = B3("semi", "5", "C") /\ sofar = B1("1") /\ code = 561
  \/ rest = B2("5", "C") /\ sofar = B2("1", "semi") /\ code = 561
  \/ rest = B1("C") /\ sofar = B3("1", "semi", "5") /\ code = 561
  \/ rest = B2("1", "nil") /\ sofar = <<>> /\ code = ESC
  \/ rest = B1("nil") /\ sofar = B1("1") /\ code = ESC

AtSs3(rest, code) ==
  \/ rest = B1("H") /\ code = 262
  \/ rest \in {B1("P"), B1("nil")} /\ code = ESC

AtUtf8(rest, sofar, code) ==
  \/ /\ rest = B1("cont") /\ sofar = B1("lead2")
     /\ code = B2("lead2", "cont")
  \/ /\ rest = B2("cont", "cont") /\ sofar = B1("lead3")
     /\ code = B3("lead3", "cont", "cont")
  \/ /\ rest = B1("cont") /\ sofar = B2("lead3", "cont")
     /\ code = B3("lead3", "cont", "cont")
  \/ /\ rest = B3("cont", "cont", "cont") /\ sofar = B1("lead4")
     /\ code = B4("lead4", "cont", "cont", "cont")
  \/ /\ rest = B2("cont", "cont") /\ sofar = B2("lead4", "cont")
     /\ code = B4("lead4", "cont", "cont", "cont")
  \/ /\ rest = B1("cont") /\ sofar = B3("lead4", "cont", "cont")
     /\ code = B4("lead4", "cont", "cont", "cont")
  \/ /\ rest = B2("cont", "nil") /\ sofar = B1("lead3")
     /\ code = B2("lead3", "cont")
  \/ /\ rest = B1("nil") /\ sofar = B2("lead3", "cont")
     /\ code = B2("lead3", "cont")

Decoding(rest, at, sofar, code) ==
  \/ at = "byte" /\ sofar = <<>> /\ AtByte(rest, code)
  \/ at = "esc" /\ sofar = <<>> /\ AtEsc(rest, code)
  \/ at = "csi" /\ AtCsi(rest, sofar, code)
  \/ at = "ss3" /\ sofar = <<>> /\ AtSs3(rest, code)
  \/ at = "utf8" /\ AtUtf8(rest, sofar, code)

\* The last byte returns the code, every other one gets nearer to it.
Decodes(code) ==
  \/ /\ unread' = <<>> /\ pc' = "byte" /\ seq' = <<>>
     /\ returned' = Append(returned, code)
  \/ Decoding(unread', pc', seq', code) /\ UNCHANGED returned

LEMMA KeysAreDecoded ==
  ASSUME NEW k \in DOMAIN Keys!BytesOf \ {"Escape"}
  PROVE  AtByte(Keys!BytesOf[k], Keys!CodeOf[k])
<1> USE DEF ESC, Keys!ESC
<1>1. CASE k \in {"x", "Ctrl", "stray", "Hangup"}
  <2>1. \E b \in {"x", "^X", "high", "nil"} :
          Keys!BytesOf[k] = B1(b) /\ Keys!CodeOf[k] = b
    BY <1>1 DEF Keys!BytesOf, Keys!CodeOf, B1
  <2> QED
    BY <2>1 DEF AtByte, Alone, Plain
<1>2. CASE k \in {"bracket", "bigO", "bigA"}
  <2>1. \E b \in {"[", "O", "A"} :
          Keys!BytesOf[k] = B1(b) /\ Keys!CodeOf[k] = b
    BY <1>2 DEF Keys!BytesOf, Keys!CodeOf, B1
  <2> QED
    BY <2>1 DEF AtByte, Alone, Plain
<1>3. CASE k \in {"six", "tilde"}
  <2>1. \E b \in {"6", "~"} : Keys!BytesOf[k] = B1(b) /\ Keys!CodeOf[k] = b
    BY <1>3 DEF Keys!BytesOf, Keys!CodeOf, B1
  <2> QED
    BY <2>1 DEF AtByte, Alone, Plain
<1>5. CASE k = "e_acute"
  <2>1. /\ Keys!BytesOf[k] = B2("lead2", "cont")
        /\ Keys!CodeOf[k] = B2("lead2", "cont")
    BY <1>5 DEF Keys!BytesOf, Keys!CodeOf, B2
  <2> QED
    BY <2>1 DEF AtByte
<1>6. CASE k = "kanji"
  <2>1. /\ Keys!BytesOf[k] = B3("lead3", "cont", "cont")
        /\ Keys!CodeOf[k] = B3("lead3", "cont", "cont")
    BY <1>6 DEF Keys!BytesOf, Keys!CodeOf, B3
  <2> QED
    BY <2>1 DEF AtByte
<1>7. CASE k = "emoji"
  <2>1. /\ Keys!BytesOf[k] = B4("lead4", "cont", "cont", "cont")
        /\ Keys!CodeOf[k] = B4("lead4", "cont", "cont", "cont")
    BY <1>7 DEF Keys!BytesOf, Keys!CodeOf, B4
  <2> QED
    BY <2>1 DEF AtByte
<1>8. CASE k = "Utf8Hangup"
  <2>1. /\ Keys!BytesOf[k] = B3("lead3", "cont", "nil")
        /\ Keys!CodeOf[k] = B2("lead3", "cont")
    BY <1>8 DEF Keys!BytesOf, Keys!CodeOf, B2, B3
  <2> QED
    BY <2>1 DEF AtByte
<1>9. CASE k = "Up"
  <2>1. Keys!BytesOf[k] = B3(ESC, "[", "A") /\ Keys!CodeOf[k] = 259
    BY <1>9 DEF Keys!BytesOf, Keys!CodeOf, B3
  <2> QED
    BY <2>1 DEF AtByte
<1>10. CASE k = "ShiftTab"
  <2>1. Keys!BytesOf[k] = B3(ESC, "[", "Z") /\ Keys!CodeOf[k] = 353
    BY <1>10 DEF Keys!BytesOf, Keys!CodeOf, B3
  <2> QED
    BY <2>1 DEF AtByte
<1>11. CASE k = "PageDown"
  <2>1. Keys!BytesOf[k] = B4(ESC, "[", "6", "~") /\ Keys!CodeOf[k] = 338
    BY <1>11 DEF Keys!BytesOf, Keys!CodeOf, B4
  <2> QED
    BY <2>1 DEF AtByte
<1>12. CASE k = "F5"
  <2>1. Keys!BytesOf[k] = B5(ESC, "[", "1", "5", "~") /\ Keys!CodeOf[k] = ESC
    BY <1>12 DEF Keys!BytesOf, Keys!CodeOf, B5
  <2> QED
    BY <2>1 DEF AtByte
<1>13. CASE k = "CtrlRight"
  <2>1. /\ Keys!BytesOf[k] = B6(ESC, "[", "1", "semi", "5", "C")
        /\ Keys!CodeOf[k] = 561
    BY <1>13 DEF Keys!BytesOf, Keys!CodeOf, B6
  <2> QED
    BY <2>1 DEF AtByte
<1>14. CASE k = "AppHome"
  <2>1. Keys!BytesOf[k] = B3(ESC, "O", "H") /\ Keys!CodeOf[k] = 262
    BY <1>14 DEF Keys!BytesOf, Keys!CodeOf, B3
  <2> QED
    BY <2>1 DEF AtByte
<1>15. CASE k = "F1"
  <2>1. Keys!BytesOf[k] = B3(ESC, "O", "P") /\ Keys!CodeOf[k] = ESC
    BY <1>15 DEF Keys!BytesOf, Keys!CodeOf, B3
  <2> QED
    BY <2>1 DEF AtByte
<1>16. CASE k = "EscHangup"
  <2>1. Keys!BytesOf[k] = B2(ESC, "nil") /\ Keys!CodeOf[k] = ESC
    BY <1>16 DEF Keys!BytesOf, Keys!CodeOf, B2
  <2> QED
    BY <2>1 DEF AtByte
<1>17. CASE k = "CsiHangup"
  <2>1. Keys!BytesOf[k] = B4(ESC, "[", "1", "nil") /\ Keys!CodeOf[k] = ESC
    BY <1>17 DEF Keys!BytesOf, Keys!CodeOf, B4
  <2> QED
    BY <2>1 DEF AtByte
<1>18. CASE k = "Ss3Hangup"
  <2>1. Keys!BytesOf[k] = B3(ESC, "O", "nil") /\ Keys!CodeOf[k] = ESC
    BY <1>18 DEF Keys!BytesOf, Keys!CodeOf, B3
  <2> QED
    BY <2>1 DEF AtByte
<1> QED
  BY <1>1, <1>2, <1>3, <1>5, <1>6, <1>7, <1>8, <1>9, <1>10, <1>11,
     <1>12, <1>13, <1>14, <1>15, <1>16, <1>17, <1>18
  DEF Keys!BytesOf

LEMMA ByteRows ==
  ASSUME NEW rest, NEW code, AtByte(rest, code)
  PROVE  LET b == First(rest) IN
         /\ b \in Alone \cup {"lead2", "lead3", "lead4", ESC}
         /\ b \in Alone => Others(rest) = <<>> /\ code = b
         /\ b \in {"lead2", "lead3", "lead4"}
              => AtUtf8(Others(rest), B1(b), code)
         /\ b = ESC => AtEsc(Others(rest), code)
  BY Reading1, Reading2, Reading3, Reading4, Reading5, Reading6
  DEF AtByte, AtUtf8, AtEsc, Alone, Plain, ESC, Keys!ESC

LEMMA EscRows ==
  ASSUME NEW rest, NEW code, AtEsc(rest, code)
  PROVE  LET b == First(rest) IN
         /\ b \in {"[", "O", "nil"}
         /\ b = "[" => AtCsi(Others(rest), <<>>, code)
         /\ b = "O" => AtSs3(Others(rest), code)
         /\ b = "nil" => Others(rest) = <<>> /\ code = ESC
  BY Reading1, Reading2, Reading3, Reading4, Reading5 DEF AtEsc, AtCsi, AtSs3

LEMMA CsiRows ==
  ASSUME NEW rest, NEW sofar, NEW code, AtCsi(rest, sofar, code)
  PROVE  LET b == First(rest) IN
         /\ b \in {"nil", "A", "Z", "C", "~", "1", "semi", "5", "6"}
         /\ b = "nil" => Others(rest) = <<>> /\ Keys!CsiCode(sofar) = code
         /\ b \in {"A", "Z", "C", "~"}
              => Others(rest) = <<>> /\ Keys!CsiCode(Put(sofar, b)) = code
         /\ b \in {"1", "semi", "5", "6"}
              => AtCsi(Others(rest), Put(sofar, b), code)
  BY Reading1, Reading2, Reading3, Reading4, Putting1, Putting2, Putting3,
     Putting4, CsiCodes DEF AtCsi, ESC

LEMMA Ss3Rows ==
  ASSUME NEW rest, NEW code, AtSs3(rest, code)
  PROVE  Others(rest) = <<>> /\ Keys!Ss3Code(First(rest)) = code
  BY Reading1 DEF AtSs3, Keys!Ss3Code, Keys!Ss3Letter, ESC

LEMMA MissingRows ==
  /\ Keys!Missing(B2("lead2", "cont")) = 0
  /\ Keys!Missing(B2("lead3", "cont")) # 0
  /\ Keys!Missing(B3("lead3", "cont", "cont")) = 0
  /\ Keys!Missing(B2("lead4", "cont")) # 0
  /\ Keys!Missing(B3("lead4", "cont", "cont")) # 0
  /\ Keys!Missing(B4("lead4", "cont", "cont", "cont")) = 0
  BY DEF Keys!Missing, Keys!Lead, B2, B3, B4

LEMMA Utf8Rows ==
  ASSUME NEW rest, NEW sofar, NEW code, AtUtf8(rest, sofar, code)
  PROVE  LET b == First(rest)  more == Put(sofar, "cont") IN
         /\ b \in {"nil", "cont"}
         /\ b = "nil" => Others(rest) = <<>> /\ code = sofar
         /\ b = "cont" =>
              \/ Keys!Missing(more) = 0 /\ Others(rest) = <<>> /\ code = more
              \/ Keys!Missing(more) # 0 /\ AtUtf8(Others(rest), more, code)
  BY Reading1, Reading2, Reading3, Putting2, Putting3, Putting4, MissingRows
  DEF AtUtf8

LEMMA DecodesByte ==
  ASSUME NEW b, NEW code, AtByte(unread, code), Keys!FirstByte(b)
  PROVE  Decodes(code)
<1> USE DEF Keys!FirstByte, Keys!ReadByte, Keys!Wait, Keys!ReturnKey,
            Decodes, Keys!Key, Keys!ESC, ESC, First, Others
<1>1. CASE b \in Alone
  BY <1>1, ByteRows DEF Keys!Lead, Alone, Plain
<1>2. CASE b \in {"lead2", "lead3", "lead4"}
  BY <1>2, ByteRows DEF Keys!Lead, Decoding, B1
<1>3. CASE b = ESC
  BY <1>3, ByteRows DEF Decoding
<1> QED
  BY <1>1, <1>2, <1>3, ByteRows

LEMMA DecodesEsc ==
  ASSUME NEW b, NEW code, AtEsc(unread, code), Keys!SecondByte(b)
  PROVE  Decodes(code)
  BY EscRows DEF Keys!SecondByte, Keys!ReadByte, Keys!Wait, Keys!ReturnKey,
                 Decodes, Decoding, ESC, First, Others

LEMMA DecodesCsi ==
  ASSUME NEW b, NEW code, AtCsi(unread, seq, code), Keys!CsiByte(b)
  PROVE  Decodes(code)
<1> USE DEF Keys!CsiByte, Keys!ReadByte, Keys!Wait, Keys!ReturnKey,
            Keys!EndsCsi, Decodes, First, Others, Put
<1>1. CASE b = "nil"
  BY <1>1, CsiRows
<1>2. CASE b \in {"A", "Z", "C", "~"}
  BY <1>2, CsiRows DEF Keys!Final
<1>3. CASE b \in {"1", "semi", "5", "6"}
  BY <1>3, CsiRows DEF Keys!Final, Decoding
<1> QED
  BY <1>1, <1>2, <1>3, CsiRows

LEMMA DecodesSs3 ==
  ASSUME NEW b, NEW code, AtSs3(unread, code), Keys!Ss3Byte(b)
  PROVE  Decodes(code)
  BY Ss3Rows
  DEF Keys!Ss3Byte, Keys!ReadByte, Keys!ReturnKey, Decodes, First, Others

LEMMA DecodesUtf8 ==
  ASSUME NEW b, NEW code, AtUtf8(unread, seq, code), Keys!Utf8Byte(b)
  PROVE  Decodes(code)
<1> USE DEF Keys!Utf8Byte, Keys!ReadByte, Keys!Wait, Keys!ReturnKey, Decodes,
            First, Others, Put
<1>1. CASE b = "nil"
  <2>1. Tail(unread) = <<>> /\ code = seq
    BY <1>1, Utf8Rows
  <2> QED
    BY <1>1, <2>1
<1>2. CASE b = "cont"
  BY <1>2, Utf8Rows DEF Decoding
<1> QED
  BY <1>1, <1>2, Utf8Rows

-----------------------------------------------------------------------------
(* The invariant of KeyDecoder.  As long as no bare ESC was pressed, what    *)
(* getch has returned and what it is reading add up to the keys pressed.     *)

SeqTyped ==
  /\ IsSeq(seq)
  /\ pc \in {"byte", "esc", "csi", "ss3", "utf8"}
  /\ pc \in {"byte", "esc", "ss3"} => seq = <<>>
  /\ pc = "csi" => \A i \in DOMAIN seq : seq[i] \notin Keys!Final
  /\ pc = "utf8" => /\ seq # <<>> /\ Head(seq) \in DOMAIN Keys!Lead
                    /\ Keys!Missing(seq) > 0

AllReturned ==
  unread = <<>> /\ pc = "byte" /\ seq = <<>> /\ returned = Keys!Codes(pressed)

LastInProgress ==
  \E before, k :
    /\ IsSeq(before) /\ pressed = Append(before, k)
    /\ unread # <<>> /\ returned = Keys!Codes(before)
    /\ Decoding(unread, pc, seq, Keys!CodeOf[k])

InStep == "Escape" \notin Keys!Range(pressed) => AllReturned \/ LastInProgress

KeysInv == pressed \in Seq(Pressed) /\ SeqTyped /\ InStep

LEMMA RowsAreNotEmpty ==
  ASSUME NEW rest, NEW at, NEW sofar, NEW code, Decoding(rest, at, sofar, code)
  PROVE  rest # <<>>
<1>1. \A a, b, c, d, e, f :
        /\ B1(a) # <<>> /\ B2(a, b) # <<>> /\ B3(a, b, c) # <<>>
        /\ B4(a, b, c, d) # <<>> /\ B5(a, b, c, d, e) # <<>>
        /\ B6(a, b, c, d, e, f) # <<>>
  BY DEF B1, B2, B3, B4, B5, B6
<1> QED
  BY <1>1 DEF Decoding, AtByte, AtEsc, AtCsi, AtSs3, AtUtf8

LEMMA CodesAppend ==
  ASSUME NEW s, IsSeq(s), NEW k
  PROVE  /\ IsSeq(Keys!Codes(s)) /\ Len(Keys!Codes(s)) = Len(s)
         /\ Keys!Codes(Append(s, k)) = Append(Keys!Codes(s), Keys!CodeOf[k])
<1>1. PICK S0 : s \in Seq(S0)
  BY DEF IsSeq
<1> DEFINE S == S0 \cup {k}
           C == {Keys!CodeOf[x] : x \in S}
           t == Keys!Codes(Append(s, k))
           u == Append(Keys!Codes(s), Keys!CodeOf[k])
<1>2. s \in Seq(S) /\ Append(s, k) \in Seq(S) /\ Len(s) \in Nat
  BY <1>1
<1>3. /\ Len(Append(s, k)) = Len(s) + 1 /\ Append(s, k)[Len(s) + 1] = k
      /\ \A i \in 1 .. Len(s) : Append(s, k)[i] = s[i]
  BY <1>2
<1> HIDE DEF S
<1>4. Keys!Codes(s) \in Seq(C) /\ Len(Keys!Codes(s)) = Len(s)
      /\ \A i \in 1 .. Len(s) : Keys!Codes(s)[i] = Keys!CodeOf[s[i]]
  BY <1>2 DEF Keys!Codes
<1>5. t \in Seq(C) /\ Len(t) = Len(s) + 1
      /\ \A i \in 1 .. Len(s) + 1 : t[i] = Keys!CodeOf[Append(s, k)[i]]
  BY <1>2, <1>3 DEF Keys!Codes
<1>6. Keys!CodeOf[k] \in C
  BY DEF S
<1> HIDE DEF C
<1>7. u \in Seq(C) /\ Len(u) = Len(s) + 1 /\ u[Len(s) + 1] = Keys!CodeOf[k]
      /\ \A i \in 1 .. Len(s) : u[i] = Keys!Codes(s)[i]
  BY <1>4, <1>6
<1>8. \A i \in 1 .. Len(t) : t[i] = u[i]
  BY <1>2, <1>3, <1>4, <1>5, <1>7
<1>9. t = u
  BY <1>5, <1>7, <1>8, SeqEqual
<1> QED
  BY <1>4, <1>9 DEF IsSeq

LEMMA InitKeysInv == ASSUME Keys!Init PROVE KeysInv
<1>1. pressed \in Seq(Pressed) /\ Keys!Codes(<<>>) = <<>>
  BY DEF Keys!Init, Keys!Codes
<1>2. SeqTyped
  <2>1. seq \in Seq({})
    BY DEF Keys!Init
  <2> QED
    BY <2>1 DEF Keys!Init, SeqTyped, IsSeq
<1> QED
  BY <1>1, <1>2 DEF Keys!Init, KeysInv, InStep, AllReturned

LEMMA PressStep ==
  ASSUME Keys!PressedAssumption, KeysInv, NEW k \in Pressed, Keys!Press(k)
  PROVE  KeysInv'
<1>1. /\ pressed' \in Seq(Pressed) /\ pressed' = Append(pressed, k)
      /\ unread = <<>>
      /\ unread' = Keys!BytesOf[k]
  BY DEF KeysInv, Keys!Press
<1>2. SeqTyped'
  BY DEF KeysInv, SeqTyped, Keys!Press
<1>3. ASSUME "Escape" \notin Keys!Range(pressed') PROVE LastInProgress'
  <2>1. k # "Escape" /\ "Escape" \notin Keys!Range(pressed)
    <3>1. /\ Len(pressed) + 1 \in DOMAIN pressed'
          /\ pressed'[Len(pressed) + 1] = k
          /\ \A i \in DOMAIN pressed :
               i \in DOMAIN pressed' /\ pressed'[i] = pressed[i]
      BY <1>1 DEF KeysInv
    <3> QED
      BY <1>3, <3>1 DEF Keys!Range
  <2>2. AllReturned
    BY <1>1, <2>1 DEF KeysInv, InStep, LastInProgress
  <2>3. Decoding(unread', pc', seq', Keys!CodeOf[k])
    BY <1>1, <2>1, <2>2, KeysAreDecoded
    DEF Keys!PressedAssumption, Keys!Press, AllReturned, Decoding
  <2>4. unread' # <<>>
    BY <2>3, RowsAreNotEmpty
  <2>5. IsSeq(pressed)
    BY DEF KeysInv, IsSeq
  <2> QED
    BY <1>1, <2>2, <2>3, <2>4, <2>5 DEF LastInProgress, AllReturned, Keys!Press
<1> QED
  BY <1>1, <1>2, <1>3 DEF KeysInv, InStep

\* The types: what a read leaves open is what its next read expects.
LEMMA ReadTyped ==
  ASSUME SeqTyped, NEW b,
         Keys!FirstByte(b) \/ Keys!SecondByte(b) \/ Keys!CsiByte(b)
           \/ Keys!Ss3Byte(b) \/ Keys!Utf8Byte(b)
  PROVE  SeqTyped'
<1> USE DEF Keys!ReadByte, Keys!Wait, Keys!ReturnKey
<1>0. IsSeq(<<>>)
  <2>1. <<>> \in Seq({})
    OBVIOUS
  <2> QED
    BY <2>1 DEF IsSeq
<1>1. ASSUME NEW code, Keys!ReturnKey(code) PROVE SeqTyped'
  BY <1>0, <1>1 DEF SeqTyped
<1>2. ASSUME NEW where \in {"esc", "csi", "ss3"}, Keys!Wait(where, <<>>)
      PROVE  SeqTyped'
  BY <1>0, <1>2 DEF SeqTyped
<1>3. CASE Keys!FirstByte(b)
  <2>1. ASSUME b \in DOMAIN Keys!Lead, Keys!Wait("utf8", <<b>>) PROVE SeqTyped'
    <3>1. seq' = <<b>> /\ Head(seq') = b /\ seq' # <<>> /\ Len(seq') = 1
      BY <2>1
    <3>2. IsSeq(seq')
      <4>1. <<b>> \in Seq({b})
        OBVIOUS
      <4> QED
        BY <3>1, <4>1 DEF IsSeq
    <3>3. Keys!Lead[b] \in {2, 3, 4}
      BY <2>1 DEF Keys!Lead
    <3>4. Keys!Missing(seq') > 0
      BY <3>1, <3>3 DEF Keys!Missing
    <3>5. pc' = "utf8" /\ Head(seq') \in DOMAIN Keys!Lead
      BY <2>1, <3>1
    <3> QED
      BY <3>1, <3>2, <3>4, <3>5 DEF SeqTyped
  <2> QED
    BY <1>1, <1>2, <1>3, <2>1 DEF Keys!FirstByte
<1>4. CASE Keys!SecondByte(b)
  BY <1>1, <1>2, <1>4 DEF Keys!SecondByte
<1>5. CASE Keys!CsiByte(b)
  <2>1. ASSUME pc = "csi", b \notin Keys!Final,
               Keys!Wait("csi", Append(seq, b))
        PROVE  SeqTyped'
    <3>1. PICK S : seq \in Seq(S)
      BY DEF SeqTyped, IsSeq
    <3>2. /\ Append(seq, b) \in Seq(S \cup {b})
          /\ \A i \in DOMAIN Append(seq, b) :
               \/ Append(seq, b)[i] = b
               \/ i \in DOMAIN seq /\ Append(seq, b)[i] = seq[i]
      BY <3>1
    <3> QED
      BY <2>1, <3>2 DEF SeqTyped, IsSeq
  <2> QED
    BY <1>1, <1>5, <2>1 DEF Keys!CsiByte, Keys!EndsCsi
<1>6. CASE Keys!Ss3Byte(b)
  BY <1>1, <1>6 DEF Keys!Ss3Byte
<1>7. CASE Keys!Utf8Byte(b)
  <2>1. ASSUME pc = "utf8", Keys!Missing(Append(seq, b)) # 0,
               Keys!Wait("utf8", Append(seq, b))
        PROVE  SeqTyped'
    <3>1. PICK S : seq \in Seq(S)
      BY DEF SeqTyped, IsSeq
    <3>2. seq # <<>> /\ Head(seq) \in DOMAIN Keys!Lead /\ Keys!Missing(seq) > 0
      BY <2>1 DEF SeqTyped
    <3>3. /\ Append(seq, b) \in Seq(S \cup {b}) /\ Append(seq, b) # <<>>
          /\ Head(Append(seq, b)) = Head(seq)
          /\ Len(Append(seq, b)) = Len(seq) + 1 /\ Len(seq) \in Nat
      BY <3>1, <3>2
    <3>4. Keys!Lead[Head(seq)] \in {2, 3, 4}
      BY <3>2 DEF Keys!Lead
    <3>5. Keys!Missing(Append(seq, b)) > 0
      BY <2>1, <3>2, <3>3, <3>4 DEF Keys!Missing
    <3>6. pc' = "utf8" /\ seq' = Append(seq, b)
      BY <2>1
    <3> QED
      BY <3>2, <3>3, <3>5, <3>6 DEF SeqTyped, IsSeq
  <2> QED
    BY <1>1, <1>7, <2>1 DEF Keys!Utf8Byte
<1> QED
  BY <1>3, <1>4, <1>5, <1>6, <1>7

LEMMA ReadInStep ==
  ASSUME KeysInv, NEW b,
         Keys!FirstByte(b) \/ Keys!SecondByte(b) \/ Keys!CsiByte(b)
           \/ Keys!Ss3Byte(b) \/ Keys!Utf8Byte(b)
  PROVE  InStep'
<1>1. UNCHANGED pressed /\ unread # <<>>
  BY DEF Keys!FirstByte, Keys!SecondByte, Keys!CsiByte, Keys!Ss3Byte,
         Keys!Utf8Byte, Keys!ReadByte
<1>2. ASSUME "Escape" \notin Keys!Range(pressed)
      PROVE  AllReturned' \/ LastInProgress'
  <2>1. PICK before, k :
          /\ IsSeq(before) /\ pressed = Append(before, k)
          /\ returned = Keys!Codes(before)
          /\ Decoding(unread, pc, seq, Keys!CodeOf[k])
    BY <1>1, <1>2 DEF KeysInv, InStep, AllReturned, LastInProgress
  <2>2. Decodes(Keys!CodeOf[k])
    <3>1. CASE Keys!FirstByte(b)
      BY <2>1, <3>1, DecodesByte DEF Decoding, Keys!FirstByte, Keys!ReadByte
    <3>2. CASE Keys!SecondByte(b)
      BY <2>1, <3>2, DecodesEsc DEF Decoding, Keys!SecondByte, Keys!ReadByte
    <3>3. CASE Keys!CsiByte(b)
      BY <2>1, <3>3, DecodesCsi DEF Decoding, Keys!CsiByte, Keys!ReadByte
    <3>4. CASE Keys!Ss3Byte(b)
      BY <2>1, <3>4, DecodesSs3 DEF Decoding, Keys!Ss3Byte, Keys!ReadByte
    <3>5. CASE Keys!Utf8Byte(b)
      BY <2>1, <3>5, DecodesUtf8 DEF Decoding, Keys!Utf8Byte, Keys!ReadByte
    <3> QED
      BY <3>1, <3>2, <3>3, <3>4, <3>5
  <2>3. Append(Keys!Codes(before), Keys!CodeOf[k]) = Keys!Codes(pressed')
    BY <1>1, <2>1, CodesAppend
  <2>4. CASE unread' = <<>> /\ pc' = "byte" /\ seq' = <<>>
             /\ returned' = Append(returned, Keys!CodeOf[k])
    BY <2>1, <2>3, <2>4 DEF AllReturned
  <2>5. CASE Decoding(unread', pc', seq', Keys!CodeOf[k]) /\ UNCHANGED returned
    <3>1. unread' # <<>>
      BY <2>5, RowsAreNotEmpty
    <3> QED
      BY <1>1, <2>1, <2>5, <3>1 DEF LastInProgress
  <2> QED
    BY <2>2, <2>4, <2>5 DEF Decodes
<1> QED
  BY <1>1, <1>2 DEF InStep

LEMMA NextKeysInv ==
  ASSUME Keys!PressedAssumption, KeysInv, Keys!Next \/ UNCHANGED keysVars
  PROVE  KeysInv'
<1>1. CASE UNCHANGED keysVars
  BY <1>1 DEF keysVars, KeysInv, SeqTyped, InStep, AllReturned, LastInProgress
<1>2. ASSUME NEW k \in Pressed, Keys!Press(k) PROVE KeysInv'
  BY <1>2, PressStep
<1>3. ASSUME NEW b, Keys!FirstByte(b) \/ Keys!SecondByte(b) \/ Keys!CsiByte(b)
                      \/ Keys!Ss3Byte(b) \/ Keys!Utf8Byte(b)
      PROVE  KeysInv'
  <2>1. UNCHANGED pressed
    BY <1>3 DEF Keys!FirstByte, Keys!SecondByte, Keys!CsiByte, Keys!Ss3Byte,
                Keys!Utf8Byte, Keys!ReadByte
  <2>2. SeqTyped' /\ InStep'
    BY <1>3, ReadTyped, ReadInStep DEF KeysInv
  <2> QED
    BY <2>1, <2>2 DEF KeysInv
<1> QED
  BY <1>1, <1>2, <1>3 DEF Keys!Next, Keys!Getch

LEMMA KeysInvHolds == KeysInv => KeysInOrder /\ Keys!TypeOK
<1> SUFFICES ASSUME KeysInv PROVE KeysInOrder /\ Keys!TypeOK
  OBVIOUS
<1>1. Keys!TypeOK
  BY DEF KeysInv, SeqTyped, Keys!TypeOK
<1>2. ASSUME "Escape" \notin Keys!Range(pressed)
      PROVE  /\ Keys!IsPrefix(returned, Keys!Codes(pressed))
             /\ unread = <<>> => returned = Keys!Codes(pressed)
  <2>1. CASE AllReturned
    <3>1. IsSeq(pressed)
      BY DEF KeysInv, IsSeq
    <3>2. Len(Keys!Codes(pressed)) \in Nat
      BY <3>1, CodesAppend DEF IsSeq
    <3> QED
      BY <2>1, <3>2 DEF AllReturned, Keys!IsPrefix
  <2>2. CASE LastInProgress
    <3>1. PICK before, k :
            /\ IsSeq(before) /\ pressed = Append(before, k)
            /\ unread # <<>> /\ returned = Keys!Codes(before)
      BY <2>2 DEF LastInProgress
    <3>2. /\ IsSeq(returned)
          /\ Keys!Codes(pressed) = Append(returned, Keys!CodeOf[k])
      BY <3>1, CodesAppend
    <3>3. Keys!IsPrefix(returned, Append(returned, Keys!CodeOf[k]))
      <4>1. PICK S : returned \in Seq(S)
        BY <3>2 DEF IsSeq
      <4> DEFINE T == S \cup {Keys!CodeOf[k]}
                 long == Append(returned, Keys!CodeOf[k])
      <4>2. /\ returned \in Seq(T) /\ long \in Seq(T) /\ Len(returned) \in Nat
            /\ Len(long) = Len(returned) + 1
            /\ \A i \in 1 .. Len(returned) : long[i] = returned[i]
        BY <4>1
      <4> HIDE DEF T, long
      <4>3. SubSeq(returned, 1, Len(returned)) = SubSeq(long, 1, Len(returned))
        BY <4>2
      <4> QED
        BY <4>2, <4>3 DEF Keys!IsPrefix, long
    <3> QED
      BY <3>1, <3>2, <3>3
  <2> QED
    BY <1>2, <2>1, <2>2 DEF KeysInv, InStep
<1> QED
  BY <1>1, <1>2 DEF KeysInOrder, Keys!KeysInOrder

-----------------------------------------------------------------------------
(* Induction: a set of natural numbers that is not empty has a least one.    *)

LEMMA LeastOf ==
  ASSUME NEW R, IsWellFoundedOn(R, Nat),
         \A x, y \in Nat : <<y, x>> \in R <=> y < x,
         NEW T \in SUBSET Nat, T # {}
  PROVE  \E n \in T : \A k \in T : n <= k
<1>1. PICK x \in T : \A y \in T : <<y, x>> \notin R
  BY WFMin
<1>2. ASSUME NEW y \in T PROVE x <= y
  <2>1. x \in Nat /\ y \in Nat
    OBVIOUS
  <2>2. ~(y < x)
    BY <1>1, <2>1
  <2> QED
    BY <2>1, <2>2
<1> QED
  BY <1>2

\* A set of numbers that holds one holds a least one.
LEMMA LeastNumber ==
  ASSUME NEW T \in SUBSET Nat, T # {}
  PROVE  \E n \in T : \A k \in T : n <= k
<1>1. PICK R : R = OpToRel(<, Nat)
  OBVIOUS
<1>2. IsWellFoundedOn(R, Nat)
  BY <1>1, NatLessThanWellFounded
<1>3. \A x, y \in Nat : <<y, x>> \in R <=> y < x
  BY <1>1 DEF OpToRel
<1> QED
  BY <1>2, <1>3, LeastOf

-----------------------------------------------------------------------------
(* Heard is defined by recursion: the function it chooses exists and is     *)
(* unique, so one more key is one more step of AfterKey.                    *)

Entry(keys, g, i) ==
  IF i = 0 THEN [codes |-> <<>>, spelled |-> <<>>]
  ELSE Keys!AfterKey(g[i - 1], keys[i])
Upto(keys, n, g) == g = [i \in 0 .. n |-> Entry(keys, g, i)]

LEMMA UptoExists ==
  ASSUME NEW keys, NEW n \in Nat PROVE \E g : Upto(keys, n, g)
<1> DEFINE T == {m \in Nat : ~ \E g : Upto(keys, m, g)}
<1> SUFFICES ASSUME T # {} PROVE FALSE
  OBVIOUS
<1>1. PICK m \in T : \A k \in T : m <= k
  BY LeastNumber
<1>2. m # 0
  <2> DEFINE g == [i \in 0 .. 0 |-> [codes |-> <<>>, spelled |-> <<>>]]
  <2>1. Upto(keys, 0, g)
    BY DEF Upto, Entry
  <2> QED
    BY <1>1, <2>1
<1>3. m \in Nat /\ m - 1 \in Nat /\ m - 1 \notin T
  BY <1>1, <1>2
<1>4. PICK h : Upto(keys, m - 1, h)
  BY <1>3
<1> DEFINE last == Keys!AfterKey(h[m - 1], keys[m])
           g == [i \in 0 .. m |-> IF i = m THEN last ELSE h[i]]
<1>5. ASSUME NEW i \in 0 .. m - 1 PROVE g[i] = h[i] /\ h[i] = Entry(keys, h, i)
  <2>1. i \in 0 .. m /\ i # m
    BY <1>3
  <2>2. g[i] = h[i]
    BY ONLY <2>1
  <2>3. h[i] = Entry(keys, h, i)
    BY ONLY <1>4 DEF Upto
  <2> QED
    BY ONLY <2>2, <2>3
<1>6. ASSUME NEW i \in 0 .. m PROVE g[i] = Entry(keys, g, i)
  <2>1. CASE i = m
    <3>1. m - 1 \in 0 .. m - 1 /\ i # 0
      BY <1>2, <1>3, <2>1
    <3>2. g[i] = last
      BY <2>1
    <3> QED
      BY <1>5, <2>1, <3>1, <3>2 DEF Entry
  <2>2. CASE i # m
    <3>1. i \in 0 .. m - 1 /\ (i # 0 => i - 1 \in 0 .. m - 1)
      BY <1>3, <2>2
    <3> QED
      BY <1>5, <3>1 DEF Entry
  <2> QED
    BY <2>1, <2>2
<1>7. Upto(keys, m, g)
  BY <1>6 DEF Upto
<1> QED
  BY <1>1, <1>7

Alike(keys, more, n) == \A i \in 1 .. n : keys[i] = more[i]

LEMMA UptoUnique ==
  ASSUME NEW keys, NEW more, NEW n \in Nat, NEW m \in Nat, n <= m,
         Alike(keys, more, n),
         NEW g, Upto(keys, n, g), NEW h, Upto(more, m, h)
  PROVE  g[n] = h[n]
<1> DEFINE T == {i \in 0 .. n : g[i] # h[i]}
<1>1. ASSUME T # {} PROVE FALSE
  <2>1. T \in SUBSET Nat
    OBVIOUS
  <2>2. PICK i \in T : \A k \in T : i <= k
    BY <1>1, <2>1, LeastNumber
  <2>3. i \in 0 .. n /\ i \in 0 .. m /\ g[i] # h[i]
    BY <2>2
  <2>4. g[i] = Entry(keys, g, i) /\ h[i] = Entry(more, h, i)
    BY <2>3 DEF Upto
  <2>5. CASE i = 0
    BY <2>3, <2>4, <2>5 DEF Entry
  <2>6. CASE i # 0
    <3>1. i \in 1 .. n /\ i - 1 \in 0 .. n /\ ~(i <= i - 1)
      BY <2>3, <2>6
    <3>2. g[i - 1] = h[i - 1]
      BY <2>2, <3>1
    <3>3. keys[i] = more[i]
      BY <3>1 DEF Alike
    <3> QED
      BY <2>3, <2>4, <2>6, <3>2, <3>3 DEF Entry
  <2> QED
    BY <2>5, <2>6
<1>2. n \in 0 .. n
  OBVIOUS
<1> QED
  BY <1>1, <1>2

LEMMA HeardIs ==
  ASSUME NEW keys, IsSeq(keys)
  PROVE  \E g : Upto(keys, Len(keys), g) /\ Keys!Heard(keys) = g[Len(keys)]
<1> DEFINE n == Len(keys)
           g == CHOOSE x : Upto(keys, n, x)
<1>1. n \in Nat
  BY LenProperties DEF IsSeq
<1> HIDE DEF n
<1>2. Upto(keys, n, g)
  BY <1>1, UptoExists
<1>3. Keys!Heard(keys) = g[n]
  BY DEF Keys!Heard, Upto, Entry, n
<1> HIDE DEF g
<1> QED
  BY <1>2, <1>3 DEF n

LEMMA HeardEmpty == Keys!Heard(<<>>) = [codes |-> <<>>, spelled |-> <<>>]
<1>1. IsSeq(<<>>) /\ Len(<<>>) = 0
  BY EmptySeq DEF IsSeq
<1>2. PICK g : Upto(<<>>, 0, g) /\ Keys!Heard(<<>>) = g[0]
  BY <1>1, HeardIs
<1> QED
  BY <1>2 DEF Upto, Entry

LEMMA HeardAppend ==
  ASSUME NEW keys, IsSeq(keys), NEW k
  PROVE  Keys!Heard(Append(keys, k)) = Keys!AfterKey(Keys!Heard(keys), k)
<1> DEFINE more == Append(keys, k)
           n == Len(keys)
<1>1. /\ IsSeq(more) /\ n \in Nat /\ Len(more) = n + 1 /\ more[n + 1] = k
      /\ \A i \in 1 .. n : more[i] = keys[i]
  <2>1. PICK S : keys \in Seq(S)
    BY DEF IsSeq
  <2> DEFINE T == S \cup {k}
  <2>2. keys \in Seq(T) /\ k \in T
    BY <2>1, SeqMonotonic
  <2> HIDE DEF T
  <2> QED
    BY <2>2, AppendProperties, LenProperties DEF IsSeq
<1> HIDE DEF more, n
<1>2. PICK g : Upto(keys, n, g) /\ Keys!Heard(keys) = g[n]
  BY HeardIs DEF n
<1>3. PICK h : Upto(more, n + 1, h) /\ Keys!Heard(more) = h[n + 1]
  BY <1>1, HeardIs
<1>4. g[n] = h[n]
  <2>1. n + 1 \in Nat /\ n <= n + 1 /\ Alike(keys, more, n)
    BY <1>1 DEF Alike
  <2>2. n \in Nat /\ Upto(keys, n, g) /\ Upto(more, n + 1, h)
    BY <1>1, <1>2, <1>3
  <2> QED
    BY ONLY <2>1, <2>2, UptoUnique
<1>5. h[n + 1] = Entry(more, h, n + 1)
  BY <1>1, <1>3 DEF Upto
<1>6. h[n + 1] = Keys!AfterKey(h[n], k)
  <2>1. n + 1 # 0 /\ (n + 1) - 1 = n
    BY <1>1
  <2> QED
    BY <1>1, <1>5, <2>1 DEF Entry
<1> QED
  BY <1>2, <1>3, <1>4, <1>6 DEF more

-----------------------------------------------------------------------------
(* Keys of one byte, bare ESCs among them: the decoder is in step with      *)
(* Heard at every read.                                                     *)

\* A read for a first byte finds the decoder in step; a bare ESC and what is
\* spelled after it are answered when the byte comes that ends them.
Matches(heard) ==
  /\ returned = heard.codes
  /\ \/ heard.spelled = <<>> /\ pc = "byte"
     \/ heard.spelled = <<ESC>> /\ pc = "esc"
     \/ heard.spelled = <<ESC, "O">> /\ pc = "ss3"
     \/ heard.spelled = <<ESC, "[">> \o seq /\ pc = "csi" /\ IsSeq(seq)

LastUnread ==
  \E before, k :
    /\ IsSeq(before) /\ pressed = Append(before, k) /\ k \in Keys!SingleByte
    /\ unread = Keys!BytesOf[k] /\ Matches(Keys!Heard(before))

LoneInv ==
  Keys!Range(pressed) \subseteq Keys!SingleByte =>
    \/ unread = <<>> /\ Matches(Keys!Heard(pressed))
    \/ LastUnread

IsJoin(c, a, b, S) == c = a \o b /\ a \in Seq(S) /\ b \in Seq(S)
AreJoined(c, a, b, S) ==
  /\ c \in Seq(S) /\ Len(c) = Len(a) + Len(b)
  /\ \A i \in 1 .. Len(a) : c[i] = a[i]
  /\ \A i \in 1 .. Len(b) : c[Len(a) + i] = b[i]

LEMMA Joined ==
  ASSUME NEW S, NEW a, NEW b, NEW c, IsJoin(c, a, b, S)
  PROVE  AreJoined(c, a, b, S)
<1>1. /\ Len(a) \in Nat /\ Len(b) \in Nat /\ c = a \o b
      /\ a \in Seq(S) /\ b \in Seq(S)
  BY DEF IsJoin
<1>2. ASSUME NEW i \in 1 .. Len(a) PROVE c[i] = a[i]
  <2>1. i \in 1 .. Len(a) + Len(b) /\ i <= Len(a)
    BY <1>1
  <2> QED
    BY <1>1, <2>1, ConcatProperties
<1>3. ASSUME NEW i \in 1 .. Len(b) PROVE c[Len(a) + i] = b[i]
  <2>1. /\ Len(a) + i \in 1 .. Len(a) + Len(b)
        /\ ~(Len(a) + i <= Len(a)) /\ (Len(a) + i) - Len(a) = i
    BY <1>1
  <2> QED
    BY <1>1, <2>1, ConcatProperties
<1>4. c \in Seq(S) /\ Len(c) = Len(a) + Len(b)
  BY <1>1, ConcatProperties
<1> QED
  BY <1>2, <1>3, <1>4 DEF AreJoined

LEMMA Spelling ==
  ASSUME NEW s, IsSeq(s), NEW b
  PROVE  LET spelled == <<ESC, "[">> \o s
             more == Append(spelled, b)
         IN  /\ IsSeq(Append(s, b)) /\ more = <<ESC, "[">> \o Append(s, b)
             /\ spelled # <<>>
             /\ more[2] = "[" /\ Len(more) > 2 /\ Keys!Last(more) = b
             /\ SubSeq(more, 3, Len(more)) = Append(s, b)
<1>1. PICK S0 : s \in Seq(S0)
  BY DEF IsSeq
<1> DEFINE S == S0 \cup {b, ESC, "["}
           open == <<ESC, "[">>
           spelled == open \o s
           longer == Append(s, b)
           more == Append(spelled, b)
           cut == SubSeq(more, 3, Len(more))
<1>2. s \in Seq(S) /\ b \in S /\ open \in Seq(S) /\ Len(open) = 2 /\ open[2] = "["
  BY <1>1
<1> HIDE DEF S, open
<1>3. /\ longer \in Seq(S) /\ Len(longer) = Len(s) + 1 /\ Len(s) \in Nat
      /\ longer[Len(s) + 1] = b /\ \A i \in 1 .. Len(s) : longer[i] = s[i]
  BY <1>2
<1>4. /\ spelled \in Seq(S) /\ Len(spelled) = Len(s) + 2
      /\ spelled[2] = "["
      /\ \A i \in 1 .. Len(s) : spelled[i + 2] = s[i]
      /\ \A i \in 1 .. 2 : spelled[i] = open[i]
  <2>1. /\ spelled \in Seq(S) /\ Len(spelled) = Len(open) + Len(s)
        /\ \A i \in 1 .. Len(open) : spelled[i] = open[i]
        /\ \A i \in 1 .. Len(s) : spelled[Len(open) + i] = s[i]
    <3>1. IsJoin(spelled, open, s, S)
      BY <1>2 DEF IsJoin
    <3> HIDE DEF spelled
    <3>2. AreJoined(spelled, open, s, S)
      BY ONLY <3>1, Joined
    <3> QED
      BY ONLY <3>2 DEF AreJoined
  <2>2. \A i \in 1 .. Len(s) : i + 2 = 2 + i
    BY <1>3
  <2> QED
    BY <1>2, <1>3, <2>1, <2>2
<1> HIDE DEF spelled, longer
<1>5. /\ more \in Seq(S) /\ Len(more) = Len(s) + 3
      /\ more[Len(s) + 3] = b
      /\ \A i \in 1 .. Len(s) + 2 : more[i] = spelled[i]
  BY <1>2, <1>3, <1>4
<1> HIDE DEF more
<1>6. /\ open \o longer \in Seq(S) /\ Len(open \o longer) = Len(s) + 3
      /\ \A i \in 1 .. 2 : (open \o longer)[i] = open[i]
      /\ \A i \in 1 .. Len(s) + 1 : (open \o longer)[i + 2] = longer[i]
  <2> DEFINE both == open \o longer
  <2>1. /\ both \in Seq(S) /\ Len(both) = Len(open) + Len(longer)
        /\ \A i \in 1 .. Len(open) : both[i] = open[i]
        /\ \A i \in 1 .. Len(longer) : both[Len(open) + i] = longer[i]
    <3>1. IsJoin(both, open, longer, S)
      BY <1>2, <1>3 DEF IsJoin
    <3> HIDE DEF both
    <3>2. AreJoined(both, open, longer, S)
      BY ONLY <3>1, Joined
    <3> QED
      BY ONLY <3>2 DEF AreJoined
  <2> HIDE DEF both
  <2>2. \A i \in 1 .. Len(s) + 1 : both[i + 2] = longer[i]
    <3>1. ASSUME NEW i \in 1 .. Len(s) + 1 PROVE both[i + 2] = longer[i]
      <4>1. i \in 1 .. Len(longer) /\ i + 2 = Len(open) + i
        BY <1>2, <1>3
      <4> QED
        BY <2>1, <4>1
    <3> QED
      BY <3>1
  <2> QED
    BY <1>2, <1>3, <2>1, <2>2 DEF both
<1>7. more = open \o longer
  <2>1. ASSUME NEW i \in 1 .. Len(s) + 3 PROVE more[i] = (open \o longer)[i]
    <3>1. CASE i \in 1 .. 2
      BY <1>3, <1>4, <1>5, <1>6, <3>1
    <3>2. CASE i - 2 \in 1 .. Len(s)
      <4>1. /\ i - 2 \in 1 .. Len(s) + 1 /\ (i - 2) + 2 = i
            /\ i \in 1 .. Len(s) + 2
        BY <1>3, <3>2
      <4>2. more[i] = s[i - 2]
        BY <1>4, <1>5, <3>2, <4>1
      <4>3. (open \o longer)[i] = longer[i - 2]
        BY <1>6, <4>1
      <4> QED
        BY <1>3, <3>2, <4>2, <4>3
    <3>3. CASE i = Len(s) + 3
      <4>1. Len(s) + 1 \in 1 .. Len(s) + 1 /\ (Len(s) + 1) + 2 = i
        BY <1>3, <3>3
      <4> QED
        BY <1>3, <1>5, <1>6, <3>3, <4>1
    <3>4. i \in 1 .. 2 \/ i - 2 \in 1 .. Len(s) \/ i = Len(s) + 3
      BY <1>3
    <3> QED
      BY <3>1, <3>2, <3>3, <3>4
  <2> QED
    BY <1>3, <1>5, <1>6, <2>1, SeqEqual
<1>8. cut = longer
  <2>1. /\ cut \in Seq(S) /\ Len(cut) = Len(s) + 1
        /\ \A i \in 1 .. Len(s) + 1 : cut[i] = more[i + 2]
    BY <1>3, <1>5
  <2>2. \A i \in 1 .. Len(s) + 1 : cut[i] = longer[i]
    BY <1>6, <1>7, <2>1
  <2> QED
    BY <1>3, <2>1, <2>2, SeqEqual
<1>9. Keys!Last(more) = b /\ more[2] = "[" /\ Len(more) > 2
  BY <1>3, <1>4, <1>5 DEF Keys!Last
<1>10. spelled # <<>> /\ IsSeq(longer)
  BY <1>3, <1>4 DEF IsSeq
<1> QED
  BY <1>7, <1>8, <1>9, <1>10 DEF open, spelled, longer, more

\* What one more key makes of the codes and the bytes not yet answered.
Becomes(heard, k, codes, spelled) ==
  LET next == Keys!AfterKey(heard, k)
  IN  next.codes = codes /\ next.spelled = spelled

LEMMA KeyAlone ==
  ASSUME NEW heard, heard.spelled = <<>>, NEW k
  PROVE  /\ k # "Escape"
              => Becomes(heard, k, Append(heard.codes, Keys!CodeOf[k]), <<>>)
         /\ k = "Escape" => Becomes(heard, k, heard.codes, <<ESC>>)
<1>1. CASE k # "Escape"
  <2>1. Keys!AfterKey(heard, k)
          = [codes |-> Append(heard.codes, Keys!CodeOf[k]), spelled |-> <<>>]
    BY <1>1 DEF Keys!AfterKey
  <2> QED
    BY <1>1, <2>1 DEF Becomes
<1>2. CASE k = "Escape"
  <2>1. Append(<<>>, Head(Keys!BytesOf[k])) = <<ESC>>
    BY <1>2 DEF Keys!BytesOf, ESC, Keys!ESC
  <2>2. Keys!AfterKey(heard, k) = [codes |-> heard.codes, spelled |-> <<ESC>>]
    BY <1>2, <2>1 DEF Keys!AfterKey
  <2> QED
    BY <1>2, <2>2 DEF Becomes
<1> QED
  BY <1>1, <1>2

LEMMA KeySpelling ==
  ASSUME NEW heard, heard.spelled # <<>>, NEW k, NEW b,
         Keys!BytesOf[k] = <<b>>,
         NEW spelled, spelled = Append(heard.spelled, b)
  PROVE  /\ Keys!Whole(spelled)
              => Becomes(heard, k, Append(heard.codes, Keys!Meaning(spelled)), <<>>)
         /\ ~Keys!Whole(spelled) => Becomes(heard, k, heard.codes, spelled)
<1>1. Append(heard.spelled, Head(Keys!BytesOf[k])) = spelled
  OBVIOUS
<1>2. CASE Keys!Whole(spelled)
  <2>1. Keys!AfterKey(heard, k)
          = [codes |-> Append(heard.codes, Keys!Meaning(spelled)),
             spelled |-> <<>>]
    BY <1>1, <1>2 DEF Keys!AfterKey
  <2> QED
    BY <1>2, <2>1 DEF Becomes
<1>3. CASE ~Keys!Whole(spelled)
  <2>1. Keys!AfterKey(heard, k) = [codes |-> heard.codes, spelled |-> spelled]
    BY <1>1, <1>3 DEF Keys!AfterKey
  <2> QED
    BY <1>3, <2>1 DEF Becomes
<1> QED
  BY <1>2, <1>3

LEMMA LoneBytes ==
  ASSUME NEW k \in Keys!SingleByte
  PROVE  \E b \in Plain \cup {ESC} :
           /\ Keys!BytesOf[k] = <<b>> /\ Keys!CodeOf[k] = b
           /\ k = "Escape" <=> b = ESC
<1>1. CASE k \in {"x", "Ctrl", "Escape", "stray"}
  BY <1>1 DEF Keys!BytesOf, Keys!CodeOf, Keys!ESC, ESC, Plain
<1>2. CASE k \in {"bracket", "bigO", "bigA", "six", "tilde"}
  BY <1>2 DEF Keys!BytesOf, Keys!CodeOf, Keys!ESC, ESC, Plain
<1> QED
  BY <1>1, <1>2 DEF Keys!SingleByte

LEMMA LoneFirst ==
  ASSUME NEW b, NEW k, NEW c \in Plain \cup {ESC}, unread = <<c>>,
         Keys!BytesOf[k] = <<c>>, Keys!CodeOf[k] = c, k = "Escape" <=> c = ESC,
         NEW heard, returned = heard.codes, heard.spelled = <<>>,
         Keys!FirstByte(b)
  PROVE  unread' = <<>> /\ Matches(Keys!AfterKey(heard, k))'
<1>1. b = c /\ unread' = <<>> /\ pc = "byte"
  BY DEF Keys!FirstByte, Keys!ReadByte
<1>2. c # "nil" /\ c \notin DOMAIN Keys!Lead
  BY DEF Keys!Lead, Keys!ESC, ESC, Plain
<1>3. /\ c = ESC => pc' = "esc" /\ returned' = returned
      /\ c # ESC => pc' = "byte" /\ returned' = Append(returned, c)
  BY <1>1, <1>2 DEF Keys!FirstByte, Keys!Wait, Keys!ReturnKey, Keys!Key,
                    Keys!ESC, ESC
<1> QED
  BY <1>1, <1>3, KeyAlone DEF Becomes, Matches

LEMMA LoneSecond ==
  ASSUME NEW b, NEW k, NEW c \in Plain \cup {ESC}, unread = <<c>>,
         Keys!BytesOf[k] = <<c>>,
         NEW heard, returned = heard.codes, heard.spelled = <<ESC>>,
         Keys!SecondByte(b)
  PROVE  unread' = <<>> /\ Matches(Keys!AfterKey(heard, k))'
<1> DEFINE spelled == <<ESC, c>>
<1>1. b = c /\ unread' = <<>> /\ c # "nil"
  BY DEF Keys!SecondByte, Keys!ReadByte, Plain, ESC, Keys!ESC
<1>2. /\ heard.spelled # <<>> /\ spelled = Append(heard.spelled, c)
      /\ spelled[2] = c /\ Len(spelled) = 2
  OBVIOUS
<1> HIDE DEF spelled
<1>3. /\ Keys!Whole(spelled) <=> c \notin {"[", "O"}
      /\ c \notin {"[", "O"} => Keys!Meaning(spelled) = ESC
  BY <1>2 DEF Keys!Whole, Keys!Meaning, ESC
<1>4. CASE c \notin {"[", "O"}
  <2>1. pc' = "byte" /\ returned' = Append(returned, ESC)
    BY <1>1, <1>4 DEF Keys!SecondByte, Keys!ReturnKey, ESC
  <2>2. Becomes(heard, k, Append(heard.codes, ESC), <<>>)
    BY ONLY <1>2, <1>3, <1>4, Keys!BytesOf[k] = <<c>>, KeySpelling
  <2> QED
    BY <1>1, <2>1, <2>2 DEF Becomes, Matches
<1>5. CASE c = "O"
  <2>1. pc' = "ss3" /\ returned' = returned /\ spelled = <<ESC, "O">>
    BY <1>1, <1>5 DEF Keys!SecondByte, Keys!Wait, spelled
  <2>2. Becomes(heard, k, heard.codes, spelled)
    BY ONLY <1>2, <1>3, <1>5, Keys!BytesOf[k] = <<c>>, KeySpelling
  <2> QED
    BY <1>1, <2>1, <2>2 DEF Becomes, Matches
<1>6. CASE c = "["
  <2>1. pc' = "csi" /\ seq' = <<>> /\ returned' = returned
    BY <1>1, <1>6 DEF Keys!SecondByte, Keys!Wait
  <2>2. IsSeq(seq') /\ spelled = <<ESC, "[">> \o seq'
    <3>1. <<>> \in Seq({})
      OBVIOUS
    <3> QED
      BY <1>6, <2>1, <3>1 DEF spelled, IsSeq
  <2>3. Becomes(heard, k, heard.codes, spelled)
    BY ONLY <1>2, <1>3, <1>6, Keys!BytesOf[k] = <<c>>, KeySpelling
  <2> QED
    BY <1>1, <2>1, <2>2, <2>3 DEF Becomes, Matches
<1> QED
  BY <1>4, <1>5, <1>6

LEMMA LoneThird ==
  ASSUME NEW b, NEW k, NEW c, unread = <<c>>, Keys!BytesOf[k] = <<c>>,
         NEW heard, returned = heard.codes, heard.spelled = <<ESC, "O">>,
         Keys!Ss3Byte(b)
  PROVE  unread' = <<>> /\ Matches(Keys!AfterKey(heard, k))'
<1> DEFINE spelled == <<ESC, "O", c>>
<1>1. b = c /\ unread' = <<>>
  BY DEF Keys!Ss3Byte, Keys!ReadByte
<1>2. /\ heard.spelled # <<>> /\ spelled = Append(heard.spelled, c)
      /\ spelled[2] = "O" /\ spelled[3] = c /\ Len(spelled) = 3
  OBVIOUS
<1> HIDE DEF spelled
<1>3. Keys!Whole(spelled) /\ Keys!Meaning(spelled) = Keys!Ss3Code(c)
  BY <1>2 DEF Keys!Whole, Keys!Meaning
<1>4. pc' = "byte" /\ returned' = Append(returned, Keys!Ss3Code(c))
  BY <1>1 DEF Keys!Ss3Byte, Keys!ReturnKey
<1>5. Becomes(heard, k, Append(heard.codes, Keys!Ss3Code(c)), <<>>)
  BY ONLY <1>2, <1>3, Keys!BytesOf[k] = <<c>>, KeySpelling
<1> QED
  BY <1>1, <1>4, <1>5 DEF Becomes, Matches

LEMMA LoneCsi ==
  ASSUME NEW b, NEW k, NEW c \in Plain \cup {ESC}, unread = <<c>>,
         Keys!BytesOf[k] = <<c>>,
         NEW heard, returned = heard.codes,
         heard.spelled = <<ESC, "[">> \o seq, IsSeq(seq),
         Keys!CsiByte(b)
  PROVE  unread' = <<>> /\ Matches(Keys!AfterKey(heard, k))'
<1> DEFINE spelled == Append(<<ESC, "[">> \o seq, c)
           longer == Append(seq, c)
<1>1. b = c /\ unread' = <<>> /\ c # "nil"
  BY DEF Keys!CsiByte, Keys!ReadByte, Plain, ESC, Keys!ESC
<1>2. /\ heard.spelled # <<>> /\ spelled = Append(heard.spelled, c)
      /\ IsSeq(longer) /\ spelled = <<ESC, "[">> \o longer
      /\ spelled[2] = "[" /\ Len(spelled) > 2 /\ Keys!Last(spelled) = c
      /\ SubSeq(spelled, 3, Len(spelled)) = longer
  BY Spelling
<1>3. /\ c \in Keys!Final => pc' = "byte"
                             /\ returned' = Append(returned, Keys!CsiCode(longer))
      /\ c \notin Keys!Final => pc' = "csi" /\ seq' = longer
                                /\ returned' = returned
  BY <1>1 DEF Keys!CsiByte, Keys!EndsCsi, Keys!Wait, Keys!ReturnKey
<1> HIDE DEF spelled, longer
<1>4. /\ Keys!Whole(spelled) <=> c \in Keys!Final
      /\ Keys!Meaning(spelled) = Keys!CsiCode(longer)
  BY <1>2 DEF Keys!Whole, Keys!Meaning
<1>5. CASE c \in Keys!Final
  <2>1. Becomes(heard, k, Append(heard.codes, Keys!CsiCode(longer)), <<>>)
    BY ONLY <1>2, <1>4, <1>5, Keys!BytesOf[k] = <<c>>, KeySpelling
  <2> QED
    BY <1>1, <1>3, <1>5, <2>1 DEF Becomes, Matches
<1>6. CASE c \notin Keys!Final
  <2>1. Becomes(heard, k, heard.codes, spelled)
    BY ONLY <1>2, <1>4, <1>6, Keys!BytesOf[k] = <<c>>, KeySpelling
  <2> QED
    BY <1>1, <1>2, <1>3, <1>6, <2>1 DEF Becomes, Matches
<1> QED
  BY <1>5, <1>6

LEMMA LoneRead ==
  ASSUME LoneInv, NEW b,
         Keys!FirstByte(b) \/ Keys!SecondByte(b) \/ Keys!CsiByte(b)
           \/ Keys!Ss3Byte(b) \/ Keys!Utf8Byte(b)
  PROVE  LoneInv'
<1>1. UNCHANGED pressed /\ unread # <<>>
  BY DEF Keys!FirstByte, Keys!SecondByte, Keys!CsiByte, Keys!Ss3Byte,
         Keys!Utf8Byte, Keys!ReadByte
<1>2. ASSUME Keys!Range(pressed) \subseteq Keys!SingleByte
      PROVE  unread' = <<>> /\ Matches(Keys!Heard(pressed))'
  <2>1. PICK before, k :
          /\ IsSeq(before) /\ pressed = Append(before, k)
          /\ k \in Keys!SingleByte
          /\ unread = Keys!BytesOf[k] /\ Matches(Keys!Heard(before))
    BY <1>1, <1>2 DEF LoneInv, LastUnread
  <2>2. PICK c \in Plain \cup {ESC} :
          /\ Keys!BytesOf[k] = <<c>> /\ Keys!CodeOf[k] = c
          /\ k = "Escape" <=> c = ESC
    BY <2>1, LoneBytes
  <2> DEFINE heard == Keys!Heard(before)
  <2>3. Keys!Heard(pressed') = Keys!AfterKey(heard, k)
    BY <1>1, <2>1, HeardAppend
  <2>4. Matches(heard) /\ unread = <<c>>
    BY <2>1, <2>2
  <2> HIDE DEF heard
  <2>5. unread' = <<>> /\ Matches(Keys!AfterKey(heard, k))'
    <3>1. CASE Keys!FirstByte(b)
      <4>1. returned = heard.codes /\ heard.spelled = <<>>
        BY <2>4, <3>1 DEF Keys!FirstByte, Keys!ReadByte, Matches
      <4> QED
        BY <2>2, <2>4, <3>1, <4>1, LoneFirst
    <3>2. CASE Keys!SecondByte(b)
      <4>1. returned = heard.codes /\ heard.spelled = <<ESC>>
        BY <2>4, <3>2 DEF Keys!SecondByte, Keys!ReadByte, Matches
      <4> QED
        BY <2>2, <2>4, <3>2, <4>1, LoneSecond
    <3>3. CASE Keys!Ss3Byte(b)
      <4>1. returned = heard.codes /\ heard.spelled = <<ESC, "O">>
        BY <2>4, <3>3 DEF Keys!Ss3Byte, Keys!ReadByte, Matches
      <4> QED
        BY <2>2, <2>4, <3>3, <4>1, LoneThird
    <3>4. CASE Keys!CsiByte(b)
      <4>1. /\ returned = heard.codes /\ IsSeq(seq)
            /\ heard.spelled = <<ESC, "[">> \o seq
        BY <2>4, <3>4 DEF Keys!CsiByte, Keys!ReadByte, Matches
      <4> QED
        BY <2>2, <2>4, <3>4, <4>1, LoneCsi
    <3>5. ~Keys!Utf8Byte(b)
      BY <2>4 DEF Keys!Utf8Byte, Keys!ReadByte, Matches
    <3> QED
      BY <3>1, <3>2, <3>3, <3>4, <3>5
  <2> QED
    BY <2>3, <2>5
<1> QED
  BY <1>1, <1>2 DEF LoneInv

LEMMA LonePress ==
  ASSUME KeysInv, LoneInv, NEW k, Keys!Press(k) PROVE LoneInv'
<1>1. /\ unread = <<>> /\ pressed' = Append(pressed, k)
      /\ unread' = Keys!BytesOf[k] /\ UNCHANGED <<pc, returned>>
  BY DEF Keys!Press
<1>2. IsSeq(pressed)
  BY DEF KeysInv, IsSeq
<1>3. ASSUME Keys!Range(pressed') \subseteq Keys!SingleByte PROVE LastUnread'
  <2>1. k \in Keys!SingleByte /\ Keys!Range(pressed) \subseteq Keys!SingleByte
    <3>1. PICK S : pressed \in Seq(S)
      BY <1>2 DEF IsSeq
    <3>2. /\ Len(pressed) + 1 \in DOMAIN pressed'
          /\ pressed'[Len(pressed) + 1] = k
          /\ \A i \in DOMAIN pressed :
               i \in DOMAIN pressed' /\ pressed'[i] = pressed[i]
      BY <1>1, <3>1
    <3> QED
      BY <1>3, <3>2 DEF Keys!Range
  <2>2. \A s \in Keys!SingleByte : Keys!BytesOf[s] # <<>>
    BY LoneBytes
  <2>3. Matches(Keys!Heard(pressed))
    <3>1. ~LastUnread
      BY <1>1, <2>2 DEF LastUnread
    <3> QED
      BY <2>1, <3>1 DEF LoneInv
  <2> QED
    BY <1>1, <1>2, <2>1, <2>3 DEF LastUnread, Matches, Keys!Press
<1> QED
  BY <1>3 DEF LoneInv

LEMMA NextLoneInv ==
  ASSUME KeysInv, LoneInv, Keys!Next \/ UNCHANGED keysVars PROVE LoneInv'
<1>1. CASE UNCHANGED keysVars
  BY <1>1 DEF keysVars, LoneInv, LastUnread, Matches
<1> QED
  BY <1>1, LonePress, LoneRead DEF Keys!Next, Keys!Getch

LEMMA InitLoneInv == ASSUME Keys!Init PROVE LoneInv
  BY HeardEmpty DEF Keys!Init, LoneInv, Matches

LEMMA LoneInvHolds == LoneInv => EscapeCostsItsSequence
<1>1. ASSUME LastUnread PROVE unread # <<>>
  <2>1. PICK k \in Keys!SingleByte : unread = Keys!BytesOf[k]
    BY <1>1 DEF LastUnread
  <2>2. PICK b : unread = <<b>>
    BY <2>1, LoneBytes
  <2> QED
    BY <2>2
<1>2. IsSeq(seq) => <<ESC>> # <<>> /\ <<ESC, "O">> # <<>> /\ <<ESC, "[">> \o seq # <<>>
  BY Spelling
<1> QED
  BY <1>1, <1>2 DEF LoneInv, EscapeCostsItsSequence,
                    Keys!EscapeCostsItsSequence, Matches

-----------------------------------------------------------------------------
(* What a relative name means: names kept, counted against later ".." ones.  *)

Balance(parts, m, i) == Names(parts, m + 1, i) - Ups(parts, m + 1, i)
Weight(p) == IF Ordinary(p) THEN 1 ELSE IF p = ".." THEN -1 ELSE 0

\* The elements of a set in an interval, and in one that is longer by one.
Tally(T, a, b) == Cardinality({k \in a .. b : k \in T})

LEMMA TallyStep ==
  ASSUME NEW T, NEW a \in Int, NEW b \in Int, a <= b + 1
  PROVE  /\ Tally(T, a, b) \in Nat /\ (b < a => Tally(T, a, b) = 0)
         /\ Tally(T, a, b + 1)
              = Tally(T, a, b) + (IF b + 1 \in T THEN 1 ELSE 0)
<1> DEFINE now == {k \in a .. b : k \in T}
           then == {k \in a .. b + 1 : k \in T}
<1>1. IsFiniteSet(now) /\ Cardinality(now) \in Nat
  <2>1. IsFiniteSet(a .. b) /\ now \in SUBSET (a .. b)
    BY FS_Interval
  <2> HIDE DEF now
  <2>2. IsFiniteSet(now)
    BY <2>1, FS_Subset
  <2> QED
    BY <2>2, FS_CardinalityType
<1>2. b < a => now = {}
  OBVIOUS
<1>3. then = IF b + 1 \in T THEN now \cup {b + 1} ELSE now
  OBVIOUS
<1>4. b + 1 \notin now
  OBVIOUS
<1> HIDE DEF now, then
<1>5. Cardinality(now \cup {b + 1}) = Cardinality(now) + 1
  BY <1>1, <1>4, FS_AddElement
<1> QED
  BY <1>1, <1>2, <1>3, <1>5, FS_EmptySet DEF Tally, now, then

LEMMA BalanceStep ==
  ASSUME NEW parts, NEW m \in Nat, NEW i \in Nat, m <= i
  PROVE  /\ Balance(parts, m, i) \in Int /\ Balance(parts, m, m) = 0
         /\ Balance(parts, m, i + 1)
              = Balance(parts, m, i) + Weight(parts[i + 1])
<1> DEFINE names == {k \in Int : Ordinary(parts[k])}
           ups == {k \in Int : parts[k] = ".."}
<1>1. ASSUME NEW a \in Int, NEW b \in Int
      PROVE  /\ Names(parts, a, b) = Tally(names, a, b)
             /\ Ups(parts, a, b) = Tally(ups, a, b)
  <2>1. /\ {k \in a .. b : Ordinary(parts[k])} = {k \in a .. b : k \in names}
        /\ {k \in a .. b : parts[k] = ".."} = {k \in a .. b : k \in ups}
    OBVIOUS
  <2> QED
    BY <2>1 DEF Names, Ups, Tally
<1>2. /\ i + 1 \in names <=> Ordinary(parts[i + 1])
      /\ i + 1 \in ups <=> parts[i + 1] = ".."
  OBVIOUS
<1>3. ~(Ordinary(parts[i + 1]) /\ parts[i + 1] = "..")
  BY DEF Ordinary
<1> HIDE DEF names, ups
<1>4. /\ m + 1 \in Int /\ i \in Int /\ m + 1 <= i + 1 /\ m < m + 1
      /\ m \in Int /\ m + 1 <= m + 1
  OBVIOUS
<1>5. ASSUME NEW T
      PROVE  /\ Tally(T, m + 1, i) \in Nat /\ Tally(T, m + 1, m) = 0
             /\ Tally(T, m + 1, i + 1)
                  = Tally(T, m + 1, i) + (IF i + 1 \in T THEN 1 ELSE 0)
  BY ONLY <1>4, TallyStep
<1>6. /\ Names(parts, m + 1, i) = Tally(names, m + 1, i)
      /\ Names(parts, m + 1, i + 1) = Tally(names, m + 1, i + 1)
      /\ Names(parts, m + 1, m) = Tally(names, m + 1, m)
      /\ Ups(parts, m + 1, i) = Tally(ups, m + 1, i)
      /\ Ups(parts, m + 1, i + 1) = Tally(ups, m + 1, i + 1)
      /\ Ups(parts, m + 1, m) = Tally(ups, m + 1, m)
  BY <1>1
<1>7. /\ Tally(names, m + 1, i) \in Nat /\ Tally(names, m + 1, m) = 0
      /\ Tally(names, m + 1, i + 1)
           = Tally(names, m + 1, i) + (IF i + 1 \in names THEN 1 ELSE 0)
      /\ Tally(ups, m + 1, i) \in Nat /\ Tally(ups, m + 1, m) = 0
      /\ Tally(ups, m + 1, i + 1)
           = Tally(ups, m + 1, i) + (IF i + 1 \in ups THEN 1 ELSE 0)
  BY <1>5
<1> QED
  BY <1>2, <1>3, <1>6, <1>7 DEF Balance, Weight

-----------------------------------------------------------------------------
(* The components kept of the first i, by their places: those that no later  *)
(* ".." takes back.                                                          *)

StaysTo(parts, m, i) ==
  Ordinary(parts[m]) /\ \A j \in m + 1 .. i : Balance(parts, m, j) >= 0

Kept(parts, i, places) ==
  /\ places \in Seq(Nat)
  /\ \A k \in 1 .. Len(places) :
       places[k] \in 1 .. i /\ Balance(parts, places[k], i) = Len(places) - k
  /\ \A k, l \in 1 .. Len(places) : k < l => places[k] < places[l]
  /\ \A m \in 1 .. i :
       StaysTo(parts, m, i) <=> \E k \in 1 .. Len(places) : places[k] = m

At(parts, places) == [k \in 1 .. Len(places) |-> parts[places[k]]]

LEMMA StaysOn ==
  ASSUME NEW parts, NEW i \in Nat, NEW m \in 1 .. i
  PROVE  StaysTo(parts, m, i + 1)
           <=> StaysTo(parts, m, i) /\ Balance(parts, m, i + 1) >= 0
<1>1. m + 1 .. i + 1 = (m + 1 .. i) \cup {i + 1}
  OBVIOUS
<1> QED
  BY <1>1 DEF StaysTo

LEMMA NameKept ==
  ASSUME NEW parts, NEW i \in Nat, NEW places, Kept(parts, i, places),
         Ordinary(parts[i + 1])
  PROVE  LET more == Append(places, i + 1) IN
         /\ Kept(parts, i + 1, more)
         /\ At(parts, more) = Append(At(parts, places), parts[i + 1])
<1> DEFINE n == Len(places)
           more == Append(places, i + 1)
<1>1. /\ places \in Seq(Nat) /\ n \in Nat /\ more \in Seq(Nat)
      /\ Len(more) = n + 1 /\ more[n + 1] = i + 1
      /\ \A k \in 1 .. n : more[k] = places[k]
  <2>1. places \in Seq(Nat) /\ i + 1 \in Nat
    BY DEF Kept
  <2> QED
    BY <2>1, AppendProperties, LenProperties
<1>2. \A k \in 1 .. n : /\ places[k] \in 1 .. i
                        /\ Balance(parts, places[k], i) = n - k
  BY DEF Kept
<1>3. \A k, l \in 1 .. n : k < l => places[k] < places[l]
  BY DEF Kept
<1>4. \A m \in 1 .. i : StaysTo(parts, m, i) <=> \E k \in 1 .. n : places[k] = m
  BY DEF Kept
<1>5. Weight(parts[i + 1]) = 1
  BY DEF Weight
<1> HIDE DEF n, more
<1>6. ASSUME NEW k \in 1 .. n
      PROVE  Balance(parts, places[k], i + 1) = n + 1 - k
  <2>1. places[k] \in Nat /\ places[k] <= i
    BY <1>2
  <2>2. Balance(parts, places[k], i + 1)
          = Balance(parts, places[k], i) + Weight(parts[i + 1])
    BY <2>1, BalanceStep
  <2> QED
    BY <1>1, <1>2, <1>5, <2>2
<1>7. Balance(parts, i + 1, i + 1) = 0
  BY BalanceStep
<1>8. \A k \in 1 .. n + 1 : k = n + 1 \/ k \in 1 .. n
  BY <1>1
<1>9. ASSUME NEW k \in 1 .. n + 1
      PROVE  /\ more[k] \in 1 .. i + 1
             /\ Balance(parts, more[k], i + 1) = n + 1 - k
  <2>1. CASE k \in 1 .. n
    <3>1. more[k] = places[k] /\ places[k] \in 1 .. i
      BY <1>1, <1>2, <2>1
    <3>2. Balance(parts, places[k], i + 1) = n + 1 - k
      BY <1>6, <2>1
    <3> QED
      BY <3>1, <3>2
  <2>2. CASE k = n + 1
    <3>1. more[k] = i + 1 /\ n + 1 - k = 0
      BY ONLY <1>1, <2>2
    <3>2. i + 1 \in 1 .. i + 1
      OBVIOUS
    <3> QED
      BY ONLY <1>7, <3>1, <3>2
  <2> QED
    BY <1>8, <2>1, <2>2
<1>10. ASSUME NEW k \in 1 .. n + 1, NEW l \in 1 .. n + 1, k < l
       PROVE  more[k] < more[l]
  <2>1. k \in 1 .. n
    BY ONLY <1>1, <1>10, k \in 1 .. n + 1, l \in 1 .. n + 1
  <2>2. CASE l \in 1 .. n
    BY <1>1, <1>3, <1>10, <2>1, <2>2
  <2>3. CASE l = n + 1
    <3>1. more[k] = places[k] /\ places[k] \in 1 .. i /\ more[l] = i + 1
      BY <1>1, <1>2, <2>1, <2>3
    <3> QED
      BY ONLY <3>1, i \in Nat
  <2> QED
    BY <1>8, <2>2, <2>3
<1>11. ASSUME NEW m \in 1 .. i + 1
       PROVE  StaysTo(parts, m, i + 1) <=> \E k \in 1 .. n + 1 : more[k] = m
  <2>1. CASE m = i + 1
    <3>1. StaysTo(parts, i + 1, i + 1)
      BY DEF StaysTo
    <3>2. n + 1 \in 1 .. n + 1
      BY <1>1
    <3> QED
      BY <1>1, <2>1, <3>1, <3>2
  <2>2. CASE m # i + 1
    <3>1. m \in 1 .. i
      BY <2>2
    <3>2. (\E k \in 1 .. n + 1 : more[k] = m)
            <=> \E k \in 1 .. n : places[k] = m
      <4>1. \A k \in 1 .. n + 1 :
              more[k] = m => k \in 1 .. n /\ places[k] = m
        BY <1>1, <1>8, <2>2
      <4>2. \A k \in 1 .. n : k \in 1 .. n + 1 /\ more[k] = places[k]
        BY <1>1
      <4> QED
        BY ONLY <4>1, <4>2
    <3>3. ASSUME NEW k \in 1 .. n, places[k] = m
          PROVE  Balance(parts, m, i + 1) >= 0
      BY <1>1, <1>6, <3>3
    <3> QED
      BY <1>4, <3>1, <3>2, <3>3, StaysOn
  <2> QED
    BY <2>1, <2>2
<1>12. Kept(parts, i + 1, more)
  BY <1>1, <1>9, <1>10, <1>11 DEF Kept
<1>13. At(parts, more) = Append(At(parts, places), parts[i + 1])
  <2> DEFINE at == At(parts, places)
             S == {parts[k] : k \in Nat}
  <2>1. /\ at \in Seq(S) /\ Len(at) = n
        /\ \A k \in 1 .. n : at[k] = parts[places[k]]
    BY <1>1, <1>2 DEF At, n
  <2>2. parts[i + 1] \in S
    <3>1. i + 1 \in Nat
      OBVIOUS
    <3> QED
      BY ONLY <3>1
  <2> HIDE DEF at, S
  <2>3. /\ Append(at, parts[i + 1]) \in Seq(S)
        /\ Len(Append(at, parts[i + 1])) = n + 1
        /\ Append(at, parts[i + 1])[n + 1] = parts[i + 1]
        /\ \A k \in 1 .. n : Append(at, parts[i + 1])[k] = at[k]
    BY <2>1, <2>2, AppendProperties
  <2>4. Append(at, parts[i + 1])
          = [k \in 1 .. n + 1 |-> Append(at, parts[i + 1])[k]]
    BY <2>3
  <2>5. \A k \in 1 .. n + 1 : Append(at, parts[i + 1])[k] = parts[more[k]]
    BY <1>1, <1>8, <2>1, <2>3
  <2> QED
    BY <1>1, <2>4, <2>5 DEF At, at
<1> QED
  BY <1>12, <1>13 DEF more

LEMMA NothingKept ==
  ASSUME NEW parts, NEW i \in Nat, NEW places, Kept(parts, i, places),
         parts[i + 1] \in {".", ""}
  PROVE  Kept(parts, i + 1, places)
<1> DEFINE n == Len(places)
<1>1. ~Ordinary(parts[i + 1]) /\ Weight(parts[i + 1]) = 0
  BY DEF Ordinary, Weight
<1>2. ASSUME NEW m \in 1 .. i
      PROVE  Balance(parts, m, i + 1) = Balance(parts, m, i)
  <2>1. m \in Nat /\ m <= i
    BY ONLY i \in Nat, m \in 1 .. i
  <2>2. /\ Balance(parts, m, i) \in Int
        /\ Balance(parts, m, i + 1)
             = Balance(parts, m, i) + Weight(parts[i + 1])
    BY <2>1, BalanceStep
  <2> QED
    BY ONLY <1>1, <2>2
<1>3. /\ places \in Seq(Nat) /\ n \in Nat
      /\ \A k \in 1 .. n : /\ places[k] \in 1 .. i
                           /\ Balance(parts, places[k], i) = n - k
      /\ \A k, l \in 1 .. n : k < l => places[k] < places[l]
      /\ \A m \in 1 .. i :
           StaysTo(parts, m, i) <=> \E k \in 1 .. n : places[k] = m
  BY LenProperties DEF Kept
<1> HIDE DEF n
<1>4. ASSUME NEW k \in 1 .. n
      PROVE  /\ places[k] \in 1 .. i /\ places[k] \in 1 .. i + 1
             /\ Balance(parts, places[k], i + 1) = n - k
  <2>1. places[k] \in 1 .. i /\ Balance(parts, places[k], i) = n - k
    BY <1>3
  <2>2. places[k] \in 1 .. i + 1
    BY ONLY <2>1, i \in Nat
  <2> QED
    BY <1>2, <2>1, <2>2
<1>5. ASSUME NEW m \in 1 .. i + 1
      PROVE  StaysTo(parts, m, i + 1) <=> \E k \in 1 .. n : places[k] = m
  <2>1. CASE m = i + 1
    <3>1. ASSUME NEW k \in 1 .. n PROVE places[k] # i + 1
      <4>1. places[k] \in 1 .. i
        BY <1>4
      <4> QED
        BY ONLY <4>1, i \in Nat
    <3>2. ~StaysTo(parts, m, i + 1)
      BY <1>1, <2>1 DEF StaysTo
    <3> QED
      BY <2>1, <3>1, <3>2
  <2>2. CASE m # i + 1
    <3>1. m \in 1 .. i
      BY ONLY <2>2, i \in Nat, m \in 1 .. i + 1
    <3>2. StaysTo(parts, m, i) <=> \E k \in 1 .. n : places[k] = m
      BY <1>3, <3>1
    <3>3. ASSUME NEW k \in 1 .. n, places[k] = m
          PROVE  Balance(parts, m, i + 1) >= 0
      <4>1. Balance(parts, m, i + 1) = n - k
        BY <1>4, <3>3
      <4> QED
        BY ONLY <1>3, <4>1, k \in 1 .. n
    <3>4. StaysTo(parts, m, i + 1)
            <=> StaysTo(parts, m, i) /\ Balance(parts, m, i + 1) >= 0
      BY <3>1, StaysOn
    <3> QED
      BY ONLY <3>2, <3>3, <3>4
  <2> QED
    BY <2>1, <2>2
<1> QED
  BY <1>3, <1>4, <1>5 DEF Kept, n

LEMMA OneTakenBack ==
  ASSUME NEW parts, NEW i \in Nat, NEW places, Kept(parts, i, places),
         parts[i + 1] = ".."
  PROVE  /\ places = <<>> => Kept(parts, i + 1, places)
         /\ places # <<>> =>
              /\ Kept(parts, i + 1, Front(places))
              /\ At(parts, Front(places)) = Front(At(parts, places))
              /\ At(parts, places) # <<>>
<1> DEFINE n == Len(places)
           fewer == IF places = <<>> THEN places ELSE Front(places)
           left == IF n = 0 THEN 0 ELSE n - 1
<1>1. ~Ordinary(parts[i + 1]) /\ Weight(parts[i + 1]) = -1
  BY DEF Ordinary, Weight
<1>2. places \in Seq(Nat) /\ n \in Nat /\ (places = <<>> <=> n = 0)
  BY EmptySeq, LenProperties DEF Kept
<1>3. ASSUME NEW m \in 1 .. i
      PROVE  /\ Balance(parts, m, i) \in Int
             /\ Balance(parts, m, i + 1) = Balance(parts, m, i) - 1
  <2>1. m \in Nat /\ m <= i
    OBVIOUS
  <2>2. /\ Balance(parts, m, i) \in Int
        /\ Balance(parts, m, i + 1)
             = Balance(parts, m, i) + Weight(parts[i + 1])
    BY <2>1, BalanceStep
  <2> QED
    BY <1>1, <2>2
<1>4. /\ fewer \in Seq(Nat) /\ Len(fewer) = left
      /\ \A k \in 1 .. left : fewer[k] = places[k]
  <2>1. CASE places = <<>>
    BY <1>2, <2>1
  <2>2. CASE places # <<>>
    <3>1. fewer = SubSeq(places, 1, n - 1) /\ left = n - 1 /\ n - 1 \in Nat
      BY <1>2, <2>2 DEF Front
    <3> HIDE DEF fewer, left, n
    <3>2. /\ SubSeq(places, 1, n - 1) \in Seq(Nat)
          /\ Len(SubSeq(places, 1, n - 1)) = n - 1
          /\ \A k \in 1 .. n - 1 : SubSeq(places, 1, n - 1)[k] = places[k]
      BY <1>2, <3>1 DEF n
    <3> QED
      BY <3>1, <3>2
  <2> QED
    BY <2>1, <2>2
<1>5. /\ left \in Nat /\ left <= n
      /\ n # 0 => left = n - 1
      /\ n = 0 => left = 0
      /\ \A k \in 1 .. n : k \in 1 .. left \/ (k = n /\ left = n - 1)
      /\ \A k \in 1 .. left : k \in 1 .. n /\ k < n
  BY <1>2
<1>6. \A k \in 1 .. n : /\ places[k] \in 1 .. i
                        /\ Balance(parts, places[k], i) = n - k
  BY DEF Kept
<1>7. \A k, l \in 1 .. n : k < l => places[k] < places[l]
  BY DEF Kept
<1>8. \A m \in 1 .. i : StaysTo(parts, m, i) <=> \E k \in 1 .. n : places[k] = m
  BY DEF Kept
<1> HIDE DEF n, fewer, left
<1>9. \A k \in 1 .. n : Balance(parts, places[k], i + 1) = n - k - 1
  BY <1>3, <1>6
<1>10. ASSUME NEW k \in 1 .. left
       PROVE  /\ fewer[k] \in 1 .. i /\ fewer[k] \in 1 .. i + 1
              /\ Balance(parts, fewer[k], i + 1) = left - k
  <2>1. k \in 1 .. n /\ fewer[k] = places[k] /\ left = n - 1
    BY <1>2, <1>4, <1>5
  <2> QED
    BY <1>2, <1>6, <1>9, <2>1
<1>11. \A k, l \in 1 .. left : k < l => fewer[k] < fewer[l]
  BY <1>4, <1>5, <1>7
<1>12. ASSUME NEW m \in 1 .. i + 1
       PROVE  StaysTo(parts, m, i + 1) <=> \E k \in 1 .. left : fewer[k] = m
  <2>1. CASE m = i + 1
    BY <1>1, <1>10, <2>1 DEF StaysTo
  <2>2. CASE m # i + 1
    <3>1. m \in 1 .. i
      BY <2>2
    <3>2. ASSUME StaysTo(parts, m, i + 1)
          PROVE  \E k \in 1 .. left : fewer[k] = m
      <4>1. StaysTo(parts, m, i) /\ Balance(parts, m, i + 1) >= 0
        BY <3>1, <3>2, StaysOn
      <4>2. PICK k \in 1 .. n : places[k] = m
        BY <1>8, <3>1, <4>1
      <4>3. n - k - 1 >= 0
        BY <1>9, <4>1, <4>2
      <4>4. k \in 1 .. left
        BY <1>2, <1>5, <4>3
      <4> QED
        BY <1>4, <4>2, <4>4
    <3>3. ASSUME NEW k \in 1 .. left, fewer[k] = m
          PROVE  StaysTo(parts, m, i + 1)
      <4>1. k \in 1 .. n /\ places[k] = m
        BY <1>4, <1>5, <3>3
      <4>2. Balance(parts, m, i + 1) >= 0
        BY <1>5, <1>10, <3>3
      <4> QED
        BY <1>8, <3>1, <4>1, <4>2, StaysOn
    <3> QED
      BY <3>2, <3>3
  <2> QED
    BY <2>1, <2>2
<1>13. Kept(parts, i + 1, fewer)
  BY <1>4, <1>10, <1>11, <1>12 DEF Kept
<1>14. ASSUME places # <<>>
       PROVE  /\ At(parts, Front(places)) = Front(At(parts, places))
              /\ At(parts, places) # <<>>
  <2> DEFINE at == At(parts, places)
             S == {parts[k] : k \in Nat}
  <2>1. /\ at \in Seq(S) /\ Len(at) = n
        /\ \A k \in 1 .. n : at[k] = parts[places[k]]
    BY <1>2, <1>6 DEF At, n
  <2> HIDE DEF at, S
  <2>2. n - 1 \in Nat /\ left = n - 1 /\ n # 0
    BY <1>2, <1>5, <1>14
  <2>3. /\ SubSeq(at, 1, n - 1) \in Seq(S) /\ Len(SubSeq(at, 1, n - 1)) = n - 1
        /\ \A k \in 1 .. n - 1 : SubSeq(at, 1, n - 1)[k] = at[k]
    BY <2>1, <2>2
  <2>4. Front(at) = [k \in 1 .. n - 1 |-> SubSeq(at, 1, n - 1)[k]]
    BY <2>1, <2>3 DEF Front
  <2>5. ASSUME NEW k \in 1 .. n - 1
        PROVE  SubSeq(at, 1, n - 1)[k] = parts[fewer[k]]
    <3>1. k \in 1 .. n /\ k \in 1 .. left
      BY ONLY <1>2, <2>2, k \in 1 .. n - 1
    <3>2. at[k] = parts[places[k]] /\ fewer[k] = places[k]
      BY <1>4, <2>1, <3>1
    <3> QED
      BY <2>3, <3>2
  <2>6. Front(at) = At(parts, fewer)
    BY <1>4, <2>2, <2>4, <2>5 DEF At
  <2>7. at # <<>>
    BY <2>1, <2>2
  <2> QED
    BY <1>14, <2>6, <2>7 DEF at, fewer
<1> QED
  BY <1>13, <1>14 DEF fewer

-----------------------------------------------------------------------------
(* Resolving a name component by component keeps exactly what stays.         *)

LEMMA ComponentKeeps ==
  ASSUME NEW parts, NEW i \in Nat, NEW places, Kept(parts, i, places)
  PROVE  \E more : /\ Kept(parts, i + 1, more)
                   /\ Component(At(parts, places), parts[i + 1])
                        = At(parts, more)
<1>1. CASE parts[i + 1] = ".."
  <2>1. CASE places = <<>>
    <3>1. Kept(parts, i + 1, places)
      BY <1>1, <2>1, OneTakenBack
    <3>2. At(parts, places) = <<>>
      BY <2>1 DEF At
    <3>3. Component(<<>>, "..") = <<>>
      BY DEF Component
    <3> QED
      BY <1>1, <3>1, <3>2, <3>3
  <2>2. CASE places # <<>>
    <3>1. /\ Kept(parts, i + 1, Front(places))
          /\ At(parts, Front(places)) = Front(At(parts, places))
          /\ At(parts, places) # <<>>
      BY <1>1, <2>2, OneTakenBack
    <3> DEFINE at == At(parts, places)
    <3> HIDE DEF at
    <3>2. at # <<>> => Component(at, "..") = Front(at)
      BY DEF Component
    <3> QED
      BY <1>1, <3>1, <3>2 DEF at
  <2> QED
    BY <2>1, <2>2
<1>2. CASE parts[i + 1] \in {".", ""}
  <2>1. Kept(parts, i + 1, places)
    BY <1>2, NothingKept
  <2>2. Component(At(parts, places), parts[i + 1]) = At(parts, places)
    BY <1>2 DEF Component
  <2> QED
    BY <2>1, <2>2
<1>3. CASE Ordinary(parts[i + 1])
  <2>1. /\ Kept(parts, i + 1, Append(places, i + 1))
        /\ At(parts, Append(places, i + 1))
             = Append(At(parts, places), parts[i + 1])
    BY <1>3, NameKept
  <2>2. Component(At(parts, places), parts[i + 1])
          = Append(At(parts, places), parts[i + 1])
    BY <1>3 DEF Component, Ordinary
  <2> QED
    BY <2>1, <2>2
<1> QED
  BY <1>1, <1>2, <1>3 DEF Ordinary

\* One function is defined by where it begins and how it goes on.
Follows(g, base, step, n) ==
  g[0] = base /\ \A i \in 1 .. n : g[i] = step[<<g[i - 1], i>>]

LEMMA Recursion ==
  ASSUME NEW S, NEW base \in S, NEW n \in Nat, NEW step \in [S \X (1 .. n) -> S]
  PROVE  \E g \in [0 .. n -> S] : Follows(g, base, step, n)
<1> DEFINE T == {k \in 0 .. n :
                   ~ \E g \in [0 .. k -> S] : Follows(g, base, step, k)}
<1> SUFFICES ASSUME T # {} PROVE FALSE
  OBVIOUS
<1>1. T \in SUBSET Nat
  OBVIOUS
<1>2. PICK k \in T : \A i \in T : k <= i
  BY <1>1, LeastNumber
<1>3. k # 0
  <2> DEFINE g == [i \in 0 .. 0 |-> base]
  <2>1. g \in [0 .. 0 -> S] /\ Follows(g, base, step, 0)
    BY DEF Follows
  <2> QED
    BY <1>2, <2>1
<1>4. k \in 1 .. n /\ k - 1 \in 0 .. n /\ k - 1 \notin T
  BY <1>2, <1>3
<1>5. PICK h \in [0 .. k - 1 -> S] : Follows(h, base, step, k - 1)
  BY <1>4
<1> DEFINE g == [i \in 0 .. k |-> IF i = k THEN step[<<h[k - 1], k>>] ELSE h[i]]
<1>6. step[<<h[k - 1], k>>] \in S
  BY <1>4, <1>5
<1>7. g \in [0 .. k -> S]
  BY <1>4, <1>5, <1>6
<1>8. Follows(g, base, step, k)
  <2>1. g[0] = base
    BY <1>4, <1>5 DEF Follows
  <2>2. ASSUME NEW i \in 1 .. k PROVE g[i] = step[<<g[i - 1], i>>]
    <3>1. i - 1 \in 0 .. k /\ i - 1 # k /\ g[i - 1] = h[i - 1]
      BY <1>4
    <3>2. CASE i = k
      BY <3>1, <3>2
    <3>3. CASE i # k
      <4>1. i \in 1 .. k - 1 /\ g[i] = h[i]
        BY <1>4, <3>3
      <4> QED
        BY <1>5, <3>1, <4>1 DEF Follows
    <3> QED
      BY <3>2, <3>3
  <2> QED
    BY <2>1, <2>2 DEF Follows
<1> QED
  BY <1>2, <1>7, <1>8

Resolved(parts, f) ==
  f = [i \in 0 .. Len(parts) |->
         IF i = 0 THEN <<>> ELSE Component(f[i - 1], parts[i])]

LEMMA ComponentTyped ==
  ASSUME NEW S, NEW r \in Seq(S), NEW p \in S
  PROVE  Component(r, p) \in Seq(S)
<1>1. r # <<>> => Front(r) \in Seq(S)
  BY DEF Front
<1>2. Append(r, p) \in Seq(S) /\ <<>> \in Seq(S)
  BY AppendProperties, EmptySeq
<1> QED
  BY <1>1, <1>2 DEF Component

LEMMA ResolvedExists ==
  ASSUME NEW S, NEW parts \in Seq(S)
  PROVE  \E f : Resolved(parts, f)
<1> DEFINE n == Len(parts)
           States == Seq(S)
           step == [rest \in States \X (1 .. n) |->
                      Component(rest[1], parts[rest[2]])]
<1>1. n \in Nat /\ <<>> \in States
  OBVIOUS
<1>2. step \in [States \X (1 .. n) -> States]
  <2>1. ASSUME NEW rest \in States \X (1 .. n)
        PROVE  Component(rest[1], parts[rest[2]]) \in States
    <3>1. rest[1] \in States /\ rest[2] \in 1 .. n
      OBVIOUS
    <3>2. parts[rest[2]] \in S
      BY <3>1
    <3> QED
      BY <3>1, <3>2, ComponentTyped
  <2> QED
    BY <2>1
<1> HIDE DEF States, step, n
<1>3. PICK g \in [0 .. n -> States] : Follows(g, <<>>, step, n)
  BY <1>1, <1>2, Recursion
<1>4. ASSUME NEW i \in 0 .. n
      PROVE  g[i] = IF i = 0 THEN <<>> ELSE Component(g[i - 1], parts[i])
  <2>1. CASE i = 0
    BY <1>3, <2>1 DEF Follows
  <2>2. CASE i # 0
    <3>1. i \in 1 .. n /\ i - 1 \in 0 .. n
      BY <1>1, <2>2
    <3>2. g[i] = step[<<g[i - 1], i>>] /\ g[i - 1] \in States
      BY <1>3, <3>1 DEF Follows
    <3>3. step[<<g[i - 1], i>>] = Component(g[i - 1], parts[i])
      BY <3>1, <3>2 DEF step
    <3> QED
      BY <2>2, <3>2, <3>3
  <2> QED
    BY <2>1, <2>2
<1>5. g = [i \in 0 .. n |-> g[i]]
  BY <1>3
<1> QED
  BY <1>4, <1>5 DEF Resolved, n

LEMMA ResolvedKeeps ==
  ASSUME NEW S, NEW parts \in Seq(S), NEW f, Resolved(parts, f)
  PROVE  \A i \in 0 .. Len(parts) :
           \E places : Kept(parts, i, places) /\ f[i] = At(parts, places)
<1> DEFINE n == Len(parts)
           Follow(i) ==
             \E places : Kept(parts, i, places) /\ f[i] = At(parts, places)
           T == {i \in 0 .. n : ~Follow(i)}
<1> SUFFICES ASSUME T # {} PROVE FALSE
  OBVIOUS
<1>1. n \in Nat
  OBVIOUS
<1>2. \A i \in 0 .. n :
        f[i] = IF i = 0 THEN <<>> ELSE Component(f[i - 1], parts[i])
  BY ONLY Resolved(parts, f) DEF Resolved, n
<1> HIDE DEF n
<1>3. PICK m \in T : \A k \in T : m <= k
  <2>1. T \in SUBSET Nat
    BY ONLY <1>1 DEF T
  <2> QED
    BY ONLY T # {}, <2>1, LeastNumber
<1>4. m # 0
  <2>1. Kept(parts, 0, <<>>)
    BY DEF Kept
  <2>2. At(parts, <<>>) = <<>>
    BY DEF At
  <2>3. f[0] = <<>>
    BY <1>1, <1>2
  <2>4. Follow(0)
    BY <2>1, <2>2, <2>3
  <2> QED
    BY ONLY <1>3, <2>4 DEF T
<1>5. m \in 0 .. n /\ m - 1 \in 0 .. n /\ m - 1 \in Nat /\ m - 1 \notin T
  BY ONLY <1>1, <1>3, <1>4 DEF T
<1>6. PICK places : Kept(parts, m - 1, places) /\ f[m - 1] = At(parts, places)
  BY ONLY <1>5 DEF T
<1>7. (m - 1) + 1 = m
  BY <1>5
<1>8. PICK more : /\ Kept(parts, m, more)
                  /\ Component(At(parts, places), parts[m]) = At(parts, more)
  BY ONLY <1>5, <1>6, <1>7, ComponentKeeps
<1>9. f[m] = Component(f[m - 1], parts[m])
  BY ONLY <1>2, <1>4, <1>5
<1>10. Follow(m)
  BY ONLY <1>6, <1>8, <1>9
<1> QED
  BY ONLY <1>3, <1>10 DEF T

LEMMA NormalizedKeeps ==
  ASSUME NEW S, NEW parts \in Seq(S)
  PROVE  \E places : /\ Kept(parts, Len(parts), places)
                     /\ Normalized(parts) = At(parts, places)
<1> DEFINE f == CHOOSE f : Resolved(parts, f)
<1>1. Resolved(parts, f)
  BY ResolvedExists
<1>2. Normalized(parts) = f[Len(parts)]
  BY DEF Normalized, Resolved
<1> HIDE DEF f
<1>3. Len(parts) \in 0 .. Len(parts)
  OBVIOUS
<1> QED
  BY ONLY <1>1, <1>2, <1>3, parts \in Seq(S), ResolvedKeeps

-----------------------------------------------------------------------------
(* The places kept, in their order, are the components that stay.            *)

LEMMA PlacesCounted ==
  ASSUME NEW set \in SUBSET Nat, NEW places \in Seq(Nat),
         \A m \in Nat : m \in set <=> \E k \in 1 .. Len(places) : places[k] = m,
         \A k, l \in 1 .. Len(places) : k < l => places[k] < places[l]
  PROVE  /\ Cardinality(set) = Len(places)
         /\ \A k \in 1 .. Len(places) : Place(set, k) = places[k]
<1> DEFINE n == Len(places)
           Below(k) == {j \in set : j <= places[k]}
<1>1. n \in Nat /\ \A k \in 1 .. n : places[k] \in set /\ places[k] \in Nat
  <2>1. n \in Nat /\ \A k \in 1 .. n : places[k] \in Nat
    OBVIOUS
  <2> QED
    BY <2>1
<1>2. \A m \in set : m \in Nat /\ \E k \in 1 .. n : places[k] = m
  OBVIOUS
<1>3. \A k, l \in 1 .. n : k < l => places[k] < places[l]
  OBVIOUS
<1> HIDE DEF n
<1>4. ASSUME NEW k \in 1 .. n, NEW l \in 1 .. n
      PROVE  /\ places[k] = places[l] <=> k = l
             /\ places[k] <= places[l] <=> k <= l
  <2>1. k < l \/ k = l \/ l < k
    BY ONLY <1>1, k \in 1 .. n, l \in 1 .. n
  <2>2. /\ k < l => places[k] < places[l]
        /\ l < k => places[l] < places[k]
    BY <1>3
  <2>3. places[k] \in Nat /\ places[l] \in Nat /\ k \in Int /\ l \in Int
    BY ONLY <1>1, k \in 1 .. n, l \in 1 .. n
  <2> QED
    BY ONLY <2>1, <2>2, <2>3
<1>5. ASSUME NEW b \in 0 .. n, NEW T,
             \A m : m \in T <=> \E k \in 1 .. b : places[k] = m
      PROVE  Cardinality(T) = b
  <2> DEFINE to == [k \in 1 .. b |-> places[k]]
             upto == 1 .. b
  <2>1. b \in Nat /\ \A k \in 1 .. b : k \in 1 .. n
    BY ONLY <1>1, b \in 0 .. n
  <2>2. to \in [upto -> T]
    BY <1>5
  <2>3. \A k, l \in upto : to[k] = to[l] => k = l
    BY <1>4, <2>1
  <2>4. \A m \in T : \E k \in upto : to[k] = m
    BY <1>5
  <2> HIDE DEF to, upto
  <2>5. ExistsBijection(upto, T)
    BY ONLY <2>2, <2>3, <2>4
       DEF ExistsBijection, Bijection, Injection, Surjection, IsInjective
  <2> QED
    BY <2>1, <2>5, FS_CountingElements DEF upto
<1>6. Cardinality(set) = n
  <2>1. \A m : m \in set <=> \E k \in 1 .. n : places[k] = m
    BY <1>1, <1>2
  <2>2. n \in 0 .. n
    BY <1>1
  <2> QED
    BY ONLY <1>5, <2>1, <2>2
<1>7. ASSUME NEW k \in 1 .. n PROVE Cardinality(Below(k)) = k
  <2>1. \A m : m \in Below(k) <=> \E j \in 1 .. k : places[j] = m
    <3>1. ASSUME NEW m, m \in Below(k) PROVE \E j \in 1 .. k : places[j] = m
      <4>1. PICK j \in 1 .. n : places[j] = m
        BY <1>2, <3>1
      <4>2. j <= k
        BY <1>4, <3>1, <4>1
      <4> QED
        BY <4>1, <4>2
    <3>2. ASSUME NEW j \in 1 .. k PROVE places[j] \in Below(k)
      <4>1. j \in 1 .. n /\ j <= k
        BY <1>1
      <4> QED
        BY <1>1, <1>4, <4>1
    <3> QED
      BY <3>1, <3>2
  <2>2. k \in 0 .. n
    BY <1>1
  <2> HIDE DEF Below
  <2> QED
    BY ONLY <1>5, <2>1, <2>2
<1>8. ASSUME NEW k \in 1 .. n PROVE Place(set, k) = places[k]
  <2>1. places[k] \in set /\ Cardinality({j \in set : j <= places[k]}) = k
    BY <1>1, <1>7
  <2>2. ASSUME NEW i \in set, Cardinality({j \in set : j <= i}) = k
        PROVE  i = places[k]
    <3>1. PICK l \in 1 .. n : places[l] = i
      BY <1>2
    <3>2. Cardinality({j \in set : j <= i}) = l
      BY <1>7, <3>1
    <3> QED
      BY <2>2, <3>1, <3>2
  <2> QED
    BY <2>1, <2>2 DEF Place
<1> QED
  BY <1>6, <1>8 DEF n

\* A component stays when no later ".." takes it back.
LEMMA StaysIs ==
  ASSUME NEW S, NEW parts \in Seq(S), NEW m \in DOMAIN parts
  PROVE  Stays(parts, m) <=> StaysTo(parts, m, Len(parts))
<1>1. m \in Nat /\ Len(parts) \in Nat
  OBVIOUS
<1>2. ASSUME NEW j \in m + 1 .. Len(parts)
      PROVE  /\ Names(parts, m + 1, j) \in Nat /\ Ups(parts, m + 1, j) \in Nat
  <2> DEFINE upto == m + 1 .. j
  <2>1. IsFiniteSet(upto)
    BY <1>1, FS_Interval
  <2> HIDE DEF upto
  <2>2. ASSUME NEW T \in SUBSET upto PROVE Cardinality(T) \in Nat
    BY <2>1, FS_Subset, FS_CardinalityType
  <2> QED
    BY <2>2 DEF Names, Ups, upto
<1>3. \A j \in m + 1 .. Len(parts) :
        Ups(parts, m + 1, j) <= Names(parts, m + 1, j)
          <=> Balance(parts, m, j) >= 0
  BY <1>2 DEF Balance
<1> QED
  BY <1>3 DEF Stays, StaysTo

LEMMA ResolveIsMeant ==
  ASSUME NEW caller, NEW name,
         IsSeq(caller.at), IsSeq(name.at)
  PROVE  Resolve(caller, name) = Meant(caller, name)
<1> DEFINE parts == Folders(caller, name)
           staying == {i \in DOMAIN parts : Stays(parts, i)}
           at == [k \in 1 .. Cardinality(staying) |-> parts[Place(staying, k)]]
<1>1. PICK S : parts \in Seq(S)
  <2>1. PICK A, B : caller.at \in Seq(A) /\ name.at \in Seq(B)
    BY DEF IsSeq
  <2> DEFINE S == A \cup B
  <2>2. caller.at \in Seq(S) /\ name.at \in Seq(S)
    BY <2>1
  <2> HIDE DEF S
  <2>3. Front(caller.at) \in Seq(S) /\ Front(name.at) \in Seq(S)
    BY <2>2 DEF Front
  <2> QED
    BY <2>3, ConcatProperties DEF Folders
<1>2. Meant(caller, name)
        = Path(<<"">> \o at \o <<Last(name.at)>>, AtLeastOne(name.rb))
  BY DEF Meant
<1>3. Resolve(caller, name)
        = Path(<<"">> \o Normalized(parts) \o <<Last(name.at)>>,
               AtLeastOne(name.rb))
  BY DEF Resolve
<1> HIDE DEF parts
<1>4. PICK places : /\ Kept(parts, Len(parts), places)
                    /\ Normalized(parts) = At(parts, places)
  BY <1>1, NormalizedKeeps
<1>5. /\ DOMAIN parts = 1 .. Len(parts) /\ staying \in SUBSET Nat
      /\ \A m \in staying : m \in 1 .. Len(parts)
  BY <1>1
<1>6. /\ places \in Seq(Nat)
      /\ \A k \in 1 .. Len(places) : places[k] \in 1 .. Len(parts)
  BY <1>4 DEF Kept
<1>7. \A m \in Nat : m \in staying <=> \E k \in 1 .. Len(places) : places[k] = m
  <2>1. \A m \in 1 .. Len(parts) :
          m \in staying <=> \E k \in 1 .. Len(places) : places[k] = m
    BY <1>1, <1>4, <1>5, StaysIs DEF Kept
  <2> QED
    BY <1>5, <1>6, <2>1
<1>8. \A k, l \in 1 .. Len(places) : k < l => places[k] < places[l]
  BY <1>4 DEF Kept
<1> HIDE DEF staying
<1>9. /\ Cardinality(staying) = Len(places)
      /\ \A k \in 1 .. Len(places) : Place(staying, k) = places[k]
  BY <1>5, <1>6, <1>7, <1>8, PlacesCounted
<1>10. at = At(parts, places)
  BY <1>9 DEF At
<1> QED
  BY <1>2, <1>3, <1>4, <1>10

\* What a step may do to the mark of the file a relative name means.
NeighbourMarked ==
  LET meant == Meant(Top.path, Current.name)
  IN  meant \in loaded' <=> meant \in loaded \/ Exists(meant)

LEMMA RelativeStep ==
  ASSUME ProgramsAssumption, VfsInv, Next, Executes("require_relative")
  PROVE  NeighbourMarked
<1>1. Busy /\ ~Finished /\ Current.op = "require_relative"
  BY DEF Executes
<1>2. RequireRelative
  <2>1. ~Raise /\ ~Require /\ ~Write /\ ~Delete
    BY <1>1 DEF Raise, Require, Write, Delete, Executes
  <2>2. ~Return /\ ~TypeExpression /\ ~Run
    BY <1>1 DEF Return, TypeExpression, Run
  <2> QED
    BY <2>1, <2>2 DEF Next, Step
<1>3. IsSeq(Top.path.at) /\ IsSeq(Current.name.at)
  <2>1. /\ Len(stack) \in Nat \ {0} /\ Top = stack[Len(stack)]
        /\ Current \in Statements
    BY TopIsWithin
  <2>2. Len(stack) \in 1 .. Len(stack)
    BY <2>1
  <2>3. IsSeq(Top.path.at)
    BY <2>1, <2>2 DEF VfsInv, FramesTyped, IsFrame
  <2> QED
    BY <1>1, <2>1, <2>3 DEF ProgramsAssumption, IsSequence, IsSeq
<1> DEFINE full == Resolve(Top.path, Current.name)
<1>4. Meant(Top.path, Current.name) = full
  BY <1>3, ResolveIsMeant
<1>5. \/ ~Fresh(full) /\ GoOn
      \/ Usable(full) /\ Evaluate(full)
      \/ Fresh(full) /\ ~Exists(full) /\ UNCHANGED loaded
  BY <1>2 DEF RequireRelative
<1> HIDE DEF full
<1>6. full \in loaded' <=> full \in loaded \/ Exists(full)
  BY <1>5 DEF Fresh, Usable, GoOn, Evaluate, Marked
<1> QED
  BY <1>4, <1>6 DEF NeighbourMarked

-----------------------------------------------------------------------------
(* MCRuby: whichever half runs, the other stays where it began.             *)

MCInv == RequireInv /\ VfsInv /\ KeysInv

LEMMA InitMCInv ==
  ASSUME ProgramsAssumption PROVE MCInit => MCInv
  BY InitRequireInv, InitVfsInv, InitKeysInv DEF MCInit, MCInv

LEMMA NextMCInv ==
  ASSUME ProgramsAssumption, Keys!PressedAssumption,
         MCInv, [MCNext]_<<half, vars, keysVars>>
  PROVE  MCInv' /\ [Next]_vars /\ OnlyOnce
<1>1. [Next]_vars /\ (Keys!Next \/ UNCHANGED keysVars)
  BY DEF MCNext
<1> QED
  BY <1>1, NextRequireInv, NextVfsInv, NextKeysInv DEF MCInv

LEMMA MCInvHolds == MCSpec => []MCInv
<1>1. MCInv /\ [MCNext]_<<half, vars, keysVars>> => MCInv'
  BY ProgramsAssumed, KeysAssumed, NextMCInv
<1>2. MCInit => MCInv
  BY ProgramsAssumed, InitMCInv
<1> QED
  BY <1>1, <1>2, PTL DEF MCSpec

\* However files require, rewrite, delete and run each other, evaluations nest
\* no deeper than there are marked files, every file in progress but the first
\* was marked before it began and goes on within its own statements, and getch
\* waits only where its sequence so far may end (init.rb:19-100,
\* mui_terminal_adapter_ruby_on_bare_metal.rb:90-251).
THEOREM NestingStaysBounded == MCSpec => []NestingBounded
<1>1. MCInv => NestingBounded
  BY VfsInvIsTypeOK, KeysInvHolds DEF MCInv, NestingBounded, RequireInv
<1> QED
  BY <1>1, MCInvHolds, PTL

\* Whatever keys are pressed, but for Escape alone, the codes getch has
\* returned are the first of the codes of these keys, and all of them when no
\* byte is left to read: no key is lost, split or joined to the next
\* (mui_terminal_adapter_ruby_on_bare_metal.rb:90-251).
THEOREM KeysComeInOrder == MCSpec => []KeysInOrder
<1>1. MCInv => KeysInOrder
  BY KeysInvHolds DEF MCInv
<1> QED
  BY <1>1, MCInvHolds, PTL

\* Whatever keys of one byte are pressed, a bare ESC costs the keys it makes a
\* sequence of and no other: the one after it; after O one more; after [ all up
\* to the first byte that ends a sequence, and what they spell is returned.
\* Every other key is returned once, in order, and a byte kept in @pending_byte
\* never shows up (mui_terminal_adapter_ruby_on_bare_metal.rb:126-228).
THEOREM EscapeCostsNoMore == MCSpec => []EscapeCostsItsSequence
<1>1. MCInv /\ LoneInv /\ [MCNext]_<<half, vars, keysVars>> => LoneInv'
  BY NextLoneInv DEF MCInv, MCNext
<1>2. MCInit => LoneInv
  BY InitLoneInv DEF MCInit
<1>3. LoneInv => EscapeCostsItsSequence
  BY LoneInvHolds
<1> QED
  BY <1>1, <1>2, <1>3, MCInvHolds, PTL DEF MCSpec

\* However deep files require each other, rewrite and delete meanwhile, and
\* whatever components "", "." and ".." a relative name has, the last included,
\* require_relative leaves the file it means, seen from the file that asks,
\* marked, unless that file is neither there nor loaded (init.rb:55-77).
THEOREM NeighbourIsFound == MCSpec => RelativeFindsNeighbour
<1> DEFINE Found == Executes("require_relative") => NeighbourMarked
<1>1. MCInv /\ [MCNext]_<<half, vars, keysVars>> => [Found]_vars
  <2> SUFFICES ASSUME MCInv, Next PROVE Found
    BY DEF MCNext
  <2> QED
    BY ProgramsAssumed, RelativeStep DEF MCInv
<1>2. [Found]_vars
        => [Executes("require_relative")
              => LET meant == Meant(Top.path, Current.name)
                 IN  meant \in loaded' <=> meant \in loaded \/ Exists(meant)]_vars
  BY DEF NeighbourMarked
<1> QED
  BY <1>1, <1>2, MCInvHolds, PTL DEF MCSpec, RelativeFindsNeighbour
=============================================================================
