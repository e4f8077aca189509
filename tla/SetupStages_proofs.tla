------------------------- MODULE SetupStages_proofs -------------------------
(***************************************************************************)
(* Proofs about SetupStages for any list of objects to remove and any      *)
(* number of faults; and about KernelBuild, for any number of edits and    *)
(* errors, in the specification that has both.                             *)
(***************************************************************************)
EXTENDS MCSetupStages, TLAPS

\* What the command that is next still has to go through.
Left == {todo[i] : i \in DOMAIN todo}

Patching == {"clone", "patch"}
Building == {"musl", "libc.a", "cp", "ar d", "host", "miniruby", "rbbin",
             "cross"}

\* How far a run has come: what each command may rely on, for the commands
\* before it or an earlier run saw to it.
TreesProgress ==
  /\ pc \in Patching => todo \in Seq(Trees)
  /\ pc = "clone" => \A t \in Trees \ Left : tree[t] # "absent"
  /\ pc = "patch" =>
       \A t \in Trees : tree[t] # "absent" /\ (t \in Left \/ tree[t] = "patched")
  /\ pc \in Building \union {"cp adapter"} =>
       \A t \in Trees : tree[t] = "patched"
  /\ pc \in Building => adapter

MuslProgress ==
  /\ pc = "ar d" => libc = "there" /\ (ignored \/ objects \subseteq Left)
  /\ pc \in {"host", "miniruby", "rbbin", "cross"} =>
       "musl" \in found \/ ignored \/ MuslDone

HostProgress ==
  /\ "rbbin" \in host => "miniruby" \in host
  /\ pc \in {"rbbin", "cross"} => "miniruby" \in host
  /\ pc = "cross" => "host" \in found \/ HostDone

RunInv ==
  /\ TypeOK /\ TreesProgress /\ MuslProgress /\ HostProgress
  /\ BuiltIsComplete /\ FailsForAReason

-----------------------------------------------------------------------------
(* The lists commands go through. *)

LEMMA OrderIsTrees ==
  /\ Order \in Seq(Trees)
  /\ Trees = {Order[i] : i \in DOMAIN Order}
  BY DEF Order, Trees

LEMMA RemovedIsObjects ==
  ASSUME SetupAssumption PROVE Removed \in Seq(Trees \union Objects)
<1>1. ASSUME NEW i \in DOMAIN Removed PROVE Removed[i] \in Trees \union Objects
  BY DEF Objects
<1>2. \E n \in Nat : DOMAIN Removed = 1 .. n
  BY DEF SetupAssumption
<1>3. Removed = [i \in DOMAIN Removed |-> Removed[i]]
  BY DEF SetupAssumption
<1> QED
  BY <1>1, <1>2, <1>3

\* A sequence holds its head and what its tail holds.
LEMMA HeadAndTail ==
  ASSUME NEW S, NEW s \in Seq(S), s # <<>>
  PROVE  /\ Head(s) \in S /\ Tail(s) \in Seq(S)
         /\ {s[i] : i \in DOMAIN s} =
              {Head(s)} \union {Tail(s)[i] : i \in DOMAIN Tail(s)}
<1>1. /\ Head(s) = s[1] /\ Head(s) \in S /\ Tail(s) \in Seq(S)
      /\ Len(s) \in Nat \ {0} /\ Len(Tail(s)) = Len(s) - 1
      /\ \A i \in 1 .. Len(s) - 1 : Tail(s)[i] = s[i + 1]
  OBVIOUS
<1>2. DOMAIN s = 1 .. Len(s) /\ DOMAIN Tail(s) = 1 .. Len(s) - 1
  BY <1>1
<1>3. ASSUME NEW i \in DOMAIN s
      PROVE  s[i] = Head(s) \/ \E j \in DOMAIN Tail(s) : s[i] = Tail(s)[j]
  <2>1. CASE i = 1
    BY <1>1, <2>1
  <2>2. CASE i # 1
    <3>1. i - 1 \in DOMAIN Tail(s) /\ Tail(s)[i - 1] = s[i]
      BY <1>1, <1>2, <2>2
    <3> QED
      BY <3>1
  <2> QED
    BY <2>1, <2>2
<1>4. ASSUME NEW j \in DOMAIN Tail(s)
      PROVE  \E i \in DOMAIN s : Tail(s)[j] = s[i]
  <2>1. j + 1 \in DOMAIN s /\ Tail(s)[j] = s[j + 1]
    BY <1>1, <1>2
  <2> QED
    BY <2>1
<1>5. \E i \in DOMAIN s : Head(s) = s[i]
  BY <1>1, <1>2
<1> QED
  BY <1>1, <1>3, <1>4, <1>5

LEMMA LeftShrinks ==
  ASSUME NEW S, todo \in Seq(S), todo # <<>>, todo' = Tail(todo)
  PROVE  /\ Head(todo) \in S /\ todo' \in Seq(S)
         /\ Left = {Head(todo)} \union Left'
  BY HeadAndTail DEF Left

LEMMA LeftIsNone == todo = <<>> => Left = {}
  BY DEF Left

LEMMA NoneIsLeft == \A S : <<>> \in Seq(S)
  OBVIOUS

-----------------------------------------------------------------------------
LEMMA InitRunInv == SetupAssumption /\ Init => RunInv
<1> SUFFICES ASSUME SetupAssumption, Init PROVE RunInv
  OBVIOUS
<1>1. TypeOK
  <2>1. todo \in Seq(Trees \union Objects)
    BY DEF Init
  <2>2. faults \in 0 .. MaxFaults
    BY DEF Init, SetupAssumption
  <2> QED
    BY <2>1, <2>2 DEF Init, TypeOK
<1>2. /\ TreesProgress /\ MuslProgress /\ HostProgress
      /\ BuiltIsComplete /\ FailsForAReason
  BY DEF Init, TreesProgress, MuslProgress, HostProgress, BuiltIsComplete,
     FailsForAReason, Patching, Building
<1> QED
  BY <1>1, <1>2 DEF RunInv

\* A run that has stopped, other than well, promises only what FailsForAReason
\* asks of it.
LEMMA StoppedRun ==
  ASSUME pc' = "idle", TypeOK', outcome' # "complete",
         "rbbin" \in host' => "miniruby" \in host',
         outcome' = "failed" /\ ~hit' =>
           (\E t \in Trees : Stuck(t)') \/ host' = {"miniruby"}
  PROVE  RunInv'
  BY DEF RunInv, TreesProgress, MuslProgress, HostProgress, BuiltIsComplete,
     FailsForAReason, Patching, Building

LEMMA FaultsCounted ==
  ASSUME SetupAssumption, TypeOK
  PROVE  /\ faults \in 0 .. MaxFaults
         /\ Fault => ~Fine
         /\ faults < MaxFaults /\ faults' = faults + 1 =>
              faults' \in 0 .. MaxFaults
<1>1. MaxFaults \in Nat
  BY DEF SetupAssumption
<1>2. faults \in 0 .. MaxFaults
  BY DEF TypeOK
<1>3. faults < MaxFaults => faults + 1 \in 0 .. MaxFaults /\ faults + 1 # faults
  BY <1>1, <1>2
<1> QED
  BY <1>2, <1>3 DEF Fault, Fine

LEMMA FaultRunInv ==
  ASSUME SetupAssumption, RunInv, Fault, Stops("failed") \/ Stops("killed"),
         tree' \in [Trees -> {"absent", "partial", "clean", "mixed", "patched"}],
         locked' \subseteq Trees,
         adapter' \in BOOLEAN, libc' \in {"absent", "short", "there"},
         objects' \subseteq Objects, UNCHANGED <<host, libruby>>
  PROVE  RunInv'
<1>1. /\ pc' = "idle" /\ todo' = <<>> /\ hit'
      /\ outcome' \in {"failed", "killed"}
  BY DEF Stops, Fault
<1>2. TypeOK'
  <2>1. faults' \in 0 .. MaxFaults
    BY FaultsCounted DEF RunInv, Fault
  <2> QED
    BY <1>1, <2>1, NoneIsLeft DEF RunInv, TypeOK, Fault
<1> QED
  BY <1>1, <1>2, StoppedRun DEF RunInv, HostProgress

LEMMA NextRunInv ==
  ASSUME SetupAssumption, RunInv, [Next]_vars PROVE RunInv'
<1> USE DEF RunInv
<1>1. CASE Start
  <2>1. TypeOK'
    <3>1. todo' \in Seq(Trees \union Objects)
      BY <1>1, OrderIsTrees DEF Start, Onto
    <3> QED
      BY <1>1, <3>1 DEF Start, Onto, TypeOK, made
  <2>2. Left' = Trees /\ todo' \in Seq(Trees)
    BY <1>1, OrderIsTrees DEF Start, Onto, Left
  <2> QED
    BY <1>1, <2>1, <2>2
    DEF Start, Onto, made, TreesProgress, MuslProgress, HostProgress,
        BuiltIsComplete, FailsForAReason, Patching, Building
<1>2. CASE DistClean
  <2>1. TypeOK'
    BY <1>2 DEF DistClean, Fine, Cleaned, TypeOK
  <2> QED
    BY <1>2, <2>1, StoppedRun DEF DistClean, Fine, Cleaned, HostProgress
<1>3. CASE Clone
  <2> USE DEF Clone
  <2>1. CASE todo = <<>>
    <3>1. /\ pc' = "patch" /\ todo' \in Seq(Trees) /\ Left' = Trees
          /\ todo' \in Seq(Trees \union Objects)
      BY <1>3, <2>1, OrderIsTrees DEF Onto, Left
    <3> QED
      BY <1>3, <2>1, <3>1, LeftIsNone
      DEF Onto, Fine, TypeOK, TreesProgress, MuslProgress, HostProgress,
          BuiltIsComplete, FailsForAReason, Patching, Building
  <2>2. CASE todo # <<>> /\ Onto("clone", Tail(todo))
    <3>1. /\ Head(todo) \in Trees /\ todo' \in Seq(Trees)
          /\ Left = {Head(todo)} \union Left'
      BY <1>3, <2>2, LeftShrinks DEF Onto, TreesProgress, Patching
    <3>2. todo' \in Seq(Trees \union Objects)
      BY <3>1
    <3> QED
      BY <1>3, <2>2, <3>1, <3>2
      DEF Onto, Fine, Fault, Stops, TypeOK, TreesProgress, MuslProgress, HostProgress,
          BuiltIsComplete, FailsForAReason, Patching, Building
  <2>3. CASE todo # <<>> /\ Fault /\ (Stops("failed") \/ Stops("killed"))
    <3>1. Head(todo) \in Trees
      BY <1>3, <2>3, HeadAndTail DEF TreesProgress, Patching
    <3> QED
      BY <1>3, <2>3, <3>1, FaultRunInv DEF TypeOK
  <2> QED
    BY <1>3, <2>1, <2>2, <2>3
<1>4. CASE Patch
  <2> USE DEF Patch
  <2>1. CASE todo = <<>>
    <3>1. pc' = "cp adapter" /\ todo' = <<>> /\ Left = {}
      BY <1>4, <2>1, LeftIsNone DEF Onto
    <3> QED
      BY <1>4, <2>1, <3>1
      DEF Onto, Fine, TypeOK, TreesProgress, MuslProgress, HostProgress,
          BuiltIsComplete, FailsForAReason, Patching, Building
  <2>2. CASE todo # <<>> /\ Onto("patch", Tail(todo)) /\ Fine
    <3>1. /\ Head(todo) \in Trees /\ todo' \in Seq(Trees)
          /\ Left = {Head(todo)} \union Left'
      BY <1>4, <2>2, LeftShrinks DEF Onto, TreesProgress, Patching
    <3>2. todo' \in Seq(Trees \union Objects)
      BY <3>1
    <3>3. tree' = [tree EXCEPT ![Head(todo)] = "patched"] /\ locked' = locked
      <4>1. ~Fault
        BY <2>2, FaultsCounted
      <4> QED
        BY <1>4, <2>2, <4>1 DEF Onto, Stops, PatchFault
    <3> QED
      BY <1>4, <2>2, <3>1, <3>2, <3>3
      DEF Onto, Fine, TypeOK, TreesProgress, MuslProgress, HostProgress,
          BuiltIsComplete, FailsForAReason, Patching, Building
  <2>3. CASE todo # <<>> /\ ~Applies(Head(todo)) /\ Stops("failed") /\ Fine
    <3>1. /\ Head(todo) \in Trees /\ Stuck(Head(todo))
      BY <1>4, <2>3, HeadAndTail
      DEF TreesProgress, Patching, Applies, Stuck, TypeOK
    <3>2. /\ pc' = "idle" /\ todo' = <<>> /\ outcome' = "failed"
          /\ tree' = tree /\ locked' = locked
      <4>1. ~Fault
        BY <2>3, FaultsCounted
      <4> QED
        BY <1>4, <2>3, <4>1 DEF Stops, PatchFault
    <3>3. TypeOK'
      BY <1>4, <2>3, <3>2, NoneIsLeft DEF Fine, TypeOK
    <3> QED
      BY <1>4, <2>3, <3>1, <3>2, <3>3, StoppedRun DEF HostProgress, Stuck
  <2>4. CASE todo # <<>> /\ PatchFault(Head(todo))
    <3>1. Head(todo) \in Trees
      BY <1>4, <2>4, HeadAndTail DEF TreesProgress, Patching
    <3>2. /\ tree' \in
               [Trees -> {"absent", "partial", "clean", "mixed", "patched"}]
          /\ locked' \subseteq Trees
          /\ UNCHANGED <<adapter, libc, objects, host, libruby>>
      BY <1>4, <2>4, <3>1 DEF TypeOK, PatchFault
    <3>3. Fault /\ (Stops("failed") \/ Stops("killed"))
      BY <2>4 DEF PatchFault
    <3> QED
      BY <3>2, <3>3, FaultRunInv DEF TypeOK
  <2> QED
    BY <1>4, <2>1, <2>2, <2>3, <2>4
<1>5. CASE CopyAdapter
  <2> USE DEF CopyAdapter
  <2>1. CASE adapter' = TRUE
    BY <1>5, <2>1, NoneIsLeft
    DEF Onto, Fine, TypeOK, TreesProgress, MuslProgress, HostProgress,
        BuiltIsComplete, FailsForAReason, Patching, Building
  <2>2. CASE adapter' = FALSE
    BY <1>5, <2>2, FaultRunInv DEF TypeOK
  <2> QED
    BY <1>5, <2>1, <2>2
<1>6. CASE TestMusl
  BY <1>6, NoneIsLeft
  DEF TestMusl, FoundMusl, made, Onto, TypeOK, TreesProgress, MuslProgress,
      HostProgress, BuiltIsComplete, FailsForAReason, Patching, Building
<1>7. CASE BuildMusl
  <2> USE DEF BuildMusl, made
  <2>1. CASE Broken("cp")
    BY <1>7, <2>1, FaultRunInv DEF Broken, AfterFailure, TypeOK
  <2>2. CASE Onto("cp", <<>>) /\ Fine
    BY <1>7, <2>2, NoneIsLeft
    DEF Onto, Fine, TypeOK, TreesProgress, MuslProgress, HostProgress,
        BuiltIsComplete, FailsForAReason, Patching, Building
  <2> QED
    BY <1>7, <2>1, <2>2
<1>8. CASE CopyLibc
  <2> USE DEF CopyLibc
  <2>1. CASE Broken("ar d") /\ libc' = "short" /\ UNCHANGED objects
    BY <1>8, <2>1, FaultRunInv DEF Broken, AfterFailure, TypeOK
  <2>2. CASE Onto("ar d", Removed) /\ Fine /\ libc' = "there" /\ objects' = Objects
    <3>1. todo' \in Seq(Trees \union Objects) /\ Left' = Objects
      BY <2>2, RemovedIsObjects DEF Onto, Left, Objects
    <3> QED
      BY <1>8, <2>2, <3>1
      DEF Onto, Fine, TypeOK, TreesProgress, MuslProgress, HostProgress,
          BuiltIsComplete, FailsForAReason, Patching, Building
  <2> QED
    BY <1>8, <2>1, <2>2
<1>9. CASE RemoveObjects
  <2> USE DEF RemoveObjects
  <2>1. CASE todo = <<>>
    BY <1>9, <2>1, LeftIsNone, NoneIsLeft
    DEF Onto, Fine, TypeOK, TreesProgress, MuslProgress, HostProgress, MuslDone,
        BuiltIsComplete, FailsForAReason, Patching, Building, Fault, Stops
  <2>2. CASE todo # <<>> /\ Onto("ar d", Tail(todo))
    <3>1. /\ todo' \in Seq(Trees \union Objects)
          /\ Left = {Head(todo)} \union Left'
      BY <2>2, LeftShrinks DEF Onto, TypeOK
    <3>2. /\ pc = "ar d" /\ pc' = "ar d"
          /\ UNCHANGED <<tree, locked, adapter, libc, host, libruby, outcome,
                         found>>
      BY <1>9, <2>2 DEF Onto, Fine, Stops
    <3>3. objects' \subseteq Objects /\ hit' \in BOOLEAN /\ ignored' \in BOOLEAN
          /\ (ignored' \/ objects' \subseteq Left')
      BY <1>9, <2>2, <3>1, <3>2 DEF Fine, Fault, Stops, TypeOK, MuslProgress
    <3>4. faults' \in 0 .. MaxFaults
      BY <1>9, <2>2, <3>2, FaultsCounted DEF Fine, Stops
    <3> QED
      BY <3>1, <3>2, <3>3, <3>4
      DEF TypeOK, TreesProgress, MuslProgress, HostProgress, BuiltIsComplete,
          FailsForAReason, Patching, Building
  <2>3. CASE todo # <<>> /\ Fault /\ Stops("killed") /\ UNCHANGED objects
    BY <1>9, <2>3, FaultRunInv DEF TypeOK
  <2> QED
    BY <1>9, <2>1, <2>2, <2>3
<1>10. CASE TestHost
  BY <1>10, NoneIsLeft
  DEF TestHost, FoundHost, made, Onto, TypeOK, TreesProgress, MuslProgress,
      MuslDone, HostProgress, BuiltIsComplete, FailsForAReason, Patching,
      Building
<1>11. CASE BuildHost
  <2>1. ASSUME NEW c \in {"miniruby", "rbbin"}, NEW next,
               Compile(c, c, next),
               c = "miniruby" => next = "rbbin",
               c = "rbbin" => next = "cross"
        PROVE  RunInv'
    <3>1. CASE UNCHANGED host /\ Broken(next)
      BY <2>1, <3>1, FaultRunInv DEF Compile, Broken, AfterFailure, TypeOK
    <3>2. CASE host' = host \union {c} /\ Onto(next, <<>>) /\ Fine
      BY <2>1, <3>2, NoneIsLeft
      DEF Compile, Onto, Fine, TypeOK, TreesProgress, MuslProgress, MuslDone,
          HostProgress, HostDone, BuiltIsComplete, FailsForAReason, Patching,
          Building
    <3> QED
      BY <2>1, <3>1, <3>2 DEF Compile
  <2> QED
    BY <1>11, <2>1 DEF BuildHost
<1>12. CASE BuildCross
  <2> USE DEF BuildCross
  <2>1. CASE Stops("complete")
    BY <1>12, <2>1, NoneIsLeft
    DEF Stops, Fine, Fault, Broken, AfterFailure, TypeOK, TreesProgress,
        MuslProgress, MuslDone, HostProgress, HostDone, BuiltIsComplete,
        FailsForAReason, Patching, Building
  <2>2. CASE ~HostDone /\ Stops("failed") /\ UNCHANGED libruby /\ Fine
    <3>1. host = {"miniruby"}
      BY <1>12, <2>2 DEF HostProgress, HostDone, TypeOK
    <3>2. TypeOK'
      BY <1>12, <2>2, NoneIsLeft DEF Stops, Fine, Fault, TypeOK
    <3> QED
      BY <1>12, <2>2, <3>1, <3>2, StoppedRun DEF Stops, Fine, HostProgress
  <2>3. CASE Broken("idle") /\ UNCHANGED libruby
    BY <1>12, <2>3, FaultRunInv DEF Broken, AfterFailure, TypeOK
  <2> QED
    BY <1>12, <2>1, <2>2, <2>3
<1>13. CASE UNCHANGED vars
  <2>1. Left' = Left /\ MuslDone' = MuslDone /\ HostDone' = HostDone
    BY <1>13 DEF vars, made, Left, MuslDone, HostDone
  <2>2. TypeOK'
    BY <1>13 DEF vars, made, TypeOK
  <2> QED
    BY <1>13, <2>1, <2>2
    DEF Stuck, vars, made, TreesProgress, MuslProgress, HostProgress,
        BuiltIsComplete, FailsForAReason
<1> QED
  BY <1>1, <1>2, <1>3, <1>4, <1>5, <1>6, <1>7, <1>8, <1>9, <1>10, <1>11,
     <1>12, <1>13 DEF Next, Command
-----------------------------------------------------------------------------
LEMMA AlwaysRunInv == SetupAssumption /\ Spec => []RunInv
<1> SUFFICES ASSUME SetupAssumption PROVE Spec => []RunInv
  OBVIOUS
<1>1. Init => RunInv
  BY InitRunInv
<1>2. RunInv /\ [Next]_vars => RunInv'
  BY NextRunInv
<1> QED
  BY <1>1, <1>2, PTL DEF Spec

\* Every variable keeps its type.
THEOREM SetupTypeCorrect == SetupAssumption /\ Spec => []TypeOK
BY AlwaysRunInv, PTL DEF RunInv

\* "Setup complete" is never printed over work of this run that is not whole:
\* the && chains and the order of the stages see to it, whatever fails or is
\* killed in this run or an earlier one (Makefile:81-143).
THEOREM CompleteIsWhole == SetupAssumption /\ Spec => []BuiltIsComplete
BY AlwaysRunInv, PTL DEF RunInv

\* A run in which nothing goes wrong is stopped only by a clone that was killed
\* or a host build that ended between its two commands.
THEOREM FailureHasAReason == SetupAssumption /\ Spec => []FailsForAReason
BY AlwaysRunInv, PTL DEF RunInv

-----------------------------------------------------------------------------
(* The image's build: what depends on what.                                *)

LEMMA ProductsAre ==
  Kernel!Products =
    {"generated_scripts.c", "generated_mui.c", "embedded_files.o",
     "serial.o", "kernel64.bin", "boot.o", "kernel.elf"}
  BY DEF Kernel!Products, Kernel!Goals

LEMMA RulesAre ==
  /\ Kernel!Rules["generated_scripts.c"] = {"init.rb"}
  /\ Kernel!Rules["generated_mui.c"] = {"mui.rb"}
  /\ Kernel!Rules["embedded_files.o"] =
       {"generated_scripts.c", "generated_mui.c"}
  /\ Kernel!Rules["serial.o"] = {"serial.c"}
  /\ Kernel!Rules["kernel64.bin"] = {"embedded_files.o", "serial.o"}
  /\ Kernel!Rules["boot.o"] = {"kernel64.bin"}
  /\ Kernel!Rules["kernel.elf"] = {"boot.o"}
  BY ProductsAre DEF Kernel!Rules, Kernel!RulesWithoutKernel

LEMMA ReadsAre ==
  /\ Kernel!Reads("generated_scripts.c") = {"init.rb"}
  /\ Kernel!Reads("generated_mui.c") = {"mui.rb", "editor.rb"}
  /\ Kernel!Reads("embedded_files.o") =
       {"generated_scripts.c", "generated_mui.c", "kernel.h"}
  /\ Kernel!Reads("serial.o") = {"serial.c", "kernel.h"}
  /\ Kernel!Reads("kernel64.bin") = {"embedded_files.o", "serial.o"}
  /\ Kernel!Reads("boot.o") = {"kernel64.bin"}
  /\ Kernel!Reads("kernel.elf") = {"boot.o"}
  BY RulesAre DEF Kernel!Reads

\* The largest of at most three numbers.
LEMMA MaxOfThree ==
  ASSUME NEW a \in Nat, NEW b \in Nat, NEW c \in Nat
  PROVE  /\ Kernel!Max({a, b, c}) \in {a, b, c}
         /\ \A x \in {a, b, c} : x <= Kernel!Max({a, b, c})
<1>1. \E m \in {a, b, c} : \A x \in {a, b, c} : m >= x
  OBVIOUS
<1> DEFINE m == Kernel!Max({a, b, c})
<1>2. m \in {a, b, c} /\ \A x \in {a, b, c} : m >= x
  BY <1>1 DEF Kernel!Max
<1> HIDE DEF m
<1>3. m \in {a, b, c} /\ \A x \in {a, b, c} : x <= m
  BY <1>2
<1> QED
  BY <1>3 DEF m

\* The rules leave out headers and files of mui, and nothing else.
Named == Kernel!Sources \ {"kernel.h", "editor.rb"}

LEMMA ReadsOfRules ==
  ASSUME NEW p \in Kernel!Products
  PROVE  /\ Kernel!Reads(p) \intersect Kernel!Products
              = Kernel!Rules[p] \intersect Kernel!Products
         /\ \A s \in Named : s \in Kernel!Reads(p) => s \in Kernel!Rules[p]
         /\ \E q, r \in Kernel!Products :
              \/ Kernel!Reads(p) \intersect Kernel!Products = {}
              \/ Kernel!Reads(p) \intersect Kernel!Products = {q, r}
<1>1. CASE p = "generated_scripts.c"
  BY <1>1, RulesAre, ReadsAre, ProductsAre DEF Named, Kernel!Sources
<1>2. CASE p = "generated_mui.c"
  BY <1>2, RulesAre, ReadsAre, ProductsAre DEF Named, Kernel!Sources
<1>3. CASE p = "embedded_files.o"
  BY <1>3, RulesAre, ReadsAre, ProductsAre DEF Named, Kernel!Sources
<1>4. CASE p = "serial.o"
  BY <1>4, RulesAre, ReadsAre, ProductsAre DEF Named, Kernel!Sources
<1>5. CASE p = "kernel64.bin"
  BY <1>5, RulesAre, ReadsAre, ProductsAre DEF Named, Kernel!Sources
<1>6. CASE p = "boot.o"
  BY <1>6, RulesAre, ReadsAre, ProductsAre DEF Named, Kernel!Sources
<1>7. CASE p = "kernel.elf"
  BY <1>7, RulesAre, ReadsAre, ProductsAre DEF Named, Kernel!Sources
<1> QED
  BY <1>1, <1>2, <1>3, <1>4, <1>5, <1>6, <1>7, ProductsAre

LEMMA MadeOfType ==
  ASSUME Kernel!BuildTypeOK, NEW p \in Kernel!Products
  PROVE  Kernel!MadeOf(p) \in [Kernel!Sources -> Nat]
<1>1. ASSUME NEW s \in Kernel!Sources
      PROVE  Kernel!Max({0} \union
               {holds[q][s] : q \in Kernel!Reads(p) \intersect Kernel!Products})
               \in Nat
  <2>1. PICK q \in Kernel!Products, r \in Kernel!Products :
          \/ Kernel!Reads(p) \intersect Kernel!Products = {}
          \/ Kernel!Reads(p) \intersect Kernel!Products = {q, r}
    BY ReadsOfRules
  <2>2. holds[q][s] \in Nat /\ holds[r][s] \in Nat
    BY DEF Kernel!BuildTypeOK
  <2>3. CASE Kernel!Reads(p) \intersect Kernel!Products = {}
    <3>1. {0} \union
            {holds[x][s] : x \in Kernel!Reads(p) \intersect Kernel!Products}
              = {0, 0, 0}
      BY <2>3
    <3>2. Kernel!Max({0, 0, 0}) \in Nat
      BY MaxOfThree
    <3> QED
      BY ONLY <3>1, <3>2
  <2>4. CASE Kernel!Reads(p) \intersect Kernel!Products = {q, r}
    <3>1. {0} \union
            {holds[x][s] : x \in Kernel!Reads(p) \intersect Kernel!Products}
              = {0, holds[q][s], holds[r][s]}
      BY <2>4
    <3>2. Kernel!Max({0, holds[q][s], holds[r][s]}) \in Nat
      BY <2>2, MaxOfThree
    <3> QED
      BY ONLY <3>1, <3>2
  <2> QED
    BY <2>1, <2>3, <2>4
<1>2. \A s \in Kernel!Sources : edits[s] \in Nat
  BY DEF Kernel!BuildTypeOK
<1> QED
  BY <1>1, <1>2 DEF Kernel!MadeOf

\* A product made of one source and no product takes nothing of another.
LEMMA MadeOfNothing ==
  ASSUME NEW p \in Kernel!Products, Kernel!Needs(p) = {},
         NEW s \in Named \ Kernel!Rules[p]
  PROVE  Kernel!MadeOf(p)[s] = 0
<1>1. /\ s \in Kernel!Sources /\ s \notin Kernel!Reads(p)
      /\ Kernel!Reads(p) \intersect Kernel!Products = {}
  BY ReadsOfRules DEF Named, Kernel!Needs
<1>2. {0} \union
        {holds[x][s] : x \in Kernel!Reads(p) \intersect Kernel!Products}
          = {0, 0, 0}
  BY <1>1
<1>3. Kernel!Max({0, 0, 0}) \in {0, 0, 0}
  BY MaxOfThree
<1>4. Kernel!MadeOf(p)[s] = Kernel!Max({0} \union
        {holds[x][s] : x \in Kernel!Reads(p) \intersect Kernel!Products})
  BY <1>1 DEF Kernel!MadeOf
<1> QED
  BY <1>2, <1>3, <1>4

LEMMA GoalsAre ==
  /\ Len(Kernel!Goals) = 7 /\ DOMAIN Kernel!Goals = 1 .. 7
  /\ Kernel!Goals[1] = "generated_scripts.c"
  /\ Kernel!Goals[2] = "generated_mui.c"
  /\ Kernel!Goals[3] = "embedded_files.o"
  /\ Kernel!Goals[4] = "serial.o" /\ Kernel!Goals[5] = "kernel64.bin"
  /\ Kernel!Goals[6] = "boot.o" /\ Kernel!Goals[7] = "kernel.elf"
  BY DEF Kernel!Goals

\* Of each source's name one rule knows, of each product's only later ones.
LEMMA RulesInOrder ==
  /\ \A p, q \in Kernel!Products, s \in Kernel!Sources :
       s \in Kernel!Rules[p] /\ s \in Kernel!Rules[q] => p = q
  /\ \A i, j \in DOMAIN Kernel!Goals :
       Kernel!Goals[i] \in Kernel!Rules[Kernel!Goals[j]] => i < j
<1>1. ASSUME NEW p \in Kernel!Products, NEW q \in Kernel!Products,
             NEW s \in Kernel!Sources,
             s \in Kernel!Rules[p] /\ s \in Kernel!Rules[q]
      PROVE  p = q
  <2>1. /\ p \in {"generated_scripts.c", "generated_mui.c", "serial.o"}
        /\ q \in {"generated_scripts.c", "generated_mui.c", "serial.o"}
    BY <1>1, RulesAre, ProductsAre DEF Kernel!Sources
  <2> QED
    BY <1>1, <2>1, RulesAre
<1>2. ASSUME NEW i \in 1 .. 7, NEW j \in 1 .. 7,
             Kernel!Goals[i] \in Kernel!Rules[Kernel!Goals[j]]
      PROVE  i < j
  <2>1. i \in {1, 2, 3, 4, 5, 6, 7} /\ j \in {1, 2, 3, 4, 5, 6, 7}
    OBVIOUS
  <2>2. CASE j \in {1, 2, 4}
    BY <1>2, <2>1, <2>2, GoalsAre, RulesAre
  <2>3. CASE j = 3
    BY <1>2, <2>1, <2>3, GoalsAre, RulesAre
  <2>4. CASE j \in {5, 6, 7}
    BY <1>2, <2>1, <2>4, GoalsAre, RulesAre
  <2> QED
    BY <2>1, <2>2, <2>3, <2>4
<1> QED
  BY <1>1, <1>2, GoalsAre

-----------------------------------------------------------------------------
(* The inductive invariant.  A product that make takes for up to date, and a *)
(* command that runs, hold of the named sources what the prerequisites hold  *)
(* now, but for the source missed; the goals make has gone through are there *)
(* and up to date but for what was edited meanwhile; and what a generator    *)
(* left when it failed has a product waiting for it that make will not skip. *)

Current(p) == file[p] = "whole" /\ p \notin old
Unmissed(p) == Named \ (missed \intersect Kernel!Rules[p])

HoldsNow ==
  \A p \in Kernel!Products : Current(p) =>
    \A s \in Unmissed(p) : holds[p][s] = Kernel!MadeOf(p)[s]
TookNow ==
  running => LET p == Kernel!Goals[turn] IN
    /\ Kernel!Due(p) /\ \A q \in Kernel!Needs(p) : file[q] = "whole"
    /\ \A s \in Unmissed(p) : took[s] = Kernel!MadeOf(p)[s]
NothingElse ==
  \A p \in Kernel!Products : Kernel!Needs(p) = {} =>
    \A s \in Named \ Kernel!Rules[p] : holds[p][s] = 0
GoneThrough ==
  \A i \in DOMAIN Kernel!Goals : i < turn =>
    LET p == Kernel!Goals[i] IN
    /\ file[p] # "absent"
    /\ p \in old => Kernel!Rules[p] \intersect edited # {}
CutIsNoticed ==
  (\E g \in Kernel!Generated : file[g] = "cut") => Kernel!Due("embedded_files.o")

BuildInv ==
  /\ Kernel!BuildTypeOK /\ HoldsNow /\ TookNow
  /\ NothingElse /\ GoneThrough /\ CutIsNoticed

LEMMA InitBuildInv ==
  ASSUME Kernel!BuildAssumption, Kernel!BuildInit PROVE BuildInv
<1> USE DEF Kernel!BuildInit
<1>1. Kernel!BuildTypeOK
  <2>1. 0 \in 0 .. MaxErrors /\ 0 \in 0 .. Len(Kernel!Goals) + 1
    BY GoalsAre DEF Kernel!BuildAssumption
  <2>2. Kernel!Nothing \in [Kernel!Sources -> Nat]
    BY DEF Kernel!Nothing
  <2>3. holds \in [Kernel!Products -> [Kernel!Sources -> Nat]]
    BY <2>2
  <2>4. /\ file \in [Kernel!Products -> {"absent", "cut", "whole"}]
        /\ \A p \in Kernel!Products : file[p] # "cut"
    OBVIOUS
  <2> QED
    BY <2>1, <2>2, <2>3, <2>4 DEF Kernel!BuildTypeOK
<1>2. \A p \in Kernel!Products : file[p] = "absent"
  OBVIOUS
<1>3. HoldsNow /\ TookNow
  BY <1>2 DEF HoldsNow, TookNow, Current
<1>4. NothingElse
  BY DEF NothingElse, Named, Kernel!Nothing
<1>5. GoneThrough
  BY GoalsAre DEF GoneThrough
<1>6. CutIsNoticed
  BY <1>2, ProductsAre DEF CutIsNoticed, Kernel!Generated
<1> QED
  BY <1>1, <1>3, <1>4, <1>5, <1>6 DEF BuildInv

\* What a product is made of stays the same while what it reads does.
LEMMA SameMadeOf ==
  ASSUME NEW p \in Kernel!Products, NEW s \in Kernel!Sources,
         edits'[s] = edits[s] \/ s \notin Kernel!Reads(p),
         \A q \in Kernel!Needs(p) : holds'[q] = holds[q]
  PROVE  Kernel!MadeOf(p)'[s] = Kernel!MadeOf(p)[s]
<1>1. Kernel!Reads(p)' = Kernel!Reads(p)
  OBVIOUS
<1>2. {holds'[q][s] : q \in Kernel!Reads(p) \intersect Kernel!Products}
        = {holds[q][s] : q \in Kernel!Reads(p) \intersect Kernel!Products}
  BY ReadsOfRules DEF Kernel!Needs
<1> QED
  BY <1>2 DEF Kernel!MadeOf

\* A step that makes nothing current keeps what is.
LEMMA NothingMade ==
  ASSUME BuildInv, UNCHANGED <<edits, holds>>,
         \A p \in Kernel!Products : Current(p)' =>
           Current(p) /\ missed \intersect Kernel!Rules[p] \subseteq missed'
  PROVE  HoldsNow' /\ NothingElse'
<1>1. ASSUME NEW p \in Kernel!Products, Current(p)', NEW s \in Unmissed(p)'
      PROVE  holds'[p][s] = Kernel!MadeOf(p)'[s]
  <2>1. s \in Kernel!Sources /\ s \in Unmissed(p) /\ Current(p)
    BY <1>1 DEF Unmissed, Named
  <2>2. holds[p][s] = Kernel!MadeOf(p)[s]
    BY <2>1 DEF BuildInv, HoldsNow
  <2>3. Kernel!MadeOf(p)'[s] = Kernel!MadeOf(p)[s]
    BY <2>1, SameMadeOf
  <2> QED
    BY <2>2, <2>3
<1>2. NothingElse'
  BY DEF BuildInv, NothingElse, Kernel!Needs
<1> QED
  BY <1>1, <1>2 DEF HoldsNow

\* make that has stopped, or not begun, has gone through nothing.
LEMMA NotRunning ==
  ASSUME turn' \in {0, 1}, running' = FALSE PROVE TookNow' /\ GoneThrough'
  BY GoalsAre DEF TookNow, GoneThrough

LEMMA EditStep ==
  ASSUME BuildInv, NEW e \in Kernel!Sources, Kernel!Edit(e) PROVE BuildInv'
<1> DEFINE now == Kernel!Goals[turn]
<1>1. /\ edits' = [edits EXCEPT ![e] = @ + 1]
      /\ old' = old \union Kernel!DependsOn(e)
      /\ edited' = IF Kernel!Making THEN edited \union {e} ELSE edited
      /\ missed' = IF running /\ e \in Kernel!Rules[now] THEN missed \union {e}
                   ELSE missed \ {e}
      /\ UNCHANGED <<turn, running, took, file, holds, result, errors>>
  BY DEF Kernel!Edit
<1>2. Kernel!BuildTypeOK'
  <2>1. edits[e] + 1 \in Nat
    BY DEF BuildInv, Kernel!BuildTypeOK
  <2>2. edits' \in [Kernel!Sources -> Nat]
    BY <1>1, <2>1 DEF BuildInv, Kernel!BuildTypeOK
  <2>3. Kernel!DependsOn(e) \subseteq Kernel!Products
    BY DEF Kernel!DependsOn
  <2> QED
    BY <1>1, <2>2, <2>3 DEF BuildInv, Kernel!BuildTypeOK
<1>3. ASSUME NEW p \in Kernel!Products, NEW s \in Unmissed(p)',
             e \notin Kernel!Rules[p]
      PROVE  /\ s \in Unmissed(p)
             /\ Kernel!MadeOf(p)'[s] = Kernel!MadeOf(p)[s]
  <2>1. s \in Unmissed(p) /\ s \in Kernel!Sources /\ s \in Named
    BY <1>1, <1>3 DEF Unmissed, Named
  <2>2. edits'[s] = edits[s] \/ s \notin Kernel!Reads(p)
    BY <1>1, <1>3, <2>1, ReadsOfRules DEF BuildInv, Kernel!BuildTypeOK
  <2> QED
    BY <1>1, <2>1, <2>2, SameMadeOf
<1>4. HoldsNow'
  <2>1. ASSUME NEW p \in Kernel!Products, Current(p)', NEW s \in Unmissed(p)'
        PROVE  holds'[p][s] = Kernel!MadeOf(p)'[s]
    <3>1. Current(p) /\ e \notin Kernel!Rules[p]
      BY <1>1, <2>1 DEF Current, Kernel!DependsOn
    <3> QED
      BY <1>1, <1>3, <3>1 DEF BuildInv, HoldsNow
  <2> QED
    BY <2>1 DEF HoldsNow
<1>5. TookNow'
  <2> SUFFICES ASSUME running PROVE TookNow'
    BY <1>1 DEF TookNow
  <2>1. now \in Kernel!Products
    BY DEF BuildInv, Kernel!BuildTypeOK, Kernel!Products
  <2>2. Kernel!Due(now)' /\ \A q \in Kernel!Needs(now) : file'[q] = "whole"
    BY <1>1 DEF BuildInv, TookNow, Kernel!Due
  <2>3. ASSUME NEW s \in Unmissed(now)' PROVE took'[s] = Kernel!MadeOf(now)'[s]
    <3>1. CASE e \notin Kernel!Rules[now]
      BY <1>1, <1>3, <2>1, <2>3, <3>1 DEF BuildInv, TookNow
    <3>2. CASE e \in Kernel!Rules[now]
      <4>1. s # e /\ s \in Unmissed(now) /\ s \in Kernel!Sources
        BY <1>1, <2>3, <3>2 DEF Unmissed, Named
      <4>2. edits'[s] = edits[s]
        BY <1>1, <4>1 DEF BuildInv, Kernel!BuildTypeOK
      <4>3. Kernel!MadeOf(now)'[s] = Kernel!MadeOf(now)[s]
        BY <1>1, <2>1, <4>1, <4>2, SameMadeOf
      <4> QED
        BY <1>1, <4>1, <4>3 DEF BuildInv, TookNow
    <3> QED
      BY <3>1, <3>2
  <2>4. turn' = turn
    BY <1>1
  <2> QED
    BY <2>2, <2>3, <2>4 DEF TookNow, Unmissed, Kernel!Needs, Kernel!MadeOf, Kernel!Due
<1>6. NothingElse'
  BY <1>1 DEF BuildInv, NothingElse, Kernel!Needs
<1>7. GoneThrough'
  <2>1. ASSUME NEW i \in DOMAIN Kernel!Goals, i < turn
        PROVE  /\ file'[Kernel!Goals[i]] # "absent"
               /\ Kernel!Goals[i] \in old' =>
                    Kernel!Rules[Kernel!Goals[i]] \intersect edited' # {}
    <3>1. Kernel!Making
      BY <2>1, GoalsAre DEF Kernel!Making, BuildInv, Kernel!BuildTypeOK
    <3> QED
      BY <1>1, <2>1, <3>1 DEF BuildInv, GoneThrough, Kernel!DependsOn
  <2> QED
    BY <1>1, <2>1 DEF GoneThrough
<1>8. CutIsNoticed'
  BY <1>1 DEF BuildInv, CutIsNoticed, Kernel!Due
<1> QED
  BY <1>2, <1>4, <1>5, <1>6, <1>7, <1>8 DEF BuildInv

\* make begins, or goes on to the next goal without making this one.
LEMMA MakeStep == ASSUME BuildInv, Kernel!Make PROVE BuildInv'
<1>1. /\ turn' = 1 /\ result' = "none" /\ running' = FALSE
      /\ UNCHANGED <<running, took, edits, file, old, holds, errors, edited,
                     missed>>
  BY GoalsAre DEF Kernel!Make, Kernel!Making, BuildInv, Kernel!BuildTypeOK
<1>2. Kernel!BuildTypeOK'
  BY <1>1, GoalsAre DEF BuildInv, Kernel!BuildTypeOK
<1>3. HoldsNow' /\ NothingElse'
  BY <1>1, NothingMade DEF Current
<1>4. TookNow' /\ GoneThrough'
  BY <1>1, NotRunning
<1>5. CutIsNoticed'
  BY <1>1 DEF BuildInv, CutIsNoticed, Kernel!Due
<1> QED
  BY <1>2, <1>3, <1>4, <1>5 DEF BuildInv

LEMMA SkipStep ==
  ASSUME BuildInv, NEW c \in Kernel!Products, Kernel!Skip(c) PROVE BuildInv'
<1>1. /\ turn \in 1 .. 7 /\ c = Kernel!Goals[turn] /\ ~Kernel!Due(c)
      /\ turn' = turn + 1 /\ ~running
      /\ UNCHANGED <<running, took, edits, file, old, holds, result, errors,
                     edited, missed>>
  BY GoalsAre DEF Kernel!Skip, Kernel!Turn
<1>2. Kernel!BuildTypeOK'
  BY <1>1, GoalsAre DEF BuildInv, Kernel!BuildTypeOK
<1>3. HoldsNow' /\ NothingElse'
  BY <1>1, NothingMade DEF Current
<1>4. TookNow'
  BY <1>1 DEF TookNow
<1>5. GoneThrough'
  <2>1. ASSUME NEW i \in DOMAIN Kernel!Goals, i < turn'
        PROVE  /\ file'[Kernel!Goals[i]] # "absent"
               /\ Kernel!Goals[i] \in old' =>
                    Kernel!Rules[Kernel!Goals[i]] \intersect edited' # {}
    <3>1. i < turn \/ i = turn
      BY <1>1, <2>1, GoalsAre
    <3> QED
      BY <1>1, <3>1 DEF BuildInv, GoneThrough, Kernel!Due
  <2> QED
    BY <2>1 DEF GoneThrough
<1>6. CutIsNoticed'
  BY <1>1 DEF BuildInv, CutIsNoticed, Kernel!Due
<1> QED
  BY <1>2, <1>3, <1>4, <1>5, <1>6 DEF BuildInv

LEMMA BeginStep ==
  ASSUME BuildInv, NEW c \in Kernel!Products, Kernel!Begin(c) PROVE BuildInv'
<1>1. /\ turn \in DOMAIN Kernel!Goals /\ c = Kernel!Goals[turn]
      /\ Kernel!Due(c) /\ \A q \in Kernel!Needs(c) : file[q] = "whole"
      /\ running' = TRUE /\ took' = Kernel!MadeOf(c)
      /\ missed' = missed \ Kernel!Rules[c]
      /\ UNCHANGED <<turn, edits, file, old, holds, result, errors, edited>>
  BY DEF Kernel!Begin, Kernel!Turn
<1>2. Kernel!BuildTypeOK'
  BY <1>1, MadeOfType DEF BuildInv, Kernel!BuildTypeOK
<1>3. HoldsNow' /\ NothingElse'
  <2>1. ASSUME NEW p \in Kernel!Products, Current(p)'
        PROVE  /\ Current(p)
               /\ missed \intersect Kernel!Rules[p] \subseteq missed'
    <3>1. Current(p) /\ p # c
      BY <1>1, <2>1 DEF Current, Kernel!Due
    <3>2. missed \subseteq Kernel!Sources
      BY DEF BuildInv, Kernel!BuildTypeOK
    <3> QED
      BY <1>1, <3>1, <3>2, RulesInOrder
  <2> QED
    BY <1>1, <2>1, NothingMade
<1>4. TookNow'
  <2>1. ASSUME NEW s \in Unmissed(c)' PROVE took'[s] = Kernel!MadeOf(c)'[s]
    <3>1. s \in Kernel!Sources
      BY <2>1 DEF Unmissed, Named
    <3>2. Kernel!MadeOf(c)'[s] = Kernel!MadeOf(c)[s]
      BY <1>1, <3>1, SameMadeOf
    <3> QED
      BY <1>1, <3>2
  <2>2. Kernel!Due(c)' /\ \A q \in Kernel!Needs(c) : file'[q] = "whole"
    BY <1>1 DEF Kernel!Due
  <2>3. Kernel!Goals[turn'] = c
    BY <1>1
  <2> QED
    BY <2>1, <2>2, <2>3 DEF TookNow, Unmissed, Kernel!Needs
<1>5. GoneThrough' /\ CutIsNoticed'
  BY <1>1 DEF BuildInv, GoneThrough, CutIsNoticed, Kernel!Due
<1> QED
  BY <1>2, <1>3, <1>4, <1>5 DEF BuildInv

\* A command that has written its product: it holds what the command took, and
\* what is made of that product is due again.
LEMMA DoneStep ==
  ASSUME BuildInv, NEW c \in Kernel!Products, Kernel!Turn(c), running,
         Kernel!Done(c), UNCHANGED <<edits, missed>>
  PROVE  /\ file' = [file EXCEPT ![c] = "whole"]
         /\ old' = (old \ {c}) \union Kernel!DependsOn(c)
         /\ file' \in [Kernel!Products -> {"absent", "cut", "whole"}]
         /\ \A p \in Kernel!Products : file'[p] = "cut" => p \in Kernel!Generated
         /\ old' \subseteq Kernel!Products
         /\ holds' \in [Kernel!Products -> [Kernel!Sources -> Nat]]
         /\ HoldsNow' /\ NothingElse' /\ CutIsNoticed'
<1>1. /\ file' = [file EXCEPT ![c] = "whole"]
      /\ old' = (old \ {c}) \union Kernel!DependsOn(c)
      /\ holds' = [holds EXCEPT ![c] = took]
      /\ c = Kernel!Goals[turn]
  BY DEF Kernel!Done, Kernel!Gives, Kernel!Turn
<1>2. /\ file' \in [Kernel!Products -> {"absent", "cut", "whole"}]
      /\ \A p \in Kernel!Products : file'[p] = "cut" => p \in Kernel!Generated
      /\ old' \subseteq Kernel!Products
      /\ holds' \in [Kernel!Products -> [Kernel!Sources -> Nat]]
  <2>1. Kernel!DependsOn(c) \subseteq Kernel!Products
    BY DEF Kernel!DependsOn
  <2> QED
    BY <1>1, <2>1 DEF BuildInv, Kernel!BuildTypeOK
<1>3. \A p \in Kernel!Products : c \in Kernel!Rules[p] => ~Current(p)'
  BY <1>1 DEF Current, Kernel!DependsOn
<1>4. \A s \in Unmissed(c) : took[s] = Kernel!MadeOf(c)[s]
  BY <1>1 DEF BuildInv, TookNow
<1>5. c \notin Kernel!Rules[c]
  BY RulesAre, ProductsAre
<1>6. ASSUME NEW p \in Kernel!Products, Current(p)', NEW s \in Unmissed(p)
      PROVE  holds'[p][s] = Kernel!MadeOf(p)'[s]
  <2>1. \A q \in Kernel!Needs(p) : holds'[q] = holds[q]
    BY <1>1, <1>3, <1>6 DEF BuildInv, Kernel!BuildTypeOK, Kernel!Needs
  <2>2. s \in Kernel!Sources /\ Kernel!MadeOf(p)'[s] = Kernel!MadeOf(p)[s]
    BY <2>1, SameMadeOf DEF Unmissed, Named
  <2>3. CASE p = c
    BY <1>1, <1>4, <1>6, <2>2, <2>3 DEF BuildInv, Kernel!BuildTypeOK
  <2>4. CASE p # c
    <3>1. Current(p) /\ holds'[p] = holds[p]
      BY <1>1, <1>6, <2>4 DEF BuildInv, Kernel!BuildTypeOK, Current
    <3> QED
      BY <1>6, <2>2, <3>1 DEF BuildInv, HoldsNow
  <2> QED
    BY <2>3, <2>4
<1>7. HoldsNow'
  BY <1>6 DEF HoldsNow, Unmissed
<1>8. NothingElse'
  <2>1. ASSUME NEW p \in Kernel!Products, Kernel!Needs(p) = {},
               NEW s \in Named \ Kernel!Rules[p]
        PROVE  holds'[p][s] = 0
    <3>1. CASE p # c
      BY <1>1, <2>1, <3>1 DEF BuildInv, Kernel!BuildTypeOK, NothingElse
    <3>2. CASE p = c
      <4>1. s \in Unmissed(c)
        BY <2>1, <3>2 DEF Unmissed
      <4>2. Kernel!MadeOf(c)[s] = 0
        BY <2>1, <3>2, MadeOfNothing
      <4> QED
        BY <1>1, <1>4, <3>2, <4>1, <4>2 DEF BuildInv, Kernel!BuildTypeOK
    <3> QED
      BY <3>1, <3>2
  <2> QED
    BY <2>1 DEF NothingElse, Kernel!Needs
<1>9. CutIsNoticed'
  <2>1. ASSUME NEW g \in Kernel!Generated, file'[g] = "cut"
        PROVE  Kernel!Due("embedded_files.o")'
    <3>1. g # c /\ file[g] = "cut" /\ g \in Kernel!Products
      BY <1>1, <2>1, ProductsAre
      DEF BuildInv, Kernel!BuildTypeOK, Kernel!Generated
    <3>2. c # "embedded_files.o"
      BY <1>1, <2>1, <3>1, RulesAre, ProductsAre
      DEF BuildInv, TookNow, Kernel!Needs, Kernel!Generated
    <3>3. Kernel!Due("embedded_files.o")
      BY <2>1, <3>1 DEF BuildInv, CutIsNoticed
    <3> QED
      BY <1>1, <3>2, <3>3, ProductsAre
      DEF Kernel!Due, BuildInv, Kernel!BuildTypeOK
  <2> QED
    BY <2>1 DEF CutIsNoticed
<1> QED
  BY <1>1, <1>2, <1>7, <1>8, <1>9

LEMMA FinishStep ==
  ASSUME BuildInv, NEW c \in Kernel!Products, Kernel!Finish(c) PROVE BuildInv'
<1>1. /\ turn \in 1 .. 7 /\ c = Kernel!Goals[turn] /\ Kernel!Turn(c)
      /\ running /\ Kernel!Done(c)
      /\ turn' = turn + 1 /\ running' = FALSE /\ took' = Kernel!Nothing
      /\ UNCHANGED <<edits, result, errors, edited, missed>>
  BY GoalsAre DEF Kernel!Finish, Kernel!Turn
<1>2. /\ file' = [file EXCEPT ![c] = "whole"]
      /\ old' = (old \ {c}) \union Kernel!DependsOn(c)
      /\ file' \in [Kernel!Products -> {"absent", "cut", "whole"}]
      /\ \A p \in Kernel!Products : file'[p] = "cut" => p \in Kernel!Generated
      /\ old' \subseteq Kernel!Products
      /\ holds' \in [Kernel!Products -> [Kernel!Sources -> Nat]]
      /\ HoldsNow' /\ NothingElse' /\ CutIsNoticed'
  BY <1>1, DoneStep
<1>3. Kernel!BuildTypeOK'
  <2>1. took' \in [Kernel!Sources -> Nat]
    BY <1>1 DEF Kernel!Nothing
  <2>2. turn' \in 0 .. Len(Kernel!Goals) + 1 /\ running' = FALSE
    BY <1>1, GoalsAre
  <2> HIDE DEF Kernel!Goals
  <2> QED
    BY <1>1, <1>2, <2>1, <2>2 DEF BuildInv, Kernel!BuildTypeOK
<1>4. TookNow'
  BY <1>1 DEF TookNow
<1>5. GoneThrough'
  <2>1. ASSUME NEW i \in DOMAIN Kernel!Goals, i < turn'
        PROVE  /\ file'[Kernel!Goals[i]] # "absent"
               /\ Kernel!Goals[i] \in old' =>
                    Kernel!Rules[Kernel!Goals[i]] \intersect edited' # {}
    <3>1. i < turn \/ i = turn
      BY <1>1, <2>1, GoalsAre
    <3>2. turn \in DOMAIN Kernel!Goals /\ Kernel!Goals[i] \in Kernel!Products
      BY <1>1, GoalsAre DEF Kernel!Products
    <3>3. Kernel!Goals[i] \notin Kernel!DependsOn(c)
      BY <1>1, <2>1, <3>1, <3>2, RulesInOrder, GoalsAre DEF Kernel!DependsOn
    <3>4. CASE Kernel!Goals[i] = c
      BY <1>2, <3>2, <3>3, <3>4 DEF BuildInv, Kernel!BuildTypeOK
    <3>5. CASE Kernel!Goals[i] # c
      <4>1. i < turn
        BY <1>1, <3>1, <3>5
      <4> QED
        BY <1>1, <1>2, <3>2, <3>3, <3>5, <4>1
        DEF BuildInv, Kernel!BuildTypeOK, GoneThrough
    <3> QED
      BY <3>4, <3>5
  <2> QED
    BY <2>1 DEF GoneThrough
<1> QED
  BY <1>2, <1>3, <1>4, <1>5 DEF BuildInv

LEMMA FailsStep ==
  ASSUME Kernel!BuildAssumption, BuildInv, NEW c \in Kernel!Products,
         Kernel!Fails(c)
  PROVE  BuildInv'
<1>1. /\ Kernel!Turn(c) /\ running
      /\ errors' = errors + 1 /\ errors < MaxErrors
      /\ turn' = 0 /\ running' = FALSE /\ took' = Kernel!Nothing
      /\ result' = "failed" /\ edited' = {} /\ UNCHANGED <<edits, missed>>
  BY DEF Kernel!Fails, Kernel!Stops
<1>2. /\ errors' \in 0 .. MaxErrors /\ turn' \in 0 .. Len(Kernel!Goals) + 1
      /\ took' \in [Kernel!Sources -> Nat]
  BY <1>1, GoalsAre
  DEF BuildInv, Kernel!BuildTypeOK, Kernel!BuildAssumption, Kernel!Nothing
<1>3. TookNow' /\ GoneThrough'
  BY <1>1, NotRunning
<1>4. ASSUME file' \in [Kernel!Products -> {"absent", "cut", "whole"}],
             \A p \in Kernel!Products : file'[p] = "cut" => p \in Kernel!Generated,
             old' \subseteq Kernel!Products,
             holds' \in [Kernel!Products -> [Kernel!Sources -> Nat]],
             HoldsNow', NothingElse', CutIsNoticed'
      PROVE  BuildInv'
  <2>1. Kernel!BuildTypeOK'
    BY <1>1, <1>2, <1>4 DEF BuildInv, Kernel!BuildTypeOK
  <2> QED
    BY <1>3, <1>4, <2>1 DEF BuildInv
<1>5. CASE UNCHANGED <<file, old, holds>>
  <2>1. HoldsNow' /\ NothingElse'
    BY <1>1, <1>5, NothingMade DEF Current
  <2>2. CutIsNoticed'
    BY <1>5 DEF BuildInv, CutIsNoticed, Kernel!Due
  <2> QED
    BY <1>4, <1>5, <2>1, <2>2 DEF BuildInv, Kernel!BuildTypeOK
<1>6. CASE file' = [file EXCEPT ![c] = "absent"] /\ UNCHANGED <<old, holds>>
  <2>1. /\ file' \in [Kernel!Products -> {"absent", "cut", "whole"}]
        /\ \A p \in Kernel!Products :
             file'[p] = IF p = c THEN "absent" ELSE file[p]
    BY <1>6 DEF BuildInv, Kernel!BuildTypeOK
  <2>2. HoldsNow' /\ NothingElse'
    BY <1>1, <1>6, <2>1, NothingMade DEF Current
  <2>3. CutIsNoticed'
    BY <1>6, <2>1, ProductsAre
    DEF BuildInv, CutIsNoticed, Kernel!Due, Kernel!Generated
  <2> QED
    BY <1>4, <1>6, <2>1, <2>2, <2>3 DEF BuildInv, Kernel!BuildTypeOK
<1>7. CASE c \in Kernel!Generated /\ Kernel!Gives(c, "cut") /\ UNCHANGED holds
  <2>1. /\ file' = [file EXCEPT ![c] = "cut"]
        /\ old' = (old \ {c}) \union Kernel!DependsOn(c)
        /\ Kernel!DependsOn(c) \subseteq Kernel!Products
    BY <1>7 DEF Kernel!Gives, Kernel!DependsOn
  <2>2. /\ file' \in [Kernel!Products -> {"absent", "cut", "whole"}]
        /\ \A p \in Kernel!Products :
             file'[p] = IF p = c THEN "cut" ELSE file[p]
    BY <2>1 DEF BuildInv, Kernel!BuildTypeOK
  <2>3. HoldsNow' /\ NothingElse'
    BY <1>1, <1>7, <2>1, <2>2, NothingMade DEF Current
  <2>4. "embedded_files.o" \in Kernel!DependsOn(c)
    BY <1>7, RulesAre, ProductsAre DEF Kernel!DependsOn, Kernel!Generated
  <2>5. CutIsNoticed'
    BY <2>1, <2>4 DEF CutIsNoticed, Kernel!Due
  <2> QED
    BY <1>4, <1>7, <2>1, <2>2, <2>3, <2>5 DEF BuildInv, Kernel!BuildTypeOK
<1>8. CASE Kernel!Done(c)
  BY <1>1, <1>4, <1>8, DoneStep
<1> QED
  BY <1>5, <1>6, <1>7, <1>8 DEF Kernel!Fails

LEMMA NextBuildInv ==
  ASSUME Kernel!BuildAssumption, BuildInv, Kernel!BuildNext
  PROVE  BuildInv'
<1>1. CASE \E s \in Kernel!Sources : Kernel!Edit(s)
  BY <1>1, EditStep
<1>2. CASE \E p \in Kernel!Products :
             Kernel!Skip(p) \/ Kernel!Begin(p) \/ Kernel!Finish(p)
  BY <1>2, SkipStep, BeginStep, FinishStep
<1>3. CASE \E p \in Kernel!Products : Kernel!Fails(p)
  BY <1>3, FailsStep
<1>4. CASE Kernel!Built \/ \E p \in Kernel!Products : Kernel!Refuses(p)
  <2>1. /\ UNCHANGED <<edits, file, old, holds, errors, missed>>
        /\ turn' = 0 /\ running' = FALSE /\ took' = Kernel!Nothing
        /\ edited' = {} /\ result' \in {"built", "failed"}
    BY <1>4 DEF Kernel!Built, Kernel!Refuses, Kernel!Stops
  <2>2. Kernel!BuildTypeOK'
    <3>1. took' \in [Kernel!Sources -> Nat]
      BY <2>1 DEF Kernel!Nothing
    <3>2. turn' \in 0 .. Len(Kernel!Goals) + 1
      BY <2>1, GoalsAre
    <3> QED
      BY <2>1, <3>1, <3>2 DEF BuildInv, Kernel!BuildTypeOK
  <2>3. HoldsNow' /\ NothingElse'
    BY <2>1, NothingMade DEF Current
  <2>4. TookNow' /\ GoneThrough'
    BY <2>1, NotRunning
  <2>5. CutIsNoticed'
    BY <2>1 DEF BuildInv, CutIsNoticed, Kernel!Due
  <2> QED
    BY <2>2, <2>3, <2>4, <2>5 DEF BuildInv
<1>5. CASE Kernel!Make
  BY <1>5, MakeStep
<1>6. CASE Kernel!Clean
  <2>1. /\ \A p \in Kernel!Products : file'[p] = "absent"
        /\ file' \in [Kernel!Products -> {"absent"}]
        /\ old' \subseteq Kernel!Products /\ result' = "none"
        /\ UNCHANGED <<turn, running, took, edits, holds, errors, edited, missed>>
    BY <1>6 DEF Kernel!Clean, Kernel!Cleaned, BuildInv, Kernel!BuildTypeOK
  <2>2. Kernel!BuildTypeOK'
    BY <2>1 DEF BuildInv, Kernel!BuildTypeOK
  <2>3. HoldsNow' /\ NothingElse'
    BY <2>1, NothingMade DEF Current
  <2>4. TookNow' /\ GoneThrough'
    <3>1. turn = 0
      BY <1>6, GoalsAre
      DEF Kernel!Clean, Kernel!Making, BuildInv, Kernel!BuildTypeOK
    <3>2. running = FALSE
      BY <3>1, GoalsAre DEF BuildInv, Kernel!BuildTypeOK
    <3> QED
      BY <2>1, <3>1, <3>2, NotRunning
  <2>5. CutIsNoticed'
    BY <2>1, ProductsAre DEF CutIsNoticed, Kernel!Generated
  <2> QED
    BY <2>2, <2>3, <2>4, <2>5 DEF BuildInv
<1> QED
  BY <1>1, <1>2, <1>3, <1>4, <1>5, <1>6 DEF Kernel!BuildNext, Kernel!GoesOn

\* What a product holds that is made of products only.
LEMMA HoldsOfProducts ==
  ASSUME BuildInv, NEW s \in Named, NEW p \in Kernel!Products, Current(p),
         s \notin Kernel!Reads(p), s \notin Kernel!Rules[p],
         NEW q \in Kernel!Products, NEW r \in Kernel!Products,
         Kernel!Reads(p) \intersect Kernel!Products = {q, r}
  PROVE  /\ holds[p][s] \in {0, holds[q][s], holds[r][s]}
         /\ 0 <= holds[p][s]
         /\ holds[q][s] <= holds[p][s] /\ holds[r][s] <= holds[p][s]
<1>1. /\ s \in Kernel!Sources /\ s \in Unmissed(p)
      /\ holds[q][s] \in Nat /\ holds[r][s] \in Nat
  BY DEF Named, Unmissed, BuildInv, Kernel!BuildTypeOK
<1>2. holds[p][s] = Kernel!MadeOf(p)[s]
  BY <1>1 DEF BuildInv, HoldsNow
<1>3. holds[p][s] = Kernel!Max({0} \union
        {holds[x][s] : x \in Kernel!Reads(p) \intersect Kernel!Products})
  BY <1>1, <1>2 DEF Kernel!MadeOf
<1>4. {0} \union
        {holds[x][s] : x \in Kernel!Reads(p) \intersect Kernel!Products}
          = {0, holds[q][s], holds[r][s]}
  OBVIOUS
<1>5. holds[p][s] = Kernel!Max({0, holds[q][s], holds[r][s]})
  BY <1>3, <1>4
<1> QED
  BY <1>1, <1>5, MaxOfThree

\* What a product holds whose rule names a source, and it may be the one.
LEMMA HoldsOfSource ==
  ASSUME BuildInv, NEW s \in Named \ missed, NEW p \in Kernel!Products,
         Kernel!Needs(p) = {}, s \in Kernel!Rules[p] => Current(p)
  PROVE  holds[p][s] = IF s \in Kernel!Rules[p] THEN edits[s] ELSE 0
<1>1. CASE s \in Kernel!Rules[p]
  <2>1. s \in Kernel!Sources /\ s \in Unmissed(p) /\ s \in Kernel!Reads(p)
    BY <1>1 DEF Named, Unmissed, Kernel!Reads
  <2>2. holds[p][s] = Kernel!MadeOf(p)[s]
    BY <1>1, <2>1 DEF BuildInv, HoldsNow
  <2>3. Kernel!MadeOf(p)[s] = edits[s]
    BY <2>1 DEF Kernel!MadeOf
  <2> QED
    BY <1>1, <2>2, <2>3
<1>2. CASE s \notin Kernel!Rules[p]
  BY <1>2 DEF BuildInv, NothingElse
<1> QED
  BY <1>1, <1>2

\* At the end every product is whole, up to date unless its source was edited
\* meanwhile, and a source reaches the image along the rules.
LEMMA BuildInvImplies ==
  ASSUME BuildInv PROVE Kernel!ImageCurrent
<1> SUFFICES ASSUME Kernel!AtEnd, NEW s \in Named \ (edited \union missed)
             PROVE  holds["kernel.elf"][s] = edits[s]
  BY DEF Kernel!ImageCurrent, Named
<1>0. /\ s \in {"init.rb", "mui.rb", "serial.c"} /\ edits[s] \in Nat
      /\ \A p \in Kernel!Products : holds[p][s] \in Nat
  BY DEF Named, Kernel!Sources, BuildInv, Kernel!BuildTypeOK
<1>1. ASSUME NEW p \in Kernel!Products
      PROVE  /\ file[p] # "absent"
             /\ p \in old => Kernel!Rules[p] \intersect edited # {}
  <2>1. PICK i \in DOMAIN Kernel!Goals : p = Kernel!Goals[i]
    BY DEF Kernel!Products
  <2>2. i < turn
    BY GoalsAre DEF Kernel!AtEnd
  <2> QED
    BY <2>1, <2>2 DEF BuildInv, GoneThrough
<1>2. edited \subseteq Kernel!Sources
  BY DEF BuildInv, Kernel!BuildTypeOK
<1>3. \A p \in Kernel!Products : file[p] = "whole"
  <2>1. ~Kernel!Due("embedded_files.o")
    BY <1>1, <1>2, RulesAre, ProductsAre DEF Kernel!Due, Kernel!Sources
  <2>2. \A p \in Kernel!Products : file[p] # "cut"
    BY <2>1 DEF BuildInv, Kernel!BuildTypeOK, CutIsNoticed
  <2> QED
    BY <1>1, <2>2 DEF BuildInv, Kernel!BuildTypeOK
<1>4. \A p \in Kernel!Products :
        Kernel!Rules[p] \intersect edited = {} => Current(p)
  BY <1>1, <1>3 DEF Current
<1>5. /\ Current("embedded_files.o") /\ Current("kernel64.bin")
      /\ Current("boot.o") /\ Current("kernel.elf")
  BY <1>2, <1>4, RulesAre, ProductsAre DEF Kernel!Sources
<1>6. ASSUME NEW p \in {"generated_scripts.c", "generated_mui.c", "serial.o"}
      PROVE  holds[p][s] = IF s \in Kernel!Rules[p] THEN edits[s] ELSE 0
  <2>1. p \in Kernel!Products /\ Kernel!Needs(p) = {}
    BY RulesAre, ProductsAre DEF Kernel!Needs
  <2>2. s \in Kernel!Rules[p] => Kernel!Rules[p] = {s}
    BY RulesAre
  <2>3. s \in Kernel!Rules[p] => Current(p)
    BY <1>4, <2>1, <2>2
  <2> QED
    BY <2>1, <2>3, HoldsOfSource
<1>7. /\ holds["generated_scripts.c"][s] = IF s = "init.rb" THEN edits[s] ELSE 0
      /\ holds["generated_mui.c"][s] = IF s = "mui.rb" THEN edits[s] ELSE 0
      /\ holds["serial.o"][s] = IF s = "serial.c" THEN edits[s] ELSE 0
  BY <1>6, RulesAre
<1>8. holds["embedded_files.o"][s] =
        IF s \in {"init.rb", "mui.rb"} THEN edits[s] ELSE 0
  <2>1. /\ Kernel!Reads("embedded_files.o") \intersect Kernel!Products
             = {"generated_scripts.c", "generated_mui.c"}
        /\ s \notin Kernel!Reads("embedded_files.o")
        /\ s \notin Kernel!Rules["embedded_files.o"]
    BY <1>0, RulesAre, ReadsAre, ProductsAre
  <2>2. /\ holds["embedded_files.o"][s] \in
             {0, holds["generated_scripts.c"][s], holds["generated_mui.c"][s]}
        /\ holds["generated_scripts.c"][s] <= holds["embedded_files.o"][s]
        /\ holds["generated_mui.c"][s] <= holds["embedded_files.o"][s]
    BY <1>5, <2>1, ProductsAre, HoldsOfProducts
  <2> QED
    BY <1>0, <1>7, <2>2
<1>9. holds["kernel64.bin"][s] = edits[s]
  <2>1. /\ Kernel!Reads("kernel64.bin") \intersect Kernel!Products
             = {"embedded_files.o", "serial.o"}
        /\ s \notin Kernel!Reads("kernel64.bin")
        /\ s \notin Kernel!Rules["kernel64.bin"]
    BY <1>0, RulesAre, ReadsAre, ProductsAre
  <2>2. /\ holds["kernel64.bin"][s] \in
             {0, holds["embedded_files.o"][s], holds["serial.o"][s]}
        /\ holds["embedded_files.o"][s] <= holds["kernel64.bin"][s]
        /\ holds["serial.o"][s] <= holds["kernel64.bin"][s]
    BY <1>5, <2>1, ProductsAre, HoldsOfProducts
  <2> QED
    BY <1>0, <1>7, <1>8, <2>2
<1>10. holds["boot.o"][s] = edits[s]
  <2>1. /\ Kernel!Reads("boot.o") \intersect Kernel!Products
             = {"kernel64.bin", "kernel64.bin"}
        /\ s \notin Kernel!Reads("boot.o") /\ s \notin Kernel!Rules["boot.o"]
    BY <1>0, RulesAre, ReadsAre, ProductsAre
  <2>2. /\ holds["boot.o"][s] \in
             {0, holds["kernel64.bin"][s], holds["kernel64.bin"][s]}
        /\ holds["kernel64.bin"][s] <= holds["boot.o"][s]
    BY <1>5, <2>1, ProductsAre, HoldsOfProducts
  <2> QED
    BY <1>0, <1>9, <2>2
<1>11. /\ Kernel!Reads("kernel.elf") \intersect Kernel!Products
            = {"boot.o", "boot.o"}
       /\ s \notin Kernel!Reads("kernel.elf")
       /\ s \notin Kernel!Rules["kernel.elf"]
  BY <1>0, RulesAre, ReadsAre, ProductsAre
<1>12. /\ holds["kernel.elf"][s] \in {0, holds["boot.o"][s], holds["boot.o"][s]}
       /\ holds["boot.o"][s] <= holds["kernel.elf"][s]
  BY <1>5, <1>11, ProductsAre, HoldsOfProducts
<1> QED
  BY <1>0, <1>10, <1>12

\* When make has gone through all its goals (Makefile:149-183), the image holds
\* every source the rules name as it is now, after any edits, at any moment of
\* any make, any failures and cleanings; but for a source edited since this make
\* began, and one last edited while its own compile ran, of which the image may
\* hold what was there before.  The variables of setup and of make keep their
\* types.
THEOREM ImageStaysCurrent == MCSpec => []ImageCurrent
<1>1. MCInit => RunInv /\ BuildInv
  BY SetupAssumed, BuildAssumed, InitRunInv, InitBuildInv DEF MCInit
<1>2. ASSUME RunInv, BuildInv, [MCNext]_bothVars PROVE RunInv' /\ BuildInv'
  <2>1. CASE [Next]_vars /\ UNCHANGED buildVars
    <3>1. RunInv'
      BY <1>2, <2>1, SetupAssumed, NextRunInv
    <3>2. UNCHANGED <<turn, running, took, edits, file, old, holds, result,
                      errors, edited, missed>>
      BY <2>1 DEF buildVars
    <3>3. Kernel!BuildTypeOK'
      BY <1>2, <3>2 DEF BuildInv, Kernel!BuildTypeOK
    <3>4. HoldsNow' /\ NothingElse'
      BY <1>2, <3>2, NothingMade DEF Current
    <3>5. TookNow'
      <4>1. Kernel!MadeOf(Kernel!Goals[turn])' = Kernel!MadeOf(Kernel!Goals[turn])
        BY <3>2 DEF Kernel!MadeOf
      <4> QED
        BY <1>2, <3>2, <4>1
        DEF BuildInv, TookNow, Unmissed, Kernel!Due, Kernel!Needs
    <3>6. GoneThrough' /\ CutIsNoticed'
      BY <1>2, <3>2 DEF BuildInv, GoneThrough, CutIsNoticed, Kernel!Due
    <3> QED
      BY <3>1, <3>3, <3>4, <3>5, <3>6 DEF BuildInv
  <2>2. CASE Kernel!BuildNext /\ UNCHANGED vars
    <3>1. RunInv'
      BY <1>2, <2>2, SetupAssumed, NextRunInv
    <3>2. BuildInv'
      BY <1>2, <2>2, BuildAssumed, NextBuildInv
    <3> QED
      BY <3>1, <3>2
  <2> QED
    BY <1>2, <2>1, <2>2 DEF MCNext, bothVars
<1>3. RunInv /\ BuildInv => ImageCurrent
  BY BuildInvImplies DEF RunInv, BuildInv, ImageCurrent
<1> QED
  BY <1>1, <1>2, <1>3, PTL DEF MCSpec
=============================================================================
