----------------------------- MODULE KernelBuild -----------------------------
(***************************************************************************)
(* `make` (Makefile:149-183): the kernel's image from the Ruby scripts,    *)
(* mui's files and the C and assembler sources, built again after edits.   *)
(*                                                                         *)
(* make compares times: a product is made again if a prerequisite of its   *)
(* rule is younger.  What its commands read may be more than that.         *)
(***************************************************************************)
EXTENDS Naturals, Sequences, FiniteSetsExt

CONSTANTS
  MaxEdits,   \* bound: edits
  MaxErrors   \* bound: commands that fail

BuildAssumption == MaxEdits \in Nat /\ MaxErrors \in Nat

\* Sources and products: an example of each kind the rules tell
\* apart, the products in the order make comes to them.
Sources == {"init.rb", "mui.rb", "editor.rb", "kernel.h", "serial.c"}
Goals == <<"generated_scripts.c", "generated_mui.c", "embedded_files.o",
           "serial.o", "kernel64.bin", "boot.o", "kernel.elf">>
Products == {Goals[i] : i \in DOMAIN Goals}

\* The prerequisites of each rule, but for linker scripts and assembler sources.
\* A defect: boot.o, which includes the binary kernel, does not depend on it.
RulesWithoutKernel ==
  [p \in Products |->
     CASE p = "generated_scripts.c" -> {"init.rb"}
       [] p = "generated_mui.c" -> {"mui.rb"}
       [] p = "embedded_files.o" -> {"generated_scripts.c", "generated_mui.c"}
       [] p = "serial.o" -> {"serial.c"}
       [] p = "kernel64.bin" -> {"embedded_files.o", "serial.o"}
       [] p = "boot.o" -> {}
       [] p = "kernel.elf" -> {"boot.o"}]
Rules == [RulesWithoutKernel EXCEPT !["boot.o"] = {"kernel64.bin"}]

\* What the commands read: all of mui's files, and the headers.
Reads(p) ==
  Rules[p] \union
    CASE p = "generated_mui.c" -> {"editor.rb"}
      [] p \in {"embedded_files.o", "serial.o"} -> {"kernel.h"}
      [] p = "boot.o" -> {"kernel64.bin"}
      [] OTHER -> {}

VARIABLES
  turn,      \* make has come to Goals[turn]; 0: make is not running
  running,   \* the commands of that goal's rule have begun
  took,      \* what they have read, as numbers of edits
  edits,     \* each source: how often it was edited
  file,      \* each product: "absent", "cut" or "whole"
  old,       \* the products a prerequisite of which is younger
  holds,     \* each product: what it was made of, as numbers of edits
  result,    \* of the last make: "none", "built", "failed"
  errors,    \* how many commands failed
  edited,    \* history: the sources edited since this make began
  missed     \* history: those last edited while a command that reads them ran

buildVars == <<turn, running, took, edits, file, old, holds, result, errors,
               edited, missed>>
Nothing == [s \in Sources |-> 0]

BuildInit ==
  /\ turn = 0 /\ running = FALSE /\ took = Nothing /\ edits = Nothing
  /\ file = [p \in Products |-> "absent"] /\ old = {}
  /\ holds = [p \in Products |-> Nothing]
  /\ result = "none" /\ errors = 0 /\ edited = {} /\ missed = {}

-----------------------------------------------------------------------------
Making == turn > 0
AtEnd == turn = Len(Goals) + 1
Turn(p) == turn \in DOMAIN Goals /\ p = Goals[turn]
Due(p) == file[p] = "absent" \/ p \in old
DependsOn(f) == {p \in Products : f \in Rules[p]}
Needs(p) == Rules[p] \intersect Products

\* What a product is made of: the sources read, and what the products read hold.
MadeOf(p) ==
  [s \in Sources |->
     IF s \in Reads(p) THEN edits[s]
     ELSE Max({0} \union {holds[q][s] : q \in Reads(p) \intersect Products})]

\* An editor saves a source, at any time: while a compiler has read it but not
\* yet written its object, too.
EditsSoFar == MapThenSumSet(LAMBDA s : edits[s], Sources)
Edit(s) ==
  /\ EditsSoFar < MaxEdits
  /\ edits' = [edits EXCEPT ![s] = @ + 1]
  /\ old' = old \union DependsOn(s)
  /\ edited' = IF Making THEN edited \union {s} ELSE edited
  /\ missed' = IF running /\ s \in Rules[Goals[turn]] THEN missed \union {s}
               ELSE missed \ {s}
  /\ UNCHANGED <<turn, running, took, file, holds, result, errors>>

Make ==
  /\ ~Making /\ turn' = 1 /\ result' = "none"
  /\ UNCHANGED <<running, took, edits, file, old, holds, errors, edited, missed>>

\* A product that is younger than what its rule names is left alone.
Skip(p) ==
  /\ Turn(p) /\ ~running /\ ~Due(p) /\ turn' = turn + 1
  /\ UNCHANGED <<running, took, edits, file, old, holds, result, errors, edited,
                 missed>>

Begin(p) ==
  /\ Turn(p) /\ ~running /\ Due(p) /\ \A q \in Needs(p) : file[q] = "whole"
  /\ running' = TRUE /\ took' = MadeOf(p) /\ missed' = missed \ Rules[p]
  /\ UNCHANGED <<turn, edits, file, old, holds, result, errors, edited>>

\* The product is as young as its last byte: younger than an edit made since
\* the command read the source.
Gives(p, state) ==
  /\ file' = [file EXCEPT ![p] = state]
  /\ old' = (old \ {p}) \union DependsOn(p)
Done(p) == Gives(p, "whole") /\ holds' = [holds EXCEPT ![p] = took]

Finish(p) ==
  /\ Turn(p) /\ running /\ Done(p)
  /\ turn' = turn + 1 /\ running' = FALSE /\ took' = Nothing
  /\ UNCHANGED <<edits, result, errors, edited, missed>>

Stops(outcome) ==
  /\ turn' = 0 /\ running' = FALSE /\ took' = Nothing
  /\ result' = outcome /\ edited' = {}

\* A command that fails may have written nothing yet; what it wrote is removed by
\* the compiler and the linker or, after an interrupt, by make.  The generated
\* files are written straight: mui's from the start, the scripts' after two
\* commands that write to another name and before one that may fail as well.
Generated == {"generated_scripts.c", "generated_mui.c"}
Fails(p) ==
  /\ Turn(p) /\ running
  /\ errors < MaxErrors /\ errors' = errors + 1
  /\ \/ UNCHANGED <<file, old, holds>>
     \/ file' = [file EXCEPT ![p] = "absent"] /\ UNCHANGED <<old, holds>>
     \/ p \in Generated /\ Gives(p, "cut") /\ UNCHANGED holds
     \/ p = "generated_scripts.c" /\ Done(p)
  /\ Stops("failed") /\ UNCHANGED <<edits, missed>>

\* The table is missing from a file that was cut: the compiler says so.
Refuses(p) ==
  /\ Turn(p) /\ ~running /\ Due(p) /\ \E q \in Needs(p) : file[q] = "cut"
  /\ Stops("failed") /\ UNCHANGED <<edits, file, old, holds, errors, missed>>

Built ==
  /\ AtEnd /\ Stops("built")
  /\ UNCHANGED <<edits, file, old, holds, errors, missed>>

\* make clean.  A defect: it leaves a generated file.
CleanedAllBut == Products \ {"generated_mui.c"}
Cleaned == Products
Clean ==
  /\ ~Making /\ result = "failed" /\ result' = "none"
  /\ file' = [p \in Products |-> IF p \in Cleaned THEN "absent" ELSE file[p]]
  /\ old' = old \ Cleaned
  /\ UNCHANGED <<turn, running, took, edits, holds, errors, edited, missed>>

GoesOn ==
  Built \/ \E p \in Products : Skip(p) \/ Begin(p) \/ Finish(p) \/ Refuses(p)
BuildNext ==
  \/ Make \/ Clean \/ GoesOn
  \/ \E s \in Sources : Edit(s)
  \/ \E p \in Products : Fails(p)

\* Commands end; the user does not stop making, and cleans at last after a
\* make that failed.
BuildFairness ==
  WF_buildVars(GoesOn) /\ WF_buildVars(Make) /\ SF_buildVars(Clean)

-----------------------------------------------------------------------------
\* No product but the generated files is ever cut.
BuildTypeOK ==
  /\ turn \in 0 .. Len(Goals) + 1 /\ running \in BOOLEAN
  /\ running => turn \in DOMAIN Goals
  /\ took \in [Sources -> Nat] /\ edits \in [Sources -> Nat]
  /\ file \in [Products -> {"absent", "cut", "whole"}] /\ old \subseteq Products
  /\ \A p \in Products : file[p] = "cut" => p \in Generated
  /\ holds \in [Products -> [Sources -> Nat]]
  /\ result \in {"none", "built", "failed"} /\ errors \in 0 .. MaxErrors
  /\ edited \subseteq Sources /\ missed \subseteq Sources

\* When make has gone through all its goals, the image holds every source as it
\* is now, except: what was edited since this make began; what a rule reads
\* without naming it (a header, or a file of mui other than mui.rb); and a
\* source saved while its own compile was running, in this make or an earlier
\* one.  That object is younger than the edit and holds what was there before:
\* the image stays stale until the file is saved again or make clean is run.
ImageCurrent ==
  AtEnd =>
    \A s \in Sources \ ({"kernel.h", "editor.rb"} \union edited \union missed) :
      holds["kernel.elf"][s] = edits[s]

\* A generator that failed never gets into an image, and make clean is always
\* enough: there is a next image.
BuildRecovers == []<>(result = "built" /\ \A p \in Products : file[p] = "whole")
=============================================================================
