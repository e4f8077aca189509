----------------------------- MODULE SetupStages -----------------------------
(***************************************************************************)
(* `make setup` (Makefile:81-143): three clones, three patches, two builds *)
(* of CRuby and one of musl, each stage guarded by a test for one file.    *)
(*                                                                         *)
(* A run is a sequence of commands.  Any may fail, which ends the run      *)
(* unless the recipe says otherwise, and the run may be killed between two *)
(* commands or within one.  What earlier runs left is all the next knows.  *)
(***************************************************************************)
EXTENDS Naturals, Sequences

CONSTANTS
  Removed,    \* the objects of libc.a setup-musl removes, in its order
  MaxFaults   \* bound: commands that fail and runs that are killed

SetupAssumption ==
  /\ Removed \in Seq(STRING) /\ MaxFaults \in Nat

\* The third-party sources, in the order of the recipes.
Order == <<"cruby", "musl", "mui">>
Trees == {"cruby", "musl", "mui"}
Objects == {Removed[i] : i \in DOMAIN Removed}

VARIABLES
  pc,        \* the command that is next; "idle" between runs
  todo,      \* the trees, or objects, that command still has to go through
  outcome,   \* of the last run: "none", "complete", "failed", "killed"
  tree,      \* each tree: "absent", "partial", "clean", "mixed", "patched"
  locked,    \* the trees that hold git's lock, index.lock, without a git
  adapter,   \* the terminal adapter is in mui's tree
  libc,      \* libc_ruby_on_bare_metal.a: "absent", "short" or "there"
  objects,   \* which of those it still holds
  host,      \* what the host build made of {"miniruby", "rbbin"}
  libruby,   \* libruby-static.a is there
  found,     \* the stages this run took for done
  hit,       \* a command of this run failed, or the run was killed
  ignored,   \* a removal failed in this run
  faults     \* how many commands failed or runs were killed

made == <<tree, locked, adapter, libc, objects, host, libruby>>
vars == <<pc, todo, outcome, made, found, hit, ignored, faults>>

Init ==
  /\ pc = "idle" /\ todo = <<>> /\ outcome = "none"
  /\ tree = [t \in Trees |-> "absent"] /\ locked = {} /\ adapter = FALSE
  /\ libc = "absent" /\ objects = {} /\ host = {} /\ libruby = FALSE
  /\ found = {} /\ hit = FALSE /\ ignored = FALSE /\ faults = 0

-----------------------------------------------------------------------------
(* What a stage promises. *)

MuslDone == libc = "there" /\ objects = {}
HostDone == host = {"miniruby", "rbbin"}

\* The file each stage looks for.
FoundMusl == libc # "absent"
FoundHost == "miniruby" \in host

-----------------------------------------------------------------------------
(* Commands, runs and faults. *)

Onto(next, over) == pc' = next /\ todo' = over /\ UNCHANGED outcome
Stops(how) == pc' = "idle" /\ todo' = <<>> /\ outcome' = how

Fine == UNCHANGED <<found, hit, ignored, faults>>
Fault ==
  /\ faults < MaxFaults /\ faults' = faults + 1 /\ hit' = TRUE
  /\ UNCHANGED <<found, ignored>>

\* What follows a command that fails: the end of the run.  A defect: commands
\* joined by a semicolon where the recipes have &&.
GoesOn(next) == Onto(next, <<>>)
AfterFailure(next) == Stops("failed")
Broken(next) == Fault /\ (Stops("killed") \/ AfterFailure(next))

\* make setup, for the first time or again.
Start ==
  /\ pc = "idle"
  /\ Onto("clone", Order)
  /\ found' = {} /\ hit' = FALSE /\ ignored' = FALSE
  /\ UNCHANGED <<made, faults>>

\* make distclean, when a run has failed: the products of musl and of CRuby lie
\* in their trees.  A defect: a tree is left out.
AllButOne == Trees \ {"cruby"}
Cleaned == Trees
DistClean ==
  /\ pc = "idle" /\ outcome = "failed"
  /\ tree' = [t \in Trees |-> IF t \in Cleaned THEN "absent" ELSE tree[t]]
  /\ locked' = locked \ Cleaned /\ adapter' = (adapter /\ "mui" \notin Cleaned)
  /\ IF "musl" \in Cleaned THEN libc' = "absent" /\ objects' = {}
     ELSE UNCHANGED <<libc, objects>>
  /\ IF "cruby" \in Cleaned THEN host' = {} /\ libruby' = FALSE
     ELSE UNCHANGED <<host, libruby>>
  /\ outcome' = "none" /\ UNCHANGED <<pc, todo>> /\ Fine

\* setup-clone: `test -d .git ||` a clone.  One that fails removes what it
\* made; one that is killed leaves a directory without the files.
Clone ==
  /\ pc = "clone"
  /\ UNCHANGED <<locked, adapter, libc, objects, host, libruby>>
  /\ \/ todo = <<>> /\ Onto("patch", Order) /\ UNCHANGED tree /\ Fine
     \/ /\ todo # <<>> /\ Onto("clone", Tail(todo)) /\ Fine
        /\ tree' = IF tree[Head(todo)] # "absent" THEN tree
                   ELSE [tree EXCEPT ![Head(todo)] = "clean"]
     \/ /\ todo # <<>> /\ tree[Head(todo)] = "absent" /\ Fault
        /\ \/ Stops("failed") /\ UNCHANGED tree
           \/ Stops("killed") /\ tree' = [tree EXCEPT ![Head(todo)] = "partial"]

\* setup-patch: a checkout whose failure is not looked at, then the patch,
\* which applies to the files as they were released.  A defect: no checkout.
AppliesOnce(t) == tree[t] = "clean"
Applies(t) ==
  tree[t] = "clean" \/ (tree[t] \in {"mixed", "patched"} /\ t \notin locked)

\* A checkout that is killed leaves some files patched, and its lock, at which
\* every later one fails; the patch that is killed, some files patched.
PatchFault(t) ==
  /\ Fault
  /\ \/ /\ t \notin locked /\ Stops("killed") /\ locked' = locked \union {t}
        /\ tree' = [tree EXCEPT ![t] = IF @ = "patched" THEN "mixed" ELSE @]
     \/ /\ Stops("killed") \/ Stops("failed")
        /\ tree' = [tree EXCEPT ![t] = IF Applies(t) THEN "clean" ELSE @]
        /\ UNCHANGED locked
     \/ /\ Applies(t) /\ Stops("killed")
        /\ tree' = [tree EXCEPT ![t] = "mixed"] /\ UNCHANGED locked

Patch ==
  /\ pc = "patch"
  /\ UNCHANGED <<adapter, libc, objects, host, libruby>>
  /\ \/ todo = <<>> /\ Onto("cp adapter", <<>>) /\ UNCHANGED <<tree, locked>> /\ Fine
     \/ /\ todo # <<>> /\ Applies(Head(todo))
        /\ Onto("patch", Tail(todo)) /\ UNCHANGED locked /\ Fine
        /\ tree' = [tree EXCEPT ![Head(todo)] = "patched"]
     \/ /\ todo # <<>> /\ ~Applies(Head(todo)) /\ Stops("failed") /\ Fine
        /\ UNCHANGED <<tree, locked>>
     \/ todo # <<>> /\ PatchFault(Head(todo))

CopyAdapter ==
  /\ pc = "cp adapter"
  /\ UNCHANGED <<tree, locked, libc, objects, host, libruby>>
  /\ \/ adapter' = TRUE /\ Onto("musl", <<>>) /\ Fine
     \/ adapter' = FALSE /\ Fault /\ (Stops("killed") \/ Stops("failed"))

-----------------------------------------------------------------------------
(* setup-musl. *)

TestMusl ==
  /\ pc = "musl"
  /\ Onto(IF FoundMusl THEN "host" ELSE "libc.a", <<>>)
  /\ found' = IF FoundMusl THEN found \union {"musl"} ELSE found
  /\ UNCHANGED <<made, hit, ignored, faults>>

\* configure, make and make install: nothing of them outlives a fault that the
\* next run does not do again.
BuildMusl ==
  /\ pc = "libc.a" /\ UNCHANGED made
  /\ \/ Onto("cp", <<>>) /\ Fine
     \/ Broken("cp")

\* cp lib/libc.a: the file is there before it is whole.
CopyLibc ==
  /\ pc = "cp" /\ UNCHANGED <<tree, locked, adapter, host, libruby>>
  /\ \/ libc' = "there" /\ objects' = Objects /\ Onto("ar d", Removed) /\ Fine
     \/ libc' = "short" /\ UNCHANGED objects /\ Broken("ar d")

\* The loop of llvm-ar d, each with `|| true`.
RemoveObjects ==
  /\ pc = "ar d" /\ UNCHANGED <<tree, locked, adapter, libc, host, libruby>>
  /\ \/ todo = <<>> /\ Onto("host", <<>>) /\ UNCHANGED objects /\ Fine
     \/ /\ todo # <<>> /\ Onto("ar d", Tail(todo)) /\ Fine
        /\ objects' = objects \ {Head(todo)}
     \/ /\ todo # <<>> /\ Onto("ar d", Tail(todo)) /\ ignored' = TRUE
        /\ faults < MaxFaults /\ faults' = faults + 1 /\ hit' = TRUE
        /\ UNCHANGED <<objects, found>>
     \/ todo # <<>> /\ Fault /\ Stops("killed") /\ UNCHANGED objects

-----------------------------------------------------------------------------
(* setup-cruby-host and setup-cruby-cross. *)

TestHost ==
  /\ pc = "host"
  /\ Onto(IF FoundHost THEN "cross" ELSE "miniruby", <<>>)
  /\ found' = IF FoundHost THEN found \union {"host"} ELSE found
  /\ UNCHANGED <<made, hit, ignored, faults>>

\* The two commands of the host build, joined by &&.
Compile(c, product, next) ==
  /\ pc = c /\ UNCHANGED <<tree, locked, adapter, libc, objects, libruby>>
  /\ \/ host' = host \union {product} /\ Onto(next, <<>>) /\ Fine
     \/ UNCHANGED host /\ Broken(next)

BuildHost ==
  \/ Compile("miniruby", "miniruby", "rbbin")
  \/ Compile("rbbin", "rbbin", "cross")

\* The archive is made of a whole set of objects or not at all; builtin.c
\* includes builtin_binary.rbbin.
BuildCross ==
  /\ pc = "cross" /\ UNCHANGED <<tree, locked, adapter, libc, objects, host>>
  /\ \/ /\ libruby /\ found' = found \union {"cross"} /\ Stops("complete")
        /\ UNCHANGED <<libruby, hit, ignored, faults>>
     \/ ~libruby /\ HostDone /\ libruby' = TRUE /\ Stops("complete") /\ Fine
     \/ ~libruby /\ ~HostDone /\ Stops("failed") /\ UNCHANGED libruby /\ Fine
     \/ ~libruby /\ UNCHANGED libruby /\ Broken("idle")

-----------------------------------------------------------------------------
Command ==
  \/ Clone \/ Patch \/ CopyAdapter
  \/ TestMusl \/ BuildMusl \/ CopyLibc \/ RemoveObjects
  \/ TestHost \/ BuildHost \/ BuildCross
Next == Start \/ DistClean \/ Command

\* Commands end, and the user neither stops trying nor only tries again what
\* keeps failing.
Fairness == WF_vars(Command) /\ WF_vars(Start) /\ SF_vars(DistClean)
Spec == Init /\ [][Next]_vars /\ Fairness

-----------------------------------------------------------------------------
TypeOK ==
  /\ pc \in {"idle", "clone", "patch", "cp adapter", "musl", "libc.a", "cp",
             "ar d", "host", "miniruby", "rbbin", "cross"}
  /\ todo \in Seq(Trees \union Objects)
  /\ outcome \in {"none", "complete", "failed", "killed"}
  /\ tree \in [Trees -> {"absent", "partial", "clean", "mixed", "patched"}]
  /\ locked \subseteq Trees
  /\ adapter \in BOOLEAN /\ libc \in {"absent", "short", "there"}
  /\ objects \subseteq Objects /\ host \subseteq {"miniruby", "rbbin"}
  /\ libruby \in BOOLEAN /\ found \subseteq {"musl", "host", "cross"}
  /\ hit \in BOOLEAN /\ ignored \in BOOLEAN /\ faults \in 0 .. MaxFaults

\* When a run says "Setup complete", all it did itself is whole: every tree is
\* patched and every product it did not find is finished, but for removals that
\* failed, which the recipe ignores.
BuiltIsComplete ==
  pc = "idle" /\ outcome = "complete" =>
    /\ \A t \in Trees : tree[t] = "patched"
    /\ adapter /\ libruby
    /\ "musl" \in found \/ ignored \/ MuslDone
    /\ "host" \in found \/ HostDone

\* A run in which nothing goes wrong fails for one of three reasons only, all
\* left by an earlier run: a clone that was killed, a checkout that was killed
\* in a tree that was patched, or a host build that ended after miniruby.
\* Nothing finished stops a run that repeats it.
Stuck(t) == tree[t] = "partial" \/ (t \in locked /\ tree[t] # "clean")
FailsForAReason ==
  pc = "idle" /\ outcome = "failed" /\ ~hit =>
    (\E t \in Trees : Stuck(t)) \/ host = {"miniruby"}

\* Whatever failed or was killed, distclean and another run set things right:
\* setup gets complete again and again.
Recovers == []<>(outcome = "complete")

\* README.md:88: "Each stage is idempotent -- re-running `make setup` skips
\* already-completed steps."  So what a run skips is complete.
SkippedIsComplete == "musl" \in found => MuslDone
=============================================================================
