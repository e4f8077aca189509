----------------------------- MODULE VfsRequire -----------------------------
(***************************************************************************)
(* require and require_relative of the shell (ruby/scripts/init.rb), over  *)
(* the writable file system $vfs and the files embedded in the kernel.     *)
(*                                                                         *)
(* Files hold statements: they require each other, in cycles too, write    *)
(* and delete files (each other included) and raise.  A file is evaluated  *)
(* on a stack, one statement per step; between two commands the stack is   *)
(* empty.  A path is a sequence of components, the first "" when it is     *)
(* absolute, with the number of times it ends in ".rb".                    *)
(***************************************************************************)
EXTENDS SequencesExt, FiniteSets, Integers, TLC

CONSTANTS
  Text,          \* the contents files may have
  Code,          \* their statements: [Text -> Seq(Statement)]
  Embedded,      \* the files in the kernel image: a function from paths to Text
  VfsAtBoot,     \* the files init.rb writes: a function from paths to Text
  Written,       \* the paths programs write and delete
  STUB_MODULES,  \* names require answers without looking
  Typed          \* the statements typed at the shell

VARIABLES
  vfs,        \* $vfs: a function from some paths to Text
  loaded,     \* $LOADED_FEATURES_VFS: the paths marked true
  stack,      \* the evaluations in progress, the innermost last
  evaluated   \* the paths require and require_relative have evaluated

vars == <<vfs, loaded, stack, evaluated>>

\* Files hold statements, and programs write files that do; paths and the names
\* of files required are sequences of components, and no file's path ends in "/".
Statements == Typed \cup UNION {Range(Code[t]) : t \in Text}
IsSequence(at) == at \in Seq(Range(at))
ProgramsAssumption ==
  /\ Code \in [Text -> Seq(Statements)]
  /\ Range(Embedded) \cup Range(VfsAtBoot) \subseteq Text
  /\ \A s \in Statements :
       /\ s.op = "write" => s.path \in Written /\ s.text \in Text
       /\ s.op = "require_relative" => IsSequence(s.name.at) /\ s.name.at # <<>>
  /\ \A p \in DOMAIN Embedded \cup DOMAIN VfsAtBoot \cup Written :
       IsSequence(p.at) /\ (p.rb = 0 => Last(p.at) # "")

Path(at, rb) == [at |-> at, rb |-> rb]
AtLeastOne(rb) == IF rb = 0 THEN 1 ELSE rb

\* The path the shell gives what is typed at its prompt.
Prompt == Path(<<"(eval)">>, 0)

Frame(path, body) == [path |-> path, body |-> body, next |-> 1]
Top == Last(stack)
Busy == stack # <<>>
Finished == Top.next > Len(Top.body)
Current == Top.body[Top.next]
Executes(op) == Busy /\ ~Finished /\ Current.op = op

\* File.read with VFS first, then the embedded files.
Exists(path) == path \in DOMAIN vfs \/ path \in DOMAIN Embedded
FileRead(path) == IF path \in DOMAIN vfs THEN vfs[path] ELSE Embedded[path]

Init ==
  /\ vfs = VfsAtBoot
  /\ loaded = {}
  /\ stack = <<>>
  /\ evaluated = {}

-----------------------------------------------------------------------------
\* Going on with the next statement of the innermost evaluation.
Advanced(s) == IF s = <<>> THEN s ELSE [s EXCEPT ![Len(s)].next = @ + 1]
GoOn == stack' = Advanced(stack) /\ UNCHANGED <<loaded, evaluated>>

\* An exception ends every evaluation up to the innermost that rescues it; the
\* shell's loop rescues what none does.
Rescues(k) == stack[k].body[stack[k].next].rescued
Unwinds ==
  \/ /\ \A k \in 1 .. Len(stack) : ~Rescues(k)
     /\ stack' = <<>>
  \/ \E k \in 1 .. Len(stack) :
       /\ Rescues(k) /\ \A j \in k + 1 .. Len(stack) : ~Rescues(j)
       /\ stack' = Advanced(SubSeq(stack, 1, k))

Raise ==
  /\ Executes("raise")
  /\ Unwinds
  /\ UNCHANGED <<vfs, loaded, evaluated>>

\* Marked first, evaluated second.  A defect: no mark.
MarkedNot(path) == loaded
Marked(path) == loaded \cup {path}
Evaluate(path) ==
  /\ loaded' = Marked(path)
  /\ evaluated' = evaluated \cup {path}
  /\ stack' = Append(stack, Frame(path, Code[FileRead(path)]))

\* The candidates of a name, in their order.
Candidates(name) ==
  << Path(<<"", "lib">> \o name.at, name.rb + 1),
     Path(<<"", "lib">> \o name.at, name.rb),
     Path(name.at, AtLeastOne(name.rb)) >>

\* `next if` of a candidate, and the defect of leaving it out.
AlwaysFresh(path) == TRUE
Fresh(path) == path \notin loaded
Usable(path) == Fresh(path) /\ Exists(path)

\* original_require of a name no candidate answers finds nothing either: its
\* LoadError is rescued.
Require ==
  /\ Executes("require")
  /\ LET paths == Candidates(Current.name)
     IN  \/ Current.name \in STUB_MODULES /\ GoOn
         \/ /\ Current.name \notin STUB_MODULES
            /\ \E i \in DOMAIN paths :
                 /\ Usable(paths[i])
                 /\ \A j \in 1 .. i - 1 : ~Usable(paths[j])
                 /\ Evaluate(paths[i])
         \/ /\ Current.name \notin STUB_MODULES
            /\ \A i \in DOMAIN paths : ~Usable(paths[i])
            /\ GoOn
  /\ UNCHANGED vfs

\* The components of a path, resolved one by one, and a defect: "." stays.
ComponentKeepsDot(resolved, p) ==
  IF p = ".." THEN IF resolved = <<>> THEN <<>> ELSE Front(resolved)
  ELSE Append(resolved, p)
Component(resolved, p) ==
  CASE p = ".." -> IF resolved = <<>> THEN <<>> ELSE Front(resolved)
    [] p \in {".", ""} -> resolved
    [] OTHER -> Append(resolved, p)
Normalized(parts) ==
  LET resolved[i \in 0 .. Len(parts)] ==
        IF i = 0 THEN <<>> ELSE Component(resolved[i - 1], parts[i])
  IN  resolved[Len(parts)]

\* A name beside the file at `caller`.  It ends in ".rb" before the path is
\* split: its last component is a file's name, were it "..", "." or "" before.
Folders(caller, name) == Front(caller.at) \o Front(name.at)
Resolve(caller, name) ==
  Path(<<"">> \o Normalized(Folders(caller, name)) \o <<Last(name.at)>>,
       AtLeastOne(name.rb))

\* original_require_relative of a missing file raises LoadError.
RequireRelative ==
  /\ Executes("require_relative")
  /\ LET full == Resolve(Top.path, Current.name)
     IN  \/ ~Fresh(full) /\ GoOn
         \/ Usable(full) /\ Evaluate(full)
         \/ /\ Fresh(full) /\ ~Exists(full)
            /\ Unwinds
            /\ UNCHANGED <<loaded, evaluated>>
  /\ UNCHANGED vfs

\* File.write, the write command and a saved editor buffer.
Write ==
  /\ Executes("write")
  /\ vfs' = [p \in DOMAIN vfs \cup {Current.path} |->
                IF p = Current.path THEN Current.text ELSE vfs[p]]
  /\ GoOn

\* VFS.delete and the rm command: an embedded file of that name shows again.
Delete ==
  /\ Executes("delete")
  /\ vfs' = [p \in DOMAIN vfs \ {Current.path} |-> vfs[p]]
  /\ GoOn

\* The end of a file: its require has returned true.
Return ==
  /\ Busy
  /\ Finished
  /\ stack' = Advanced(Front(stack))
  /\ UNCHANGED <<vfs, loaded, evaluated>>

-----------------------------------------------------------------------------
\* A line at the prompt that is no command.
TypeExpression ==
  /\ ~Busy
  /\ \E statement \in Typed : stack' = <<Frame(Prompt, <<statement>>)>>
  /\ UNCHANGED <<vfs, loaded, evaluated>>

\* The run command: writable files only, and no mark.
Run ==
  /\ ~Busy
  /\ \E path \in DOMAIN vfs : stack' = <<Frame(path, Code[vfs[path]])>>
  /\ UNCHANGED <<vfs, loaded, evaluated>>

Step ==
  \/ Raise
  \/ Require
  \/ RequireRelative
  \/ Write
  \/ Delete
  \/ Return

Next == Step \/ TypeExpression \/ Run
Spec == Init /\ [][Next]_vars

-----------------------------------------------------------------------------
\* Every file in progress was marked, but for the first, which is the prompt or
\* a file that was run; every evaluation is within the statements of a file.
TypeOK ==
  /\ DOMAIN vfs \subseteq DOMAIN VfsAtBoot \cup Written
  /\ \A p \in DOMAIN vfs : vfs[p] \in Text
  /\ \A k \in 1 .. Len(stack) :
       /\ stack[k].next \in 1 .. Len(stack[k].body) + 1
       /\ k > 1 => stack[k].path \in loaded

\* No path is evaluated twice by require and require_relative, however often
\* and under whatever names files require each other or themselves, are
\* rewritten or deleted meanwhile, or end by raising (init.rb:34, 40, 73, 77).
EvaluatedOnce ==
  [][Len(stack') > Len(stack) /\ Busy => Last(stack').path \notin evaluated]_vars

\* Files that require each other in a cycle do not exhaust the stack: at any
\* time there are at most as many evaluations within each other as there are
\* marked files, and the first (init.rb:40, 77: the mark comes before eval).
DepthBounded == Len(stack) <= Cardinality(loaded) + 1

\* What a relative name means, said without resolving it step by step: of the
\* folders on the way a component stays unless it is no name or a later ".."
\* takes it back; the last component, with its ".rb", is the file's own name.
Ordinary(p) == p \notin {"..", ".", ""}
Names(parts, i, j) == Cardinality({k \in i .. j : Ordinary(parts[k])})
Ups(parts, i, j) == Cardinality({k \in i .. j : parts[k] = ".."})
Stays(parts, i) ==
  /\ Ordinary(parts[i])
  /\ \A j \in i + 1 .. Len(parts) : Ups(parts, i + 1, j) <= Names(parts, i + 1, j)
Place(set, k) == CHOOSE i \in set : Cardinality({j \in set : j <= i}) = k
Meant(caller, name) ==
  LET parts == Folders(caller, name)
      staying == {i \in DOMAIN parts : Stays(parts, i)}
      at == [k \in 1 .. Cardinality(staying) |-> parts[Place(staying, k)]]
  IN  Path(<<"">> \o at \o <<Last(name.at)>>, AtLeastOne(name.rb))

\* require_relative raises LoadError only when the file its name means, seen
\* from the file that asks, is neither there nor loaded, and otherwise leaves
\* that file marked (init.rb:55-77).
RelativeFindsNeighbour ==
  [][Executes("require_relative")
       => LET meant == Meant(Top.path, Current.name)
          IN  meant \in loaded' <=> meant \in loaded \/ Exists(meant)]_vars

=============================================================================
