------------------------------ MODULE BootChain ------------------------------
(***************************************************************************)
(* From the boot loader to Ruby, in both builds: boot.S or the UEFI shim,  *)
(* entry64.S, kernel_main, the C part of Ruby's start and the evaluation   *)
(* of the entry script.                                                    *)
(*                                                                         *)
(* A boot is a sequence of stages over a memory whose cells say what they  *)
(* hold.  The layout is that of the linker scripts in units small enough   *)
(* to check: the first big page with the 32-bit boot code, the kernel's    *)
(* image, its BSS, the mmap arena.                                         *)
(***************************************************************************)
EXTENDS Clock, Sequences

CONSTANTS
  TOP,            \* the end of memory: 512 MB
  BIG,            \* a page of boot.S: 2 MB
  PD_ENTRIES,     \* the entries boot.S fills in its page directory: 256
  LOAD,           \* where the kernel is linked to run: 0x200000
  IMAGE,          \* the length of its flat binary, .data last
  PAGE,           \* a page of the firmware: 4096
  BSS,            \* the length of .bss
  STACK,          \* of which the stack takes the end: 8 MB
  ARENA,          \* the arena of sys_mmap: a set of addresses
  Owned,          \* what a firmware may own: a set of sets of addresses
  EmbeddedFiles,  \* what paths may be embedded: a set of sets of paths
  FRAMES,         \* the stack in use where Ruby takes its stack to start
  MARGIN,         \* the stack CRuby keeps free for C functions
  CallFrame       \* the stack a call may take

BootAssumption ==
  /\ {TOP, BIG, PD_ENTRIES, LOAD, IMAGE, PAGE, BSS, STACK} \subseteq Nat \ {0}
  /\ LOAD = BIG /\ LOAD % PAGE = 0
  /\ \A own \in Owned : own \subseteq 0 .. TOP - 1
  /\ {FRAMES, MARGIN} \subseteq Nat /\ CallFrame \subseteq Nat
  /\ \A f \in CallFrame : FRAMES + f <= MARGIN

VARIABLES
  build,    \* "multiboot" or "uefi": which of the two kernels this is
  stage,    \* the stage of Stages that is next
  status,   \* "running", or how the boot ended
  memory,   \* what each address holds
  owned,    \* the addresses the firmware owns
  at,       \* where the kernel was loaded
  rdi,      \* the register that carries the system table
  cpu,      \* what boot.S has switched on
  fsbase,   \* the FS base register
  files,    \* the embedded files
  depth     \* the stack in use

bootVars == <<build, stage, status, memory, owned, at, rdi, cpu, fsbase, files,
              depth>>
vars == <<bootVars, clockVars>>

-----------------------------------------------------------------------------
(* The layout. *)

Address == 0 .. TOP - 1
PML4 == 1
PDPT == 2
PD == 3
Bss32 == {PML4, PDPT, PD}

PageUp(n) == ((n + PAGE - 1) \div PAGE) * PAGE
BssStart == LOAD + PageUp(IMAGE)
Bss64 == BssStart .. BssStart + BSS - 1

\* Where uefi_system_table lies: in .data, the image's end.  A defect: in .bss.
SlotInBss(base) == base + PageUp(IMAGE)
Slot(base) == base + IMAGE - 1

\* Three cells of .bss: the heap of malloc.c, the middle of tls_mem and the
\* stack.
Heap == BssStart
Tp == BssStart + 1
Stack == BssStart + 2

\* What entry64.S reserves for the stack, and what the patched CRuby believes.
\* A defect: it reserves half of that.
StackHalved == STACK \div 2
StackSize == STACK
StackMaxsize == STACK

\* What the linker scripts, boot.S and the addresses of sys_mmap lay out: the
\* BSS of boot.S below the kernel, whose BSS holds its heap, its thread and its
\* stack, the arena above both, and page tables for all of memory.
LayoutAssumption ==
  /\ PD < BIG /\ TOP <= PD_ENTRIES * BIG
  /\ Stack < BssStart + BSS /\ BssStart + BSS <= TOP
  /\ ARENA \subseteq BssStart + BSS .. TOP - 1
  /\ FRAMES <= STACK

\* The kernel's identity mapping, through the tables as they are in memory.
\* A defect: the 128 entries of boot.S's comment.
HalfTheEntries == PD_ENTRIES \div 2
Entries == PD_ENTRIES
Mapped ==
  IF build = "uefi" THEN Address
  ELSE IF /\ memory[PML4] = "pdpt" /\ memory[PDPT] = "pd" /\ memory[PD] = "pages"
       THEN {a \in Address : a < Entries * BIG} ELSE {}

-----------------------------------------------------------------------------
(* The stages. *)

\* boot.S.
BootS == <<"bss32", "tables", "PAE", "CR3", "LME", "PG">>

\* entry64.S.
Entry64 == <<"keep", "bss64", "stack">>

\* kernel_main and ruby_on_bare_metal_cruby_demo.
KernelMain ==
  <<"console", "timer", "tls">>
    \o (IF build = "multiboot" THEN <<"memory">> ELSE <<>>)
    \o <<"hello", "setup", "script", "eval">>

Stages ==
  (IF build = "multiboot" THEN BootS ELSE <<"allocate", "copy">>)
    \o Entry64 \o KernelMain

At(s) == status = "running" /\ Stages[stage] = s
Evaluating == At("eval")

\* With paging on, an access outside the mapping ends the boot, for nothing
\* handles the fault.
LongMode == build = "uefi" \/ "PG" \in cpu
Reaches(addresses) == ~LongMode \/ addresses \subseteq Mapped

Init ==
  /\ ClockInit
  /\ build \in {"multiboot", "uefi"}
  /\ stage = 1 /\ status = "running"
  /\ owned \in IF build = "uefi" THEN Owned ELSE {{}}
  /\ memory = [a \in Address |->
                 IF a \in owned THEN "firmware"
                 ELSE IF build = "multiboot" /\ a \in LOAD .. LOAD + IMAGE - 1
                      THEN "image" ELSE "leftover"]
  /\ at = LOAD
  /\ rdi = IF build = "uefi" THEN "table" ELSE "leftover"
  /\ cpu = {} /\ fsbase = 0
  /\ files \in EmbeddedFiles
  /\ depth = 0

-----------------------------------------------------------------------------
Wrote(addresses, what) ==
  [a \in Address |-> IF a \in addresses THEN what ELSE memory[a]]
Onward == stage' = stage + 1 /\ UNCHANGED status
Ends(how) == status' = how /\ UNCHANGED stage
Fixed == UNCHANGED <<build, owned, files>>

\* The next stage is s, and all it does is to write these addresses.
Writes(s, addresses, what) ==
  /\ At(s)
  /\ memory' = IF Reaches(addresses) THEN Wrote(addresses, what) ELSE memory
  /\ IF Reaches(addresses) THEN Onward ELSE Ends("fault")
  /\ Fixed /\ UNCHANGED <<at, cpu, depth, clockVars>>

\* The next stage is s, and it goes on if ok; otherwise it ends so.
Passes(s, ok, otherwise) ==
  /\ At(s)
  /\ IF ok THEN Onward ELSE Ends(otherwise)
  /\ Fixed /\ UNCHANGED <<memory, at, rdi, clockVars>>

-----------------------------------------------------------------------------
(* The UEFI shim. *)

\* The pages of the image.  A defect: the division rounds down.
PagesDown == IMAGE \div PAGE
Pages == (IMAGE + PAGE - 1) \div PAGE

\* What the firmware may hand out.
Free(a) == a % PAGE = 0 /\ a .. a + Pages * PAGE - 1 \subseteq Address \ owned

\* efi_main: the pages at LOAD, or any, or back to the firmware.
Allocate ==
  /\ At("allocate")
  /\ \/ /\ Free(LOAD) /\ at' = LOAD /\ Onward
     \/ /\ ~Free(LOAD) /\ at' \in {a \in Address : Free(a)} /\ Onward
     \/ /\ \A a \in Address : ~Free(a)
        /\ Ends("returned") /\ UNCHANGED at
  /\ Fixed /\ UNCHANGED <<memory, rdi, cpu, fsbase, depth, clockVars>>

Copy ==
  /\ Writes("copy", at .. at + IMAGE - 1, "image")
  /\ UNCHANGED <<rdi, fsbase>>

-----------------------------------------------------------------------------
(* boot.S. *)

ClearBss32 == Writes("bss32", Bss32, "zero") /\ UNCHANGED <<rdi, fsbase>>

FillTables ==
  /\ At("tables")
  /\ memory' = [memory EXCEPT ![PML4] = "pdpt", ![PDPT] = "pd", ![PD] = "pages"]
  /\ Onward
  /\ Fixed /\ UNCHANGED <<at, rdi, cpu, fsbase, depth, clockVars>>

\* CR4, CR3 and EFER, in the order of the code.  The bits of CR4 and CR0 that
\* allow SSE, set between them, are left out: nothing here reads them.
SwitchOn ==
  \E s \in {"PAE", "CR3", "LME"} :
    /\ Passes(s, TRUE, "fault")
    /\ cpu' = cpu \union {s} /\ UNCHANGED <<fsbase, depth>>

\* CR0.PG: long mode, if all it needs is there; then the jump to the kernel.
EnablePaging ==
  LET ready == /\ {"PAE", "CR3", "LME"} \subseteq cpu
               /\ LOAD .. LOAD + IMAGE - 1 \subseteq Mapped
               /\ memory[LOAD] = "image"
  IN  /\ Passes("PG", ready, "fault")
      /\ cpu' = cpu \union {"PG"} /\ UNCHANGED <<fsbase, depth>>

-----------------------------------------------------------------------------
(* entry64.S. *)

\* The system table goes where the code runs, for the address is relative ...
KeepTable == Writes("keep", {Slot(at)}, rdi) /\ UNCHANGED <<rdi, fsbase>>

\* ... and what is cleared is where the code was linked to be.
ClearBss64 ==
  Writes("bss64", Bss64, "zero") /\ rdi' = "end" /\ UNCHANGED fsbase

SetStack == Writes("stack", {Stack}, "stack") /\ UNCHANGED <<rdi, fsbase>>

-----------------------------------------------------------------------------
(* kernel_main and the start of Ruby. *)

\* The first call that uses an absolute address goes astray in a kernel that
\* does not lie where it was linked.  The UEFI console follows the table.
Table == memory[Slot(at)]
SerialInit ==
  /\ Passes("console", at = LOAD /\ (build = "uefi" => Table \in {"table", "zero"}),
            IF at # LOAD THEN "astray" ELSE "fault")
  /\ UNCHANGED <<cpu, fsbase, depth>>

TimerStep ==
  /\ At("timer") /\ TimerInit
  /\ IF timer' = "on" THEN Onward ELSE UNCHANGED <<stage, status>>
  /\ Fixed /\ UNCHANGED <<memory, at, rdi, cpu, fsbase, depth>>

InitMuslTls == Writes("tls", {Tp}, "self") /\ fsbase' = Tp /\ UNCHANGED rdi

MemoryInit ==
  Passes("memory", TRUE, "panic") /\ UNCHANGED <<cpu, fsbase, depth>>

\* ruby_on_bare_metal_file_exists and ruby_on_bare_metal_embedded_file_data.
FileExists(path) == path \in files
FindHello ==
  Passes("hello", FileExists("/hello.rb"), "panic") /\ UNCHANGED <<cpu, fsbase, depth>>

\* ruby_init_stack and ruby_setup: musl's thread is found, both heaps are used.
RubySetup ==
  LET ok == fsbase = Tp /\ memory[Tp] = "self" /\ Reaches({Heap} \union ARENA)
  IN  /\ At("setup")
      /\ memory' = IF ok THEN Wrote({Heap} \union ARENA, "ruby") ELSE memory
      /\ IF ok THEN Onward ELSE Ends("fault")
      /\ depth' = FRAMES
      /\ Fixed /\ UNCHANGED <<at, rdi, cpu, fsbase, clockVars>>

EntryScript == IF build = "uefi" THEN "/autodemo.rb" ELSE "/init.rb"
SelectScript ==
  Passes("script", FileExists(EntryScript), "panic") /\ UNCHANGED <<cpu, fsbase, depth>>

-----------------------------------------------------------------------------
(* The evaluation of the entry script. *)

Same == Fixed /\ UNCHANGED <<stage, status, memory, at, rdi, cpu, fsbase>>

Sleep ==
  /\ Evaluating /\ \E ms \in Pause : BusySleep(ms)
  /\ Same /\ UNCHANGED depth

Awake == Evaluating /\ SleepEnds /\ Same /\ UNCHANGED depth

\* A call, if CRuby's own count of the stack allows it.
Call(f) ==
  /\ Evaluating /\ ~waiting
  /\ (depth - FRAMES) + MARGIN <= StackMaxsize
  /\ depth' = depth + f
  /\ Same /\ UNCHANGED clockVars

\* Otherwise SystemStackError, which like any exception unwinds to the top.
Unwind ==
  /\ Evaluating /\ ~waiting /\ depth > FRAMES
  /\ depth' = FRAMES
  /\ Same /\ UNCHANGED clockVars

\* The script ends, with or without an exception, and kernel_main halts; or it
\* makes the system call exit or exit_group, which halts too.
EvalEnds ==
  /\ Evaluating /\ ~waiting
  /\ \E how \in {"halted", "exit called"} : Ends(how)
  /\ Fixed /\ UNCHANGED <<memory, at, rdi, cpu, fsbase, depth, clockVars>>

Time ==
  /\ status = "running" /\ Tick
  /\ UNCHANGED bootVars

-----------------------------------------------------------------------------
Boot ==
  \/ Allocate \/ Copy
  \/ ClearBss32 \/ FillTables \/ SwitchOn \/ EnablePaging
  \/ KeepTable \/ ClearBss64 \/ SetStack
  \/ SerialInit \/ TimerStep \/ InitMuslTls \/ MemoryInit \/ FindHello
  \/ RubySetup \/ SelectScript

Next ==
  \/ Boot \/ Sleep \/ Awake \/ Unwind \/ EvalEnds \/ Time
  \/ \E f \in CallFrame : Call(f)

\* The processor goes on with what it was doing and time passes.
Spec == Init /\ [][Next]_vars /\ WF_vars(Boot) /\ WF_vars(Awake) /\ WF_vars(Time)

-----------------------------------------------------------------------------
\* Among the types: CRuby raises SystemStackError before the stack of entry64.S
\* is used up.  Nothing guards what lies below.
TypeOK ==
  /\ ClockTypeOK
  /\ build \in {"multiboot", "uefi"} /\ stage \in 1 .. Len(Stages)
  /\ status \in {"running", "returned", "fault", "astray", "panic", "halted",
                 "exit called"}
  /\ memory \in [Address -> {"leftover", "firmware", "image", "zero", "pdpt",
                             "pd", "pages", "table", "stack", "self", "ruby"}]
  /\ at \in Address /\ rdi \in {"leftover", "table", "end"}
  /\ cpu \subseteq {"PAE", "CR3", "LME", "PG"} /\ fsbase \in Address
  /\ depth \in 0 .. StackSize

\* No boot ends in a fault: what a stage reaches is mapped, the tables outlive
\* the clearing of the BSS they lie in, the thread pointer is there when musl
\* asks for it, and the mapping spans both heaps.
NeverFaults == status # "fault"

\* The kernel finds the system table the firmware passed: entry64.S keeps it
\* where it does not clear it afterwards.
SystemTableKept ==
  build = "uefi" /\ at = LOAD /\ stage > Len(Stages) - Len(KernelMain)
    => Table = "table"

\* A firmware that owns nothing of the kernel's BSS, for which no pages are
\* asked, nor of the arena keeps all it owns, wherever the image is copied.
FirmwareIntact ==
  owned \intersect (Bss64 \union ARENA) = {}
    => \A a \in owned : memory[a] = "firmware"

\* A boot ends, or evaluates its script, whatever the speed of the counter.
BootEnds == <>(status # "running" \/ Evaluating)

\* The shim: "AllocatePages failed, retrying AnyPages...", as if the kernel
\* could run elsewhere.
NeverAstray == status # "astray"
=============================================================================
