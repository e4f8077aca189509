# Verification of Ruby on Bare Metal

TLA+ specifications of the C and Ruby code that lets CRuby run without an
operating system, the TLC runs that check them on small instances, and TLAPS
proofs of what matters most for every size. File and line references are to
the repository this directory accompanies; PROJECT.json names, for every
definition, the lines it stands for.

## 1. The system

One CPU, one thread of control, no interrupts, no preemption. CRuby and musl
call a C layer that stands in for Linux; a Ruby shell and an editor run on top.
What makes the code hard is therefore not threads. It is

- long sequences of legal calls against small pieces of static state (a
  descriptor table, a bump heap, an mmap cursor, `$vfs`);
- devices that change between two instructions of a polled driver;
- byte streams in which one key, character or escape sequence is several bytes,
  read one blocking call at a time, with nothing between two of them;
- shortcuts (free does nothing, dup copies the entry, pipe only marks its slots)
  that are sound only under assumptions about callers.

### Components

**Descriptor table** (`compat/ruby_on_bare_metal_syscall.c`, 28-154, 254-275,
351-404). State: `fd_table[64]`, entries {used, data, size, offset}; 0 to 2 are
the console. Operations: open, read, write, close, stat, fstat, access, dup,
dup2, dup3, pipe, pipe2, lseek and pread stubs. Used by CRuby and musl; reads
files embedded in the kernel, and the console. Correct when no descriptor in
use is handed out twice, a read continues where the last read of that
descriptor ended and stays inside its file, and no call disturbs another
descriptor. Modelled: `Descriptors`, `FdTable`.

**C heap** (`compat/ruby_on_bare_metal_malloc.c`, 15-110, 186-206). State:
`heap[]`, `heap_used`, a header before every block. Operations: malloc, calloc,
realloc, free, posix_memalign and its kin, malloc_usable_size, musl's
`__expand_heap`. Correct when blocks in use never share a byte, a header keeps
the size realloc reads from it, and data survives every move. Modelled:
`BumpHeap`.

**mmap arena** (`syscall.c` 25-27, 156-208, wrappers in `malloc.c` 123-183).
State: `mmap_next`, the RAM from 256 to 496 MB. Operations: mmap, munmap,
mremap; mprotect, madvise and brk change nothing. Used by CRuby's collector for
its heap pages. Correct when mappings share no page and read as zeros or as what
was stored, through trims and moves. Modelled: `MmapArena`.

**Serial console** (`kernel/serial.c`; poll, ppoll, pselect6 in `syscall.c`
351-364, 465-503). State: the UART's FIFO, which the far end fills at any
moment, and a call in progress. Correct when bytes reach the program in order,
each once, nothing is written past a caller's buffer, and an answer "readable"
stays true until the next read. Modelled: `ByteStream`, `SerialConsole`. Output
(serial_putc) keeps no state and is left out.

**UEFI console** (`kernel/uefi_console.c`). State: the ANSI parser
(`ansi_state`, `csi_params[8]`, `csi_n`, `csi_cur`, `attr`) and one pending key.
Talks to the firmware's text protocols. Correct when each sequence is
interpreted as if it were alone, whatever came before it, and when the key that
a readiness test had to take is neither lost nor repeated. Modelled:
`UefiScreen`, `UefiKeys`.

**Shell: line editor** (`ruby/scripts/init.rb` 199-281, 444-459, 590-645).
State: buffer, cursor, history, draft, and the terminal's row, which nobody
reads back. Correct when the row shows the line, keys are taken whole, and
history and draft behave as an editor's. Modelled: `EditLine`, `Shell`.

**Shell: require, virtual files, commands** (`init.rb` 24-136, 286-321,
377-517). State: `$vfs`, `$LOADED_FEATURES_VFS`, the evaluations in progress.
Correct when a path is evaluated once, cycles end, and relative names reach the
file they mean. Modelled: `VfsRequire`. Not modelled: `/proc` texts, listing
commands, globbing, exception formatting, the fall-back of the mui command.

**mui terminal adapter** (`patches/mui_terminal_adapter_ruby_on_bare_metal.rb`).
State: `@pending_byte` and a sequence in progress. Correct when each key comes
back once, in order. Modelled: `KeyDecoder`. The output side appends sequences
to a string and is left out.

**Clock** (`kernel/timer.c`; clock_gettime and gettimeofday in `syscall.c`;
`busy_sleep` of `ruby/scripts/autodemo.rb`). State: a frequency measured once
against the PIT, the counter at boot. Correct when calibration ends, whatever
delays the processor, and a wait is neither cut short nor endless. Modelled:
`Clock`.

**Boot** (`boot/boot.S`, `boot/uefi/shim.c`, `kernel/entry64.S`,
`kernel/kernel_main.c`, `compat/ruby_on_bare_metal_compat.c`, the stack size in
`patches/cruby.patch`). State: page tables, processor mode, stack, BSS, the
place the kernel was loaded, the console, Ruby's start-up stages. Correct when
nothing is used before it is set up or after it is cleared, and no step writes
to what another owns. Modelled: `BootChain`.

**Build stages** (`Makefile` 81-183). State: what exists under `third_party/`,
the generated files and objects, their times. Correct when a run that says it is
complete is, whatever earlier runs left behind; when what an edit touches is made
again; and when cleaning repairs the rest. Modelled: `SetupStages` (make setup,
distclean) and `KernelBuild` (make, clean).

### How they meet

    init.rb, mui --- sysread, IO.select ---> syscall.c ---> serial.c | uefi_console.c
        |                                        |
        | require, File.read                     | fd_table ---> embedded files
        v                                        |
      $vfs                                    mmap arena
    CRuby, musl ------- malloc family ----> static heap

The components share no state but through calls that run to completion. The
modules are therefore separate, each with its callers as an environment that
makes every call the component can receive; the devices, which do run
concurrently with the code, are in the module of their driver. `ByteStream` is
the promise that both consoles implement, and what `Shell` and `KeyDecoder` take
for granted of their input. `BootChain` extends `Clock`: the boot waits for the
PIT, and the script it ends in waits by reading the clock.

## 2. Modules

| Module | Stands for | One step is |
|---|---|---|
| `Descriptors` | what open files are: cursors, each moved only by its own calls | a call |
| `FdTable` | `fd_table` and every call that touches it | a call, to its return |
| `BumpHeap` | the heap, byte by byte, headers included | an allocation call, or the program filling a block |
| `MmapArena` | the arena's bytes and cursor | a mapping call, or the program filling a mapping |
| `ByteStream` | bytes in order, each once, lost only when the device has no room | a byte typed or bytes taken |
| `SerialConsole` | the UART's receiver, its driver, poll and select | one look at the UART |
| `UefiKeys` | the firmware's key queue, the pending key, the read loop | one firmware call |
| `UefiScreen` | the ANSI parser in front of the firmware's output protocol | one byte printed |
| `EditLine` | a line editor with a history, key by key | a key |
| `Shell` | read_line, the shell's loop, the write command's loop | one byte read |
| `KeyDecoder` | getch and what it calls | one byte read |
| `VfsRequire` | require, require_relative, writable over embedded files | one statement of a file |
| `Clock` | the time stamp counter, its calibration, the calls that report it, a loop that waits | one reading of a device, or a tick |
| `BootChain` | both boots, from the loader to the end of the entry script | one stage of the boot, or a call of the script |
| `SetupStages` | make setup and distclean, again and again | one command, with its failure or the end of the run |
| `KernelBuild` | make of the Multiboot kernel, edits, clean | the beginning or the end of a rule, or an edit |

The theorems are in eight modules: `FdTable_proofs`, `Memory_proofs` (heap and
arena), `Console_proofs` (serial and, through
`UefiKeys_proofs`, UEFI keys), `Ruby_proofs` (require, keys of the editor),
`Shell_proofs`, `BootChain_proofs` and `SetupStages_proofs` (setup, make). The `MC...` modules
give the constants their small values. Four of them
put components that share no state side by side, one of them active in each
behaviour, so that one run answers related questions: `MCMemory` (heap, arena),
`MCConsole` (serial, UEFI keys, UEFI screen: a kernel has one console),
`MCRuby` (require, keys), `MCSetupStages` (setup, make). Variables and
actions have the names of the code's variables and functions where TLA+ allows.
Operators marked as defects in a comment are variants a plausible bug would
make of the definition they stand before; no specification uses them, and
PROJECT.json ("mutants") says which property each of them breaks.

### State and actions against the code

*FdTable.* `fd_table` is the array; `data` is the embedded file an entry points
to, NULL for terminals and pipe ends. Two history variables do not exist in the
code: `held`, the descriptors the program was given and has not closed, and
`leaked`, the slots a failed pipe marked. Calls take any held descriptor and any
integer of `Unheld`.

*BumpHeap.* `heap[i]` is a byte: junk, zero, a program's value, or the first byte
of a header with its size. `blocks` is what the program owns, with what it asked
for (`want`), how much of it it has filled, and with what. `WORD` stands for 2^64
in calloc's overflow test.

*MmapArena.* `ram` starts as anything (`Stale`). A region keeps the bytes the
program may expect to read there. `MmapReserve` is a mapping with PROT_NONE,
which is not cleared.

*SerialConsole.* A call in progress is at `pc`; `HostTypes` can happen between any
two looks at the line status register, and a byte that finds the FIFO full is
lost. `serial_init` clears the FIFO.

*UefiKeys.* The firmware's queue drops a key when full. ReadKeyStroke may fail
with a device error, `MaxErrors` times. The firmware has a console: without
ConIn a test says no and a read stores one byte 255, and nothing is kept.

*UefiScreen.* What the program prints is a sequence of tokens: characters, whole or
private sequences, and ones cut short by any byte that has no place in them. When
that byte is an ESC, or an ESC follows an ESC, parse_byte drops it, and what was to
be a sequence is printed as text: there the token ends with the ESC, and `[`, `3`,
`1`, `m` are four tokens more. A read of `csi_params` past its end, which the SGR loop makes after
more than eight parameters, yields any value of `Stray`.

*Shell.* The terminal is part of the model: `screen` is the row and the terminal's
cursor, changed by what read_line writes with a VT100's meaning (a movement by 0
is a movement by 1). `sending` is what the terminal has still to send of a key;
`synced` is false from a lone ESC, or an ESC O sequence, to the end of the next
key: there read_line cannot know where a key begins, and the properties about
whole keys do not apply.

*KeyDecoder.* `unread` is what the terminal sent. Sequences are those its tables
know, some they do not, and UTF-8 characters cut off by the end of input. Among the
keys of one byte are `[` and `O`, which after a bare ESC begin a sequence, and keys
that end one or go on with it.

*VfsRequire.* A file is a sequence of statements (require, require_relative, write,
delete, raise), each possibly inside a rescue. `stack` is Ruby's stack of evals.
A path keeps its components and the number of `.rb` at its end, which is what
the candidate list and the normalisation depend on; require_relative adds one to
the last component before `.` and `..` are resolved. `evaluated` is a history
variable.

*Clock.* `tsc` is time itself. A tick may come between any two steps, at most
`Delay` of them; while a loop turns on a device, its steps change nothing and
ticks come without a bound. `window` is what the counter gains in the 50 ms of
the PIT, `early` what passed between the start of the countdown and the reading
of `start_tsc`.

*BootChain.* `memory` says of each address what it holds (leftovers, the image,
zeros, a page table, the system table, the stack, Ruby's heaps), in the order of
the linker scripts. `Stages` is the program counter. A step that reaches an
address outside the mapping, or finds the wrong thing where it looks, ends the
boot in a fault, for nothing handles one; a kernel that runs elsewhere than it
was linked goes `astray` at its first absolute address. The firmware owns a
set of addresses and hands out pages outside of it. `depth` is the stack in use
once Ruby runs: CRuby's own count against the size the patch gives it. Of the bits
boot.S sets, those that switch SSE on are left out: nothing in the model reads them.

*SetupStages.* `tree`, `libc`, `host` and the others are the files a recipe tests
for or makes. Every command may fail, and the run may be killed before, during or
after it: `libc` is then `short`, a clone `partial`, a tree with some files patched
`mixed`. A git checkout that is killed leaves its lock (`locked`), at which later
ones fail unseen. `found` and `ignored`, of the run in progress, are history.

*KernelBuild.* A time is kept as what make asks of it: whether a prerequisite is
younger than the product (`old`). `holds` is history: which edit of each source a
product contains. `Reads` is what the commands read, `Rules` what the Makefile
says they read. A rule is two steps, for a source may be saved at any moment: `Begin`
reads the sources (`took`), `Finish` writes the product, which is then younger than
an edit in between and stays so. `missed` remembers such sources, until they are
saved or compiled again. A rule that fails leaves its product as it was, absent, and
if it is a generated file cut short (both are written straight, `Makefile:152-157`) or,
when only the last `rm` failed, whole. Left out: a make that is itself killed with no
time to remove a half written object, and make -j.

## 3. Runs

| Run | Question |
|---|---|
| `fd` | Do callers that pass held descriptors, and -1, see independent cursors (`AbstractSpec`); is every slot in use held or lost to a failed pipe (`SlotAccounting`); do reads stay in their files (`OffsetWithinFile`); are free slots clean (`FreeSlotsClean`)? |
| `memory` | Are blocks apart, headers and data intact, pointers aligned up to a page (`BlocksDisjoint`, `HeadersIntact`, `DataPreserved`, `PointersAligned`)? Do mappings share no page and read back what was stored, else zeros (`RegionsDisjoint`, `RegionsReadBack`)? |
| `heap_align` | Are alignments above a page honoured? No: see Findings. |
| `console` | With bytes arriving between any two looks at the device: does either console deliver in order, each once, and all of it (`BothStreams`, `BothDeliver`), inside the caller's buffer (`ReadsFit`); do answers "readable" hold (`ReadableIsTrue`, `ReadyIsTrue`); what do device errors cost (`ErrorsOnlyRepeat`)? Is every printed sequence interpreted as if alone (`TokensInterpreted`), and what does one with too many parameters harm (`OverflowHarmsColoursOnly`)? |
| `select_stdout` | Is stdout always writable? No: see Findings. |
| `shell` | Does the terminal show the line (`ScreenShowsLine`); is read_line a line editor (`EditorSpec`); are keys taken whole (`OnlyTextIsTyped`, `KeysEndInStep`)? |
| `ruby` | Is every path evaluated once (`EvaluatedOnce`), do cycles end (`NestingBounded`), do relative names reach their file (`RelativeFindsNeighbour`)? Does getch return each key once, in order (`KeysInOrder`); what does a bare ESC cost (`EscapeCostsItsSequence`)? |
| `keys_letter` | Is the key after a bare ESC returned? No: see Findings. |
| `boot` | Does either boot reach its script without a fault (`NeverFaults`, `BootEnds`), with the system table (`SystemTableKept`), inside its stack (`TypeOK`), leaving the firmware's memory alone (`FirmwareIntact`)? Are waits neither cut short nor endless (`NotCutShort`, `SleepsEnd`)? |
| `boot_retry` | Does the kernel run where the shim's retry puts it? No: see Findings. |
| `setup` | Is what a run says is complete complete, for all it did itself (`BuiltIsComplete`); does an undisturbed run fail only for what an earlier one left half done (`FailsForAReason`); with sources edited while make runs, too, is the image made from them as they are (`ImageCurrent`); does cleaning always help (`SetupAndBuildRecover`)? |
| `setup_rerun` | Is a stage that a run skips complete? No: see Findings. |

Deadlock is checked except where the system may stop: the far end or the user
stops typing and a blocking read waits for ever (`console`, `select_stdout`,
`ruby`, `keys_letter`), the program stops printing (`console`), the shell is left
(`shell`), the machine halts (`boot`, `boot_retry`).

### Bounds, and why they suffice

- `fd`: `MAX_FD = 6`, so three allocatable slots, one file of two bytes, reads
  of one and three bytes. One free slot for a pipe, a hole between two
  descriptors and a full table occur, as do partial, exact and short reads. The
  code treats all slots above 2 alike.
- `memory`, heap: 20 bytes, headers of 2, alignments 1 and 8 (a page) and requests
  of 0, 3 and 6: several blocks, reallocs in place and moved, refusals. The calloc
  arguments include products that wrap to 0 and to 2. Arena: four pages of two
  bytes, lengths of half a page to two pages: trims inside a page, moves, a full
  arena. What depends on sizes is proved for all of them.
- `console`, serial: a FIFO of three, six bytes typed, reads of 0, 1, 2 and 4:
  reads shorter and longer than what waits, overruns. UEFI keys: a queue of three,
  five keys (Enter and a key without a character among them), two errors. UEFI
  screen: two parameters instead of eight, three tokens in a row, ESC-cut ones and the
  `[` and `m` of a spoiled sequence among them. A token can only
  be disturbed by parser state left by the ones before it; the state is reset or
  overwritten by each `[`, so pairs already show any leak and the third shows
  whether it persists.
- `shell`: lines of two characters, two of history, both letters meaningful as
  commands; keys read_line does not know are pressed only while line and history
  hold one entry between them (`MaxStray`), which bounds what their bytes can
  leave in the buffer after a lone ESC. So cursor and history are
  met at both ends and between.
- `ruby`, require: four paths, two embedded and requiring each other, one that
  raises, a text that overwrites and deletes files in progress; any of the four
  texts can be written to three of the paths at the prompt, and commands follow in
  any order. The state space is finite without a bound on depth: that is what
  `DepthBounded` says. Keys: every kind of key, four in a row.
- `boot`: sixteen cells: a big page for the 32-bit code, an image of three cells in
  two firmware pages (so the last page is partly used), a BSS of three (heap,
  thread pointer, stack), the arena. `PD_ENTRIES = 4` covers exactly the memory,
  as 256 entries of 2 MB cover 512 MB. The firmware owns nothing, one cell of each
  region, a page and arena cell, or so much that no page is free. A counter that gains 1 or 8 in
  the window is one slower and one faster than a tick per millisecond. `Delay = 1`
  tick may come between any two steps; `MaxTicks = 60` bounds the counter and is
  never reached by a behaviour with two waits of up to three milliseconds.
- `setup`: two objects to remove, two faults in all: a fault, its consequence in the
  next run, and a second fault there. Two more faults would only repeat them, for a
  run keeps nothing of an earlier one but files. The theorems hold for any number.
  make: one source of each kind the rules tell apart, two edits in all, one failing
  command. Two edits are an edit whose compile misses it and the one that repairs
  this, or edits on both sides of one reading; the theorem has no such bound.

### Fairness

`BothDeliver` (serial and UEFI) says that no byte the device accepted waits for
ever. It assumes weak fairness of the driver's steps (there is no scheduler that
could take the CPU away, and a spin on a device register sees what the device
shows) and strong fairness of a read of at least one byte: the read-eval loops of
init.rb and of the editor come back to a read for ever, whatever they poll in
between. Nothing is assumed of the far end or the keyboard.

`BootEnds` and `SleepsEnd` assume that the processor goes on with the boot, that
a loop which sees its condition leaves (weak fairness of `Boot` and `Awake`), and
that the counter does not stand still (`Time`). Nothing is assumed of scripts.

`SetupAndBuildRecover` assumes that commands end, that the user runs make again,
and that after failures that keep coming back make distclean (make clean) is tried
at last: strong fairness, for between two attempts there is always another make.

The other runs need no fairness.

## 4. Proofs

TLAPS checks, for every value of the constants:

| Theorem | For all |
|---|---|
| `TypeCorrect`, `ReadsStayInFile`, `ClosedSlotsAreClean` (FdTable_proofs) | table sizes, files, integers passed as descriptors |
| `SlotsAreAccountedFor`, `ImplementsDescriptors` (FdTable_proofs) | the same, callers `Disciplined` |
| `BlocksNeverOverlap`, `HeadersSurvive`, `DataSurvives` (Memory_proofs) | heap, header and word sizes, alignments, requests, stored values |
| `PointersStayAligned` (Memory_proofs) | the same, alignments that divide the array's |
| `MappingsShareNoPage`, `MappingsKeepContents` (Memory_proofs) | arenas, page sizes, lengths, stored values |
| `ReadsFitBuffers`, `ReadableAnswersHold`, `ReadyStaysTrue` (Console_proofs) | FIFO and queue sizes, bytes and keys, reads, poll arrays, select arguments, device errors |
| `ErrorsRepeatAtMost`, `BothImplementByteStream` (Console_proofs) | the same |
| `TokensKeepTheirMeaning`, `OverflowHarmsOnlyColours` (Console_proofs) | characters and sequences printed, their number, parameters, private marks and the byte that ends or cuts them, lengths of `csi_params` from two, values read past it |
| `NothingIsEvaluatedTwice`, `NestingStaysBounded` (Ruby_proofs) | files, contents, stubs, commands |
| `NeighbourIsFound` (Ruby_proofs) | the same, relative names of any components |
| `KeysComeInOrder`, `EscapeCostsNoMore` (Ruby_proofs) | sets of the table's keys, numbers of keys |
| `ShellTypeCorrect`, `ScreenAlwaysShowsLine`, `ImplementsEditLine` (Shell_proofs) | printable keys, other keys, prompts, lines that end a loop or begin one |
| `OnlyTextIsEverTyped`, `KeysAlwaysEndInStep` (Shell_proofs) | the same |
| `BootTypeCorrect`, `NoBootFaults`, `TableReachesConsole`, `FirmwareKeepsItsOwn` (BootChain_proofs) | memory layouts, images, what the firmware owns, stack and frame sizes |
| `SleepsLastLongEnough` (BootChain_proofs) | counter speeds, delays between steps, lengths of sleeps |
| `CompleteIsWhole`, `FailureHasAReason` (SetupStages_proofs) | lists of objects to remove, numbers of faults |
| `ImageStaysCurrent` (SetupStages_proofs) | numbers of edits, at any moment, and of failures |

Between them they state every invariant and action property of every passing run:
only liveness, listed at the end of this section, is left to the runs.

Assumptions, each named in the module that declares the constant:

- `Disciplined`: integers passed as descriptors that the caller does not hold are
  not in the table at all. It is what makes dup of an unused descriptor, which
  hands out a number that the next open hands out again, impossible. CRuby and
  musl keep to it. The theorems about offsets and clean slots do not need it.
- `ArenaAssumptions` (Memory_proofs) collects the three of MmapArena; `SetupAssumption`,
  `BuildAssumption`, `ClockAssumption`, `ConsoleAssumption`, `KeysAssumption` and
  `PressedAssumption` only give the constants their types. `ProgramsAssumption` says
  that files hold statements, that the paths and texts statements write are in the
  sets of paths and texts, and that paths and relative names are sequences.
- `KeysAssumption` (Shell) also says that printable characters are none of the
  special keys, and `LinesAssumption` that the prompt is a sequence and that neither
  the write command nor a line that ends the shell is empty: in the code they are
  names, and an empty line is passed over before any is compared.
- `ScreenAssumption` (UefiScreen): what is printed is characters and sequences whose
  parameters have three digits at most (a bound: `csi_cur` is an int, and a longer
  number would overflow it) and whose private marks come before them, ended by any
  byte that is none of these; and `csi_params` holds the two a cursor position needs.
- `AlignmentsDividePage` (BumpHeap): alignments are powers of two not above the page,
  said without powers. The heap's array is page aligned, and `bump_alloc` aligns the
  offset in it, so more cannot be had: the run `heap_align` shows a block that is
  misaligned without it.
- `BootAssumption` (BootChain): besides types, that what entry64.S, kernel_main and
  ruby_setup have on the stack where Ruby takes its stack to start (`FRAMES`) and the
  frame of a call fit `MARGIN`, the stack CRuby keeps free for C functions. `TypeOK`'s
  bound on the stack rests on it: CRuby tests before a call, not knowing what it takes.
- `LayoutAssumption` (BootChain): what the linker scripts and the constants of boot.S
  give. The page tables lie below the first big page, which 32-bit code does not
  reach; the directory's entries cover memory; stack and thread pointer are in .bss;
  the arena is behind it and inside memory.
- `NoWrapAssumption` (BumpHeap; MmapArena has its own): sizes are small enough that rounding them up does
  not wrap. The code has no test for it; ruby_xmalloc and ruby_xcalloc refuse
  sizes above SSIZE_MAX before they reach malloc. calloc's product may wrap, and
  the proof shows that its division test is exact.
- `SizesAssumption`, `ArgumentsAssumption`, `FileAssumption` and the like: sizes
  are natural numbers, alignments and page sizes positive, the array itself page
  aligned. Nothing is assumed of how sizes relate to each other.

*Descriptor table.* `OffsetWithinFile` is not inductive by itself: pipe sets only
`used`, so an entry could become a file's in the middle if a free slot kept the
file. The invariant `TypeInv` therefore says of every entry that it is unused and
clean, a terminal, or a file's with that file's size and an offset in it
(`EntryOK`, `TableOK`). Only `SysReadFile` moves an offset, by at most
`size - offset`. `SlotAccounting` is inductive on top of it. The refinement maps
`held` to the abstract open descriptors and an entry to its cursor; each call has a
lemma that shows it to be the abstract call or a stutter.

*Heap.* `HeapInv` says of every block that its header is in `heap` and names its
capacity, that its filled part holds its value, that it lies below the cursor
(`BlockOK`), and of two blocks that one ends before the other's header begins
(`Apart`). The lemma `Placement` (the header is above the cursor, the block is
behind it and has room for what was asked) carries the arithmetic of ALIGN;
`BlockUntouched` says that a step which leaves a block's bytes alone leaves the
block good, and reduces every allocation to what happens above the cursor.

*mmap arena.* Neither property is inductive: nothing in them says that the next
region will lie behind those there are. `ArenaInv` adds that every region ends
below the cursor and lies on whole pages (`RegionOK`); two regions are then apart
(`RegionsApart`) because the second began at the cursor rounded up. `PageUpBounds` and
`PageUpLeast` are the arithmetic of rounding, `AddRegion` the one step shared by
mmap, mremap and stores: a region is put in place of others, and only bytes of
its own change.

*Alignment.* `PointersAligned` is inductive: header and start are rounded up in the
array, whose address a page divides, and an alignment that divides the page divides
the sum (`DividesThrough`, `RoundUpMultiple`, `StartAligned`).

*Serial console.* `SerialInv` says what each place in a call has: a read its
length and 1 to that many bytes, a poll its array and no POLLIN without a byte
in the FIFO. "Readable" survives because only the driver empties the FIFO, and
every call forgets the answer when it begins. The refinement maps `waiting` to the
buffer of a read in progress followed by the FIFO: `MoveOne` shows that getc and
the drain loop move a byte across that border and change nothing, `AppendBehind`
that a byte typed joins the end, `TakeFront` that serial_read returns a prefix.

*UEFI keys.* `KeysInv` is the same for the other console; what waits is the buffer,
then the pending key, then the queue. A readiness test moves the first key of the
queue into the pending one (`KeyStrokeFacts`, `DataReadyFacts`), getc the first key
ahead into the buffer (`GetCFacts`); only a device error, which StreamSpec excludes,
makes getc return a key that is not ahead. When a device error does make it return
another, what is left is order, and `OrderInv` says it: what was gathered never
decreases and does not pass the pending key, which the keys in the queue, in order,
do; and while the firmware cannot have dropped a key, each key pressed is gathered,
pending or queued. `ErrorsOnlyRepeat` follows, but is far from inductive.

*Both consoles.* `MCConsole` runs serial input, UEFI keys or the screen, so its
invariant is `SerialInv`, `KeysInv` and `OrderInv` together, and a step is a step of
one of them and leaves the others as they are (`ConsoleNext`).

*UEFI screen.* `TokensInterpreted` speaks of the moments between two writes;
`ScreenInv` says what holds at each byte. `Position` is where the parser is in the
token: of a sequence, some private bytes and some digits of a parameter are not read
yet and then `Rest`, and what was read is in `csi_params`, `csi_cur` and
`csi_seen_digit` (`InParameters`, `Number`). Each kind of byte moves it on or ends
the token (`PrivateGoesOn`, `DigitGoesOn`, `SeparatorGoesOn`, `LastByteEnds`). A
sequence that ends was taken for one that agrees with it as far as the array holds
(`Agrees`), so it makes the calls due, or, if it sets colours and overflowed, one
`SetAttribute` in their place (`EndedIs`, `OneMoreMatches`). The calls due are a
recursion over everything printed; that one more token is one more step of it
(`ExpectedAppend`) is shown as for `Heard` below, once for all recursive functions
used here (`Recursion`, `SameFunction`).

*require.* `RequireInv`: what has been evaluated is marked, and evaluations nest no
deeper than marks plus one. The mark precedes the evaluation, so each new frame
pays for itself, and an exception or a return only shortens the stack. Of
sequences only lengths are used (`PushFrame`, `Shorter`, `AdvancedLength`).
`VfsInv` types the frames: one below the top waits at the statement that required the
one above it, so that returning to it stays within its statements.

`RelativeFindsNeighbour` compares the loop over a name's components with what the name
means, said without a loop: a component stays unless a later ".." takes it back
(`Stays`). The link is `Kept`: after i components, what the loop has resolved is those
whose places are in `places`, and the k-th of n is n - k names ahead of the ".." after
it (`Balance`). A name, "." or an empty component, and ".." each move `Kept` one
component on (`NameKept`, `NothingKept`, `OneTakenBack`), a least component where it
fails is a contradiction (`ResolvedKeeps`), and at the end the places, counted, are the
components that stay (`PlacesCounted`, `StaysIs`). So the path resolved is the path
meant (`ResolveIsMeant`), and a step of require_relative is one of its three outcomes.

*Keys.* `KeysInOrder` says nothing of a key half read. `InStep` does: either all keys
pressed have been returned, or all but the last and what is left of its bytes, where
getch waits and what it holds of the sequence fit together so that the last byte
returns the right code (`Decoding`, a table of the ways through each of the key
sequences). Each handler moves along one row of that table (`DecodesByte`,
`DecodesEsc`, `DecodesCsi`, `DecodesSs3`, `DecodesUtf8`). A lone ESC breaks it, which
is why the property and `InStep` exclude it.

`EscapeCostsItsSequence` is about bare ESCs. `Heard` says recursively what should come
of the keys pressed when an ESC costs the keys its bytes make a sequence with
(`Whole`, `Meaning`), and `LoneInv` that the decoder agrees with it, and holds as much
of an unfinished sequence, whenever the last key has been read (`Matches`). That one more key is
one more step of the recursion (`HeardAppend`) takes an induction: the library's
theorem would need an operator as a parameter, so `LeastNumber` derives from
`NatLessThanWellFounded` that a set of numbers has a least element, and a least
number at which the recursive function did not exist, or at which two such functions
differed, is a contradiction (`UptoExists`, `UptoUnique`).

*Shell.* `TypeOK` is inductive. What the terminal shows is not, as `ScreenShowsLine` says
it: `ScreenInv` adds that nothing is on the row but the prompt and the line, after the
two blanks of the write command at most, so that a character echoed at the end and a
redraw leave the same row. The lemma `SysreadEdits` reduces the branches on bytes to
eight edits (`Edited`), which the types, the screen and the refinement then share;
`CutInserted`, `CutErased`, `CutLeftwards` and `CutRightwards` say what each edit does
to the text before and after the cursor, which is how `EditLine` sees the line.
`DecoderInv` says of a key whose first byte was awaited which of its bytes is next and
where read_line waits for it (`PcAt`); `ByteInStep` moves it one byte on, and both
`KeysEndInStep` and `OnlyTextIsTyped` follow from it (`Grows`: a line gets longer only
by a printable byte or by Up and Down).

*Boot.* None of the properties is inductive: each is about the end of a chain of stages.
`BootInv` says for every stage what the ones before it have left: where the image is
(`Loaded`), page tables filled before paging is on (`Paging`), the system table in the
register until entry64.S has cleared .bss and kept it, in .data after (`TableOnItsWay`),
the thread pointer (`ThreadThere`). The lemma `Layout` derives from `LayoutAssumption`
that the regions involved are apart, `WritesAside`, `WritesAbove` and `NothingWritten` that a
stage which writes one leaves the others. `ClockInv` says what calibration is worth: the
ticks counted are at least the window's but for those before start_tsc (`Calibrated`),
and a wait knows when it began (`Waiting`). `SleepIsLong` is the arithmetic on top of
it: two readings rounded down to milliseconds that are n apart are more than
n - 1 apart before rounding.

*setup.* `RunInv` says how far the run has come: all trees before `todo` are done
(`TreesProgress`), the objects still to be removed are those left in `todo` unless
a removal was ignored or the stage was found (`MuslProgress`), and likewise for the
host build (`HostProgress`).

*make.* `ImageCurrent` compares an image with sources through seven steps. `BuildInv`
says it step by step: a product that make takes for up to date holds of each named
source what its prerequisites hold now. A generator that fails leaves a cut file
younger than its sources, which would break this, were it not that its product is
missing or older and make will run (the last conjunct). While a rule runs, what it
took differs from the sources as they are only where `missed` says so.

Only model-checked, with the reason:

- Liveness under fairness: `BothDeliver`, `SleepsEnd`, `BootEnds`,
  `SetupAndBuildRecover`. The provers do not handle it.

## 5. Findings

1. `heap_align`: bump_alloc rounds the offset into `heap[]`, not the address, and
   the array is 4096-aligned; a larger alignment, such as the 64 KiB CRuby asks
   for, holds only if the linker happens to place the array so
   (`malloc.c:33`: "Ensure returned pointer is aligned").
2. `select_stdout`: pselect6 answers 0 to `select(2, NULL, {1})`, against
   "stdout/stderr always writable" (`syscall.c:482`): the test is `nfds > 2`.
3. `keys_letter`: the byte after a bare ESC is put in `@pending_byte`, which the
   next call overwrites before it looks at it; lines 139 and 149 of the adapter
   say that it will be processed next.

4. `boot_retry`: when the pages at 0x200000 are taken, the shim says "retrying
   AnyPages..." (`shim.c:38`), copies the kernel to any pages and enters it there.
   It is a flat binary without relocations, linked at 0x200000: entry64.S clears
   the BSS and sets the stack at the linked addresses, in memory nobody asked
   for, and the first absolute address leads astray.
5. `setup_rerun`: "Each stage is idempotent" and skips "already-completed steps"
   (`README.md:88`), but setup-musl takes for completion a file that cp makes
   before the loop removes the allocator's objects from it; a run killed in between,
   or a removal that fails under `|| true`, leaves a stage that the next run skips.
   The host build has the same shape: miniruby is tested for, and
   builtin_binary.rbbin is made after it; there the cross build then fails every
   time, until distclean (`FailsForAReason`).

Behaviour the models show that no text of the repository contradicts: a pipe with
one free slot loses it; a dup of stdout is not writable; a file that raises while
it is required is never evaluated again, and a second require of it falls through
to the other candidates or answers false; Ctrl-D in the write command drops the
lines typed; a lone ESC in the shell takes the next byte with it; the shim asks
for pages for the file image only, so a firmware that owns memory under the BSS or
the arena loses it; an edit of a header, or of a file of mui other than the one
the rule names, leaves a stale image, and so does an edit saved while the compiler
that has read the old file is still at work; a clone that is killed leaves a directory
the next run takes for a clone; a git checkout that is killed in a patched tree leaves
a lock that stops every later make setup; after a bare ESC the editor's `O` takes the
key after it too, and `[` all keys up to one that ends a sequence; on the UEFI console
an ESC inside a sequence spoils the sequence it begins, whose text then shows.

### Observations

Seen while reading, outside of what a run decides:

- `boot.S:53` says "128 entries", the code fills 256; the arena, which ends at
  496 MB, needs more than 128.
- pthread_getattr's stack is "1MB, matching entry64.S" (`pthread.c:45`) from the
  lowest address; entry64.S reserves 8 MB. getrlimit also answers 1 MB
  (`syscall.c:440`). The patched CRuby uses its own constant.
- The pattern of `Makefile:111` asks for `pthread_` followed by a dot, which no
  object's name has: the pthread objects stay in the library, against step 3 of
  `README.md` ("removes malloc/pthread objects").
- `README.md:63` shows "cruby init ok" before the prompt; kernel_main prints it
  after the shell has ended (line 57).
- The UEFI kernel is compiled without -mno-red-zone (`Makefile:22`, 197; the shim
  has it, 230), while the firmware's interrupts still run on its stack; and the
  firmware's watchdog, five minutes by default, is not switched off.
- serial_putc writes without looking whether the transmitter is free.
- fcntl answers 0 to every command it does not know, F_DUPFD among them: its
  caller takes descriptor 0 for the copy.
- _pthread_cleanup_push stores nothing; _pthread_cleanup_pop reads the block that
  it should have filled.
- Nothing checks that the kernel's BSS ends below MMAP_BASE.
- Sizes near 2^64 wrap when they are rounded up (`malloc.c:36`, `syscall.c:161`);
  NoWrapAssumption leaves them out.

## 6. Not modelled, and the plan

Not modelled, with the reason:

- Thread stubs: there is one thread and the answers are constants. The only state
  is pthread_key_create's counter.
- The system calls that answer a constant (identity, directories, signals), and
  getrandom.
- Serial output: a character is written to a register, and no state is kept.
- `/proc` texts, listing commands, the adapter's output: formatting.
- The embedding tools, patches to other projects, generated configuration, the web
  page and its service worker; the Makefile's run, usb, wasm and web targets, which
  only call tools; the UEFI kernel's rules, which have the shape of the others.

What is left to do, in this order:

1. A composition of `Shell` with `SerialConsole` in which typed keys cross the
   FIFO, and a burst of keys overruns it.
