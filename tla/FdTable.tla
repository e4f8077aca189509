------------------------------- MODULE FdTable -------------------------------
(***************************************************************************)
(* The descriptor table of the Linux syscall shim                          *)
(* (compat/ruby_on_bare_metal_syscall.c) and every call that reads or      *)
(* writes it.  CRuby and musl run on one CPU with no preemption, so a call *)
(* is one step; what is hard is the long sequence of legal calls.          *)
(***************************************************************************)
EXTENDS Integers

CONSTANTS MAX_FD,     \* RUBY_ON_BARE_METAL_MAX_FD
          File,       \* embedded files
          FileSize,   \* [File -> Nat]
          Missing,    \* a path with no embedded file
          NULL,       \* the data pointer of terminals and pipe ends
          ReadCount,  \* the counts passed to read and write
          Dup2New,    \* the numbers passed to dup2 as the new descriptor
          Unheld      \* the integers passed where a descriptor is meant
                      \* besides those that are held: CRuby passes none in
                      \* the table's range

ASSUME MaxFdAssumption == MAX_FD \in Nat /\ MAX_FD > 3
ASSUME FileAssumption ==
  /\ FileSize \in [File -> Nat]
  /\ NULL \notin File /\ Missing \notin File
ASSUME ReadCountAssumption == ReadCount \subseteq Nat
ASSUME Dup2NewAssumption == Dup2New \subseteq Int
ASSUME UnheldAssumption == Unheld \subseteq Int

VARIABLES fd_table,   \* slot -> struct fd_entry
          held,       \* the descriptors handed to the program, not yet closed
          leaked,     \* slots taken by a pipe call that then failed
          reply       \* what the last call returned

vars == <<fd_table, held, leaked, reply>>

-----------------------------------------------------------------------------
Fd == 0 .. MAX_FD - 1
Stdio == 0 .. 2
Slots == 3 .. MAX_FD - 1      \* the slots the allocating calls search

FdEntry == [used : {0, 1}, data : File \cup {NULL}, size : Nat, offset : Nat]

Unused == [used |-> 0, data |-> NULL, size |-> 0, offset |-> 0]
Opened(f) == [used |-> 1, data |-> f, size |-> FileSize[f], offset |-> 0]
Terminal == [used |-> 1, data |-> NULL, size |-> 0, offset |-> 0]

\* sys_close's assignments, and two defects: it only marks the slot free, it
\* forgets to.
ClearedUsedOnly(e) == [e EXCEPT !.used = 0]
ClearedStillUsed(e) == [e EXCEPT !.data = NULL, !.size = 0, !.offset = 0]
Cleared(e) == [used |-> 0, data |-> NULL, size |-> 0, offset |-> 0]

\* What sys_read has left to copy, and two defects: the operands swapped, the
\* offset left out.
RemainingSwapped(e) == e.offset - e.size
RemainingWhole(e) == e.size
Remaining(e) == e.size - e.offset

\* The integers a caller may pass where an existing descriptor is meant.
FdArg == held \cup Unheld

\* Callers hold the descriptors they pass, or pass what is none at all: the
\* error code of a call that failed.
Disciplined == Unheld \cap Fd = {}

EBADF == -9
EMFILE == -24
ENOENT == -2

Answer(ret, object, at) == [ret |-> ret, object |-> object, at |-> at]
Returns(ret) == Answer(ret, NULL, 0)
Keep == UNCHANGED <<fd_table, held, leaked>>

\* The search every allocating call makes: the lowest slot not in use.
IsFree(i) == i \in Slots /\ fd_table[i].used = 0
FirstFree(i) == IsFree(i) /\ \A j \in Slots : j < i => ~IsFree(j)
TableFull == \A i \in Slots : ~IsFree(i)

Init ==
  /\ fd_table = [i \in Fd |-> IF i \in Stdio THEN Terminal ELSE Unused]
  /\ held = Stdio
  /\ leaked = {}
  /\ reply = Returns(0)

-----------------------------------------------------------------------------
\* sys_open, openat: flags and mode are ignored.
SysOpen(path) ==
  \/ /\ path \notin File
     /\ reply' = Returns(ENOENT)
     /\ Keep
  \/ /\ path \in File
     /\ TableFull
     /\ reply' = Returns(EMFILE)
     /\ Keep
  \/ /\ path \in File
     /\ \E i \in Slots :
          /\ FirstFree(i)
          /\ fd_table' = [fd_table EXCEPT ![i] = Opened(path)]
          /\ held' = held \cup {i}
          /\ reply' = Returns(i)
     /\ UNCHANGED leaked

\* sys_read of descriptor 0: the serial console, whatever the table says.
SysReadConsole(fd, count) ==
  /\ fd = 0
  /\ \E n \in 0 .. count :
       /\ n = 0 <=> count = 0
       /\ reply' = Returns(n)
  /\ Keep

IsFileFd(fd) ==
  /\ fd \in Slots
  /\ fd_table[fd].used = 1
  /\ fd_table[fd].data # NULL

\* sys_read of an embedded file.
SysReadFile(fd, count) ==
  /\ IsFileFd(fd)
  /\ LET e == fd_table[fd]
         to_read == IF count < Remaining(e) THEN count ELSE Remaining(e)
     IN  /\ fd_table' = [fd_table EXCEPT ![fd].offset = @ + to_read]
         /\ reply' = Answer(to_read, e.data, e.offset)
  /\ UNCHANGED <<held, leaked>>

\* sys_read of anything else: end of file.
SysReadNothing(fd) ==
  /\ fd # 0
  /\ ~IsFileFd(fd)
  /\ reply' = Returns(0)
  /\ Keep

SysRead(fd, count) ==
  SysReadConsole(fd, count) \/ SysReadFile(fd, count) \/ SysReadNothing(fd)

\* sys_write, sys_writev, pwrite64: descriptors 1 and 2 only, whatever the
\* table says; a duplicate of stdout is not writable.
SysWrite(fd, count) ==
  /\ reply' = Returns(IF fd \in {1, 2} THEN count ELSE EBADF)
  /\ Keep

\* sys_close succeeds on every number in range, in use or not.
SysClose(fd) ==
  \/ /\ fd \notin Fd
     /\ reply' = Returns(EBADF)
     /\ Keep
  \/ /\ fd \in Fd
     /\ fd_table' = [fd_table EXCEPT ![fd] = Cleared(@)]
     /\ held' = held \ {fd}
     /\ leaked' = leaked \ {fd}
     /\ reply' = Returns(0)

\* sys_fstat does not look at used.
SysFstat(fd) ==
  /\ reply' = IF fd \notin Fd THEN Returns(EBADF)
              ELSE IF fd \in Stdio \/ fd_table[fd].data = NULL THEN Returns(0)
              ELSE Answer(0, fd_table[fd].data, fd_table[fd].size)
  /\ Keep

\* sys_stat (stat, lstat, newfstatat) and access.
SysStat(path) ==
  /\ reply' = IF path \in File THEN Answer(0, path, FileSize[path])
                               ELSE Returns(ENOENT)
  /\ Keep

SysAccess(path) ==
  /\ reply' = Returns(IF path \in File THEN 0 ELSE ENOENT)
  /\ Keep

\* lseek and pread64 answer 0 and move nothing.
SysSeekStub ==
  /\ reply' = Returns(0)
  /\ Keep

\* sys_fcntl answers F_GETFL with O_RDWR and everything else with 0, F_DUPFD
\* too: its caller takes stdin for the duplicate.
O_RDWR == 2
SysFcntl ==
  /\ \E ret \in {0, O_RDWR} : reply' = Returns(ret)
  /\ Keep

\* sys_dup copies the whole entry, used included: duplicating a slot that is
\* not in use hands out a number whose slot stays free.
SysDup(oldfd) ==
  \/ /\ oldfd \notin Fd
     /\ reply' = Returns(EBADF)
     /\ Keep
  \/ /\ oldfd \in Fd
     /\ TableFull
     /\ reply' = Returns(EMFILE)
     /\ Keep
  \/ /\ oldfd \in Fd
     /\ \E i \in Slots :
          /\ FirstFree(i)
          /\ fd_table' = [fd_table EXCEPT ![i] = fd_table[oldfd]]
          /\ held' = held \cup {i}
          /\ reply' = Returns(i)
     /\ UNCHANGED leaked

\* sys_dup2 (and dup3): newfd may be any slot, stdio and leaked ones too.
SysDup2(oldfd, newfd) ==
  \/ /\ oldfd \notin Fd \/ newfd \notin Fd
     /\ reply' = Returns(EBADF)
     /\ Keep
  \/ /\ oldfd \in Fd /\ newfd \in Fd
     /\ fd_table' = [fd_table EXCEPT ![newfd] = fd_table[oldfd]]
     /\ held' = held \cup {newfd}
     /\ leaked' = leaked \ {newfd}
     /\ reply' = Returns(newfd)

\* pipe and pipe2 mark the two lowest free slots in use and write nothing else
\* in them.  With one free slot, that slot is marked before the call fails.
TakeForPipe(taken) ==
  fd_table' = [i \in Fd |-> IF i \in taken THEN [fd_table[i] EXCEPT !.used = 1]
                                           ELSE fd_table[i]]

SysPipe ==
  \/ \E r, w \in Slots :
       /\ FirstFree(r)
       /\ r < w /\ IsFree(w)
       /\ \A j \in Slots : j < w /\ j # r => ~IsFree(j)
       /\ TakeForPipe({r, w})
       /\ held' = held \cup {r, w}
       /\ reply' = Returns(0)
       /\ UNCHANGED leaked
  \/ /\ \A i, j \in Slots : IsFree(i) /\ IsFree(j) => i = j
     /\ TakeForPipe({i \in Slots : IsFree(i)})
     /\ leaked' = leaked \cup {i \in Slots : IsFree(i)}
     /\ reply' = Returns(EMFILE)
     /\ UNCHANGED held

Next ==
  \/ \E path \in File \cup {Missing} :
       SysOpen(path) \/ SysStat(path) \/ SysAccess(path)
  \/ \E fd \in FdArg :
       \/ \E count \in ReadCount : SysRead(fd, count) \/ SysWrite(fd, count)
       \/ SysClose(fd) \/ SysFstat(fd) \/ SysDup(fd)
       \/ \E newfd \in Dup2New : SysDup2(fd, newfd)
  \/ SysSeekStub \/ SysFcntl
  \/ SysPipe

Spec == Init /\ [][Next]_vars

-----------------------------------------------------------------------------
\* The variables stay in the C types and within the table.
TypeOK ==
  /\ fd_table \in [Fd -> FdEntry]
  /\ held \subseteq Fd
  /\ leaked \subseteq Slots
  /\ reply \in [ret : Int, object : File \cup {NULL}, at : Nat]

\* An entry that names a file has that file's size, and its offset is inside:
\* sys_read's size - offset (an unsigned subtraction, line 66) never
\* wraps, so no read copies bytes beyond the embedded file.
OffsetWithinFile ==
  \A i \in Fd : fd_table[i].data # NULL =>
    /\ fd_table[i].size = FileSize[fd_table[i].data]
    /\ fd_table[i].offset <= fd_table[i].size

\* A slot not in use holds no trace of its last file: pipe sets only used, so
\* otherwise a pipe end would read back bytes of a file closed before it.
FreeSlotsClean == \A i \in Fd : fd_table[i].used = 0 => fd_table[i] = Unused

\* The slots in use are exactly those the program holds and those a failed
\* pipe call left marked: no descriptor in use is ever handed out again, and
\* nothing but a failed pipe call loses a slot.
SlotAccounting ==
  /\ held \cap leaked = {}
  /\ \A i \in held : fd_table[i].used = 1
  /\ \A i \in Slots : fd_table[i].used = 1 <=> i \in held \cup leaked

\* Callers that pass only descriptors they hold see the abstract cursors: a
\* new descriptor is not one already held, a duplicate continues where the
\* original was, a call on one descriptor moves no other, and every read
\* continues where the last read of that descriptor ended.
Cursors ==
  [d \in Fd |-> IF d \in held
                THEN [object |-> fd_table[d].data, pos |-> fd_table[d].offset]
                ELSE [object |-> NULL, pos |-> -1]]

Abstract == INSTANCE Descriptors WITH NoFile <- NULL, open <- Cursors

AbstractSpec == Abstract!Spec
=============================================================================
