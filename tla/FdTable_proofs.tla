--------------------------- MODULE FdTable_proofs ---------------------------
(***************************************************************************)
(* Proofs about FdTable for any table size, files and callers, and that it *)
(* implements Descriptors.                                                 *)
(***************************************************************************)
EXTENDS FdTable, TLAPS

\* Every entry is that of a file at an offset inside it, or of no file; an
\* entry not in use is of no file.  This is what the next step needs: a copy
\* of an entry (dup, dup2) carries it over, pipe's marking of a clean slot
\* makes an entry of no file.
EntryOK(e) ==
  /\ e \in FdEntry
  /\ e.used = 0 => e = Unused
  /\ e.data = NULL => e.size = 0 /\ e.offset = 0
  /\ e.data # NULL => e.size = FileSize[e.data] /\ e.offset <= e.size

TableOK ==
  /\ fd_table \in [Fd -> FdEntry]
  /\ \A i \in Fd : EntryOK(fd_table[i])

TypeInv == TypeOK /\ TableOK

\* The invariant gives the properties the runs check.
LEMMA TableOKImplies == TableOK => OffsetWithinFile /\ FreeSlotsClean
  BY DEF TableOK, EntryOK, OffsetWithinFile, FreeSlotsClean

LEMMA NewEntriesOK ==
  /\ EntryOK(Unused) /\ EntryOK(Terminal)
  /\ \A f \in File : EntryOK(Opened(f))
  BY FileAssumption DEF EntryOK, FdEntry, Unused, Terminal, Opened

LEMMA ClearedIsUnused == \A e \in FdEntry : Cleared(e) = Unused
  BY DEF Cleared, Unused, FdEntry

\* Writing a good entry into one slot keeps the table good.
LEMMA UpdateOK ==
  ASSUME TableOK, NEW i \in Fd, NEW e, EntryOK(e),
         fd_table' = [fd_table EXCEPT ![i] = e]
  PROVE  TableOK'
  BY DEF TableOK, EntryOK

LEMMA SlotsInFd == Slots \subseteq Fd /\ Stdio \subseteq Fd
  BY MaxFdAssumption DEF Slots, Fd, Stdio

LEMMA InitTypeInv == Init => TypeInv
<1> SUFFICES ASSUME Init PROVE TypeInv
  OBVIOUS
<1>1. TableOK
  BY NewEntriesOK DEF Init, TableOK, EntryOK
<1>2. TypeOK
  BY <1>1, SlotsInFd DEF Init, TypeOK, TableOK, Returns, Answer
<1> QED
  BY <1>1, <1>2 DEF TypeInv

\* The answers of the calls have reply's type.
LEMMA ReturnsType ==
  ASSUME NEW n \in Int
  PROVE  Returns(n) \in [ret : Int, object : File \cup {NULL}, at : Nat]
  BY DEF Returns, Answer

LEMMA ErrnoInt == EBADF \in Int /\ EMFILE \in Int /\ ENOENT \in Int
  BY DEF EBADF, EMFILE, ENOENT

LEMMA KeepTypeInv ==
  ASSUME TypeInv, Keep,
         reply' \in [ret : Int, object : File \cup {NULL}, at : Nat]
  PROVE  TypeInv'
  BY DEF TypeInv, TypeOK, TableOK, EntryOK, Keep

\* sys_read of a file stops at its end: the one step that moves an offset.
LEMMA ReadFileStep ==
  ASSUME TypeInv, NEW fd, NEW count \in ReadCount, SysReadFile(fd, count)
  PROVE  TypeInv'
<1> DEFINE e == fd_table[fd]
           to_read == IF count < Remaining(e) THEN count ELSE Remaining(e)
<1>1. fd \in Fd /\ EntryOK(e) /\ e.data # NULL /\ e.used = 1
  BY SlotsInFd DEF SysReadFile, IsFileFd, TypeInv, TableOK
<1>2. /\ e.size \in Nat /\ e.offset \in Nat /\ e.offset <= e.size
      /\ e.data \in File
  BY <1>1 DEF EntryOK, FdEntry
<1>3. to_read \in Nat /\ e.offset + to_read <= e.size
  BY <1>2, ReadCountAssumption DEF Remaining
<1>4. fd_table' = [fd_table EXCEPT ![fd] = [e EXCEPT !.offset = @ + to_read]]
  BY <1>1 DEF SysReadFile, TypeInv, TableOK
<1>5. EntryOK([e EXCEPT !.offset = @ + to_read])
  <2> HIDE DEF to_read
  <2> QED BY <1>1, <1>2, <1>3 DEF EntryOK, FdEntry
<1>6. TableOK'
  <2> HIDE DEF to_read, e
  <2> QED BY <1>1, <1>4, <1>5, UpdateOK DEF TypeInv
<1>7. reply' \in [ret : Int, object : File \cup {NULL}, at : Nat]
  BY <1>2, <1>3 DEF SysReadFile, Answer
<1> QED
  BY <1>6, <1>7 DEF TypeInv, TypeOK, TableOK, SysReadFile

\* pipe marks clean slots, so the entries it makes are of no file.
LEMMA PipeStep ==
  ASSUME TypeInv, SysPipe
  PROVE  TypeInv'
<1>1. ASSUME NEW taken \in SUBSET Slots, \A i \in taken : IsFree(i),
             TakeForPipe(taken)
      PROVE  TableOK'
  <2>1. \A i \in taken : fd_table[i] = Unused
    BY <1>1, SlotsInFd DEF IsFree, TypeInv, TableOK, EntryOK
  <2>2. \A i \in Fd : EntryOK(fd_table'[i])
    BY <1>1, <2>1, NewEntriesOK, SlotsInFd
    DEF TakeForPipe, TypeInv, TableOK, EntryOK, Unused, Terminal, FdEntry
  <2> QED
    BY <1>1, <2>2 DEF TakeForPipe, TableOK, EntryOK
<1>2. CASE \E r, w \in Slots :
             /\ IsFree(r) /\ IsFree(w)
             /\ TakeForPipe({r, w})
             /\ held' = held \cup {r, w}
             /\ reply' = Returns(0)
             /\ UNCHANGED leaked
  BY <1>1, <1>2, SlotsInFd, ReturnsType DEF TypeInv, TypeOK, TableOK
<1>3. CASE /\ TakeForPipe({i \in Slots : IsFree(i)})
           /\ leaked' = leaked \cup {i \in Slots : IsFree(i)}
           /\ reply' = Returns(EMFILE)
           /\ UNCHANGED held
  BY <1>1, <1>3, ReturnsType, ErrnoInt DEF TypeInv, TypeOK, TableOK
<1> QED
  BY <1>2, <1>3 DEF SysPipe, FirstFree

LEMMA NextTypeInv == TypeInv /\ [Next]_vars => TypeInv'
<1> SUFFICES ASSUME TypeInv, [Next]_vars PROVE TypeInv'
  OBVIOUS
<1> USE ReturnsType, ErrnoInt
<1>1. ASSUME NEW path \in File \cup {Missing}, SysOpen(path) PROVE TypeInv'
  <2>1. CASE Keep /\ reply' \in {Returns(ENOENT), Returns(EMFILE)}
    BY <2>1, KeepTypeInv
  <2>2. ASSUME NEW i \in Slots, path \in File,
               fd_table' = [fd_table EXCEPT ![i] = Opened(path)],
               held' = held \cup {i}, reply' = Returns(i), UNCHANGED leaked
        PROVE  TypeInv'
    <3>1. TableOK'
      BY <2>2, NewEntriesOK, UpdateOK, SlotsInFd DEF TypeInv
    <3> QED
      BY <2>2, <3>1, SlotsInFd DEF TypeInv, TypeOK, TableOK, Slots
  <2> QED
    BY <1>1, <2>1, <2>2 DEF SysOpen
<1>2. ASSUME NEW path \in File \cup {Missing}, SysStat(path) \/ SysAccess(path)
      PROVE  TypeInv'
  <2>1. reply' \in [ret : Int, object : File \cup {NULL}, at : Nat]
    BY <1>2, FileAssumption DEF SysStat, SysAccess, Answer
  <2> QED
    BY <1>2, <2>1, KeepTypeInv DEF SysStat, SysAccess
<1>3. ASSUME NEW fd \in FdArg, NEW count \in ReadCount,
             SysRead(fd, count) \/ SysWrite(fd, count)
      PROVE  TypeInv'
  <2>1. CASE SysReadFile(fd, count)
    BY <2>1, ReadFileStep
  <2>2. CASE \/ SysReadConsole(fd, count) \/ SysReadNothing(fd)
             \/ SysWrite(fd, count)
    <3>1. Keep /\ \E n \in Int : reply' = Returns(n)
      BY <2>2, ReadCountAssumption
      DEF SysReadConsole, SysReadNothing, SysWrite
    <3> QED
      BY <3>1, KeepTypeInv
  <2> QED
    BY <1>3, <2>1, <2>2 DEF SysRead
<1>4. ASSUME NEW fd \in FdArg, SysClose(fd) PROVE TypeInv'
  <2>1. CASE Keep /\ reply' = Returns(EBADF)
    BY <2>1, KeepTypeInv
  <2>2. CASE /\ fd \in Fd
             /\ fd_table' = [fd_table EXCEPT ![fd] = Cleared(@)]
             /\ held' = held \ {fd}
             /\ leaked' = leaked \ {fd}
             /\ reply' = Returns(0)
    <3>1. TableOK'
      BY <2>2, ClearedIsUnused, NewEntriesOK, UpdateOK DEF TypeInv, TableOK
    <3> QED
      BY <2>2, <3>1 DEF TypeInv, TypeOK, TableOK
  <2> QED
    BY <1>4, <2>1, <2>2 DEF SysClose
<1>5. ASSUME NEW fd \in FdArg, SysFstat(fd) PROVE TypeInv'
  <2>1. reply' \in [ret : Int, object : File \cup {NULL}, at : Nat]
    BY <1>5 DEF SysFstat, Answer, TypeInv, TableOK, FdEntry
  <2> QED
    BY <1>5, <2>1, KeepTypeInv DEF SysFstat
<1>6. ASSUME NEW fd \in FdArg, SysDup(fd) PROVE TypeInv'
  <2>1. CASE Keep /\ reply' \in {Returns(EBADF), Returns(EMFILE)}
    BY <2>1, KeepTypeInv
  <2>2. ASSUME NEW i \in Slots, fd \in Fd,
               fd_table' = [fd_table EXCEPT ![i] = fd_table[fd]],
               held' = held \cup {i}, reply' = Returns(i), UNCHANGED leaked
        PROVE  TypeInv'
    <3>1. TableOK'
      BY <2>2, UpdateOK, SlotsInFd DEF TypeInv, TableOK
    <3> QED
      BY <2>2, <3>1, SlotsInFd DEF TypeInv, TypeOK, TableOK, Slots
  <2> QED
    BY <1>6, <2>1, <2>2 DEF SysDup
<1>7. ASSUME NEW fd \in FdArg, NEW newfd \in Dup2New, SysDup2(fd, newfd)
      PROVE  TypeInv'
  <2>1. CASE Keep /\ reply' = Returns(EBADF)
    BY <2>1, KeepTypeInv
  <2>2. CASE /\ fd \in Fd /\ newfd \in Fd
             /\ fd_table' = [fd_table EXCEPT ![newfd] = fd_table[fd]]
             /\ held' = held \cup {newfd}
             /\ leaked' = leaked \ {newfd}
             /\ reply' = Returns(newfd)
    <3>1. TableOK'
      BY <2>2, UpdateOK DEF TypeInv, TableOK
    <3>2. newfd \in Int
      BY Dup2NewAssumption
    <3>3. reply' \in [ret : Int, object : File \cup {NULL}, at : Nat]
      BY <2>2, <3>2, ReturnsType
    <3> QED
      BY <2>2, <3>1, <3>3 DEF TypeInv, TypeOK, TableOK
  <2> QED
    BY <1>7, <2>1, <2>2 DEF SysDup2
<1>8. CASE SysSeekStub \/ SysFcntl
  BY <1>8, KeepTypeInv DEF SysSeekStub, SysFcntl, O_RDWR
<1>9. CASE SysPipe
  BY <1>9, PipeStep
<1>10. CASE UNCHANGED vars
  BY <1>10 DEF vars, TypeInv, TypeOK, TableOK, EntryOK
<1> QED
  BY <1>1, <1>2, <1>3, <1>4, <1>5, <1>6, <1>7, <1>8, <1>9, <1>10 DEF Next

THEOREM TableInvariant == Spec => []TypeInv
<1>1. Init => TypeInv
  BY InitTypeInv
<1>2. TypeInv /\ [Next]_vars => TypeInv'
  BY NextTypeInv
<1> QED
  BY <1>1, <1>2, PTL DEF Spec

\* The variables keep the C types for any callers.
THEOREM TypeCorrect == Spec => []TypeOK
<1>1. TypeInv => TypeOK
  BY DEF TypeInv
<1> QED
  BY <1>1, TableInvariant, PTL

\* No sequence of calls, by callers that pass any integer as a descriptor,
\* makes a read start or end beyond the embedded file.
THEOREM ReadsStayInFile == Spec => []OffsetWithinFile
<1>1. TypeInv => OffsetWithinFile
  BY TableOKImplies DEF TypeInv
<1> QED
  BY <1>1, TableInvariant, PTL

\* No slot that is not in use keeps anything of the file it was opened on, so
\* no pipe end ever reads one.
THEOREM ClosedSlotsAreClean == Spec => []FreeSlotsClean
<1>1. TypeInv => FreeSlotsClean
  BY TableOKImplies DEF TypeInv
<1> QED
  BY <1>1, TableInvariant, PTL

-----------------------------------------------------------------------------
\* Callers that pass only descriptors they hold.

\* A freshly found slot is neither held nor leaked.
LEMMA FreeSlotIsUnknown ==
  ASSUME TypeInv, SlotAccounting, NEW i, IsFree(i)
  PROVE  i \in Slots /\ i \notin held /\ i \notin leaked
  BY DEF IsFree, SlotAccounting

LEMMA InitAccounting == Init => SlotAccounting
<1> SUFFICES ASSUME Init PROVE SlotAccounting
  OBVIOUS
<1>1. \A i \in Fd : fd_table[i].used = IF i \in Stdio THEN 1 ELSE 0
  BY DEF Init, Terminal, Unused
<1>2. \A i \in Slots : i \notin Stdio
  BY MaxFdAssumption DEF Slots, Stdio
<1> QED
  BY <1>1, <1>2, SlotsInFd DEF Init, SlotAccounting

LEMMA NextAccounting ==
  ASSUME Disciplined, TypeInv, SlotAccounting, [Next]_vars
  PROVE  SlotAccounting'
<1> USE SlotsInFd
<1>1. ASSUME NEW path \in File \cup {Missing}, SysOpen(path)
      PROVE  SlotAccounting'
  <2>1. CASE Keep
    BY <2>1 DEF Keep, SlotAccounting
  <2>2. ASSUME NEW i \in Slots, FirstFree(i),
               fd_table' = [fd_table EXCEPT ![i] = Opened(path)],
               held' = held \cup {i}, UNCHANGED leaked
        PROVE  SlotAccounting'
    BY <2>2, FreeSlotIsUnknown
    DEF FirstFree, SlotAccounting, Opened, TypeInv, TypeOK, TableOK
  <2> QED
    BY <1>1, <2>1, <2>2 DEF SysOpen
<1>2. ASSUME NEW path \in File \cup {Missing}, SysStat(path) \/ SysAccess(path)
      PROVE  SlotAccounting'
  BY <1>2 DEF SysStat, SysAccess, Keep, SlotAccounting
<1>3. ASSUME NEW fd \in FdArg, NEW count \in ReadCount,
             SysRead(fd, count) \/ SysWrite(fd, count)
      PROVE  SlotAccounting'
  <2>1. CASE SysReadFile(fd, count)
    <3>1. \A i \in Fd : fd_table'[i].used = fd_table[i].used
      BY <2>1 DEF SysReadFile, TypeInv, TypeOK, FdEntry
    <3> QED
      BY <2>1, <3>1 DEF SysReadFile, SlotAccounting, TypeInv, TypeOK
  <2>2. CASE \/ SysReadConsole(fd, count) \/ SysReadNothing(fd)
             \/ SysWrite(fd, count)
    <3>1. Keep
      BY <2>2 DEF SysReadConsole, SysReadNothing, SysWrite
    <3> QED
      BY <3>1 DEF Keep, SlotAccounting
  <2> QED
    BY <1>3, <2>1, <2>2 DEF SysRead
<1>4. ASSUME NEW fd \in FdArg, SysClose(fd) PROVE SlotAccounting'
  <2>1. CASE Keep
    BY <2>1 DEF Keep, SlotAccounting
  <2>2. CASE /\ fd \in Fd
             /\ fd_table' = [fd_table EXCEPT ![fd] = Cleared(@)]
             /\ held' = held \ {fd}
             /\ leaked' = leaked \ {fd}
    BY <2>2 DEF SlotAccounting, Cleared, TypeInv, TypeOK, FdEntry
  <2> QED
    BY <1>4, <2>1, <2>2 DEF SysClose
<1>5. ASSUME NEW fd \in FdArg, SysFstat(fd) PROVE SlotAccounting'
  BY <1>5 DEF SysFstat, Keep, SlotAccounting
<1>6. ASSUME NEW fd \in FdArg, SysDup(fd) PROVE SlotAccounting'
  <2>1. CASE Keep
    BY <2>1 DEF Keep, SlotAccounting
  <2>2. ASSUME fd \in Fd, NEW i \in Slots, FirstFree(i),
               fd_table' = [fd_table EXCEPT ![i] = fd_table[fd]],
               held' = held \cup {i}, UNCHANGED leaked
        PROVE  SlotAccounting'
    <3>1. fd_table[fd].used = 1
      BY <2>2 DEF FdArg, Disciplined, SlotAccounting
    <3> QED
      BY <2>2, <3>1, FreeSlotIsUnknown
      DEF FirstFree, SlotAccounting, TypeInv, TypeOK, TableOK
  <2> QED
    BY <1>6, <2>1, <2>2 DEF SysDup
<1>7. ASSUME NEW fd \in FdArg, NEW newfd \in Dup2New, SysDup2(fd, newfd)
      PROVE  SlotAccounting'
  <2>1. CASE Keep
    BY <2>1 DEF Keep, SlotAccounting
  <2>2. CASE /\ fd \in Fd /\ newfd \in Fd
             /\ fd_table' = [fd_table EXCEPT ![newfd] = fd_table[fd]]
             /\ held' = held \cup {newfd}
             /\ leaked' = leaked \ {newfd}
    <3>1. fd_table[fd].used = 1
      BY <2>2 DEF FdArg, Disciplined, SlotAccounting
    <3> QED
      BY <2>2, <3>1 DEF SlotAccounting, TypeInv, TypeOK
  <2> QED
    BY <1>7, <2>1, <2>2 DEF SysDup2
<1>8. CASE SysSeekStub \/ SysFcntl
  BY <1>8 DEF SysSeekStub, SysFcntl, Keep, SlotAccounting
<1>9. CASE SysPipe
  <2>1. ASSUME NEW taken \in SUBSET Slots, \A i \in taken : IsFree(i),
               TakeForPipe(taken)
        PROVE  /\ \A i \in taken : i \notin held /\ i \notin leaked
               /\ \A i \in Fd : fd_table'[i].used =
                    IF i \in taken THEN 1 ELSE fd_table[i].used
    BY <2>1, FreeSlotIsUnknown DEF TakeForPipe, TypeInv, TypeOK, FdEntry
  <2>2. ASSUME NEW r \in Slots, NEW w \in Slots, IsFree(r), IsFree(w),
               TakeForPipe({r, w}), held' = held \cup {r, w}, UNCHANGED leaked
        PROVE  SlotAccounting'
    <3>1. /\ r \notin leaked /\ w \notin leaked
          /\ \A i \in Fd : fd_table'[i].used =
               IF i \in {r, w} THEN 1 ELSE fd_table[i].used
      BY <2>1, <2>2
    <3> QED
      BY <2>2, <3>1 DEF SlotAccounting, TypeInv, TypeOK
  <2>3. ASSUME TakeForPipe({i \in Slots : IsFree(i)}), UNCHANGED held,
               leaked' = leaked \cup {i \in Slots : IsFree(i)}
        PROVE  SlotAccounting'
    <3>1. /\ \A i \in Slots : IsFree(i) => i \notin held
          /\ \A i \in Fd : fd_table'[i].used =
               IF i \in {j \in Slots : IsFree(j)} THEN 1 ELSE fd_table[i].used
      BY <2>1, <2>3
    <3> QED
      BY <2>3, <3>1 DEF SlotAccounting, TypeInv, TypeOK
  <2> QED
    BY <1>9, <2>2, <2>3 DEF SysPipe, FirstFree
<1>10. CASE UNCHANGED vars
  BY <1>10 DEF vars, SlotAccounting
<1> QED
  BY <1>1, <1>2, <1>3, <1>4, <1>5, <1>6, <1>7, <1>8, <1>9, <1>10 DEF Next

\* The slots in use are those the program holds and those failed pipe calls
\* left marked, and no others.
THEOREM SlotsAreAccountedFor == Disciplined => (Spec => []SlotAccounting)
<1> SUFFICES ASSUME Disciplined PROVE Spec => []SlotAccounting
  OBVIOUS
<1>1. Init => SlotAccounting
  BY InitAccounting
<1>2. SlotAccounting /\ TypeInv /\ [Next]_vars => SlotAccounting'
  BY NextAccounting
<1> QED
  BY <1>1, <1>2, TableInvariant, PTL DEF Spec

-----------------------------------------------------------------------------
(* For callers that pass only descriptors they hold, every step of FdTable *)
(* is a step of Descriptors.                                               *)

USE DEF Abstract!Closed, Abstract!Answer, Abstract!Returns, Answer, Returns

Inv == TypeInv /\ SlotAccounting

\* The cursor of a descriptor that is held, and of one that is not.
LEMMA CursorOf ==
  ASSUME TypeInv, NEW d \in Fd
  PROVE  /\ d \in held => /\ Cursors[d].object = fd_table[d].data
                          /\ Cursors[d].pos = fd_table[d].offset
                          /\ Cursors[d] # Abstract!Closed
         /\ d \notin held => Cursors[d] = Abstract!Closed
  BY DEF Cursors, TypeInv, TypeOK, FdEntry

\* Nothing but the answer changes.
LEMMA AnswerOnly ==
  ASSUME Keep, NEW n \in Int, reply' = Returns(n)
  PROVE  Abstract!Next
  BY DEF Keep, Cursors, Abstract!Next, Abstract!Other

\* A slot found free is handed out with a new entry.
LEMMA AcquireStep ==
  ASSUME Inv, NEW i \in Slots, IsFree(i), NEW e \in FdEntry,
         fd_table' = [fd_table EXCEPT ![i] = e],
         held' = held \cup {i}, reply' = Returns(i)
  PROVE  Abstract!Acquire(i, e.data, e.offset)
<1>1. i \in Fd /\ i \notin Stdio
  BY SlotsInFd, MaxFdAssumption DEF Slots, Stdio
<1>2. Cursors[i] = Abstract!Closed
  BY <1>1, FreeSlotIsUnknown, CursorOf DEF Inv
<1>3. Cursors' = [Cursors EXCEPT ![i] = [object |-> e.data, pos |-> e.offset]]
  BY <1>1 DEF Cursors, Inv, TypeInv, TypeOK
<1> QED
  BY <1>1, <1>2, <1>3 DEF Abstract!Acquire

LEMMA InitRefines == Init => Abstract!Init
<1> SUFFICES ASSUME Init PROVE Abstract!Init
  OBVIOUS
<1>1. Cursors = [d \in Fd |-> IF d \in Stdio
                              THEN [object |-> NULL, pos |-> 0]
                              ELSE Abstract!Closed]
  BY DEF Init, Cursors, Terminal
<1> QED
  BY <1>1 DEF Init, Abstract!Init

LEMMA OpenRefines ==
  ASSUME Inv, NEW path \in File \cup {Missing}, SysOpen(path)
  PROVE  Abstract!Next
<1>1. CASE Keep /\ reply' \in {Returns(ENOENT), Returns(EMFILE)}
  BY <1>1, AnswerOnly, ErrnoInt
<1>2. ASSUME path \in File, NEW i \in Slots, FirstFree(i),
             fd_table' = [fd_table EXCEPT ![i] = Opened(path)],
             held' = held \cup {i}, reply' = Returns(i)
      PROVE  Abstract!Next
  <2>1. /\ Opened(path) \in FdEntry
        /\ Opened(path).data = path /\ Opened(path).offset = 0
    BY <1>2, FileAssumption DEF Opened, FdEntry
  <2>2. Abstract!Acquire(i, path, 0)
    BY <1>2, <2>1, AcquireStep DEF FirstFree
  <2>3. i \in Fd
    BY SlotsInFd
  <2> QED
    BY <1>2, <2>2, <2>3 DEF Abstract!OpenFile, Abstract!Next
<1> QED
  BY <1>1, <1>2 DEF SysOpen

LEMMA ReadRefines ==
  ASSUME Disciplined, Inv, NEW fd \in FdArg, NEW count \in ReadCount,
         SysReadFile(fd, count)
  PROVE  Abstract!Next
<1> DEFINE e == fd_table[fd]
           n == reply'.ret
<1>1. fd \in held /\ fd \in Fd /\ fd \in Slots /\ fd \notin Stdio
  BY SlotsInFd, MaxFdAssumption
  DEF FdArg, Disciplined, SysReadFile, IsFileFd, Slots, Stdio, Inv, TypeInv, TypeOK
<1>2. /\ EntryOK(e) /\ e \in FdEntry /\ e.data # NULL
      /\ Cursors[fd].object = e.data /\ Cursors[fd].pos = e.offset
      /\ Cursors[fd] # Abstract!Closed
  BY <1>1, CursorOf DEF SysReadFile, IsFileFd, Inv, TypeInv, TableOK
<1>3. /\ e.size = FileSize[e.data] /\ e.offset <= e.size
      /\ e.size \in Nat /\ e.offset \in Nat
  BY <1>2 DEF EntryOK, FdEntry
<1>4. /\ reply' = Answer(n, e.data, e.offset)
      /\ fd_table' = [fd_table EXCEPT ![fd].offset = e.offset + n]
      /\ n \in Nat /\ e.offset + n <= e.size
  BY <1>3, ReadCountAssumption DEF SysReadFile, Remaining
<1>5. Cursors' = [Cursors EXCEPT ![fd].pos = @ + n]
  <2> HIDE DEF n
  <2>1. /\ fd_table'[fd].data = e.data
        /\ fd_table'[fd].offset = e.offset + n
        /\ \A d \in Fd \ {fd} : fd_table'[d] = fd_table[d]
    BY <1>1, <1>2, <1>4 DEF Inv, TypeInv, TypeOK, FdEntry
  <2>2. Cursors' = [Cursors EXCEPT ![fd] = [object |-> e.data,
                                            pos |-> e.offset + n]]
    BY <1>1, <2>1 DEF Cursors, SysReadFile
  <2>3. Cursors[fd] = [object |-> e.data, pos |-> e.offset]
    BY <1>1 DEF Cursors
  <2>4. [Cursors[fd] EXCEPT !.pos = @ + n] =
          [object |-> e.data, pos |-> e.offset + n]
    BY <2>3
  <2>5. Cursors' = [Cursors EXCEPT ![fd] = [Cursors[fd] EXCEPT !.pos = @ + n]]
    BY <2>2, <2>4
  <2> QED
    BY <2>5
<1>6. Cursors[fd].pos + n <= Abstract!SizeOf(Cursors[fd].object)
  BY <1>2, <1>3, <1>4 DEF Abstract!SizeOf
<1>7. reply' = Abstract!Answer(n, Cursors[fd].object, Cursors[fd].pos)
  BY <1>2, <1>4
<1>8. Abstract!ReadFile
  <2> HIDE DEF n
  <2>1. n = reply'.ret
    BY DEF n
  <2> QED
    BY <1>1, <1>2, <1>4, <1>5, <1>6, <1>7, <2>1 DEF Abstract!ReadFile
<1> QED
  BY <1>8 DEF Abstract!Next

\* An argument that is in the table is held.
LEMMA ArgumentHeld ==
  ASSUME Disciplined, NEW fd \in FdArg, fd \in Fd
  PROVE  fd \in held
  BY DEF FdArg, Disciplined

LEMMA CloseRefines ==
  ASSUME Disciplined, Inv, NEW fd \in FdArg, SysClose(fd)
  PROVE  Abstract!Next
<1>1. CASE Keep /\ reply' = Returns(EBADF)
  BY <1>1, AnswerOnly, ErrnoInt
<1>2. CASE /\ fd \in Fd
           /\ fd_table' = [fd_table EXCEPT ![fd] = Cleared(@)]
           /\ held' = held \ {fd}
           /\ reply' = Returns(0)
  <2>1. fd \in held
    BY <1>2, ArgumentHeld
  <2>2. Cursors' = [Cursors EXCEPT ![fd] = Abstract!Closed]
    BY <1>2, <2>1 DEF Cursors, Inv, TypeInv, TypeOK
  <2> QED
    BY <1>2, <2>1, <2>2, CursorOf DEF Abstract!Close, Abstract!Next, Inv
<1> QED
  BY <1>1, <1>2 DEF SysClose

LEMMA FstatRefines ==
  ASSUME Disciplined, Inv, NEW fd \in FdArg, SysFstat(fd)
  PROVE  Abstract!Next
<1>1. CASE fd \notin Fd \/ fd \in Stdio \/ fd_table[fd].data = NULL
  <2>1. Keep /\ reply' \in {Returns(EBADF), Returns(0)}
    BY <1>1 DEF SysFstat
  <2> QED
    BY <2>1, AnswerOnly, ErrnoInt
<1>2. CASE fd \in Fd /\ fd \notin Stdio /\ fd_table[fd].data # NULL
  <2>1. fd \in held
    BY <1>2, ArgumentHeld
  <2>2. /\ Keep
        /\ reply' = Answer(0, fd_table[fd].data, FileSize[fd_table[fd].data])
    BY <1>2 DEF SysFstat, Inv, TypeInv, TableOK, EntryOK
  <2>3. /\ Cursors[fd].object = fd_table[fd].data
        /\ Cursors[fd] # Abstract!Closed
        /\ Cursors' = Cursors
    BY <1>2, <2>1, <2>2, CursorOf DEF Keep, Cursors, Inv
  <2> QED
    BY <1>2, <2>2, <2>3
    DEF Abstract!Attributes, Abstract!SizeOf, Abstract!Next
<1> QED
  BY <1>1, <1>2

LEMMA StatRefines ==
  ASSUME NEW path \in File \cup {Missing}, SysStat(path) \/ SysAccess(path)
  PROVE  Abstract!Next
<1>1. CASE \E n \in Int : reply' = Returns(n)
  BY <1>1, AnswerOnly DEF SysStat, SysAccess
<1>2. CASE path \in File /\ reply' = Answer(0, path, FileSize[path])
  <2>1. Cursors' = Cursors
    BY DEF SysStat, SysAccess, Keep, Cursors
  <2> QED
    BY <1>2, <2>1 DEF Abstract!PathAttributes, Abstract!Next
<1> QED
  BY <1>1, <1>2 DEF SysStat, SysAccess, ENOENT

LEMMA DupRefines ==
  ASSUME Disciplined, Inv, NEW fd \in FdArg, SysDup(fd)
  PROVE  Abstract!Next
<1>1. fd \in Fd => fd \in held /\ fd_table[fd] \in FdEntry
  BY ArgumentHeld DEF Inv, TypeInv, TypeOK
<1>2. CASE Keep /\ reply' \in {Returns(EBADF), Returns(EMFILE)}
  BY <1>2, AnswerOnly, ErrnoInt
<1>3. ASSUME fd \in Fd, NEW i \in Slots, FirstFree(i),
             fd_table' = [fd_table EXCEPT ![i] = fd_table[fd]],
             held' = held \cup {i}, reply' = Returns(i)
      PROVE  Abstract!Next
  <2>1. Abstract!Acquire(i, fd_table[fd].data, fd_table[fd].offset)
    BY <1>1, <1>3, AcquireStep DEF FirstFree
  <2>2. Abstract!Acquire(i, Cursors[fd].object, Cursors[fd].pos)
    BY <1>1, <1>3, <2>1, CursorOf DEF Inv
  <2>3. i \in Fd /\ Cursors[fd] # Abstract!Closed
    BY <1>1, <1>3, SlotsInFd, CursorOf DEF Inv
  <2>4. Abstract!Duplicate
    BY <1>3, <2>2, <2>3 DEF Abstract!Duplicate
  <2> QED
    BY <2>4 DEF Abstract!Next
<1> QED
  BY <1>2, <1>3 DEF SysDup

LEMMA Dup2Refines ==
  ASSUME Disciplined, Inv, NEW fd \in FdArg, NEW newfd \in Dup2New,
         SysDup2(fd, newfd)
  PROVE  Abstract!Next
<1>1. fd \in Fd => fd \in held
  BY ArgumentHeld
<1>2. CASE Keep /\ reply' = Returns(EBADF)
  BY <1>2, AnswerOnly, ErrnoInt
<1>3. CASE /\ fd \in Fd /\ newfd \in Fd
           /\ fd_table' = [fd_table EXCEPT ![newfd] = fd_table[fd]]
           /\ held' = held \cup {newfd}
           /\ reply' = Returns(newfd)
  <2>1. Cursors' = [Cursors EXCEPT ![newfd] = Cursors[fd]]
    BY <1>1, <1>3 DEF Cursors, Inv, TypeInv, TypeOK
  <2>2. Abstract!DuplicateOnto
    BY <1>1, <1>3, <2>1, CursorOf DEF Abstract!DuplicateOnto, Inv
  <2> QED
    BY <2>2 DEF Abstract!Next
<1> QED
  BY <1>2, <1>3 DEF SysDup2

\* Marking clean slots makes cursors of no file at position 0.
LEMMA MarkedCursors ==
  ASSUME Inv, NEW taken \in SUBSET Slots, \A i \in taken : IsFree(i),
         TakeForPipe(taken)
  PROVE  /\ \A i \in taken : /\ fd_table'[i].data = NULL
                             /\ fd_table'[i].offset = 0
                             /\ i \notin held
         /\ \A i \in Fd \ taken : fd_table'[i] = fd_table[i]
<1>1. \A i \in taken : fd_table[i] = Unused /\ i \notin held
  BY SlotsInFd, FreeSlotIsUnknown DEF IsFree, Inv, TypeInv, TableOK, EntryOK
<1> QED
  BY <1>1, SlotsInFd DEF TakeForPipe, Unused

LEMMA PipeRefines ==
  ASSUME Inv, SysPipe
  PROVE  Abstract!Next
<1>1. ASSUME NEW r \in Slots, NEW w \in Slots, r # w, IsFree(r), IsFree(w),
             TakeForPipe({r, w}), held' = held \cup {r, w}, reply' = Returns(0)
      PROVE  Abstract!Next
  <2> DEFINE end == [object |-> NULL, pos |-> 0]
  <2>1. /\ \A i \in {r, w} : /\ fd_table'[i].data = NULL
                             /\ fd_table'[i].offset = 0
                             /\ i \notin held
        /\ \A i \in Fd \ {r, w} : fd_table'[i] = fd_table[i]
    BY <1>1, MarkedCursors
  <2>2. r \in Fd \ Stdio /\ w \in Fd \ Stdio
    BY SlotsInFd, MaxFdAssumption DEF Slots, Stdio
  <2>3. Cursors' = [Cursors EXCEPT ![r] = end, ![w] = end]
    BY <1>1, <2>1, <2>2 DEF Cursors
  <2>4. Cursors[r] = Abstract!Closed /\ Cursors[w] = Abstract!Closed
    BY <2>1, <2>2, CursorOf DEF Inv
  <2>5. Abstract!MakePipe
    BY <1>1, <2>2, <2>3, <2>4 DEF Abstract!MakePipe
  <2> QED
    BY <2>5 DEF Abstract!Next
<1>2. ASSUME TakeForPipe({i \in Slots : IsFree(i)}), UNCHANGED held,
             reply' = Returns(EMFILE)
      PROVE  Abstract!Next
  <2>1. \A i \in held : fd_table'[i] = fd_table[i]
    <3>1. \A i \in {j \in Slots : IsFree(j)} : i \notin held
      BY <1>2, MarkedCursors
    <3>2. \A i \in Fd \ {j \in Slots : IsFree(j)} : fd_table'[i] = fd_table[i]
      BY <1>2, MarkedCursors
    <3> QED
      BY <3>1, <3>2 DEF Inv, TypeInv, TypeOK
  <2>2. Cursors' = Cursors
    BY <1>2, <2>1 DEF Cursors
  <2>3. Abstract!Other
    BY <1>2, <2>2, ErrnoInt DEF Abstract!Other
  <2> QED
    BY <2>3 DEF Abstract!Next
<1>3. \A r, w \in Slots : r < w => r # w
  BY DEF Slots
<1> QED
  BY <1>1, <1>2, <1>3 DEF SysPipe, FirstFree

LEMMA NextRefines ==
  ASSUME Disciplined, Inv, [Next]_vars
  PROVE  Abstract!Next \/ UNCHANGED Abstract!vars
<1>1. ASSUME NEW path \in File \cup {Missing},
             SysOpen(path) \/ SysStat(path) \/ SysAccess(path)
      PROVE  Abstract!Next
  BY <1>1, OpenRefines, StatRefines
<1>2. ASSUME NEW fd \in FdArg, NEW count \in ReadCount,
             SysRead(fd, count) \/ SysWrite(fd, count)
      PROVE  Abstract!Next
  <2>1. CASE SysReadFile(fd, count)
    BY <2>1, ReadRefines
  <2>2. CASE \/ SysReadConsole(fd, count) \/ SysReadNothing(fd)
             \/ SysWrite(fd, count)
    <3>1. Keep /\ \E n \in Int : reply' = Returns(n)
      BY <2>2, ReadCountAssumption, ErrnoInt
      DEF SysReadConsole, SysReadNothing, SysWrite
    <3> QED
      BY <3>1, AnswerOnly
  <2> QED
    BY <1>2, <2>1, <2>2 DEF SysRead
<1>3. ASSUME NEW fd \in FdArg, NEW newfd \in Dup2New,
             \/ SysClose(fd) \/ SysFstat(fd) \/ SysDup(fd)
             \/ SysDup2(fd, newfd)
      PROVE  Abstract!Next
  BY <1>3, CloseRefines, FstatRefines, DupRefines, Dup2Refines
<1>4. ASSUME NEW fd \in FdArg, SysClose(fd) \/ SysFstat(fd) \/ SysDup(fd)
      PROVE  Abstract!Next
  BY <1>4, CloseRefines, FstatRefines, DupRefines
<1>5. CASE SysSeekStub \/ SysFcntl
  BY <1>5, AnswerOnly DEF SysSeekStub, SysFcntl, O_RDWR
<1>6. CASE SysPipe
  BY <1>6, PipeRefines
<1>7. CASE UNCHANGED vars
  BY <1>7 DEF vars, Cursors, Abstract!vars
<1> QED
  BY <1>1, <1>2, <1>3, <1>4, <1>5, <1>6, <1>7 DEF Next

\* CRuby and musl, which pass only descriptors they hold, see the descriptors
\* of the abstract specification: none handed out twice, each read where the
\* last one ended, no call on one disturbing another.
THEOREM ImplementsDescriptors == Disciplined => (Spec => AbstractSpec)
<1> SUFFICES ASSUME Disciplined PROVE Spec => AbstractSpec
  OBVIOUS
<1>1. Init => Abstract!Init
  BY InitRefines
<1>2. TypeInv /\ SlotAccounting /\ [Next]_vars => [Abstract!Next]_(Abstract!vars)
  BY NextRefines DEF Inv
<1>3. Spec => []SlotAccounting
  BY SlotsAreAccountedFor
<1> QED
  BY <1>1, <1>2, <1>3, TableInvariant, PTL DEF Spec, AbstractSpec, Abstract!Spec
=============================================================================
