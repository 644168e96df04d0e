--------------------------- MODULE MinidumpWriter ---------------------------
(***************************************************************************)
(* How the child of ExceptionHandler writes a minidump: WriteMinidumpImpl  *)
(* with LinuxPtraceDumper, which stops the threads of the crashed process, *)
(* MinidumpWriter, which writes thirteen streams and a directory of them,  *)
(* and MinidumpFileWriter, which gives out space in the file and fills it. *)
(*                                                                         *)
(* The crashed process is not frozen when the dump begins: its threads end *)
(* and start others until they are stopped, one that was never stopped may *)
(* load and unload libraries meanwhile, and the process may be killed at   *)
(* any time.  The disk refuses to grow the file or to take bytes, at most  *)
(* MaxFaults times.                                                        *)
(*                                                                         *)
(* A stream is written by a sequence of operations, todo: allocate an      *)
(* object, copy into it, flush the fixed part of a typed object in its     *)
(* destructor.  An error drops the rest of them but for the destructors.   *)
(* Lengths are the ones of armeabi-v7a, the only ABI the library is built  *)
(* for; there MDRVA, size_t and off_t have 32 bits, kInvalidMDRVA is -1,   *)
(* and all other values stay below 2^31.                                   *)
(***************************************************************************)
EXTENDS Integers, SequencesExt, FiniteSetsExt

CONSTANTS
  Tids,         \* the threads in the order of /proc/$pid/task
  crash_thread, \* the one that crashed; it waits for the child
  Late,         \* threads that do not exist at the beginning
  StackLen, IpLen, BuildIdLen, FileLen, DynamicLen,
  Unmapped,     \* threads whose stack pointer is in no mapping
  NumModules,   \* mappings that become modules
  Identified,   \* those of them with a build id
  MaxDsos,      \* bound on the shared objects in the list of the linker
  Spelling,     \* of each string: its bytes, and the UTF-16 units they convert to
  PageSize,     \* getpagesize()
  BufSize,      \* WriteFile's kBufSize
  MaxFaults     \* bound on the errors of the disk

Threads == Range(Tids)

\* Objects are named by a kind and what they belong to: most kinds have one.
The(kind) == <<kind, 0>>
Strings == ({"name"} \X (1..NumModules)) \cup ({"dso_name"} \X (1..MaxDsos))
             \cup {The("csd_version")}

ASSUME DumperAssumption ==
  /\ Tids \in Seq(Threads) /\ IsInjective(Tids)
  /\ crash_thread \in Threads \ Late
  /\ Identified \subseteq 1..NumModules
  /\ {StackLen, IpLen, BuildIdLen, FileLen, DynamicLen, PageSize, BufSize}
       \subseteq Nat \ {0}
  /\ {NumModules, MaxDsos, MaxFaults} \subseteq Nat
  /\ Spelling \in [Strings -> [bytes : Nat, units : Nat]]
  /\ \A o \in Strings : /\ Spelling[o].units <= Spelling[o].bytes
                        /\ Spelling[o].units = 0 => Spelling[o].bytes = 0

kInvalidMDRVA == -1

\* sizeof of the records of minidump_format.h.
MDRawHeader == 32
MDRawDirectory == 12
MDRawThread == 48
RawContextCPU == 368
MDRawModule == 108
MDMemoryDescriptor == 16
MDRawExceptionStream == 168
MDRawSystemInfo == 56
MDRawLinkMap == 12
MDRawDebug == 24
Uint32 == 4

\* The streams in the order of the directory.
Streams == <<"threads", "modules", "memory", "exception", "system", "cpuinfo",
             "status", "lsb_release", "cmdline", "environ", "auxv", "maps", "dso">>
kNumWriters == Len(Streams)

Files == {"cpuinfo", "status", "lsb_release", "cmdline", "environ", "auxv", "maps"}
OfMemory == {"cmdline", "environ", "auxv", "maps", "dso"}

\* Streams whose failure only leaves an empty entry in the directory.
Optional == Files \cup {"dso"}

VARIABLES
  \* the crashed process
  life,         \* of each thread: "unborn", "running", "attached" until it stops,
                \* "stopped", "ended" while attached, "gone"
  debugged,     \* threads somebody else traces
  dsos,         \* length of the linker's list of shared objects, from when it matters
  \* LinuxPtraceDumper
  threads_, threads_suspended_,
  index,        \* of ThreadsSuspend
  \* MinidumpFileWriter and the file
  isOpen,       \* file_ # -1
  position_, size_,
  offset,       \* of the descriptor
  objects,      \* what was allocated: name -> [at, len, stream]
  content,      \* what the file holds: [obj, at, len]
  faults,
  lost,         \* objects with a copy the disk did not take, or no UTF-8 in it
  \* MinidumpWriter
  pc,           \* "init", "suspend", "wait", "open", "dump", "close", "resume",
                \* "returned"
  todo,
  stream,       \* position in Streams, 0 for the header
  good,         \* no error in this stream yet
  dirent,       \* MDRawDirectory dirent: [type, obj]
  entries,      \* the directory
  crashing_thread_context_,
  dso_count,
  result        \* what WriteMinidumpImpl returns

target == <<life, debugged, dsos>>
dumper == <<threads_, threads_suspended_, index>>
space == <<position_, size_, objects>>
data == <<offset, content, lost>>
progress == <<stream, good, dirent, entries, crashing_thread_context_, dso_count>>
vars == <<target, dumper, isOpen, space, data, faults, pc, todo, progress, result>>

None == "none"

Init ==
  /\ life = [t \in Threads |-> IF t \in Late THEN "unborn" ELSE "running"]
  /\ debugged \in {{}} \cup {{t} : t \in Threads \ Late}
  /\ dsos = 0
  /\ threads_ = << >> /\ threads_suspended_ = FALSE /\ index = 1
  /\ isOpen = FALSE
  /\ position_ = 0 /\ size_ = 0 /\ objects = << >>
  /\ offset = 0 /\ content = {} /\ lost = {}
  /\ faults = 0
  /\ pc = "init"
  /\ todo = << >>
  /\ stream = 0 /\ good = TRUE
  /\ dirent = [type |-> None, obj |-> The(None)] /\ entries = << >>
  /\ crashing_thread_context_ = The(None)
  /\ dso_count = 0
  /\ result = FALSE

killed == life[crash_thread] = "gone"

----------------------------------------------------------------------------
(* The crashed process.  Of the threads the dumper has not stopped it only *)
(* matters, once the others are, what they do to the list of the linker.   *)

Looking == pc \in {"init", "suspend", "wait"}

Runs(t) == life[t] \in {"running", "attached"}

\* A thread ends by itself, but not the one that waits for the child.  One that
\* is attached to may do so before it stops.
Exit(t) ==
  /\ t # crash_thread
  /\ Looking /\ Runs(t)
  /\ life' = [life EXCEPT ![t] = IF life[t] = "attached" THEN "ended" ELSE "gone"]
  /\ UNCHANGED <<debugged, dsos, dumper, isOpen, space, data, faults, pc, todo, progress, result>>

\* One that still runs starts another.
Spawn(t) ==
  /\ Looking /\ life[t] = "unborn"
  /\ \E u \in Threads \ {crash_thread} : Runs(u)
  /\ life' = [life EXCEPT ![t] = "running"]
  /\ UNCHANGED <<debugged, dsos, dumper, isOpen, space, data, faults, pc, todo, progress, result>>

\* One that was not stopped loads or unloads libraries while the list is read.
Load ==
  /\ pc = "dump" /\ \E p \in Range(todo) : p.op \in {"count", "link_map"}
  /\ \E u \in Threads \ {crash_thread} : life[u] = "running"
  /\ dsos' \in 0..MaxDsos
  /\ UNCHANGED <<life, debugged, dumper, isOpen, space, data, faults, pc, todo, progress, result>>

\* SIGKILL, for stopped threads too.
Kill ==
  /\ ~killed
  /\ life' = [t \in Threads |-> "gone"]
  /\ UNCHANGED <<debugged, dsos, dumper, isOpen, space, data, faults, pc, todo, progress, result>>

----------------------------------------------------------------------------
(* LinuxPtraceDumper.                                                      *)

\* The elements of s that are in S, in their order.
Selected(s, S) ==
  LET kept[i \in 0..Len(s)] ==
        IF i = 0 THEN << >>
        ELSE IF s[i] \in S THEN Append(kept[i - 1], s[i]) ELSE kept[i - 1]
  IN  kept[Len(s)]

\* LinuxDumper::Init: ReadAuxv and EnumerateMappings fail with EnumerateThreads.
DumperInit ==
  /\ pc = "init"
  /\ \/ /\ ~killed
        /\ threads_' = Selected(Tids, {t \in Threads : life[t] = "running"})
        /\ pc' = "suspend"
     \/ /\ killed
        /\ pc' = "close"
        /\ UNCHANGED threads_
  /\ UNCHANGED <<target, threads_suspended_, index, isOpen, space, data, faults, todo, progress, result>>

\* PTRACE_ATTACH.
Attaches(t) == life[t] = "running" /\ t \notin debugged

\* Mutant: the index is not taken back for the thread that moves up.
DropThreadSkips(i) ==
  /\ threads_' = RemoveAt(threads_, i)
  /\ index' = i + 1

\* Mutant: the list is not shortened.
DropThreadKeeps(i) == UNCHANGED <<threads_, index>>

\* A thread that cannot be stopped is left out, and the next one moves up.
DropThread(i) ==
  /\ threads_' = RemoveAt(threads_, i)
  /\ index' = i

SuspendNext ==
  /\ pc = "suspend"
  /\ index <= Len(threads_)
  /\ \/ /\ Attaches(threads_[index])
        /\ life' = [life EXCEPT ![threads_[index]] = "attached"]
        /\ pc' = "wait"
        /\ UNCHANGED <<threads_, index>>
     \/ /\ ~Attaches(threads_[index])
        /\ DropThread(index)
        /\ UNCHANGED <<life, pc>>
  /\ UNCHANGED <<debugged, dsos, threads_suspended_, isOpen, space, data, faults, todo, progress, result>>

\* waitpid: the thread has stopped, or has ended before it could.  The status that
\* tells the two apart is not asked for.
WaitForStop ==
  /\ pc = "wait"
  /\ life' = IF life[threads_[index]] = "attached"
             THEN [life EXCEPT ![threads_[index]] = "stopped"] ELSE life
  /\ index' = index + 1
  /\ pc' = "suspend"
  /\ UNCHANGED <<debugged, dsos, threads_, threads_suspended_, isOpen, space, data, faults, todo,
                 progress, result>>

SuspendDone ==
  /\ pc = "suspend"
  /\ index > Len(threads_)
  /\ threads_suspended_' = TRUE
  /\ pc' = IF threads_ = << >> THEN "close" ELSE "open"
  /\ UNCHANGED <<target, threads_, index, isOpen, space, data, faults, todo, progress, result>>

\* ThreadsResume: does nothing unless the threads were suspended.
ThreadsResume ==
  /\ life' = [t \in Threads |->
                IF threads_suspended_ /\ t \in Range(threads_) /\ life[t] = "stopped"
                THEN "running" ELSE life[t]]
  /\ threads_suspended_' = FALSE
  /\ UNCHANGED <<debugged, dsos, threads_, index>>

----------------------------------------------------------------------------
(* MinidumpFileWriter.                                                     *)

\* Open, with O_EXCL: the file is new, or there is none.
Open ==
  /\ pc = "open"
  /\ \/ isOpen' = TRUE /\ pc' = "dump"
     \/ pc' = "close" /\ UNCHANGED isOpen
  /\ UNCHANGED <<target, dumper, space, data, faults, todo, progress, result>>

Operation(op, o, off, n) == [op |-> op, obj |-> o, off |-> off, len |-> n]
Alloc(o, n) == Operation("alloc", o, 0, n)
Copy(o, off, n) == Operation("copy", o, off, n)      \* result not looked at
Must(o, off, n) == Operation("must", o, off, n)      \* an error ends the string
Convert(o, n) == Operation("convert", o, Uint32, n)  \* CopyStringToMDString
Flush(o, n) == Operation("flush", o, 0, n)           \* ~TypedMDRVA
Locate(o) == Operation("locate", o, 0, 0)            \* dirent->location = ...
Entry == Operation("entry", The("dir"), 0, 0)        \* the end of a stream
ThreadAt(i) == Operation("thread", The("threads"), i, 0)
ModuleAt(m) == Operation("module", The("modules"), m, 0)
CountDsos == Operation("count", The("linkmap"), 0, 0)
DsoAt(i) == Operation("link_map", The("linkmap"), i, 0)
Context(o) == Operation("context", o, 0, 0)          \* crashing_thread_context_ = ...

Op(name) == pc = "dump" /\ todo # << >> /\ Head(todo).op = name

\* An error in an operation on o, after which the objects made exist.  The name
\* of the operating system is dispensable; any other error ends the stream, and
\* only the destructors of its typed objects still run.
Unwind(o, made) ==
  IF o = The("csd_version")
  THEN /\ good' = good
       /\ todo' = Selected(Tail(todo), {p \in Range(todo) : p.obj # o \/ p.op = "flush"})
  ELSE /\ good' = FALSE
       /\ todo' = Selected(Tail(todo),
                    {p \in Range(todo) : p.op = "entry" \/ (p.op = "flush" /\ p.obj \in made)})

Aligned(n) == ((n + 7) \div 8) * 8

\* At least a page.
Growth(n) == IF n < PageSize THEN PageSize ELSE n

Placed(o, at, n) ==
  objects' = [x \in DOMAIN objects \cup {o} |->
                IF x = o THEN [at |-> at, len |-> n, stream |-> stream] ELSE objects[x]]

\* Allocate: the file grows when the space is used up.
Allocate ==
  LET o == Head(todo).obj
      n == Head(todo).len
      grows == position_ + Aligned(n) > size_
  IN  /\ Op("alloc")
      /\ \/ /\ size_' = IF grows THEN size_ + Growth(Aligned(n)) ELSE size_
            /\ position_' = position_ + Aligned(n)
            /\ Placed(o, position_, n)
            /\ todo' = Tail(todo)
            /\ UNCHANGED <<faults, good>>
         \/ /\ grows /\ faults < MaxFaults
            /\ faults' = faults + 1
            /\ Placed(o, kInvalidMDRVA, n)
            /\ Unwind(o, DOMAIN objects \cup {o})
            /\ UNCHANGED <<size_, position_>>
      /\ UNCHANGED <<target, dumper, isOpen, data, pc, stream, dirent, entries,
                     crashing_thread_context_, dso_count, result>>

Overlaps(c, at, n) == c.at < at + n /\ at < c.at + c.len
Spared(at, n) == {c \in content : ~Overlaps(c, at, n)}

\* Where the bytes of a copy go.  lseek to kInvalidMDRVA fails and returns what it
\* is compared with, so they go to where the descriptor stands.
Place(o, off) ==
  IF objects[o].at + off = kInvalidMDRVA THEN offset ELSE objects[o].at + off

\* Less than the n bytes get there, which ones is left open.
CutShort(o, place, n) ==
  /\ \E k \in {0, n - 1} : offset' = place + k /\ content' = Spared(place, k)
  /\ lost' = lost \cup {o}

\* MinidumpFileWriter::Copy.  Its check does not refuse kInvalidMDRVA once the
\* file has a size, because the sum wraps around.  failed tells whether Copy
\* returns false.
FileCopy(o, off, n, failed) ==
  LET at == objects[o].at + off
      place == Place(o, off)
  IN  \/ /\ n + at > size_
         /\ failed
         /\ UNCHANGED <<data, faults>>
      \/ /\ n + at <= size_
         /\ ~failed
         /\ content' = Spared(place, n) \cup {[obj |-> o, at |-> place, len |-> n]}
         /\ offset' = place + n
         /\ UNCHANGED <<lost, faults>>
      \/ /\ n + at <= size_
         /\ failed
         /\ faults < MaxFaults
         /\ faults' = faults + 1
         /\ CutShort(o, place, n)

CopyBytes ==
  /\ Op("copy") \/ Op("flush")
  /\ \E failed \in BOOLEAN : FileCopy(Head(todo).obj, Head(todo).off, Head(todo).len, failed)
  /\ todo' = Tail(todo)
  /\ UNCHANGED <<target, dumper, isOpen, space, pc, progress, result>>

CopyString ==
  /\ Op("must") \/ Op("convert")
  /\ \E failed \in BOOLEAN :
       /\ FileCopy(Head(todo).obj, Head(todo).off, Head(todo).len, failed)
       /\ IF failed THEN Unwind(Head(todo).obj, DOMAIN objects)
                    ELSE todo' = Tail(todo) /\ UNCHANGED good
  /\ UNCHANGED <<target, dumper, isOpen, space, pc, stream, dirent, entries,
                 crashing_thread_context_, dso_count, result>>

\* The bytes are no UTF-8: the string ends in the middle, with an error.  The words
\* of the kernel are ASCII, paths are any bytes.
ConversionFails ==
  LET o == Head(todo).obj
  IN  /\ Op("convert") /\ o # The("csd_version")
      /\ CutShort(o, Place(o, Head(todo).off), Head(todo).len)
      /\ Unwind(o, DOMAIN objects)
      /\ UNCHANGED <<target, dumper, isOpen, space, faults, pc, stream, dirent, entries,
                     crashing_thread_context_, dso_count, result>>

----------------------------------------------------------------------------
(* MinidumpWriter: what each stream writes.                                *)

\* WriteStringCore: a unit is reserved for each byte and one for the NUL, which goes
\* to the end of them; the characters may take fewer.  The length in the fixed part.
WriteString(o, name) ==
  <<Alloc(o, Uint32 + 2 * (name.bytes + 1))>>
    \o (IF name.units > 0 THEN <<Convert(o, 2 * name.units)>> ELSE << >>)
    \o <<Must(o, Uint32 + 2 * name.bytes, 2), Flush(o, Uint32)>>

\* A list: its length, then the items.
ListOf(o, size, items) ==
  <<Alloc(o, Uint32 + Len(items) * size), Locate(o)>> \o items \o <<Flush(o, Uint32)>>

Header == <<Alloc(The("header"), MDRawHeader), Alloc(The("dir"), kNumWriters * MDRawDirectory),
            Flush(The("header"), MDRawHeader)>>

WriteThreadListStream ==
  ListOf(The("threads"), MDRawThread, [i \in 1..Len(threads_) |-> ThreadAt(i)])

\* FillThreadStack: nothing for a stack pointer outside of the mappings.
FillThreadStack(t) ==
  IF t \notin Unmapped THEN <<Alloc(<<"stack", t>>, StackLen), Copy(<<"stack", t>>, 0, StackLen)>>
                    ELSE << >>

\* The memory around the instruction pointer, for the crashing thread.
IpMemory(t, mapped) ==
  IF mapped
  THEN <<Alloc(<<"ip", t>>, IpLen), Copy(<<"ip", t>>, 0, IpLen)>> ELSE << >>

\* Mutant: every thread's context is taken for the crashing one's.
ThreadContextAny(t) == <<Context(<<"cpu", t>>)>>

ThreadContext(t) == IF t = crash_thread THEN <<Context(<<"cpu", t>>)>> ELSE << >>

\* One thread: stack, registers, and its entry in the list.
WriteThread(t, i, ip) ==
  FillThreadStack(t) \o IpMemory(t, ip)
    \o <<Alloc(<<"cpu", t>>, RawContextCPU)>> \o ThreadContext(t)
    \o <<Flush(<<"cpu", t>>, RawContextCPU),
         Copy(The("threads"), Uint32 + (i - 1) * MDRawThread, MDRawThread)>>

\* memory_blocks_: the stacks and the memory around the instruction pointer.
memory_blocks_ == {o \in DOMAIN objects : o[1] \in {"stack", "ip"}}

FillRawModule(m) ==
  (IF m \in Identified
   THEN <<Alloc(<<"cv", m>>, Uint32 + BuildIdLen), Copy(<<"cv", m>>, 0, Uint32),
          Copy(<<"cv", m>>, Uint32, BuildIdLen)>>
   ELSE << >>)
    \o WriteString(<<"name", m>>, Spelling[<<"name", m>>])
    \o <<Copy(The("modules"), Uint32 + (m - 1) * MDRawModule, MDRawModule)>>

WriteMappings ==
  ListOf(The("modules"), MDRawModule, [m \in 1..NumModules |-> ModuleAt(m)])

WriteMemoryListStream ==
  ListOf(The("memory"), MDMemoryDescriptor,
    [i \in 1..Cardinality(memory_blocks_) |->
       Copy(The("memory"), Uint32 + (i - 1) * MDMemoryDescriptor, MDMemoryDescriptor)])

WriteExceptionStream ==
  <<Alloc(The("exception"), MDRawExceptionStream), Locate(The("exception")),
    Flush(The("exception"), MDRawExceptionStream)>>

\* WriteOSInformation writes one string, and nobody looks at its result.
WriteSystemInfoStream ==
  <<Alloc(The("system"), MDRawSystemInfo), Locate(The("system"))>>
    \o WriteString(The("csd_version"), Spelling[The("csd_version")])
    \o <<Flush(The("system"), MDRawSystemInfo)>>


\* WriteFile: the file was read into buffers of BufSize, which are copied one by one.
WriteFile(f) ==
  <<Alloc(The(f), FileLen)>>
    \o [k \in 1..((FileLen - 1) \div BufSize + 1) |->
          Copy(The(f), (k - 1) * BufSize, Min({BufSize, FileLen - (k - 1) * BufSize}))]
    \o <<Locate(The(f))>>

\* WriteDSODebugStream: the list is counted, then the record is written.
WriteDSODebugStream ==
  <<CountDsos, Alloc(The("dso"), MDRawDebug + DynamicLen), Locate(The("dso")),
    Copy(The("dso"), MDRawDebug, DynamicLen), Flush(The("dso"), MDRawDebug)>>

\* What the streams find when they look at the process: a file that is there and
\* not empty, a program with a list of shared objects.  Android has no lsb-release,
\* and of a killed process only the status may be left: the other files show its
\* memory.
Finds(s) ==
  CASE s = "lsb_release"       -> {FALSE}
    [] s = "status" /\ killed  -> BOOLEAN
    [] s \in OfMemory          -> {~killed}
    [] OTHER                   -> {TRUE}

Operations(s) ==
  CASE s = "threads"   -> WriteThreadListStream
    [] s = "modules"   -> WriteMappings
    [] s = "memory"    -> WriteMemoryListStream
    [] s = "exception" -> WriteExceptionStream
    [] s = "system"    -> WriteSystemInfoStream
    [] s \in Files     -> WriteFile(s)
    [] s = "dso"       -> WriteDSODebugStream

\* Dump: the header, then one stream after the other.  For the optional streams
\* the type is set before the stream is written.
BeginDump ==
  /\ pc = "dump" /\ todo = << >> /\ stream = 0 /\ objects = << >>
  /\ todo' = Header
  /\ UNCHANGED <<target, dumper, isOpen, space, data, faults, pc, progress, result>>

BeginStream ==
  /\ pc = "dump" /\ todo = << >> /\ objects # << >>
  /\ good /\ stream < kNumWriters
  /\ stream' = stream + 1
  /\ LET s == Streams[stream + 1]
     IN  \E found \in Finds(s) :
           /\ good' = found
           /\ todo' = (IF found THEN Operations(s) ELSE << >>) \o <<Entry>>
           /\ dirent' = IF s \in Optional THEN [dirent EXCEPT !.type = s] ELSE dirent
           /\ dsos' \in IF s = "dso" THEN 0..MaxDsos ELSE {dsos}
  /\ UNCHANGED <<life, debugged, dumper, isOpen, space, data, faults, pc, entries,
                 crashing_thread_context_, dso_count, result>>

\* The loop of WriteThreadListStream.  The crashing thread's registers are in the
\* crash context; any other thread that is gone has none, which is an error.
NextThread ==
  LET i == Head(todo).off
      t == threads_[i]
  IN  /\ Op("thread")
      /\ \/ /\ t = crash_thread \/ life[t] \notin {"ended", "gone"}
            /\ \E ip \in {FALSE, t = crash_thread} : todo' = WriteThread(t, i, ip) \o Tail(todo)
            /\ UNCHANGED good
         \/ /\ t # crash_thread /\ life[t] \in {"ended", "gone"}
            /\ Unwind(The("threads"), DOMAIN objects)
      /\ UNCHANGED <<target, dumper, isOpen, space, data, faults, pc, stream, dirent, entries,
                     crashing_thread_context_, dso_count, result>>

\* The loop of WriteMappings.
NextModule ==
  /\ Op("module")
  /\ todo' = FillRawModule(Head(todo).off) \o Tail(todo)
  /\ UNCHANGED <<target, dumper, isOpen, space, data, faults, pc, progress, result>>

\* The first loop of WriteDSODebugStream, and the array for what it found.  The
\* memory of a process that is gone reads as zeros, which end the list.
CountList ==
  /\ Op("count")
  /\ dso_count' \in IF killed THEN 0..dsos ELSE {dsos}
  /\ todo' = (IF dso_count' > 0
              THEN <<Alloc(The("linkmap"), dso_count' * MDRawLinkMap), DsoAt(1)>> ELSE << >>)
               \o Tail(todo)
  /\ UNCHANGED <<target, dumper, isOpen, space, data, faults, pc, stream, good, dirent, entries,
                 crashing_thread_context_, result>>

\* The second loop, which does not look at the count: it follows the list as it is
\* now.  Each entry gets its name and its place in the array.
NextDso ==
  LET i == Head(todo).off
      name == IF killed THEN [bytes |-> 0, units |-> 0] ELSE Spelling[<<"dso_name", i>>]
  IN  /\ Op("link_map")
      /\ todo' = WriteString(<<"dso_name", i>>, name)
                   \o <<Copy(The("linkmap"), (i - 1) * MDRawLinkMap, MDRawLinkMap)>>
                   \o (IF i < dsos /\ ~killed THEN <<DsoAt(i + 1)>> ELSE << >>)
                   \o Tail(todo)
      /\ UNCHANGED <<target, dumper, isOpen, space, data, faults, pc, progress, result>>

Remember ==
  /\ \/ /\ Op("locate")
        /\ dirent' = [type |-> Streams[stream], obj |-> Head(todo).obj]
        /\ UNCHANGED crashing_thread_context_
     \/ /\ Op("context")
        /\ crashing_thread_context_' = Head(todo).obj
        /\ UNCHANGED dirent
  /\ todo' = Tail(todo)
  /\ UNCHANGED <<target, dumper, isOpen, space, data, faults, pc, stream, good, entries, dso_count, result>>

NullifyDirectoryEntry == [type |-> None, obj |-> The(None)]

\* dir.CopyIndex(dir_index++, &dirent), or the end of a dump that failed.
WriteEntry ==
  /\ Op("entry")
  /\ good \/ Streams[stream] \in Optional
  /\ dirent' = IF good THEN dirent ELSE NullifyDirectoryEntry
  /\ entries' = Append(entries, dirent')
  /\ \E failed \in BOOLEAN :
       FileCopy(The("dir"), (stream - 1) * MDRawDirectory, MDRawDirectory, failed)
  /\ todo' = Tail(todo)
  /\ good' = TRUE
  /\ UNCHANGED <<target, dumper, isOpen, space, pc, stream, crashing_thread_context_, dso_count, result>>

DumpFails ==
  /\ \/ Op("entry") /\ ~good /\ Streams[stream] \notin Optional
     \/ pc = "dump" /\ todo = << >> /\ stream = 0 /\ ~good
  /\ todo' = << >>
  /\ pc' = "close"
  /\ UNCHANGED <<target, dumper, isOpen, space, data, faults, progress, result>>

DumpEnds ==
  /\ pc = "dump" /\ todo = << >> /\ stream = kNumWriters
  /\ ThreadsResume
  /\ result' = TRUE
  /\ pc' = "close"
  /\ UNCHANGED <<isOpen, space, data, faults, todo, progress>>

\* ~MinidumpWriter: Close cuts the file off behind the last object, or fails to,
\* and the threads are resumed if they were not.
Close ==
  /\ pc = "close"
  /\ isOpen' = FALSE
  /\ \/ content' = {c \in content : c.at + c.len <= position_}
     \/ isOpen /\ UNCHANGED content
  /\ pc' = "resume"
  /\ UNCHANGED <<target, dumper, space, offset, lost, faults, todo, progress, result>>

\* Mutant: only a complete dump resumes the threads.
DestroyLeaves ==
  /\ pc = "resume"
  /\ pc' = "returned"
  /\ UNCHANGED <<target, dumper, isOpen, space, data, faults, todo, progress, result>>

Destroy ==
  /\ pc = "resume"
  /\ ThreadsResume
  /\ pc' = "returned"
  /\ UNCHANGED <<isOpen, space, data, faults, todo, progress, result>>

Step ==
  \/ DumperInit \/ SuspendNext \/ WaitForStop \/ SuspendDone \/ Open
  \/ BeginDump \/ BeginStream \/ NextThread \/ NextModule \/ CountList \/ NextDso
  \/ Allocate \/ CopyBytes \/ CopyString \/ ConversionFails \/ Remember \/ WriteEntry
  \/ DumpFails \/ DumpEnds \/ Close \/ Destroy

Next ==
  \/ Step
  \/ Kill \/ Load
  \/ \E t \in Threads : Exit(t) \/ Spawn(t)

Spec == Init /\ [][Next]_vars /\ WF_vars(Step)
----------------------------------------------------------------------------
(* Correctness.                                                            *)

\* While the dump is written, and the process was not killed, exactly the listed
\* threads are stopped, but for those that ended between PTRACE_ATTACH and waitpid:
\* they stay in the list.  Threads that could not be attached to leave neither an
\* entry nor a gap in it.
ListedAreStopped ==
  pc \in {"open", "dump"} /\ ~killed =>
    {t \in Threads : life[t] \in {"attached", "stopped", "ended"}} = Range(threads_)

\* No thread of the process stays stopped, or is about to stop, when
\* WriteMinidumpImpl returns, however it came to an end.
ThreadsReleased ==
  pc = "returned" => \A t \in Threads : life[t] \notin {"attached", "stopped"}

\* Byte x of the file is one that was written for object o.
Written(o, x) == \E c \in content : c.obj = o /\ c.at <= x /\ x < c.at + c.len

\* The bytes of an object are all there: its first one is, and behind each piece
\* that was written for it lies another one, or its end.  In a string the units that
\* its characters do not need lie before the NUL and are not written.
Filled(o) ==
  LET end == objects[o].at + objects[o].len
      pieces == {c \in content : c.obj = o}
      spare == IF o \in Strings /\ Spelling[o].units < Spelling[o].bytes /\ Written(o, end - 2)
               THEN {objects[o].at + Uint32 + 2 * Spelling[o].units} ELSE {}
  IN  \A x \in ({objects[o].at} \cup {c.at + c.len : c \in pieces}) \ spare :
        x \in objects[o].at..(end - 1) => Written(o, x)

\* The object can be reached in the file.
Reachable(o) ==
  /\ objects[o].at # kInvalidMDRVA
  /\ objects[o].stream = 0 \/ entries[objects[o].stream].type # None

\* The entries of the linker's list that got a name.
Walked == Cardinality({o \in DOMAIN objects : o[1] = "dso_name"})

\* The list of the linker could change between its two walks.
ListMoves ==
  killed \/ \E t \in Threads \ ({crash_thread} \cup Range(threads_)) : life[t] = "running"

\* What the two walks of the linker's list cost.  A list that got shorter leaves
\* entries of the array unwritten; one that got longer writes entries behind the
\* array, over the names.  When it was empty, nothing has moved the descriptor away
\* from the directory, and the destructor of a record that could not be allocated
\* writes over what follows it, the list of threads.
Sacrificed(o) ==
  \/ ListMoves /\ o = The("linkmap")
  \/ ListMoves /\ Walked > dso_count /\ o[1] = "dso_name"
  \/ /\ dso_count = 0 /\ o = The("threads")
     /\ The("dso") \in DOMAIN objects /\ objects[The("dso")].at = kInvalidMDRVA


\* A dump that is reported as written has the crashing thread in its list, and the
\* exception stream leads to that thread's registers, unless a debugger held it.
CrashIsBlamed ==
  pc = "returned" /\ result /\ crash_thread \notin debugged =>
    /\ Contains(threads_, crash_thread)
    /\ crashing_thread_context_ = <<"cpu", crash_thread>>

\* The dump comes to an end.
WriterReturns == <>(pc = "returned")

\* The comment in Copy, "Ensure that the data will fit in the allocated space":
\* what is written for an object lies inside of it.
CopyStaysInside ==
  \A c \in content :
    /\ objects[c.obj].at <= c.at
    /\ c.at + c.len <= objects[c.obj].at + objects[c.obj].len
=============================================================================
