-------------------------- MODULE ExceptionHandler --------------------------
(***************************************************************************)
(* Native crash capture: ndk_crash.cpp and the Breakpad client it links    *)
(* (client/linux/handler/exception_handler.cc).                            *)
(*                                                                         *)
(* The threads of one process share the signal dispositions, the stack of  *)
(* ExceptionHandler instances, its mutex and the global crash context.  A  *)
(* thread that gets one of the exception signals runs SignalHandler: it    *)
(* takes the mutex, offers the crash to the instances from the newest to   *)
(* the oldest, and each of them clones a child process that attaches to    *)
(* the crashing one and writes the minidump.  Then the dispositions are    *)
(* put back and the signal strikes again.                                  *)
(*                                                                         *)
(* libbugly installs one instance, whose callback returns false; the       *)
(* library allows several, created and destroyed by any thread.            *)
(*                                                                         *)
(* The handler is installed with every exception signal in its mask.  Code *)
(* that puts it back with signal() loses the arguments and that mask, and  *)
(* the repair in SignalHandler gives back the arguments only: a thread     *)
(* that came in so may be interrupted by a second signal while it holds    *)
(* the mutex.  A second signal that finds the mutex not yet taken or       *)
(* already given back does what it would do before or after the first.     *)
(***************************************************************************)
EXTENDS Naturals, Sequences

CONSTANTS
  Threads,    \* threads of the process
  Handlers,   \* ExceptionHandler instances that may be constructed
  Claimers,   \* instances whose MinidumpCallback returns true
  Signals,    \* kExceptionSignals
  SIGABRT,    \* the one that is always sent, never a fault
  Crashes,    \* per thread, the signals it may get, each with who sends it
  MaxLost     \* bound on how often foreign code loses SA_SIGINFO

None == "none"

\* si_code: a fault, a signal from this process, or one from another process.
Origins == {"kernel", "self", "foreign"}

ASSUME HandlerAssumption ==
  /\ Claimers \subseteq Handlers
  /\ SIGABRT \in Signals
  /\ Crashes \in [Threads -> SUBSET ((Signals \X Origins) \ {<<SIGABRT, "kernel">>})]
  /\ None \notin Threads /\ "nobody" \notin Threads
  /\ MaxLost \in Nat

VARIABLES
  disp,       \* per signal, what the kernel calls
  old_handlers,
  handlers_installed,
  g_handler_stack_,
  life,       \* per instance: "new", "live", "gone"
  mutex,      \* owner of g_handler_stack_mutex_
  pc,         \* per thread, where it is
  sig,        \* per thread, the signal it has
  origin,     \* per thread, who sent it: "kernel", "self", "foreign"
  entered,    \* per thread, the disposition through which it came in
  i,          \* per thread, the instances that have not been offered the crash
  g_crash_context_,
  dumpable,   \* PR_SET_DUMPABLE
  ptracer,    \* PR_SET_PTRACER: the thread whose child may attach
  child,      \* per thread, the process cloned for its dump
  files,      \* per instance, the file at its minidump path
  claimed,    \* instances that have said "handled"
  told,       \* threads whose signal the previous handler has got
  lost,       \* how often SA_SIGINFO has been lost
  fate        \* "alive", or how the process ended

installation == <<old_handlers, handlers_installed, g_handler_stack_, life>>
signal == <<sig, origin, entered>>
world == <<claimed, told, lost, fate>>
vars == <<disp, installation, mutex, pc, signal, i, g_crash_context_, dumpable,
          ptracer, child, files, world>>

NoFile == [by |-> "nobody", whole |-> FALSE]

\* What a child knows: the instance it works for, the crash context it got with
\* its copy of the memory, whether there is a pipe, whether the continue byte is
\* in it, and whether the child still holds the write end.
ChildAt(st) == [st |-> st, h |-> None, tid |-> None,
             pipe |-> FALSE, byte |-> FALSE, writeEnd |-> FALSE]
NoChild == ChildAt(None)

\* SignalHandler as InstallHandlersLocked installs it, without SA_SIGINFO, and
\* with it but with a mask of only its own signal.
Breakpads == {"breakpad", "noinfo", "narrow"}

InstallationOK ==
  /\ disp \in [Signals -> Breakpads \cup {"old", "default"}]
  /\ old_handlers \in [Signals -> {"old", "default"}]
  /\ handlers_installed \in BOOLEAN
  /\ g_handler_stack_ \in Seq(Handlers)
  /\ life \in [Handlers -> {"new", "live", "gone"}]

ThreadsOK ==
  /\ mutex \in Threads \cup {None}
  /\ pc \in [Threads -> {"run", "signal", "lock", "offer", "clone", "allow",
                         "continue", "waitpid", "stuck", "old"}]
  /\ sig \in [Threads -> Signals]
  /\ origin \in [Threads -> Origins]
  /\ entered \in [Threads -> Breakpads]
  /\ i \in [Threads -> 0..Len(g_handler_stack_)]

ContextOK ==
  /\ g_crash_context_ \in Threads \cup {None}
  /\ dumpable \in BOOLEAN
  /\ ptracer \in Threads \cup {None}

Children ==
  [st: {None, "born", "blocked", "ready", "attached", "writing", "ok", "failed"},
   h: Handlers \cup {None}, tid: Threads \cup {None},
   pipe: BOOLEAN, byte: BOOLEAN, writeEnd: BOOLEAN]

Working == {"born", "blocked", "ready", "attached", "writing"}

ChildrenOK ==
  /\ child \in [Threads -> Children]
  /\ files \in [Handlers -> [by: Threads \cup {"nobody"}, whole: BOOLEAN]]

WorldOK ==
  /\ claimed \subseteq Handlers
  /\ told \subseteq Threads
  /\ lost \in 0..MaxLost
  /\ fate \in {"alive", "killed", "old", "default", "exit", "null"}

TypeOK == InstallationOK /\ ThreadsOK /\ ContextOK /\ ChildrenOK /\ WorldOK

\* Android has a handler of its own for every exception signal before the
\* application starts; an application that is not debuggable is not dumpable.
Init ==
  /\ disp = [s \in Signals |-> "old"]
  /\ old_handlers = [s \in Signals |-> "default"]
  /\ handlers_installed = FALSE
  /\ g_handler_stack_ = << >>
  /\ life = [h \in Handlers |-> "new"]
  /\ mutex = None
  /\ pc = [t \in Threads |-> "run"]
  /\ sig = [t \in Threads |-> SIGABRT]
  /\ origin = [t \in Threads |-> "self"]
  /\ entered = [t \in Threads |-> "breakpad"]
  /\ i = [t \in Threads |-> 0]
  /\ g_crash_context_ = None
  /\ dumpable = FALSE
  /\ ptracer = None
  /\ child = [t \in Threads |-> NoChild]
  /\ files = [h \in Handlers |-> NoFile]
  /\ claimed = {}
  /\ told = {}
  /\ lost = 0
  /\ fate = "alive"

Alive == fate = "alive"

\* An attached child has stopped every thread of the process.
Attached(t) == child[t].st \in {"attached", "writing"}
Running == Alive /\ \A t \in Threads : ~Attached(t)

Goto(t, label) == pc' = [pc EXCEPT ![t] = label]

---------------------------------------------------------------------------
(* Installing and removing instances, in normal context.                   *)

\* InstallHandlersLocked: remember the dispositions, then take every signal.
InstallHandlersLocked ==
  IF handlers_installed
  THEN UNCHANGED <<disp, old_handlers, handlers_installed>>
  ELSE /\ old_handlers' = [s \in Signals |->
                             IF disp[s] = "default" THEN "default" ELSE "old"]
       /\ disp' = [s \in Signals |-> "breakpad"]
       /\ handlers_installed' = TRUE

\* Mutant: sigaction is ignored, as Android's own did for SIG_DFL.
RestoreIgnored ==
  /\ handlers_installed' = FALSE
  /\ UNCHANGED disp

\* RestoreHandlersLocked.
RestoreHandlersLocked ==
  IF handlers_installed
  THEN /\ disp' = old_handlers
       /\ handlers_installed' = FALSE
  ELSE UNCHANGED <<disp, handlers_installed>>

\* The constructor, with install_handler true as initNativeCrash passes it.  The
\* path it chooses is new, so no file is there.
Construct(t, h) ==
  /\ Running /\ pc[t] = "run" /\ mutex = None
  /\ life[h] = "new"
  /\ InstallHandlersLocked
  /\ g_handler_stack_' = Append(g_handler_stack_, h)
  /\ life' = [life EXCEPT ![h] = "live"]
  /\ g_crash_context_' = None
  /\ UNCHANGED <<mutex, pc, signal, i, dumpable, ptracer, child, files, world>>

\* The destructor: the instance is found and erased, and the last one takes the
\* handlers away with it.
Destroy(t, h) ==
  /\ Running /\ pc[t] = "run" /\ mutex = None
  /\ life[h] = "live"
  /\ \E k \in 1..Len(g_handler_stack_) :
       /\ g_handler_stack_[k] = h
       /\ g_handler_stack_' = SubSeq(g_handler_stack_, 1, k - 1)
                               \o SubSeq(g_handler_stack_, k + 1, Len(g_handler_stack_))
  /\ life' = [life EXCEPT ![h] = "gone"]
  /\ IF g_handler_stack_' = << >>
     THEN RestoreHandlersLocked
     ELSE UNCHANGED <<disp, handlers_installed>>
  /\ UNCHANGED <<old_handlers, mutex, pc, signal, i, g_crash_context_, dumpable,
                 ptracer, child, files, world>>

---------------------------------------------------------------------------
(* The environment.                                                        *)

\* A thread faults, raises a signal itself (abort), or is sent one.
Crash(t) ==
  /\ Running /\ pc[t] = "run"
  /\ \E c \in Crashes[t] :
       /\ sig' = [sig EXCEPT ![t] = c[1]]
       /\ origin' = [origin EXCEPT ![t] = c[2]]
  /\ Goto(t, "signal")
  /\ UNCHANGED <<disp, installation, mutex, entered, i, g_crash_context_, dumpable,
                 ptracer, child, files, world>>

\* Foreign code saves and restores the handler with signal(), not sigaction().
LoseSigInfo(s) ==
  /\ Running
  /\ lost < MaxLost
  /\ disp[s] \in {"breakpad", "narrow"}
  /\ disp' = [disp EXCEPT ![s] = "noinfo"]
  /\ lost' = lost + 1
  /\ UNCHANGED <<installation, mutex, pc, signal, i, g_crash_context_, dumpable,
                 ptracer, child, files, claimed, told, fate>>

\* The kernel kills the process (low memory), stopped threads included.  Only
\* a child at work can notice, so a kill without one is left out.
Kill ==
  /\ Alive
  /\ \E t \in Threads : child[t].st \in Working
  /\ fate' = "killed"
  /\ UNCHANGED <<disp, installation, mutex, pc, signal, i, g_crash_context_,
                 dumpable, ptracer, child, files, claimed, told, lost>>

\* The handler that was installed before Breakpad ends the process.
OldHandlerEnds(t) ==
  /\ Running /\ pc[t] = "old"
  /\ fate' = "old"
  /\ UNCHANGED <<disp, installation, mutex, pc, signal, i, g_crash_context_,
                 dumpable, ptracer, child, files, claimed, told, lost>>

---------------------------------------------------------------------------
(* SignalHandler, on the crashing thread.                                  *)

\* The kernel delivers the signal by its disposition.
Deliver(t) ==
  /\ Running /\ pc[t] = "signal"
  /\ CASE disp[sig[t]] = "default" ->
            /\ fate' = "default"
            /\ UNCHANGED <<pc, told, entered>>
       [] disp[sig[t]] = "old" ->
            /\ told' = told \cup {t}
            /\ Goto(t, "old")
            /\ UNCHANGED <<fate, entered>>
       [] OTHER ->
            /\ entered' = [entered EXCEPT ![t] = disp[sig[t]]]
            /\ Goto(t, "lock")
            /\ UNCHANGED <<fate, told>>
  /\ UNCHANGED <<disp, installation, mutex, sig, origin, i, g_crash_context_,
                 dumpable, ptracer, child, files, claimed, lost>>

\* A signal strikes a thread that is in the handler.  If it is in the mask and a
\* fault, the kernel ends the process.  If Breakpad has it, the thread enters
\* SignalHandler once more and waits for the mutex it holds itself.
Strike(t, s) ==
  \/ /\ s = sig[t] \/ disp[s] = "default"
     /\ fate' = "default"
     /\ UNCHANGED <<pc, told>>
  \/ /\ s # sig[t] /\ disp[s] = "old"
     /\ told' = told \cup {t}
     /\ Goto(t, "old")
     /\ UNCHANGED fate
  \/ /\ s # sig[t] /\ disp[s] \in Breakpads
     /\ Goto(t, "stuck")
     /\ UNCHANGED <<told, fate>>

\* Signals of faults.
Faults == Signals \ {SIGABRT}

\* Without SA_SIGINFO the handler's arguments are whatever the registers hold.
\* The repair finds that out by the disposition of the moment, which another
\* thread may have changed since this one came in.
Bogus(t) == entered[t] = "noinfo"

\* SignalHandler returns, and how it was entered is past.
Leave(t) == entered' = [entered EXCEPT ![t] = "breakpad"]

\* A second signal comes to the thread that holds the mutex and has only its
\* first one masked, or it faults on bogus arguments.
SecondSignal(t) ==
  /\ Running
  /\ \/ /\ pc[t] \in {"offer", "clone", "allow", "continue", "waitpid"}
        /\ entered[t] # "breakpad"
        /\ \E c \in Crashes[t] : c[1] # sig[t] /\ Strike(t, c[1])
     \/ /\ pc[t] = "offer" /\ Bogus(t)
        /\ \E s \in Faults : Strike(t, s)
  /\ UNCHANGED <<disp, installation, mutex, signal, i, g_crash_context_,
                 dumpable, ptracer, child, files, claimed, lost>>

\* The handler was installed without SA_SIGINFO: put the flag back (or the
\* default action, if sigaction fails) and return.  The mask now holds no other
\* signal.  A fault strikes again; a signal that was sent does not, except that
\* abort() then takes the default action.
RepairSigInfo(t) ==
  /\ Running /\ pc[t] = "lock" /\ mutex = None
  /\ disp[sig[t]] = "noinfo"
  /\ \E d \in {"narrow", "default"} : disp' = [disp EXCEPT ![sig[t]] = d]
  /\ CASE origin[t] = "kernel" -> Goto(t, "signal") /\ UNCHANGED fate
       [] sig[t] = SIGABRT /\ origin[t] = "self" -> fate' = "default" /\ UNCHANGED pc
       [] OTHER -> Goto(t, "run") /\ UNCHANGED fate
  /\ Leave(t)
  /\ UNCHANGED <<installation, mutex, sig, origin, i, g_crash_context_, dumpable,
                 ptracer, child, files, claimed, told, lost>>

\* Mutant: the handler does not wait for the mutex.
LockHandlersUnlocked(t) ==
  /\ Running /\ pc[t] = "lock"
  /\ disp[sig[t]] # "noinfo"
  /\ g_handler_stack_ # << >>
  /\ mutex' = t
  /\ i' = [i EXCEPT ![t] = Len(g_handler_stack_)]
  /\ Goto(t, "offer")
  /\ UNCHANGED <<disp, installation, signal, g_crash_context_, dumpable,
                 ptracer, child, files, world>>

\* With the mutex held the loop over the instances starts at the newest.  When
\* the last instance was destroyed meanwhile, g_handler_stack_ is null and the
\* thread faults: with all signals masked the kernel ends the process.
LockHandlers(t) ==
  /\ Running /\ pc[t] = "lock" /\ mutex = None
  /\ disp[sig[t]] # "noinfo"
  /\ \/ /\ g_handler_stack_ = << >> /\ entered[t] = "breakpad"
        /\ fate' = "null"
        /\ UNCHANGED <<mutex, pc, i, told>>
     \/ /\ g_handler_stack_ = << >> /\ entered[t] # "breakpad"
        /\ \E s \in Faults : Strike(t, s)
        /\ mutex' = t
        /\ UNCHANGED i
     \/ /\ g_handler_stack_ # << >>
        /\ mutex' = t
        /\ i' = [i EXCEPT ![t] = Len(g_handler_stack_)]
        /\ Goto(t, "offer")
        /\ UNCHANGED <<fate, told>>
  /\ UNCHANGED <<disp, installation, signal, g_crash_context_, dumpable, ptracer,
                 child, files, claimed, lost>>

\* The signal strikes again: with tgkill if si_code says that it was sent, and
\* if that is refused the process exits; by itself if it was a fault.  Where
\* si_code is bogus a signal that was sent may be taken for a fault and be lost.
Retrigger(t) ==
  \E sent \in IF Bogus(t) THEN BOOLEAN ELSE {origin[t] # "kernel"} :
    \/ /\ sent \/ sig[t] = SIGABRT
       /\ origin' = [origin EXCEPT ![t] = "self"]
       /\ Goto(t, "signal")
       /\ UNCHANGED fate
    \/ /\ sent \/ sig[t] = SIGABRT
       /\ fate' = "exit"
       /\ UNCHANGED <<pc, origin>>
    \/ /\ ~sent /\ sig[t] # SIGABRT
       /\ Goto(t, IF origin[t] = "kernel" THEN "signal" ELSE "run")
       /\ UNCHANGED <<origin, fate>>

\* After the loop: the default action if some instance handled the crash, the
\* previous handlers if none did.
Conclude(t, handled) ==
  /\ IF handled
     THEN /\ disp' = [disp EXCEPT ![sig[t]] = "default"]
          /\ UNCHANGED handlers_installed
     ELSE RestoreHandlersLocked
  /\ mutex' = None
  /\ i' = [i EXCEPT ![t] = 0]
  /\ Leave(t)
  /\ Retrigger(t)

\* On to the next older instance, or to the end of the loop.
NextInstance(t) ==
  IF i[t] = 1
  THEN Conclude(t, FALSE)
  ELSE /\ i' = [i EXCEPT ![t] = @ - 1]
       /\ Goto(t, "offer")
       /\ UNCHANGED <<disp, handlers_installed, mutex, origin, entered, fate>>

---------------------------------------------------------------------------
(* HandleSignal and GenerateDump, on the crashing thread.                  *)

Instance(t) == g_handler_stack_[i[t]]

\* HandleSignal: a trusted signal makes the process dumpable, and the context is
\* left in the global.
HandleSignal(t) ==
  /\ Running /\ pc[t] = "offer"
  /\ \E trusted \in IF Bogus(t) THEN BOOLEAN ELSE {origin[t] \in {"kernel", "self"}} :
       dumpable' = (dumpable \/ trusted)
  /\ g_crash_context_' = t
  /\ Goto(t, "clone")
  /\ UNCHANGED <<disp, installation, mutex, signal, i, ptracer, child, files, world>>

\* GenerateDump up to the clone.  Without memory for the stack or without a
\* child there is no dump and no callback; without a pipe it carries on.
CloneFails(t) ==
  /\ Running /\ pc[t] = "clone"
  /\ NextInstance(t)
  /\ UNCHANGED <<old_handlers, g_handler_stack_, life, sig, g_crash_context_,
                 dumpable, ptracer, child, files, claimed, told, lost>>

Clone(t) ==
  /\ Running /\ pc[t] = "clone"
  /\ \E ok \in BOOLEAN :
       child' = [child EXCEPT ![t] =
         [st |-> "born", h |-> Instance(t), tid |-> g_crash_context_,
          pipe |-> ok, byte |-> FALSE, writeEnd |-> ok]]
  /\ Goto(t, "allow")
  /\ UNCHANGED <<disp, installation, mutex, signal, i, g_crash_context_, dumpable,
                 ptracer, files, world>>

\* Mutant: the child is told to go on before it may attach.
ContinueBeforeAllow(t) ==
  /\ Running /\ pc[t] = "allow"
  /\ child' = [child EXCEPT ![t].byte = child[t].pipe]
  /\ Goto(t, "continue")
  /\ UNCHANGED <<disp, installation, mutex, signal, i, g_crash_context_, dumpable,
                 ptracer, files, world>>

\* prctl(PR_SET_PTRACER, child).
AllowChild(t) ==
  /\ Running /\ pc[t] = "allow"
  /\ ptracer' = t
  /\ Goto(t, "continue")
  /\ UNCHANGED <<disp, installation, mutex, signal, i, g_crash_context_, dumpable,
                 child, files, world>>

\* One byte into the pipe; without a pipe the write fails and is only logged.
SendContinueSignalToChild(t) ==
  /\ Running /\ pc[t] = "continue"
  /\ child' = [child EXCEPT ![t].byte = child[t].pipe]
  /\ Goto(t, "waitpid")
  /\ UNCHANGED <<disp, installation, mutex, signal, i, g_crash_context_, dumpable,
                 ptracer, files, world>>

\* waitpid returns when the child has ended; the callback has the last word, and
\* libbugly's DumpCallback returns false whatever it is told.
WaitpidReturns(t) ==
  /\ Running /\ pc[t] = "waitpid"
  /\ child[t].st \in {"ok", "failed"}
  /\ child' = [child EXCEPT ![t] = NoChild]
  /\ IF Instance(t) \in Claimers
     THEN /\ claimed' = claimed \cup {Instance(t)}
          /\ Conclude(t, TRUE)
     ELSE NextInstance(t) /\ UNCHANGED claimed
  /\ UNCHANGED <<old_handlers, g_handler_stack_, life, sig, g_crash_context_,
                 dumpable, ptracer, files, told, lost>>

---------------------------------------------------------------------------
(* ThreadEntry and DoDump, in the cloned process.  It lives on when the    *)
(* crashing process dies.                                                  *)

ChildStep(t) ==
  UNCHANGED <<disp, installation, mutex, pc, signal, i, g_crash_context_,
              dumpable, ptracer, world>>

\* Mutant: the child keeps the write end of the pipe.
ThreadEntryKeepsPipe(t) ==
  /\ child[t].st = "born"
  /\ child' = [child EXCEPT ![t].st = "blocked"]
  /\ UNCHANGED files
  /\ ChildStep(t)

\* The child closes its copy of the write end.
ThreadEntry(t) ==
  /\ child[t].st = "born"
  /\ child' = [child EXCEPT ![t].st = "blocked", ![t].writeEnd = FALSE]
  /\ UNCHANGED files
  /\ ChildStep(t)

\* The read returns with the byte, with end of file when nobody is left who
\* could write, or at once when there is no pipe.
WaitForContinueSignal(t) ==
  /\ child[t].st = "blocked"
  /\ child[t].pipe =>
       child[t].byte \/ (~Alive /\ ~child[t].writeEnd)
  /\ child' = [child EXCEPT ![t].st = "ready", ![t].byte = FALSE]
  /\ UNCHANGED files
  /\ ChildStep(t)

\* MinidumpWriter::Init, first half: attach to the threads.
MayAttach(t) == Alive /\ dumpable /\ ptracer = t

AttachThreads(t) ==
  /\ child[t].st = "ready"
  /\ child' = [child EXCEPT ![t] =
                 IF MayAttach(t) THEN [@ EXCEPT !.st = "attached", !.pipe = FALSE]
                                 ELSE ChildAt("failed")]
  /\ UNCHANGED files
  /\ ChildStep(t)

\* Mutant: the file is opened without O_EXCL.
OpenFileAgain(t) ==
  /\ child[t].st = "attached"
  /\ files' = [files EXCEPT ![child[t].h] = [by |-> child[t].tid, whole |-> FALSE]]
  /\ child' = [child EXCEPT ![t].st = "writing"]
  /\ ChildStep(t)

\* Second half: the file is created with O_EXCL, so a second dump to the same
\* path fails.  A failure detaches from the threads.
OpenFile(t) ==
  /\ child[t].st = "attached"
  /\ IF files[child[t].h] = NoFile
     THEN /\ files' = [files EXCEPT ![child[t].h] = [by |-> child[t].tid, whole |-> FALSE]]
          /\ child' = [child EXCEPT ![t].st = "writing"]
     ELSE /\ child' = [child EXCEPT ![t] = ChildAt("failed")]
          /\ UNCHANGED files
  /\ ChildStep(t)

\* MinidumpWriter::Dump succeeds, or fails and leaves what was written.
WriteDump(t) ==
  /\ child[t].st = "writing"
  /\ \/ /\ files' = [files EXCEPT ![child[t].h].whole = TRUE]
        /\ child' = [child EXCEPT ![t] = ChildAt("ok")]
     \/ /\ child' = [child EXCEPT ![t] = ChildAt("failed")]
        /\ UNCHANGED files
  /\ ChildStep(t)

\* The child is killed; the kernel lets go of the threads it had stopped.
KillChild(t) ==
  /\ child[t].st \in Working
  /\ child' = [child EXCEPT ![t] = ChildAt("failed")]
  /\ UNCHANGED files
  /\ ChildStep(t)

---------------------------------------------------------------------------
Handle(t) ==
  \/ Deliver(t) \/ RepairSigInfo(t) \/ LockHandlers(t)
  \/ HandleSignal(t) \/ CloneFails(t) \/ Clone(t) \/ AllowChild(t)
  \/ SendContinueSignalToChild(t) \/ WaitpidReturns(t)

Dump(t) ==
  \/ ThreadEntry(t) \/ WaitForContinueSignal(t) \/ AttachThreads(t)
  \/ OpenFile(t) \/ WriteDump(t)

Next ==
  \/ \E t \in Threads, h \in Handlers : Construct(t, h) \/ Destroy(t, h)
  \/ \E s \in Signals : LoseSigInfo(s)
  \/ Kill
  \/ \E t \in Threads : \/ Crash(t) \/ SecondSignal(t) \/ OldHandlerEnds(t)
                       \/ Handle(t) \/ Dump(t) \/ KillChild(t)

\* A thread in the handler runs on, a child runs on, and the previous handler
\* ends the process; crashes, kills and foreign code owe nothing.
Fairness ==
  \A t \in Threads : WF_vars(Handle(t)) /\ WF_vars(Dump(t)) /\ WF_vars(OldHandlerEnds(t))

Spec == Init /\ [][Next]_vars /\ Fairness
---------------------------------------------------------------------------
(* Correctness.                                                            *)

\* Several threads may crash at once and share one crash context: the mutex keeps
\* them apart, so the child cloned for a thread always carries that thread's
\* context, and a minidump blames the thread that made it.
DumpBlamesItsThread ==
  \A t \in Threads : child[t].tid \in {None, t}

\* The pipe orders the two processes: a child that has been let through by a
\* live parent finds that it may attach, so the kernel refuses no dump for want
\* of PR_SET_PTRACER.
ContinueMeansAllowed ==
  \A t \in Threads :
    child[t].st = "ready" /\ child[t].pipe /\ Alive => ptracer = t

\* The detailed handler does what crash capture promises.
Capture == INSTANCE CrashCapture WITH
  crashing <- {t \in Threads : pc[t] # "run"},
  reports <- files,
  disturbed <- lost > 0 \/ \E h \in Handlers : life[h] = "gone"

\* Every step of the threads and of the child processes is a step of the
\* abstract specification: a report is begun once, and for a crashing thread; the
\* process ends by the default action only when a callback claimed the crash;
\* otherwise the previous handler is told, unless the installation was disturbed.
ImplementsCapture == Capture!Spec

\* A thread waits in the handler for the mutex it holds, which takes a loss of
\* SA_SIGINFO before.
SelfDeadlock(t) == pc[t] = "stuck" /\ lost > 0

\* A thread that faults brings the process down: SignalHandler never sends the
\* signal round in circles and no thread waits for ever, whoever else crashes.
\* The one exception is the mask that a repair of SA_SIGINFO leaves behind.
FaultEndsProcess ==
  (\E t \in Threads : pc[t] # "run" /\ origin[t] = "kernel")
    ~> (~Alive \/ \E t \in Threads : SelfDeadlock(t))

\* The child comes to an end even if the crashing process is killed while the
\* child waits for the continue signal, and so the threads it stopped run on;
\* but a thread that deadlocks with itself never sends its child that signal.
ChildEnds ==
  \A t \in Threads :
    child[t].st \in Working
      ~> (child[t].st \in {None, "ok", "failed"} \/ SelfDeadlock(t))
=============================================================================
