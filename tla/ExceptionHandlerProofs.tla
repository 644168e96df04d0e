----------------------- MODULE ExceptionHandlerProofs -----------------------
(***************************************************************************)
(* Native crash capture for any threads, instances and signals: the mutex  *)
(* and the pipe keep crashes apart, and the signal handler with its child  *)
(* processes implements the abstract CrashCapture.                         *)
(*                                                                         *)
(* The argument.  While the process is alive a thread inside the loop of   *)
(* SignalHandler owns the mutex (Exclusive), so the global crash context,  *)
(* the instance stack and the permission to attach are its own (Contexts,  *)
(* Allowed).  A disposition can only be the default one because somebody   *)
(* claimed the crash or the installation was disturbed (Dispositions), and *)
(* a thread can only be struck by a second signal in the handler, and keep *)
(* the mutex for ever, when SA_SIGINFO was lost (also Dispositions).       *)
(* These are inductive together with the types; with them every step is a  *)
(* step of CrashCapture or leaves its variables alone.                     *)
(***************************************************************************)
EXTENDS ExceptionHandler, TLAPS

Busy == {"offer", "clone", "allow", "continue", "waitpid"}
Held == Busy \cup {"stuck", "old"}

Disturbed == lost > 0 \/ \E h \in Handlers : life[h] = "gone"
Excused == claimed # {} \/ Disturbed

Exclusive ==
  Alive => \A t \in Threads :
    /\ pc[t] \in Busy => i[t] # 0
    /\ i[t] # 0 => mutex = t /\ pc[t] \in Held

Contexts ==
  \A t \in Threads :
    /\ Alive /\ pc[t] = "clone" => g_crash_context_ = t
    /\ child[t].st # None => pc[t] \in {"allow", "continue", "waitpid", "stuck", "old"}
    /\ child[t].st \in Working => child[t].h \in Handlers /\ child[t].tid = t
    /\ child[t].tid \in {None, t}
    /\ child[t].st = "writing" => files[child[t].h].by \in Threads

Allowed ==
  Alive => \A t \in Threads :
    /\ pc[t] \in {"continue", "waitpid"} => ptracer = t
    /\ child[t].byte \/ (child[t].st = "ready" /\ child[t].pipe) =>
         pc[t] \in {"waitpid", "stuck", "old"} /\ i[t] # 0 /\ ptracer = t

Dispositions ==
  /\ \A s \in Signals : disp[s] \in {"noinfo", "narrow"} => lost > 0
  /\ \A s \in Signals : disp[s] = "default" => Excused
  /\ handlers_installed => \A s \in Signals : old_handlers[s] = "default" => Excused
  /\ g_handler_stack_ = << >> /\ ~Disturbed =>
       /\ \A s \in Signals : disp[s] \notin Breakpads
       /\ \A t \in Threads : pc[t] # "lock"
  /\ \A t \in Threads : pc[t] = "old" => t \in told
  /\ \A t \in Threads : entered[t] # "breakpad" \/ pc[t] = "stuck" => lost > 0

IInv == TypeOK /\ Exclusive /\ Contexts /\ Allowed /\ Dispositions

\* The state of the process and of its children is well formed at the start.
LEMMA InitIInv == Init => IInv
<1> SUFFICES ASSUME Init PROVE IInv
  OBVIOUS
<1> USE DEF Init, Alive
<1>0. g_handler_stack_ \in Seq(Handlers) /\ Len(g_handler_stack_) = 0
  OBVIOUS
<1>1. InstallationOK
  <2>1. disp \in [Signals -> Breakpads \cup {"old", "default"}]
    OBVIOUS
  <2>2. old_handlers \in [Signals -> {"old", "default"}]
    OBVIOUS
  <2>3. life \in [Handlers -> {"new", "live", "gone"}]
    OBVIOUS
  <2> QED
    BY <1>0, <2>1, <2>2, <2>3 DEF InstallationOK
<1>2. ThreadsOK /\ ContextOK /\ WorldOK
  <2>1. i \in [Threads -> 0 .. Len(g_handler_stack_)]
    BY <1>0
  <2>2. sig \in [Threads -> Signals]
    BY HandlerAssumption
  <2>3. pc \in [Threads -> {"run", "signal", "lock", "offer", "clone", "allow",
                            "continue", "waitpid", "stuck", "old"}]
    OBVIOUS
  <2>4. lost \in 0 .. MaxLost
    BY HandlerAssumption
  <2>5. origin \in [Threads -> Origins] /\ entered \in [Threads -> Breakpads]
    BY DEF Origins, Breakpads
  <2> QED
    BY <2>1, <2>2, <2>3, <2>4, <2>5 DEF ThreadsOK, ContextOK, WorldOK
<1>3. ChildrenOK
  BY DEF ChildrenOK, Children, NoChild, ChildAt, NoFile, None
<1>4. Exclusive
  BY DEF Exclusive, Busy
<1>5. Contexts
  BY DEF Contexts, Working, NoChild, ChildAt, None
<1>6. Allowed
  BY DEF Allowed, NoChild, ChildAt, None
<1>7. Dispositions
  BY DEF Dispositions, Disturbed, Excused, Breakpads
<1> QED
  BY <1>1, <1>2, <1>3, <1>4, <1>5, <1>6, <1>7 DEF IInv, TypeOK

---------------------------------------------------------------------------
(* The types, part by part.                                                *)

\* Whatever action takes place, the dispositions and the instance stack keep
\* their types.
LEMMA InstallationStep == IInv /\ [Next]_vars => InstallationOK'
<1> SUFFICES ASSUME IInv, [Next]_vars PROVE InstallationOK'
  OBVIOUS
<1> USE DEF IInv, TypeOK, InstallationOK, installation, Breakpads
<1>1. ASSUME NEW t \in Threads, NEW h \in Handlers, Construct(t, h) PROVE InstallationOK'
  <2>1. g_handler_stack_' \in Seq(Handlers) /\ life' \in [Handlers -> {"new", "live", "gone"}]
    BY <1>1 DEF Construct
  <2> QED
    BY <1>1, <2>1 DEF Construct, InstallHandlersLocked
<1>2. ASSUME NEW t \in Threads, NEW h \in Handlers, Destroy(t, h) PROVE InstallationOK'
  <2>1. PICK k \in 1..Len(g_handler_stack_) :
            g_handler_stack_' = SubSeq(g_handler_stack_, 1, k - 1)
                                  \o SubSeq(g_handler_stack_, k + 1, Len(g_handler_stack_))
    BY <1>2 DEF Destroy
  <2>2. /\ SubSeq(g_handler_stack_, 1, k - 1) \in Seq(Handlers)
        /\ SubSeq(g_handler_stack_, k + 1, Len(g_handler_stack_)) \in Seq(Handlers)
    OBVIOUS
  <2>3. g_handler_stack_' \in Seq(Handlers)
    BY <2>1, <2>2
  <2> QED
    BY <1>2, <2>3 DEF Destroy, RestoreHandlersLocked
<1>3. ASSUME NEW s \in Signals, LoseSigInfo(s) PROVE InstallationOK'
  BY <1>3 DEF LoseSigInfo
<1>4. ASSUME NEW t \in Threads, RepairSigInfo(t) PROVE InstallationOK'
  BY <1>4 DEF RepairSigInfo
<1>5. ASSUME NEW t \in Threads, CloneFails(t) PROVE InstallationOK'
  BY <1>5 DEF CloneFails, NextInstance, Conclude, RestoreHandlersLocked
<1>6. ASSUME NEW t \in Threads, WaitpidReturns(t) PROVE InstallationOK'
  BY <1>6 DEF WaitpidReturns, NextInstance, Conclude, RestoreHandlersLocked
<1>7. CASE UNCHANGED <<disp, installation>>
  BY <1>7
<1>8. CASE Kill \/ \E t \in Threads : Crash(t) \/ OldHandlerEnds(t)
  BY <1>7, <1>8 DEF Kill, Crash, OldHandlerEnds
<1>9. ASSUME NEW t \in Threads,
             Deliver(t) \/ SecondSignal(t) \/ LockHandlers(t) \/ HandleSignal(t) \/ Clone(t)
               \/ AllowChild(t) \/ SendContinueSignalToChild(t)
      PROVE InstallationOK'
  BY <1>7, <1>9 DEF Deliver, SecondSignal, LockHandlers, HandleSignal, Clone, AllowChild, SendContinueSignalToChild
<1>10. ASSUME NEW t \in Threads, Dump(t) \/ KillChild(t) PROVE InstallationOK'
  BY <1>7, <1>10 DEF Dump, ThreadEntry, WaitForContinueSignal, AttachThreads, OpenFile, WriteDump,
               KillChild, ChildStep
<1> QED
  BY <1>1, <1>2, <1>3, <1>4, <1>5, <1>6, <1>7, <1>8, <1>9, <1>10 DEF Next, Handle, vars

\* While nobody holds the mutex, no live thread is in the loop.
LEMMA NobodyInLoop ==
  ASSUME IInv, Alive, mutex = None
  PROVE  \A t \in Threads : pc[t] \notin Busy /\ i[t] = 0
BY HandlerAssumption DEF IInv, Exclusive

\* A live thread in the loop owns the mutex and works for an instance.
LEMMA InLoop ==
  ASSUME IInv, Alive, NEW t \in Threads, pc[t] \in Busy
  PROVE  mutex = t /\ i[t] \in 1..Len(g_handler_stack_) /\ Instance(t) \in Handlers
<1>1. mutex = t /\ i[t] # 0
  BY DEF IInv, Exclusive
<1>2. i[t] \in 0..Len(g_handler_stack_) /\ g_handler_stack_ \in Seq(Handlers)
  BY DEF IInv, TypeOK, ThreadsOK, InstallationOK
<1> QED
  BY <1>1, <1>2 DEF Instance

\* Whatever action takes place, the threads keep their types; in particular no
\* thread's loop index points past the instance stack, which only changes while
\* nobody is in the loop.
LEMMA ThreadsStep == IInv /\ [Next]_vars => ThreadsOK'
<1> SUFFICES ASSUME IInv, [Next]_vars PROVE ThreadsOK'
  OBVIOUS
<1> USE DEF TypeOK, ThreadsOK, signal, Goto, Breakpads
<1>0. TypeOK
  BY DEF IInv
<1>t. Len(g_handler_stack_) \in Nat
  BY <1>0 DEF InstallationOK
<1>u. CASE UNCHANGED <<g_handler_stack_, mutex, pc, signal, i>>
  BY <1>0, <1>u
<1>1. ASSUME NEW t \in Threads, NEW h \in Handlers, Construct(t, h) PROVE ThreadsOK'
  <2>1. Len(g_handler_stack_') = Len(g_handler_stack_) + 1
    BY <1>0, <1>1 DEF Construct, InstallationOK
  <2>2. i' \in [Threads -> 0..Len(g_handler_stack_')]
    BY <1>0, <1>1, <1>t, <2>1 DEF Construct
  <2> QED
    BY <1>0, <1>1, <2>2 DEF Construct
<1>2. ASSUME NEW t \in Threads, NEW h \in Handlers, Destroy(t, h) PROVE ThreadsOK'
  <2>1. \A u \in Threads : i[u] = 0
    BY <1>2, NobodyInLoop DEF Destroy, Running
  <2>2. InstallationOK'
    BY InstallationStep
  <2>3. i' \in [Threads -> 0..Len(g_handler_stack_')]
    <3>1. Len(g_handler_stack_') \in Nat
      BY <2>2 DEF InstallationOK
    <3>2. i' = [u \in Threads |-> 0]
      BY <1>0, <1>2, <2>1 DEF Destroy
    <3> QED
      BY <3>1, <3>2
  <2> QED
    BY <1>0, <1>2, <2>3 DEF Destroy
<1>3. CASE Kill \/ \E s \in Signals : LoseSigInfo(s)
  BY <1>u, <1>3 DEF Kill, LoseSigInfo, installation
<1>4. ASSUME NEW t \in Threads, Crash(t) PROVE ThreadsOK'
  <2>1. PICK c \in Crashes[t] : /\ sig' = [sig EXCEPT ![t] = c[1]]
                                /\ origin' = [origin EXCEPT ![t] = c[2]]
    BY <1>4 DEF Crash
  <2>2. c[1] \in Signals /\ c[2] \in Origins
    BY HandlerAssumption, <2>1
  <2> QED
    BY <1>0, <1>4, <2>1, <2>2 DEF Crash, installation
<1>5. ASSUME NEW t \in Threads, OldHandlerEnds(t) PROVE ThreadsOK'
  BY <1>u, <1>5 DEF OldHandlerEnds, installation
<1>6. ASSUME NEW t \in Threads, Deliver(t) PROVE ThreadsOK'
  <2>1. disp[sig[t]] \in Breakpads \cup {"old", "default"}
    BY <1>0 DEF InstallationOK
  <2> QED
    BY <1>0, <1>6, <2>1 DEF Deliver, installation
<1>7. ASSUME NEW t \in Threads, RepairSigInfo(t) PROVE ThreadsOK'
  BY <1>0, <1>7 DEF RepairSigInfo, Leave, installation
<1>8. ASSUME NEW t \in Threads, LockHandlers(t) PROVE ThreadsOK'
  BY <1>0, <1>t, <1>8 DEF LockHandlers, Strike, installation
<1>s. ASSUME NEW t \in Threads, SecondSignal(t) PROVE ThreadsOK'
  BY <1>0, <1>s DEF SecondSignal, Strike, installation
<1>9. ASSUME NEW t \in Threads,
             HandleSignal(t) \/ Clone(t) \/ AllowChild(t) \/ SendContinueSignalToChild(t)
      PROVE ThreadsOK'
  BY <1>0, <1>9 DEF HandleSignal, Clone, AllowChild, SendContinueSignalToChild, installation
<1>10. ASSUME NEW t \in Threads, CloneFails(t) \/ WaitpidReturns(t) PROVE ThreadsOK'
  <2>1. /\ g_handler_stack_' = g_handler_stack_ /\ sig' = sig
        /\ mutex' \in {mutex, None}
        /\ NextInstance(t) \/ Conclude(t, TRUE)
    BY <1>10 DEF CloneFails, WaitpidReturns, NextInstance, Conclude
  <2>2. origin' \in [Threads -> Origins] /\ pc' \in [Threads ->
          {"run", "signal", "lock", "offer", "clone", "allow", "continue", "waitpid", "stuck", "old"}]
    BY <1>0, <2>1 DEF NextInstance, Conclude, Retrigger, Origins
  <2>e. entered' \in [Threads -> Breakpads]
    BY <1>0, <2>1 DEF NextInstance, Conclude, Leave
  <2>3. pc[t] \in Busy /\ Alive
    BY <1>10 DEF CloneFails, WaitpidReturns, Busy, Running
  <2>4. i[t] # 0
    BY <2>3 DEF IInv, Exclusive
  <2>5. i' \in [Threads -> 0..Len(g_handler_stack_)]
    BY <1>0, <1>t, <2>1, <2>4 DEF NextInstance, Conclude
  <2> QED
    BY <1>0, <2>1, <2>2, <2>5, <2>e
<1>11. ASSUME NEW t \in Threads, Dump(t) \/ KillChild(t) PROVE ThreadsOK'
  BY <1>u, <1>11 DEF Dump, ThreadEntry, WaitForContinueSignal, AttachThreads, OpenFile, WriteDump,
               KillChild, ChildStep, installation
<1>12. CASE UNCHANGED vars
  BY <1>u, <1>12 DEF vars, installation
<1> QED
  BY <1>1, <1>2, <1>3, <1>4, <1>5, <1>6, <1>7, <1>8, <1>9, <1>10, <1>11, <1>12, <1>s DEF Next, Handle

\* Whatever action takes place, the shared crash context keeps its type.
LEMMA ContextStep == IInv /\ [Next]_vars => ContextOK'
<1> SUFFICES ASSUME IInv, [Next]_vars PROVE ContextOK'
  OBVIOUS
<1> USE DEF IInv, TypeOK, ContextOK
<1>1. ASSUME NEW t \in Threads, NEW h \in Handlers, Construct(t, h) \/ Destroy(t, h)
      PROVE  ContextOK'
  BY <1>1 DEF Construct, Destroy
<1>2. CASE Kill \/ \E s \in Signals : LoseSigInfo(s)
  BY <1>2 DEF Kill, LoseSigInfo
<1>3. ASSUME NEW t \in Threads, Crash(t) \/ OldHandlerEnds(t) \/ Deliver(t) \/ RepairSigInfo(t)
               \/ LockHandlers(t) \/ SecondSignal(t)
      PROVE  ContextOK'
  BY <1>3 DEF Crash, OldHandlerEnds, Deliver, RepairSigInfo, LockHandlers, SecondSignal
<1>4. ASSUME NEW t \in Threads,
             HandleSignal(t) \/ CloneFails(t) \/ Clone(t) \/ AllowChild(t)
               \/ SendContinueSignalToChild(t) \/ WaitpidReturns(t)
      PROVE  ContextOK'
  BY <1>4 DEF HandleSignal, CloneFails, Clone, AllowChild, SendContinueSignalToChild, WaitpidReturns
<1>5. ASSUME NEW t \in Threads, Dump(t) \/ KillChild(t) PROVE ContextOK'
  BY <1>5 DEF Dump, ThreadEntry, WaitForContinueSignal, AttachThreads, OpenFile, WriteDump,
              KillChild, ChildStep
<1>6. CASE UNCHANGED vars
  BY <1>6 DEF vars
<1> QED
  BY <1>1, <1>2, <1>3, <1>4, <1>5, <1>6 DEF Next, Handle

\* Whatever action takes place, what is counted of the world keeps its type.
LEMMA WorldStep == IInv /\ [Next]_vars => WorldOK'
<1> SUFFICES ASSUME IInv, [Next]_vars PROVE WorldOK'
  OBVIOUS
<1> USE DEF IInv, TypeOK, WorldOK, world
<1>1. ASSUME NEW t \in Threads, NEW h \in Handlers, Construct(t, h) \/ Destroy(t, h)
      PROVE  WorldOK'
  BY <1>1 DEF Construct, Destroy
<1>2. CASE Kill \/ \E s \in Signals : LoseSigInfo(s)
  <2>1. CASE Kill
    BY <2>1 DEF Kill
  <2>2. ASSUME NEW s \in Signals, LoseSigInfo(s) PROVE WorldOK'
    <3>1. MaxLost \in Nat
      BY HandlerAssumption
    <3> QED
      BY <2>2, <3>1 DEF LoseSigInfo
  <2> QED
    BY <1>2, <2>1, <2>2
<1>3. ASSUME NEW t \in Threads, Crash(t) \/ OldHandlerEnds(t) \/ Deliver(t) \/ RepairSigInfo(t)
               \/ LockHandlers(t) \/ SecondSignal(t)
      PROVE  WorldOK'
  BY <1>3 DEF Crash, OldHandlerEnds, Deliver, RepairSigInfo, LockHandlers, SecondSignal, Strike
<1>4. ASSUME NEW t \in Threads,
             HandleSignal(t) \/ Clone(t) \/ AllowChild(t) \/ SendContinueSignalToChild(t)
      PROVE  WorldOK'
  BY <1>4 DEF HandleSignal, Clone, AllowChild, SendContinueSignalToChild
<1>5. ASSUME NEW t \in Threads, CloneFails(t) PROVE WorldOK'
  BY <1>5 DEF CloneFails, NextInstance, Conclude, Retrigger
<1>6. ASSUME NEW t \in Threads, WaitpidReturns(t) PROVE WorldOK'
  <2>1. Instance(t) \in Handlers
    BY <1>6, InLoop DEF WaitpidReturns, Busy, Running
  <2> QED
    BY <1>6, <2>1 DEF WaitpidReturns, NextInstance, Conclude, Retrigger
<1>7. ASSUME NEW t \in Threads, Dump(t) \/ KillChild(t) PROVE WorldOK'
  BY <1>7 DEF Dump, ThreadEntry, WaitForContinueSignal, AttachThreads, OpenFile, WriteDump,
              KillChild, ChildStep
<1>8. CASE UNCHANGED vars
  BY <1>8 DEF vars
<1> QED
  BY <1>1, <1>2, <1>3, <1>4, <1>5, <1>6, <1>7, <1>8 DEF Next, Handle

\* Whatever action takes place, the child processes and the files keep their
\* types; a child that works knows its instance and its thread.
LEMMA ChildrenStep == IInv /\ [Next]_vars => ChildrenOK'
<1> SUFFICES ASSUME IInv, [Next]_vars PROVE ChildrenOK'
  OBVIOUS
<1>0. ChildrenOK /\ \A t \in Threads : child[t] \in Children
  BY DEF IInv, TypeOK, ChildrenOK
<1>u. ASSUME UNCHANGED <<child, files>> PROVE ChildrenOK'
  BY <1>0, <1>u DEF ChildrenOK
<1>c. ASSUME NEW t \in Threads, NEW c \in Children, child' = [child EXCEPT ![t] = c],
             UNCHANGED files
      PROVE  ChildrenOK'
  BY <1>0, <1>c DEF ChildrenOK
<1>d. \A st \in {None, "ok", "failed"} : ChildAt(st) \in Children
  BY DEF ChildAt, Children
<1>1. ASSUME NEW t \in Threads, NEW h \in Handlers, Construct(t, h) \/ Destroy(t, h)
      PROVE  ChildrenOK'
  BY <1>u, <1>1 DEF Construct, Destroy
<1>2. CASE Kill \/ \E s \in Signals : LoseSigInfo(s)
  BY <1>u, <1>2 DEF Kill, LoseSigInfo
<1>3. ASSUME NEW t \in Threads, Crash(t) \/ OldHandlerEnds(t) \/ Deliver(t) \/ RepairSigInfo(t)
               \/ LockHandlers(t) \/ SecondSignal(t) \/ HandleSignal(t) \/ CloneFails(t) \/ AllowChild(t)
      PROVE  ChildrenOK'
  BY <1>u, <1>3 DEF Crash, OldHandlerEnds, Deliver, RepairSigInfo, LockHandlers, SecondSignal,
                    HandleSignal, CloneFails, AllowChild
<1>4. ASSUME NEW t \in Threads, Clone(t) PROVE ChildrenOK'
  <2>1. PICK ok \in BOOLEAN :
          child' = [child EXCEPT ![t] = [st |-> "born", h |-> Instance(t), tid |-> g_crash_context_,
                                         pipe |-> ok, byte |-> FALSE, writeEnd |-> ok]]
    BY <1>4 DEF Clone
  <2>2. Instance(t) \in Handlers
    BY <1>4, InLoop DEF Clone, Busy, Running
  <2>3. g_crash_context_ \in Threads \cup {None}
    BY DEF IInv, TypeOK, ContextOK
  <2>4. [st |-> "born", h |-> Instance(t), tid |-> g_crash_context_,
         pipe |-> ok, byte |-> FALSE, writeEnd |-> ok] \in Children
    BY <2>2, <2>3 DEF Children
  <2> QED
    BY <1>4, <1>c, <2>1, <2>4 DEF Clone
<1>5. ASSUME NEW t \in Threads, SendContinueSignalToChild(t) PROVE ChildrenOK'
  <2>1. [child[t] EXCEPT !.byte = child[t].pipe] \in Children
    BY <1>0 DEF Children
  <2>2. child' = [child EXCEPT ![t] = [child[t] EXCEPT !.byte = child[t].pipe]]
    BY <1>0, <1>5 DEF SendContinueSignalToChild
  <2> QED
    BY <1>5, <1>c, <2>1, <2>2 DEF SendContinueSignalToChild
<1>6. ASSUME NEW t \in Threads, WaitpidReturns(t) PROVE ChildrenOK'
  BY <1>6, <1>c, <1>d DEF WaitpidReturns, NoChild
<1>7. ASSUME NEW t \in Threads, ThreadEntry(t) PROVE ChildrenOK'
  <2>1. [[child[t] EXCEPT !.st = "blocked"] EXCEPT !.writeEnd = FALSE] \in Children
    BY <1>0 DEF Children
  <2>2. child' = [child EXCEPT ![t] = [[child[t] EXCEPT !.st = "blocked"] EXCEPT !.writeEnd = FALSE]]
    BY <1>0, <1>7 DEF ThreadEntry, ChildrenOK
  <2> QED
    BY <1>7, <1>c, <2>1, <2>2 DEF ThreadEntry
<1>8. ASSUME NEW t \in Threads, WaitForContinueSignal(t) PROVE ChildrenOK'
  <2>1. [[child[t] EXCEPT !.st = "ready"] EXCEPT !.byte = FALSE] \in Children
    BY <1>0 DEF Children
  <2>2. child' = [child EXCEPT ![t] = [[child[t] EXCEPT !.st = "ready"] EXCEPT !.byte = FALSE]]
    BY <1>0, <1>8 DEF WaitForContinueSignal, ChildrenOK
  <2> QED
    BY <1>8, <1>c, <2>1, <2>2 DEF WaitForContinueSignal
<1>9. ASSUME NEW t \in Threads, AttachThreads(t) PROVE ChildrenOK'
  <2>1. [child[t] EXCEPT !.st = "attached", !.pipe = FALSE] \in Children
    BY <1>0 DEF Children
  <2> QED
    BY <1>9, <1>c, <1>d, <2>1 DEF AttachThreads
<1>10. ASSUME NEW t \in Threads, OpenFile(t) PROVE ChildrenOK'
  <2>1. child[t].h \in Handlers /\ child[t].tid = t
    BY <1>10 DEF OpenFile, IInv, Contexts, Working
  <2>2. [child[t] EXCEPT !.st = "writing"] \in Children
    BY <1>0 DEF Children
  <2>3. CASE files[child[t].h] = NoFile
    <3>1. child' \in [Threads -> Children]
      BY <1>0, <1>10, <2>2, <2>3 DEF OpenFile, ChildrenOK
    <3>2. files' \in [Handlers -> [by: Threads \cup {"nobody"}, whole: BOOLEAN]]
      <4>1. [by |-> child[t].tid, whole |-> FALSE] \in [by: Threads \cup {"nobody"}, whole: BOOLEAN]
        BY <2>1
      <4> QED
        BY <1>0, <1>10, <2>3, <4>1 DEF OpenFile, ChildrenOK
    <3> QED
      BY <3>1, <3>2 DEF ChildrenOK
  <2>4. CASE files[child[t].h] # NoFile
    BY <1>10, <1>c, <1>d, <2>4 DEF OpenFile
  <2> QED
    BY <2>3, <2>4
<1>11. ASSUME NEW t \in Threads, WriteDump(t) PROVE ChildrenOK'
  <2>1. CASE child' = [child EXCEPT ![t] = ChildAt("failed")] /\ UNCHANGED files
    BY <1>c, <1>d, <2>1
  <2>2. CASE /\ files' = [files EXCEPT ![child[t].h].whole = TRUE]
             /\ child' = [child EXCEPT ![t] = ChildAt("ok")]
    <3>1. files' \in [Handlers -> [by: Threads \cup {"nobody"}, whole: BOOLEAN]]
      BY <1>0, <2>2 DEF ChildrenOK
    <3> QED
      BY <1>0, <1>d, <2>2, <3>1 DEF ChildrenOK
  <2> QED
    BY <1>11, <2>1, <2>2 DEF WriteDump
<1>12. ASSUME NEW t \in Threads, KillChild(t) PROVE ChildrenOK'
  BY <1>12, <1>c, <1>d DEF KillChild
<1>13. CASE UNCHANGED vars
  BY <1>u, <1>13 DEF vars
<1> QED
  BY <1>1, <1>2, <1>3, <1>4, <1>5, <1>6, <1>7, <1>8, <1>9, <1>10, <1>11, <1>12, <1>13
     DEF Next, Handle, Dump

---------------------------------------------------------------------------
(* The mutex, the context, the pipe and the dispositions.                  *)

\* Whatever action takes place, a live thread in the loop owns the mutex.
LEMMA ExclusiveStep == IInv /\ [Next]_vars => Exclusive'
<1> SUFFICES ASSUME IInv, [Next]_vars, Alive', NEW u \in Threads
             PROVE  /\ pc'[u] \in Busy => i'[u] # 0
                    /\ i'[u] # 0 => mutex' = u /\ pc'[u] \in Held
  BY DEF Exclusive
<1> DEFINE Goal == /\ pc'[u] \in Busy => i'[u] # 0
                   /\ i'[u] # 0 => mutex' = u /\ pc'[u] \in Held
<1>0. TypeOK /\ Exclusive /\ pc = [t \in Threads |-> pc[t]] /\ i \in [Threads -> Nat] /\ None \notin Threads
  <2>1. TypeOK /\ Exclusive
    BY DEF IInv
  <2>2. pc = [t \in Threads |-> pc[t]]
    BY <2>1 DEF TypeOK, ThreadsOK
  <2>3. Len(g_handler_stack_) \in Nat
    BY <2>1 DEF TypeOK, InstallationOK
  <2>4. i \in [Threads -> Nat]
    BY <2>1, <2>3 DEF TypeOK, ThreadsOK
  <2> QED
    BY <2>1, <2>2, <2>4, HandlerAssumption
<1>u. CASE UNCHANGED <<mutex, pc, i, fate>>
  BY <1>0, <1>u DEF Exclusive, Alive
<1>1. ASSUME NEW t \in Threads, NEW h \in Handlers, Construct(t, h) \/ Destroy(t, h) PROVE Goal
  BY <1>u, <1>1 DEF Construct, Destroy, world
<1>2. CASE Kill \/ \E s \in Signals : LoseSigInfo(s)
  BY <1>u, <1>2 DEF Kill, LoseSigInfo, Alive
<1>3. ASSUME NEW t \in Threads, Crash(t) \/ Deliver(t) \/ RepairSigInfo(t) PROVE Goal
  BY <1>0, <1>3 DEF Crash, Deliver, RepairSigInfo, Running, Alive, Goto, Exclusive, Busy, Held
<1>s. ASSUME NEW t \in Threads, SecondSignal(t) PROVE Goal
  <2>1. /\ UNCHANGED <<mutex, i>> /\ Alive /\ pc[t] \in Busy
        /\ pc' = pc \/ \E l \in {"stuck", "old"} : Goto(t, l)
    BY <1>s DEF SecondSignal, Strike, Running, Busy
  <2> QED
    BY <1>0, <2>1 DEF Goto, Exclusive, Busy, Held
<1>4. ASSUME NEW t \in Threads, OldHandlerEnds(t) PROVE Goal
  BY <1>4 DEF OldHandlerEnds, Alive
<1>5. ASSUME NEW t \in Threads, LockHandlers(t) PROVE Goal
  <2>1. Len(g_handler_stack_) # 0 \/ g_handler_stack_ = << >>
    BY <1>0 DEF TypeOK, InstallationOK
  <2>2. \A v \in Threads : pc[v] \notin Busy /\ i[v] = 0
    BY <1>5, NobodyInLoop DEF LockHandlers, Running
  <2> QED
    BY <1>0, <1>5, <2>1, <2>2 DEF LockHandlers, Strike, Alive, Goto, Busy, Held
<1>6. ASSUME NEW t \in Threads,
             HandleSignal(t) \/ Clone(t) \/ AllowChild(t) \/ SendContinueSignalToChild(t)
      PROVE  Goal
  BY <1>0, <1>6 DEF HandleSignal, Clone, AllowChild, SendContinueSignalToChild, Running, Alive,
                    Goto, Exclusive, Busy, Held, world
<1>7. ASSUME NEW t \in Threads, CloneFails(t) \/ WaitpidReturns(t) PROVE Goal
  <2>1. Alive /\ pc[t] \in Busy /\ (NextInstance(t) \/ Conclude(t, TRUE))
    BY <1>7 DEF CloneFails, WaitpidReturns, Busy, Running
  <2>2. mutex = t /\ i[t] # 0 /\ i[t] \in Nat
    BY <1>0, <2>1 DEF Exclusive
  <2>3. u # t => pc[u] \notin Busy /\ i[u] = 0
    BY <1>0, <2>1, <2>2 DEF Exclusive
  <2>4. CASE NextInstance(t) /\ i[t] # 1
    <3>1. /\ i' = [i EXCEPT ![t] = i[t] - 1] /\ pc' = [pc EXCEPT ![t] = "offer"]
          /\ mutex' = t
      BY <2>2, <2>4 DEF NextInstance, Goto
    <3>2. i[t] - 1 # 0
      BY <2>2, <2>4
    <3> QED
      BY <1>0, <2>3, <3>1, <3>2 DEF Busy, Held
  <2>5. CASE Conclude(t, TRUE) \/ Conclude(t, FALSE)
    BY <1>0, <2>3, <2>5 DEF Conclude, Retrigger, Goto, Busy, Held, Alive
  <2> QED
    BY <2>1, <2>4, <2>5 DEF NextInstance
<1>8. ASSUME NEW t \in Threads, Dump(t) \/ KillChild(t) PROVE Goal
  BY <1>u, <1>8 DEF Dump, ThreadEntry, WaitForContinueSignal, AttachThreads, OpenFile, WriteDump,
                    KillChild, ChildStep, world
<1>9. CASE UNCHANGED vars
  BY <1>u, <1>9 DEF vars, world
<1> QED
  BY <1>1, <1>2, <1>3, <1>4, <1>5, <1>6, <1>7, <1>8, <1>9, <1>s DEF Next, Handle

\* What excuses a quiet end of the process is never taken back.
LEMMA ExcusesGrow ==
  ASSUME IInv, [Next]_vars
  PROVE  (Disturbed => Disturbed') /\ (Excused => Excused')
<1>0. TypeOK /\ lost \in Nat /\ life = [h \in Handlers |-> life[h]]
  <2>1. TypeOK /\ MaxLost \in Nat
    BY HandlerAssumption DEF IInv
  <2>2. lost \in Nat
    BY <2>1 DEF TypeOK, WorldOK
  <2>3. life \in [Handlers -> {"new", "live", "gone"}]
    BY <2>1 DEF TypeOK, InstallationOK
  <2> QED
    BY <2>1, <2>2, <2>3
<1>u. ASSUME UNCHANGED <<life, lost>>, claimed \subseteq claimed'
      PROVE  (Disturbed => Disturbed') /\ (Excused => Excused')
  BY <1>u DEF Disturbed, Excused
<1>1. ASSUME NEW t \in Threads, NEW h \in Handlers, Construct(t, h) \/ Destroy(t, h)
      PROVE  (Disturbed => Disturbed') /\ (Excused => Excused')
  <2>1. \A g \in Handlers : life[g] = "gone" => life'[g] = "gone"
    BY <1>0, <1>1 DEF Construct, Destroy
  <2>2. UNCHANGED <<lost, claimed>>
    BY <1>1 DEF Construct, Destroy, world
  <2> QED
    BY <2>1, <2>2 DEF Disturbed, Excused
<1>2. CASE Kill
  BY <1>u, <1>2 DEF Kill, installation
<1>3. ASSUME NEW s \in Signals, LoseSigInfo(s)
      PROVE  (Disturbed => Disturbed') /\ (Excused => Excused')
  BY <1>0, <1>3 DEF LoseSigInfo, installation, Disturbed, Excused
<1>4. ASSUME NEW t \in Threads, Crash(t) \/ OldHandlerEnds(t) \/ Deliver(t) \/ RepairSigInfo(t)
               \/ LockHandlers(t) \/ SecondSignal(t)
      PROVE  (Disturbed => Disturbed') /\ (Excused => Excused')
  BY <1>u, <1>4 DEF Crash, OldHandlerEnds, Deliver, RepairSigInfo, LockHandlers, SecondSignal,
                    installation, world
<1>5. ASSUME NEW t \in Threads,
             HandleSignal(t) \/ CloneFails(t) \/ Clone(t) \/ AllowChild(t)
               \/ SendContinueSignalToChild(t)
      PROVE  (Disturbed => Disturbed') /\ (Excused => Excused')
  BY <1>u, <1>5 DEF HandleSignal, CloneFails, Clone, AllowChild, SendContinueSignalToChild,
                    installation, world
<1>6. ASSUME NEW t \in Threads, WaitpidReturns(t)
      PROVE  (Disturbed => Disturbed') /\ (Excused => Excused')
  BY <1>u, <1>6 DEF WaitpidReturns
<1>7. ASSUME NEW t \in Threads, Dump(t) \/ KillChild(t)
      PROVE  (Disturbed => Disturbed') /\ (Excused => Excused')
  BY <1>u, <1>7 DEF Dump, ThreadEntry, WaitForContinueSignal, AttachThreads, OpenFile, WriteDump,
              KillChild, ChildStep, installation, world
<1>8. CASE UNCHANGED vars
  BY <1>u, <1>8 DEF vars, installation, world
<1> QED
  BY <1>1, <1>2, <1>3, <1>4, <1>5, <1>6, <1>7, <1>8 DEF Next, Handle

\* Whatever action takes place, a child carries the context of the thread it was
\* cloned for, and the file it writes belongs to a crash.
LEMMA ContextsStep == IInv /\ [Next]_vars => Contexts'
<1> SUFFICES ASSUME IInv, [Next]_vars, NEW u \in Threads
             PROVE  /\ Alive' /\ pc'[u] = "clone" => g_crash_context_' = u
                    /\ child'[u].st # None => pc'[u] \in {"allow", "continue", "waitpid", "stuck", "old"}
                    /\ child'[u].st \in Working => child'[u].h \in Handlers /\ child'[u].tid = u
                    /\ child'[u].tid \in {None, u}
                    /\ child'[u].st = "writing" => files'[child'[u].h].by \in Threads
  BY DEF Contexts
<1> DEFINE C1 == Alive' /\ pc'[u] = "clone" => g_crash_context_' = u
           C2 == child'[u].st # None => pc'[u] \in {"allow", "continue", "waitpid", "stuck", "old"}
           C3 == /\ child'[u].st \in Working => child'[u].h \in Handlers /\ child'[u].tid = u
                 /\ child'[u].tid \in {None, u}
           C4 == child'[u].st = "writing" => files'[child'[u].h].by \in Threads
           Goal == C1 /\ C2 /\ C3 /\ C4
<1>0. /\ pc = [t \in Threads |-> pc[t]] /\ child = [t \in Threads |-> child[t]]
      /\ files = [h \in Handlers |-> files[h]]
  BY DEF IInv, TypeOK, ThreadsOK, ChildrenOK
<1>i. /\ Alive /\ pc[u] = "clone" => g_crash_context_ = u
      /\ child[u].st # None => pc[u] \in {"allow", "continue", "waitpid", "stuck", "old"}
      /\ child[u].st \in Working => child[u].h \in Handlers /\ child[u].tid = u
      /\ child[u].tid \in {None, u}
      /\ child[u].st = "writing" => files[child[u].h].by \in Threads
  BY DEF IInv, Contexts
<1>k. UNCHANGED <<child, files>> => C3 /\ C4
  BY <1>i
<1>u. CASE UNCHANGED <<pc, g_crash_context_, child, files, fate>>
  BY <1>i, <1>u DEF Alive
<1>1. ASSUME NEW t \in Threads, NEW h \in Handlers, Construct(t, h) \/ Destroy(t, h) PROVE Goal
  <2>1. pc[u] # "clone"
    BY <1>1, NobodyInLoop DEF Construct, Destroy, Running, Busy
  <2>2. UNCHANGED <<pc, child, files>>
    BY <1>1 DEF Construct, Destroy
  <2> QED
    BY <1>i, <2>1, <2>2
<1>2. CASE Kill \/ \E s \in Signals : LoseSigInfo(s)
  BY <1>i, <1>2 DEF Kill, LoseSigInfo, Alive
<1>3. ASSUME NEW t \in Threads, Crash(t) \/ OldHandlerEnds(t) \/ Deliver(t) \/ RepairSigInfo(t)
               \/ LockHandlers(t) \/ SecondSignal(t)
      PROVE  Goal
  <2>1. /\ UNCHANGED <<g_crash_context_, child, files>> /\ Alive
        /\ \/ pc' = pc
           \/ /\ pc[t] \in {"run", "signal", "lock"}
              /\ \E l \in {"signal", "old", "lock", "run", "offer", "stuck"} : Goto(t, l)
           \/ \E l \in {"old", "stuck"} : Goto(t, l)
    BY <1>3 DEF Crash, OldHandlerEnds, Deliver, RepairSigInfo, LockHandlers, SecondSignal, Strike,
                Running
  <2>2. \/ pc'[u] = pc[u]
        \/ u = t /\ pc'[u] \in {"old", "stuck"}
        \/ /\ u = t /\ pc[u] \in {"run", "signal", "lock"}
           /\ pc'[u] \in {"signal", "old", "lock", "run", "offer", "stuck"}
    BY <1>0, <2>1 DEF Goto
  <2> QED
    BY <1>i, <2>1, <2>2
<1>4. ASSUME NEW t \in Threads, HandleSignal(t) PROVE Goal
  <2>1. u # t => pc[u] # "clone"
    BY <1>4, InLoop DEF HandleSignal, Running, Busy
  <2>2. /\ UNCHANGED <<child, files>> /\ pc[t] = "offer"
        /\ g_crash_context_' = t /\ pc' = [pc EXCEPT ![t] = "clone"]
    BY <1>4 DEF HandleSignal, Goto
  <2> QED
    BY <1>0, <1>i, <2>1, <2>2
<1>5. ASSUME NEW t \in Threads, CloneFails(t) PROVE Goal
  <2>1. /\ UNCHANGED <<g_crash_context_, child, files>> /\ Alive /\ pc[t] = "clone"
        /\ \/ pc' = pc /\ fate' # "alive"
           \/ \E l \in {"signal", "offer", "run"} : Goto(t, l)
    BY <1>5 DEF CloneFails, NextInstance, Conclude, Retrigger, Running
  <2>2. pc'[u] = pc[u] \/ (u = t /\ pc'[u] \in {"signal", "offer", "run"})
    BY <1>0, <2>1 DEF Goto
  <2> QED
    BY <1>i, <2>1, <2>2
<1>6. ASSUME NEW t \in Threads, Clone(t) PROVE Goal
  <2>1. /\ Alive /\ pc[t] = "clone" /\ pc' = [pc EXCEPT ![t] = "allow"]
        /\ UNCHANGED <<g_crash_context_, files>>
        /\ g_crash_context_ = t
    BY <1>6 DEF Clone, Running, Goto, IInv, Contexts
  <2>2. Instance(t) \in Handlers
    BY <1>6, InLoop DEF Clone, Busy, Running
  <2>3. PICK ok \in BOOLEAN :
          child' = [child EXCEPT ![t] = [st |-> "born", h |-> Instance(t), tid |-> g_crash_context_,
                                         pipe |-> ok, byte |-> FALSE, writeEnd |-> ok]]
    BY <1>6 DEF Clone
  <2>4. CASE u = t
    BY <1>0, <2>1, <2>2, <2>3, <2>4
  <2>5. CASE u # t
    BY <1>0, <1>i, <2>1, <2>3, <2>5
  <2> QED
    BY <2>4, <2>5
<1>7. ASSUME NEW t \in Threads, AllowChild(t) PROVE Goal
  <2>1. /\ UNCHANGED <<g_crash_context_, child, files>> /\ Alive
        /\ pc[t] = "allow" /\ pc' = [pc EXCEPT ![t] = "continue"]
    BY <1>7 DEF AllowChild, Running, Goto
  <2> QED
    BY <1>0, <1>i, <2>1
<1>8. ASSUME NEW t \in Threads, SendContinueSignalToChild(t) PROVE Goal
  <2>1. /\ UNCHANGED <<g_crash_context_, files>> /\ Alive
        /\ pc[t] = "continue" /\ pc' = [pc EXCEPT ![t] = "waitpid"]
        /\ child' = [child EXCEPT ![t].byte = child[t].pipe]
    BY <1>8 DEF SendContinueSignalToChild, Running, Goto
  <2>2. child'[u].st = child[u].st /\ child'[u].h = child[u].h /\ child'[u].tid = child[u].tid
    BY <1>0, <2>1 DEF IInv, TypeOK, ChildrenOK, Children
  <2> QED
    BY <1>0, <1>i, <2>1, <2>2
<1>9. ASSUME NEW t \in Threads, WaitpidReturns(t) PROVE Goal
  <2>1. /\ UNCHANGED <<g_crash_context_, files>> /\ Alive /\ pc[t] = "waitpid"
        /\ child' = [child EXCEPT ![t] = NoChild]
        /\ pc' = pc \/ \E l \in {"signal", "offer", "run"} : Goto(t, l)
    BY <1>9 DEF WaitpidReturns, NextInstance, Conclude, Retrigger, Running
  <2>2. pc'[u] = pc[u] \/ (u = t /\ pc'[u] \in {"signal", "offer", "run"})
    BY <1>0, <2>1 DEF Goto
  <2>3. u # t => child'[u] = child[u]
    BY <1>0, <2>1
  <2>4. u = t => child'[u].st = None /\ child'[u].tid = None
    BY <1>0, <2>1 DEF NoChild, ChildAt
  <2> QED
    BY <1>i, <2>1, <2>2, <2>3, <2>4 DEF Working, None
<1>c. ASSUME NEW t \in Threads, NEW c, child' = [child EXCEPT ![t] = c],
             UNCHANGED <<pc, g_crash_context_, fate>>, child[t].st # None,
             \/ c.st \in Working /\ child[t].st \in Working /\ c.h = child[t].h /\ c.tid = child[t].tid
             \/ c.st \in {"ok", "failed"} /\ c.tid = None,
             c.st = "writing" => files'[c.h].by \in Threads,
             \A h \in Handlers : files[h].by \in Threads => files'[h].by \in Threads
      PROVE  Goal
  <2>1. CASE u = t
    <3>1. child'[u] = c
      BY <1>0, <1>c, <2>1
    <3> QED
      BY <1>i, <1>c, <2>1, <3>1 DEF Alive, Working
  <2>2. CASE u # t
    <3>1. child'[u] = child[u]
      BY <1>0, <1>c, <2>2
    <3> QED
      BY <1>i, <1>c, <2>2, <3>1 DEF Alive, Working
  <2> QED
    BY <2>1, <2>2
<1>10. ASSUME NEW t \in Threads, Dump(t) \/ KillChild(t) PROVE Goal
  <2>0. UNCHANGED <<pc, g_crash_context_, fate>> /\ child[t].st # None
    BY <1>10 DEF Dump, ThreadEntry, WaitForContinueSignal, AttachThreads, OpenFile, WriteDump,
                 KillChild, Working, ChildStep, world, None
  <2>r. child[t] \in Children
    BY DEF IInv, TypeOK, ChildrenOK
  <2>f. ChildAt("failed").st = "failed" /\ ChildAt("failed").tid = None
        /\ ChildAt("ok").st = "ok" /\ ChildAt("ok").tid = None
    BY DEF ChildAt
  <2>1. CASE ThreadEntry(t)
    <3> DEFINE c == [[child[t] EXCEPT !.st = "blocked"] EXCEPT !.writeEnd = FALSE]
    <3>1. child' = [child EXCEPT ![t] = c] /\ UNCHANGED files /\ child[t].st \in Working
      BY <1>0, <2>1 DEF ThreadEntry, Working
    <3>2. c.st = "blocked" /\ c.h = child[t].h /\ c.tid = child[t].tid
      BY <2>r DEF Children
    <3> HIDE DEF c
    <3> QED
      BY <1>c, <2>0, <3>1, <3>2 DEF Working
  <2>2. CASE WaitForContinueSignal(t)
    <3> DEFINE c == [[child[t] EXCEPT !.st = "ready"] EXCEPT !.byte = FALSE]
    <3>1. child' = [child EXCEPT ![t] = c] /\ UNCHANGED files /\ child[t].st \in Working
      BY <1>0, <2>2 DEF WaitForContinueSignal, Working
    <3>2. c.st = "ready" /\ c.h = child[t].h /\ c.tid = child[t].tid
      BY <2>r DEF Children
    <3> HIDE DEF c
    <3> QED
      BY <1>c, <2>0, <3>1, <3>2 DEF Working
  <2>3. CASE AttachThreads(t)
    <3> DEFINE c == IF MayAttach(t) THEN [child[t] EXCEPT !.st = "attached", !.pipe = FALSE]
                                    ELSE ChildAt("failed")
    <3>1. child' = [child EXCEPT ![t] = c] /\ UNCHANGED files /\ child[t].st \in Working
      BY <1>0, <2>3 DEF AttachThreads, Working
    <3>2. \/ c.st = "attached" /\ c.h = child[t].h /\ c.tid = child[t].tid
          \/ c.st = "failed" /\ c.tid = None
      BY <2>r, <2>f DEF Children
    <3> HIDE DEF c
    <3> QED
      BY <1>c, <2>0, <3>1, <3>2 DEF Working
  <2>4. CASE OpenFile(t)
    <3>0. child[t].h \in Handlers /\ child[t].tid = t /\ child[t].st \in Working
      BY <2>4 DEF OpenFile, IInv, Contexts, Working
    <3>1. CASE files[child[t].h] = NoFile
      <4> DEFINE c == [child[t] EXCEPT !.st = "writing"]
      <4>1. child' = [child EXCEPT ![t] = c]
        BY <1>0, <2>4, <3>1 DEF OpenFile
      <4>2. c.st = "writing" /\ c.h = child[t].h /\ c.tid = child[t].tid
        BY <2>r DEF Children
      <4>3. files' = [files EXCEPT ![child[t].h] = [by |-> t, whole |-> FALSE]]
        BY <2>4, <3>0, <3>1 DEF OpenFile
      <4>4. \A h \in Handlers : files[h].by \in Threads => files'[h].by \in Threads
        BY <1>0, <4>3
      <4>5. files'[c.h].by \in Threads
        BY <1>0, <3>0, <4>2, <4>3
      <4> HIDE DEF c
      <4> QED
        BY <1>c, <2>0, <3>0, <4>1, <4>2, <4>4, <4>5 DEF Working
    <3>2. CASE files[child[t].h] # NoFile
      BY <1>c, <2>0, <2>4, <2>f, <3>2 DEF OpenFile, Working
    <3> QED
      BY <3>1, <3>2
  <2>5. CASE WriteDump(t)
    <3>1. \A h \in Handlers : files'[h].by = files[h].by
      <4>1. \A h \in Handlers : files[h] \in [by: Threads \cup {"nobody"}, whole: BOOLEAN]
        BY DEF IInv, TypeOK, ChildrenOK
      <4>2. CASE UNCHANGED files
        BY <4>2
      <4>3. CASE files' = [files EXCEPT ![child[t].h].whole = TRUE]
        <5>1. \A h \in Handlers : [files[h] EXCEPT !.whole = TRUE].by = files[h].by
          BY <4>1
        <5>2. files' = [h \in Handlers |-> IF h = child[t].h THEN [files[h] EXCEPT !.whole = TRUE]
                                                             ELSE files[h]]
          BY <1>0, <4>3
        <5> QED
          BY <5>1, <5>2
      <4> QED
        BY <2>5, <4>2, <4>3 DEF WriteDump
    <3> QED
      BY <1>c, <2>0, <2>5, <2>f, <3>1 DEF WriteDump, Working
  <2>6. CASE KillChild(t)
    BY <1>c, <2>0, <2>6, <2>f DEF KillChild, Working
  <2> QED
    BY <1>10, <2>1, <2>2, <2>3, <2>4, <2>5, <2>6 DEF Dump
<1>11. CASE UNCHANGED vars
  BY <1>u, <1>11 DEF vars, world
<1> QED
  BY <1>1, <1>2, <1>3, <1>4, <1>5, <1>6, <1>7, <1>8, <1>9, <1>10, <1>11 DEF Next, Handle

\* Whatever action takes place, a child gets the continue byte only after it may
\* attach.
LEMMA AllowedStep == IInv /\ [Next]_vars => Allowed'
<1> SUFFICES ASSUME IInv, [Next]_vars, Alive', NEW u \in Threads
             PROVE  /\ pc'[u] \in {"continue", "waitpid"} => ptracer' = u
                    /\ child'[u].byte \/ (child'[u].st = "ready" /\ child'[u].pipe) =>
                         pc'[u] \in {"waitpid", "stuck", "old"} /\ i'[u] # 0 /\ ptracer' = u
  BY DEF Allowed
<1> DEFINE Goal == /\ pc'[u] \in {"continue", "waitpid"} => ptracer' = u
                   /\ child'[u].byte \/ (child'[u].st = "ready" /\ child'[u].pipe) =>
                        pc'[u] \in {"waitpid", "stuck", "old"} /\ i'[u] # 0 /\ ptracer' = u
<1>0. /\ pc = [t \in Threads |-> pc[t]] /\ child = [t \in Threads |-> child[t]]
      /\ i = [t \in Threads |-> i[t]]
      /\ \A t \in Threads : child[t] \in Children
  BY DEF IInv, TypeOK, ThreadsOK, ChildrenOK
<1>i. Alive => /\ pc[u] \in {"continue", "waitpid"} => ptracer = u
               /\ child[u].byte \/ (child[u].st = "ready" /\ child[u].pipe) =>
                    pc[u] \in {"waitpid", "stuck", "old"} /\ i[u] # 0 /\ ptracer = u
  BY DEF IInv, Allowed
<1>u. CASE UNCHANGED <<pc, i, ptracer, child, fate>>
  BY <1>i, <1>u DEF Alive
<1>1. ASSUME NEW t \in Threads, NEW h \in Handlers, Construct(t, h) \/ Destroy(t, h) PROVE Goal
  BY <1>u, <1>1 DEF Construct, Destroy, world
<1>2. CASE Kill \/ \E s \in Signals : LoseSigInfo(s)
  BY <1>u, <1>2 DEF Kill, LoseSigInfo, Alive
<1>3. ASSUME NEW t \in Threads, Crash(t) \/ OldHandlerEnds(t) \/ Deliver(t) \/ RepairSigInfo(t)
               \/ LockHandlers(t) \/ HandleSignal(t) \/ CloneFails(t)
      PROVE  Goal
  <2>1. /\ UNCHANGED <<ptracer, child>> /\ Alive
        /\ \/ pc' = pc /\ i' = i
           \/ /\ pc[t] \in {"run", "signal", "lock", "offer", "clone"}
              /\ i' = i \/ \E n : i' = [i EXCEPT ![t] = n]
              /\ \E l \in {"signal", "old", "lock", "run", "offer", "clone", "stuck"} : Goto(t, l)
    BY <1>3 DEF Crash, OldHandlerEnds, Deliver, RepairSigInfo, LockHandlers, Strike, HandleSignal,
                CloneFails, NextInstance, Conclude, Retrigger, Running, Alive
  <2>2. \/ pc'[u] = pc[u] /\ i'[u] = i[u]
        \/ /\ u = t /\ pc[u] \in {"run", "signal", "lock", "offer", "clone"}
           /\ pc'[u] \in {"signal", "old", "lock", "run", "offer", "clone", "stuck"}
    BY <1>0, <2>1 DEF Goto
  <2> QED
    BY <1>i, <2>1, <2>2
<1>s. ASSUME NEW t \in Threads, SecondSignal(t) PROVE Goal
  <2>1. /\ UNCHANGED <<ptracer, child, i>> /\ Alive
        /\ pc' = pc \/ \E l \in {"stuck", "old"} : Goto(t, l)
    BY <1>s DEF SecondSignal, Strike, Running
  <2>2. pc'[u] = pc[u] \/ pc'[u] \in {"stuck", "old"}
    BY <1>0, <2>1 DEF Goto
  <2> QED
    BY <1>i, <2>1, <2>2
<1>4. ASSUME NEW t \in Threads, Clone(t) PROVE Goal
  <2>1. /\ UNCHANGED <<ptracer, i>> /\ Alive /\ pc' = [pc EXCEPT ![t] = "allow"]
    BY <1>4 DEF Clone, Running, Goto
  <2>2. PICK ok \in BOOLEAN :
          child' = [child EXCEPT ![t] = [st |-> "born", h |-> Instance(t), tid |-> g_crash_context_,
                                         pipe |-> ok, byte |-> FALSE, writeEnd |-> ok]]
    BY <1>4 DEF Clone
  <2>3. CASE u = t
    BY <1>0, <2>1, <2>2, <2>3
  <2>4. CASE u # t
    BY <1>0, <1>i, <2>1, <2>2, <2>4
  <2> QED
    BY <2>3, <2>4
<1>5. ASSUME NEW t \in Threads, AllowChild(t) PROVE Goal
  <2>1. /\ ptracer' = t /\ UNCHANGED <<child, i>> /\ Alive
        /\ pc[t] = "allow" /\ pc' = [pc EXCEPT ![t] = "continue"]
    BY <1>5 DEF AllowChild, Running, Goto
  <2>2. u # t => pc[u] \notin Busy /\ i[u] = 0
    BY <2>1, InLoop DEF Busy, IInv, Exclusive
  <2> QED
    BY <1>0, <1>i, <2>1, <2>2 DEF Busy
<1>6. ASSUME NEW t \in Threads, SendContinueSignalToChild(t) PROVE Goal
  <2>1. /\ UNCHANGED <<ptracer, i>> /\ Alive
        /\ pc[t] = "continue" /\ pc' = [pc EXCEPT ![t] = "waitpid"]
        /\ child' = [child EXCEPT ![t] = [child[t] EXCEPT !.byte = child[t].pipe]]
    BY <1>0, <1>6 DEF SendContinueSignalToChild, Running, Goto
  <2>2. CASE u = t
    <3>1. i[u] # 0
      BY <2>1, <2>2, InLoop DEF Busy
    <3> QED
      BY <1>0, <1>i, <2>1, <2>2, <3>1
  <2>3. CASE u # t
    BY <1>0, <1>i, <2>1, <2>3
  <2> QED
    BY <2>2, <2>3
<1>7. ASSUME NEW t \in Threads, WaitpidReturns(t) PROVE Goal
  <2>1. /\ UNCHANGED ptracer /\ Alive /\ pc[t] = "waitpid"
        /\ child' = [child EXCEPT ![t] = NoChild]
        /\ \E l \in {"signal", "offer", "run"} : Goto(t, l)
        /\ \E n : i' = [i EXCEPT ![t] = n]
    BY <1>7 DEF WaitpidReturns, NextInstance, Conclude, Retrigger, Running, Alive
  <2>2. CASE u = t
    <3>1. pc'[u] \in {"signal", "offer", "run"} /\ child'[u] = NoChild
      BY <1>0, <2>1, <2>2 DEF Goto
    <3> QED
      BY <3>1 DEF NoChild, ChildAt
  <2>3. CASE u # t
    <3>1. pc'[u] = pc[u] /\ child'[u] = child[u] /\ i'[u] = i[u]
      BY <1>0, <2>1, <2>3 DEF Goto
    <3> QED
      BY <1>i, <2>1, <3>1
  <2> QED
    BY <2>2, <2>3
<1>c. ASSUME NEW t \in Threads, NEW c, child' = [child EXCEPT ![t] = c],
             UNCHANGED <<pc, i, ptracer, fate>>,
             c.byte => child[t].byte,
             c.st = "ready" /\ c.pipe => child[t].byte
      PROVE  Goal
  <2>1. child'[u] = child[u] \/ (u = t /\ child'[u] = c)
    BY <1>0, <1>c
  <2> QED
    BY <1>i, <1>c, <2>1 DEF Alive
<1>8. ASSUME NEW t \in Threads, Dump(t) \/ KillChild(t) PROVE Goal
  <2>0. UNCHANGED <<pc, i, ptracer, fate>> /\ Alive
    BY <1>8 DEF Dump, ThreadEntry, WaitForContinueSignal, AttachThreads, OpenFile, WriteDump,
                KillChild, ChildStep, world, Alive
  <2>f. \A st \in {"ok", "failed"} : ChildAt(st).byte = FALSE /\ ChildAt(st).st = st
    BY DEF ChildAt
  <2>1. CASE ThreadEntry(t)
    <3> DEFINE c == [[child[t] EXCEPT !.st = "blocked"] EXCEPT !.writeEnd = FALSE]
    <3>1. child' = [child EXCEPT ![t] = c]
      BY <1>0, <2>1 DEF ThreadEntry
    <3>2. c.st = "blocked" /\ c.byte = child[t].byte
      BY <1>0 DEF Children
    <3> HIDE DEF c
    <3> QED
      BY <1>c, <2>0, <3>1, <3>2
  <2>2. CASE WaitForContinueSignal(t)
    <3> DEFINE c == [[child[t] EXCEPT !.st = "ready"] EXCEPT !.byte = FALSE]
    <3>1. child' = [child EXCEPT ![t] = c] /\ (child[t].pipe => child[t].byte)
      BY <1>0, <2>0, <2>2 DEF WaitForContinueSignal
    <3>2. c.byte = FALSE /\ c.pipe = child[t].pipe
      BY <1>0 DEF Children
    <3> HIDE DEF c
    <3> QED
      BY <1>c, <2>0, <3>1, <3>2
  <2>3. CASE AttachThreads(t)
    <3> DEFINE c == IF MayAttach(t) THEN [child[t] EXCEPT !.st = "attached", !.pipe = FALSE]
                                    ELSE ChildAt("failed")
    <3>1. child' = [child EXCEPT ![t] = c]
      BY <1>0, <2>3 DEF AttachThreads
    <3>2. c.st # "ready" /\ (c.byte => child[t].byte)
      BY <1>0, <2>f DEF Children
    <3> HIDE DEF c
    <3> QED
      BY <1>c, <2>0, <3>1, <3>2
  <2>4. CASE OpenFile(t)
    <3> DEFINE c == [child[t] EXCEPT !.st = "writing"]
    <3>1. child' = [child EXCEPT ![t] = c] \/ child' = [child EXCEPT ![t] = ChildAt("failed")]
      BY <1>0, <2>4 DEF OpenFile
    <3>2. c.st = "writing" /\ c.byte = child[t].byte
      BY <1>0 DEF Children
    <3> HIDE DEF c
    <3> QED
      BY <1>c, <2>0, <2>f, <3>1, <3>2
  <2>5. CASE WriteDump(t) \/ KillChild(t)
    BY <1>c, <2>0, <2>f, <2>5 DEF WriteDump, KillChild
  <2> QED
    BY <1>8, <2>1, <2>2, <2>3, <2>4, <2>5 DEF Dump
<1>9. CASE UNCHANGED vars
  BY <1>u, <1>9 DEF vars, world
<1> QED
  BY <1>1, <1>2, <1>3, <1>4, <1>5, <1>6, <1>7, <1>8, <1>9, <1>s DEF Next, Handle

\* Whatever action takes place, a signal has its default action, or a thread
\* waits for an empty instance stack, only when that is excused.
LEMMA DispositionsStep == IInv /\ [Next]_vars => Dispositions'
<1> SUFFICES ASSUME IInv, [Next]_vars PROVE Dispositions'
  OBVIOUS
<1> DEFINE D1 == \A s \in Signals : disp'[s] \in {"noinfo", "narrow"} => lost' > 0
           D2 == \A s \in Signals : disp'[s] = "default" => Excused'
           D3 == handlers_installed' => \A s \in Signals : old_handlers'[s] = "default" => Excused'
           D4 == g_handler_stack_' = << >> /\ ~Disturbed' =>
                   /\ \A s \in Signals : disp'[s] \notin Breakpads
                   /\ \A t \in Threads : pc'[t] # "lock"
           D5 == \A t \in Threads : pc'[t] = "old" => t \in told'
           D6 == \A t \in Threads : entered'[t] # "breakpad" \/ pc'[t] = "stuck" => lost' > 0
           Goal == D1 /\ D2 /\ D3 /\ D4 /\ D5 /\ D6
<1>g. (Disturbed => Disturbed') /\ (Excused => Excused') /\ (Disturbed' => Excused')
  BY ExcusesGrow DEF Excused
<1>0. /\ pc = [t \in Threads |-> pc[t]] /\ disp = [s \in Signals |-> disp[s]]
      /\ \A t \in Threads : sig[t] \in Signals
      /\ \A s \in Signals : old_handlers[s] \in {"old", "default"}
      /\ lost \in Nat /\ g_handler_stack_ \in Seq(Handlers)
      /\ handlers_installed \in BOOLEAN
      /\ life = [h \in Handlers |-> life[h]]
      /\ entered = [t \in Threads |-> entered[t]]
  <2>1. TypeOK /\ MaxLost \in Nat
    BY HandlerAssumption DEF IInv
  <2>2. lost \in Nat
    BY <2>1 DEF TypeOK, WorldOK
  <2> QED
    BY <2>1, <2>2 DEF TypeOK, ThreadsOK, InstallationOK
<1>i. Dispositions
  BY DEF IInv
<1> USE DEF Dispositions
\* What an action has to show when it touches neither the instances nor old_handlers.
<1>u. ASSUME UNCHANGED <<lost, old_handlers, g_handler_stack_>>,
             told \subseteq told',
             handlers_installed' => handlers_installed,
             \A s \in Signals : \/ disp'[s] = disp[s]
                                \/ disp'[s] = "old"
                                \/ disp'[s] = "default" /\ Excused'
                                \/ disp'[s] = "narrow" /\ lost > 0,
             \A t \in Threads : \/ pc'[t] # "lock"
                                \/ pc[t] = "lock"
                                \/ \E s \in Signals : disp[s] \in Breakpads,
             \A t \in Threads : pc'[t] = "old" => pc[t] = "old" \/ t \in told',
             \A t \in Threads : entered'[t] \in {entered[t], "breakpad"} \/ lost > 0,
             \A t \in Threads : pc'[t] = "stuck" => pc[t] = "stuck" \/ lost > 0
      PROVE  Goal
  <2>1. D1
    BY <1>i, <1>u
  <2>2. D2 /\ D3
    BY <1>i, <1>u, <1>g
  <2>3. D4
    BY <1>i, <1>u, <1>g DEF Disturbed, Breakpads
  <2>4. D5
    BY <1>i, <1>u
  <2>5. D6
    BY <1>i, <1>u
  <2> QED
    BY <2>1, <2>2, <2>3, <2>4, <2>5
<1>1. ASSUME NEW t \in Threads, NEW h \in Handlers, Construct(t, h) PROVE Goal
  <2>1. UNCHANGED <<pc, entered, lost, told>>
    BY <1>1 DEF Construct, signal, world
  <2>2. g_handler_stack_' # << >>
    BY <1>0, <1>1 DEF Construct
  <2>3. D1 /\ D2 /\ D3
    <3>1. CASE handlers_installed
      BY <1>1, <1>i, <1>g, <2>1, <3>1 DEF Construct, InstallHandlersLocked
    <3>2. CASE ~handlers_installed
      BY <1>1, <1>i, <1>g, <2>1, <3>2 DEF Construct, InstallHandlersLocked
    <3> QED
      BY <3>1, <3>2
  <2> QED
    BY <1>i, <2>1, <2>2, <2>3
<1>2. ASSUME NEW t \in Threads, NEW h \in Handlers, Destroy(t, h) PROVE Goal
  <2>1. UNCHANGED <<old_handlers, pc, entered, lost, told>> /\ life'[h] = "gone"
    BY <1>0, <1>2 DEF Destroy, signal, world
  <2>2. Disturbed' /\ Excused'
    BY <1>g, <2>1 DEF Disturbed
  <2>3. \A s \in Signals : disp'[s] = disp[s] \/ disp'[s] \in {"old", "default"}
    BY <1>0, <1>2 DEF Destroy, RestoreHandlersLocked
  <2> QED
    BY <1>i, <2>1, <2>2, <2>3
<1>3. CASE Kill
  BY <1>3, <1>u DEF Kill, installation, signal
<1>4. ASSUME NEW s \in Signals, LoseSigInfo(s) PROVE Goal
  <2>1. /\ UNCHANGED <<old_handlers, handlers_installed, g_handler_stack_, pc, told>>
        /\ lost' > 0 /\ disp' = [disp EXCEPT ![s] = "noinfo"]
    BY <1>0, <1>4 DEF LoseSigInfo, installation
  <2>2. Disturbed' /\ Excused'
    BY <1>g, <2>1 DEF Disturbed
  <2> QED
    BY <1>0, <1>i, <2>1, <2>2
<1>5. ASSUME NEW t \in Threads, Crash(t) \/ OldHandlerEnds(t) PROVE Goal
  <2>1. UNCHANGED <<disp, installation, lost, told, entered>>
    BY <1>5 DEF Crash, OldHandlerEnds, signal, world
  <2>2. \A v \in Threads : pc'[v] = pc[v] \/ pc'[v] = "signal"
    BY <1>0, <1>5 DEF Crash, OldHandlerEnds, Goto
  <2> QED
    BY <1>u, <2>1, <2>2 DEF installation
<1>s. ASSUME NEW t \in Threads, LockHandlers(t) \/ SecondSignal(t) PROVE Goal
  <2>1. UNCHANGED <<disp, installation, lost, entered>> /\ told \subseteq told'
    BY <1>s DEF LockHandlers, SecondSignal, Strike, signal
  <2>2. \A v \in Threads : \/ pc'[v] = pc[v]
                           \/ pc'[v] = "offer"
                           \/ v = t /\ pc'[v] = "old" /\ v \in told'
                           \/ v = t /\ pc'[v] = "stuck" /\ entered[t] # "breakpad"
    BY <1>0, <1>s DEF LockHandlers, SecondSignal, Strike, Bogus, Goto
  <2>3. entered[t] # "breakpad" => lost > 0
    BY <1>i
  <2> QED
    BY <1>u, <2>1, <2>2, <2>3 DEF installation
<1>6. ASSUME NEW t \in Threads, Deliver(t) PROVE Goal
  <2>1. UNCHANGED <<disp, installation, lost>> /\ told \subseteq told' /\ sig[t] \in Signals
    BY <1>0, <1>6 DEF Deliver
  <2>2. \A v \in Threads : \/ pc'[v] = pc[v]
                           \/ pc'[v] = "old" /\ v \in told'
                           \/ pc'[v] = "lock" /\ disp[sig[t]] \notin {"default", "old"}
    BY <1>0, <1>6 DEF Deliver, Goto
  <2>3. disp[sig[t]] \in Breakpads \cup {"old", "default"}
    BY <2>1 DEF IInv, TypeOK, InstallationOK
  <2>4. \A v \in Threads : \/ entered'[v] = entered[v]
                           \/ /\ entered'[v] = disp[sig[t]]
                              /\ disp[sig[t]] \notin {"default", "old"}
    BY <1>0, <1>6 DEF Deliver
  <2>5. \A v \in Threads : entered'[v] \in {entered[v], "breakpad"} \/ lost > 0
    BY <1>i, <2>1, <2>3, <2>4 DEF Breakpads
  <2> QED
    BY <1>u, <2>1, <2>2, <2>3, <2>5 DEF installation
<1>7. ASSUME NEW t \in Threads, RepairSigInfo(t) PROVE Goal
  <2>1. UNCHANGED <<installation, lost, told>> /\ disp[sig[t]] = "noinfo" /\ sig[t] \in Signals
    BY <1>0, <1>7 DEF RepairSigInfo
  <2>2. \A v \in Threads : pc'[v] = pc[v] \/ pc'[v] \in {"signal", "run"}
    BY <1>0, <1>7 DEF RepairSigInfo, Goto
  <2>3. lost > 0 /\ Excused'
    BY <1>i, <1>g, <2>1 DEF Disturbed
  <2>4. \A s \in Signals : disp'[s] = disp[s] \/ disp'[s] \in {"narrow", "default"}
    BY <1>0, <1>7 DEF RepairSigInfo
  <2>5. \A v \in Threads : entered'[v] \in {entered[v], "breakpad"}
    BY <1>0, <1>7 DEF RepairSigInfo, Leave
  <2> QED
    BY <1>u, <2>1, <2>2, <2>3, <2>4, <2>5 DEF installation
<1>8. ASSUME NEW t \in Threads,
             HandleSignal(t) \/ Clone(t) \/ AllowChild(t) \/ SendContinueSignalToChild(t)
      PROVE  Goal
  <2>1. UNCHANGED <<disp, installation, lost, told, entered>>
    BY <1>8 DEF HandleSignal, Clone, AllowChild, SendContinueSignalToChild, signal, world
  <2>2. \A v \in Threads : pc'[v] = pc[v] \/ pc'[v] \in {"clone", "allow", "continue", "waitpid"}
    BY <1>0, <1>8 DEF HandleSignal, Clone, AllowChild, SendContinueSignalToChild, Goto
  <2> QED
    BY <1>u, <2>1, <2>2 DEF installation
<1>9. ASSUME NEW t \in Threads, CloneFails(t) \/ WaitpidReturns(t) PROVE Goal
  <2>1. /\ UNCHANGED <<old_handlers, g_handler_stack_, lost, told>>
        /\ NextInstance(t) \/ (Conclude(t, TRUE) /\ claimed' # {})
    BY <1>9 DEF CloneFails, WaitpidReturns
  <2>2. \A v \in Threads : pc'[v] = pc[v] \/ pc'[v] \in {"signal", "offer", "run"}
    BY <1>0, <2>1 DEF NextInstance, Conclude, Retrigger, Goto
  <2>e. \A v \in Threads : entered'[v] \in {entered[v], "breakpad"}
    BY <1>0, <2>1 DEF NextInstance, Conclude, Leave
  <2>3. handlers_installed' => handlers_installed
    BY <2>1 DEF NextInstance, Conclude, RestoreHandlersLocked
  <2>4. \A s \in Signals : \/ disp'[s] = disp[s]
                           \/ handlers_installed /\ disp'[s] = old_handlers[s]
                           \/ disp'[s] = "default" /\ claimed' # {}
    BY <1>0, <2>1 DEF NextInstance, Conclude, RestoreHandlersLocked
  <2>5. \A s \in Signals : \/ disp'[s] = disp[s]
                           \/ disp'[s] = "old"
                           \/ disp'[s] = "default" /\ Excused'
    BY <1>0, <1>i, <1>g, <2>4 DEF Excused
  <2> QED
    BY <1>u, <2>1, <2>2, <2>3, <2>5, <2>e
<1>10. ASSUME NEW t \in Threads, Dump(t) \/ KillChild(t) PROVE Goal
  <2>1. UNCHANGED <<disp, installation, lost, told, pc, entered>>
    BY <1>10 DEF Dump, ThreadEntry, WaitForContinueSignal, AttachThreads, OpenFile, WriteDump,
                 KillChild, ChildStep, signal, world
  <2> QED
    BY <1>u, <2>1 DEF installation
<1>11. CASE UNCHANGED vars
  BY <1>u, <1>11 DEF vars, installation, signal, world
<1>12. Goal
  BY <1>1, <1>2, <1>3, <1>4, <1>5, <1>6, <1>7, <1>8, <1>9, <1>10, <1>11, <1>s DEF Next, Handle
<1> QED
  BY <1>12

\* Every step keeps the invariant.
LEMMA Inductive == IInv /\ [Next]_vars => IInv'
BY InstallationStep, ThreadsStep, ContextStep, ChildrenStep, WorldStep,
   ExclusiveStep, ContextsStep, AllowedStep, DispositionsStep DEF IInv, TypeOK

\* The invariant holds throughout.
THEOREM Invariant == Spec => []IInv
BY InitIInv, Inductive, PTL DEF Spec

\* The shared state of SignalHandler, GenerateDump and the child processes stays
\* well formed; a loop index never points past g_handler_stack_.
THEOREM TypeCorrect == Spec => []TypeOK
<1>1. IInv => TypeOK
  BY DEF IInv
<1> QED
  BY <1>1, Invariant, PTL

\* However many threads crash at once, a minidump blames the thread that made it:
\* the mutex of SignalHandler protects the one global crash context.
THEOREM DumpsBlameTheirThread == Spec => []DumpBlamesItsThread
<1>1. IInv => DumpBlamesItsThread
  BY DEF IInv, Contexts, DumpBlamesItsThread
<1> QED
  BY <1>1, Invariant, PTL

\* The mask that InstallHandlersLocked gives to SignalHandler keeps its thread from
\* entering it twice: no thread waits for the mutex that it holds itself, as long
\* as nobody has lost SA_SIGINFO and with it the mask.
THEOREM NoSelfDeadlock == Spec => [](lost = 0 => \A t \in Threads : pc[t] # "stuck")
<1>1. IInv => (lost = 0 => \A t \in Threads : pc[t] # "stuck")
  <2>1. ~(0 > 0)
    OBVIOUS
  <2> QED
    BY <2>1 DEF IInv, Dispositions
<1> QED
  BY <1>1, Invariant, PTL

\* The pipe of GenerateDump keeps a child from attaching before it may.
THEOREM ContinueIsAllowed == Spec => []ContinueMeansAllowed
<1>1. IInv => ContinueMeansAllowed
  BY DEF IInv, Allowed, ContinueMeansAllowed
<1> QED
  BY <1>1, Invariant, PTL

---------------------------------------------------------------------------
(* SignalHandler and its children implement CrashCapture.                  *)

Crashing == {t \in Threads : pc[t] # "run"}

\* Every step of the detailed handler is a step of the abstract one, or changes
\* nothing that the abstract one sees.
LEMMA CaptureStep == IInv /\ [Next]_vars => [Capture!Next]_(Capture!vars)
<1> SUFFICES ASSUME IInv, [Next]_vars PROVE [Capture!Next]_(Capture!vars)
  OBVIOUS
<1> DEFINE Goal == [Capture!Next]_(Capture!vars)
<1>0. /\ pc = [t \in Threads |-> pc[t]] /\ life = [h \in Handlers |-> life[h]]
      /\ \A t \in Threads : sig[t] \in Signals
      /\ disp = [s \in Signals |-> disp[s]]
  BY DEF IInv, TypeOK, ThreadsOK, InstallationOK
<1>s. ASSUME UNCHANGED <<fate, files, claimed, told>>, Crashing' = Crashing, Disturbed' = Disturbed
      PROVE  Goal
  BY <1>s DEF Capture!vars, Crashing, Disturbed
\* The ways in which the process ends.
<1>e. ASSUME Alive, UNCHANGED <<files, claimed, told>>, Crashing' = Crashing, Disturbed' = Disturbed,
             \/ fate' = "killed"
             \/ fate' = "old" /\ told # {}
             \/ fate' = "default" /\ Crashing # {} /\ Excused
             \/ fate' = "null" /\ Crashing # {} /\ Disturbed
             \/ fate' = "exit" /\ Crashing # {}
      PROVE  Goal
  BY <1>e DEF Capture!Next, Capture!End, Crashing, Disturbed, Excused, Alive
<1>d. ASSUME UNCHANGED <<life, lost>> PROVE Disturbed' = Disturbed
  BY <1>d DEF Disturbed
<1>m. ASSUME NEW t \in Threads, pc[t] # "run", NEW l, l # "run", Goto(t, l)
      PROVE  Crashing' = Crashing
  BY <1>0, <1>m DEF Goto, Crashing
<1>p. ASSUME UNCHANGED pc PROVE Crashing' = Crashing
  BY <1>p DEF Crashing
\* A signal that strikes a thread in the handler.
<1>k. ASSUME NEW t \in Threads, NEW s, Alive, pc[t] # "run", lost > 0, Strike(t, s),
             UNCHANGED <<files, claimed, life, lost>>
      PROVE  Goal
  <2>1. Disturbed /\ Excused /\ Disturbed' = Disturbed /\ t \in Crashing
    BY <1>d, <1>k DEF Disturbed, Excused, Crashing
  <2>2. CASE fate' = "default" /\ UNCHANGED <<pc, told>>
    BY <1>e, <1>p, <1>k, <2>1, <2>2
  <2>3. CASE told' = told \cup {t} /\ Goto(t, "old") /\ UNCHANGED fate
    <3>1. Crashing' = Crashing
      BY <1>m, <1>k, <2>3
    <3>2. Capture!Tell(t)
      BY <1>k, <2>1, <2>3, <3>1 DEF Capture!Tell, Crashing, Disturbed, Alive
    <3> QED
      BY <3>2 DEF Capture!Next
  <2>4. CASE Goto(t, "stuck") /\ UNCHANGED <<told, fate>>
    BY <1>s, <1>m, <1>k, <2>1, <2>4
  <2> QED
    BY <1>k, <2>2, <2>3, <2>4 DEF Strike
<1>b. \A t \in Threads : entered[t] # "breakpad" => lost > 0
  BY DEF IInv, Dispositions
<1>1. ASSUME NEW t \in Threads, NEW h \in Handlers, Construct(t, h) PROVE Goal
  <2>1. UNCHANGED <<fate, files, claimed, told, pc, lost>>
    BY <1>1 DEF Construct, world
  <2>2. \A g \in Handlers : life'[g] = "gone" <=> life[g] = "gone"
    BY <1>0, <1>1 DEF Construct
  <2>3. Disturbed' = Disturbed
    BY <2>1, <2>2 DEF Disturbed
  <2> QED
    BY <1>s, <1>p, <2>1, <2>3
<1>2. ASSUME NEW t \in Threads, NEW h \in Handlers, Destroy(t, h) PROVE Goal
  <2>1. UNCHANGED <<fate, files, claimed, told, pc>> /\ life'[h] = "gone"
    BY <1>0, <1>2 DEF Destroy, world
  <2>2. Disturbed' = TRUE
    BY <2>1 DEF Disturbed
  <2> QED
    BY <2>1, <2>2 DEF Capture!Next, Capture!Disturb, Disturbed
<1>3. ASSUME NEW s \in Signals, LoseSigInfo(s) PROVE Goal
  <2>1. UNCHANGED <<fate, files, claimed, told, pc>> /\ lost' = lost + 1
    BY <1>3 DEF LoseSigInfo
  <2>2. MaxLost \in Nat
    BY HandlerAssumption
  <2>3. lost \in Nat
    BY <2>2 DEF IInv, TypeOK, WorldOK
  <2>4. Disturbed' = TRUE
    BY <2>1, <2>3 DEF Disturbed
  <2> QED
    BY <2>1, <2>4 DEF Capture!Next, Capture!Disturb, Disturbed
<1>4. CASE Kill
  BY <1>4, <1>e, <1>d, <1>p DEF Kill, installation
<1>5. ASSUME NEW t \in Threads, Crash(t) PROVE Goal
  <2>1. /\ UNCHANGED <<files, claimed, told, fate, life, lost>> /\ Alive
        /\ pc[t] = "run" /\ pc' = [pc EXCEPT ![t] = "signal"]
    BY <1>5 DEF Crash, Running, Goto, installation, world
  <2>2. t \notin Crashing /\ Crashing' = Crashing \cup {t} /\ Disturbed' = Disturbed
    BY <1>0, <1>d, <2>1 DEF Crashing
  <2>3. Capture!Crash(t)
    BY <2>1, <2>2 DEF Capture!Crash, Crashing, Disturbed, Alive
  <2> QED
    BY <2>3 DEF Capture!Next
<1>6. ASSUME NEW t \in Threads, OldHandlerEnds(t) PROVE Goal
  <2>1. /\ UNCHANGED <<files, claimed, told, pc, life, lost>> /\ Alive
        /\ fate' = "old" /\ pc[t] = "old"
    BY <1>6 DEF OldHandlerEnds, Running, installation
  <2>2. told # {}
    BY <2>1 DEF IInv, Dispositions
  <2> QED
    BY <1>e, <1>d, <1>p, <2>1, <2>2
<1>7. ASSUME NEW t \in Threads, Deliver(t) PROVE Goal
  <2>1. UNCHANGED <<files, claimed, life, lost>> /\ Alive /\ pc[t] = "signal" /\ t \in Crashing
    BY <1>7 DEF Deliver, Running, installation, Crashing
  <2>2. CASE disp[sig[t]] = "default"
    <3>1. fate' = "default" /\ UNCHANGED <<pc, told>>
      BY <1>7, <2>2 DEF Deliver
    <3>2. Excused
      BY <1>0, <2>2 DEF IInv, Dispositions
    <3> QED
      BY <1>e, <1>d, <1>p, <2>1, <3>1, <3>2
  <2>3. CASE disp[sig[t]] = "old"
    <3>1. told' = told \cup {t} /\ Goto(t, "old") /\ UNCHANGED fate
      BY <1>7, <2>3 DEF Deliver
    <3>2. Crashing' = Crashing /\ Disturbed' = Disturbed
      BY <1>d, <1>m, <2>1, <3>1
    <3>3. Capture!Tell(t)
      BY <2>1, <3>1, <3>2 DEF Capture!Tell, Crashing, Disturbed, Alive
    <3> QED
      BY <3>3 DEF Capture!Next
  <2>4. CASE disp[sig[t]] \notin {"default", "old"}
    <3>1. Goto(t, "lock") /\ UNCHANGED <<fate, told>>
      BY <1>7, <2>4 DEF Deliver
    <3> QED
      BY <1>s, <1>d, <1>m, <2>1, <3>1
  <2> QED
    BY <2>2, <2>3, <2>4
<1>8. ASSUME NEW t \in Threads, RepairSigInfo(t) PROVE Goal
  <2>1. /\ UNCHANGED <<files, claimed, told, life, lost>> /\ Alive /\ pc[t] = "lock"
        /\ t \in Crashing /\ disp[sig[t]] = "noinfo"
    BY <1>8 DEF RepairSigInfo, Running, installation, Crashing
  <2>2. Disturbed /\ Excused
    BY <1>0, <2>1 DEF IInv, Dispositions, Disturbed, Excused
  <2>3. CASE Goto(t, "signal") /\ UNCHANGED fate
    BY <1>s, <1>d, <1>m, <2>1, <2>3
  <2>4. CASE fate' = "default" /\ UNCHANGED pc
    BY <1>e, <1>d, <1>p, <2>1, <2>2, <2>4
  <2>5. CASE Goto(t, "run") /\ UNCHANGED fate
    <3>1. Crashing' = Crashing \ {t} /\ Disturbed' = Disturbed
      BY <1>0, <1>d, <2>1, <2>5 DEF Crashing, Goto
    <3>2. Capture!Drop(t)
      BY <2>1, <2>2, <2>5, <3>1 DEF Capture!Drop, Crashing, Disturbed
    <3> QED
      BY <3>2 DEF Capture!Next
  <2> QED
    BY <1>8, <2>3, <2>4, <2>5 DEF RepairSigInfo
<1>9. ASSUME NEW t \in Threads, LockHandlers(t) PROVE Goal
  <2>1. /\ UNCHANGED <<files, claimed, life, lost>> /\ Alive /\ pc[t] = "lock"
        /\ t \in Crashing
    BY <1>9 DEF LockHandlers, Running, installation, Crashing
  <2>2. CASE g_handler_stack_ = << >> /\ entered[t] = "breakpad"
    <3>1. Disturbed
      BY <2>1, <2>2 DEF IInv, Dispositions
    <3>2. fate' = "null" /\ UNCHANGED <<pc, told>>
      BY <1>9, <2>2 DEF LockHandlers
    <3> QED
      BY <1>e, <1>d, <1>p, <2>1, <3>1, <3>2
  <2>4. CASE g_handler_stack_ = << >> /\ entered[t] # "breakpad"
    <3>1. PICK s \in Faults : Strike(t, s)
      BY <1>9, <2>4 DEF LockHandlers
    <3> QED
      BY <1>k, <1>b, <2>1, <2>4, <3>1
  <2>3. CASE g_handler_stack_ # << >>
    <3>1. Goto(t, "offer") /\ UNCHANGED <<fate, told>>
      BY <1>9, <2>3 DEF LockHandlers
    <3> QED
      BY <1>s, <1>d, <1>m, <2>1, <3>1
  <2> QED
    BY <2>2, <2>3, <2>4
<1>15. ASSUME NEW t \in Threads, SecondSignal(t) PROVE Goal
  <2>1. /\ UNCHANGED <<files, claimed, life, lost>> /\ Alive /\ pc[t] # "run"
        /\ entered[t] # "breakpad"
    BY <1>15 DEF SecondSignal, Running, installation, Bogus
  <2>2. PICK s : Strike(t, s)
    BY <1>15 DEF SecondSignal
  <2> QED
    BY <1>k, <1>b, <2>1, <2>2
<1>10. ASSUME NEW t \in Threads,
              HandleSignal(t) \/ Clone(t) \/ AllowChild(t) \/ SendContinueSignalToChild(t)
       PROVE  Goal
  <2>1. /\ UNCHANGED <<fate, files, claimed, told, life, lost>> /\ pc[t] # "run"
        /\ \E l \in {"clone", "allow", "continue", "waitpid"} : Goto(t, l)
    BY <1>10 DEF HandleSignal, Clone, AllowChild, SendContinueSignalToChild, installation, world
  <2> QED
    BY <1>s, <1>d, <1>m, <2>1
<1>11. ASSUME NEW t \in Threads, CloneFails(t) \/ WaitpidReturns(t) PROVE Goal
  <2>1. /\ UNCHANGED <<files, told, life, lost>> /\ Alive /\ pc[t] # "run" /\ t \in Crashing
        /\ \/ UNCHANGED claimed
           \/ Instance(t) \in Claimers /\ claimed' = claimed \cup {Instance(t)}
    BY <1>11 DEF CloneFails, WaitpidReturns, Running, Crashing
  <2>2. \/ fate' = "exit" /\ UNCHANGED pc
        \/ UNCHANGED fate /\ \E l \in {"signal", "offer"} : Goto(t, l)
        \/ UNCHANGED fate /\ Goto(t, "run") /\ Bogus(t)
    BY <1>11 DEF CloneFails, WaitpidReturns, NextInstance, Conclude, Retrigger
  <2>3. Disturbed' = Disturbed
    BY <1>d, <2>1
  <2>m. \/ Crashing' = Crashing
        \/ Crashing' = Crashing \ {t} /\ Disturbed /\ UNCHANGED fate
    <3>1. CASE UNCHANGED fate /\ Goto(t, "run") /\ Bogus(t)
      <4>1. Crashing' = Crashing \ {t}
        BY <1>0, <3>1 DEF Goto, Crashing
      <4> QED
        BY <1>b, <3>1, <4>1 DEF Bogus, Disturbed
    <3> QED
      BY <1>m, <1>p, <2>1, <2>2, <3>1
  <2>4. CASE UNCHANGED claimed
    <3>1. CASE Crashing' = Crashing
      BY <1>s, <1>e, <2>1, <2>2, <2>3, <2>4, <3>1
    <3>2. CASE Crashing' = Crashing \ {t} /\ Disturbed /\ UNCHANGED fate
      <4>1. Capture!Drop(t)
        BY <2>1, <2>3, <2>4, <3>2 DEF Capture!Drop, Crashing, Disturbed
      <4> QED
        BY <4>1 DEF Capture!Next
    <3> QED
      BY <2>m, <3>1, <3>2
  <2>5. CASE Instance(t) \in Claimers /\ claimed' = claimed \cup {Instance(t)}
    <3>1. PICK h \in Handlers : h = Instance(t)
      BY <1>11, InLoop DEF CloneFails, WaitpidReturns, Busy, Running
    <3>2. fate' \in {"alive", "exit"}
      BY <2>1, <2>2 DEF Alive
    <3>3. Capture!Claim(h)
      BY <2>1, <2>3, <2>m, <2>5, <3>1, <3>2 DEF Capture!Claim, Crashing, Disturbed, Alive
    <3> QED
      BY <3>3 DEF Capture!Next
  <2> QED
    BY <2>1, <2>4, <2>5
<1>12. ASSUME NEW t \in Threads, Dump(t) \/ KillChild(t) PROVE Goal
  <2>1. UNCHANGED <<pc, life, fate, claimed, told, lost>>
    BY <1>12 DEF Dump, ThreadEntry, WaitForContinueSignal, AttachThreads, OpenFile, WriteDump,
                 KillChild, ChildStep, installation, world
  <2>2. Crashing' = Crashing /\ Disturbed' = Disturbed
    BY <1>d, <1>p, <2>1
  <2>3. CASE UNCHANGED files
    BY <1>s, <2>1, <2>2, <2>3
  <2>4. CASE OpenFile(t) /\ files[child[t].h] = NoFile
    <3>1. child[t].h \in Handlers /\ child[t].tid = t /\ t \in Crashing
      BY <2>4 DEF OpenFile, IInv, Contexts, Working, Crashing, None
    <3>2. Capture!Begin(child[t].h, t)
      BY <2>1, <2>2, <2>4, <3>1 DEF OpenFile, Capture!Begin, Capture!NoReport, Capture!Report,
                                    NoFile, Crashing, Disturbed
    <3> QED
      BY <3>1, <3>2 DEF Capture!Next
  <2>5. CASE child[t].st = "writing" /\ files' = [files EXCEPT ![child[t].h].whole = TRUE]
    <3>1. child[t].h \in Handlers /\ files[child[t].h].by \in Threads
      BY <2>5 DEF IInv, Contexts, Working
    <3>2. files[child[t].h] # Capture!NoReport
      BY <3>1, HandlerAssumption DEF Capture!NoReport
    <3>3. Capture!Finish(child[t].h)
      BY <2>1, <2>2, <2>5, <3>2 DEF Capture!Finish, Crashing, Disturbed
    <3> QED
      BY <3>1, <3>3 DEF Capture!Next
  <2> QED
    BY <1>12, <2>3, <2>4, <2>5 DEF Dump, ThreadEntry, WaitForContinueSignal, AttachThreads, OpenFile,
                                   WriteDump, KillChild
<1>13. CASE UNCHANGED vars
  BY <1>s, <1>d, <1>p, <1>13 DEF vars, installation, world
<1>14. Goal
  BY <1>1, <1>2, <1>3, <1>4, <1>5, <1>6, <1>7, <1>8, <1>9, <1>10, <1>11, <1>12, <1>13, <1>15
     DEF Next, Handle
<1> QED
  BY <1>14

\* SignalHandler, GenerateDump and the cloned children do what crash capture
\* promises, for any threads, instances, callbacks and signals.
THEOREM Implements == Spec => ImplementsCapture
<1>1. Init => Capture!Init
  BY DEF Init, Capture!Init, Capture!NoReport, NoFile
<1> QED
  BY <1>1, Invariant, CaptureStep, PTL DEF Spec, ImplementsCapture, Capture!Spec
=============================================================================
