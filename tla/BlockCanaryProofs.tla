-------------------------- MODULE BlockCanaryProofs -------------------------
(***************************************************************************)
(* Proofs about the two parts of BlockCanary.  StackSampler, for every     *)
(* interval, capacity and clock.  LogMonitor, which implements the safety  *)
(* part of StackSampler, starts and stops it in step with the looper, and  *)
(* never reports a stack from outside the blocked message.                 *)
(***************************************************************************)
EXTENDS LogMonitor, SequenceTheorems, TLAPS

-----------------------------------------------------------------------------
(* StackSampler.                                                           *)

(* What the main thread is inside of goes with the flag it has set, and    *)
(* between removing and posting at most one run is left.                   *)
MainInside ==
    /\ mainPc \in {"startRemove", "startPost"} => mShouldSample
    /\ mainPc = "stopRemove" => ~mShouldSample
    /\ mainPc = "startPost" => Chains <= 1

(* No sample lies in the future.                                           *)
StacksArePast == \A i \in DOMAIN mStackMap : mStackMap[i] <= now

ChainsInv ==
    /\ SamplerTypeOK
    /\ MainInside
    /\ AtMostTwoChains
    /\ OneStrayAfterStop
    /\ SamplingStaysAlive

StacksInv == SamplerTypeOK /\ StacksArePast /\ StacksBoundedInOrder

-----------------------------------------------------------------------------
(* A callback is posted for a time of the clock.                           *)
LEMMA AfterIsTime == ASSUME NEW t \in Time PROVE After(t, mSampleInterval) \in Time
  BY SamplerAssumption DEF After, Time

(* Recording a sample in a map that is bounded, in order and not ahead of  *)
(* the clock keeps it so.                                                  *)
LEMMA RecordedKeepsOrder ==
    ASSUME NEW map \in Seq(Time), NEW t \in Time,
           Len(map) <= mMaxCount,
           \A i, j \in DOMAIN map : i < j => map[i] < map[j],
           \A i \in DOMAIN map : map[i] <= t
    PROVE  /\ Recorded(map, t) \in Seq(Time)
           /\ Len(Recorded(map, t)) <= mMaxCount
           /\ \A i, j \in DOMAIN Recorded(map, t) :
                  i < j => Recorded(map, t)[i] < Recorded(map, t)[j]
           /\ \A i \in DOMAIN Recorded(map, t) : Recorded(map, t)[i] <= t
  <1> DEFINE kept == IF Len(map) = mMaxCount THEN Tail(map) ELSE map
  <1>1. /\ kept \in Seq(Time)
        /\ Len(kept) < mMaxCount
        /\ \A i, j \in DOMAIN kept : i < j => kept[i] < kept[j]
        /\ \A i \in DOMAIN kept : kept[i] <= t
    <2>1. CASE Len(map) = mMaxCount
      <3>1. map # <<>>
        BY <2>1, SamplerAssumption
      <3>2. /\ Tail(map) \in Seq(Time)
            /\ Len(Tail(map)) = Len(map) - 1
            /\ \A i \in 1..Len(map) - 1 : Tail(map)[i] = map[i + 1]
        BY <3>1
      <3>. QED
        BY <2>1, <3>2, SamplerAssumption
    <2>2. CASE Len(map) # mMaxCount
      BY <2>2, SamplerAssumption
    <2>. QED
      BY <2>1, <2>2
  <1>2. CASE \E i \in DOMAIN kept : kept[i] = t
    <2>1. Recorded(map, t) = kept
      BY <1>2 DEF Recorded
    <2>. HIDE DEF kept
    <2>. QED
      BY <1>1, <2>1, SamplerAssumption
  <1>3. CASE ~ \E i \in DOMAIN kept : kept[i] = t
    <2>1. Recorded(map, t) = Append(kept, t)
      BY <1>3 DEF Recorded
    <2>. HIDE DEF kept
    <2>2. \A i \in DOMAIN kept : kept[i] < t
      <3>1. \A i \in DOMAIN kept : kept[i] \in Time
        BY <1>1
      <3>. QED
        BY <3>1, <1>1, <1>3 DEF Time
    <2>3. /\ Append(kept, t) \in Seq(Time)
          /\ Len(Append(kept, t)) = Len(kept) + 1
          /\ \A i \in DOMAIN kept : Append(kept, t)[i] = kept[i]
          /\ Append(kept, t)[Len(kept) + 1] = t
      BY <1>1
    <2>. QED
      BY <1>1, <2>1, <2>2, <2>3, SamplerAssumption DEF Time
  <1>. QED
    BY <1>2, <1>3

(* The sampler starts type correct.                                        *)
LEMMA SamplerTypeInit == SamplerInit => SamplerTypeOK
  <1>1. <<>> \in Seq(Time)
    BY EmptySeq
  <1>2. 0 \in Time
    BY SamplerAssumption DEF Time
  <1>. QED
    BY <1>1, <1>2 DEF SamplerInit, SamplerTypeOK

(* Type correctness of the sampler: every step of either thread keeps the  *)
(* queue and the map sequences of clock times.                             *)
LEMMA SamplerTypeStep == SamplerTypeOK /\ [SamplerNext]_samplerVars => SamplerTypeOK'
  <1> SUFFICES ASSUME SamplerTypeOK, [SamplerNext]_samplerVars PROVE SamplerTypeOK'
    OBVIOUS
  <1> USE DEF SamplerTypeOK
  <1>1. CASE Tick
    BY <1>1, SamplerAssumption DEF Tick, Time
  <1>2. CASE StartDump \/ StopDump
    BY <1>2 DEF StartDump, StopDump
  <1>3. CASE StartRemoves \/ StopRemoves
    BY <1>3, EmptySeq DEF StartRemoves, StopRemoves, RemoveCallbacks
  <1>4. CASE StartPosts \/ RunPosts
    BY <1>4, AfterIsTime DEF StartPosts, RunPosts, PostDelayed
  <1>5. CASE RunTaken
    BY <1>5 DEF RunTaken
  <1>6. CASE RunRecords
    <2>1. mStackMap = <<>> => Len(mStackMap) # mMaxCount
      BY SamplerAssumption
    <2>2. Recorded(mStackMap, now) \in Seq(Time)
      BY <2>1, HeadTailProperties DEF Recorded
    <2>. QED
      BY <1>6, <2>2 DEF RunRecords
  <1>7. CASE RunChecks
    BY <1>7 DEF RunChecks
  <1>8. CASE UNCHANGED samplerVars
    BY <1>8 DEF samplerVars
  <1>. QED
    BY <1>1, <1>2, <1>3, <1>4, <1>5, <1>6, <1>7, <1>8 DEF SamplerNext, MainStep, RunStep

(* The chain invariant is inductive.                                       *)
LEMMA ChainsStep == ChainsInv /\ [SamplerNext]_samplerVars => ChainsInv'
  <1> SUFFICES ASSUME ChainsInv, [SamplerNext]_samplerVars PROVE ChainsInv'
    OBVIOUS
  <1>0. SamplerTypeOK'
    BY SamplerTypeStep DEF ChainsInv
  <1> USE DEF ChainsInv, SamplerTypeOK, MainInside, AtMostTwoChains,
              OneStrayAfterStop, SamplingStaysAlive, Chains, InFlight
  <1>1. CASE Tick
    BY <1>0, <1>1 DEF Tick
  <1>2. CASE StartDump \/ StopDump
    BY <1>0, <1>2 DEF StartDump, StopDump
  <1>3. CASE StartRemoves \/ StopRemoves
    BY <1>0, <1>3 DEF StartRemoves, StopRemoves, RemoveCallbacks
  <1>4. CASE StartPosts \/ RunPosts
    <2>1. /\ Len(callbacks') = Len(callbacks) + 1
          /\ callbacks' # <<>>
      BY <1>4, AfterIsTime DEF StartPosts, RunPosts, PostDelayed
    <2>. QED
      BY <1>0, <1>4, <2>1 DEF StartPosts, RunPosts
  <1>5. CASE RunTaken
    <2>1. Len(callbacks') = Len(callbacks) - 1
      BY <1>5 DEF RunTaken
    <2>. QED
      BY <1>0, <1>5, <2>1 DEF RunTaken
  <1>6. CASE RunRecords
    BY <1>0, <1>6 DEF RunRecords
  <1>7. CASE RunChecks
    BY <1>0, <1>7 DEF RunChecks
  <1>8. CASE UNCHANGED samplerVars
    BY <1>8 DEF samplerVars
  <1>. QED
    BY <1>1, <1>2, <1>3, <1>4, <1>5, <1>6, <1>7, <1>8 DEF SamplerNext, MainStep, RunStep

(* The invariant of the recorded stacks is inductive.                      *)
LEMMA StacksStep == StacksInv /\ [SamplerNext]_samplerVars => StacksInv'
  <1> SUFFICES ASSUME StacksInv, [SamplerNext]_samplerVars PROVE StacksInv'
    OBVIOUS
  <1>0. SamplerTypeOK'
    BY SamplerTypeStep DEF StacksInv
  <1>1. CASE RunRecords
    BY <1>0, <1>1, RecordedKeepsOrder
       DEF RunRecords, StacksInv, StacksArePast, StacksBoundedInOrder, SamplerTypeOK
  <1>2. CASE Tick
    <2>1. \A i \in DOMAIN mStackMap : mStackMap[i] \in Time
      BY DEF StacksInv, SamplerTypeOK
    <2>. QED
      BY <1>0, <1>2, <2>1, SamplerAssumption
         DEF Tick, StacksInv, StacksArePast, StacksBoundedInOrder, SamplerTypeOK, Time
  <1>3. CASE UNCHANGED <<now, mStackMap>>
    BY <1>0, <1>3 DEF StacksInv, StacksArePast, StacksBoundedInOrder
  <1>. QED
    BY <1>1, <1>2, <1>3
       DEF SamplerNext, MainStep, RunStep, samplerVars, StartDump, StopDump, StartRemoves,
           StartPosts, StopRemoves, RunTaken, RunChecks, RunPosts

-----------------------------------------------------------------------------
(* However startDump and stopDump interleave with the sampler thread, two  *)
(* chains at most run at once, a stopped sampler has at most one stray run *)
(* left, and sampling that is on never dies.                               *)
THEOREM ChainsCorrect ==
    SamplerSafety => [](AtMostTwoChains /\ OneStrayAfterStop /\ SamplingStaysAlive)
  <1>1. SamplerInit => ChainsInv
    BY SamplerTypeInit, EmptySeq
       DEF SamplerInit, ChainsInv, MainInside, AtMostTwoChains,
           OneStrayAfterStop, SamplingStaysAlive, Chains, InFlight
  <1>2. ChainsInv => AtMostTwoChains /\ OneStrayAfterStop /\ SamplingStaysAlive
    BY DEF ChainsInv
  <1>. QED
    BY <1>1, <1>2, ChainsStep, PTL DEF SamplerSafety

(* mStackMap never outgrows its capacity and stays in time order, so what  *)
(* mRunnable evicts is always the oldest sample.                           *)
THEOREM StacksCorrect == SamplerSafety => []StacksBoundedInOrder
  <1>1. SamplerInit => StacksInv
    BY SamplerTypeInit, SamplerAssumption, EmptySeq
       DEF SamplerInit, StacksInv, StacksArePast, StacksBoundedInOrder
  <1>2. StacksInv => StacksBoundedInOrder
    BY DEF StacksInv
  <1>. QED
    BY <1>1, <1>2, StacksStep, PTL DEF SamplerSafety

(* Every variable of the sampler keeps its type.                           *)
THEOREM SamplerTypeCorrect == SamplerSafety => []SamplerTypeOK
  BY SamplerTypeInit, SamplerTypeStep, PTL DEF SamplerSafety

-----------------------------------------------------------------------------
(* LogMonitor.                                                             *)

(* The flags agree when no call is under way; while println is about to    *)
(* call startDump or stopDump, the sampler is still in the opposite state. *)
InStep ==
    /\ mShouldSample \in BOOLEAN
    /\ mPrintingStarted \in BOOLEAN
    /\ call \in {"none", "start", "stop"}
    /\ call = "none" => (mShouldSample <=> mPrintingStarted)
    /\ call = "start" => ~mShouldSample /\ mPrintingStarted
    /\ call = "stop" => mShouldSample /\ ~mPrintingStarted

Blocks == [start : Nat, end : Nat]

(* The field mStartTimestamp only grows, so what the io thread reads is    *)
(* never before the start of the message a queued report is about.         *)
StartsBehind ==
    /\ now \in Nat
    /\ mStackMap \in Seq(Time)
    /\ mStartTimestamp \in Nat
    /\ mStartTimestamp <= now
    /\ ioQueue \in Seq(Blocks)
    /\ \A i \in DOMAIN ioQueue : ioQueue[i].start <= mStartTimestamp
    /\ report.status = "reading" =>
           /\ report.from \in Nat
           /\ report.block.start \in Nat
           /\ report.block.start <= report.from

ReportInv == SamplerTypeOK /\ StartsBehind /\ ReportInsideBlock

-----------------------------------------------------------------------------
(* Every step of the monitor is a step of its sampler, or leaves it alone. *)
LEMMA StepIsSamplerStep == [Next]_vars => [SamplerNext]_samplerVars
  <1> SUFFICES ASSUME [Next]_vars PROVE [SamplerNext]_samplerVars
    OBVIOUS
  <1>1. CASE Sampler
    BY <1>1 DEF Sampler, SamplerNext
  <1>2. CASE Main
    BY <1>2 DEF Main, PrintlnStart, PrintlnEnd, CallStartDump, CallStopDump, SamplerNext
  <1>3. CASE Io
    BY <1>3 DEF Io, ReportReadsStart, ReportGetsStacks
  <1>4. CASE UNCHANGED vars
    BY <1>4 DEF vars
  <1>. QED
    BY <1>1, <1>2, <1>3, <1>4 DEF Next

(* The monitor with its sampler implements the sampler: whatever is proved *)
(* of StackSampler alone holds inside the block canary.                    *)
THEOREM MonitorDrivesSampler == Spec => DrivesSampler
  <1>1. Init => SamplerInit
    BY DEF Init
  <1>. QED
    BY <1>1, StepIsSamplerStep, PTL DEF Spec, DrivesSampler, SamplerSafety

(* In the block canary as in the sampler alone, chains of samples are      *)
(* bounded and sampling that is on stays alive.                            *)
THEOREM MonitorChainsCorrect ==
    Spec => [](AtMostTwoChains /\ OneStrayAfterStop /\ SamplingStaysAlive)
  BY MonitorDrivesSampler, ChainsCorrect, PTL DEF DrivesSampler

-----------------------------------------------------------------------------
(* Whenever println has returned, the sampler is on exactly if a message   *)
(* is being dispatched.                                                    *)
THEOREM SamplesInStep == Spec => []SamplesWhileDispatching
  <1>1. Init => InStep
    BY DEF Init, SamplerInit, InStep
  <1>2. InStep /\ [Next]_vars => InStep'
    <2> SUFFICES ASSUME InStep, [Next]_vars PROVE InStep'
      OBVIOUS
    <2> USE DEF InStep
    <2>1. CASE Sampler
      BY <2>1 DEF Sampler, monitorVars, Tick, MainStep, RunStep, StartRemoves, StartPosts,
                  StopRemoves, RunTaken, RunRecords, RunChecks, RunPosts
    <2>2. CASE PrintlnStart
      BY <2>2 DEF PrintlnStart, MainFree, samplerVars
    <2>3. CASE PrintlnEnd
      BY <2>3 DEF PrintlnEnd, MainFree, samplerVars
    <2>4. CASE CallStartDump
      BY <2>4 DEF CallStartDump, StartDump
    <2>5. CASE CallStopDump
      BY <2>5 DEF CallStopDump, StopDump
    <2>6. CASE Io
      BY <2>6 DEF Io, ReportReadsStart, ReportGetsStacks, samplerVars
    <2>7. CASE UNCHANGED vars
      BY <2>7 DEF vars, samplerVars, monitorVars
    <2>. QED
      BY <2>1, <2>2, <2>3, <2>4, <2>5, <2>6, <2>7 DEF Next, Main
  <1>3. InStep => SamplesWhileDispatching
    BY DEF InStep, SamplesWhileDispatching, MainFree
  <1>. QED
    BY <1>1, <1>2, <1>3, PTL DEF Spec

(* The invariant behind the reports is inductive.                          *)
LEMMA ReportStep == ReportInv /\ [Next]_vars => ReportInv'
  <1> SUFFICES ASSUME ReportInv, [Next]_vars PROVE ReportInv'
    OBVIOUS
  <1>0. SamplerTypeOK'
    BY StepIsSamplerStep, SamplerTypeStep DEF ReportInv
  <1>t. /\ now' \in Nat
        /\ mStackMap' \in Seq(Time)
    BY <1>0, SamplerAssumption DEF SamplerTypeOK, Time
  <1>n. now <= now'
    BY DEF ReportInv, StartsBehind, Next, vars, Sampler, Main, Io, PrintlnStart, PrintlnEnd,
           CallStartDump, CallStopDump, ReportReadsStart, ReportGetsStacks, samplerVars,
           Tick, MainStep, RunStep, StartDump, StopDump, StartRemoves, StartPosts,
           StopRemoves, RunTaken, RunRecords, RunChecks, RunPosts
  <1> USE DEF ReportInv, StartsBehind, ReportInsideBlock
  <1>1. CASE UNCHANGED <<mStartTimestamp, ioQueue, report>>
    BY <1>0, <1>t, <1>n, <1>1
  <1>2. CASE PrintlnStart
    <2>1. \A i \in DOMAIN ioQueue : ioQueue[i] \in Blocks
      BY ElementOfSeq
    <2>2. \A i \in DOMAIN ioQueue : ioQueue[i].start \in Nat
      BY <2>1 DEF Blocks
    <2>. QED
      BY <1>0, <1>t, <1>2, <2>2 DEF PrintlnStart, samplerVars
  <1>3. CASE PrintlnEnd
    <2> DEFINE b == [start |-> mStartTimestamp, end |-> now]
    <2>1. /\ b \in Blocks
          /\ b.start <= mStartTimestamp
      BY DEF Blocks
    <2>2. CASE ioQueue' = ioQueue
      BY <1>0, <1>t, <1>3, <2>2 DEF PrintlnEnd, samplerVars
    <2>3. CASE ioQueue' = Append(ioQueue, b)
      <3> HIDE DEF b
      <3>1. /\ ioQueue' \in Seq(Blocks)
            /\ \A i \in DOMAIN ioQueue' :
                   ioQueue'[i] = b \/ (i \in DOMAIN ioQueue /\ ioQueue'[i] = ioQueue[i])
        BY <2>1, <2>3
      <3>. QED
        BY <1>0, <1>t, <1>3, <2>1, <3>1 DEF PrintlnEnd, samplerVars
    <2>. QED
      BY <1>3, <2>2, <2>3 DEF PrintlnEnd
  <1>4. CASE ReportReadsStart
    <2>1. /\ Head(ioQueue) = ioQueue[1]
          /\ 1 \in DOMAIN ioQueue
          /\ Tail(ioQueue) \in Seq(Blocks)
          /\ \A i \in DOMAIN Tail(ioQueue) :
                 i + 1 \in DOMAIN ioQueue /\ Tail(ioQueue)[i] = ioQueue[i + 1]
      BY <1>4 DEF ReportReadsStart
    <2>2. ioQueue[1] \in Blocks
      BY <2>1, ElementOfSeq
    <2>3. ioQueue[1].start \in Nat
      BY <2>2 DEF Blocks
    <2>. QED
      BY <1>0, <1>t, <1>4, <2>1, <2>3 DEF ReportReadsStart, samplerVars
  <1>5. CASE ReportGetsStacks
    <2>1. \A i \in DOMAIN mStackMap : mStackMap[i] \in Nat
      BY SamplerAssumption DEF Time
    <2>2. \A t \in GetStacks(report.from, report.block.end) :
              report.block.start <= t /\ t < report.block.end
      BY <1>5, <2>1 DEF GetStacks, ReportGetsStacks
    <2>. QED
      BY <1>0, <1>t, <1>5, <2>2 DEF ReportGetsStacks, samplerVars
  <1>. QED
    BY <1>1, <1>2, <1>3, <1>4, <1>5
       DEF Next, vars, Sampler, Main, Io, monitorVars, CallStartDump, CallStopDump

(* A report never shows a stack that was recorded outside the blocked      *)
(* message, although its start is read late on the io thread.              *)
THEOREM ReportsStayInside == Spec => []ReportInsideBlock
  <1>1. Init => ReportInv
    <2>1. <<>> \in Seq(Blocks) /\ <<>> \in Seq(Time)
      BY EmptySeq
    <2>. QED
      BY <2>1, SamplerTypeInit, EmptySeq
         DEF Init, SamplerInit, ReportInv, StartsBehind, ReportInsideBlock, NoReport
  <1>2. ReportInv => ReportInsideBlock
    BY DEF ReportInv
  <1>. QED
    BY <1>1, <1>2, ReportStep, PTL DEF Spec
=============================================================================
