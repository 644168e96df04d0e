----------------------------- MODULE LogMonitor -----------------------------
(***************************************************************************)
(* The printer that the block canary installs on the main looper           *)
(* (LogMonitor.kt, BlockCanary.kt), together with its StackSampler.        *)
(*                                                                         *)
(* The looper calls println before and after every message it dispatches.  *)
(* The first call notes the time and starts sampling, the second one posts *)
(* a report to the thread "block-canary-io" if the message took too long,  *)
(* and stops sampling.  The report is built later, on the io thread, from  *)
(* the field mStartTimestamp as it is then.                                *)
(***************************************************************************)
EXTENDS StackSampler

CONSTANT mBlockThresholdMillis      \* 3000 in the code, here in ticks

ASSUME MonitorAssumption == mBlockThresholdMillis \in Nat

NoReport == [status |-> "none"]

VARIABLES
    mPrintingStarted,
    mStartTimestamp,
    call,           \* the call that println makes next: "none", "start", "stop"
    ioQueue,        \* reports posted to mLogHandler, with the message's true start
    report          \* the report the io thread is building or built last

monitorVars == <<mPrintingStarted, mStartTimestamp, call, ioQueue, report>>
vars == <<samplerVars, monitorVars>>

-----------------------------------------------------------------------------
(* Mutant: forgets the lower end of the range.                             *)
GetStacksUpTo(start, end) ==
    {mStackMap[i] : i \in {j \in DOMAIN mStackMap : mStackMap[j] < end}}

(* StackSampler.getStacks, under the lock of mStackMap.                    *)
GetStacks(start, end) ==
    {mStackMap[i] : i \in {j \in DOMAIN mStackMap :
                               start <= mStackMap[j] /\ mStackMap[j] < end}}

IsBlock(end) == end - mStartTimestamp > mBlockThresholdMillis

Init ==
    /\ SamplerInit
    /\ mPrintingStarted = FALSE
    /\ mStartTimestamp = 0
    /\ call = "none"
    /\ ioQueue = <<>>
    /\ report = NoReport

MainFree == mainPc = "idle" /\ call = "none"

(* println before a message is dispatched.                                 *)
PrintlnStart ==
    /\ MainFree
    /\ ~mPrintingStarted
    /\ mStartTimestamp' = now
    /\ mPrintingStarted' = TRUE
    /\ call' = "start"
    /\ UNCHANGED <<samplerVars, ioQueue, report>>

(* Mutant: sampling is stopped only after a message that blocked.          *)
PrintlnEndStopsIfBlocked ==
    /\ MainFree
    /\ mPrintingStarted
    /\ mPrintingStarted' = FALSE
    /\ IF IsBlock(now)
         THEN /\ ioQueue' = Append(ioQueue, [start |-> mStartTimestamp, end |-> now])
              /\ call' = "stop"
         ELSE UNCHANGED <<ioQueue, call>>
    /\ UNCHANGED <<samplerVars, mStartTimestamp, report>>

(* println after it: notifyBlockEvent captures the end, not the start.     *)
PrintlnEnd ==
    /\ MainFree
    /\ mPrintingStarted
    /\ mPrintingStarted' = FALSE
    /\ IF IsBlock(now)
         THEN ioQueue' = Append(ioQueue, [start |-> mStartTimestamp, end |-> now])
         ELSE UNCHANGED ioQueue
    /\ call' = "stop"
    /\ UNCHANGED <<samplerVars, mStartTimestamp, report>>

CallStartDump ==
    /\ call = "start"
    /\ StartDump
    /\ call' = "none"
    /\ UNCHANGED <<mPrintingStarted, mStartTimestamp, ioQueue, report>>

CallStopDump ==
    /\ call = "stop"
    /\ StopDump
    /\ call' = "none"
    /\ UNCHANGED <<mPrintingStarted, mStartTimestamp, ioQueue, report>>

(* The lambda of notifyBlockEvent on the io thread: it reads the field     *)
(* mStartTimestamp and then takes the lock of mStackMap.                   *)
ReportReadsStart ==
    /\ report.status # "reading"
    /\ ioQueue # <<>>
    /\ report' = [status |-> "reading", block |-> Head(ioQueue),
                  from |-> mStartTimestamp]
    /\ ioQueue' = Tail(ioQueue)
    /\ UNCHANGED <<samplerVars, mPrintingStarted, mStartTimestamp, call>>

ReportGetsStacks ==
    /\ report.status = "reading"
    /\ report' = [status |-> "done", block |-> report.block,
                  stacks |-> GetStacks(report.from, report.block.end),
                  complete |-> GetStacks(report.block.start, report.block.end)]
    /\ UNCHANGED <<samplerVars, mPrintingStarted, mStartTimestamp, call, ioQueue>>

Sampler == (Tick \/ MainStep \/ RunStep) /\ UNCHANGED monitorVars
Main == PrintlnStart \/ PrintlnEnd \/ CallStartDump \/ CallStopDump
Io == ReportReadsStart \/ ReportGetsStacks

Next == Sampler \/ Main \/ Io

Spec == Init /\ [][Next]_vars

(* Time passes, the main thread finishes a call of the sampler it is in,   *)
(* and the sampler thread runs; messages need neither come nor end, and    *)
(* the io thread need not get to a report.                                 *)
FairSpec ==
    /\ Spec
    /\ WF_vars(Tick /\ UNCHANGED monitorVars)
    /\ WF_vars(MainStep /\ UNCHANGED monitorVars)
    /\ WF_vars(RunStep /\ UNCHANGED monitorVars)

-----------------------------------------------------------------------------
(* The sampler runs exactly while a message is being dispatched: whenever  *)
(* println has returned, mShouldSample agrees with mPrintingStarted, over  *)
(* any number of messages.                                                 *)
SamplesWhileDispatching == MainFree => (mShouldSample <=> mPrintingStarted)

(* Reading mStartTimestamp late can only narrow a report: every stack it   *)
(* shows was recorded between the blocked message's own start and end.     *)
ReportInsideBlock ==
    report.status = "done" =>
        \A t \in report.stacks : report.block.start <= t /\ t < report.block.end

(* "Get the main thread's stacks at the time of the block": a report shows *)
(* every recorded stack of the message it is about.  The code does not     *)
(* promise it: the next message has moved mStartTimestamp by the time the  *)
(* io thread reads it.                                                     *)
ReportCoversBlock == report.status = "done" => report.stacks = report.complete

(* Seen through its sampler, the monitor only ever drives StackSampler     *)
(* through startDump and stopDump, so what holds of the sampler alone      *)
(* holds here.                                                             *)
DrivesSampler == SamplerSafety
=============================================================================
