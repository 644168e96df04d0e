---------------------------- MODULE ANRWatchDog -----------------------------
(***************************************************************************)
(* The ANR watchdog thread of ANRWatchDog.kt and the main thread it        *)
(* watches.                                                                *)
(*                                                                         *)
(* In each round the watchdog takes its own monitor, posts ANRChecker to   *)
(* the front of the main queue and sleeps for timeout with the monitor     *)
(* held; ANRChecker.run needs the same monitor on the main thread.         *)
(*                                                                         *)
(* The code compares times only with timeout, so the model keeps the two   *)
(* differences it forms, cut off at timeout, instead of a growing clock:   *)
(* nothing else is lost and the model is finite without a bound on time.   *)
(***************************************************************************)
EXTENDS Integers

CONSTANTS
    timeout,        \* 5000 ms in the code, in ticks here
    MaxPending      \* bound on the checkers counted in the main queue

ASSUME WatchDogAssumption ==
    /\ timeout \in Nat \ {0}
    /\ MaxPending \in Nat \ {0}

VARIABLES
    monitor,        \* who holds synchronized(this): "free", "dog" or "main"
    dogPc,          \* where ANRWatchDog.run is
    mainPc,         \* what the main thread is doing
    pending,        \* ANRChecker's posts in the main queue (capped)
    mCompleted,
    sinceStart,     \* uptime - mStartTime
    slept,          \* uptime - start, inside the sleep loop
    executeLag,     \* executeTime - mStartTime, -1 when it ran before
    interrupted,    \* the thread's interrupt flag
    onAnrHappened   \* is a listener registered

vars == <<monitor, dogPc, mainPc, pending, mCompleted, sinceStart, slept,
          executeLag, interrupted, onAnrHappened>>

dogVars == <<dogPc, slept>>
checkerVars == <<mCompleted, sinceStart, executeLag>>

Aged(n) == IF n < timeout THEN n + 1 ELSE n

(* isBlocked(), of the values it has read.                                 *)
IsBlocked(completed, lag) == ~completed \/ lag >= timeout

Init ==
    /\ monitor = "free"
    /\ dogPc = "top"
    /\ mainPc = "idle"
    /\ pending = 0
    /\ mCompleted = FALSE
    /\ sinceStart = 0
    /\ slept = 0
    /\ executeLag = -1
    /\ interrupted = FALSE
    /\ onAnrHappened = FALSE

-----------------------------------------------------------------------------
Tick ==
    /\ sinceStart' = Aged(sinceStart)
    /\ slept' = Aged(slept)
    /\ UNCHANGED <<monitor, dogPc, mainPc, pending, mCompleted, executeLag,
                   interrupted, onAnrHappened>>

(* while (!isInterrupted): the flag is read, not cleared, so the loop that *)
(* is left is never entered again and the thread spins in while (true).    *)
LoopTest ==
    /\ dogPc = "top"
    /\ dogPc' = IF interrupted THEN "left" ELSE "enter"
    /\ UNCHANGED <<monitor, mainPc, pending, checkerVars, slept, interrupted,
                   onAnrHappened>>

LeftLoop ==
    /\ dogPc = "left"
    /\ onAnrHappened' = FALSE
    /\ dogPc' = "top"
    /\ UNCHANGED <<monitor, mainPc, pending, checkerVars, slept, interrupted>>

(* synchronized(this), then schedule().                                    *)
Schedule ==
    /\ dogPc = "enter"
    /\ monitor = "free"
    /\ monitor' = "dog"
    /\ mCompleted' = FALSE
    /\ sinceStart' = 0
    /\ executeLag' = -1
    /\ pending' = IF pending < MaxPending THEN pending + 1 ELSE pending
    /\ dogPc' = "scheduled"
    /\ UNCHANGED <<mainPc, slept, interrupted, onAnrHappened>>

(* Mutant: wait(waitTime), the line the code comments out, lets go of the  *)
(* monitor while it waits.                                                 *)
SleepByWaiting ==
    /\ dogPc = "scheduled"
    /\ slept' = 0
    /\ monitor' = "free"
    /\ dogPc' = "sleep"
    /\ UNCHANGED <<mainPc, pending, checkerVars, interrupted, onAnrHappened>>

Sleep ==
    /\ dogPc = "scheduled"
    /\ slept' = 0
    /\ dogPc' = "sleep"
    /\ UNCHANGED <<monitor, mainPc, pending, checkerVars, interrupted, onAnrHappened>>

(* Mutant: after an interrupt the full timeout is slept again.             *)
SleepStartsOver ==
    /\ dogPc = "sleep"
    /\ interrupted
    /\ slept < timeout
    /\ interrupted' = FALSE
    /\ slept' = 0
    /\ UNCHANGED <<monitor, dogPc, mainPc, pending, checkerVars, onAnrHappened>>

(* sleep throws InterruptedException, which clears the flag; the code logs *)
(* it and sleeps for what is left of timeout.                              *)
SleepInterrupted ==
    /\ dogPc = "sleep"
    /\ interrupted
    /\ slept < timeout
    /\ interrupted' = FALSE
    /\ UNCHANGED <<monitor, dogVars, mainPc, pending, checkerVars, onAnrHappened>>

(* waitTime <= 0, after a sleep that returned or (late) threw.  Both ways  *)
(* out of the synchronized block lead to the second isBlocked(), so the    *)
(* first one decides nothing.                                              *)
SleepOver ==
    /\ dogPc = "sleep"
    /\ slept = timeout
    /\ interrupted' \in {interrupted, FALSE}
    /\ monitor' = "free"
    /\ dogPc' = "second"
    /\ UNCHANGED <<mainPc, pending, checkerVars, slept, onAnrHappened>>

(* The second isBlocked() is outside the monitor: of what the checker has  *)
(* written since the watchdog let go of it, each field may be seen or not. *)
(* ignoreDebugger is true, so the debugger test never skips a report.      *)
SecondTest ==
    /\ dogPc = "second"
    /\ \E completed \in {FALSE, mCompleted}, lag \in {-1, executeLag} :
          dogPc' = IF IsBlocked(completed, lag) THEN "report" ELSE "top"
    /\ UNCHANGED <<monitor, mainPc, pending, checkerVars, slept, interrupted,
                   onAnrHappened>>

ReportAnr ==
    /\ dogPc = "report"
    /\ dogPc' = "top"
    /\ UNCHANGED <<monitor, mainPc, pending, checkerVars, slept, interrupted,
                   onAnrHappened>>

-----------------------------------------------------------------------------

(* The main thread.  The checker is posted at the front, so it is taken    *)
(* before any other message.                                               *)
TakeChecker ==
    /\ mainPc = "idle"
    /\ pending > 0
    /\ pending' = pending - 1
    /\ mainPc' = "enter"
    /\ UNCHANGED <<monitor, dogVars, checkerVars, interrupted, onAnrHappened>>

EnterMonitor ==
    /\ mainPc = "enter"
    /\ monitor = "free"
    /\ monitor' = "main"
    /\ mainPc' = "run"
    /\ UNCHANGED <<dogVars, pending, checkerVars, interrupted, onAnrHappened>>

(* ANRChecker.run: two writes, of which the watchdog may see one.          *)
RunChecker ==
    /\ mainPc = "run"
    /\ mCompleted' = TRUE
    /\ mainPc' = "stamp"
    /\ UNCHANGED <<monitor, dogVars, pending, sinceStart, executeLag, interrupted,
                   onAnrHappened>>

StampChecker ==
    /\ mainPc = "stamp"
    /\ executeLag' = sinceStart
    /\ monitor' = "free"
    /\ mainPc' = "idle"
    /\ UNCHANGED <<dogVars, pending, mCompleted, sinceStart, interrupted, onAnrHappened>>

(* Any other message of the application.                                   *)
BeginWork ==
    /\ mainPc = "idle"
    /\ pending = 0
    /\ mainPc' = "work"
    /\ UNCHANGED <<monitor, dogVars, pending, checkerVars, interrupted, onAnrHappened>>

EndWork ==
    /\ mainPc = "work"
    /\ mainPc' = "idle"
    /\ UNCHANGED <<monitor, dogVars, pending, checkerVars, interrupted, onAnrHappened>>

(* The application may interrupt the thread and may register a listener.   *)
Interrupt ==
    /\ interrupted' = TRUE
    /\ UNCHANGED <<monitor, dogVars, mainPc, pending, checkerVars, onAnrHappened>>

AddANRListener ==
    /\ onAnrHappened' = TRUE
    /\ UNCHANGED <<monitor, dogVars, mainPc, pending, checkerVars, interrupted>>

Dog == LoopTest \/ LeftLoop \/ Schedule \/ Sleep \/ SleepInterrupted
         \/ SleepOver \/ SecondTest \/ ReportAnr
Main == TakeChecker \/ EnterMonitor \/ RunChecker \/ StampChecker \/ BeginWork \/ EndWork
Application == Interrupt \/ AddANRListener

Next == Tick \/ Dog \/ Main \/ Application

(* Time passes, the watchdog is scheduled, and the main thread leaves the  *)
(* monitor once it is in it.  Nothing is assumed of who gets the monitor,  *)
(* of how long a message takes or of whether one ends.                     *)
Spec ==
    /\ Init
    /\ [][Next]_vars
    /\ WF_vars(Tick)
    /\ WF_vars(Dog)
    /\ WF_vars(RunChecker \/ StampChecker)

-----------------------------------------------------------------------------
TypeOK ==
    /\ monitor \in {"free", "dog", "main"}
    /\ dogPc \in {"top", "left", "enter", "scheduled", "sleep", "second", "report"}
    /\ mainPc \in {"idle", "work", "enter", "run", "stamp"}
    /\ pending \in 0..MaxPending
    /\ mCompleted \in BOOLEAN
    /\ sinceStart \in 0..timeout
    /\ slept \in 0..timeout
    /\ executeLag \in -1..timeout
    /\ interrupted \in BOOLEAN
    /\ onAnrHappened \in BOOLEAN

(* Sleeping with the monitor held shuts the checker out for the whole      *)
(* round: when the watchdog asks isBlocked() again, the checker has not    *)
(* run or has run too late, whatever the main thread was doing.  Only in   *)
(* the middle of the checker's two writes does the state say otherwise.    *)
EveryRoundFindsBlock ==
    dogPc \in {"second", "report"} /\ mainPc # "stamp" => IsBlocked(mCompleted, executeLag)

(* An interrupt that falls into the sleep is swallowed: unless one arrives *)
(* outside of it, the watchdog goes on reporting, except that every round  *)
(* may fall in with the checker's writes after it let go of the monitor.   *)
ReportsOrLeaves ==
    \/ []<>(dogPc = "report")
    \/ <>[](dogPc \in {"top", "left"})
    \/ []<>(dogPc = "second" /\ mCompleted)
=============================================================================
