---------------------------- MODULE CrashCapture ----------------------------
(***************************************************************************)
(* What native crash capture promises, without signals, mutexes, pipes or  *)
(* child processes.  A process runs until it ends.  A thread that gets a   *)
(* fatal signal is crashing.  Each client (an instance of Breakpad's       *)
(* ExceptionHandler) owns one report file, which is begun once, on behalf  *)
(* of a crashing thread, and is never begun again or taken over by another *)
(* one.  A client may claim the crash; if nobody does, the handler that    *)
(* was there before is told.  The process may only end by the default      *)
(* action of the signal when some client has claimed the crash, or when    *)
(* the installation was disturbed from outside.                            *)
(***************************************************************************)
EXTENDS Naturals

CONSTANTS
  Threads,    \* threads of the process
  Handlers,   \* clients, each with a report file of its own
  Claimers    \* the clients whose callback says "handled"

VARIABLES
  fate,       \* "alive", or how the process ended
  crashing,   \* threads with a fatal signal that is not dealt with
  reports,    \* per client, nothing or whose crash is in its file
  claimed,    \* clients that have claimed a crash
  told,       \* threads whose signal has reached the previous handler
  disturbed   \* somebody meddled with the installation

vars == <<fate, crashing, reports, claimed, told, disturbed>>

NoReport == [by |-> "nobody", whole |-> FALSE]
Report(t) == [by |-> t, whole |-> FALSE]

Init ==
  /\ fate = "alive"
  /\ crashing = {}
  /\ reports = [h \in Handlers |-> NoReport]
  /\ claimed = {}
  /\ told = {}
  /\ disturbed = FALSE

Crash(t) ==
  /\ fate = "alive"
  /\ t \notin crashing
  /\ crashing' = crashing \cup {t}
  /\ UNCHANGED <<fate, reports, claimed, told, disturbed>>

\* A signal that somebody sent may be dropped, but only in a disturbed process.
Drop(t) ==
  /\ disturbed
  /\ t \in crashing
  /\ crashing' = crashing \ {t}
  /\ UNCHANGED <<fate, reports, claimed, told, disturbed>>

\* The report may be begun, and finished, after the process has ended: the one
\* who writes it is another process.
Begin(h, t) ==
  /\ t \in crashing
  /\ reports[h] = NoReport
  /\ reports' = [reports EXCEPT ![h] = Report(t)]
  /\ UNCHANGED <<fate, crashing, claimed, told, disturbed>>

Finish(h) ==
  /\ reports[h] # NoReport
  /\ reports' = [reports EXCEPT ![h].whole = TRUE]
  /\ UNCHANGED <<fate, crashing, claimed, told, disturbed>>

\* A client claims the crash; its signal is then sent again, and when that is
\* refused the process exits at once.  In a disturbed process it may be dropped.
Claim(h) ==
  /\ fate = "alive"
  /\ h \in Claimers
  /\ crashing # {}
  /\ claimed' = claimed \cup {h}
  /\ fate' \in {"alive", "exit"}
  /\ \/ UNCHANGED crashing
     \/ disturbed /\ \E t \in crashing : crashing' = crashing \ {t}
  /\ UNCHANGED <<reports, told, disturbed>>

Tell(t) ==
  /\ fate = "alive"
  /\ t \in crashing
  /\ told' = told \cup {t}
  /\ UNCHANGED <<fate, crashing, reports, claimed, disturbed>>

Disturb ==
  /\ disturbed' = TRUE
  /\ UNCHANGED <<fate, crashing, reports, claimed, told>>

\* How a process may end: killed at any time, by the previous handler once it
\* has been told, by the default action of a claimed crash, by _exit when the
\* kernel refuses to send the signal again, or in a disturbed process without
\* anybody hearing of the crash.
End ==
  /\ fate = "alive"
  /\ \/ fate' = "killed"
     \/ fate' = "old" /\ told # {}
     \/ fate' = "default" /\ crashing # {} /\ (claimed # {} \/ disturbed)
     \/ fate' = "null" /\ crashing # {} /\ disturbed
     \/ fate' = "exit" /\ crashing # {}
  /\ UNCHANGED <<crashing, reports, claimed, told, disturbed>>

Next ==
  \/ \E t \in Threads : Crash(t) \/ Drop(t) \/ Tell(t)
  \/ \E h \in Handlers, t \in Threads : Begin(h, t)
  \/ \E h \in Handlers : Finish(h) \/ Claim(h)
  \/ Disturb
  \/ End

Spec == Init /\ [][Next]_vars
=============================================================================
