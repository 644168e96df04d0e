------------------------- MODULE MCExceptionHandler -------------------------
(* Two threads, the instance libbugly installs and a second client whose   *)
(* callback claims crashes, one fault signal and SIGABRT.                  *)
EXTENDS ExceptionHandler, TLC

CONSTANTS t1, t2, bugly, other, segv, abrt

MCThreads == {t1, t2}
MCHandlers == {bugly, other}
MCClaimers == {other}
MCSignals == {segv, abrt}
MCCrashes ==
  (t1 :> {<<segv, "kernel">>, <<abrt, "self">>}) @@
  (t2 :> {<<abrt, "foreign">>})
=============================================================================
