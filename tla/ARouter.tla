------------------------------ MODULE ARouter -------------------------------
(***************************************************************************)
(* The router from the annotation to the opened Activity: the annotation   *)
(* processor compiles one Gradle module (ARouterProcessor), the classes it *)
(* generates are installed with those of the modules built before, and the *)
(* application makes its requests (ParameterManager on RouterManager).     *)
(* A build that fails installs nothing.                                    *)
(***************************************************************************)
EXTENDS ParameterManager

CONSTANTS
    compiled,       \* the module that is built
    Builds          \* what annotated classes it may have

ASSUME BuildAssumption ==
    /\ compiled \in Modules
    /\ Builds \subseteq SUBSET RoutesOf(compiled)
    /\ \A a \in Callers : \A f \in CallFields(a) :    \* a Call is another module's
           \A r \in RoutesOf(compiled) : r.wellFormed => r.path # f.annotation

VARIABLES
    own, pending, mAllPathMap, mAllGroupMap, pathFile, groupFile, build,
    writeFailed, rounds

processorVars == <<own, pending, mAllPathMap, mAllGroupMap, pathFile, groupFile,
                   build, writeFailed, rounds>>

Processor == INSTANCE ARouterProcessor WITH options <- compiled, todo <- pending

(* The classes of a module all of whose routes were built.                 *)
Complete(routes) ==
    [group |-> GroupClass(routes),
     path  |-> [g \in GroupClass(routes) |-> PathClass(routes, g)]]

ARouterInit ==
    /\ ParameterInit
    /\ Processor!Init
    /\ installed = [m \in Modules |-> Complete(IF m = compiled THEN {} ELSE RoutesOf(m))]

Compile ==
    /\ build # "installed"
    /\ Processor!Next
    /\ UNCHANGED <<allVars, installed>>

(* The APK of a build that succeeded; the processor's instance is gone.    *)
InstallApk ==
    /\ build = "ok"
    /\ build' = "installed"
    /\ installed' = [installed EXCEPT ![compiled] = [group |-> groupFile, path |-> pathFile]]
    /\ mAllPathMap' = {} /\ mAllGroupMap' = {}
    /\ UNCHANGED <<own, pending, pathFile, groupFile, writeFailed, rounds, allVars>>

Run ==
    /\ build = "installed"
    /\ ParameterNext
    /\ UNCHANGED <<installed, processorVars>>

ARouterNext == Compile \/ InstallApk \/ Run

ARouterSpec == ARouterInit /\ [][ARouterNext]_<<allVars, installed, processorVars>>

-----------------------------------------------------------------------------
(* The Group class names only Path classes that exist, also when writing   *)
(* some of them failed: the generated code compiles.                       *)
GroupFileCompiles == Processor!GroupFileCompiles

(* The routes of the application's sources.                                *)
Sources == own \cup UNION {RoutesOf(m) : m \in Modules \ {compiled}}

(* javac handed all classes over in one round, and every file was written. *)
Undisturbed == rounds <= 1 /\ ~writeFailed

(* From the annotation to the answer: a request is answered with the class *)
(* annotated with its path and with nothing else, from wherever the caches *)
(* stand.  It is found only if it keeps to "module = group", and then      *)
(* always, if the build was undisturbed.  A second round or a failed write *)
(* loses routes from a build that succeeds all the same.                   *)
BuiltRouteIsReached ==
    \A t \in Threads : At(t, "done") =>
        LET r == RequestAt(req[t].asked)
            expected == r \in Sources /\ Conforming(r)
        IN  /\ req[t].answer \in {None, r.path}
            /\ req[t].answer # None => expected
            /\ expected /\ Undisturbed => req[t].answer # None
=============================================================================
