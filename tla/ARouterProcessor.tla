-------------------------- MODULE ARouterProcessor --------------------------
(***************************************************************************)
(* The annotation processor ARouterProcessor.java while it compiles one    *)
(* Gradle module, the one named by its option moduleName.                  *)
(*                                                                         *)
(* javac runs the processor in rounds; each round hands it the annotated   *)
(* classes that are new.  It writes one class ARouter$$Path$$<group> for   *)
(* every group and one class ARouter$$Group$$<module> that lists them.     *)
(* Its two maps live as long as the instance, and the Filer refuses to     *)
(* write a file twice, which createPathFile and createGroupFile swallow.   *)
(***************************************************************************)
EXTENDS Routes, Naturals

CONSTANTS
    options,        \* the module name handed in by Gradle, one of Modules
    Builds          \* the annotated classes of a build, some of RoutesOf(options)

VARIABLES
    own,            \* the annotated classes in the sources of this build
    todo,           \* those of them the processor was not yet given
    mAllPathMap,    \* the beans collected so far, whatever their group
    mAllGroupMap,   \* groups whose Path class was written
    pathFile,       \* the routes in the Path class written for each group
    groupFile,      \* the groups in the Group class, once it is written
    build,          \* "running", "ok", or "failed" by an error or exception
    writeFailed,    \* could some file not be written
    rounds          \* how many rounds had routes in them

vars == <<own, todo, mAllPathMap, mAllGroupMap, pathFile, groupFile, build,
          writeFailed, rounds>>

Init ==
    /\ own \in Builds
    /\ todo = own
    /\ mAllPathMap = {}
    /\ mAllGroupMap = {}
    /\ pathFile = <<>>
    /\ groupFile = {}
    /\ build = "running"
    /\ writeFailed = FALSE
    /\ rounds = 0

(* A class that is neither an Activity nor a Call, or has no path, which   *)
(* RouterBean.Builder refuses: process() throws before it writes anything, *)
(* and the instance is not used again.                                     *)
Throws(r) == r.type = "OTHER" \/ r.path = ""

ProcessThrows(batch) ==
    /\ \E r \in batch : Throws(r)
    /\ build' = "failed"
    /\ UNCHANGED <<mAllPathMap, mAllGroupMap, pathFile, groupFile, writeFailed>>

(* checkRouterPath: a malformed path is reported as an error.              *)
CheckRouterPath(batch) == {r \in batch : r.wellFormed}

(* Mutant: every group is registered, whether its class was written or not.*)
RegisteredAnyway(beans, written) == GroupsIn(beans)

(* createPathFile registers a group only after its file was written.       *)
Registered(beans, written) == written

(* createPathFile: the Filer has no file yet for the new groups; the class *)
(* of an old group stays as it is.  failing are the files whose writing    *)
(* ends in some other IOException.                                         *)
CreatePathFile(beans, failing) ==
    LET fresh == GroupsIn(beans) \ (DOMAIN pathFile \cup failing)
    IN  /\ pathFile' = [g \in DOMAIN pathFile \cup fresh |->
                           IF g \in fresh THEN {r \in beans : GroupOf(r) = g}
                                          ELSE pathFile[g]]
        /\ mAllGroupMap' = mAllGroupMap \cup Registered(beans, fresh)

(* Mutant: the Group class is made from the groups known before the round. *)
CreateGroupFileFirst(failing) ==
    groupFile' = IF groupFile = {} /\ "Group" \notin failing
                   THEN mAllGroupMap ELSE groupFile

(* createGroupFile: the class is named after the module, not the group.    *)
CreateGroupFile(failing) ==
    groupFile' = IF groupFile = {} /\ "Group" \notin failing
                   THEN mAllGroupMap' ELSE groupFile

ProcessWrites(batch, failing) ==
    LET beans == mAllPathMap \cup CheckRouterPath(batch)
    IN  /\ \A r \in batch : ~Throws(r)
        /\ mAllPathMap' = beans
        /\ CreatePathFile(beans, failing)
        /\ CreateGroupFile(failing)
        /\ build' = IF CheckRouterPath(batch) = batch THEN build ELSE "failed"
        /\ writeFailed' = (writeFailed \/ failing # {})

(* A round with annotated classes.                                         *)
Process ==
    /\ build = "running"
    /\ \E batch \in (SUBSET todo) \ {{}}, failing \in SUBSET (GroupsIn(own) \cup {"Group"}) :
           /\ ProcessThrows(batch) \/ ProcessWrites(batch, failing)
           /\ todo' = todo \ batch
    /\ rounds' = rounds + 1
    /\ UNCHANGED own

(* A round without any, process() returns false; javac is done.            *)
LastRound ==
    /\ build = "running"
    /\ todo = {}
    /\ build' = "ok"
    /\ UNCHANGED <<own, todo, mAllPathMap, mAllGroupMap, pathFile, groupFile,
                   writeFailed, rounds>>

Done == build # "running" /\ UNCHANGED vars

Next == Process \/ LastRound \/ Done

Spec == Init /\ [][Next]_vars

-----------------------------------------------------------------------------
(* The Group class names only Path classes that exist, also when writing   *)
(* some of them failed: the generated code compiles.                       *)
GroupFileCompiles == groupFile \subseteq DOMAIN pathFile
=============================================================================
