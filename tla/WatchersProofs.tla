--------------------------- MODULE WatchersProofs ---------------------------
(***************************************************************************)
(* Proofs about the two parts of the application that watch the rest of    *)
(* it: ANRWatchDog, for every timeout, and the leak watcher, for any       *)
(* objects, any number of calls of watch() and any outcome of the races on *)
(* watchedReferences.                                                      *)
(***************************************************************************)
EXTENDS ANRWatchDog, Watcher, TLAPS

(* Who holds the monitor is where the two threads are.                     *)
MonitorInv ==
    /\ monitor = "main" <=> mainPc \in {"run", "stamp"}
    /\ monitor = "dog" <=> dogPc \in {"scheduled", "sleep"}

(* From schedule() on the checker is shut out; by the time the watchdog    *)
(* lets go of the monitor, timeout has passed since schedule(), so running *)
(* the checker no longer helps, once it has written the time.              *)
RoundInv ==
    /\ dogPc \in {"scheduled", "sleep"} => ~mCompleted
    /\ dogPc = "sleep" => slept <= sinceStart
    /\ dogPc \in {"second", "report"} =>
           /\ sinceStart = timeout
           /\ mainPc # "stamp" => ~mCompleted \/ executeLag = timeout

Inv == TypeOK /\ MonitorInv /\ RoundInv

-----------------------------------------------------------------------------
(* The values schedule() and the start of a sleep set are in range.        *)
LEMMA Ranges == 0 \in 0..timeout /\ -1 \in -1..timeout /\ 0 \in 0..MaxPending
  BY WatchDogAssumption

(* The watchdog starts type correct.                                       *)
LEMMA TypeInit == Init => TypeOK
  BY Ranges DEF Init, TypeOK

(* Every step of either thread keeps the variables in their types.         *)
LEMMA TypeStep == TypeOK /\ [Next]_vars => TypeOK'
  <1> SUFFICES ASSUME TypeOK, [Next]_vars PROVE TypeOK'
    OBVIOUS
  <1> USE WatchDogAssumption DEF TypeOK
  <1>1. CASE Tick
    BY <1>1 DEF Tick, Aged
  <1>2. CASE LoopTest \/ LeftLoop \/ SecondTest \/ ReportAnr
    BY <1>2 DEF LoopTest, LeftLoop, SecondTest, ReportAnr, checkerVars
  <1>3. CASE Schedule
    <2>1. pending' \in 0..MaxPending
      BY <1>3 DEF Schedule
    <2>2. executeLag' \in -1..timeout
      BY <1>3 DEF Schedule
    <2>. QED
      BY <1>3, <2>1, <2>2, Ranges DEF Schedule
  <1>4. CASE Sleep \/ SleepInterrupted \/ SleepOver
    <2>1. interrupted' \in BOOLEAN
      BY <1>4, Zenon DEF Sleep, SleepInterrupted, SleepOver
    <2>. QED
      BY <1>4, <2>1, Ranges DEF Sleep, SleepInterrupted, SleepOver, checkerVars, dogVars
  <1>5. CASE Main
    <2>1. CASE TakeChecker
      BY <2>1 DEF TakeChecker, checkerVars, dogVars
    <2>2. CASE EnterMonitor
      BY <2>2 DEF EnterMonitor, checkerVars, dogVars
    <2>3. CASE RunChecker
      BY <2>3 DEF RunChecker, dogVars
    <2>5. CASE StampChecker
      BY <2>5 DEF StampChecker, dogVars
    <2>4. CASE BeginWork \/ EndWork
      BY <2>4 DEF BeginWork, EndWork, checkerVars, dogVars
    <2>. QED
      BY <1>5, <2>1, <2>2, <2>3, <2>4, <2>5 DEF Main
  <1>6. CASE Application
    BY <1>6 DEF Application, Interrupt, AddANRListener, checkerVars, dogVars
  <1>7. CASE UNCHANGED vars
    BY <1>7 DEF vars
  <1>. QED
    BY <1>1, <1>2, <1>3, <1>4, <1>5, <1>6, <1>7 DEF Next, Dog

(* The invariant is inductive.                                             *)
LEMMA InvStep == Inv /\ [Next]_vars => Inv'
  <1> SUFFICES ASSUME Inv, [Next]_vars PROVE Inv'
    OBVIOUS
  <1>0. TypeOK'
    BY TypeStep DEF Inv
  <1> USE WatchDogAssumption DEF Inv, TypeOK, MonitorInv, RoundInv
  <1>1. CASE Tick
    BY <1>0, <1>1 DEF Tick, Aged
  <1>2. CASE LoopTest \/ LeftLoop \/ SecondTest \/ ReportAnr
    BY <1>0, <1>2 DEF LoopTest, LeftLoop, SecondTest, ReportAnr, checkerVars, IsBlocked
  <1>3. CASE Schedule
    BY <1>0, <1>3 DEF Schedule
  <1>4. CASE Sleep \/ SleepInterrupted \/ SleepOver
    <2>1. CASE Sleep
      BY <1>0, <2>1 DEF Sleep, checkerVars
    <2>2. CASE SleepInterrupted
      BY <1>0, <2>2 DEF SleepInterrupted, checkerVars, dogVars
    <2>3. CASE SleepOver
      <3>1. sinceStart = timeout
        BY <2>3 DEF SleepOver
      <3>2. MonitorInv' /\ RoundInv'
        BY <2>3, <3>1 DEF SleepOver, checkerVars
      <3>. QED
        BY <1>0, <3>2
    <2>. QED
      BY <1>4, <2>1, <2>2, <2>3
  <1>5. CASE TakeChecker \/ BeginWork \/ EndWork
    BY <1>0, <1>5 DEF TakeChecker, BeginWork, EndWork, checkerVars, dogVars
  <1>6. CASE EnterMonitor
    BY <1>0, <1>6 DEF EnterMonitor, checkerVars, dogVars
  <1>7. CASE RunChecker \/ StampChecker
    BY <1>0, <1>7 DEF RunChecker, StampChecker, dogVars
  <1>8. CASE Application
    BY <1>0, <1>8 DEF Application, Interrupt, AddANRListener, checkerVars, dogVars
  <1>9. CASE UNCHANGED vars
    BY <1>0, <1>9 DEF vars
  <1>. QED
    BY <1>1, <1>2, <1>3, <1>4, <1>5, <1>6, <1>7, <1>8, <1>9 DEF Next, Dog, Main

(* For every timeout: when a round of the watchdog is over, the checker    *)
(* has not run in it, or so late that the main thread counts as blocked,   *)
(* also when it was idle all the time, because the checker cannot run      *)
(* while the watchdog sleeps with the monitor held.                        *)
THEOREM RoundsAlwaysFindBlock == Spec => []EveryRoundFindsBlock
  <1>1. Init => Inv
    BY TypeInit DEF Init, Inv, MonitorInv, RoundInv
  <1>2. Inv => EveryRoundFindsBlock
    BY WatchDogAssumption
       DEF Inv, TypeOK, RoundInv, EveryRoundFindsBlock, IsBlocked
  <1>. QED
    BY <1>1, <1>2, InvStep, PTL DEF Spec

(* Every variable of the watchdog keeps its type.                          *)
THEOREM TypeCorrect == Spec => []TypeOK
  BY TypeInit, TypeStep, PTL DEF Spec

-----------------------------------------------------------------------------
(* No object with a reachable container is ever freed, and neither is one  *)
(* the application holds.  It is what ListedIsKept lacks to be inductive:  *)
(* a container is on its way into a list before it is in one.              *)
ReachableIsKept ==
    /\ \A k \in Keys : Reachable(k) => referent[k] \notin collected
    /\ \A o \in appHolds : o \notin collected

LeakInv == LeakTypeOK /\ QueueStaysEmpty /\ ReachableIsKept

-----------------------------------------------------------------------------
(* With nothing in the queue, cleaning the lists changes nothing.          *)
LEMMA NothingToRemove ==
    QueueStaysEmpty /\ RemoveWeaklyReachableReferences
        => UNCHANGED <<watchedReferences, retainedReferences>> /\ queue' = {}
  BY DEF QueueStaysEmpty, RemoveWeaklyReachableReferences

(* Beginning an access only adds keys to the race.                         *)
LEMMA AccessType ==
    ASSUME LeakTypeOK, NEW k \in Keys, BeginAccess(k)
    PROVE  racing' \subseteq Keys /\ exposed' \subseteq Keys
  BY DEF LeakTypeOK, BeginAccess, InMap, races

(* The invariant is inductive.                                             *)
LEMMA LeakStep == LeakInv /\ [LeakNext]_(leakVars) => LeakInv'
  <1> SUFFICES ASSUME LeakInv, [LeakNext]_(leakVars) PROVE LeakInv'
    OBVIOUS
  <1> USE DEF LeakInv, LeakTypeOK, QueueStaysEmpty, ReachableIsKept, Reachable
  <1>1. ASSUME NEW k \in Keys, Watch(k) PROVE LeakInv'
    <2>1. UNCHANGED <<watchedReferences, retainedReferences>> /\ queue' = {}
      BY <1>1, NothingToRemove DEF Watch
    <2>2. racing' \subseteq Keys /\ exposed' \subseteq Keys
      BY <1>1, AccessType DEF Watch
    <2>. QED
      BY <1>1, <2>1, <2>2 DEF Watch, heap
  <1>2. ASSUME NEW k \in Keys, WatchPut(k) PROVE LeakInv'
    <2>1. \A j \in watchedReferences' : j \in Keys /\ Reachable(j)
      BY <1>2 DEF WatchPut, RacedContents
    <2>. QED
      BY <1>2, <2>1 DEF WatchPut, heap
  <1>3. ASSUME NEW k \in Keys, MoveToRetained(k) PROVE LeakInv'
    <2>1. UNCHANGED <<watchedReferences, retainedReferences>> /\ queue' = {}
      BY <1>3, NothingToRemove DEF MoveToRetained
    <2>2. racing' \subseteq Keys /\ exposed' \subseteq Keys
      BY <1>3, AccessType DEF MoveToRetained
    <2>. QED
      BY <1>3, <2>1, <2>2 DEF MoveToRetained, heap
  <1>4. ASSUME NEW k \in Keys, MoveRemoves(k) PROVE LeakInv'
    <2>1. \A j \in watchedReferences' : j \in Keys /\ Reachable(j)
      BY <1>4 DEF MoveRemoves, RacedContents
    <2>. QED
      BY <1>4, <2>1 DEF MoveRemoves, heap
  <1>5. ASSUME NEW k \in Keys, MoveAdds(k) PROVE LeakInv'
    BY <1>5 DEF MoveAdds, heap, races
  <1>6. ASSUME NEW o \in Objects, Drop(o) PROVE LeakInv'
    BY <1>6 DEF Drop, lists, races
  <1>7. ASSUME NEW o \in Objects, Collect(o) PROVE LeakInv'
    <2>1. \A k \in Keys : Reachable(k) => referent[k] # o
      BY <1>7 DEF Collect, StronglyReachable, HoldsReferent
    <2>2. queue' = {}
      BY <1>7, <2>1 DEF Collect
    <2>. QED
      BY <1>7, <2>1, <2>2 DEF Collect, StronglyReachable, lists, races
  <1>8. CASE UNCHANGED leakVars
    BY <1>8 DEF leakVars, lists, races, heap
  <1>. QED
    BY <1>1, <1>2, <1>3, <1>4, <1>5, <1>6, <1>7, <1>8 DEF LeakNext, Step, Done

(* The container's strong field defeats the watcher: the reference queue   *)
(* never holds anything, and no object in either list is ever freed.       *)
THEOREM WatchingKeepsObjects == LeakSpec => [](QueueStaysEmpty /\ ListedIsKept)
  <1>1. LeakInit => LeakInv
    BY DEF LeakInit, LeakInv, LeakTypeOK, QueueStaysEmpty, ReachableIsKept, Reachable
  <1>2. LeakInv => QueueStaysEmpty /\ ListedIsKept
    BY DEF LeakInv, LeakTypeOK, ReachableIsKept, Reachable, ListedIsKept
  <1>. QED
    BY <1>1, <1>2, LeakStep, PTL DEF LeakSpec

(* Every variable of the watcher keeps its type.                           *)
THEOREM LeakTypeCorrect == LeakSpec => []LeakTypeOK
  <1>1. LeakInit => LeakInv
    BY DEF LeakInit, LeakInv, LeakTypeOK, QueueStaysEmpty, ReachableIsKept, Reachable
  <1>2. LeakInv => LeakTypeOK
    BY DEF LeakInv
  <1>. QED
    BY <1>1, <1>2, LeakStep, PTL DEF LeakSpec
-----------------------------------------------------------------------------
(* What an access to the map that nothing overlaps has done so far.  It    *)
(* is what WatchEndsAsSuspect lacks to be inductive: where the container   *)
(* of an undisturbed watch is at every point before the watch is done.     *)
Undisturbed(k) ==
    /\ k \notin racing
    /\ pc[k] \in {"sleeping", "removing"} => k \in watchedReferences
    /\ pc[k] \in {"unused", "putting", "adding", "done"} => k \notin watchedReferences
    /\ pc[k] = "done" => k \in retainedReferences

UndisturbedInv == \A k \in Keys \ exposed : Undisturbed(k)

(* Beginning an access exposes whoever it brings into a race.              *)
LEMMA AccessExposes ==
    ASSUME NEW k \in Keys, BeginAccess(k)
    PROVE  exposed \subseteq exposed' /\ racing' \subseteq racing \cup exposed'
  BY DEF BeginAccess, races

(* A race leaves the entries alone that it did not expose.                 *)
LEMMA RaceSparesOthers ==
    ASSUME NEW W \in RacedContents, NEW k, k \notin exposed
    PROVE  k \in W <=> k \in watchedReferences
  BY DEF RacedContents

(* Each step keeps the container of an undisturbed watch where it belongs. *)
LEMMA UndisturbedStep == LeakInv /\ UndisturbedInv /\ [LeakNext]_(leakVars) => UndisturbedInv'
  <1> SUFFICES ASSUME LeakInv, UndisturbedInv, [LeakNext]_(leakVars),
                      NEW j \in Keys, j \notin exposed'
               PROVE  Undisturbed(j)'
    BY DEF UndisturbedInv
  <1> USE DEF Undisturbed, UndisturbedInv
  <1>t. pc \in [Keys -> {"unused", "putting", "sleeping", "removing", "adding", "done"}]
        /\ QueueStaysEmpty
    BY DEF LeakInv, LeakTypeOK
  <1>1. ASSUME NEW k \in Keys, Watch(k) \/ MoveToRetained(k) PROVE Undisturbed(j)'
    <2>1. UNCHANGED <<watchedReferences, retainedReferences>>
      BY <1>1, <1>t, NothingToRemove DEF Watch, MoveToRetained
    <2>2. j \notin exposed /\ j \notin racing'
      BY <1>1, AccessExposes DEF Watch, MoveToRetained
    <2>. QED
      BY <1>1, <1>t, <2>1, <2>2 DEF Watch, MoveToRetained
  <1>2. ASSUME NEW k \in Keys, WatchPut(k) PROVE Undisturbed(j)'
    <2>1. CASE k \in racing
      BY <1>2, <1>t, <2>1, RaceSparesOthers DEF WatchPut
    <2>2. CASE k \notin racing
      BY <1>2, <1>t, <2>2 DEF WatchPut
    <2>. QED
      BY <2>1, <2>2
  <1>3. ASSUME NEW k \in Keys, MoveRemoves(k) PROVE Undisturbed(j)'
    <2>1. CASE k \in racing
      BY <1>3, <1>t, <2>1, RaceSparesOthers DEF MoveRemoves
    <2>2. CASE k \notin racing
      BY <1>3, <1>t, <2>2 DEF MoveRemoves
    <2>. QED
      BY <2>1, <2>2
  <1>4. ASSUME NEW k \in Keys, MoveAdds(k) PROVE Undisturbed(j)'
    BY <1>4, <1>t DEF MoveAdds, races
  <1>5. ASSUME NEW o \in Objects, Drop(o) \/ Collect(o) PROVE Undisturbed(j)'
    BY <1>5, <1>t DEF Drop, Collect, lists, races
  <1>6. CASE UNCHANGED leakVars
    BY <1>6 DEF leakVars, lists, races
  <1>. QED
    BY <1>1, <1>2, <1>3, <1>4, <1>5, <1>6 DEF LeakNext, Step, Done

(* A watch whose accesses to the map no other thread overlapped ends with  *)
(* its container in the suspect list and nowhere else, whatever the races  *)
(* of other watches did to the map.                                        *)
THEOREM UndisturbedWatchSuspects == LeakSpec => []WatchEndsAsSuspect
  <1>1. LeakInit => LeakInv /\ UndisturbedInv
    BY DEF LeakInit, LeakInv, LeakTypeOK, QueueStaysEmpty, ReachableIsKept, Reachable,
           UndisturbedInv, Undisturbed
  <1>2. UndisturbedInv => WatchEndsAsSuspect
    BY DEF UndisturbedInv, Undisturbed, WatchEndsAsSuspect
  <1>. QED
    BY <1>1, <1>2, LeakStep, UndisturbedStep, PTL DEF LeakSpec
=============================================================================
