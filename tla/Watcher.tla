------------------------------ MODULE Watcher -------------------------------
(***************************************************************************)
(* The leak watcher: Watcher.kt with KeyWeakReference.kt and the garbage   *)
(* collector.                                                              *)
(*                                                                         *)
(* watch() puts a container for the object into watchedReferences and      *)
(* starts a thread that, five seconds later, moves the container to        *)
(* retainedReferences unless the reference queue has named it meanwhile.   *)
(* watch() is not synchronized, moveToRetained() is, so the HashMap        *)
(* watchedReferences is changed by several threads at once.  A put or a    *)
(* remove is therefore two steps; accesses that overlap leave the entries  *)
(* that were involved in any state.                                        *)
(*                                                                         *)
(* A key names one call of watch() from its put to the end of its task.    *)
(***************************************************************************)
EXTENDS FiniteSets

CONSTANTS
    Objects,
    Keys        \* UUIDs: one for each call of watch()

VARIABLES
    watchedReferences, retainedReferences,  \* the two maps, as sets of keys
    queue,          \* keys of the containers in the ReferenceQueue
    referent,       \* the object each key was made for
    pc,             \* where the watch of a key is
    lock,           \* the key whose task holds the Watcher's monitor
    racing,         \* keys whose access to watchedReferences overlaps another
    exposed,        \* keys that were in the map or in an access when any did
    appHolds,       \* objects the application can still reach
    collected       \* objects the collector has freed

lists == <<watchedReferences, retainedReferences>>
races == <<racing, exposed>>
heap == <<appHolds, collected>>
leakVars == <<lists, queue, referent, pc, lock, races, heap>>

-----------------------------------------------------------------------------
(* "val referent" is a field of KeyWeakReference: a container refers to    *)
(* its object strongly, beside the weak reference of its superclass.       *)
HoldsReferent(k) == TRUE

InMap == {k \in Keys : pc[k] \in {"putting", "removing"}}

Reachable(k) ==
    \/ k \in watchedReferences \cup retainedReferences
    \/ pc[k] \in {"putting", "adding"}

StronglyReachable(o) ==
    \/ o \in appHolds
    \/ \E k \in Keys : Reachable(k) /\ HoldsReferent(k) /\ referent[k] = o

(* The maps once removeWeaklyReachableReferences has emptied the queue: a  *)
(* key leaves the watched list, or else the retained one.                  *)
RemoveWeaklyReachableReferences ==
    /\ watchedReferences' = watchedReferences \ queue
    /\ retainedReferences' = retainedReferences \ (queue \ watchedReferences)
    /\ queue' = {}

(* An access to watchedReferences begins, perhaps while others are under   *)
(* way.                                                                    *)
BeginAccess(k) ==
    IF InMap = {}
      THEN UNCHANGED races
      ELSE /\ racing' = racing \cup InMap \cup {k}
           /\ exposed' = exposed \cup InMap \cup {k} \cup watchedReferences

(* What a racing access can leave in a HashMap: an entry that was exposed  *)
(* may be lost, and one that is still reachable may be back.               *)
RacedContents ==
    {W \in SUBSET (watchedReferences \cup {k \in exposed : Reachable(k)}) :
        watchedReferences \ exposed \subseteq W}

-----------------------------------------------------------------------------
LeakInit ==
    /\ watchedReferences = {}
    /\ retainedReferences = {}
    /\ queue = {}
    /\ referent \in [Keys -> Objects]
    /\ pc = [k \in Keys |-> "unused"]
    /\ lock = {}
    /\ racing = {}
    /\ exposed = {}
    /\ appHolds = Objects
    /\ collected = {}

(* watch(): clean the lists, make the container, begin to put it.          *)
Watch(k) ==
    /\ pc[k] = "unused"
    /\ referent[k] \in appHolds
    /\ RemoveWeaklyReachableReferences
    /\ BeginAccess(k)
    /\ pc' = [pc EXCEPT ![k] = "putting"]
    /\ UNCHANGED <<referent, lock, heap>>

(* The put is done and the executor's task sleeps.                         *)
WatchPut(k) ==
    /\ pc[k] = "putting"
    /\ watchedReferences' \in IF k \in racing THEN RacedContents
                              ELSE {watchedReferences \cup {k}}
    /\ racing' = racing \ {k}
    /\ pc' = [pc EXCEPT ![k] = "sleeping"]
    /\ UNCHANGED <<retainedReferences, queue, referent, lock, exposed, heap>>

(* moveToRetained(key), synchronized: clean the lists, then remove the     *)
(* container from the watched list and add it to the retained one.         *)
MoveToRetained(k) ==
    /\ pc[k] = "sleeping"
    /\ lock = {}
    /\ lock' = {k}
    /\ RemoveWeaklyReachableReferences
    /\ BeginAccess(k)
    /\ pc' = [pc EXCEPT ![k] = "removing"]
    /\ UNCHANGED <<referent, heap>>

MoveRemoves(k) ==
    /\ pc[k] = "removing"
    /\ watchedReferences' \in IF k \in racing THEN RacedContents
                              ELSE {watchedReferences \ {k}}
    /\ racing' = racing \ {k}
    /\ \/ /\ k \in watchedReferences
          /\ pc' = [pc EXCEPT ![k] = "adding"]
          /\ UNCHANGED lock
       \/ /\ k \notin watchedReferences \/ k \in racing
          /\ pc' = [pc EXCEPT ![k] = "done"]
          /\ lock' = {}
    /\ UNCHANGED <<retainedReferences, queue, referent, exposed, heap>>

MoveAdds(k) ==
    /\ pc[k] = "adding"
    /\ retainedReferences' = retainedReferences \cup {k}
    /\ pc' = [pc EXCEPT ![k] = "done"]
    /\ lock' = {}
    /\ UNCHANGED <<watchedReferences, queue, referent, races, heap>>

(* The application lets go of an object.                                   *)
Drop(o) ==
    /\ o \in appHolds
    /\ appHolds' = appHolds \ {o}
    /\ UNCHANGED <<lists, queue, referent, pc, lock, races, collected>>

(* The collector frees an object that nothing refers to strongly and       *)
(* enqueues its containers, those that are themselves still reachable.     *)
Collect(o) ==
    /\ o \notin collected
    /\ ~StronglyReachable(o)
    /\ collected' = collected \cup {o}
    /\ queue' = queue \cup {k \in Keys : Reachable(k) /\ referent[k] = o}
    /\ UNCHANGED <<lists, referent, pc, lock, races, appHolds>>

Step(k) == WatchPut(k) \/ MoveToRetained(k) \/ MoveRemoves(k) \/ MoveAdds(k)

Done == (\A k \in Keys : pc[k] \in {"done", "unused"}) /\ UNCHANGED leakVars

LeakNext ==
    \/ \E k \in Keys : Watch(k) \/ Step(k)
    \/ \E o \in Objects : Drop(o) \/ Collect(o)
    \/ Done

(* Every started watch goes on and the collector runs.                     *)
LeakSpec ==
    /\ LeakInit
    /\ [][LeakNext]_leakVars
    /\ \A k \in Keys : WF_leakVars(Step(k))
    /\ \A o \in Objects : WF_leakVars(Collect(o))

-----------------------------------------------------------------------------
LeakTypeOK ==
    /\ watchedReferences \subseteq Keys
    /\ retainedReferences \subseteq Keys
    /\ queue \subseteq Keys
    /\ referent \in [Keys -> Objects]
    /\ pc \in [Keys -> {"unused", "putting", "sleeping", "removing", "adding", "done"}]
    /\ lock \subseteq Keys
    /\ racing \subseteq Keys
    /\ exposed \subseteq Keys
    /\ appHolds \subseteq Objects
    /\ collected \subseteq Objects

(* The queue that is to announce freed objects stays empty: an object is   *)
(* held by its own container as long as that could be announced, so        *)
(* removeWeaklyReachableReferences never finds anything to remove.         *)
QueueStaysEmpty == queue = {}

(* Watching an object keeps it: no object in either list is ever freed,    *)
(* whether the application holds it or not.                                *)
ListedIsKept ==
    \A k \in watchedReferences \cup retainedReferences : referent[k] \notin collected

(* A watch that no other thread disturbed ends with its container in the   *)
(* suspect list and nowhere else, even if the object was dropped at once.  *)
WatchEndsAsSuspect ==
    \A k \in Keys \ exposed :
        pc[k] = "done" => k \in retainedReferences /\ k \notin watchedReferences

(* "When the watched object is collected, its container is added to the    *)
(* queue": an object that the application has let go, and whose watch no   *)
(* race has touched, leaves the lists through the queue.  The code does    *)
(* not do it, since its containers hold the object; with a weak field only *)
(* it would.                                                               *)
DroppedIsAnnounced ==
    \A k \in Keys :
        (pc[k] = "sleeping" /\ referent[k] \notin appHolds)
            ~> (k \in queue \cup exposed \/ ~Reachable(k))
=============================================================================
