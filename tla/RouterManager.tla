--------------------------- MODULE RouterManager ----------------------------
(***************************************************************************)
(* The runtime of the router, RouterManager.java: one instance for the     *)
(* whole process, whose fields path, group and bundle carry a request from *)
(* build() over with...() to navigation().                                 *)
(*                                                                         *)
(* navigation() finds the class ARouter$$Group$$<group> by name, in it the *)
(* class ARouter$$Path$$<group>, and in that the route; both classes are   *)
(* cached.  It reads the fields again at every use, so every read of a     *)
(* field is a step of its own.  The application calls it from its main     *)
(* thread only; the properties below are stated for that, one caller.      *)
(* The classes it finds are in installed; module ARouter puts there what   *)
(* ARouterProcessor generates.  Who makes requests, and what becomes of    *)
(* the Activities they open, is in ParameterManager.                       *)
(***************************************************************************)
EXTENDS Routes, Naturals, SequencesExt

CONSTANTS
    Undeclared,     \* other requests: paths that are malformed or nobody declares
    Threads,        \* callers, each one with its own request at a time
    Keys,           \* keys of the extras
    CacheSize,      \* entries of each LruCache (100 in the code)
    None            \* null

ASSUME RouterAssumption ==
    /\ CacheSize \in Nat \ {0}
    /\ None \notin Modules
    /\ \A r, s \in Declared \cup Undeclared :
           /\ None \notin {r.path, r.first, r.group}
           /\ r.path = s.path => r = s

VARIABLES
    path, group, bundle,            \* the fields of the instance
    groupLruCache, pathLruCache,    \* <<key, class>>, eldest first
    req,                            \* the locals of each caller
    installed                       \* the generated classes of each module:
                                    \* [group: the groups its Group class lists,
                                    \*  path: the routes of each Path class]

vars == <<path, group, bundle, groupLruCache, pathLruCache, req>>

Requests == Declared \cup Undeclared
Paths == {r.path : r \in Requests}
RequestAt(p) == CHOOSE r \in Requests : r.path = p

(* A module without a route has no Group class.                            *)
HasGroupClass(m) == m \in Modules /\ installed[m].group # {}

NoRequest == [pc |-> "idle", asked |-> None, keys |-> {}, className |-> None,
              loadGroup |-> None, loadPath |-> None, answer |-> None,
              extras |-> {}]

(* LruCache, which has at most one entry for a key: get makes an entry the *)
(* youngest, put evicts the eldest.                                        *)
Cached(cache, key) == {i \in DOMAIN cache : cache[i][1] = key}
Place(cache, key) == CHOOSE i \in Cached(cache, key) : TRUE
Lookup(cache, key) ==
    IF Cached(cache, key) = {} THEN None ELSE cache[Place(cache, key)][2]
Without(cache, key) ==
    IF Cached(cache, key) = {} THEN cache ELSE RemoveAt(cache, Place(cache, key))
Used(cache, key) ==
    IF Cached(cache, key) = {} THEN cache
    ELSE Append(Without(cache, key), <<key, Lookup(cache, key)>>)

PutIn(cache, key, class) ==
    LET new == Append(Without(cache, key), <<key, class>>)
    IN  IF Len(new) > CacheSize THEN Tail(new) ELSE new

-----------------------------------------------------------------------------
Init ==
    /\ path = None
    /\ group = None
    /\ bundle = {}
    /\ groupLruCache = <<>>
    /\ pathLruCache = <<>>
    /\ req = [t \in Threads |-> NoRequest]

At(t, pc) == req[t].pc = pc

(* build(path): a malformed path throws; for any other the two fields are *)
(* written one after the other.                                            *)
BuildThrows(t, r) == At(t, "idle") /\ ~r.wellFormed /\ UNCHANGED vars

BuildPath(t, r) ==
    /\ At(t, "idle")
    /\ r.wellFormed
    /\ path' = r.path
    /\ req' = [req EXCEPT ![t] = [NoRequest EXCEPT !.pc = "group", !.asked = r.path]]
    /\ UNCHANGED <<group, bundle, groupLruCache, pathLruCache>>

(* Mutant: the group is only computed for the first request.               *)
BuildGroupOnce(t) ==
    /\ At(t, "group")
    /\ group' = IF group = None THEN RequestAt(req[t].asked).first ELSE group
    /\ req' = [req EXCEPT ![t].pc = "built"]
    /\ UNCHANGED <<path, bundle, groupLruCache, pathLruCache>>

BuildGroup(t) ==
    /\ At(t, "group")
    /\ group' = RequestAt(req[t].asked).first
    /\ req' = [req EXCEPT ![t].pc = "built"]
    /\ UNCHANGED <<path, bundle, groupLruCache, pathLruCache>>

(* Mutant: every with... starts a new bundle.                              *)
WithNewBundle(t, k) ==
    /\ At(t, "built")
    /\ bundle' = {k}
    /\ req' = [req EXCEPT ![t].keys = @ \cup {k}]
    /\ UNCHANGED <<path, group, groupLruCache, pathLruCache>>

(* withInt, withString, withParcelable.                                    *)
With(t, k) ==
    /\ At(t, "built")
    /\ bundle' = bundle \cup {k}
    /\ req' = [req EXCEPT ![t].keys = @ \cup {k}]
    /\ UNCHANGED <<path, group, groupLruCache, pathLruCache>>

(* navigation, from here on.                                               *)
NameGroupClass(t) ==
    /\ At(t, "built")
    /\ req' = [req EXCEPT ![t].pc = "getGroup", ![t].className = group]
    /\ UNCHANGED <<path, group, bundle, groupLruCache, pathLruCache>>

GetGroup(t) ==
    LET found == Lookup(groupLruCache, group)
    IN  /\ At(t, "getGroup")
        /\ groupLruCache' = Used(groupLruCache, group)
        /\ req' = [req EXCEPT ![t].loadGroup = found,
                              ![t].pc = IF found = None THEN "loadGroup" ELSE "getPath"]
        /\ UNCHANGED <<path, group, bundle, pathLruCache>>

(* Class.forName: the exception for a name without a class is printed, and *)
(* navigation returns null.                                                *)
LoadGroup(t) ==
    /\ At(t, "loadGroup")
    /\ \/ /\ HasGroupClass(req[t].className)
          /\ req' = [req EXCEPT ![t].loadGroup = req[t].className, ![t].pc = "getPath"]
          /\ groupLruCache' = PutIn(groupLruCache, group, req[t].className)
       \/ /\ ~HasGroupClass(req[t].className)
          /\ req' = [req EXCEPT ![t].pc = "done"]
          /\ UNCHANGED groupLruCache
    /\ UNCHANGED <<path, group, bundle, pathLruCache>>

GetPath(t) ==
    LET found == Lookup(pathLruCache, path)
    IN  /\ At(t, "getPath")
        /\ pathLruCache' = Used(pathLruCache, path)
        /\ req' = [req EXCEPT ![t].loadPath = found,
                              ![t].pc = IF found = None THEN "loadPath" ELSE "open"]
        /\ UNCHANGED <<path, group, bundle, groupLruCache>>

(* A group the Group class does not list gives null, and newInstance on it *)
(* an exception, which again ends navigation with null.                    *)
LoadPath(t) ==
    LET class == <<req[t].loadGroup, group>>
        listed == group \in installed[req[t].loadGroup].group
    IN  /\ At(t, "loadPath")
        /\ \/ /\ listed
              /\ pathLruCache' = PutIn(pathLruCache, path, class)
              /\ req' = [req EXCEPT ![t].loadPath = class, ![t].pc = "open"]
           \/ /\ ~listed
              /\ req' = [req EXCEPT ![t].pc = "done"]
              /\ UNCHANGED pathLruCache
        /\ UNCHANGED <<path, group, bundle, groupLruCache>>

(* The route of the current path, if the Path class has it: an Activity is *)
(* started with the bundle as its extras, a Call is instantiated.          *)
Open(t) ==
    LET class == req[t].loadPath
        beans == {r \in installed[class[1]].path[class[2]] : r.path = path}
        extras == {k \in bundle : \E r \in beans : r.type = "ACTIVITY"}
    IN  /\ At(t, "open")
        /\ req' = [req EXCEPT ![t].pc = "done",
                              ![t].answer = IF beans = {} THEN None ELSE path,
                              ![t].extras = extras]
        /\ UNCHANGED <<path, group, bundle, groupLruCache, pathLruCache>>

Return(t) ==
    /\ At(t, "done")
    /\ req' = [req EXCEPT ![t] = NoRequest]
    /\ UNCHANGED <<path, group, bundle, groupLruCache, pathLruCache>>

(* What a request does between build() and its return.                     *)
Navigation(t) ==
    \/ BuildGroup(t)
    \/ NameGroupClass(t)
    \/ GetGroup(t)
    \/ LoadGroup(t)
    \/ GetPath(t)
    \/ LoadPath(t)
    \/ Open(t)

-----------------------------------------------------------------------------
(* The comment of navigation, "model == group has to be obeyed".           *)
Conforming(r) == r.module = r.first /\ GroupOf(r) = r.first

(* The caches never mix up names: an entry is what a fresh lookup by       *)
(* Class.forName and getGroupMap would give for its key.                   *)
CachesAreTransparent ==
    /\ \A i \in DOMAIN groupLruCache : groupLruCache[i][1] = groupLruCache[i][2]
    /\ \A i \in DOMAIN pathLruCache :
           pathLruCache[i][2] = <<RequestAt(pathLruCache[i][1]).first,
                                  RequestAt(pathLruCache[i][1]).first>>

(* Every extra a caller handed over reaches the Activity it opens,         *)
(* whatever the bundle, which is never emptied, still holds from before.   *)
ExtrasAreDelivered ==
    \A t \in Threads :
        req[t].answer # None /\ RequestAt(req[t].answer).type = "ACTIVITY"
            => req[t].keys \subseteq req[t].extras
=============================================================================
