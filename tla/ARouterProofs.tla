--------------------------- MODULE ARouterProofs ---------------------------
(***************************************************************************)
(* Proofs about the router, from the annotation processor to the fields of *)
(* an opened Activity: the five invariants of module ARouter, for any set  *)
(* of routes, modules and fields and any size of the caches.               *)
(*                                                                         *)
(* The inductive invariant Inv has one part for each component; the router *)
(* is described by where its only request stands, and what it may have in  *)
(* its locals, its fields and its caches there.                            *)
(***************************************************************************)
EXTENDS ARouter, TLAPS

(* The group build() computes from a path.                                 *)
First(p) == RequestAt(p).first
Heads == {r.first : r \in Requests}

(* What navigation finds under a group: a Group class, a Path class listed *)
(* in it, and a route in that.                                             *)
Loadable(h) == HasGroupClass(h)
Listed(h) == HasGroupClass(h) /\ h \in installed[h].group
Found(r) == Listed(r.first) /\ r \in installed[r.first].path[r.first]

(* The locals of a request.                                                *)
RequestType ==
    [pc : {"idle", "group", "built", "getGroup", "loadGroup", "getPath", "loadPath",
           "open", "done"},
     asked : Paths \cup {None}, keys : SUBSET Keys, className : Heads \cup {None},
     loadGroup : Heads \cup {None}, loadPath : (Heads \X Heads) \cup {None},
     answer : Paths \cup {None}, extras : SUBSET Keys]

----------------------------------------------------------------------------
(* The Path classes hold routes of this build under their own group, the   *)
(* Group class lists none but them, and after a single round in which      *)
(* every file was written nothing is missing.                              *)
ProcessorInv ==
    /\ own \subseteq RoutesOf(compiled)
    /\ pending \subseteq own
    /\ mAllPathMap \subseteq own
    /\ mAllGroupMap \subseteq DOMAIN pathFile
    /\ groupFile \subseteq DOMAIN pathFile
    /\ \A g \in DOMAIN pathFile : pathFile[g] \subseteq {r \in own : GroupOf(r) = g}
    /\ rounds \in Nat
    /\ rounds = 0 => /\ pending = own
                     /\ mAllPathMap = {} /\ DOMAIN pathFile = {} /\ groupFile = {}
    /\ rounds = 1 /\ ~writeFailed /\ build # "failed" =>
           \A r \in own \ pending :
               GroupOf(r) \in groupFile /\ r \in pathFile[GroupOf(r)]
    /\ build \in {"ok", "installed"} => pending = {}

(* A round of the processor, whichever classes it is given and whichever   *)
(* files cannot be written.                                                *)
LEMMA ProcessStep ==
    ASSUME ProcessorInv, Processor!Process PROVE ProcessorInv'
  <1>1. PICK batch \in (SUBSET pending) \ {{}},
             failing \in SUBSET (GroupsIn(own) \cup {"Group"}) :
          /\ Processor!ProcessThrows(batch) \/ Processor!ProcessWrites(batch, failing)
          /\ pending' = pending \ batch
    BY DEF Processor!Process, Processor!GroupsIn, Processor!GroupOf, GroupsIn, GroupOf
  <1>2. own' = own /\ rounds' = rounds + 1 /\ build = "running"
    BY DEF Processor!Process
  <1>3. CASE Processor!ProcessThrows(batch)
    BY <1>1, <1>2, <1>3 DEF ProcessorInv, Processor!ProcessThrows
  <1>4. CASE Processor!ProcessWrites(batch, failing)
    <2> DEFINE beans == mAllPathMap \cup {r \in batch : r.wellFormed}
               fresh == GroupsIn(beans) \ (DOMAIN pathFile \cup failing)
    <2>1. /\ mAllPathMap' = beans
          /\ pathFile' = [g \in DOMAIN pathFile \cup fresh |->
                            IF g \in fresh THEN {r \in beans : GroupOf(r) = g}
                                           ELSE pathFile[g]]
          /\ mAllGroupMap' = mAllGroupMap \cup fresh
          /\ groupFile' = IF groupFile = {} /\ "Group" \notin failing
                            THEN mAllGroupMap' ELSE groupFile
          /\ build' = IF {r \in batch : r.wellFormed} = batch THEN build ELSE "failed"
          /\ writeFailed' = (writeFailed \/ failing # {})
      <3>1. \A x : Processor!GroupsIn(x) = GroupsIn(x) /\ \A r : Processor!GroupOf(r) = GroupOf(r)
        BY DEF Processor!GroupsIn, Processor!GroupOf, GroupsIn, GroupOf
      <3>. QED
        BY <1>4, <3>1 DEF Processor!ProcessWrites, Processor!CreatePathFile,
             Processor!CreateGroupFile, Processor!CheckRouterPath, Processor!Registered
    <2>2. beans \subseteq own /\ batch \subseteq pending /\ batch # {}
      BY <1>1 DEF ProcessorInv
    <2>3. DOMAIN pathFile' = DOMAIN pathFile \cup fresh
      BY <2>1
    <2>4. \A g \in DOMAIN pathFile' : pathFile'[g] \subseteq {r \in own : GroupOf(r) = g}
      BY <2>1, <2>2 DEF ProcessorInv
    <2>5. ASSUME rounds' = 1, ~writeFailed', build' # "failed"
          PROVE  \A r \in own' \ pending' :
                     GroupOf(r) \in groupFile' /\ r \in pathFile'[GroupOf(r)]
      <3>0. rounds = 0
        BY <1>2, <2>5 DEF ProcessorInv
      <3>1. rounds = 0 /\ failing = {} /\ beans = batch
        BY <2>1, <2>5, <3>0, Zenon DEF ProcessorInv
      <3>2. fresh = GroupsIn(batch) /\ groupFile' = mAllGroupMap'
        BY <2>1, <3>1 DEF ProcessorInv
      <3>3. own' \ pending' = batch
        BY <1>1, <1>2, <2>2, <3>1 DEF ProcessorInv
      <3>4. \A r \in batch : GroupOf(r) \in fresh
        BY <3>2 DEF GroupsIn
      <3>. QED
        BY <2>1, <3>1, <3>2, <3>3, <3>4
    <2>6. rounds' \in Nat /\ rounds' # 0
      BY <1>2 DEF ProcessorInv
    <2>7. build' \notin {"ok", "installed"}
      BY <1>2, <2>1
    <2>. QED
      BY <1>1, <1>2, <2>1, <2>2, <2>3, <2>4, <2>5, <2>6, <2>7 DEF ProcessorInv
  <1>. QED
    BY <1>1, <1>3, <1>4

(* Before the first round nothing is collected and nothing written.        *)
LEMMA ProcessorStart == ARouterInit => ProcessorInv
  BY BuildAssumption DEF ARouterInit, Processor!Init, ProcessorInv

(* Every step keeps the processor's invariant; installing and running the  *)
(* application does not touch its files.                                   *)
LEMMA ProcessorStep ==
    ASSUME ProcessorInv, ARouterNext PROVE ProcessorInv'
  <1>1. CASE Compile
    <2>1. CASE Processor!LastRound
      BY <2>1 DEF Processor!LastRound, ProcessorInv
    <2>2. CASE Processor!Done
      BY <2>2 DEF Processor!Done, Processor!vars, ProcessorInv
    <2>. QED
      BY <1>1, <2>1, <2>2, ProcessStep DEF Compile, Processor!Next
  <1>2. CASE InstallApk
    BY <1>2 DEF InstallApk, ProcessorInv
  <1>3. CASE Run
    BY <1>3 DEF Run, processorVars, ProcessorInv
  <1>. QED
    BY <1>1, <1>2, <1>3 DEF ARouterNext

----------------------------------------------------------------------------
(* What a cache returns for a key it holds is the value of one of its      *)
(* entries.                                                                *)
LEMMA LookupFindsEntry ==
    ASSUME NEW A, NEW B, NEW E \in SUBSET (A \X B), NEW lru \in Seq(E), NEW key,
           Cached(lru, key) # {}
    PROVE  /\ Place(lru, key) \in 1..Len(lru)
           /\ <<key, Lookup(lru, key)>> \in E
  <1>1. PICK i : i \in Cached(lru, key) /\ Place(lru, key) = i
    BY DEF Place
  <1>2. i \in 1..Len(lru) /\ lru[i][1] = key
    BY <1>1 DEF Cached
  <1>3. lru[i] \in E
    BY <1>2
  <1>4. lru[i] = <<lru[i][1], lru[i][2]>>
    BY <1>3
  <1>. QED
    BY <1>1, <1>2, <1>3, <1>4 DEF Lookup

(* Taking a key out of a cache leaves entries it had.                      *)
LEMMA WithoutKeepsEntries ==
    ASSUME NEW A, NEW B, NEW E \in SUBSET (A \X B), NEW lru \in Seq(E), NEW key
    PROVE  Without(lru, key) \in Seq(E)
  <1>1. CASE Cached(lru, key) = {}
    BY <1>1 DEF Without
  <1>2. CASE Cached(lru, key) # {}
    <2> DEFINE i == Place(lru, key)
    <2>1. i \in 1..Len(lru)
      BY <1>2, LookupFindsEntry
    <2>2. Without(lru, key) = SubSeq(lru, 1, i - 1) \o SubSeq(lru, i + 1, Len(lru))
      BY <1>2 DEF Without, RemoveAt
    <2> HIDE DEF i
    <2>3. SubSeq(lru, 1, i - 1) \in Seq(E) /\ SubSeq(lru, i + 1, Len(lru)) \in Seq(E)
      BY <2>1
    <2>. QED
      BY <2>2, <2>3
  <1>. QED
    BY <1>1, <1>2

(* A get only reorders a cache.                                            *)
LEMMA UsedKeepsEntries ==
    ASSUME NEW A, NEW B, NEW E \in SUBSET (A \X B), NEW lru \in Seq(E), NEW key
    PROVE  Used(lru, key) \in Seq(E)
  <1>1. Without(lru, key) \in Seq(E)
    BY WithoutKeepsEntries
  <1>2. CASE Cached(lru, key) # {}
    <2>1. <<key, Lookup(lru, key)>> \in E
      BY <1>2, LookupFindsEntry
    <2>2. Used(lru, key) = Append(Without(lru, key), <<key, Lookup(lru, key)>>)
      BY <1>2 DEF Used
    <2>. QED
      BY <1>1, <2>1, <2>2
  <1>. QED
    BY <1>2 DEF Used

(* A put adds its entry and, at the limit, drops the eldest one.           *)
LEMMA PutKeepsEntries ==
    ASSUME NEW A, NEW B, NEW E \in SUBSET (A \X B), NEW lru \in Seq(E), NEW key,
           NEW class, <<key, class>> \in E
    PROVE  PutIn(lru, key, class) \in Seq(E)
  <1> DEFINE w == Without(lru, key)
             new == Append(w, <<key, class>>)
  <1>1. w \in Seq(E)
    BY WithoutKeepsEntries
  <1> HIDE DEF w
  <1>2. new \in Seq(E) /\ new # << >>
    BY <1>1
  <1>3. PutIn(lru, key, class) = IF Len(new) > CacheSize THEN Tail(new) ELSE new
    BY DEF PutIn, w
  <1> HIDE DEF new
  <1>. QED
    BY <1>2, <1>3

----------------------------------------------------------------------------
(* A path names one request.                                               *)
LEMMA PathsAreUnique ==
    /\ \A p \in Paths : RequestAt(p) \in Requests /\ RequestAt(p).path = p
    /\ \A r \in Requests : RequestAt(r.path) = r
    /\ \A p \in Paths : First(p) \in Heads
  <1>1. \A p \in Paths : RequestAt(p) \in Requests /\ RequestAt(p).path = p
    BY DEF Paths, RequestAt
  <1>2. \A r \in Requests : RequestAt(r.path) = r
    <2> TAKE r \in Requests
    <2>1. r.path \in Paths
      BY DEF Paths
    <2>. QED
      BY <1>1, <2>1, RouterAssumption DEF Requests
  <1>. QED
    BY <1>1, <1>2 DEF First, Heads

(* What the caches may hold: for a group its own, loadable class; for a    *)
(* path the Path class of the group that build() computes from it.         *)
GroupEntries == {e \in Heads \X Heads : e[1] = e[2] /\ Loadable(e[1])}
PathEntries == {e \in Paths \X (Heads \X Heads) :
                    e[2] = <<First(e[1]), First(e[1])>> /\ Listed(First(e[1]))}

(* A request step by step: the fields of the singleton are those of this   *)
(* request, a class it has in its hands is the one a fresh lookup would    *)
(* give, and its answer is the route if it was found.                      *)
RequestInv(q) ==
    /\ q.pc # "idle" => /\ q.asked \in Paths /\ RequestAt(q.asked).wellFormed
                        /\ path = q.asked /\ q.keys \subseteq bundle
    /\ q.pc \notin {"idle", "group"} => group = First(q.asked)
    /\ q.pc \in {"getGroup", "loadGroup"} => q.className = First(q.asked)
    /\ q.pc \in {"getPath", "loadPath"} =>
           q.loadGroup = First(q.asked) /\ Loadable(First(q.asked))
    /\ q.pc = "open" => /\ q.loadPath = <<First(q.asked), First(q.asked)>>
                        /\ Listed(First(q.asked))
    /\ q.pc # "done" => q.answer = None
    /\ q.pc = "done" =>
           /\ q.answer = IF Found(RequestAt(q.asked)) THEN q.asked ELSE None
           /\ q.answer # None /\ RequestAt(q.asked).type = "ACTIVITY" => q.keys \subseteq q.extras

(* The router: its only caller's request, the bundle and the caches.       *)
RouterInv ==
    /\ req \in [{main} -> RequestType]
    /\ bundle \in SUBSET Keys
    /\ groupLruCache \in Seq(GroupEntries)
    /\ pathLruCache \in Seq(PathEntries)
    /\ RequestInv(req[main])

(* groupLruCache.get, hit or miss.                                         *)
LEMMA GetGroupStep ==
    ASSUME RouterInv, GetGroup(main), UNCHANGED installed PROVE RouterInv'
  <1> DEFINE q == req[main]
             found == Lookup(groupLruCache, group)
             h == First(q.asked)
  <1>1. q \in RequestType /\ q.pc = "getGroup" /\ q.asked \in Paths /\ group = h /\ h \in Heads
    BY PathsAreUnique DEF RouterInv, GetGroup, At, RequestInv
  <1>2. found = None \/ (found = h /\ Loadable(h))
    <2>1. CASE Cached(groupLruCache, group) = {}
      BY <2>1 DEF Lookup
    <2>2. CASE Cached(groupLruCache, group) # {}
      <3>1. GroupEntries \in SUBSET (Heads \X Heads)
        BY DEF GroupEntries
      <3>2. <<group, found>> \in GroupEntries
        BY <2>2, <3>1, LookupFindsEntry DEF RouterInv
      <3>. QED
        BY <1>1, <3>2 DEF GroupEntries
    <2>. QED
      BY <2>1, <2>2
  <1>3. groupLruCache' \in Seq(GroupEntries')
    <2>1. GroupEntries \in SUBSET (Heads \X Heads)
      BY DEF GroupEntries
    <2>2. GroupEntries' = GroupEntries
      BY DEF GroupEntries, Loadable, HasGroupClass
    <2>. QED
      BY <2>1, <2>2, UsedKeepsEntries DEF RouterInv, GetGroup
  <1> HIDE DEF found
  <1>4. /\ req' \in [{main} -> RequestType]
        /\ req'[main].pc = IF found = None THEN "loadGroup" ELSE "getPath"
        /\ req'[main].loadGroup = found
        /\ req'[main].asked = q.asked /\ req'[main].className = q.className
        /\ req'[main].keys = q.keys /\ req'[main].answer = q.answer
    BY <1>1, <1>2 DEF RouterInv, GetGroup, RequestType, found
  <1>. QED
    BY <1>1, <1>2, <1>3, <1>4 DEF RouterInv, GetGroup, RequestInv, PathEntries, Listed, Loadable,
       HasGroupClass

(* While the application runs the classes stay as they are, and so does    *)
(* what can be found among them.                                           *)
LEMMA InstalledStays ==
    ASSUME UNCHANGED installed
    PROVE  /\ GroupEntries' = GroupEntries /\ PathEntries' = PathEntries
           /\ \A h : Loadable(h)' = Loadable(h) /\ Listed(h)' = Listed(h)
           /\ \A r : Found(r)' = Found(r)
  BY DEF GroupEntries, PathEntries, Loadable, Listed, Found, HasGroupClass

(* Entries of the caches are pairs.                                        *)
LEMMA EntriesArePairs ==
    /\ GroupEntries \in SUBSET (Heads \X Heads)
    /\ PathEntries \in SUBSET (Paths \X (Heads \X Heads))
  BY DEF GroupEntries, PathEntries

(* build(path) begins a request.                                           *)
LEMMA BuildPathStep ==
    ASSUME RouterInv, NEW r \in Requests, BuildPath(main, r), UNCHANGED installed
    PROVE  RouterInv'
  <1>1. r.path \in Paths /\ RequestAt(r.path) = r /\ r.wellFormed
    BY PathsAreUnique DEF Paths, BuildPath
  <1> DEFINE q == [NoRequest EXCEPT !.pc = "group", !.asked = r.path]
  <1>2. q \in RequestType /\ q.pc = "group" /\ q.asked = r.path /\ q.keys = {} /\ q.answer = None
    BY <1>1 DEF NoRequest, RequestType
  <1>3. req' = [req EXCEPT ![main] = q] /\ path' = r.path
        /\ UNCHANGED <<group, bundle, groupLruCache, pathLruCache>>
    BY DEF BuildPath
  <1> HIDE DEF q
  <1>4. req' \in [{main} -> RequestType] /\ req'[main] = q
    BY <1>2, <1>3 DEF RouterInv
  <1>. QED
    BY <1>1, <1>2, <1>3, <1>4, InstalledStays DEF RouterInv, RequestInv

(* build(path) computes the group.                                         *)
LEMMA BuildGroupStep ==
    ASSUME RouterInv, BuildGroup(main), UNCHANGED installed
    PROVE  RouterInv'
  <1> DEFINE q == req[main]
  <1>1. /\ req' \in [{main} -> RequestType]
        /\ req'[main].pc = "built" /\ q.pc = "group"
        /\ req'[main].asked = q.asked
        /\ req'[main].keys = q.keys /\ req'[main].answer = q.answer
        /\ group' = First(q.asked)
        /\ UNCHANGED <<path, bundle, groupLruCache, pathLruCache>>
    BY DEF RouterInv, BuildGroup, RequestType, At, First
  <1>. QED
    BY <1>1, InstalledStays DEF RouterInv, RequestInv

(* withInt, withString and withParcelable add a key.                       *)
LEMMA WithStep ==
    ASSUME RouterInv, NEW k \in Keys, With(main, k), UNCHANGED installed
    PROVE  RouterInv'
  <1> DEFINE q == req[main]
  <1>1. /\ req' \in [{main} -> RequestType]
        /\ req'[main].pc = "built" /\ q.pc = "built"
        /\ req'[main].asked = q.asked
        /\ req'[main].keys = q.keys \cup {k} /\ req'[main].answer = q.answer
    BY DEF RouterInv, With, RequestType, At
  <1>2. bundle' = bundle \cup {k} /\ UNCHANGED <<path, group, groupLruCache, pathLruCache>>
    BY DEF With
  <1>. QED
    BY <1>1, <1>2, InstalledStays DEF RouterInv, RequestInv

(* navigation makes the name of the Group class from the field.            *)
LEMMA NameStep ==
    ASSUME RouterInv, NameGroupClass(main), UNCHANGED installed
    PROVE  RouterInv'
  <1> DEFINE q == req[main]
  <1>0. q.pc = "built" /\ q.asked \in Paths /\ group = First(q.asked) /\ group \in Heads
    BY PathsAreUnique DEF RouterInv, RequestInv, NameGroupClass, At
  <1>1. /\ req' \in [{main} -> RequestType]
        /\ req'[main].pc = "getGroup"
        /\ req'[main].asked = q.asked /\ req'[main].className = group
        /\ req'[main].keys = q.keys /\ req'[main].answer = q.answer
        /\ UNCHANGED <<path, group, bundle, groupLruCache, pathLruCache>>
    BY <1>0 DEF RouterInv, NameGroupClass, RequestType
  <1>. QED
    BY <1>0, <1>1, InstalledStays DEF RouterInv, RequestInv

(* Class.forName for a Group class, found or not.                          *)
LEMMA LoadGroupStep ==
    ASSUME RouterInv, LoadGroup(main), UNCHANGED installed
    PROVE  RouterInv'
  <1> DEFINE q == req[main]
             h == First(q.asked)
  <1>0. /\ q.pc = "loadGroup" /\ q.asked \in Paths /\ group = h /\ h \in Heads
        /\ q.className = h /\ q.answer = None /\ q \in RequestType
    BY PathsAreUnique DEF RouterInv, RequestInv, LoadGroup, At
  <1>1. CASE HasGroupClass(h)
    <2>1. /\ req' \in [{main} -> RequestType]
          /\ req'[main].pc = "getPath" /\ req'[main].loadGroup = h
          /\ req'[main].asked = q.asked
          /\ req'[main].keys = q.keys /\ req'[main].answer = q.answer
          /\ UNCHANGED <<path, group, bundle, pathLruCache>>
      BY <1>0, <1>1 DEF RouterInv, LoadGroup, RequestType
    <2>2. <<h, h>> \in GroupEntries
      BY <1>0, <1>1 DEF GroupEntries, Loadable
    <2>3. groupLruCache' = PutIn(groupLruCache, h, h)
      BY <1>0, <1>1 DEF LoadGroup
    <2>4. groupLruCache' \in Seq(GroupEntries)
      BY <2>2, <2>3, EntriesArePairs, PutKeepsEntries DEF RouterInv
    <2>. QED
      BY <1>0, <1>1, <2>1, <2>4, InstalledStays DEF RouterInv, RequestInv, Loadable
  <1>2. CASE ~HasGroupClass(h)
    <2>1. /\ req' \in [{main} -> RequestType]
          /\ req'[main].pc = "done"
          /\ req'[main].asked = q.asked
          /\ req'[main].keys = q.keys /\ req'[main].answer = q.answer
          /\ UNCHANGED <<path, group, bundle, groupLruCache, pathLruCache>>
      BY <1>0, <1>2 DEF RouterInv, LoadGroup, RequestType
    <2>2. ~Found(RequestAt(q.asked))
      BY <1>2 DEF Found, Listed, First
    <2>. QED
      BY <1>0, <2>1, <2>2, InstalledStays DEF RouterInv, RequestInv
  <1>. QED
    BY <1>1, <1>2

(* pathLruCache.get, hit or miss.                                          *)
LEMMA GetPathStep ==
    ASSUME RouterInv, GetPath(main), UNCHANGED installed PROVE RouterInv'
  <1> DEFINE q == req[main]
             found == Lookup(pathLruCache, path)
             h == First(q.asked)
  <1>1. /\ q \in RequestType /\ q.pc = "getPath" /\ q.asked \in Paths /\ path = q.asked
        /\ h \in Heads /\ q.loadGroup = h /\ Loadable(h)
    BY PathsAreUnique DEF RouterInv, GetPath, At, RequestInv
  <1>2. found = None \/ (found = <<h, h>> /\ Listed(h))
    <2>1. CASE Cached(pathLruCache, path) = {}
      BY <2>1 DEF Lookup
    <2>2. CASE Cached(pathLruCache, path) # {}
      <3>2. <<path, found>> \in PathEntries
        BY <2>2, EntriesArePairs, LookupFindsEntry DEF RouterInv
      <3>. QED
        BY <1>1, <3>2 DEF PathEntries
    <2>. QED
      BY <2>1, <2>2
  <1>3. pathLruCache' \in Seq(PathEntries)
    BY EntriesArePairs, UsedKeepsEntries DEF RouterInv, GetPath
  <1> HIDE DEF found
  <1>4. /\ req' \in [{main} -> RequestType]
        /\ req'[main].pc = IF found = None THEN "loadPath" ELSE "open"
        /\ req'[main].loadPath = found
        /\ req'[main].asked = q.asked /\ req'[main].loadGroup = q.loadGroup
        /\ req'[main].keys = q.keys /\ req'[main].answer = q.answer
        /\ UNCHANGED <<path, group, bundle, groupLruCache>>
    BY <1>1, <1>2 DEF RouterInv, GetPath, RequestType, found
  <1>. QED
    BY <1>1, <1>2, <1>3, <1>4, InstalledStays DEF RouterInv, RequestInv

(* The Path class from the Group class, listed or not.                     *)
LEMMA LoadPathStep ==
    ASSUME RouterInv, LoadPath(main), UNCHANGED installed PROVE RouterInv'
  <1> DEFINE q == req[main]
             h == First(q.asked)
             class == <<h, h>>
  <1>0. /\ q \in RequestType /\ q.pc = "loadPath" /\ q.asked \in Paths /\ path = q.asked
        /\ group = h /\ h \in Heads /\ q.loadGroup = h /\ Loadable(h) /\ q.answer = None
    BY PathsAreUnique DEF RouterInv, LoadPath, At, RequestInv
  <1>1. CASE h \in installed[h].group
    <2>1. /\ req' \in [{main} -> RequestType]
          /\ req'[main].pc = "open" /\ req'[main].loadPath = class
          /\ req'[main].asked = q.asked
          /\ req'[main].keys = q.keys /\ req'[main].answer = q.answer
          /\ UNCHANGED <<path, group, bundle, groupLruCache>>
      BY <1>0, <1>1 DEF RouterInv, LoadPath, RequestType
    <2>2. Listed(h) /\ <<path, class>> \in PathEntries
      BY <1>0, <1>1 DEF PathEntries, Loadable, Listed
    <2>3. pathLruCache' = PutIn(pathLruCache, path, class)
      BY <1>0, <1>1 DEF LoadPath
    <2>4. pathLruCache' \in Seq(PathEntries)
      BY <2>2, <2>3, EntriesArePairs, PutKeepsEntries DEF RouterInv
    <2>. QED
      BY <1>0, <2>1, <2>2, <2>4, InstalledStays DEF RouterInv, RequestInv
  <1>2. CASE h \notin installed[h].group
    <2>0. /\ req' = [req EXCEPT ![main].pc = "done"]
          /\ UNCHANGED <<path, group, bundle, groupLruCache, pathLruCache>>
      BY <1>0, <1>2 DEF LoadPath
    <2>1. /\ req' \in [{main} -> RequestType]
          /\ req'[main].pc = "done"
          /\ req'[main].asked = q.asked
          /\ req'[main].keys = q.keys /\ req'[main].answer = q.answer
          /\ UNCHANGED <<path, group, bundle, groupLruCache, pathLruCache>>
      BY <1>0, <2>0 DEF RouterInv, RequestType
    <2>2. ~Found(RequestAt(q.asked))
      BY <1>2 DEF Found, Listed, First
    <2>. QED
      BY <1>0, <2>1, <2>2, InstalledStays DEF RouterInv, RequestInv
  <1>. QED
    BY <1>1, <1>2

(* What Path classes hold are routes.                                      *)
OnlyRequests == \A h : Listed(h) => installed[h].path[h] \subseteq Requests

(* The end of navigation: the route is opened with the bundle, or null is  *)
(* returned.                                                               *)
LEMMA OpenStep ==
    ASSUME RouterInv, OnlyRequests, Open(main), UNCHANGED installed PROVE RouterInv'
  <1> DEFINE q == req[main]
             h == First(q.asked)
             r == RequestAt(q.asked)
             beans == {b \in installed[h].path[h] : b.path = path}
             given == {k \in bundle : \E b \in beans : b.type = "ACTIVITY"}
  <1>0. /\ q \in RequestType /\ q.pc = "open" /\ q.asked \in Paths /\ path = q.asked
        /\ group = h /\ h = r.first /\ q.loadPath = <<h, h>> /\ Listed(h)
        /\ q.keys \subseteq bundle /\ r.path = path /\ r \in Requests
    BY PathsAreUnique DEF RouterInv, Open, At, RequestInv, First
  <1>1. beans = IF Found(r) THEN {r} ELSE {}
    <2>1. \A b \in beans : b = r
      BY <1>0, PathsAreUnique DEF OnlyRequests
    <2>. QED
      BY <1>0, <2>1 DEF Found
  <1>2. given \subseteq Keys /\ (Found(r) /\ r.type = "ACTIVITY" => given = bundle)
    BY <1>1 DEF RouterInv
  <1> DEFINE answer == IF beans = {} THEN None ELSE path
  <1>3. /\ req' = [req EXCEPT ![main].pc = "done", ![main].answer = answer,
                              ![main].extras = given]
        /\ UNCHANGED <<path, group, bundle, groupLruCache, pathLruCache>>
    <2> DEFINE class == req[main].loadPath
    <2>1. class[1] = h /\ class[2] = h
      BY <1>0
    <2>2. /\ beans = {b \in installed[class[1]].path[class[2]] : b.path = path}
          /\ given = {k \in bundle :
                        \E b \in {b \in installed[class[1]].path[class[2]] : b.path = path} :
                            b.type = "ACTIVITY"}
      BY <2>1
    <2> HIDE DEF class, beans, given
    <2>. QED
      BY <2>2, Zenon DEF Open, class
  <1>4. answer \in Paths \cup {None}
    BY <1>0
  <1> HIDE DEF given, answer
  <1>5. /\ req' \in [{main} -> RequestType]
        /\ req'[main].pc = "done" /\ req'[main].asked = q.asked
        /\ req'[main].keys = q.keys /\ req'[main].extras = given
        /\ req'[main].answer = answer
    BY <1>0, <1>2, <1>3, <1>4 DEF RouterInv, RequestType
  <1>6. answer = IF Found(r) THEN path ELSE None
    BY <1>1 DEF answer
  <1>. QED
    BY <1>0, <1>2, <1>3, <1>5, <1>6, InstalledStays DEF RouterInv, RequestInv

(* navigation returns to its caller.                                       *)
LEMMA ReturnStep ==
    ASSUME RouterInv, Return(main), UNCHANGED installed PROVE RouterInv'
  <1>1. NoRequest \in RequestType /\ NoRequest.pc = "idle" /\ NoRequest.answer = None
    BY DEF NoRequest, RequestType
  <1>2. req' \in [{main} -> RequestType] /\ req'[main] = NoRequest
    BY <1>1 DEF RouterInv, Return
  <1>. QED
    BY <1>1, <1>2, InstalledStays DEF RouterInv, RequestInv, Return

(* Every step of navigation keeps the router's invariant.                  *)
LEMMA NavigationStep ==
    ASSUME RouterInv, OnlyRequests, Navigation(main), UNCHANGED installed PROVE RouterInv'
  BY BuildGroupStep, NameStep, GetGroupStep, LoadGroupStep, GetPathStep, LoadPathStep, OpenStep
     DEF Navigation

(* What is installed: complete classes for the modules built before, what  *)
(* the processor wrote for this one; before that, no request was made.     *)
InstalledInv ==
    /\ DOMAIN installed = Modules
    /\ \A m \in Modules \ {compiled} : installed[m] = Complete(RoutesOf(m))
    /\ build = "installed" => installed[compiled] = [group |-> groupFile, path |-> pathFile]
    /\ build # "installed" => /\ req[main].pc = "idle"
                              /\ groupLruCache = << >> /\ pathLruCache = << >>

(* A route that is found is one of the sources that keeps to the rule      *)
(* module = group, and each of these is found, in the compiled module if   *)
(* the build was undisturbed.                                              *)
LEMMA FoundRoutes ==
    ASSUME ProcessorInv, InstalledInv, build = "installed"
    PROVE  /\ OnlyRequests
           /\ \A r \in Requests : Found(r) => r \in Sources /\ Conforming(r)
           /\ \A r \in Requests :
                  r \in Sources /\ Conforming(r) /\ (r.module # compiled \/ Undisturbed) => Found(r)
           /\ Sources \subseteq Declared
  <1>1. ASSUME NEW h, Listed(h), NEW r \in installed[h].path[h]
        PROVE  r \in Sources /\ r.module = h /\ GroupOf(r) = h
    <2>1. h \in Modules /\ h \in installed[h].group
      BY <1>1 DEF Listed, HasGroupClass
    <2>2. CASE h # compiled
      <3>1. installed[h].path[h] = PathClass(RoutesOf(h), h)
        BY <2>1, <2>2 DEF InstalledInv, Complete
      <3>. QED
        BY <1>1, <2>1, <2>2, <3>1 DEF PathClass, RoutesOf, Sources
    <2>3. CASE h = compiled
      <3>1. h \in groupFile /\ installed[h].path = pathFile
        BY <2>1, <2>3 DEF InstalledInv
      <3>2. pathFile[h] \subseteq {s \in own : GroupOf(s) = h} /\ own \subseteq RoutesOf(compiled)
        BY <3>1 DEF ProcessorInv
      <3>. QED
        BY <1>1, <2>3, <3>1, <3>2 DEF RoutesOf, Sources
    <2>. QED
      BY <2>2, <2>3
  <1>2. Sources \subseteq Declared
    BY DEF Sources, RoutesOf, ProcessorInv
  <1>3. OnlyRequests
    BY <1>1, <1>2 DEF OnlyRequests, Requests
  <1>4. ASSUME NEW r \in Requests, Found(r) PROVE r \in Sources /\ Conforming(r)
    BY <1>1, <1>4 DEF Found, Conforming
  <1>5. ASSUME NEW r \in Requests, r \in Sources, Conforming(r),
               r.module # compiled \/ Undisturbed
        PROVE  Found(r)
    <2>0. r.first = r.module /\ GroupOf(r) = r.module /\ r \in Declared /\ r.module \in Modules
      BY <1>2, <1>5, RoutesAssumption DEF Conforming
    <2>1. CASE r.module # compiled
      <3>1. r \in RoutesOf(r.module)
        BY <2>0 DEF RoutesOf
      <3>2. /\ r.module \in GroupClass(RoutesOf(r.module))
            /\ r \in PathClass(RoutesOf(r.module), r.module)
        BY <2>0, <3>1 DEF GroupClass, GroupsIn, PathClass
      <3>3. /\ installed[r.module].group = GroupClass(RoutesOf(r.module))
            /\ installed[r.module].path[r.module] = PathClass(RoutesOf(r.module), r.module)
        BY <2>0, <2>1, <3>2 DEF InstalledInv, Complete
      <3>. QED
        BY <2>0, <3>2, <3>3 DEF Found, Listed, HasGroupClass
    <2>2. CASE r.module = compiled
      <3>1. r \in own
        BY <1>5, <2>2 DEF Sources, RoutesOf
      <3>2. rounds = 0 \/ rounds = 1
        BY <1>5, <2>2 DEF Undisturbed, ProcessorInv
      <3>3. pending = {}
        BY DEF ProcessorInv
      <3>4. compiled \in groupFile /\ r \in pathFile[compiled]
        BY <1>5, <2>0, <2>2, <3>1, <3>2, <3>3 DEF Undisturbed, ProcessorInv
      <3>5. installed[compiled].group = groupFile /\ installed[compiled].path = pathFile
        BY DEF InstalledInv
      <3>. QED
        BY <2>0, <2>2, <3>4, <3>5 DEF Found, Listed, HasGroupClass
    <2>. QED
      BY <2>1, <2>2
  <1>. QED
    BY <1>2, <1>3, <1>4, <1>5

(* The Activity in front: the fields that are assigned follow their        *)
(* annotations, the Call fields in todo are still to come.                 *)
ParameterInv ==
    /\ activity \in Activities
    /\ phase \in {"created", "loading"} => activity \in Callers
    /\ DOMAIN values = Names(activity)
    /\ todo \subseteq (IF phase \in {"loading", "crashed"} THEN CallFields(activity) ELSE {})
    /\ phase \in {"loading", "loaded"} /\ activity \in Callers =>
           \A f \in Fields[activity] : f \notin todo /\ f.kind # "PARCELABLE" => Follows(f)

(* A new Activity has no field assigned yet.                               *)
LEMMA CreatedStep ==
    ASSUME NEW a \in Activities, NEW given, Created(a, given) PROVE ParameterInv'
  BY DEF Created, ParameterInv

(* Steps of the router leave the Activity alone.                           *)
LEMMA ParameterStays ==
    ASSUME ParameterInv, UNCHANGED parameterVars PROVE ParameterInv'
  BY DEF parameterVars, ParameterInv, Follows

(* loadParameter assigns every field that is read from the Intent.         *)
LEMMA LoadParameterStep ==
    ASSUME ParameterInv, LoadParameter PROVE ParameterInv'
  <1>1. activity \in Callers /\ UNCHANGED <<activity, extras>>
    BY DEF ParameterInv, LoadParameter
  <1>2. CASE ~HasParameterClass(activity)
    BY <1>1, <1>2 DEF ParameterInv, LoadParameter
  <1>3. CASE HasParameterClass(activity)
    <2>1. /\ values' = [n \in Names(activity) |->
                          IF FieldNamed(activity, n) \in CallFields(activity)
                            THEN values[n]
                            ELSE Assigned(FieldNamed(activity, n), extras)]
          /\ todo' = CallFields(activity)
          /\ phase' = IF todo' = {} THEN "loaded" ELSE "loading"
      BY <1>3 DEF LoadParameter, GetParameter, PhaseAfter
    <2>2. ASSUME NEW f \in Fields[activity], f \notin todo', f.kind # "PARCELABLE"
          PROVE  Follows(f)'
      <3>1. f.name \in Names(activity) /\ FieldNamed(activity, f.name) = f
        BY <1>1, ParameterAssumption DEF Names, FieldNamed
      <3>2. f.kind # "CALL"
        BY <2>1, <2>2 DEF CallFields
      <3>3. values'[f.name] = Assigned(f, extras)
        BY <2>1, <2>2, <3>1
      <3>. QED
        BY <1>1, <2>2, <3>2, <3>3 DEF Follows, Assigned, StatementKey
    <2>. QED
      BY <1>1, <2>1, <2>2 DEF ParameterInv
  <1>. QED
    BY <1>2, <1>3

(* A Call field gets what its request returned: the route its annotation   *)
(* names if there is one that conforms, and null otherwise.                *)
LEMMA ReturnCallStep ==
    ASSUME ParameterInv, RouterInv, ProcessorInv, InstalledInv, build = "installed", ReturnCall
    PROVE  ParameterInv'
  <1>1. /\ phase = "loading" /\ activity \in Callers /\ req[main].pc = "done"
        /\ todo \subseteq CallFields(activity) /\ DOMAIN values = Names(activity)
        /\ UNCHANGED <<activity, extras>>
    BY DEF ParameterInv, ReturnCall, Return, At
  <1> DEFINE asked == req[main].asked
             r == RequestAt(asked)
             answer == req[main].answer
  <1>2. PICK f \in todo :
           /\ AnnotationValue(f) = asked
           /\ values' = [values EXCEPT ![f.name] = IF answer = None THEN "null" ELSE answer]
           /\ todo' = todo \ {f}
           /\ phase' = PhaseAfter(todo')
    BY DEF ReturnCall
  <1>3. /\ asked \in Paths /\ r.wellFormed /\ r \in Requests /\ r.path = asked
        /\ answer = IF Found(r) THEN asked ELSE None
    BY <1>1, PathsAreUnique DEF RouterInv, RequestInv
  <1>4. f \in Fields[activity] /\ f.kind = "CALL"
    BY <1>1, <1>2 DEF CallFields
  <1>5. f.annotation = asked
    BY <1>1, <1>2, <1>3, <1>4, ParameterAssumption DEF AnnotationValue
  <1>6. Found(r) <=> \E s \in Declared : s.path = f.annotation /\ Conforming(s)
    <2>1. ASSUME Found(r) PROVE r \in Declared /\ r.path = f.annotation /\ Conforming(r)
      BY <1>3, <1>5, <2>1, FoundRoutes
    <2>2. ASSUME NEW s \in Declared, s.path = f.annotation, Conforming(s) PROVE Found(r)
      <3>1. s = r
        BY <1>5, <2>2, PathsAreUnique DEF Requests
      <3>2. s \notin RoutesOf(compiled)
        BY <1>1, <1>2, <1>3, <2>2, <3>1, BuildAssumption
      <3>3. s.module \in Modules \ {compiled} /\ s \in RoutesOf(s.module)
        BY <3>2, RoutesAssumption DEF RoutesOf
      <3>4. s \in Sources
        BY <3>3 DEF Sources
      <3>. QED
        BY <1>3, <2>2, <3>1, <3>3, <3>4, FoundRoutes
    <2>. QED
      BY <2>1, <2>2
  <1>7. Follows(f)'
    <2>1. f.name \in Names(activity)
      BY <1>1, <1>4 DEF Names
    <2>2. values'[f.name] = IF answer = None THEN "null" ELSE answer
      BY <1>1, <1>2, <2>1
    <2>3. asked # None
      BY <1>3, RouterAssumption DEF Requests
    <2>. QED
      BY <1>3, <1>4, <1>5, <1>6, <2>2, <2>3 DEF Follows
  <1>8. ASSUME NEW g \in Fields[activity], g # f, g \notin todo', g.kind # "PARCELABLE"
        PROVE  Follows(g)'
    <2>1. Follows(g) /\ g.name # f.name
      BY <1>1, <1>2, <1>4, <1>8, ParameterAssumption DEF ParameterInv
    <2>2. values'[g.name] = values[g.name]
      <3>1. g.name \in Names(activity)
        BY <1>1 DEF Names
      <3>. QED
        BY <1>1, <1>2, <2>1, <3>1
    <2>. QED
      BY <1>1, <2>1, <2>2 DEF Follows
  <1>9. DOMAIN values' = Names(activity')
    BY <1>1, <1>2
  <1>10. todo' \subseteq (IF phase' \in {"loading", "crashed"} THEN CallFields(activity') ELSE {})
    BY <1>1, <1>2 DEF PhaseAfter
  <1>. QED
    BY <1>1, <1>2, <1>7, <1>8, <1>9, <1>10 DEF ParameterInv

(* The generated code's own requests are requests like others.             *)
LEMMA BuildCallRouter ==
    ASSUME RouterInv, BuildCall, UNCHANGED installed PROVE RouterInv'
  <1>1. PICK f \in todo :
           \/ /\ AnnotationValue(f) \in Paths
              /\ BuildPath(main, RequestAt(AnnotationValue(f)))
           \/ UNCHANGED vars
    BY DEF BuildCall
  <1>2. CASE UNCHANGED vars
    BY <1>2, InstalledStays DEF vars, RouterInv, RequestInv
  <1>. QED
    BY <1>1, <1>2, PathsAreUnique, BuildPathStep

(* They assign nothing before they return; a malformed path crashes.       *)
LEMMA BuildCallParameter ==
    ASSUME ParameterInv, BuildCall PROVE ParameterInv'
  <1>1. CASE UNCHANGED parameterVars
    BY <1>1, ParameterStays
  <1>2. CASE phase' = "crashed" /\ UNCHANGED <<cache, activity, extras, values, todo>>
             /\ phase = "loading"
    BY <1>2 DEF ParameterInv
  <1>. QED
    BY <1>1, <1>2 DEF BuildCall

(* The inductive invariant of the whole.                                   *)
Inv == ProcessorInv /\ InstalledInv /\ RouterInv /\ ParameterInv

(* A new instance of RouterManager.                                        *)
LEMMA FreshRouter ==
    ASSUME path = None, req = [t \in Threads |-> NoRequest], bundle = {},
           groupLruCache = << >>, pathLruCache = << >>
    PROVE  RouterInv /\ req[main].pc = "idle"
  <1>1. NoRequest \in RequestType /\ NoRequest.pc = "idle" /\ NoRequest.answer = None
    BY DEF NoRequest, RequestType
  <1>2. req \in [{main} -> RequestType] /\ req[main] = NoRequest
    BY <1>1, ParameterAssumption
  <1>. QED
    BY <1>1, <1>2 DEF RouterInv, RequestInv

(* The invariant holds before anything was compiled.                       *)
LEMMA InvStart == ARouterInit => Inv
  <1> SUFFICES ASSUME ARouterInit PROVE Inv
    OBVIOUS
  <1>1. ProcessorInv
    BY ProcessorStart
  <1>2. RouterInv /\ req[main].pc = "idle"
    BY FreshRouter DEF ARouterInit, ParameterInit, Init
  <1>3. ParameterInv
    BY ParameterAssumption DEF ARouterInit, ParameterInit, ParameterInv
  <1>4. InstalledInv
    BY <1>2 DEF ARouterInit, ParameterInit, Init, Processor!Init, InstalledInv
  <1>. QED
    BY <1>1, <1>2, <1>3, <1>4 DEF Inv

(* A step of the processor.                                                *)
LEMMA CompileStep == ASSUME Inv, Compile PROVE Inv'
  <1>1. ProcessorInv'
    BY ProcessorStep DEF Inv, ARouterNext
  <1>2. build # "installed" /\ build' # "installed"
    BY DEF Compile, Processor!Next, Processor!Process, Processor!ProcessThrows,
           Processor!ProcessWrites, Processor!LastRound, Processor!Done, Processor!vars
  <1>3. UNCHANGED <<path, group, bundle, groupLruCache, pathLruCache, req, installed>>
        /\ UNCHANGED parameterVars
    BY DEF Compile, allVars, vars
  <1>4. RouterInv'
    BY <1>3, InstalledStays DEF Inv, RouterInv, RequestInv
  <1>5. ParameterInv'
    BY <1>3, ParameterStays DEF Inv
  <1>6. InstalledInv'
    BY <1>2, <1>3 DEF Inv, InstalledInv
  <1>. QED
    BY <1>1, <1>4, <1>5, <1>6 DEF Inv

(* Installing the application: the classes change, but nobody has looked   *)
(* at them yet.                                                            *)
LEMMA InstallStep == ASSUME Inv, InstallApk PROVE Inv'
  <1>1. ProcessorInv'
    BY ProcessorStep DEF Inv, ARouterNext
  <1>2. build # "installed" /\ build' = "installed"
        /\ UNCHANGED <<groupFile, pathFile>>
        /\ installed' = [installed EXCEPT ![compiled] = [group |-> groupFile, path |-> pathFile]]
    BY DEF InstallApk
  <1>3. UNCHANGED <<path, group, bundle, groupLruCache, pathLruCache, req>>
        /\ UNCHANGED parameterVars
    BY DEF InstallApk, allVars, vars
  <1>4. req[main].pc = "idle" /\ groupLruCache = << >> /\ pathLruCache = << >>
    BY <1>2 DEF Inv, InstalledInv
  <1>5. RouterInv'
    <2>1. /\ req' \in [{main} -> RequestType] /\ bundle' \in SUBSET Keys
          /\ req'[main].answer = None /\ req'[main].pc = "idle"
      BY <1>3, <1>4 DEF Inv, RouterInv, RequestInv
    <2>2. groupLruCache' \in Seq(GroupEntries') /\ pathLruCache' \in Seq(PathEntries')
      BY <1>3, <1>4
    <2>. QED
      BY <2>1, <2>2 DEF RouterInv, RequestInv
  <1>6. ParameterInv'
    BY <1>3, ParameterStays DEF Inv
  <1>7. InstalledInv'
    BY <1>2, BuildAssumption DEF Inv, InstalledInv
  <1>. QED
    BY <1>1, <1>5, <1>6, <1>7 DEF Inv

(* A step of the application, the router or the generated code.            *)
LEMMA RunStep == ASSUME Inv, Run PROVE Inv'
  <1>0. /\ build = "installed" /\ UNCHANGED <<installed, build, groupFile, pathFile>>
        /\ ParameterNext /\ RouterInv /\ ParameterInv /\ ProcessorInv /\ InstalledInv
    BY DEF Run, processorVars, Inv
  <1>1. ProcessorInv' /\ OnlyRequests
    BY <1>0, ProcessorStep, FoundRoutes DEF Inv, ARouterNext
  <1>2. InstalledInv'
    BY <1>0 DEF InstalledInv
  <1>3. RouterInv' /\ ParameterInv'
    <2>1. CASE Application
      <3>1. UNCHANGED parameterVars
        BY <2>1 DEF Application
      <3>2. CASE UNCHANGED vars
        BY <1>0, <3>1, <3>2, InstalledStays, ParameterStays DEF vars, RouterInv, RequestInv
      <3>3. CASE \E r \in Requests : BuildPath(main, r)
        BY <1>0, <3>1, <3>3, BuildPathStep, ParameterStays
      <3>4. CASE \E k \in Keys : With(main, k)
        BY <1>0, <3>1, <3>4, WithStep, ParameterStays
      <3>. QED
        BY <2>1, <3>2, <3>3, <3>4 DEF Application, BuildThrows
    <2>2. CASE Navigation(main) /\ UNCHANGED parameterVars
      BY <1>0, <1>1, <2>2, NavigationStep, ParameterStays
    <2>3. CASE ReturnToApplication
      <3>1. RouterInv'
        BY <1>0, <2>3, ReturnStep DEF ReturnToApplication
      <3>2. ParameterInv'
        BY <1>0, <2>3, CreatedStep, ParameterStays DEF ReturnToApplication
      <3>. QED
        BY <3>1, <3>2
    <2>4. CASE LoadParameter
      <3>1. UNCHANGED vars
        BY <2>4 DEF LoadParameter
      <3>2. RouterInv'
        BY <1>0, <3>1, InstalledStays DEF vars, RouterInv, RequestInv
      <3>. QED
        BY <1>0, <2>4, <3>2, LoadParameterStep
    <2>5. CASE BuildCall
      BY <1>0, <2>5, BuildCallRouter, BuildCallParameter
    <2>6. CASE ReturnCall
      <3>1. RouterInv'
        BY <1>0, <2>6, ReturnStep DEF ReturnCall
      <3>. QED
        BY <1>0, <2>6, <3>1, ReturnCallStep
    <2>7. CASE Restart
      <3>1. RouterInv'
        <4>1. NoRequest \in RequestType /\ NoRequest.pc = "idle" /\ NoRequest.answer = None
          BY DEF NoRequest, RequestType
        <4>2. req' \in [{main} -> RequestType] /\ req'[main] = NoRequest
          BY <2>7, <4>1, ParameterAssumption DEF Restart
        <4>. QED
          BY <2>7, <4>1, <4>2 DEF Restart, RouterInv, RequestInv
      <3>2. ParameterInv'
        BY <2>7, ParameterAssumption, CreatedStep DEF Restart
      <3>. QED
        BY <3>1, <3>2
    <2>. QED
      BY <1>0, <2>1, <2>2, <2>3, <2>4, <2>5, <2>6, <2>7 DEF ParameterNext
  <1>. QED
    BY <1>1, <1>2, <1>3 DEF Inv

(* Every step keeps the invariant.                                         *)
LEMMA InvStep == Inv /\ [ARouterNext]_<<allVars, installed, processorVars>> => Inv'
  <1> SUFFICES ASSUME Inv, [ARouterNext]_<<allVars, installed, processorVars>> PROVE Inv'
    OBVIOUS
  <1>1. CASE UNCHANGED <<allVars, installed, processorVars>>
    <2>1. ProcessorInv' /\ InstalledInv'
      BY <1>1 DEF Inv, processorVars, allVars, vars, ProcessorInv, InstalledInv
    <2>2. RouterInv'
      BY <1>1, InstalledStays DEF Inv, allVars, vars, RouterInv, RequestInv
    <2>3. ParameterInv'
      BY <1>1, ParameterStays DEF Inv, allVars
    <2>. QED
      BY <2>1, <2>2, <2>3 DEF Inv
  <1>. QED
    BY <1>1, CompileStep, InstallStep, RunStep DEF ARouterNext

(* The generated Group class names only Path classes that were written, in *)
(* however many rounds the processor runs and whatever files fail.         *)
THEOREM GroupFileCorrect == ARouterSpec => []GroupFileCompiles
  <1>1. Inv => GroupFileCompiles
    BY DEF Inv, ProcessorInv, GroupFileCompiles, Processor!GroupFileCompiles
  <1>. QED
    BY <1>1, InvStart, InvStep, PTL DEF ARouterSpec

(* With one calling thread, both LruCaches only ever hold what a fresh     *)
(* lookup by name would give for their key, for any size of them.          *)
THEOREM CachesCorrect == ARouterSpec => []CachesAreTransparent
  <1>1. ASSUME Inv PROVE CachesAreTransparent
    <2>1. \A i \in DOMAIN groupLruCache : groupLruCache[i] \in GroupEntries
      BY <1>1 DEF Inv, RouterInv
    <2>2. \A i \in DOMAIN pathLruCache : pathLruCache[i] \in PathEntries
      BY <1>1 DEF Inv, RouterInv
    <2>. QED
      BY <2>1, <2>2 DEF CachesAreTransparent, GroupEntries, PathEntries, First
  <1>. QED
    BY <1>1, InvStart, InvStep, PTL DEF ARouterSpec

(* The extras of a request reach the Activity it opens, although the       *)
(* bundle is shared and never emptied.                                     *)
THEOREM ExtrasCorrect == ARouterSpec => []ExtrasAreDelivered
  <1>1. ASSUME Inv PROVE ExtrasAreDelivered
    <2>1. RequestInv(req[main])
      BY <1>1 DEF Inv, RouterInv
    <2>2. ASSUME req[main].answer # None
          PROVE  req[main].pc = "done" /\ req[main].answer = req[main].asked
      BY <2>1, <2>2 DEF RequestInv
    <2>. QED
      BY <2>1, <2>2, ParameterAssumption DEF ExtrasAreDelivered, RequestInv
  <1>. QED
    BY <1>1, InvStart, InvStep, PTL DEF ARouterSpec

(* A request is answered with the class annotated with its path or with    *)
(* null; never for a route that breaks the rule module = group, and always *)
(* for one that keeps it, unless the build was disturbed by a second round *)
(* or a failed write.                                                      *)
THEOREM ReachedCorrect == ARouterSpec => []BuiltRouteIsReached
  <1>1. ASSUME Inv PROVE BuiltRouteIsReached
    <2> DEFINE q == req[main]
               r == RequestAt(q.asked)
    <2>1. SUFFICES ASSUME q.pc = "done"
                   PROVE  /\ q.answer \in {None, r.path}
                          /\ q.answer # None => r \in Sources /\ Conforming(r)
                          /\ r \in Sources /\ Conforming(r) /\ Undisturbed => q.answer # None
      BY ParameterAssumption DEF BuiltRouteIsReached, At
    <2>2. build = "installed"
      BY <1>1, <2>1 DEF Inv, InstalledInv
    <2>3. /\ q.asked \in Paths /\ r \in Requests /\ r.path = q.asked
          /\ q.answer = IF Found(r) THEN q.asked ELSE None
      BY <1>1, <2>1, PathsAreUnique DEF Inv, RouterInv, RequestInv
    <2>4. q.asked # None
      BY <2>3, RouterAssumption DEF Requests
    <2>. QED
      BY <1>1, <2>2, <2>3, <2>4, FoundRoutes DEF Inv
  <1>. QED
    BY <1>1, InvStart, InvStep, PTL DEF ARouterSpec

(* Once onCreate is over, the fields of an Activity are what their         *)
(* annotations say, whatever was requested, cached and evicted before;     *)
(* Call fields as well, which are filled by requests through the same      *)
(* router.                                                                 *)
THEOREM FieldsCorrect == ARouterSpec => []FieldsFollowAnnotations
  <1>1. Inv => FieldsFollowAnnotations
    BY DEF Inv, ParameterInv, FieldsFollowAnnotations
  <1>. QED
    BY <1>1, InvStart, InvStep, PTL DEF ARouterSpec
============================================================================
