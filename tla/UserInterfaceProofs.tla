------------------------ MODULE UserInterfaceProofs ------------------------
(***************************************************************************)
(* Proofs about the two user interface components: LazyFragment, where the *)
(* pages of a ViewPager work out when they are shown, and Jingziqi, where  *)
(* looking only at the lines through the last move finds the winner.       *)
(***************************************************************************)
EXTENDS LazyFragment, Jingziqi, TLAPS

-----------------------------------------------------------------------------
(* A fragment with well-typed fields.                                      *)
Fragment ==
    [hint : BOOLEAN, isViewCreated : BOOLEAN, isFragmentVisible : BOOLEAN,
     scope : BOOLEAN, loading : BOOLEAN, loaded : BOOLEAN, shows : Int]

(* A fragment that takes itself for shown, or not, and whose load() calls  *)
(* exceed its loadStop() calls accordingly.                                *)
Shown(f, visible) ==
    /\ f.isFragmentVisible = visible
    /\ f.shows = IF visible THEN 1 ELSE 0

(* The inductive invariant: besides the two properties, every page the     *)
(* pager keeps has its view, and its hint says whether it is the current   *)
(* one. Without that a hint or a view could arrive at a page in the wrong  *)
(* state.                                                                  *)
PagerInv ==
    /\ current \in Pages \cup {0}
    /\ page \in [Pages -> Fragment]
    /\ resumed \in BOOLEAN
    /\ \A p \in Pages :
           /\ Shown(page[p], p = current)
           /\ current # 0 /\ p \in Near(current) =>
                  page[p].isViewCreated /\ page[p].hint = (p = current)

-----------------------------------------------------------------------------
(* load() keeps a fragment well-typed and touches only the load and its    *)
(* count.                                                                  *)
LEMMA Loads ==
    ASSUME NEW f \in Fragment
    PROVE  LET g == Load(f)
           IN  /\ g \in Fragment
               /\ g.isFragmentVisible = f.isFragmentVisible /\ g.shows = f.shows + 1
               /\ g.isViewCreated = f.isViewCreated /\ g.hint = f.hint
               /\ g.scope = f.scope /\ g.loading = f.scope /\ g.loaded = f.loaded
  <1> DEFINE h == [f EXCEPT !.loading = f.scope]
  <1>1. h \in Fragment
    BY DEF Fragment
  <1>2. Load(f) = [h EXCEPT !.shows = @ + 1]
    BY DEF Fragment, Load
  <1>3. [h EXCEPT !.shows = @ + 1] \in Fragment
    <2> HIDE DEF h
    <2>. QED BY <1>1 DEF Fragment
  <1>4. /\ Load(f).isFragmentVisible = f.isFragmentVisible /\ Load(f).shows = f.shows + 1
        /\ Load(f).isViewCreated = f.isViewCreated /\ Load(f).hint = f.hint
        /\ Load(f).scope = f.scope /\ Load(f).loading = f.scope /\ Load(f).loaded = f.loaded
    BY DEF Fragment, Load
  <1>. QED
    BY <1>2, <1>3, <1>4

(* loadStop() keeps a fragment well-typed and ends its scope and its load. *)
LEMMA LoadStops ==
    ASSUME NEW f \in Fragment
    PROVE  LET g == LoadStop(f)
           IN  /\ g \in Fragment
               /\ g.isFragmentVisible = f.isFragmentVisible /\ g.shows = f.shows - 1
               /\ g.isViewCreated = f.isViewCreated /\ g.hint = f.hint
               /\ g.scope = FALSE /\ g.loading = FALSE /\ g.loaded = f.loaded
  <1> DEFINE h == [f EXCEPT !.scope = FALSE]
             i == [h EXCEPT !.loading = FALSE]
  <1>1. h \in Fragment
    BY DEF Fragment
  <1>2. i \in Fragment
    <2> HIDE DEF h
    <2>. QED BY <1>1 DEF Fragment
  <1>3. LoadStop(f) = [i EXCEPT !.shows = @ - 1]
    BY DEF Fragment, LoadStop
  <1>4. [i EXCEPT !.shows = @ - 1] \in Fragment
    <2> HIDE DEF i
    <2>. QED BY <1>2 DEF Fragment
  <1>5. /\ LoadStop(f).isFragmentVisible = f.isFragmentVisible
        /\ LoadStop(f).shows = f.shows - 1
        /\ LoadStop(f).isViewCreated = f.isViewCreated /\ LoadStop(f).hint = f.hint
        /\ LoadStop(f).scope = FALSE /\ LoadStop(f).loading = FALSE
        /\ LoadStop(f).loaded = f.loaded
    BY DEF Fragment, LoadStop
  <1>. QED
    BY <1>3, <1>4, <1>5

(* What dispatchUserVisibleHint(true) does to a page of the pager.         *)
LEMMA DispatchedTrue ==
    ASSUME NEW f \in Fragment
    PROVE  LET g == DispatchUserVisibleHint(f, TRUE, FALSE)
           IN  /\ g \in Fragment
               /\ g.isFragmentVisible = TRUE /\ g.shows = f.shows + 1
               /\ g.isViewCreated = f.isViewCreated /\ g.hint = f.hint
               /\ g.scope = f.scope /\ g.loading = f.scope /\ g.loaded = f.loaded
  <1> DEFINE h == [f EXCEPT !.isFragmentVisible = TRUE]
  <1>1. /\ h \in Fragment
        /\ h.isFragmentVisible = TRUE /\ h.shows = f.shows
        /\ h.isViewCreated = f.isViewCreated /\ h.hint = f.hint
        /\ h.scope = f.scope /\ h.loaded = f.loaded
    BY DEF Fragment
  <1>2. DispatchUserVisibleHint(f, TRUE, FALSE) = Load(h)
    BY DEF DispatchUserVisibleHint
  <1> HIDE DEF h
  <1>3. /\ Load(h) \in Fragment
        /\ Load(h).isFragmentVisible = h.isFragmentVisible /\ Load(h).shows = h.shows + 1
        /\ Load(h).isViewCreated = h.isViewCreated /\ Load(h).hint = h.hint
        /\ Load(h).scope = h.scope /\ Load(h).loading = h.scope /\ Load(h).loaded = h.loaded
    BY <1>1, Loads
  <1>. QED
    BY <1>1, <1>2, <1>3

(* What dispatchUserVisibleHint(false) does to a page of the pager.        *)
LEMMA DispatchedFalse ==
    ASSUME NEW f \in Fragment
    PROVE  LET g == DispatchUserVisibleHint(f, FALSE, FALSE)
           IN  /\ g \in Fragment
               /\ g.isFragmentVisible = FALSE /\ g.shows = f.shows - 1
               /\ g.isViewCreated = f.isViewCreated /\ g.hint = f.hint
               /\ g.scope = FALSE /\ g.loading = FALSE /\ g.loaded = f.loaded
  <1> DEFINE h == [f EXCEPT !.isFragmentVisible = FALSE]
  <1>1. /\ h \in Fragment
        /\ h.isFragmentVisible = FALSE /\ h.shows = f.shows
        /\ h.isViewCreated = f.isViewCreated /\ h.hint = f.hint
        /\ h.scope = f.scope /\ h.loaded = f.loaded
    BY DEF Fragment
  <1>2. DispatchUserVisibleHint(f, FALSE, FALSE) = LoadStop(h)
    BY DEF DispatchUserVisibleHint
  <1> HIDE DEF h
  <1>3. /\ LoadStop(h) \in Fragment
        /\ LoadStop(h).isFragmentVisible = h.isFragmentVisible
        /\ LoadStop(h).shows = h.shows - 1
        /\ LoadStop(h).isViewCreated = h.isViewCreated /\ LoadStop(h).hint = h.hint
        /\ LoadStop(h).scope = FALSE /\ LoadStop(h).loading = FALSE
        /\ LoadStop(h).loaded = h.loaded
    BY <1>1, LoadStops
  <1>. QED
    BY <1>1, <1>2, <1>3

(* setUserVisibleHint on a page with a view: the page is shown as the hint *)
(* says, and load() or loadStop() ran only if that was a change.           *)
LEMMA HintMoves ==
    ASSUME NEW f \in Fragment, NEW visible \in BOOLEAN,
           NEW now \in BOOLEAN, Shown(f, now), f.isViewCreated
    PROVE  LET g == SetUserVisibleHint(f, visible, FALSE)
           IN  /\ g \in Fragment /\ Shown(g, visible)
               /\ g.isViewCreated /\ g.hint = visible
  <1> DEFINE h == [f EXCEPT !.hint = visible]
             g == SetUserVisibleHint(f, visible, FALSE)
  <1>1. h \in Fragment /\ Shown(h, now) /\ h.isViewCreated = TRUE /\ h.hint = visible
    BY DEF Fragment, Shown
  <1>2. g = IF visible # now THEN DispatchUserVisibleHint(h, visible, FALSE) ELSE h
    BY <1>1 DEF SetUserVisibleHint, Dispatches, Shown
  <1> HIDE DEF h, g
  <1>3. CASE visible = now
    BY <1>1, <1>2, <1>3 DEF g
  <1>4. CASE visible = TRUE /\ now = FALSE
    <2>1. g = DispatchUserVisibleHint(h, TRUE, FALSE) /\ h.shows = 0
      BY <1>1, <1>2, <1>4 DEF Shown
    <2>2. /\ g \in Fragment /\ g.isFragmentVisible = TRUE /\ g.shows = 0 + 1
          /\ g.isViewCreated = TRUE /\ g.hint = TRUE
      BY <1>1, <1>4, <2>1, DispatchedTrue
    <2>3. g.shows = 1
      BY <2>2
    <2>. QED
      BY <1>4, <2>2, <2>3, Zenon DEF Shown, g
  <1>5. CASE visible = FALSE /\ now = TRUE
    <2>1. g = DispatchUserVisibleHint(h, FALSE, FALSE) /\ h.shows = 1
      BY <1>1, <1>2, <1>5 DEF Shown
    <2>2. /\ g \in Fragment /\ g.isFragmentVisible = FALSE /\ g.shows = 1 - 1
          /\ g.isViewCreated = TRUE /\ g.hint = FALSE
      BY <1>1, <1>5, <2>1, DispatchedFalse
    <2>3. g.shows = 0
      BY <2>2
    <2>. QED
      BY <1>5, <2>2, <2>3, Zenon DEF Shown, g
  <1>. QED
    BY <1>3, <1>4, <1>5

(* setUserVisibleHint on a page without a view only stores the hint.       *)
LEMMA HintBeforeView ==
    ASSUME NEW f \in Fragment, NEW visible \in BOOLEAN,
           NEW now \in BOOLEAN, Shown(f, now), ~f.isViewCreated
    PROVE  SetUserVisibleHint(f, visible, FALSE) = [f EXCEPT !.hint = visible]
  BY DEF Fragment, Shown, SetUserVisibleHint, Dispatches

(* onCreateView makes up for a hint that came before the view.             *)
LEMMA ViewShows ==
    ASSUME NEW f \in Fragment,
           NEW now \in BOOLEAN, Shown(f, now), now => f.hint
    PROVE  LET g == OnCreateView(f, FALSE)
           IN  /\ g \in Fragment /\ Shown(g, f.hint)
               /\ g.isViewCreated /\ g.hint = f.hint
  <1> DEFINE v == [f EXCEPT !.isViewCreated = TRUE]
  <1>1. v \in Fragment /\ Shown(v, now) /\ v.isViewCreated /\ v.hint = f.hint
    BY DEF Fragment, Shown
  <1>2. CASE f.hint
    <2>1. OnCreateView(f, FALSE) = SetUserVisibleHint(v, TRUE, FALSE)
      BY <1>1, <1>2 DEF OnCreateView
    <2> HIDE DEF v
    <2>. QED
      BY <1>1, <1>2, <2>1, HintMoves
  <1>3. CASE ~f.hint
    <2>1. OnCreateView(f, FALSE) = v
      BY <1>1, <1>3 DEF OnCreateView
    <2> HIDE DEF v
    <2>2. f.hint \in BOOLEAN
      BY DEF Fragment
    <2>. QED
      BY <1>1, <1>3, <2>1, <2>2
  <1>. QED
    BY <1>2, <1>3

(* onResume and onPause do nothing to a page that is shown as its hint     *)
(* says.                                                                   *)
LEMMA NothingToResume ==
    ASSUME NEW f \in Fragment, Shown(f, f.hint)
    PROVE  OnResume(f, FALSE) = f /\ OnPause(f) = f
  BY DEF Fragment, Shown, OnResume, OnPause

(* onPause does nothing to a page that is not shown.                       *)
LEMMA OffScreenStays ==
    ASSUME NEW f \in Fragment, Shown(f, FALSE)
    PROVE  OnPause(f) = f
  BY DEF Fragment, Shown, OnPause

(* Selecting a page keeps the invariant, for each page whether it is       *)
(* added, removed, kept, left or entered.                                  *)
LEMMA SelectStep ==
    ASSUME PagerInv, NEW to \in Pages, SelectPage(to) PROVE PagerInv'
  <1> DEFINE old(p) == page[p]
             added(p) == p \in Near(to) \ Kept
             removed(p) == p \in Kept \ Near(to)
             f1(p) == IF added(p) THEN SetUserVisibleHint(page[p], FALSE, FALSE) ELSE page[p]
             f2(p) == IF p = current /\ p # to THEN SetUserVisibleHint(f1(p), FALSE, FALSE) ELSE f1(p)
             f3(p) == IF p = to THEN SetUserVisibleHint(f2(p), TRUE, FALSE) ELSE f2(p)
             f4(p) == CASE added(p) -> IF resumed THEN OnResume(OnCreateView(f3(p), FALSE), FALSE)
                                                  ELSE OnCreateView(f3(p), FALSE)
                        [] removed(p) -> IF resumed THEN OnPause(f3(p)) ELSE f3(p)
                        [] OTHER -> f3(p)
  <1>1. /\ current' = to /\ to # current /\ UNCHANGED resumed
        /\ page' = [p \in Pages |-> f4(p)]
        /\ to \in Near(to) /\ (current # 0 => current \in Kept)
        /\ Near(to) \subseteq Pages /\ 0 \notin Pages
    BY DEF SelectPage, Populated, Kept, Near, Pages, PagerInv
  <1>2. ASSUME NEW p \in Pages
        PROVE  /\ f4(p) \in Fragment /\ Shown(f4(p), p = to)
               /\ p \in Near(to) => f4(p).isViewCreated /\ f4(p).hint = (p = to)
    <2>0. /\ page[p] \in Fragment /\ Shown(page[p], p = current)
          /\ p \in Kept => page[p].isViewCreated /\ page[p].hint = (p = current)
      BY <1>2 DEF PagerInv, Kept
    <2>1. CASE added(p)
      <3>1. p # current /\ Shown(page[p], FALSE)
        BY <1>1, <1>2, <2>0, <2>1
      <3>2. /\ f2(p) \in Fragment /\ Shown(f2(p), FALSE) /\ f2(p).hint = FALSE
        <4>1. f2(p) = SetUserVisibleHint(page[p], FALSE, FALSE)
          BY <2>1, <3>1
        <4> HIDE DEF f2
        <4>2. CASE page[p].isViewCreated
          BY <2>0, <3>1, <4>1, <4>2, HintMoves
        <4>3. CASE ~page[p].isViewCreated
          <5>1. f2(p) = [page[p] EXCEPT !.hint = FALSE]
            BY <2>0, <3>1, <4>1, <4>3, HintBeforeView
          <5>. QED
            BY <2>0, <3>1, <5>1 DEF Fragment, Shown
        <4>. QED
          BY <4>2, <4>3
      <3>3. /\ f3(p) \in Fragment /\ f3(p).hint = (p = to)
            /\ Shown(f3(p), FALSE) \/ (Shown(f3(p), TRUE) /\ p = to)
        <4> HIDE DEF f2
        <4>1. CASE p # to
          BY <3>2, <4>1
        <4>2. CASE p = to
          <5>1. f3(p) = SetUserVisibleHint(f2(p), TRUE, FALSE)
            BY <4>2
          <5> HIDE DEF f3
          <5>2. CASE f2(p).isViewCreated
            BY <3>2, <4>2, <5>1, <5>2, HintMoves
          <5>3. CASE ~f2(p).isViewCreated
            <6>1. f3(p) = [f2(p) EXCEPT !.hint = TRUE]
              BY <3>2, <5>1, <5>3, HintBeforeView
            <6>. QED
              BY <3>2, <4>2, <6>1 DEF Fragment, Shown
          <5>. QED
            BY <5>2, <5>3
        <4>. QED
          BY <4>1, <4>2
      <3> HIDE DEF f3
      <3> DEFINE g == OnCreateView(f3(p), FALSE)
      <3>4. /\ g \in Fragment /\ Shown(g, p = to) /\ g.isViewCreated /\ g.hint = (p = to)
        BY <3>3, ViewShows
      <3> HIDE DEF g
      <3>5. OnResume(g, FALSE) = g
        BY <3>4, NothingToResume
      <3>6. f4(p) = g
        BY <2>1, <3>5 DEF g
      <3> HIDE DEF f4
      <3>. QED
        BY <3>4, <3>6
    <2>2. CASE ~added(p)
      <3>1. f1(p) = page[p]
        BY <2>2
      <3>2. /\ f3(p) \in Fragment /\ Shown(f3(p), p = to)
            /\ p \in Kept => f3(p).isViewCreated /\ f3(p).hint = (p = to)
        <4>1. CASE p = to
          <5>1. p \in Kept /\ p # current /\ f3(p) = SetUserVisibleHint(page[p], TRUE, FALSE)
            BY <1>1, <2>2, <4>1, <3>1
          <5> HIDE DEF f3
          <5>2. Shown(page[p], FALSE) /\ page[p].isViewCreated
            BY <2>0, <5>1
          <5>. QED
            BY <2>0, <4>1, <5>1, <5>2, HintMoves
        <4>2. CASE p # to /\ p = current
          <5>1. p \in Kept /\ f3(p) = SetUserVisibleHint(page[p], FALSE, FALSE)
            BY <1>1, <1>2, <4>2, <3>1
          <5> HIDE DEF f3
          <5>2. Shown(page[p], TRUE) /\ page[p].isViewCreated
            BY <2>0, <4>2, <5>1
          <5>. QED
            BY <2>0, <4>2, <5>1, <5>2, HintMoves
        <4>3. CASE p # to /\ p # current
          <5>1. f3(p) = page[p]
            BY <4>3, <3>1
          <5> HIDE DEF f3
          <5>. QED
            BY <2>0, <4>3, <5>1
        <4>. QED
          BY <4>1, <4>2, <4>3
      <3>3. CASE removed(p)
        <4>1. p # to /\ p \notin Near(to)
          BY <1>1, <3>3
        <4> HIDE DEF f3
        <4>2. OnPause(f3(p)) = f3(p)
          BY <3>2, <4>1, OffScreenStays
        <4>3. f4(p) = f3(p)
          BY <2>2, <3>3, <4>2
        <4> HIDE DEF f4
        <4>. QED
          BY <3>2, <4>1, <4>3
      <3>4. CASE ~removed(p)
        <4>1. f4(p) = f3(p)
          BY <2>2, <3>4
        <4>2. p \in Near(to) => p \in Kept
          BY <2>2
        <4> HIDE DEF f4, f3
        <4>. QED
          BY <3>2, <4>1, <4>2
      <3>. QED
        BY <3>3, <3>4
    <2>. QED
      BY <2>1, <2>2
  <1> HIDE DEF f4
  <1>. QED
    BY <1>1, <1>2 DEF PagerInv

(* Resuming and pausing the activity leaves every page as it is.           *)
LEMMA ActivityStep ==
    ASSUME PagerInv, ActivityResume \/ ActivityPause
    PROVE  page' = page /\ PagerInv'
  <1>1. ASSUME NEW p \in Pages, p \in Near(current), current # 0
        PROVE  OnResume(page[p], FALSE) = page[p] /\ OnPause(page[p]) = page[p]
    <2>1. page[p] \in Fragment /\ Shown(page[p], page[p].hint)
      BY <1>1 DEF PagerInv
    <2>. QED
      BY <2>1, NothingToResume
  <1>2. ASSUME NEW p \in Pages, current = 0
        PROVE  OnPause(page[p]) = page[p]
    <2>1. p # current
      BY <1>2, PagerAssumption DEF Pages
    <2>2. page[p] \in Fragment /\ Shown(page[p], FALSE)
      BY <2>1 DEF PagerInv
    <2>. QED
      BY <2>2, OffScreenStays
  <1>3. page' = [p \in Pages |-> page[p]] /\ current' = current /\ resumed' \in BOOLEAN
    <2>1. CASE ActivityResume
      BY <1>1, <2>1 DEF ActivityResume
    <2>2. CASE ActivityPause
      BY <1>1, <1>2, <2>2 DEF ActivityPause
    <2>. QED
      BY <2>1, <2>2
  <1>4. page' = page
    BY <1>3 DEF PagerInv
  <1>. QED
    BY <1>3, <1>4 DEF PagerInv

(* A load that finishes keeps the invariant and changes only a page that   *)
(* was loading.                                                            *)
LEMMA FinishStep ==
    ASSUME PagerInv, NEW p \in Pages, FinishLoad(p)
    PROVE  /\ PagerInv'
           /\ \A q \in Pages :
                  \/ page'[q] = page[q]
                  \/ /\ page[q].loading /\ page'[q].loaded /\ ~page'[q].loading
                     /\ page'[q].scope = page[q].scope
                     /\ page'[q].isFragmentVisible = page[q].isFragmentVisible
  <1>1. CASE page' = page
    BY <1>1 DEF FinishLoad, PagerInv
  <1>2. CASE /\ page[p].loading
             /\ page' = [page EXCEPT ![p].loading = FALSE, ![p].loaded = TRUE]
             /\ UNCHANGED <<current, child, resumed>>
    <2> DEFINE f == page[p]
               g == [f EXCEPT !.loading = FALSE]
               h == [g EXCEPT !.loaded = TRUE]
    <2>0. page \in [Pages -> Fragment] /\ f \in Fragment
      BY DEF PagerInv
    <2>1. g \in Fragment /\ g.shows = f.shows /\ g.isFragmentVisible = f.isFragmentVisible
          /\ g.hint = f.hint /\ g.isViewCreated = f.isViewCreated /\ g.scope = f.scope
          /\ g.loading = FALSE
      BY <2>0 DEF Fragment
    <2>2. page' = [page EXCEPT ![p] = h]
      BY <1>2, <2>0 DEF Fragment
    <2> HIDE DEF g
    <2>3. h \in Fragment /\ h.shows = f.shows /\ h.isFragmentVisible = f.isFragmentVisible
          /\ h.hint = f.hint /\ h.isViewCreated = f.isViewCreated /\ h.scope = f.scope
          /\ h.loading = FALSE /\ h.loaded = TRUE
      BY <2>1 DEF Fragment
    <2> HIDE DEF h
    <2>4. page' \in [Pages -> Fragment] /\ page'[p] = h /\ \A q \in Pages : q # p => page'[q] = page[q]
      BY <2>0, <2>2, <2>3
    <2>5. \A q \in Pages : page'[q].shows = page[q].shows
             /\ page'[q].isFragmentVisible = page[q].isFragmentVisible
             /\ page'[q].hint = page[q].hint /\ page'[q].isViewCreated = page[q].isViewCreated
      BY <2>3, <2>4
    <2>6. PagerInv'
      BY <1>2, <2>4, <2>5 DEF PagerInv, Shown
    <2>. QED
      BY <1>2, <2>3, <2>4, <2>6
  <1>. QED
    BY <1>1, <1>2 DEF FinishLoad

(* Before the pager is populated nothing is shown.                         *)
LEMMA PagerStart == Init => PagerInv
  <1> SUFFICES ASSUME Init PROVE PagerInv
    OBVIOUS
  <1>1. NewFragment \in Fragment /\ Shown(NewFragment, FALSE)
    BY DEF NewFragment, Fragment, Shown
  <1>2. \A p \in Pages : (p = current) = FALSE
    BY PagerAssumption DEF Init, Pages
  <1>. QED
    BY <1>1, <1>2 DEF Init, PagerInv

(* Every step keeps the invariant.                                         *)
LEMMA PagerStep == PagerInv /\ [Next]_vars => PagerInv'
  <1> SUFFICES ASSUME PagerInv, [Next]_vars PROVE PagerInv'
    OBVIOUS
  <1>1. CASE UNCHANGED vars
    BY <1>1 DEF vars, PagerInv
  <1>2. CASE \E to \in Pages : SelectDestroyed(to)
    BY <1>2 DEF SelectDestroyed, PagerInv
  <1>. QED
    BY <1>1, <1>2, SelectStep, FinishStep, ActivityStep DEF Next

(* However the user jumps between the pages and whenever the activity is   *)
(* paused and resumed, exactly the current page takes itself for shown.    *)
THEOREM VisibleCorrect == Spec => []OnlyCurrentIsVisible
  <1>1. PagerInv => OnlyCurrentIsVisible
    BY DEF PagerInv, OnlyCurrentIsVisible, Shown
  <1>. QED
    BY <1>1, PagerStart, PagerStep, PTL DEF Spec

(* load() and loadStop() of a page alternate, starting with load(), for    *)
(* any number of pages.                                                    *)
THEOREM LoadsCorrect == Spec => []LoadsAndStopsAlternate
  <1>1. PagerInv => LoadsAndStopsAlternate
    BY DEF PagerInv, LoadsAndStopsAlternate, Shown
  <1>. QED
    BY <1>1, PagerStart, PagerStep, PTL DEF Spec

-----------------------------------------------------------------------------
(* A fragment whose scope is cancelled and that is not loading: no load of *)
(* it can ever run again.                                                  *)
Dead(f) == f.scope = FALSE /\ f.loading = FALSE

(* What the framework's calls can turn a fragment into: they deliver no    *)
(* data, revive no dead one, and hide it only by loadStop().               *)
Evolves(f, g) ==
    /\ g \in Fragment
    /\ g.loaded = f.loaded
    /\ Dead(f) => Dead(g)
    /\ f.isFragmentVisible /\ ~g.isFragmentVisible => Dead(g)

(* Calls one after the other.                                              *)
LEMMA EvolvesOn ==
    ASSUME NEW f, NEW g, NEW h, Evolves(f, g), Evolves(g, h)
    PROVE  Evolves(f, h)
  BY DEF Evolves

(* dispatchUserVisibleHint evolves a fragment.                             *)
LEMMA DispatchEvolves ==
    ASSUME NEW f \in Fragment, NEW visible \in BOOLEAN
    PROVE  Evolves(f, DispatchUserVisibleHint(f, visible, FALSE))
  <1> DEFINE g == DispatchUserVisibleHint(f, visible, FALSE)
  <1>1. CASE visible = TRUE
    <2>1. /\ g \in Fragment /\ g.isFragmentVisible = TRUE
          /\ g.scope = f.scope /\ g.loading = f.scope /\ g.loaded = f.loaded
      BY <1>1, DispatchedTrue
    <2> HIDE DEF g
    <2>2. Evolves(f, g)
      BY <2>1 DEF Evolves, Dead
    <2>. QED
      BY <2>2 DEF g
  <1>2. CASE visible = FALSE
    <2>1. g \in Fragment /\ g.scope = FALSE /\ g.loading = FALSE /\ g.loaded = f.loaded
      BY <1>2, DispatchedFalse
    <2> HIDE DEF g
    <2>2. Evolves(f, g)
      BY <2>1 DEF Evolves, Dead
    <2>. QED
      BY <2>2 DEF g
  <1>. QED
    BY <1>1, <1>2

(* setUserVisibleHint evolves a fragment.                                  *)
LEMMA HintEvolves ==
    ASSUME NEW f \in Fragment, NEW visible \in BOOLEAN
    PROVE  Evolves(f, SetUserVisibleHint(f, visible, FALSE))
  <1> DEFINE g == [f EXCEPT !.hint = visible]
  <1>1. g \in Fragment /\ Evolves(f, g)
    BY DEF Fragment, Evolves, Dead
  <1>2. \/ SetUserVisibleHint(f, visible, FALSE) = g
        \/ SetUserVisibleHint(f, visible, FALSE) = DispatchUserVisibleHint(g, visible, FALSE)
    BY DEF SetUserVisibleHint
  <1> HIDE DEF g
  <1>3. Evolves(g, DispatchUserVisibleHint(g, visible, FALSE))
    BY <1>1, DispatchEvolves
  <1>4. Evolves(f, DispatchUserVisibleHint(g, visible, FALSE))
    BY <1>1, <1>3, EvolvesOn
  <1>. QED
    BY <1>1, <1>2, <1>4

(* onCreateView evolves a fragment.                                        *)
LEMMA ViewEvolves ==
    ASSUME NEW f \in Fragment
    PROVE  Evolves(f, OnCreateView(f, FALSE))
  <1> DEFINE g == [f EXCEPT !.isViewCreated = TRUE]
  <1>1. g \in Fragment /\ Evolves(f, g)
    BY DEF Fragment, Evolves, Dead
  <1>2. \/ OnCreateView(f, FALSE) = g
        \/ OnCreateView(f, FALSE) = SetUserVisibleHint(g, TRUE, FALSE)
    BY DEF OnCreateView
  <1> HIDE DEF g
  <1>3. Evolves(g, SetUserVisibleHint(g, TRUE, FALSE))
    BY <1>1, HintEvolves
  <1>4. Evolves(f, SetUserVisibleHint(g, TRUE, FALSE))
    BY <1>1, <1>3, EvolvesOn
  <1>. QED
    BY <1>1, <1>2, <1>4

(* onResume and onPause evolve a fragment.                                 *)
LEMMA ResumeEvolves ==
    ASSUME NEW f \in Fragment
    PROVE  Evolves(f, f) /\ Evolves(f, OnResume(f, FALSE)) /\ Evolves(f, OnPause(f))
  <1>1. Evolves(f, f)
    BY DEF Evolves
  <1>. QED
    BY <1>1, DispatchEvolves DEF OnResume, OnPause

(* Selecting a page evolves every page, through up to five calls.          *)
LEMMA SelectEvolves ==
    ASSUME PagerInv, NEW to \in Pages, SelectPage(to), NEW p \in Pages
    PROVE  Evolves(page[p], page'[p])
  <1> DEFINE added == p \in Near(to) \ Kept
             removed == p \in Kept \ Near(to)
             f1 == IF added THEN SetUserVisibleHint(page[p], FALSE, FALSE) ELSE page[p]
             f2 == IF p = current /\ p # to THEN SetUserVisibleHint(f1, FALSE, FALSE) ELSE f1
             f3 == IF p = to THEN SetUserVisibleHint(f2, TRUE, FALSE) ELSE f2
  <1>1. page'[p] = CASE added -> IF resumed THEN OnResume(OnCreateView(f3, FALSE), FALSE)
                                            ELSE OnCreateView(f3, FALSE)
                     [] removed -> IF resumed THEN OnPause(f3) ELSE f3
                     [] OTHER -> f3
    BY DEF SelectPage, Populated, Kept
  <1>2. page[p] \in Fragment /\ Evolves(page[p], f1)
    <2>1. page[p] \in Fragment
      BY DEF PagerInv
    <2>. QED
      BY <2>1, HintEvolves, ResumeEvolves
  <1> HIDE DEF f1
  <1>3. f1 \in Fragment /\ Evolves(f1, f2)
    <2>1. f1 \in Fragment
      BY <1>2 DEF Evolves
    <2>. QED
      BY <2>1, HintEvolves, ResumeEvolves
  <1> HIDE DEF f2
  <1>4. f2 \in Fragment /\ Evolves(f2, f3)
    <2>1. f2 \in Fragment
      BY <1>3 DEF Evolves
    <2>. QED
      BY <2>1, HintEvolves, ResumeEvolves
  <1> HIDE DEF f3
  <1>5. f3 \in Fragment /\ Evolves(page[p], f3)
    <2>1. f3 \in Fragment
      BY <1>4 DEF Evolves
    <2>. QED
      BY <1>2, <1>3, <1>4, <2>1, EvolvesOn
  <1> DEFINE g == OnCreateView(f3, FALSE)
  <1>6. g \in Fragment /\ Evolves(page[p], g)
    <2>1. Evolves(f3, g)
      BY <1>5, ViewEvolves
    <2>2. g \in Fragment
      BY <2>1 DEF Evolves
    <2>. QED
      BY <1>5, <2>1, <2>2, EvolvesOn
  <1>7. page'[p] \in {OnResume(g, FALSE), g, OnPause(f3), f3}
    BY <1>1
  <1> HIDE DEF g
  <1>8. Evolves(g, OnResume(g, FALSE)) /\ Evolves(f3, OnPause(f3))
    BY <1>5, <1>6, ResumeEvolves
  <1>. QED
    BY <1>5, <1>6, <1>7, <1>8, EvolvesOn

(* A page that is shown, or was shown and can no longer load.              *)
Seen(p) == page[p].isFragmentVisible \/ Dead(page[p])
(* A page that has no data and can no longer load.                         *)
Lost(p) == Dead(page[p]) /\ ~page[p].loaded

(* Both are for ever.                                                      *)
LEMMA LostStays ==
    ASSUME PagerInv, [Next]_vars, NEW p \in Pages
    PROVE  (Seen(p) => Seen(p)') /\ (Lost(p) => Lost(p)')
  <1>1. CASE page'[p] = page[p]
    BY <1>1 DEF Seen, Lost
  <1>2. ASSUME NEW to \in Pages, SelectPage(to)
        PROVE  (Seen(p) => Seen(p)') /\ (Lost(p) => Lost(p)')
    <2>1. Evolves(page[p], page'[p])
      BY <1>2, SelectEvolves
    <2>. QED
      BY <2>1 DEF Evolves, Seen, Lost
  <1>3. ASSUME NEW q \in Pages, FinishLoad(q)
        PROVE  (Seen(p) => Seen(p)') /\ (Lost(p) => Lost(p)')
    <2>1. \/ page'[p] = page[p]
          \/ /\ page[p].loading /\ page'[p].loaded /\ ~page'[p].loading
             /\ page'[p].scope = page[p].scope
             /\ page'[p].isFragmentVisible = page[p].isFragmentVisible
      BY <1>3, FinishStep
    <2>2. CASE page[p].loading /\ page'[p].isFragmentVisible = page[p].isFragmentVisible
      BY <2>2 DEF Seen, Lost, Dead
    <2>. QED
      BY <1>1, <2>1, <2>2
  <1>4. CASE ActivityResume \/ ActivityPause
    BY <1>1, <1>4, ActivityStep
  <1>5. CASE UNCHANGED vars \/ \E to \in Pages : SelectDestroyed(to)
    BY <1>1, <1>5 DEF vars, SelectDestroyed
  <1>. QED
    BY <1>2, <1>3, <1>4, <1>5 DEF Next

(* A page that was shown, and is left before its data arrived, never gets  *)
(* them: loadStop() cancelled its scope, and nothing revives it.           *)
THEOREM AbandonedStaysLost == Spec => AbandonedLoadIsLost
  <1> SUFFICES ASSUME NEW p \in Pages
               PROVE  Spec => [](Waiting(p) => [](Abandoned(p) => []~page[p].loaded))
    BY DEF AbandonedLoadIsLost
  <1>1. PagerInv /\ [Next]_vars => (Seen(p) => Seen(p)') /\ (Lost(p) => Lost(p)')
    BY LostStays
  <1>2. Waiting(p) => Seen(p)
    BY DEF Waiting, Seen
  <1>3. Seen(p) /\ Abandoned(p) => Lost(p)
    BY DEF Abandoned, Seen, Lost
  <1>4. Lost(p) => ~page[p].loaded
    BY DEF Lost
  <1>. QED
    BY <1>1, <1>2, <1>3, <1>4, PagerStart, PagerStep, PTL DEF Spec

-----------------------------------------------------------------------------
(* HasLine for the cells of some board, not only of the current one.       *)
LineIn(c, player) == \E line \in Lines : \A s \in line : c[s] = player

GameInv == GameTypeOK /\ WinnerHasLine

-----------------------------------------------------------------------------
(* A line that holds a square is its row, its column or a diagonal through *)
(* it: exactly the lines isWinningMoveByPlayer tests.                      *)
LEMMA LinesThroughSquare ==
    ASSUME NEW row \in Index, NEW col \in Index, NEW line \in Lines,
           <<row, col>> \in line
    PROVE  \/ line = {<<row, i>> : i \in Index}
           \/ line = {<<i, col>> : i \in Index}
           \/ row = col /\ line = {<<i, i>> : i \in Index}
           \/ row + col = 2 /\ line = {<<i, 2 - i>> : i \in Index}
  <1>1. CASE \E r \in Index : line = {<<r, i>> : i \in Index}
    BY <1>1
  <1>2. CASE \E c \in Index : line = {<<i, c>> : i \in Index}
    BY <1>2
  <1>3. CASE line = {<<i, i>> : i \in Index}
    BY <1>3
  <1>4. CASE line = {<<i, 2 - i>> : i \in Index}
    BY <1>4 DEF Index
  <1>. QED
    BY <1>1, <1>2, <1>3, <1>4 DEF Lines

(* The four tests of isWinningMoveByPlayer are about lines of the board.   *)
LEMMA TestedLinesAreLines ==
    ASSUME NEW row \in Index, NEW col \in Index
    PROVE  /\ {<<row, i>> : i \in Index} \in Lines
           /\ {<<i, col>> : i \in Index} \in Lines
           /\ {<<i, i>> : i \in Index} \in Lines
           /\ {<<i, 2 - i>> : i \in Index} \in Lines
  BY DEF Lines

(* A line is made of squares.                                              *)
LEMMA LinesAreOnBoard == ASSUME NEW line \in Lines PROVE line \subseteq Square
  BY DEF Lines, Square, Index

(* After a mark, the player who moved has a line exactly if the move is    *)
(* found winning, and the other player has none, provided nobody had one   *)
(* before.                                                                 *)
LEMMA MarkDecides ==
    ASSUME NEW row \in Index, NEW col \in Index, NEW player \in Player, GameTypeOK,
           \A p \in Player : ~LineIn(cells, p)
    PROVE  LET marked == [cells EXCEPT ![<<row, col>>] = player]
           IN  /\ LineIn(marked, player) <=> IsWinningMoveByPlayer(marked, player, row, col)
               /\ \A p \in Player : LineIn(marked, p) => p = player
  <1> DEFINE marked == [cells EXCEPT ![<<row, col>>] = player]
  <1>1. /\ <<row, col>> \in Square
        /\ marked[<<row, col>>] = player
        /\ \A s \in Square : s # <<row, col>> => marked[s] = cells[s]
    BY DEF GameTypeOK, Square
  <1> HIDE DEF marked
  <1>2. ASSUME NEW p \in Player, NEW line \in Lines, \A s \in line : marked[s] = p
        PROVE  <<row, col>> \in line /\ p = player
    <2>1. <<row, col>> \in line
      <3>1. SUFFICES ASSUME <<row, col>> \notin line PROVE FALSE
        OBVIOUS
      <3>2. \A s \in line : cells[s] = p
        BY <1>1, <1>2, <3>1, LinesAreOnBoard
      <3>. QED
        BY <3>2 DEF LineIn
    <2>. QED
      BY <1>1, <1>2, <2>1
  <1>3. ASSUME LineIn(marked, player) PROVE IsWinningMoveByPlayer(marked, player, row, col)
    <2>1. PICK line \in Lines : \A s \in line : marked[s] = player
      BY <1>3 DEF LineIn
    <2>2. <<row, col>> \in line
      BY <1>2, <2>1
    <2>. QED
      BY <2>1, <2>2, LinesThroughSquare DEF IsWinningMoveByPlayer
  <1>4. ASSUME IsWinningMoveByPlayer(marked, player, row, col) PROVE LineIn(marked, player)
    <2>1. CASE \A i \in Index : marked[<<row, i>>] = player
      <3>1. \A s \in {<<row, i>> : i \in Index} : marked[s] = player
        BY <2>1
      <3>. QED
        BY <3>1, TestedLinesAreLines DEF LineIn
    <2>2. CASE \A i \in Index : marked[<<i, col>>] = player
      <3>1. \A s \in {<<i, col>> : i \in Index} : marked[s] = player
        BY <2>2
      <3>. QED
        BY <3>1, TestedLinesAreLines DEF LineIn
    <2>3. CASE \A i \in Index : marked[<<i, i>>] = player
      <3>1. \A s \in {<<i, i>> : i \in Index} : marked[s] = player
        BY <2>3
      <3>. QED
        BY <3>1, TestedLinesAreLines DEF LineIn
    <2>4. CASE \A i \in Index : marked[<<i, 2 - i>>] = player
      <3>1. \A s \in {<<i, 2 - i>> : i \in Index} : marked[s] = player
        BY <2>4
      <3>. QED
        BY <3>1, TestedLinesAreLines DEF LineIn
    <2>. QED
      BY <1>4, <2>1, <2>2, <2>3, <2>4 DEF IsWinningMoveByPlayer
  <1>5. \A p \in Player : LineIn(marked, p) => p = player
    BY <1>2 DEF LineIn
  <1>. QED
    BY <1>3, <1>4, <1>5 DEF marked

(* The empty board has no line.                                            *)
LEMMA NoLineAtStart == \A p \in Player : ~LineIn(NoMarks, p)
  <1> SUFFICES ASSUME NEW p \in Player, NEW line \in Lines, \A s \in line : NoMarks[s] = p
               PROVE  FALSE
    BY DEF LineIn
  <1>1. \E s : s \in line
    <2>1. 0 \in Index
      BY DEF Index
    <2>2. CASE \E r \in Index : line = {<<r, i>> : i \in Index}
      BY <2>1, <2>2
    <2>3. CASE \E c \in Index : line = {<<i, c>> : i \in Index}
      BY <2>1, <2>3
    <2>4. CASE line = {<<i, i>> : i \in Index}
      <3>1. <<0, 0>> \in line
        BY <2>1, <2>4
      <3>. QED
        BY <3>1
    <2>5. CASE line = {<<i, 2 - i>> : i \in Index}
      <3>1. <<0, 2 - 0>> \in line
        BY <2>1, <2>5
      <3>. QED
        BY <3>1
    <2>. QED
      BY <2>2, <2>3, <2>4, <2>5 DEF Lines
  <1>2. \A s \in line : NoMarks[s] = ""
    BY LinesAreOnBoard DEF NoMarks
  <1>. QED
    BY <1>1, <1>2 DEF Player

(* Marking a cell, restarting and refused clicks keep the invariant.       *)
LEMMA GameStep == GameInv /\ [GameNext]_(gameVars) => GameInv'
  <1> SUFFICES ASSUME GameInv, [GameNext]_(gameVars) PROVE GameInv'
    OBVIOUS
  <1>0. /\ \A p : HasLine(p) <=> LineIn(cells, p)
        /\ \A p : HasLine(p)' <=> LineIn(cells', p)
    BY DEF HasLine, LineIn
  <1> USE DEF GameInv, WinnerHasLine
  <1>1. CASE OnResetSelected
    <2>1. GameTypeOK'
      BY <1>1 DEF OnResetSelected, Restart, GameTypeOK, NoMarks, Player
    <2>2. \A p \in Player : ~LineIn(cells', p)
      BY <1>1, NoLineAtStart DEF OnResetSelected, Restart
    <2>. QED
      BY <1>0, <1>1, <2>1, <2>2 DEF OnResetSelected, Restart, Player
  <1>2. ASSUME NEW row \in Index, NEW col \in Index, IsValid(row, col),
               Mark(row, col),
               shownCells' = [shownCells EXCEPT ![<<row, col>>] = currentTurn],
               shownWinner' = winner'
        PROVE  GameInv'
    <2> DEFINE marked == [cells EXCEPT ![<<row, col>>] = currentTurn]
    <2>1. /\ currentTurn \in Player
          /\ \A p \in Player : ~LineIn(cells, p)
      BY <1>0, <1>2 DEF IsValid, GameTypeOK, Player
    <2>2. /\ LineIn(marked, currentTurn)
                 <=> IsWinningMoveByPlayer(marked, currentTurn, row, col)
          /\ \A p \in Player : LineIn(marked, p) => p = currentTurn
      BY <2>1, MarkDecides
    <2>3. GameTypeOK'
      BY <1>2 DEF Mark, FlipCurrentTurn, GameTypeOK, Player
    <2>4. cells' = marked
      BY <1>2 DEF Mark
    <2>5. CASE IsWinningMoveByPlayer(marked, currentTurn, row, col)
      BY <1>0, <1>2, <2>1, <2>2, <2>3, <2>4, <2>5 DEF Mark, Player
    <2>6. CASE ~IsWinningMoveByPlayer(marked, currentTurn, row, col)
      <3>1. state # "FINISHED" /\ winner = ""
        BY <1>2 DEF IsValid
      <3>2. UNCHANGED <<state, winner>>
        BY <1>2, <2>6 DEF Mark
      <3>3. \A p \in Player : ~HasLine(p)'
        BY <1>0, <2>2, <2>4, <2>6
      <3>4. "" \notin Player
        BY DEF Player
      <3>. QED
        BY <2>3, <3>1, <3>2, <3>3, <3>4
    <2>. QED
      BY <2>5, <2>6
  <1>3. CASE UNCHANGED gameVars
    BY <1>0, <1>3 DEF gameVars, board, view, GameTypeOK
  <1>. QED
    BY <1>1, <1>2, <1>3 DEF GameNext, OnClickedCellAt

(* A player is the winner exactly when he has one of the eight lines, and  *)
(* the game is finished exactly when there is a winner, although the code  *)
(* only looks at the lines through the last move.                          *)
THEOREM WinnerCorrect == GameSpec => []WinnerHasLine
  <1>1. GameInit => GameInv
    <2>1. ASSUME GameInit PROVE GameTypeOK
      BY <2>1 DEF GameInit, GameTypeOK, NoMarks, Player
    <2>. QED
      BY <2>1, NoLineAtStart DEF GameInit, GameInv, WinnerHasLine, HasLine, LineIn, Player
  <1>2. GameInv => WinnerHasLine
    BY DEF GameInv
  <1>. QED
    BY <1>1, <1>2, GameStep, PTL DEF GameSpec

(* The observable fields of the view model always mirror the board.        *)
THEOREM ViewCorrect == GameSpec => []ViewMirrorsBoard
  <1>1. GameInit => ViewMirrorsBoard
    BY DEF GameInit, ViewMirrorsBoard
  <1>2. ViewMirrorsBoard /\ [GameNext]_(gameVars) => ViewMirrorsBoard'
    BY DEF ViewMirrorsBoard, GameNext, gameVars, board, view, OnResetSelected, Restart,
           OnClickedCellAt, Mark
  <1>. QED
    BY <1>1, <1>2, PTL DEF GameSpec
=============================================================================
