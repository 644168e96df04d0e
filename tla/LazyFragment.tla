---------------------------- MODULE LazyFragment ----------------------------
(***************************************************************************)
(* Lazy loading in a ViewPager: BaseFragment5.kt, MyFragment1.kt and the   *)
(* pager of LazyFragment1Activity.vp1.                                     *)
(*                                                                         *)
(* The pager keeps the current page and its neighbours.  Selecting a page  *)
(* makes it call setUserVisibleHint, onCreateView, onResume, onPause and   *)
(* onDestroyView on several fragments in one go, on the main thread; the   *)
(* fragments must work out of these calls when they are shown and hidden.  *)
(* The adapter hands out the same instance again after a page was          *)
(* destroyed, so a fragment's fields outlive its view.  isViewCreated is   *)
(* one of them: a destroyed page that is selected from afar takes its hint *)
(* for a change while it is not attached, and the application ends.        *)
(*                                                                         *)
(* A page may hold one child fragment, also a BaseFragment5.               *)
(***************************************************************************)
EXTENDS Integers

CONSTANTS
    LastPage,       \* pages are 1..LastPage, 5 in the activity
    Parents         \* the pages whose view holds a child fragment

ASSUME PagerAssumption ==
    /\ LastPage \in Nat \ {0}
    /\ Parents \subseteq 1..LastPage

Pages == 1..LastPage
Near(p) == {q \in Pages : q >= p - 1 /\ q <= p + 1}    \* offscreenPageLimit is 1

VARIABLES
    current,        \* the pager's primary item
    page,           \* the fragment of each page
    child,          \* the child fragment inside it
    resumed,        \* is the activity resumed
    alive           \* FALSE after an exception nobody catches

vars == <<current, page, child, resumed, alive>>

-----------------------------------------------------------------------------
(* A fragment: the framework's userVisibleHint, the fields isViewCreated   *)
(* and isFragmentVisible, the coroutine scope of MyFragment1 and the load  *)
(* it runs; shows counts load() up and loadStop() down.                    *)
NewFragment == [hint |-> TRUE, isViewCreated |-> FALSE,
                isFragmentVisible |-> FALSE, scope |-> TRUE,
                loading |-> FALSE, loaded |-> FALSE, shows |-> 0]

(* MyFragment1.load: a coroutine in a scope that is cancelled never runs.  *)
Load(f) == [f EXCEPT !.loading = f.scope, !.shows = @ + 1]

(* Mutant: cancels what is running, and keeps the scope.                   *)
LoadStopCancelsChildren(f) == [f EXCEPT !.loading = FALSE, !.shows = @ - 1]

(* MyFragment1.loadStop: cancel() ends the scope itself.                   *)
LoadStop(f) == [f EXCEPT !.scope = FALSE, !.loading = FALSE, !.shows = @ - 1]

(* dispatchUserVisibleHint.  Its dispatchChildVisible reaches a child only *)
(* if that is hidden with hide(), which nobody calls; so it reaches none.  *)
DispatchUserVisibleHint(f, visible, isParentInvisible) ==
    LET g == [f EXCEPT !.isFragmentVisible = visible]
    IN  CASE visible /\ isParentInvisible  -> g
          [] visible /\ ~isParentInvisible -> Load(g)
          [] ~visible                      -> LoadStop(g)

(* Does setUserVisibleHint dispatch this hint?                             *)
Dispatches(f, visible) == f.isViewCreated /\ visible # f.isFragmentVisible

(* Mutant: dispatches every hint, as BaseFragment2 does.                   *)
SetHintAlways(f, visible, isParentInvisible) ==
    LET g == [f EXCEPT !.hint = visible]
    IN  IF g.isViewCreated
          THEN DispatchUserVisibleHint(g, visible, isParentInvisible)
          ELSE g

SetUserVisibleHint(f, visible, isParentInvisible) ==
    LET g == [f EXCEPT !.hint = visible]
    IN  IF Dispatches(g, visible)
          THEN DispatchUserVisibleHint(g, visible, isParentInvisible)
          ELSE g

(* Mutant: without the manual dispatch, as in BaseFragment1.               *)
OnCreateViewOnly(f, isParentInvisible) == [f EXCEPT !.isViewCreated = TRUE]

OnCreateView(f, isParentInvisible) ==
    LET g == [f EXCEPT !.isViewCreated = TRUE]
    IN  IF g.hint THEN SetUserVisibleHint(g, TRUE, isParentInvisible) ELSE g

OnResume(f, isParentInvisible) ==
    IF f.hint /\ ~f.isFragmentVisible
      THEN DispatchUserVisibleHint(f, TRUE, isParentInvisible)
      ELSE f

OnPause(f) ==
    IF ~f.hint /\ f.isFragmentVisible
      THEN DispatchUserVisibleHint(f, FALSE, FALSE)
      ELSE f

-----------------------------------------------------------------------------
(* ViewPager and FragmentStatePagerAdapter: populate() adds the missing    *)
(* pages with the hint off, moves the hint from the old to the new current *)
(* page, and then commits, which runs the lifecycle of what was added or   *)
(* removed.                                                                *)
Populated(kept, from, to) ==
    [p \in Pages |->
        LET added == p \in Near(to) \ kept
            removed == p \in kept \ Near(to)
            f1 == IF added THEN SetUserVisibleHint(page[p], FALSE, FALSE) ELSE page[p]
            f2 == IF p = from /\ p # to THEN SetUserVisibleHint(f1, FALSE, FALSE) ELSE f1
            f3 == IF p = to THEN SetUserVisibleHint(f2, TRUE, FALSE) ELSE f2
        IN  CASE added   -> IF resumed THEN OnResume(OnCreateView(f3, FALSE), FALSE)
                                       ELSE OnCreateView(f3, FALSE)
              [] removed -> IF resumed THEN OnPause(f3) ELSE f3
              [] OTHER   -> f3]

(* A page that gets its view makes a new child, whose lifecycle follows.   *)
ChildrenOf(kept, to, after) ==
    [p \in Pages |->
        IF p \in Parents \cap (Near(to) \ kept)
          THEN LET hiddenParent == ~after[p].isFragmentVisible
                   f == OnCreateView(NewFragment, hiddenParent)
               IN  IF resumed THEN OnResume(f, hiddenParent) ELSE f
          ELSE child[p]]

(* childFragmentManager, with which dispatchChildVisible begins, throws    *)
(* IllegalStateException in a fragment that is not attached.  The pages    *)
(* that are added get their hints before the commit attaches them.         *)
HintsUnattached(kept, to) ==
    \E p \in Near(to) \ kept :
        Dispatches(page[p], FALSE) \/ (p = to /\ Dispatches(page[p], TRUE))

(* onCreate: the adapter is set and the pager populated at page 1.         *)
Init ==
    /\ current = 0
    /\ page = [p \in Pages |-> NewFragment]
    /\ child = [p \in Pages |-> NewFragment]
    /\ resumed = FALSE
    /\ alive = TRUE

Kept == IF current = 0 THEN {} ELSE Near(current)

SelectPage(to) ==
    /\ alive
    /\ to # current
    /\ current = 0 => to = 1
    /\ ~HintsUnattached(Kept, to)
    /\ current' = to
    /\ page' = Populated(Kept, current, to)
    /\ child' = ChildrenOf(Kept, to, page')
    /\ UNCHANGED <<resumed, alive>>

(* The same for a page that had a view before and was destroyed: load() is *)
(* called, and then the exception ends the application.                    *)
SelectDestroyed(to) ==
    /\ alive
    /\ to # current
    /\ HintsUnattached(Kept, to)
    /\ alive' = FALSE
    /\ UNCHANGED <<current, page, child, resumed>>

(* The activity comes to the front and leaves it, and with it every page   *)
(* the pager keeps.                                                        *)
ActivityResume ==
    /\ alive
    /\ ~resumed
    /\ current # 0
    /\ resumed' = TRUE
    /\ page' = [p \in Pages |-> IF p \in Near(current) THEN OnResume(page[p], FALSE)
                                                       ELSE page[p]]
    /\ child' = [p \in Pages |->
                    IF p \in Parents \cap Near(current)
                      THEN OnResume(child[p], ~page'[p].isFragmentVisible)
                      ELSE child[p]]
    /\ UNCHANGED <<current, alive>>

ActivityPause ==
    /\ alive
    /\ resumed
    /\ resumed' = FALSE
    /\ page' = [p \in Pages |-> IF p \in Near(current) THEN OnPause(page[p])
                                                       ELSE page[p]]
    /\ child' = [p \in Pages |-> IF p \in Parents \cap Near(current)
                                   THEN OnPause(child[p]) ELSE child[p]]
    /\ UNCHANGED <<current, alive>>

(* The delay of getData is over: a page, or a child, shows its data.       *)
FinishLoad(p) ==
    \/ /\ alive
       /\ page[p].loading
       /\ page' = [page EXCEPT ![p].loading = FALSE, ![p].loaded = TRUE]
       /\ UNCHANGED <<current, child, resumed, alive>>
    \/ /\ alive
       /\ child[p].loading
       /\ child' = [child EXCEPT ![p].loading = FALSE, ![p].loaded = TRUE]
       /\ UNCHANGED <<current, page, resumed, alive>>

Next ==
    \/ \E p \in Pages : SelectPage(p) \/ SelectDestroyed(p) \/ FinishLoad(p)
    \/ ActivityResume
    \/ ActivityPause

Spec == Init /\ [][Next]_vars

-----------------------------------------------------------------------------
(* After every selection exactly the current page takes itself for shown,  *)
(* including the very first one, whose hint arrives before its view.       *)
OnlyCurrentIsVisible ==
    \A p \in Pages : page[p].isFragmentVisible <=> p = current

(* load() and loadStop() alternate: however often the views are destroyed  *)
(* and made again, a shown page has been loaded once more than stopped.    *)
LoadsAndStopsAlternate ==
    \A p \in Pages : page[p].shows = IF page[p].isFragmentVisible THEN 1 ELSE 0

Waiting(p) == page[p].isFragmentVisible /\ ~page[p].loaded
Abandoned(p) == ~page[p].isFragmentVisible /\ ~page[p].loaded

(* A page that is left before its data arrived never gets them, however    *)
(* often it is shown again: loadStop cancels the fragment's scope, and no  *)
(* later load() can run in it.                                             *)
AbandonedLoadIsLost ==
    \A p \in Pages : [](Waiting(p) => [](Abandoned(p) => []~page[p].loaded))

(* "Solves visibility for nested fragments": a child that is meant to be   *)
(* seen, inside the page that is shown, has had its load() called.  The    *)
(* code does not do it for a page that was off screen when it was made.    *)
ShownChildIsLoaded ==
    \A p \in Parents :
        p = current /\ child[p].isViewCreated /\ child[p].hint => child[p].shows = 1
=============================================================================
