------------------------------- MODULE Routes -------------------------------
(***************************************************************************)
(* The routes an application declares with @ARouter, as both halves of the *)
(* router see them: the annotation processor (ARouterProcessor.java) that  *)
(* generates lookup classes from them, and the runtime (RouterManager.java)*)
(* that looks them up.                                                     *)
(*                                                                         *)
(* A route is a record: its path, the first segment of the path, the group *)
(* of the annotation ("" if left out), the Gradle module of the annotated  *)
(* class, and what that class is.  A path is well formed if it starts with *)
(* "/" and holds a second "/"; only then it has a first segment.           *)
(***************************************************************************)
EXTENDS FiniteSets

CONSTANTS
    Declared,       \* the declared routes
    Modules         \* Gradle modules, one run of the processor in each

ASSUME RoutesAssumption ==
    \A r \in Declared :
        /\ r.module \in Modules
        /\ r.wellFormed \in BOOLEAN
        /\ r.type \in {"ACTIVITY", "CALL", "OTHER"}
        /\ \A s \in Declared : r.path = s.path => r = s

(* checkRouterPath: the group of a route is the annotation's, or else the  *)
(* first segment of the path.                                              *)
GroupOf(r) == IF r.group = "" THEN r.first ELSE r.group

GroupsIn(routes) == {GroupOf(r) : r \in routes}

RoutesOf(module) == {r \in Declared : r.module = module}

(* What a successful build of some routes generates: ARouter$$Group$$...   *)
(* lists their groups, ARouter$$Path$$<group> the routes of one group.     *)
GroupClass(routes) == GroupsIn(routes)
PathClass(routes, group) == {r \in routes : GroupOf(r) = group}
=============================================================================
