-------------------------- MODULE ParameterManager --------------------------
(***************************************************************************)
(* How an Activity gets its @Parameter fields: ParameterProcessor.java and *)
(* ParameterFactory.java generate a class <Activity>$$Parameter at compile *)
(* time, ParameterManager.java finds, caches and runs it in onCreate.      *)
(*                                                                         *)
(* The module composes this with the router: a request of the application  *)
(* opens an Activity with the router's bundle as its extras, and a field   *)
(* that implements Call is in turn filled by a request of the generated    *)
(* code, through the same instance of RouterManager.  All of it runs on    *)
(* the main thread.  An Activity is named by its path.                     *)
(*                                                                         *)
(* A field is a record of its name, the name of its annotation ("" if left *)
(* out) and its kind.  A value is the key or path it came from, "default"  *)
(* for what the field was initialised with, or "null".                     *)
(***************************************************************************)
EXTENDS RouterManager

CONSTANTS
    main,           \* the only thread
    Launcher,       \* the Activity the system starts
    Callers,        \* the Activities whose onCreate calls loadParameter
    Fields          \* their @Parameter fields: [Callers -> sets of records]

Activities == {r.path : r \in {d \in Declared : d.type = "ACTIVITY"}}

ASSUME ParameterAssumption ==
    /\ Threads = {main}
    /\ Launcher \in Activities
    /\ Callers \subseteq Activities
    /\ \A a \in Callers : \A f \in Fields[a] :
           /\ f.kind \in {"INT", "BOOLEAN", "STRING", "PARCELABLE", "CALL"}
           /\ \A g \in Fields[a] : f.name = g.name => f = g
           /\ \A r \in Requests : r.wellFormed => r.path # f.name   \* Java identifiers

VARIABLES
    cache,          \* Activities with a loaded $$Parameter class, eldest first
    activity,       \* the Activity in front
    extras,         \* the keys in its Intent
    values,         \* the values of its fields, by field name
    todo,           \* its Call fields that are not yet assigned
    phase           \* of that Activity: "crashed" if its onCreate threw

parameterVars == <<cache, activity, extras, values, todo, phase>>
allVars == <<vars, parameterVars>>

(* ParameterProcessor generates a class for every Activity with a field.   *)
HasParameterClass(a) == Fields[a] # {}

AnnotationValue(f) == IF f.annotation = "" THEN f.name ELSE f.annotation

(* ParameterFactory.buildStatement: the key its generated statement uses.  *)
StatementKey(f) == IF f.kind = "PARCELABLE" THEN f.name ELSE AnnotationValue(f)

(* What the getter returns for a key the Intent does not have: the getters *)
(* of int and boolean are given the field itself as the default.           *)
AbsentValue(f) == IF f.kind \in {"INT", "BOOLEAN"} THEN "default" ELSE "null"

(* The generated assignment of a field that is read from the Intent.       *)
Assigned(f, given) ==
    IF StatementKey(f) \in given THEN StatementKey(f) ELSE AbsentValue(f)

CallFields(a) == {f \in Fields[a] : f.kind = "CALL"}
Names(a) == IF a \in Callers THEN {f.name : f \in Fields[a]} ELSE {}
FieldNamed(a, n) == CHOOSE f \in Fields[a] : f.name = n

-----------------------------------------------------------------------------
(* An Activity is created with some Intent.                                *)
Created(a, given) ==
    /\ activity' = a
    /\ extras' = given
    /\ values' = [n \in Names(a) |-> "default"]
    /\ todo' = {}
    /\ phase' = IF a \in Callers THEN "created" ELSE "loaded"

ParameterInit ==
    /\ Init
    /\ cache = <<>>
    /\ activity = Launcher
    /\ extras = {}
    /\ values = [n \in Names(Launcher) |-> "default"]
    /\ todo = {}
    /\ phase = IF Launcher \in Callers THEN "created" ELSE "loaded"

(* LruCache get and put.                                                   *)
Youngest(a) ==
    LET new == Append(RemoveFirst(cache, a), a)
    IN  IF Len(new) > CacheSize THEN Tail(new) ELSE new

(* Mutant: the fields are only assigned when the class was just loaded.    *)
GetParameterOnce(a) ==
    values' = [n \in Names(a) |->
                  IF FieldNamed(a, n) \in CallFields(a) \/ \E i \in DOMAIN cache : cache[i] = a
                    THEN values[n]
                    ELSE Assigned(FieldNamed(a, n), extras)]

(* The generated getParameter, without its Call fields: reads of the       *)
(* Intent depend on nothing the others do.                                 *)
GetParameter(a) ==
    values' = [n \in Names(a) |->
                  IF FieldNamed(a, n) \in CallFields(a)
                    THEN values[n]
                    ELSE Assigned(FieldNamed(a, n), extras)]

Idle == req[main].pc = "idle"
PhaseAfter(calls) == IF calls = {} THEN "loaded" ELSE "loading"

(* loadParameter: the generated class from the cache or by Class.forName,  *)
(* then its getParameter on the Activity.  Without a class the exception   *)
(* is printed and the call on null throws in onCreate.                     *)
LoadParameter ==
    /\ phase = "created"
    /\ \/ /\ HasParameterClass(activity)
          /\ cache' = Youngest(activity)
          /\ GetParameter(activity)
          /\ todo' = CallFields(activity)
          /\ phase' = PhaseAfter(todo')
       \/ /\ ~HasParameterClass(activity)
          /\ phase' = "crashed"
          /\ UNCHANGED <<cache, values, todo>>
    /\ UNCHANGED <<vars, activity, extras>>

(* The statement of a Call field: build(annotationValue).  A malformed     *)
(* path, such as the name of a field without annotation, throws out of     *)
(* onCreate.                                                               *)
BuildCall ==
    /\ phase = "loading"
    /\ Idle
    /\ \E f \in todo :
           \/ /\ AnnotationValue(f) \in Paths
              /\ BuildPath(main, RequestAt(AnnotationValue(f)))
              /\ UNCHANGED parameterVars
           \/ /\ AnnotationValue(f) \in Paths => ~RequestAt(AnnotationValue(f)).wellFormed
              /\ phase' = "crashed"
              /\ UNCHANGED <<vars, cache, activity, extras, values, todo>>

(* ... .navigation(t): what it returns is assigned, null if nothing was    *)
(* found.                                                                  *)
ReturnCall ==
    /\ phase = "loading"
    /\ Return(main)
    /\ \E f \in todo :
           /\ AnnotationValue(f) = req[main].asked
           /\ values' = [values EXCEPT ![f.name] =
                            IF req[main].answer = None THEN "null" ELSE req[main].answer]
           /\ todo' = todo \ {f}
           /\ phase' = PhaseAfter(todo')
    /\ UNCHANGED <<cache, activity, extras>>

(* A request of the application returns.  Opening an Activity makes it the *)
(* one in front; the application goes on once its onCreate is over.        *)
ReturnToApplication ==
    /\ phase = "loaded"
    /\ Return(main)
    /\ \/ /\ req[main].answer \in Activities
          /\ Created(req[main].answer, req[main].extras)
          /\ UNCHANGED cache
       \/ /\ req[main].answer \notin Activities
          /\ UNCHANGED parameterVars

(* A click handler builds a request and adds extras.                       *)
Application ==
    /\ phase = "loaded"
    /\ \/ \E r \in Requests : BuildThrows(main, r) \/ BuildPath(main, r)
       \/ \E k \in Keys : With(main, k)
    /\ UNCHANGED parameterVars

(* After a crash the system starts the application again.                  *)
Restart ==
    /\ phase = "crashed"
    /\ path' = None /\ group' = None /\ bundle' = {}
    /\ groupLruCache' = <<>> /\ pathLruCache' = <<>>
    /\ req' = [t \in Threads |-> NoRequest]
    /\ cache' = <<>>
    /\ Created(Launcher, {})

ParameterNext ==
    \/ Application
    \/ Navigation(main) /\ UNCHANGED parameterVars
    \/ ReturnToApplication
    \/ LoadParameter
    \/ BuildCall
    \/ ReturnCall
    \/ Restart

-----------------------------------------------------------------------------
(* A field is filled from the Intent by its annotation, a Call field by    *)
(* the route the annotation names.                                         *)
Follows(f) ==
    IF f.kind = "CALL"
      THEN values[f.name] = IF \E r \in Declared : r.path = f.annotation /\ Conforming(r)
                              THEN f.annotation ELSE "null"
      ELSE values[f.name] = IF AnnotationValue(f) \in extras THEN AnnotationValue(f)
                                                             ELSE AbsentValue(f)

(* Whatever was requested, cached and evicted before, and whether its      *)
(* generated class came from the cache or was loaded: once onCreate is     *)
(* over an Activity's fields are what their annotations say, the extra of  *)
(* that name or the initial value, and the Call found under that path.     *)
(* Parcelables are left out: for them the generated code ignores the name  *)
(* in the annotation, which @Parameter's comment calls the key.            *)
FieldsFollowAnnotations ==
    phase = "loaded" /\ activity \in Callers =>
        \A f \in Fields[activity] : f.kind # "PARCELABLE" => Follows(f)
=============================================================================
