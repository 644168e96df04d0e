----------------------------- MODULE MCARouter ------------------------------
(* Routes and Activities of the repository, with two Activities that       *)
(* misuse loadParameter, a path nobody declares and one without a group.   *)
(* The module app is built, right, with a class that may not be annotated, *)
(* with a malformed path, with an empty one, or without any route.         *)
EXTENDS ARouter

Route(p, f, g, m, t) ==
    [path |-> p, first |-> f, group |-> g, module |-> m, type |-> t,
     wellFormed |-> TRUE]

Field(n, a, k) == [name |-> n, annotation |-> a, kind |-> k]

MCModules == {"app", "order", "crash"}

MCApp ==
    {Route("/app/MainActivity", "app", "app", "app", "ACTIVITY"),
     Route("/app/ActivityResultTestActivity", "app", "", "app", "ACTIVITY"),
     Route("/test/TestActivity", "test", "test", "app", "ACTIVITY")}

Plain == Route("/app/Plain", "app", "app", "app", "OTHER")
Malformed == [Route("app", "", "app", "app", "ACTIVITY") EXCEPT !.wellFormed = FALSE]
NoPath == [Route("", "", "app", "app", "ACTIVITY") EXCEPT !.wellFormed = FALSE]

MCDeclared ==
    MCApp \cup {Plain, Malformed, NoPath} \cup
    {Route("/crash/Careless", "crash", "crash", "crash", "ACTIVITY"),
     Route("/crash/Bare", "crash", "crash", "crash", "ACTIVITY"),
     Route("/order/getDrawable", "order", "order", "order", "CALL"),
     Route("/crash/getUserInfo", "crash", "crash", "crash", "CALL")}

MCBuilds == {{}, MCApp} \cup {MCApp \cup {r} : r \in {Plain, Malformed, NoPath}}

MCUndeclared == {Route("/app/Nobody", "app", "app", "app", "ACTIVITY")}

MCCallers == {"/app/MainActivity", "/app/ActivityResultTestActivity",
              "/crash/Careless", "/crash/Bare"}

MCFields ==
    [a \in MCCallers |->
        CASE a = "/app/MainActivity" ->
                {Field("orderDrawable", "/order/getDrawable", "CALL"),
                 Field("nobody", "/app/Nobody", "CALL")}
          [] a = "/app/ActivityResultTestActivity" ->
                {Field("named", "intKey", "INT"), Field("user", "", "PARCELABLE")}
          [] a = "/crash/Careless" -> {Field("user", "", "CALL")}
          [] a = "/crash/Bare" -> {}]
=============================================================================
