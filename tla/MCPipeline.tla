----------------------------- MODULE MCPipeline -----------------------------
(***************************************************************************)
(* Instances of Pipeline for TLC.  The requests of Routing are made from the *)
(* routes: each route, with values for its parameters, is what a client      *)
(* wants.  Those of Pipeline are few, and meet each other at Common Auth.    *)
(***************************************************************************)
EXTENDS Pipeline

CONSTANTS u1, u2, t1, t2

Here == [ordId |-> "o1", departmentId |-> "d1"]
There == [ordId |-> "o2", departmentId |-> "d2"]
Half == [ordId |-> "o1", departmentId |-> Undefined]
NoBody == [role |-> Undefined, place |-> NoPlace]

Spelled(code, style) == [code |-> code, style |-> style]
Person(u, role, roles, place) == [id |-> u, role |-> role, roles |-> roles, place |-> place]

----------------------------------------------------------------------------
(* One request of every kind, of every kind of user *)

\* a value for each parameter of a pattern: one that the route knows, or not
Values(rt, segment) ==
  IF segment \in {":resource", ":action"} THEN {"unheard-of"} \cup rt.allowed
  ELSE CASE segment = ":departmentId" -> {"d1"} [] segment = ":id" -> {u1}
         [] segment \in Parameters -> {"p1"} [] OTHER -> {segment}

RECURSIVE Paths(_, _)
Paths(rt, pattern) ==
  IF pattern = <<>> THEN {<<>>}
  ELSE {Append(path, v) : path \in Paths(rt, SubSeq(pattern, 1, Len(pattern) - 1)),
                          v \in Values(rt, pattern[Len(pattern)])}

Methods(rt) ==
  CASE rt.method = "ALL" -> {"GET", "PUT", "HEAD"} [] rt.method = "GET" -> {"GET", "HEAD"}
    [] OTHER -> {rt.method}

\* a DTO that has a department wants it to be a string that is not empty
Departments(rt) ==
  CASE rt.department = "field" /\ rt.dto -> {"d1"}
    [] rt.department = "field" /\ ~rt.dto -> {"d1", Undefined, Listed, Empty}
    [] rt.department = "body" -> {"d1", Undefined, Listed, Empty, Missing}
    [] OTHER -> {Undefined}

Bodies(rt) ==
  IF rt.operation = "create"
  THEN [role: {"MANAGER", "OPERATOR", Undefined}, place: {There, Half, NoPlace}]
  ELSE IF rt.operation = "role" THEN {[NoBody EXCEPT !.role = "MANAGER"]}
  ELSE IF rt.operation = "update" THEN {[NoBody EXCEPT !.place = There]} ELSE {NoBody}

RequestsFor(k) ==
  LET rt == AllRoutes[k]
  IN [wants: {k}, method: Methods(rt), path: Paths(rt, rt.path), department: Departments(rt),
      header: IF rt.actor = "none" THEN {Undefined} ELSE {"d2", Undefined},
      valid: IF rt.dto THEN BOOLEAN ELSE {TRUE}, body: Bodies(rt),
      token: IF rt.public THEN {Undefined} ELSE {t1, Undefined}]

MCEveryRequest ==
  UNION {RequestsFor(k) : k \in DOMAIN AllRoutes}
    \cup {[wants |-> Undefined, method |-> "GET", path |-> <<"nowhere">>, department |-> Undefined,
           header |-> Undefined, valid |-> TRUE, body |-> NoBody, token |-> Undefined]}

\* users as Common Auth may tell of them
MCEveryUser ==
  {Person(u1, Spelled("SUPER_ADMIN", "run"), <<>>, NoPlace),
   Person(u1, Undefined, <<Spelled("ADMIN", "prefixed")>>, NoPlace),
   Person(u1, Spelled("MANAGER", "glued"), <<>>, Here),
   Person(u1, Spelled("MANAGER", "run"), <<>>, Half),
   Person(u1, Spelled("HR", "run"), <<Spelled("OPERATOR", "glued"), Spelled("AUDITOR", "plain")>>,
          Here),
   Person(u1, Spelled("CEO", "plain"), <<>>, NoPlace)}

MCEveryAccount == 
  {[u \in Users |-> IF u = u1 THEN person ELSE Undefined] : person \in MCEveryUser}
MCLoggedIn == {[t \in Tokens |-> IF t = t1 THEN u1 ELSE Undefined]}

----------------------------------------------------------------------------
(* Few requests that change what Common Auth tells of each other *)

Request(method, path, body, token) ==
  [wants |-> RouteFor(method, path), method |-> method, path |-> path, department |-> Undefined,
   header |-> Undefined, valid |-> TRUE, body |-> body, token |-> token]

MCMeetingRequests ==
  {Request("GET", <<"tv", "snapshot">>, NoBody, Undefined),
   Request("GET", <<"dashboard", "department">>, NoBody, t1),
   Request("POST", <<"auth", "logout">>, NoBody, t1),
   Request("POST", <<"admin", "users">>, [role |-> "OPERATOR", place |-> There], t1),
   Request("PATCH", <<"admin", "users", u1>>, [NoBody EXCEPT !.place = There], t1),
   Request("PATCH", <<"admin", "users", u1, "role">>, [NoBody EXCEPT !.role = "OPERATOR"], t1),
   Request("DELETE", <<"admin", "users", u1>>, NoBody, t1),
   Request("POST", <<"auth", "login">>, NoBody, Undefined),
   Request("GET", <<"dashboard", "department">>, NoBody, t2)}

MCManager ==
  {[u \in Users |-> IF u = u1 THEN Person(u1, Spelled("MANAGER", "run"), <<>>, Here)
                    ELSE Undefined]}

=============================================================================
