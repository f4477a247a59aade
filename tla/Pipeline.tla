------------------------------ MODULE Pipeline ------------------------------
(***************************************************************************)
(* What becomes of a request.  Express routes it, AuthGuard asks Common Auth *)
(* whose token it carries, RolesGuard and the pipes let it through or not,   *)
(* the handler makes up the actor and forwards the request to the core or to *)
(* Common Auth, and the answer goes back.  Between the two awaits of that    *)
(* chain, for /auth/me and for the forwarded request, the code runs to its   *)
(* end; at them other requests run, and Common Auth changes under them: by    *)
(* user management, login and logout, which pass through the gateway too.    *)
(*                                                                         *)
(* Common Auth and the core are external: they take what they were sent at    *)
(* any time, and accept or refuse it.  Common Auth accepts only what comes    *)
(* with a token it knows.  What a body holds is left out, except for the     *)
(* accounts that user management writes; so is the local half, which has     *)
(* modules of its own: its routes are answered "local".                     *)
(***************************************************************************)
EXTENDS Roles, Routes

CONSTANTS
  Requests, Users, Tokens,
  Inputs,           \* what clients may send
  InitialAccounts,  \* the accounts of Common Auth, by user
  InitialSessions,  \* and the users of its tokens
  Listed,           \* a departmentId that is not a string, as of ?departmentId=a&departmentId=b
  Empty,            \* the empty string for a departmentId
  Missing           \* no departmentId, for want of a body it could be in

(***************************************************************************)
(* A request: its method and path; the departmentId of its query or body, in *)
(* the one that its route looks at; its X-Department-Id header; its bearer   *)
(* token; whether it fits the DTO of its route; the role and the place that   *)
(* its body gives to an account; and the route that its client wants, which  *)
(* the gateway does not see.                                                *)
(***************************************************************************)
ASSUME PipelineAssumption ==
  /\ Null \notin Inputs
  /\ Undefined \notin Users
  /\ \A i \in Inputs :
       /\ DOMAIN i = {"wants", "method", "path", "department", "header", "token", "valid",
                      "body"}
       /\ i.valid \in BOOLEAN
       /\ DOMAIN i.body = {"role", "place"} /\ i.body.role \in AuthRoleCode \cup {Undefined}
       /\ DOMAIN i.body.place = {"ordId", "departmentId"}
  /\ \A accounts \in InitialAccounts :
       /\ DOMAIN accounts = Users
       /\ \A u \in Users : accounts[u] \in {Undefined, Null} \/ IsPerson(accounts[u])

\* what a client wants is a route that its request is meant for, or else none of them
ASSUME IntendedInputs ==
  \A i \in Inputs :
    IF i.wants = Undefined THEN RouteFor(i.method, i.path) = Undefined
    ELSE i.wants \in DOMAIN AllRoutes /\ Meant(AllRoutes[i.wants], i.method, i.path)

VARIABLES
  input,    \* of each request: what its client sent, Null before it arrives
  served,   \* the position of its route
  user,     \* what /auth/me told of its user
  told,     \* what the core or Common Auth is told
  answer,   \* what its client is told
  me, fwd,  \* the two calls it makes, see Upstream
  account,  \* Common Auth: by user, Undefined until created and Null once deleted
  session,  \* Common Auth: by token, Undefined until issued and Null once ended
  since     \* history: the users that the token of a request stood for at Common
            \* Auth, from the arrival of the request until /auth/me answered

vars == <<input, served, user, told, answer, me, fwd, account, session, since>>

Me == INSTANCE Upstream WITH Calls <- Requests, call <- me
Fwd == INSTANCE Upstream WITH Calls <- Requests, call <- fwd

\* what a client may be told, and nothing yet told apart from it
Answers == {"local", "cached", "400", "401", "403", "404", "405"} \cup Me!Endings
ASSUME AbsentAnswer == Null \notin Answers

RouteOf(r) == AllRoutes[served[r]]
Waiting(r) == me[r].phase \in {"sent", "answering"}

\* the user that Common Auth knows behind a token, if any
Known(accounts, sessions, token) ==
  {accounts[u] : u \in {v \in Users : /\ token # Undefined /\ sessions[token] = v
                                      /\ accounts[v] \notin {Undefined, Null}}}

PipelineInit ==
  /\ input = [r \in Requests |-> Null] /\ served = [r \in Requests |-> Undefined]
  /\ user = [r \in Requests |-> Null] /\ told = [r \in Requests |-> Null]
  /\ answer = [r \in Requests |-> Null]
  /\ Me!UpstreamInit /\ Fwd!UpstreamInit
  /\ account \in InitialAccounts /\ session \in InitialSessions
  /\ since = [r \in Requests |-> {}]

----------------------------------------------------------------------------
(* From the guards to the forwarded request, for an input i on the route rt and *)
(* the context u of its user *)

PassesRolesGuard(rt, u) == rt.roles = {} \/ rt.roles \cap RolesOf(u) # {}

\* assertResource, assertItemResource, and the actions that an operator may name; the
\* second lets more through than it means to, see InheritedNames
NamesAllowed(i, rt) ==
  rt.allowed = {} \/ \E p \in {":resource", ":action"} : Param(rt, i.path, p) \in rt.allowed

Complete(place) == place.ordId # Undefined /\ place.departmentId # Undefined

CreatorPlaced(rt, u) ==
  rt.operation = "create" /\ IsDepartmentManager(u) => Complete(u.place)

\* mutant: only what the body leaves out is taken from the manager
ScopedBodyGaps(i, u) ==
  IF IsDepartmentManager(u) /\ i.body.place = NoPlace
  THEN [i.body EXCEPT !.place = u.place] ELSE i.body

\* the place of a department manager replaces the one of the body
ScopedBody(i, u) ==
  IF IsDepartmentManager(u) THEN [i.body EXCEPT !.place = u.place] ELSE i.body

\* mutant: the organization alone is asked for
ManagerHalfPlaced(i, rt, u) ==
  rt.operation = "create" /\ i.body.role = "MANAGER" =>
    ScopedBody(i, u).place.ordId # Undefined

\* whoever is created a MANAGER has a place
ManagerPlaced(i, rt, u) ==
  rt.operation = "create" /\ i.body.role = "MANAGER" => Complete(ScopedBody(i, u).place)

\* CoreGatewayService has the methods of the core client
MethodSupported(i, rt) ==
  rt.method = "ALL" => i.method \in {"GET", "POST", "PATCH", "PUT", "DELETE"}

\* the handler reads a field of a body that nothing made sure of
FieldReadable(i, rt) == rt.department = "body" => i.department # Missing

\* what a request has to meet, in the order it is looked at, and how it is refused
Demands(i, rt, u) ==
  << <<PassesRolesGuard(rt, u), "403">>,
     <<rt.dto => i.valid, "400">>,
     <<NamesAllowed(i, rt), "404">>,
     <<CreatorPlaced(rt, u), "400">>,
     <<ManagerPlaced(i, rt, u), "400">>,
     <<FieldReadable(i, rt), "500">>,
     <<rt.actor = "user" => u.id # Undefined, "401">>,
     <<rt.actor = "user" => ResolveUserRole(u) # Undefined, "403">>,
     <<MethodSupported(i, rt), "405">> >>

Refusal(i, rt, u) ==
  LET demands == Demands(i, rt, u)
      unmet == {k \in DOMAIN demands : ~demands[k][1]}
  IN IF unmet = {} THEN "none"
     ELSE demands[Min(unmet)][2]

\* the departmentId that the handler hands to the actor factory
DepartmentOverride(i, rt) ==
  CASE rt.department = "path" -> Param(rt, i.path, ":departmentId")
    [] rt.department \in {"field", "body"} -> IF i.department = Listed THEN Undefined ELSE i.department
    [] OTHER -> Undefined

\* mutant: the header of a client comes before the department the handler works on
ActorDepartmentOfHeader(i, rt, u) == Coalesce(i.header, DepartmentOverride(i, rt))

\* the override, for a user else the header, else the department of the user
ActorDepartment(i, rt, u) ==
  IF rt.actor = "user"
  THEN Coalesce(DepartmentOverride(i, rt), Coalesce(i.header, u.place.departmentId))
  ELSE DepartmentOverride(i, rt)

\* CoreActorFactory: fromUser, device and system
Actor(i, rt, u) ==
  [id |-> CASE rt.actor = "user" -> u.id
            [] rt.actor = "system" -> "public-web"
            [] OTHER -> Coalesce(Param(rt, i.path, ":deviceCode"), rt.actor),  \* or a fixed name
   role |-> CASE rt.actor = "user" -> ResolveUserRole(u)
              [] rt.actor = "system" -> "SYSTEM"
              [] rt.actor = "tv" -> "TV"
              [] OTHER -> "TERMINAL",
   department |-> ActorDepartment(i, rt, u)]

\* the headers that tell the core of the actor: an empty department is left out
Headers(actor) ==
  [actor EXCEPT !.department = IF @ = Empty THEN Undefined ELSE @]

\* a role is written as Common Auth spells it
CommonAuthWriteBody(body) ==
  [body EXCEPT !.role = IF @ = Undefined THEN Undefined
                        ELSE ToCommonAuthRole([code |-> @, style |-> "plain"])]

\* what the other service is asked
Forwarded(i, rt, u) ==
  [method |-> IF rt.method = "ALL" THEN i.method ELSE rt.method,
   path |-> Target(rt, i.path),
   actor |-> IF rt.service = "core" THEN Headers(Actor(i, rt, u)) ELSE Null,
   body |-> IF rt.service = "core" THEN Null
            ELSE CommonAuthWriteBody(IF rt.operation = "create" THEN ScopedBody(i, u) ELSE i.body)]

Answer(r, what) == answer' = [answer EXCEPT ![r] = what]

\* mutant: the handler does not wait for the promise of the client
HandleUnawaited(r, i, rt, u) ==
  LET refusal == Refusal(i, rt, u)
  IN IF refusal = "none" /\ rt.service # "local"
     THEN /\ Fwd!Send(r) /\ told' = [told EXCEPT ![r] = Forwarded(i, rt, u)]
          /\ Answer(r, "ok")
     ELSE /\ Answer(r, IF refusal = "none" THEN "local" ELSE refusal)
          /\ UNCHANGED <<told, fwd>>

\* RolesGuard, the pipes and the handler
Handle(r, i, rt, u) ==
  LET refusal == Refusal(i, rt, u)
  IN \/ /\ refusal # "none"
        /\ Answer(r, refusal) /\ UNCHANGED <<told, fwd>>
     \/ /\ refusal = "none" /\ rt.service = "local"
        /\ Answer(r, "local") /\ UNCHANGED <<told, fwd>>
     \/ /\ refusal = "none" /\ rt.cached  \* see TvCache
        /\ Answer(r, "cached") /\ UNCHANGED <<told, fwd>>
     \/ /\ refusal = "none" /\ rt.service # "local"
        /\ Fwd!Send(r) /\ told' = [told EXCEPT ![r] = Forwarded(i, rt, u)]
        /\ UNCHANGED answer

----------------------------------------------------------------------------
(* The gateway *)

\* mutant: the guard remembers what /auth/me told an earlier request of the token
ArriveRemembered(r, i) ==
  LET k == RouteFor(i.method, i.path)
      same == {q \in Requests : input[q] # Null /\ input[q].token = i.token /\ user[q] # Null}
  IN /\ input[r] = Null /\ k # Undefined /\ i.token # Undefined /\ ~AllRoutes[k].public
     /\ input' = [input EXCEPT ![r] = i] /\ served' = [served EXCEPT ![r] = k]
     /\ since' = [since EXCEPT ![r] = Known(account, session, i.token)]
     /\ IF same = {} THEN Me!Send(r) /\ UNCHANGED <<answer, told, fwd, user>>
        ELSE \E q \in same : /\ user' = [user EXCEPT ![r] = user[q]] /\ UNCHANGED me
                             /\ Handle(r, i, AllRoutes[k], NormalizeAuthContext(user[q]))
     /\ UNCHANGED <<account, session>>

\* a request arrives: Express routes it, AuthGuard lets it pass, refuses it or asks
Arrive(r, i) ==
  LET k == RouteFor(i.method, i.path)
  IN /\ input[r] = Null
     /\ input' = [input EXCEPT ![r] = i] /\ served' = [served EXCEPT ![r] = k]
     /\ since' = [since EXCEPT ![r] = Known(account, session, i.token)]
     /\ \/ /\ k = Undefined
           /\ Answer(r, "404") /\ UNCHANGED <<me, told, fwd>>
        \/ /\ k # Undefined /\ AllRoutes[k].public
           /\ Handle(r, i, AllRoutes[k], NoUser) /\ UNCHANGED me
        \/ /\ k # Undefined /\ ~AllRoutes[k].public /\ i.token = Undefined
           /\ Answer(r, "401") /\ UNCHANGED <<me, told, fwd>>
        \/ /\ k # Undefined /\ ~AllRoutes[k].public /\ i.token # Undefined
           /\ Me!Send(r) /\ UNCHANGED <<answer, told, fwd>>
     /\ UNCHANGED <<user, account, session>>

others == <<input, served, account, session, since>>

MeHeaders(r) == Me!Headers(r) /\ UNCHANGED <<user, told, answer, fwd, others>>

\* what /auth/me told is normalized; a refusal goes to the client
MeEnds(r) ==
  /\ Me!BodyEnds(r)
  /\ \/ /\ me'[r].phase = "ok"
        /\ Handle(r, input[r], RouteOf(r), NormalizeAuthContext(user[r]))
     \/ me'[r].phase = "rejected" /\ Answer(r, "rejected") /\ UNCHANGED <<told, fwd>>
  /\ UNCHANGED <<user, others>>

\* mutant: the error of the call is lost
MeFailedSilently(r) == UNCHANGED <<user, told, answer, fwd, others>>

MeFailed(r) == Answer(r, me'[r].phase) /\ UNCHANGED <<user, told, fwd, others>>

MeTimesOut(r) == Me!TimesOut(r) /\ MeFailed(r)

\* a body that is no user context is a 502 too
MeFails(r) ==
  \/ Me!Unreachable(r) /\ MeFailed(r)
  \/ Me!BodyBreaks(r) /\ MeFailed(r)
  \/ Me!BodyGarbled(r) /\ MeFailed(r)

FwdHeaders(r) == Fwd!Headers(r) /\ UNCHANGED <<user, told, answer, me, others>>

FwdEnded(r) == Answer(r, fwd'[r].phase) /\ UNCHANGED <<user, told, me, others>>

FwdEnds(r) == Fwd!BodyEnds(r) /\ FwdEnded(r)

FwdTimesOut(r) == Fwd!TimesOut(r) /\ FwdEnded(r)

\* the body of a report is not parsed, unless it came with an error
FwdFails(r) ==
  \/ Fwd!Unreachable(r) /\ FwdEnded(r)
  \/ Fwd!BodyBreaks(r) /\ FwdEnded(r)
  \/ /\ Fwd!BodyGarbled(r) /\ FwdEnded(r)
     /\ RouteOf(r).raw => fwd[r].verdict = "refused"

----------------------------------------------------------------------------
(* Common Auth and the core *)

\* /auth/me, for a gateway that still waits: what comes later changes nothing
MeTaken(r) ==
  /\ me[r].phase = "sent"
  /\ \/ /\ Me!Take(r, "accepted")
        /\ \E u \in Known(account, session, input[r].token) :
             \E body \in {u, NoUser} : user' = [user EXCEPT ![r] = body]
     \/ Me!Take(r, "refused") /\ UNCHANGED user
  /\ UNCHANGED <<told, answer, fwd, others>>

\* the account that the path of a request names
Named(r) == Param(RouteOf(r), input[r].path, ":id")

Merged(old, body) ==
  [old EXCEPT !.role = Given(body.role, @),
    !.place = [ordId |-> Given(body.place.ordId, @.ordId),
               departmentId |-> Given(body.place.departmentId, @.departmentId)]]

Login ==
  \E t \in Tokens, u \in Users :
    /\ session[t] = Undefined /\ account[u] \notin {Undefined, Null}
    /\ session' = [session EXCEPT ![t] = u]
    /\ UNCHANGED account

Logout(r) == session' = [session EXCEPT ![input[r].token] = Null] /\ UNCHANGED account

Create(r) ==
  \E u \in Users :
    /\ account[u] = Undefined
    /\ account' = [account EXCEPT ![u] = [id |-> u, role |-> told[r].body.role, roles |-> <<>>,
                                          place |-> told[r].body.place]]
    /\ UNCHANGED session

Update(r) ==
  /\ Named(r) \in Users /\ account[Named(r)] \notin {Undefined, Null}
  /\ account' = [account EXCEPT ![Named(r)] = Merged(@, told[r].body)]
  /\ UNCHANGED session

Delete(r) ==
  /\ Named(r) \in Users /\ account[Named(r)] \notin {Undefined, Null}
  /\ account' = [account EXCEPT ![Named(r)] = Null]
  /\ UNCHANGED session

\* what Common Auth does for a request it accepts
Operation(r) ==
  \/ RouteOf(r).operation = "login" /\ Login
  \/ /\ Known(account, session, input[r].token) # {}
     /\ \/ RouteOf(r).operation = "logout" /\ Logout(r)
        \/ RouteOf(r).operation = "list" /\ UNCHANGED <<account, session>>
        \/ RouteOf(r).operation = "create" /\ Create(r)
        \/ RouteOf(r).operation \in {"update", "role"} /\ Update(r)
        \/ RouteOf(r).operation = "delete" /\ Delete(r)

\* the forwarded request is taken, whether or not the gateway still waits for it
FwdTaken(r) ==
  /\ \/ Fwd!Take(r, "accepted") /\ RouteOf(r).service = "core" /\ UNCHANGED <<account, session>>
     \/ Fwd!Take(r, "accepted") /\ RouteOf(r).service = "auth" /\ Operation(r)
     \/ Fwd!Take(r, "refused") /\ UNCHANGED <<account, session>>
  /\ since' = [q \in Requests |->
       IF Waiting(q) THEN since[q] \cup Known(account', session', input[q].token) ELSE since[q]]
  /\ UNCHANGED <<input, served, user, told, answer, me>>

----------------------------------------------------------------------------

PipelineNext ==
  \E r \in Requests :
    \/ \E i \in Inputs : Arrive(r, i)
    \/ MeHeaders(r) \/ MeEnds(r) \/ MeTimesOut(r) \/ MeFails(r) \/ MeTaken(r)
    \/ FwdHeaders(r) \/ FwdEnds(r) \/ FwdTimesOut(r) \/ FwdFails(r) \/ FwdTaken(r)

\* the timers of the gateway fire, and nothing else is sure to happen
PipelineSpec ==
  /\ PipelineInit /\ [][PipelineNext]_vars
  /\ \A r \in Requests : WF_vars(MeTimesOut(r)) /\ WF_vars(FwdTimesOut(r))

----------------------------------------------------------------------------
(* What the pipeline promises *)

Sent(r) == fwd[r].phase # "unsent"

\* Every request is somewhere along the chain: calls run only where the chain has
\* come to them, what has come to its end is answered, and the core hears only of
\* roles it knows.
PipelineTypeOK ==
  /\ input \in [Requests -> Inputs \cup {Null}]
  /\ \A r \in Requests :
       /\ me[r].phase # "unsent" => input[r] # Null /\ served[r] # Undefined
       /\ Sent(r) => input[r] # Null /\ served[r] # Undefined
       /\ Sent(r) => RouteOf(r).public \/ me[r].phase = "ok"
       /\ Sent(r) /\ RouteOf(r).service = "core" => told[r].actor.role \in CoreRoles
       /\ answer[r] \in Answers \cup {Null}
       /\ answer[r] = Null /\ Me!Ended(r) => me[r].phase = "ok" /\ Sent(r)

\* No request is ever adrift: as long as it is not answered, one of its calls is
\* under way, whose end or timer will answer it; and once it is answered none is,
\* so that no late result is told a second time.
NeverAdrift ==
  \A r \in Requests :
    input[r] # Null /\ answer[r] = Null
      <=> Waiting(r) \/ fwd[r].phase \in {"sent", "answering"}

\* Each documented operation is served by its own handler: no route is hidden by
\* one that is registered before it (the tables of docs/SWAGGER_FRONTEND_CONTRACT.md).
RoutedAsIntended ==
  \A r \in Requests : input[r] # Null => served[r] = input[r].wants

\* The two readings of a role agree where it matters: whom RolesGuard lets through
\* to the core is never turned away by the actor factory for want of a role or an id.
AdmittedHasActor ==
  \A r \in Requests :
    me[r].phase = "ok" /\ RouteOf(r).service = "core" /\ answer[r] \in {"401", "403"} =>
      RouteOf(r).roles \cap RolesOf(NormalizeAuthContext(user[r])) = {}

\* The core is told of a department that the client cannot contradict by its
\* X-Department-Id header: the one in the path, or in the body or query where the
\* handler looks (docs/SWAGGER_FRONTEND_CONTRACT.md:214); and of the header only
\* for a user.
DepartmentAsNamed ==
  \A r \in Requests : Sent(r) /\ RouteOf(r).service = "core" =>
    LET named == DepartmentOverride(input[r], RouteOf(r))
    IN /\ named \notin {Undefined, Null, Empty} => told[r].actor.department = named
       /\ RouteOf(r).public => told[r].actor.department \in {named, Undefined}

\* Nothing is forwarded on the word of another time: the user in whose name a
\* request goes on is one its token stood for at Common Auth after the request
\* arrived.  A request that comes after its token ended is never forwarded.  An
\* empty answer of /auth/me passes for a user only where no role is asked for.
VouchedSinceArrival ==
  \A r \in Requests : Sent(r) /\ ~RouteOf(r).public =>
    \/ user[r] \in since[r]
    \/ user[r] = NoUser /\ RouteOf(r).roles = {}

\* Users created by a department manager get the manager's organization and
\* department, whatever the request says (docs/FRONTEND_INTEGRATION.md:670), even
\* if the manager is moved meanwhile; and no MANAGER is created without a place.
CreatedInScope ==
  \A r \in Requests :
    Sent(r) /\ RouteOf(r).operation = "create" /\ user[r] \notin {Null, NoUser} =>
    /\ (\A u \in since[r] : IsDepartmentManager(u)) =>
         told[r].body.place \in {u.place : u \in since[r]}
    /\ input[r].body.role = "MANAGER" => Complete(told[r].body.place)

(***************************************************************************)
(* A client reads its answer as Relay says, and all it has is the answer: it  *)
(* cannot tell a failure of the forwarded call from one of /auth/me or of    *)
(* the handler with the same status, so each leaves open what was done.      *)
(* "rejected" and the other statuses of the gateway's own making mean that    *)
(* nothing was done, and nothing will be.                                   *)
(***************************************************************************)
relayDone == [r \in Requests |-> fwd[r].applied]
relaySaid == [r \in Requests |->
  IF answer[r] = Null THEN "nothing" ELSE IF answer[r] = "ok" THEN "done"
  ELSE IF answer[r] \in Fwd!Failures THEN "unknown" ELSE "refused"]

Abstract == INSTANCE Relay WITH done <- relayDone, said <- relaySaid

\* A forwarded request is done at most once, and the answer of the gateway is true
\* of it then and ever after, also when the service takes the request late.
AnsweredTruthfully == Abstract!RelaySpec

\* Every request is answered, as long as services end the bodies they begin: the
\* timer covers the wait for an answer and not the reading of it.
BodiesEnd ==
  \A r \in Requests : []<>(me[r].phase # "answering" /\ fwd[r].phase # "answering")
EveryRequestAnswered ==
  BodiesEnd => \A r \in Requests : input[r] # Null ~> answer[r] # Null

=============================================================================
