# A verification of the gc-queue gateway

`gc-queue` is a NestJS backend of an electronic queue. One Node process holds

- a *local half*: a catalog of services, branches, departments, the links
  between departments and services, bookings with QR tokens, and an audit log,
  all of it in memory;
- a *gateway half*: an authentication pipeline in front of every route, and
  controllers that forward requests to two other systems, the auth service and
  the queue core, with a small cache for the TV screens.

This directory models the program in TLA+, checks the models with TLC on small
instances and proves what matters most with TLAPS for every size.
`PROJECT.json` lists components, runs, mutants, the source lines of every
definition, hazards, findings and theorems.

## Inventory

| component | source (`src/src/...`) | state | operations | what makes it correct |
|---|---|---|---|---|
| Catalog tree | `catalog/services.service.ts` | nodes by id, next id | create, update, remove | always a forest under the two system roots; services are leaves; unique codes; a refused request changes nothing |
| Directory | `branches/`, `departments/` | two tables, next ids | create, update, remove | ids are never reused; rows left behind by a removal refer to nothing new; changes are recorded |
| Links | `department-services/` | links by id | assign (upsert), update, unassign, remove; availability | one link per pair; a link never comes to mean another row |
| Bookings and QR | `bookings/`, `qr/` | bookings, clock | create, slot offer, confirm, cancel, inspect, consume | a slot has one active booking; cancelled is final; a token is used once, in time, while its booking holds |
| Audit log | `audit/` | list of records | record, query | replaying it gives the rows as they are |
| TV cache | `core-gateway/tv-cache.service.ts` | entries by key with expiry | getOrLoad across an await | what is answered from the cache was taken less than the time to live ago; a failed load leaves nothing behind |
| Core client | `core/equeue-core.client.ts` | a timer and a fetch per request | request, requestRaw | nothing is sent twice; what a client is told of its request is true then and ever after; every request is answered |
| Actor factory | `core/core-actor.factory.ts` | none | fromUser, system, device | whom the guard admitted has an actor the core knows; the department is the one the request is about |
| Gateway controllers | `core-gateway/*.controller.ts`, `core-gateway.service.ts` | none | routes and forwarding | each documented operation reaches its own handler, behind the roles it asks for |
| Guards and roles | `auth/guards/`, `auth/auth.roles.ts` | user of a request | AuthGuard, RolesGuard, role names | nothing is forwarded for a user whom Common Auth did not vouch for since the request arrived |
| User management | `auth/auth.service.ts`, `auth.utils.ts`, `auth.controller.ts`, `admin-users.controller.ts` | none | login, me, logout, list, create, update, delete, role | a department manager creates users only in the own organization and department; no MANAGER is created without them |
| Health, bootstrap, Swagger | `main.ts`, `app.module.ts`, `health/`, `swagger.ts` | none | | the order in which routes are registered |
| Prisma schema, deployment | `prisma/` | none | | not modelled: nothing uses it |

How they interact. Bookings read branches, departments, the catalog and the
links through injected services; links read the catalog and the departments;
every local service writes to the audit log. Nothing reads back: a branch does
not know its departments, a service does not know its links, so rows may change
or go under those that refer to them. All local handlers are synchronous, so
Node runs each of them to its end: the interleaving that matters is that of
whole requests of many clients, the clock among them. The gateway half awaits:
the auth service before each handler that is not public, then the core, then
the body of its answer; there requests overlap inside a handler.

The hard behaviours, at their lines, are the `hazards` of `PROJECT.json`: an
update that throws half way; sequences of moves and conversions in the tree;
removals under rows that refer to what was removed; re-booking between a
cancellation and a late confirmation; scans repeated, late, or after a
cancellation; and, in the gateway half, overlapping cache loads, timeouts after
which the core still acts, and contexts used after an await.

## Modules

| module | models | extends |
|---|---|---|
| `Store` | an in-memory table, absent and null request fields, what the audit log replays to | |
| `Catalog` | `ServicesService` | `Store` |
| `Directory` | `BranchesService`, `DepartmentsService` | `Store` |
| `DepartmentServices` | `DepartmentServicesService`; composes the three directory components | `Catalog`, `Directory` |
| `Bookings` | `BookingsService`, the QR controller, the clock; composes the local half | `DepartmentServices` |
| `Reservations` | the abstract specification of a booking desk | |
| `Upstream` | one call of the gateway to another service: `AuthService.request`, `EqueueCoreClient.request` and `requestRaw`, and the service that takes it | |
| `Roles` | role names and their two readings, `normalizeAuthContext`, the role that the core is told | `Store` |
| `Routes` | the route tables of all controllers in the order of registration, and how Express picks one | `Store` |
| `Pipeline` | `AuthGuard`, `RolesGuard`, pipes, handlers, actor factory and user management around two calls, with Common Auth's accounts and sessions; composes the gateway half | `Roles`, `Routes`, two instances of `Upstream` |
| `Relay` | the abstract specification of what a client may conclude from an answer | |
| `TvCache` | `TvSnapshotCacheService` behind the snapshot routes, the core that answers, the clock | `Store` |
| `MC...` | values of the constants for TLC | |
| `...Proofs` | the theorems | |

Correspondence. A table is a function from ids to records; `With` and `Without`
are `push`/assignment and `splice`. A handler is one action named as its method;
its guard is the conjunction of the checks the method makes, and a request that
one of them refuses changes nothing and so is no action. The exception is
`PATCH /services/:id`, which writes code and type before it resolves the new
parent: its failure is the action `UpdateServiceFailsOnParent`. Request fields
are drawn from small sets with `\E`; `Undefined` is an absent field and `Null` a
null one, which `@IsOptional()` lets through wherever a field is optional, and
`??` and `!== undefined` treat them differently (`Coalesce`, `Given`).

Each table has a *trail*: for every entity whose newest audit record is not a
removal, the state that record holds. A row and its trail differ exactly when
the row changed and no record was made.

`isDescendant` walks up from the candidate parent. `IsDescendant` states its
answer with upward closed sets, which the proof about moves needs; `Walk` is the
loop itself, and `DescendantWalk` says that the two agree and that the loop ends.

Time is counted in hours, instants are whole numbers, a day has `DayLength` of
them. A QR token is a fresh random UUID and stands for its booking's id.

`getOrLoad` awaits its loader, so it is the steps `Hit` or `Miss`, and after a
miss `LoadReturns` or `LoadFails`; between the two the core takes the snapshot
(`CoreTakesSnapshot`) and time passes (`Tick`, in units of which `TtlMs` counts).
A snapshot is the instant at which the core took it. A screen makes one request
at a time; the screens overlap as they like. Instants
are those of the gateway's clock, which is taken not to go back.

A request of the gateway half is followed from its arrival to its answer. The
code runs without a break except at two awaits, for `GET /auth/me` and for the
forwarded request, so `Arrive` takes a request to its first call or its answer,
and `MeEnds` from the user context through `RolesGuard`, the pipes and the
handler to the forwarded request or its answer. What can refuse a request on
that way is `Demands`, a list in the order in which Nest and the code look, and
the first demand that is not met names the status.

A call (`Upstream`) is sent, gets headers, and gets a body. The timer is cleared
when `fetch` settles, so `TimesOut` is possible only before the headers and the
body may end, break off (500), be no JSON (502), or never end. The service takes
a request at any time while it is on the way, also after the gateway gave up:
`AbortController` closes a connection, it does not call a request back. The two
calls of a request are two instances of the module, `Me` and `Fwd`.

Common Auth and the core are external: they accept or refuse as they like,
within what they can know. Common Auth accepts only tokens that stand for an
account, and answers `/auth/me` with that account as it stands when the call is
taken; accounts are created, changed and deleted, sessions begun and ended, only
by requests that came through the gateway. `since` is a history variable: what
the token of a request stood for at Common Auth from the arrival of the request
until its context was there.

A role name is a code and a spelling style, the four styles being those that one
of the two readings (`normalizeRoleCode`, `CoreActorFactory.normalizeRole`)
treats differently. A route is a record of what its decorators say and of what
its handler does with a request. `wants` in a request is the route that the
client means, which the gateway does not see. A request is made for its route
(`Meant`, assumed of all inputs by `IntendedInputs`): method and path fit, and no
parameter is one of the words `users`, `slots` and `token.svg` (which stands for
every segment with that extension), where a route registered earlier takes the
request away from the parameter: `/admin/users` names no resource, `GET
/bookings/slots` no booking, `GET /qr/<token>.svg` is the image of a token. These
three are all that a client has to avoid (`RoutesReached`).

Two places where the code lets through what it does not expect are modelled as
they are. The resource of a management item is looked up in a plain object, where
a name such as `constructor` is found too (`InheritedNames`, one name for all of
them); the request then goes to the core under the text of what was found
(`ItemPath`). And `POST /tickets` reads a field of a body that nothing has checked:
with no body (`Missing`) the handler throws after the guards, a 500 with nothing
forwarded (`FieldReadable`).

A link is made only to a service, and nothing keeps the node a service: it may be
converted later. The code expects that and looks at the type again at every use
(`ServiceAvailable`, `BookingAvailable`), so no property is stated of the links.

Left out, because no decision reads them: names, descriptions, department codes,
customers, notes, priorities (they order listings), created/updated timestamps,
the rendering of SVG. Parsing of dates is left out too: the model starts from
instants. In the gateway half: query strings, bodies other than role and place,
window, language and request id, scopes, error bodies, and how Common Auth's
answers are renamed for the client.

Definitions commented `mutant` are variants of the definition that follows, with
a plausible bug; `PROJECT.json` names for each property of a run one that breaks it.

## Runs

Bounds are constants named `Max...`; ids are never reused, so they also bound
the number of creations in a behaviour. A bounded model can use up its ids and
its time and stop, which is no fault of the program: the runs where that happens
say `CHECK_DEADLOCK FALSE`.

| run | instance | shows |
|---|---|---|
| `CatalogTree` | 3 nodes below the roots, 3 interchangeable codes | `Forest`, `ServicesAreLeaves`, `DescendantWalk`: three nodes are what a cycle needs that a check of one or two steps would miss |
| `CatalogAny` | 2 nodes, every null or absent field | `UniqueCodes`, and `PlacementAudited`: parent and activity never run ahead of the audit log, even when an update fails half way |
| `Directory` | 3 branches, 2 departments | `OrphanStaysOrphan`: a branch removed, another created, a department still naming the first; `DirectoryAudited` |
| `Links` | 2 departments and 2 services in turn, 3 links | `OneLinkPerPair`, `LinksAudited`, `DanglingStaysDangling` while both ends come, are converted and go |
| `Bookings` | 2 bookings, 3 instants over 2 days, one offer that is switched off and on, moved and removed | `SlotExclusive`, `OfferedIsBookable`, `BookingsAudited`, `CancelledIsFinal`, `QrSingleUse`, the refinement `DeskSpec`, and `QrEndsEventually` |
| `Newcomers` | 1 booking, 2 branches, 2 departments, 2 services and 2 links, one after the other or together | `NewcomersUnbooked`: a booking outlives what it names, and what is created then is not its (about 214,000 states) |
| `TvCache` | 2 screens, 2 keys, time to live 2, instants 0 to 4 | `ServedWithinTtl`, `ScreenLag`: two loads of a key overlap, the older answer is stored last, and the entry still expires in time |
| `Routing` | 1 request, every route with every value of its parameters, known and unknown names, 6 kinds of user, 4 kinds of department field and a missing body | `RoutedAsIntended`, `AdmittedHasActor`, `DepartmentAsNamed`, `CreatedInScope` for each route by itself (about 105,000 states) |
| `Pipeline` | 2 requests drawn from 9 that change or use accounts and sessions, 2 users, 2 tokens | `VouchedSinceArrival`, `CreatedInScope` while the manager is moved, demoted, deleted or logged out, `NeverAdrift`, `PipelineTypeOK`, the refinement `AnsweredTruthfully`, and `EveryRequestAnswered` (about 195,000 states) |

`CreatedInScope` is checked by both. Its clause on the place of a new MANAGER is
exercised in `Routing`, whose bodies ask for every role and place; the only user
that `Pipeline` creates is an OPERATOR, by a manager who changes meanwhile.
`AdmittedHasActor` says that a user whom the guard lets through has a role and an
id for the core; that a context has an id at all is `IsPerson`, an assumption on
what Common Auth answers.

One request is enough for `Routing`, since no route looks at another request;
its point is that every route, user, spelling and department meets every other.
Two requests are enough for `Pipeline`: one is decided upon on what the other
changes. The theorems remove the bounds of both.

`AnsweredTruthfully` is `Relay` with `done` how often the service did what a
forwarded request asks, and `said` what the answer means. It is read from the
answer alone, which is all a client has: a 2xx means done; a 504, 503, 502 or 500
leaves it open, whichever call it comes from and also where the handler itself
fails; everything else, the service's refusal or the gateway's, means not done and
never to be done. That reading is the weakest a client may rely on: a 504 may
still be done later, and a 502 or 500 may have been done already. It rests on a
service that answers with another status than 2xx not having done what it was
asked, which the gateway takes for granted and the external half of `Upstream`
models.

Two bookings are enough for double booking, since the property is about pairs
and no handler counts bookings; the theorems remove the bound.

`DeskSpec` is `Reservations` with `held` the slots of the active bookings,
`issued` the bookings ever made and `live` the tokens that `consumeQr` would
accept. A booking made with a token that has already lapsed (a negative
`QR_TTL_MINUTES`) is a reservation born without a live token.

Fairness. In the local half only `AdvanceClock` is fair, in `FairGatewaySpec`:
time passes whatever clients do, and no request has to be made.
`QrEndsEventually` needs no more than that. In the gateway half only the timers
are fair, `MeTimesOut` and `FwdTimesOut`: `setTimeout` fires if nothing cleared
it. Neither service has to answer and the network has to deliver nothing. Since
no timer covers the body of an answer, `EveryRequestAnswered` has the premise
`BodiesEnd`, that a service that began a body ends it or breaks it off; without
it the code does leave requests without an answer.

Three runs are expected to find a violation; each is a statement of the
repository that the code does not keep (`findings`):

- `CatalogAudited`: a refused `PATCH` leaves the new code and type behind, with
  no audit record;
- `ParentsAreCategories`: `type: null` is accepted and stored, and children end
  up below a node that is no category;
- `UniqueBranchCodes`: branch codes are described as unique and never compared.

## Proofs

The theorems hold for every value of the constants that meets their named
assumptions (`AbsentValues`, `CatalogAssumption`, `DirectoryAssumption`,
`LinksAssumption`, `BookingsAssumption`, `TvAssumption`, `AbsentRole`,
`PipelineAssumption`, `IntendedInputs`, `AbsentAnswer`), which the runs evaluate. They are

- `CatalogForest`, `CatalogTypeCorrect`. The inductive invariant is the type
  invariant with `Forest`. Acyclicity is stated without induction: no nonempty
  set of nodes is closed under "its parent is in the set". A new leaf cannot be
  in such a set; removing a node leaves fewer sets; and for a move of `i` below
  `p`, a closed set after the move would, joined with the ancestors of `p`, have
  been closed before it or show that `i` is an ancestor of `p`, which
  `isDescendant` refused.
- `CatalogLeaves`, `CatalogCodes`, `CatalogPlacement`. Inductive together on top
  of that invariant (`CatalogRows`): each step changes one row, and the check
  that lets it through is about that row and its children.
- `CatalogWalk`. The loop of `isDescendant` ends from every node, and its answer is
  the one that `IsDescendant` states. Suppose it did not end within as many steps
  as there are ids: then it would have visited more nodes than there are
  (pigeonhole), so some node twice, and the nodes between the two visits would be
  a nonempty set closed under parents, which `Forest` excludes. For the answer,
  the nodes that the walk visits are the least upward closed set that holds the
  node it starts from. `Walk` is a recursive function, and what the proof uses of
  it is one step at a time.
- `DirectoryTypeCorrect`, `DirectoryLogged`, `DirectoryOrphans`. Ids are issued in increasing order, so
  an id below the counter that is not in the table never comes back.
- `LinksTypeCorrect`, `LinksUnique`, `LinksLogged`, `LinksDangle`. A link keeps its
  pair for life and a new one is made only for a pair without; that its ids were
  issued comes from the invariants of the catalog and the directory, which are
  carried along (`OfferIInv`).
- `BookingsTypeCorrect`, `BookingsExclusive`, `BookingsLogged`,
  `BookingsCancelledFinal`. A slot is taken only when no active booking has it,
  and a cancelled booking is never active again. Exclusiveness is inductive over the
  bookings alone; a new row is well formed because the ids it names are, so the
  invariants of the catalog and of the directory come along (`BookingsIInv`).
- `BookingsOffered`: an offered slot is one that `create` would grant. The two are
  decided by different code and meet in that a day's slots lie in that day
  (`SlotDate`) and that both count the same bookings.
- `BookingsSingleUse`: a consumed token is never valid again.
- `BookingsNewcomers`: a branch, a department or a service that is created has no
  bookings. Every id that a booking names was issued when it was made (`BookedIds`,
  inductive on top of the bookings' invariant), and what is created gets the next.
- `BookingsImplementDesk`: initial states map to initial states, each handler to
  a step of the desk, each tick of the clock to `Lapse`, everything else to a
  stuttering step. It covers an expiry that is not a date (`NaN`) too.
- `DeskCorrect`, `DeskNoRevival`: what the desk promises follows from its
  specification; `BookingsKeepDesk`, `BookingsNeverRevive` carry it through the
  refinement to the bookings: a slot has one holder, only holders have live
  tokens, and a dead token or a released booking stays so.
- `OfferParts`, `GatewayParts`, `GatewayKeepsDirectory`: the components compose. A
  step of the local half is a step of the catalog, of the directory, of the links
  or of the bookings and leaves the others alone, so that each component's
  specification is implied by the composition's, and every theorem above holds
  while requests to all of them interleave.

- `ServedInTime`, `ScreenLagBounded`, `TvTypeCorrect`. No entry expires later
  than its snapshot plus the time to live, because the time to live is counted
  from before the load; and a screen that waits for a load was shown nothing
  newer than the moment it asked. Both are needed: the first bounds what a hit
  shows, the second makes sure that a load never shows something older. They
  hold for a time to live that is zero, negative or not a number too.

- `RoutesSound`: each controller has a table of sound routes, soundness survives
  the decorators, and tables joined are a table.
- `RoutesReached`, `PipelineRoutes`: no route hides one that is registered after
  it. Two routes are apart if their paths differ in length, or in a place where
  neither word can stand for the other, or if their methods differ; then no
  request is meant for the one and fits the other. Within a table this is gone
  through row by row. Between tables it follows from the word that their paths
  begin with; where two tables share it (`audit`, `admin`, `qr`), from what
  `Family` looks at besides; and for `admin` it holds only in the order in which
  the modules are imported: user management before the resources of the core.
  That the pipeline serves the route so found is a small invariant of its own
  (`Routed`).
- `PipelineTypeCorrect`, `PipelineVouches`, `PipelineScopes`,
  `PipelineKeepsDepartment`, `PipelineAdmitted`, `PipelineNeverAdrift`, all from `PipelineInvariant`. The
  invariant says, request by request, how far the chain has come and that what
  was forwarded is what the decision makes of the input and the user
  (`ChainOK`), that the user is one whom Common Auth knew behind the token since
  the request arrived, or nobody (`UserOK`), and that accounts are persons. None
  of the properties is inductive by itself: each is about what was told, and
  only the invariant connects that to input, route and user. `PipelineAdmitted`
  needs `RoutesSound` too: routes ask for roles that the core knows, and the
  context has plain role names by the time the factory reads them.
  `PipelineNeverAdrift` is the part of "every request is answered, once" that
  safety can say: a request that is not answered has a call under way, whose end
  or timer answers it, and one that is answered has none.
- `PipelineImplementsRelay`: each step does, or says, of one request no more than
  `Relay` allows. It rests on `CallsOK` of `Upstream`, which every step of a call
  keeps (`CallStep`): a request is on the way until the service has its say, once.
- `PipelineToldTruly`, `PipelineToldForGood`: what `Relay` promises (its
  `ToldTruly`, `ToldForGood`), proved from its specification and so, through the
  refinement, of the pipeline. After a success the request was done, once; after a
  refusal it was not and will not be; no answer is taken back, and only a request
  whose end the client was told is unknown is carried out later.

Every invariant, action property and refinement that a passing run checks is
stated by a theorem. Only model-checked: `QrEndsEventually` and
`EveryRequestAnswered`, which are liveness under fairness.

## Not modelled

- The Prisma schema: nothing in the program uses it; all state is in memory and
  gone after a restart, so there is no recovery to model.
- Formatting: Swagger documents, SVG, the renaming of fields in answers of Common
  Auth, error bodies, query strings, the headers that are passed on as they are.
- The filters, copies and time stamps of the audit log; a record is modelled by
  what replaying the log gives (the trails).
- An answer of `/auth/me` that comes after the gateway gave up: it reads nothing
  then and changes nothing.
- Validation of DTOs is a flag of the request (`valid`): which strings fit is the
  validation library's matter.

A difference met and left without a run: docs/SYSTEM_USAGE_GUIDE.md, under "503
Spring core is unavailable", lists a timeout among the causes; the code answers
504 to a timeout (`TimesOut`) and 503 to every other failure to get an answer
(`Unreachable`).

## Plan

Done: the local half with its composition and the abstract desk; the TV cache;
the gateway half with its composition and the abstract relay; theorems for every
invariant, action property and refinement that a passing run checks; the
theorems of the components for their compositions.

Left: the audit log as a sequence of copies that is shown to replay to the
trails, and the TV routes of `Pipeline` joined with `TvCache`, which stands for
them now (such a request is answered `"cached"` and its load is `TvCache`'s).
