------------------------------- MODULE Routes -------------------------------
(***************************************************************************)
(* The routes of the gateway: what the decorators of each controller say,    *)
(* and what its handler does with a request.  Express tries the routes in    *)
(* the order in which Nest registers them, and takes the first that fits.    *)
(*                                                                         *)
(* A path is a sequence of segments; a pattern has parameters among them.    *)
(* token.svg stands for every segment with that extension.                   *)
(***************************************************************************)
EXTENDS Store, Sequences, FiniteSetsExt

Parameters == {":action", ":confirmationCode", ":departmentId", ":deviceCode", ":employeeId",
               ":id", ":resource", ":serviceId", ":ticketId", ":token", ":windowId"}

Administrators == {"ADMIN", "SUPER_ADMIN"}
Managers == {"MANAGER"} \cup Administrators
Analysts == {"AUDITOR"} \cup Managers
Staff == {"OPERATOR"} \cup Managers

(***************************************************************************)
(* A route: whom the guards let through; who answers, the gateway itself     *)
(* ("local") or a service; the path and the actor that the service is told;  *)
(* where the handler looks for the actor's department: the path, a field of  *)
(* the query or of a validated body, or a body that may be missing; the      *)
(* values it allows for :resource or :action; whether the body or query is    *)
(* validated against a DTO, the answer cached, its body passed on unparsed.   *)
(***************************************************************************)
Route(method, path) ==
  [method |-> method, path |-> path, public |-> FALSE, roles |-> {}, service |-> "local",
   target |-> path, operation |-> "none", actor |-> "none", department |-> "none",
   allowed |-> {}, dto |-> FALSE, cached |-> FALSE, raw |-> FALSE]

Public(route) == [route EXCEPT !.public = TRUE]
Checked(route) == [route EXCEPT !.dto = TRUE]
Allowing(route, allowed) == [route EXCEPT !.allowed = allowed]
InDepartment(route, from) == [route EXCEPT !.department = from]

\* a route to the core at /internal/<target>
ToCore(actor, method, path, target) ==
  [Route(method, path) EXCEPT !.service = "core", !.actor = actor,
                              !.target = <<"internal">> \o target]

ForUser(roles, method, path) == [ToCore("user", method, path, path) EXCEPT !.roles = roles]

ToAuth(operation, method, path) ==
  [Route(method, path) EXCEPT !.service = "auth", !.operation = operation]

----------------------------------------------------------------------------
(* The controllers of Common Auth *)

AuthRoutes ==
  << Checked(Public(ToAuth("login", "POST", <<"auth", "login">>))),
     Route("GET", <<"auth", "me">>),
     ToAuth("logout", "POST", <<"auth", "logout">>) >>

AdminUsersRoutes ==
  LET users == <<"admin", "users">>
      one == <<"admin", "users", ":id">>
  IN << ToAuth("list", "GET", users),
        Checked(ToAuth("create", "POST", users)),
        Checked(ToAuth("update", "PATCH", one)),
        ToAuth("delete", "DELETE", one),
        Checked(ToAuth("role", "PATCH", <<"admin", "users", ":id", "role">>)) >>

----------------------------------------------------------------------------
(* The controllers of the core gateway *)

AdminResources == {"branches", "departments", "categories", "services"}

AdminRoutes ==
  LET Admin(path) == ForUser(Administrators, "ALL", path)
  IN << Allowing(Admin(<<"admin", ":resource">>), AdminResources),
        Allowing(Admin(<<"admin", ":resource", ":id">>), AdminResources),
        InDepartment(Admin(<<"admin", "departments", ":departmentId", "services", ":serviceId">>),
                     "path") >>

AnalyticsRoutes ==
  LET Analytics(method, what) ==
        InDepartment(ForUser(Analysts, method, <<"analytics", what>>), "field")
  IN << Analytics("GET", "department-load"), Analytics("GET", "operator-stats"),
        Analytics("GET", "summary"), Analytics("POST", "recalculate") >>

CoreAuditRoutes ==
  LET Audit(path) == InDepartment(ForUser(Analysts, "GET", path), "field")
  IN << Audit(<<"audit", "logs">>), Audit(<<"audit", "logs", "by-actor">>) >>

MaintenanceRoutes == << ForUser(Administrators, "POST", <<"maintenance", "run">>) >>

ManagementItems == {"employees", "halls", "windows", "terminals", "tv-devices",
                    "reject-reasons", "no-show-reasons"}
ManagementResources == ManagementItems \cup {"work-schedules"}

\* the resources of items are looked up in a plain object, which finds under the names
\* that every object inherits what these name: "constructor" stands for all of them
InheritedNames == {"constructor"}

\* MANAGEMENT_ITEM_PATHS[name]: the text of something inherited is a path like another
ItemPath(name) == IF name \in ManagementItems THEN name ELSE "inherited"

\* an item is asked for without its department, which only the actor tells
ManagementRoutes ==
  LET Management(path) == ForUser(Managers, "ALL", path)
      table == <<"management", "departments", ":departmentId", ":resource">>
      item == <<"management", "departments", ":departmentId", ":resource", ":id">>
  IN << Allowing(InDepartment(Management(table), "path"), ManagementResources),
        [Allowing(InDepartment(Management(item), "path"), ManagementItems \cup InheritedNames)
          EXCEPT !.target = <<"internal", "management", ":item", ":id">>],
        Management(<<"management", "employees", ":employeeId", "services", ":serviceId">>),
        Management(<<"management", "employees", ":employeeId", "windows", ":windowId">>) >>

DashboardRoutes ==
  << ForUser(Administrators, "GET", <<"dashboard", "admin">>),
     InDepartment(ForUser(Managers, "GET", <<"dashboard", "department">>), "field") >>

TicketActions == {"recall", "start", "complete", "no-show", "reject", "restore"}

OperatorRoutes ==
  LET Operator(method, path) == ForUser({"OPERATOR"}, method, path)
      Ticket(method, path, target) ==
        [Operator(method, path) EXCEPT !.target = <<"internal", "tickets">> \o target]
      action == <<"operator", "tickets", ":ticketId", ":action">>
  IN << Operator("GET", <<"operator", "dashboard">>),
        Operator("POST", <<"operator", "window", "available">>),
        Operator("POST", <<"operator", "window", "away">>),
        Ticket("POST", <<"operator", "tickets", "next">>, <<"operator", "next">>),
        Ticket("GET", <<"operator", "tickets", "restorable">>, <<"restorable">>),
        Allowing(Ticket("POST", action, <<":ticketId", ":action">>), TicketActions) >>

PublicBookingsRoutes ==
  LET Booking(method, path) == Public(ToCore("system", method, path, Tail(path)))
      InField(route) == Checked(InDepartment(route, "field"))
  IN << InField(Booking("GET", <<"public", "bookings", "slots">>)),
        InField(Booking("POST", <<"public", "bookings">>)),
        Booking("GET", <<"public", "bookings", ":confirmationCode">>),
        Booking("POST", <<"public", "bookings", ":confirmationCode", "confirm">>),
        Booking("POST", <<"public", "bookings", ":confirmationCode", "check-in">>),
        Booking("POST", <<"public", "bookings", ":confirmationCode", "cancel">>) >>

PublicCatalogRoutes ==
  LET path == <<"catalog", "department-services">>
  IN << Checked(InDepartment(Public(ToCore("system", "GET", path, path)), "field")) >>

QrCoreRoutes ==
  LET Qr(method, path) == Public(ToCore("terminal", method, path, path))
  IN << Qr("GET", <<"qr", "sessions", "validate">>), Qr("POST", <<"qr", "tickets">>) >>

ReportsRoutes ==
  << [InDepartment(ForUser(Analysts, "GET", <<"reports", "department-load.xlsx">>), "field")
       EXCEPT !.raw = TRUE] >>

TerminalRoutes ==
  LET Terminal(method, path, target) == Public(ToCore("terminal", method, path, target))
      Own(path) == Terminal("POST", path, path)
  IN << Checked(InDepartment(Own(<<"terminal", ":deviceCode", "tickets">>), "field")),
        Own(<<"terminal", ":deviceCode", "qr-sessions">>),
        Terminal("GET", <<"terminal", ":deviceCode", "tickets", ":ticketId", "print">>,
                 <<"tickets", ":ticketId", "print">>) >>

TicketsRoutes ==
  LET Ticket(method, path) == ForUser(Staff, method, path)
      InField(route) == InDepartment(route, "field")
  IN << InDepartment(Ticket("POST", <<"tickets">>), "body"),
        InField(Ticket("GET", <<"tickets", "query", "waiting">>)),
        Ticket("GET", <<"tickets", "query", "operator", "current">>),
        InField(Ticket("GET", <<"tickets", "query", "by-number">>)),
        Ticket("GET", <<"tickets", "query", ":ticketId", "history">>),
        InField(Ticket("GET", <<"tickets", "print">>)),
        Ticket("GET", <<"tickets", ":ticketId", "print">>) >>

TvRoutes ==
  LET Tv(path) == [Public(ToCore("tv", "GET", path, path)) EXCEPT !.cached = TRUE]
  IN << InDepartment(Tv(<<"tv", "snapshot">>), "field"), Tv(<<"tv", ":deviceCode", "snapshot">>) >>

----------------------------------------------------------------------------
(* The controllers of the local half, which answer by themselves *)

AuditRoutes == << Checked(Route("GET", <<"audit">>)) >>
HealthRoutes == << Public(Route("GET", <<"health">>)) >>

\* branches, services and departments: anyone reads, whoever is logged in writes
DirectoryRoutes(table) ==
  LET one == <<table, ":id">>
  IN << Checked(Route("POST", <<table>>)), Public(Route("GET", <<table>>)),
        Public(Route("GET", one)), Checked(Route("PATCH", one)), Route("DELETE", one) >>

DepartmentServicesRoutes ==
  LET Open(path) == Public(Route("GET", path))
      one == <<"department-services", ":id">>
  IN << Checked(Route("POST", <<"department-services", "assign">>)),
        Checked(Route("POST", <<"department-services", "unassign">>)),
        Open(<<"department-services", "by-department", ":departmentId">>),
        Open(<<"department-services", "by-department", ":departmentId", "services">>),
        Open(<<"department-services", "by-service", ":serviceId">>),
        Open(<<"department-services", "by-service", ":serviceId", "departments">>),
        Checked(Route("PATCH", one)), Route("DELETE", one) >>

BookingsRoutes ==
  << Checked(Public(Route("GET", <<"bookings", "slots">>))),
     Checked(Public(Route("POST", <<"bookings">>))),
     Route("GET", <<"bookings">>),
     Public(Route("GET", <<"bookings", ":id", "qr">>)),
     Public(Route("GET", <<"bookings", ":id", "qr.svg">>)),
     Public(Route("GET", <<"bookings", ":id">>)),
     Route("PATCH", <<"bookings", ":id", "confirm">>),
     Checked(Route("PATCH", <<"bookings", ":id", "cancel">>)) >>

QrRoutes ==
  << Public(Route("GET", <<"qr", "token.svg">>)), Public(Route("GET", <<"qr", ":token">>)),
     Route("POST", <<"qr", ":token", "consume">>) >>

----------------------------------------------------------------------------
(* Routing *)

CoreGatewayRoutes ==
  AdminRoutes \o AnalyticsRoutes \o CoreAuditRoutes \o MaintenanceRoutes \o ManagementRoutes
  \o DashboardRoutes \o OperatorRoutes \o PublicBookingsRoutes \o PublicCatalogRoutes
  \o QrCoreRoutes \o ReportsRoutes \o TerminalRoutes \o TicketsRoutes \o TvRoutes

LocalRoutes ==
  DirectoryRoutes("branches") \o DirectoryRoutes("services") \o DirectoryRoutes("departments")
  \o DepartmentServicesRoutes \o BookingsRoutes \o QrRoutes

\* mutant: the core gateway is imported before the authentication module
CoreGatewayFirst ==
  AuditRoutes \o HealthRoutes \o CoreGatewayRoutes \o AuthRoutes \o AdminUsersRoutes
  \o LocalRoutes

\* in the order of the imports of AppModule
AllRoutes ==
  AuditRoutes \o HealthRoutes \o AuthRoutes \o AdminUsersRoutes \o CoreGatewayRoutes
  \o LocalRoutes

\* HEAD is answered by the handler of GET
FitsMethod(route, method) ==
  \/ route.method \in {"ALL", method}
  \/ method = "HEAD" /\ route.method = "GET"

FitsPath(pattern, path) ==
  /\ Len(pattern) = Len(path)
  /\ \A k \in DOMAIN path : pattern[k] \in Parameters \/ pattern[k] = path[k]

\* the position of the first route that fits, Undefined if none does
RouteFor(method, path) ==
  LET fitting == {k \in DOMAIN AllRoutes :
                    FitsMethod(AllRoutes[k], method) /\ FitsPath(AllRoutes[k].path, path)}
  IN IF fitting = {} THEN Undefined ELSE Min(fitting)

\* @Param(name), Undefined where the pattern has no such parameter
Param(route, path, name) ==
  IF name \notin Range(route.path) THEN Undefined
  ELSE path[CHOOSE k \in DOMAIN route.path : route.path[k] = name]

\* the path that the service is asked for
Target(route, path) ==
  [k \in DOMAIN route.target |->
     CASE route.target[k] = ":item" -> ItemPath(Param(route, path, ":resource"))
       [] route.target[k] \in Parameters -> Param(route, path, route.target[k])
       [] OTHER -> route.target[k]]

----------------------------------------------------------------------------
(* What a request is meant for *)

\* the words that stand in a route where one registered after it has a parameter
Reserved == {"users", "slots", "token.svg"}

\* a request as a client makes it that wants this route: no id, code or token is one
\* of these words
Meant(route, method, path) ==
  /\ FitsMethod(route, method) /\ FitsPath(route.path, path)
  /\ DOMAIN path = 1 .. Len(path)
  /\ \A k \in DOMAIN path : route.path[k] \in Parameters => path[k] \notin Reserved

=============================================================================
