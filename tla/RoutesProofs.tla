---------------------------- MODULE RoutesProofs ----------------------------
(***************************************************************************)
(* What the tables of routes and the two readings of a role guarantee, which *)
(* the proofs about the pipeline rest on.                                   *)
(*                                                                         *)
(* The routes: a table is a sequence of sound routes; each controller has    *)
(* one, from routes that are sound as they are built and stay so under the   *)
(* other decorators, and tables joined are a table.  No route of one hides    *)
(* another, in its own table or in a later one (at the end of the module).    *)
(***************************************************************************)
EXTENDS Roles, Routes, WellFoundedInduction, TLAPS

\* What the pipeline relies on: nobody's name is used where nobody has to log in,
\* a protected route to the core names roles that the core has, and users are managed
\* at Common Auth.
RouteOK(route) ==
  /\ route.public => route.actor # "user"
  /\ route.service = "core" /\ ~route.public => route.roles # {} /\ route.roles \subseteq CoreRoles
  /\ route.operation # "none" => route.service = "auth"

Sound(route) == DOMAIN route = DOMAIN Route("GET", <<>>) /\ RouteOK(route)

Table(s) == \E S : s \in Seq(S) /\ \A route \in S : Sound(route)

LEMMA JoinedTables ==
  ASSUME NEW s, NEW t, Table(s), Table(t)
  PROVE  Table(s \o t)
<1>1. PICK S : s \in Seq(S) /\ \A route \in S : Sound(route)
  BY DEF Table
<1>2. PICK T : t \in Seq(T) /\ \A route \in T : Sound(route)
  BY DEF Table
<1>3. s \o t \in Seq(S \cup T)
  BY <1>1, <1>2
<1> QED
  BY <1>1, <1>2, <1>3 DEF Table

LEMMA RoleSets ==
  /\ \A roles \in {Administrators, Managers, Analysts, Staff} :
       roles # {} /\ roles \subseteq CoreRoles
  /\ {"OPERATOR"} \subseteq CoreRoles
  BY DEF Administrators, Managers, Analysts, Staff, CoreRoles

LEMMA SoundForUser ==
  ASSUME NEW method, NEW path,
         NEW roles \in {Administrators, Managers, Analysts, Staff, {"OPERATOR"}}
  PROVE  Sound(ForUser(roles, method, path))
<1>1. roles # {} /\ roles \subseteq CoreRoles
  BY RoleSets
<1> QED
  BY <1>1 DEF Sound, RouteOK, ForUser, ToCore, Route

LEMMA SoundLocal ==
  ASSUME NEW method, NEW path
  PROVE  Sound(Route(method, path)) /\ Sound(Public(Route(method, path)))
  BY DEF Sound, RouteOK, Public, Route

LEMMA SoundToAuth ==
  ASSUME NEW method, NEW path, NEW operation
  PROVE  /\ Sound(ToAuth(operation, method, path))
         /\ Sound(Public(ToAuth(operation, method, path)))
  BY DEF Sound, RouteOK, Public, ToAuth, Route

LEMMA SoundPublic ==
  ASSUME NEW method, NEW path, NEW target, NEW actor, actor # "user"
  PROVE  Sound(Public(ToCore(actor, method, path, target)))
  BY DEF Sound, RouteOK, Public, ToCore, Route

LEMMA SoundDecorated ==
  ASSUME NEW route, Sound(route), NEW new
  PROVE  /\ Sound(Checked(route)) /\ Sound(Allowing(route, new)) /\ Sound(InDepartment(route, new))
         /\ Sound([route EXCEPT !.target = new])
         /\ Sound([route EXCEPT !.raw = new])
         /\ Sound([route EXCEPT !.cached = new])
  BY DEF Sound, RouteOK, Checked, Allowing, InDepartment, Route

LEMMA ListedTable ==
  ASSUME NEW S, NEW s \in Seq(S), \A route \in S : Sound(route)
  PROVE  Table(s)
  BY DEF Table

LEMMA ListedRoutes ==
  ASSUME NEW a, NEW b, NEW c, NEW d, NEW e, NEW f, NEW g, NEW h
  PROVE  /\ Sound(a) => Table(<<a>>)
         /\ Sound(a) /\ Sound(b) => Table(<<a, b>>)
         /\ Sound(a) /\ Sound(b) /\ Sound(c) => Table(<<a, b, c>>)
         /\ Sound(a) /\ Sound(b) /\ Sound(c) /\ Sound(d) => Table(<<a, b, c, d>>)
         /\ Sound(a) /\ Sound(b) /\ Sound(c) /\ Sound(d) /\ Sound(e) => Table(<<a, b, c, d, e>>)
         /\ Sound(a) /\ Sound(b) /\ Sound(c) /\ Sound(d) /\ Sound(e) /\ Sound(f) => Table(<<a, b, c, d, e, f>>)
         /\ Sound(a) /\ Sound(b) /\ Sound(c) /\ Sound(d) /\ Sound(e) /\ Sound(f) /\ Sound(g) => Table(<<a, b, c, d, e, f, g>>)
         /\ Sound(a) /\ Sound(b) /\ Sound(c) /\ Sound(d) /\ Sound(e) /\ Sound(f) /\ Sound(g) /\ Sound(h) => Table(<<a, b, c, d, e, f, g, h>>)
<1>1. ASSUME Sound(a)
      PROVE  Table(<<a>>)
  <2> DEFINE S == {a}
  <2>1. <<a>> \in Seq(S)
    OBVIOUS
  <2>2. \A route \in S : Sound(route)
    BY <1>1
  <2> HIDE DEF S
  <2> QED
    BY <2>1, <2>2, ListedTable
<1>2. ASSUME Sound(a), Sound(b)
      PROVE  Table(<<a, b>>)
  <2> DEFINE S == {a, b}
  <2>1. <<a, b>> \in Seq(S)
    OBVIOUS
  <2>2. \A route \in S : Sound(route)
    BY <1>2
  <2> HIDE DEF S
  <2> QED
    BY <2>1, <2>2, ListedTable
<1>3. ASSUME Sound(a), Sound(b), Sound(c)
      PROVE  Table(<<a, b, c>>)
  <2> DEFINE S == {a, b, c}
  <2>1. <<a, b, c>> \in Seq(S)
    OBVIOUS
  <2>2. \A route \in S : Sound(route)
    BY <1>3
  <2> HIDE DEF S
  <2> QED
    BY <2>1, <2>2, ListedTable
<1>4. ASSUME Sound(a), Sound(b), Sound(c), Sound(d)
      PROVE  Table(<<a, b, c, d>>)
  <2> DEFINE S == {a, b, c, d}
  <2>1. <<a, b, c, d>> \in Seq(S)
    OBVIOUS
  <2>2. \A route \in S : Sound(route)
    BY <1>4
  <2> HIDE DEF S
  <2> QED
    BY <2>1, <2>2, ListedTable
<1>5. ASSUME Sound(a), Sound(b), Sound(c), Sound(d), Sound(e)
      PROVE  Table(<<a, b, c, d, e>>)
  <2> DEFINE S == {a, b, c, d, e}
  <2>1. <<a, b, c, d, e>> \in Seq(S)
    OBVIOUS
  <2>2. \A route \in S : Sound(route)
    BY <1>5
  <2> HIDE DEF S
  <2> QED
    BY <2>1, <2>2, ListedTable
<1>6. ASSUME Sound(a), Sound(b), Sound(c), Sound(d), Sound(e), Sound(f)
      PROVE  Table(<<a, b, c, d, e, f>>)
  <2> DEFINE S == {a, b, c, d, e, f}
  <2>1. <<a, b, c, d, e, f>> \in Seq(S)
    OBVIOUS
  <2>2. \A route \in S : Sound(route)
    BY <1>6
  <2> HIDE DEF S
  <2> QED
    BY <2>1, <2>2, ListedTable
<1>7. ASSUME Sound(a), Sound(b), Sound(c), Sound(d), Sound(e), Sound(f), Sound(g)
      PROVE  Table(<<a, b, c, d, e, f, g>>)
  <2> DEFINE S == {a, b, c, d, e, f, g}
  <2>1. <<a, b, c, d, e, f, g>> \in Seq(S)
    OBVIOUS
  <2>2. \A route \in S : Sound(route)
    BY <1>7
  <2> HIDE DEF S
  <2> QED
    BY <2>1, <2>2, ListedTable
<1>8. ASSUME Sound(a), Sound(b), Sound(c), Sound(d), Sound(e), Sound(f), Sound(g), Sound(h)
      PROVE  Table(<<a, b, c, d, e, f, g, h>>)
  <2> DEFINE S == {a, b, c, d, e, f, g, h}
  <2>1. <<a, b, c, d, e, f, g, h>> \in Seq(S)
    OBVIOUS
  <2>2. \A route \in S : Sound(route)
    BY <1>8
  <2> HIDE DEF S
  <2> QED
    BY <2>1, <2>2, ListedTable
<1> QED
  BY <1>1, <1>2, <1>3, <1>4, <1>5, <1>6, <1>7, <1>8

LEMMA AuthTable == Table(AuthRoutes)
  BY SoundToAuth, SoundLocal, SoundDecorated, ListedRoutes DEF AuthRoutes

LEMMA AdminUsersTable == Table(AdminUsersRoutes)
  BY SoundToAuth, SoundLocal, SoundDecorated, ListedRoutes DEF AdminUsersRoutes

LEMMA AdminTable == Table(AdminRoutes)
  BY SoundForUser, SoundDecorated, ListedRoutes DEF AdminRoutes

LEMMA AnalyticsTable == Table(AnalyticsRoutes)
  BY SoundForUser, SoundDecorated, ListedRoutes DEF AnalyticsRoutes

LEMMA CoreAuditTable == Table(CoreAuditRoutes)
  BY SoundForUser, SoundDecorated, ListedRoutes DEF CoreAuditRoutes

LEMMA MaintenanceTable == Table(MaintenanceRoutes)
  BY SoundForUser, SoundDecorated, ListedRoutes DEF MaintenanceRoutes

LEMMA ManagementTable == Table(ManagementRoutes)
  BY SoundForUser, SoundDecorated, ListedRoutes DEF ManagementRoutes

LEMMA DashboardTable == Table(DashboardRoutes)
  BY SoundForUser, SoundDecorated, ListedRoutes DEF DashboardRoutes

LEMMA OperatorTable == Table(OperatorRoutes)
  BY SoundForUser, SoundDecorated, ListedRoutes DEF OperatorRoutes

LEMMA PublicBookingsTable == Table(PublicBookingsRoutes)
  BY SoundPublic, SoundDecorated, ListedRoutes DEF PublicBookingsRoutes

LEMMA PublicCatalogTable == Table(PublicCatalogRoutes)
  BY SoundPublic, SoundDecorated, ListedRoutes DEF PublicCatalogRoutes

LEMMA QrCoreTable == Table(QrCoreRoutes)
  BY SoundPublic, SoundDecorated, ListedRoutes DEF QrCoreRoutes

LEMMA ReportsTable == Table(ReportsRoutes)
  BY SoundForUser, SoundDecorated, ListedRoutes DEF ReportsRoutes

LEMMA TerminalTable == Table(TerminalRoutes)
  BY SoundPublic, SoundDecorated, ListedRoutes DEF TerminalRoutes

LEMMA TicketsTable == Table(TicketsRoutes)
  BY SoundForUser, SoundDecorated, ListedRoutes DEF TicketsRoutes

LEMMA TvTable == Table(TvRoutes)
  BY SoundPublic, SoundDecorated, ListedRoutes DEF TvRoutes

LEMMA AuditTable == Table(AuditRoutes)
  BY SoundLocal, SoundDecorated, ListedRoutes DEF AuditRoutes

LEMMA HealthTable == Table(HealthRoutes)
  BY SoundLocal, SoundDecorated, ListedRoutes DEF HealthRoutes

LEMMA DepartmentServicesTable == Table(DepartmentServicesRoutes)
  BY SoundLocal, SoundDecorated, ListedRoutes DEF DepartmentServicesRoutes

LEMMA BookingsTable == Table(BookingsRoutes)
  BY SoundLocal, SoundDecorated, ListedRoutes DEF BookingsRoutes

LEMMA QrTable == Table(QrRoutes)
  BY SoundLocal, SoundDecorated, ListedRoutes DEF QrRoutes

LEMMA DirectoryTable ==
  ASSUME NEW table
  PROVE  Table(DirectoryRoutes(table))
  BY SoundLocal, SoundDecorated, ListedRoutes DEF DirectoryRoutes

LEMMA CoreGatewayTable == Table(CoreGatewayRoutes)
  BY JoinedTables, AdminTable, AnalyticsTable, CoreAuditTable, MaintenanceTable,
     ManagementTable, DashboardTable, OperatorTable, PublicBookingsTable,
     PublicCatalogTable, QrCoreTable, ReportsTable, TerminalTable, TicketsTable, TvTable
     DEF CoreGatewayRoutes

LEMMA LocalTable == Table(LocalRoutes)
  BY JoinedTables, DirectoryTable, DepartmentServicesTable, BookingsTable, QrTable
     DEF LocalRoutes

\* A public route of the gateway makes up no actor from a user, one that goes to the
\* core behind the guards asks for roles, all known to the core, and only Common Auth
\* is asked for user operations.
THEOREM RoutesSound ==
  /\ DOMAIN AllRoutes \subseteq Nat
  /\ \A k \in DOMAIN AllRoutes : RouteOK(AllRoutes[k])
<1>1. Table(AllRoutes)
  BY JoinedTables, AuditTable, HealthTable, AuthTable, AdminUsersTable, CoreGatewayTable,
     LocalTable DEF AllRoutes
<1>2. PICK S : AllRoutes \in Seq(S) /\ \A route \in S : Sound(route)
  BY <1>1 DEF Table
<1>3. \A k \in DOMAIN AllRoutes : AllRoutes[k] \in S /\ k \in Nat
  BY <1>2
<1> QED
  BY <1>2, <1>3 DEF Sound

----------------------------------------------------------------------------
(* Roles *)

\* A set of positions that is not empty has a least one, which is its Min.
LEMMA LeastPosition ==
  ASSUME NEW S \in SUBSET Nat, S # {}
  PROVE  Min(S) \in S /\ \A k \in S : Min(S) =< k
<1> DEFINE R == OpToRel(<, Nat)
<1>1. IsWellFoundedOn(R, Nat)
  BY NatLessThanWellFounded, Zenon
<1>2. \A m, n \in Nat : m < n => <<m, n>> \in R
  BY DEF OpToRel
<1> HIDE DEF R
<1>3. \E k \in S : \A other \in S : ~ (<<other, k>> \in R)
  BY <1>1, WFMin
<1>4. \E k \in S : \A other \in S : k =< other
  <2>1. PICK k \in S : \A other \in S : ~ (<<other, k>> \in R)
    BY <1>3
  <2>2. \A other \in S : other \in Nat /\ k \in Nat /\ ~ (other < k)
    BY <1>2, <2>1
  <2>3. \A other \in S : k =< other
    BY <2>2
  <2> QED
    BY <2>3
<1> QED
  BY <1>4 DEF Min

LEMMA NormalizedRole ==
  ASSUME NEW spelling
  PROVE  NormalizeRole(spelling) \in CoreRoles \cup {Undefined}
  BY DEF NormalizeRole

\* What the actor factory makes of a user's roles is a role of the core, or nothing.
LEMMA ResolvedRole ==
  ASSUME NEW person, ResolveUserRole(person) # Undefined
  PROVE  ResolveUserRole(person) \in CoreRoles
  BY NormalizedRole DEF ResolveUserRole

\* The spellings of a user before and after they are normalized.
Spellings(p) == Range(p.roles) \cup (IF p.role = Undefined THEN {} ELSE {p.role})

LEMMA CandidateSpellings ==
  ASSUME NEW p, p.roles \in Seq(Spelling)
  PROVE  /\ Range(Candidates(p)) = Spellings(p)
         /\ DOMAIN Candidates(p) \subseteq Nat
<1>1. CASE p.role = Undefined
  <2>1. Candidates(p) = p.roles
    BY <1>1 DEF Candidates
  <2> QED
    BY <1>1, <2>1 DEF Spellings
<1>2. CASE p.role # Undefined
  <2> DEFINE first == <<p.role>>
             c == first \o p.roles
  <2>1. Candidates(p) = c
    BY <1>2 DEF Candidates
  <2>2. /\ DOMAIN c = 1 .. Len(p.roles) + 1
        /\ c[1] = p.role /\ \A k \in DOMAIN p.roles : c[k + 1] = p.roles[k]
        /\ \A k \in DOMAIN c : k = 1 \/ (k - 1 \in DOMAIN p.roles /\ c[k] = p.roles[k - 1])
    OBVIOUS
  <2>3. \A k \in DOMAIN p.roles : k + 1 \in DOMAIN c
    BY <2>2
  <2> HIDE DEF c
  <2>4. Range(c) = Range(p.roles) \cup {p.role}
    <3>1. Range(c) \subseteq Range(p.roles) \cup {p.role}
      BY <2>2 DEF Range
    <3>2. p.role \in Range(c)
      BY <2>2 DEF Range
    <3>3. Range(p.roles) \subseteq Range(c)
      BY <2>2, <2>3 DEF Range
    <3> QED
      BY <3>1, <3>2, <3>3
  <2> QED
    BY <1>2, <2>1, <2>2, <2>4 DEF Spellings
<1> QED
  BY <1>1, <1>2

LEMMA NormalizedPerson ==
  ASSUME NEW p, IsPerson(p) \/ p = NoUser
  PROVE  LET n == NormalizeAuthContext(p) IN
         /\ n.id = p.id /\ n.place = p.place /\ n.roles \in Seq(Spelling)
         /\ Spellings(p) \subseteq Spelling
         /\ Range(n.roles) = {NormalizeRoleCode(s) : s \in Spellings(p)}
         /\ Spellings(n) = Range(n.roles)
<1> DEFINE role == IF p.role = Undefined THEN Undefined ELSE NormalizeRoleCode(p.role)
           roles == [k \in DOMAIN p.roles |-> NormalizeRoleCode(p.roles[k])]
           all == IF role = Undefined \/ role \in Range(roles) THEN roles
                  ELSE Append(roles, role)
           n == NormalizeAuthContext(p)
<1>1. /\ DOMAIN p = {"id", "role", "roles", "place"}
      /\ p.role \in Spelling \cup {Undefined} /\ p.roles \in Seq(Spelling)
  <2>1. CASE IsPerson(p)
    BY <2>1 DEF IsPerson
  <2>2. CASE p = NoUser
    <3>1. <<>> \in Seq(Spelling)
      OBVIOUS
    <3> QED
      BY <2>2, <3>1 DEF NoUser
  <2> QED
    BY <2>1, <2>2
<1>2. \A s \in Spelling : NormalizeRoleCode(s) \in Spelling
  BY DEF NormalizeRoleCode, Spelling, Style
<1>3. roles \in Seq(Spelling) /\ Range(roles) = {NormalizeRoleCode(s) : s \in Range(p.roles)}
  BY <1>1, <1>2 DEF Range
<1>4. role \in Spelling \cup {Undefined} /\ (role = Undefined <=> p.role = Undefined)
  BY <1>1, <1>2, AbsentRole
<1>5. n = [p EXCEPT !.role = role, !.roles = all]
  BY DEF NormalizeAuthContext
<1>6. p.role # Undefined => role = NormalizeRoleCode(p.role)
  OBVIOUS
<1> HIDE DEF role, roles, n
<1>7. /\ all \in Seq(Spelling)
      /\ Range(all) = Range(roles) \cup (IF role = Undefined THEN {} ELSE {role})
  <2>1. CASE role = Undefined \/ role \in Range(roles)
    BY <1>3, <2>1
  <2>2. CASE role # Undefined /\ role \notin Range(roles)
    <3>1. all = Append(roles, role) /\ role \in Spelling
      BY <1>4, <2>2
    <3>2. all \in Seq(Spelling)
      BY <1>3, <3>1
    <3>3. /\ DOMAIN all = 1 .. Len(roles) + 1 /\ all[Len(roles) + 1] = role
          /\ \A k \in DOMAIN roles : all[k] = roles[k] /\ k \in DOMAIN all
          /\ \A k \in DOMAIN all : k \in DOMAIN roles \/ k = Len(roles) + 1
          /\ Len(roles) + 1 \in DOMAIN all
      BY <1>3, <3>1
    <3> HIDE DEF all
    <3>4. Range(all) = Range(roles) \cup {role}
      BY <3>3 DEF Range
    <3> QED
      BY <2>2, <3>2, <3>4
  <2> QED
    BY <2>1, <2>2
<1> HIDE DEF all
<1>8. n.id = p.id /\ n.place = p.place /\ n.roles = all /\ n.role = role
  BY <1>1, <1>5
<1>9. Range(all) = {NormalizeRoleCode(s) : s \in Spellings(p)}
  BY <1>3, <1>4, <1>6, <1>7 DEF Spellings
<1>10. Spellings(p) \subseteq Spelling
  BY <1>1 DEF Spellings, Range
<1> QED
  BY <1>7, <1>8, <1>9, <1>10 DEF Spellings, n

\* A user who holds a core role, in whatever spelling, is told to the core as one.
LEMMA CoreRoleResolved ==
  ASSUME NEW p, IsPerson(p) \/ p = NoUser,
         RolesOf(NormalizeAuthContext(p)) \cap CoreRoles # {}
  PROVE  ResolveUserRole(NormalizeAuthContext(p)) # Undefined
<1> DEFINE n == NormalizeAuthContext(p)
           candidates == Candidates(n)
           usable == {k \in DOMAIN candidates : NormalizeRole(candidates[k]) # Undefined}
<1>1. PICK s \in Range(n.roles) : NormalizeRoleCode(s).code \in CoreRoles
  BY DEF RolesOf
<1>2. s.style = "plain" /\ s.code \in CoreRoles
  BY <1>1, NormalizedPerson DEF NormalizeRoleCode
<1>3. NormalizeRole(s) # Undefined
  BY <1>2, AbsentRole DEF NormalizeRole, CoreRoles, AuthRoleCode
<1>4. s \in Range(candidates) /\ DOMAIN candidates \subseteq Nat
  BY <1>1, NormalizedPerson, CandidateSpellings
<1>5. usable # {} /\ usable \in SUBSET Nat
  BY <1>3, <1>4 DEF Range
<1>6. Min(usable) \in usable
  BY <1>5, LeastPosition
<1> QED
  BY <1>5, <1>6 DEF ResolveUserRole

\* Who is a department manager stays one when the spellings are normalized.
LEMMA ManagerKept ==
  ASSUME NEW p, IsPerson(p)
  PROVE  IsDepartmentManager(p) <=> IsDepartmentManager(NormalizeAuthContext(p))
<1> DEFINE n == NormalizeAuthContext(p)
           Held(q) == {NormalizeRoleCode(s).code : s \in Range(Candidates(q))}
<1>1. \A s : NormalizeRoleCode(NormalizeRoleCode(s)).code = NormalizeRoleCode(s).code
  BY DEF NormalizeRoleCode
<1>2. /\ Range(Candidates(n)) = {NormalizeRoleCode(s) : s \in Spellings(p)}
      /\ Range(Candidates(p)) = Spellings(p)
  BY NormalizedPerson, CandidateSpellings DEF IsPerson
<1>3. Held(n) = Held(p)
  BY <1>1, <1>2
<1> QED
  BY <1>3 DEF IsDepartmentManager

----------------------------------------------------------------------------
(* Routes apart from each other *)

(***************************************************************************)
(* The rows of a table, as far as Express looks at them, are read off it     *)
(* (Is).  Two of them are apart if their paths differ in length or in a       *)
(* place, or if their methods differ; no request that is meant for the one    *)
(* fits the other.  The rows of a table are apart from each other, and those   *)
(* of different tables are, because their paths begin with different words,   *)
(* or, where they do not, as Family tells (FamiliesApart).  So all routes of  *)
(* tables of different families are apart when the tables are joined          *)
(* (GroupsJoined).                                                          *)
(***************************************************************************)
Is(route, method, path) ==
  {"method", "path"} \subseteq DOMAIN route /\ route.method = method /\ route.path = path

LEMMA Built ==
  ASSUME NEW method, NEW path, NEW roles, NEW operation, NEW actor, NEW target
  PROVE  /\ Is(Route(method, path), method, path)
         /\ Is(ToAuth(operation, method, path), method, path)
         /\ Is(ToCore(actor, method, path, target), method, path)
         /\ Is(ForUser(roles, method, path), method, path)
<1>1. Is(Route(method, path), method, path)
  BY DEF Is, Route
<1>2. Is(ToAuth(operation, method, path), method, path)
  BY DEF Is, Route, ToAuth
<1>3. ASSUME NEW who, NEW to
      PROVE  Is([Route(method, path) EXCEPT !.service = "core", !.actor = who, !.target = to],
                method, path)
  BY DEF Is, Route
<1>4. \A who, to : Is(ToCore(who, method, path, to), method, path)
  BY <1>3 DEF ToCore
<1>5. Is(ForUser(roles, method, path), method, path)
  <2> DEFINE route == ToCore("user", method, path, path)
  <2>1. Is(route, method, path)
    BY <1>4
  <2> HIDE DEF route
  <2>2. Is([route EXCEPT !.roles = roles], method, path)
    BY <2>1 DEF Is
  <2> QED
    BY <2>2 DEF ForUser, route
<1> QED
  BY <1>1, <1>2, <1>4, <1>5

LEMMA Kept ==
  ASSUME NEW route, NEW method, NEW path, Is(route, method, path), NEW new
  PROVE  /\ Is(Public(route), method, path) /\ Is(Checked(route), method, path)
         /\ Is(Allowing(route, new), method, path) /\ Is(InDepartment(route, new), method, path)
         /\ Is([route EXCEPT !.target = new], method, path)
         /\ Is([route EXCEPT !.raw = new], method, path)
         /\ Is([route EXCEPT !.cached = new], method, path)
  BY DEF Is, Public, Checked, Allowing, InDepartment

Verbs == {"GET", "POST", "PATCH", "DELETE"}

Agree(x, y) == x \in Parameters \/ x = y \/ (y \in Parameters /\ x \notin Reserved)

\* no request that is meant for b fits a: the paths differ in length or in a place, or
\* the methods differ
Apart(a, b) ==
  \/ Len(a.path) # Len(b.path)
  \/ a.method \in Verbs /\ b.method \in Verbs /\ a.method # b.method
  \/ Len(a.path) >= 1 /\ ~Agree(a.path[1], b.path[1])
  \/ Len(a.path) >= 2 /\ ~Agree(a.path[2], b.path[2])
  \/ Len(a.path) >= 3 /\ ~Agree(a.path[3], b.path[3])
  \/ Len(a.path) >= 4 /\ ~Agree(a.path[4], b.path[4])

LEMMA NoneFitsBoth ==
  ASSUME NEW a, NEW b, Apart(a, b), Len(a.path) \in Nat, NEW method, NEW path,
         FitsMethod(a, method), FitsPath(a.path, path), Meant(b, method, path)
  PROVE  FALSE
<1>1. /\ Len(a.path) = Len(path) /\ Len(b.path) = Len(path)
      /\ DOMAIN path = 1 .. Len(path)
      /\ \A k \in DOMAIN path :
           /\ a.path[k] \in Parameters \/ a.path[k] = path[k]
           /\ \/ b.path[k] \in Parameters /\ path[k] \notin Reserved
              \/ b.path[k] = path[k]
  BY DEF Meant, FitsPath
<1>2. \A k \in 1 .. Len(a.path) : Agree(a.path[k], b.path[k])
  BY <1>1 DEF Agree
<1>3. a.method = b.method \/ a.method \notin Verbs \/ b.method \notin Verbs
  BY DEF Meant, FitsMethod, Verbs
<1> QED
  BY <1>1, <1>2, <1>3 DEF Apart

\* the first words of the paths; none is a parameter
Heads == {"audit", "health", "auth", "admin", "analytics", "maintenance", "management",
          "dashboard", "operator", "public", "catalog", "qr", "reports", "terminal", "tickets",
          "tv", "branches", "services", "departments", "department-services", "bookings"}

\* which table a route belongs to: the head of its path, where no two tables share it
Family(route) ==
  IF route.path[1] = "audit" /\ Len(route.path) > 1 THEN "audit-logs"
  ELSE IF route.path[1] = "admin" /\ route.path[2] = "users" THEN "admin-users"
  ELSE IF /\ route.path[1] = "qr"
          /\ \/ route.method = "GET" /\ Len(route.path) = 3
             \/ route.method = "POST" /\ Len(route.path) = 2
  THEN "qr-core"
  ELSE route.path[1]

Placed(route) ==
  /\ Len(route.path) \in Nat \ {0} /\ route.path[1] \in Heads
  /\ route.path[1] = "admin" => Len(route.path) > 1
  /\ route.path[1] = "qr" => route.method \in Verbs

LEMMA FamiliesApart ==
  ASSUME NEW a, NEW b, Placed(a), Placed(b), ~Apart(a, b)
  PROVE  \/ Family(a) = Family(b)
         \/ Family(a) = "admin" /\ Family(b) = "admin-users"
<1>1. /\ Len(a.path) = Len(b.path)
      /\ a.method = b.method \/ a.method \notin Verbs \/ b.method \notin Verbs
      /\ Agree(a.path[1], b.path[1])
      /\ Len(a.path) >= 2 => Agree(a.path[2], b.path[2])
  BY DEF Apart, Placed
<1>2. Heads \cap Parameters = {}
  BY DEF Heads, Parameters
<1>3. a.path[1] = b.path[1]
  BY <1>1, <1>2 DEF Placed, Agree
<1>4. CASE a.path[1] = "admin"
  <2>1. Agree(a.path[2], b.path[2])
    BY <1>1, <1>4 DEF Placed
  <2>2. "users" \notin Parameters /\ "users" \in Reserved
    BY DEF Parameters, Reserved
  <2>3. Family(a) = IF a.path[2] = "users" THEN "admin-users" ELSE "admin"
    BY <1>4 DEF Family
  <2>4. Family(b) = IF b.path[2] = "users" THEN "admin-users" ELSE "admin"
    BY <1>3, <1>4 DEF Family
  <2> QED
    BY <2>1, <2>2, <2>3, <2>4 DEF Agree
<1>5. CASE a.path[1] # "admin"
  BY <1>1, <1>3, <1>5 DEF Family, Placed
<1> QED
  BY <1>4, <1>5

Clear(s) == \A j, k \in DOMAIN s : j < k => Apart(s[j], s[k])

\* a table of routes of some families, apart from each other
Group(s, families) ==
  /\ Table(s) /\ Clear(s)
  /\ \A k \in DOMAIN s : Placed(s[k]) /\ Family(s[k]) \in families

LEMMA JoinedRows ==
  ASSUME NEW s, NEW t, Table(s), Table(t), NEW k \in DOMAIN (s \o t)
  PROVE  /\ k \in Int /\ Len(s) \in Int
         /\ \/ k <= Len(s) /\ k \in DOMAIN s /\ (s \o t)[k] = s[k]
            \/ k > Len(s) /\ k - Len(s) \in DOMAIN t /\ (s \o t)[k] = t[k - Len(s)]
<1>1. PICK S : s \in Seq(S)
  BY DEF Table
<1>2. PICK T : t \in Seq(T)
  BY DEF Table
<1> DEFINE U == S \cup T
<1>3. s \in Seq(U) /\ t \in Seq(U)
  <2>1. \A i \in 1 .. Len(s) : s[i] \in U
    BY <1>1
  <2>2. \A i \in 1 .. Len(t) : t[i] \in U
    BY <1>2
  <2> QED
    BY <1>1, <1>2, <2>1, <2>2
<1> HIDE DEF U
<1>4. CASE k <= Len(s)
  BY <1>3, <1>4
<1>5. CASE k > Len(s)
  BY <1>3, <1>5
<1>6. k \in Int /\ Len(s) \in Int
  BY <1>3
<1> QED
  BY <1>4, <1>5, <1>6

LEMMA Places ==
  ASSUME NEW j \in Int, NEW k \in Int, NEW n \in Int, j < k
  PROVE  \/ ~(j > n) /\ ~(k > n)
         \/ ~(j <= n) /\ ~(k <= n) /\ j - n < k - n
         \/ ~(j > n) /\ ~(k <= n)
  OBVIOUS

LEMMA GroupsJoined ==
  ASSUME NEW s, NEW t, NEW F, NEW G, Group(s, F), Group(t, G), F \cap G = {},
         ~("admin" \in F /\ "admin-users" \in G)
  PROVE  Group(s \o t, F \cup G)
<1> DEFINE st == s \o t
           n == Len(s)
<1>1. \A k \in DOMAIN st :
        /\ k \in Int /\ n \in Int
        /\ \/ k <= n /\ k \in DOMAIN s /\ st[k] = s[k]
           \/ k > n /\ k - n \in DOMAIN t /\ st[k] = t[k - n]
  BY JoinedRows DEF Group
<1>2. Table(st)
  BY JoinedTables DEF Group
<1> HIDE DEF st, n
<1>3. ASSUME NEW k \in DOMAIN st
      PROVE  Placed(st[k]) /\ Family(st[k]) \in F \cup G
  BY <1>1 DEF Group
<1>4. ASSUME NEW j \in DOMAIN st, NEW k \in DOMAIN st, j < k
      PROVE  Apart(st[j], st[k])
  <2> DEFINE In(i) == \/ i <= n /\ i \in DOMAIN s /\ st[i] = s[i]
                      \/ i > n /\ i - n \in DOMAIN t /\ st[i] = t[i - n]
  <2>1. j \in Int /\ k \in Int /\ n \in Int
    BY <1>1
  <2>2. In(j) /\ In(k)
    BY <1>1
  <2>3. CASE ~(j > n) /\ ~(k > n)
    <3>1. j \in DOMAIN s /\ k \in DOMAIN s /\ st[j] = s[j] /\ st[k] = s[k]
      BY <2>2, <2>3
    <3> QED
      BY <1>4, <3>1 DEF Group, Clear
  <2>4. CASE ~(j <= n) /\ ~(k <= n) /\ j - n < k - n
    <3>1. /\ j - n \in DOMAIN t /\ k - n \in DOMAIN t
          /\ st[j] = t[j - n] /\ st[k] = t[k - n]
      BY <2>2, <2>4
    <3> QED
      BY <2>4, <3>1 DEF Group, Clear
  <2>5. CASE ~(j > n) /\ ~(k <= n)
    <3>1. /\ j \in DOMAIN s /\ k - n \in DOMAIN t
          /\ st[j] = s[j] /\ st[k] = t[k - n]
      BY <2>2, <2>5
    <3>2. Placed(st[j]) /\ Family(st[j]) \in F /\ Placed(st[k]) /\ Family(st[k]) \in G
      BY <3>1 DEF Group
    <3> QED
      BY <3>2, FamiliesApart
  <2> QED
    BY <1>4, <2>1, <2>3, <2>4, <2>5, Places
<1> QED
  BY <1>2, <1>3, <1>4 DEF Group, Clear, st

----------------------------------------------------------------------------
(* Each table *)

LEMMA AuditRows ==
  Is(AuditRoutes[1], "GET", <<"audit">>)
  BY Built, Kept DEF AuditRoutes

LEMMA AuditGroup == Group(AuditRoutes, {"audit"})
<1> DEFINE T == AuditRoutes
<1>1. DOMAIN T = 1 .. 1
  BY DEF AuditRoutes
<1>2. Len(T[1].path) = 1
  BY AuditRows DEF Is
<1>3. T[1].method = "GET"
  BY AuditRows DEF Is
<1>4. T[1].path[1] = "audit"
  BY AuditRows DEF Is
<1>5. Placed(T[1])
  BY <1>2, <1>3, <1>4 DEF Placed, Heads, Verbs
<1>6. Family(T[1]) = "audit"
  BY <1>2, <1>3, <1>4 DEF Family
<1> QED
  BY <1>1, <1>5, <1>6, AuditTable DEF Group, Clear

LEMMA HealthRows ==
  Is(HealthRoutes[1], "GET", <<"health">>)
  BY Built, Kept DEF HealthRoutes

LEMMA HealthGroup == Group(HealthRoutes, {"health"})
<1> DEFINE T == HealthRoutes
<1>1. DOMAIN T = 1 .. 1
  BY DEF HealthRoutes
<1>2. Len(T[1].path) = 1
  BY HealthRows DEF Is
<1>3. T[1].method = "GET"
  BY HealthRows DEF Is
<1>4. T[1].path[1] = "health"
  BY HealthRows DEF Is
<1>5. Placed(T[1])
  BY <1>2, <1>3, <1>4 DEF Placed, Heads, Verbs
<1>6. Family(T[1]) = "health"
  BY <1>2, <1>3, <1>4 DEF Family
<1> QED
  BY <1>1, <1>5, <1>6, HealthTable DEF Group, Clear

LEMMA AuthRows ==
  /\ Is(AuthRoutes[1], "POST", <<"auth", "login">>)
  /\ Is(AuthRoutes[2], "GET", <<"auth", "me">>)
  /\ Is(AuthRoutes[3], "POST", <<"auth", "logout">>)
  BY Built, Kept DEF AuthRoutes

LEMMA AuthGroup == Group(AuthRoutes, {"auth"})
<1> DEFINE T == AuthRoutes
<1>1. DOMAIN T = 1 .. 3
  BY DEF AuthRoutes
<1>2. /\ Len(T[1].path) = 2 /\ Len(T[2].path) = 2 /\ Len(T[3].path) = 2
  BY AuthRows DEF Is
<1>3. /\ T[1].method = "POST" /\ T[2].method = "GET" /\ T[3].method = "POST"
  BY AuthRows DEF Is
<1>4. /\ T[1].path[1] = "auth" /\ T[1].path[2] = "login" /\ T[2].path[1] = "auth"
      /\ T[3].path[1] = "auth" /\ T[3].path[2] = "logout"
  BY AuthRows DEF Is
<1>5. /\ Placed(T[1]) /\ Placed(T[2]) /\ Placed(T[3])
  BY <1>2, <1>3, <1>4 DEF Placed, Heads, Verbs
<1>6. /\ Family(T[1]) = "auth" /\ Family(T[2]) = "auth" /\ Family(T[3]) = "auth"
  BY <1>2, <1>3, <1>4 DEF Family
<1>7. ~Agree("login", "logout")
  BY DEF Agree, Parameters, Reserved
<1>8. /\ Apart(T[1], T[2]) /\ Apart(T[1], T[3])
  BY <1>2, <1>3, <1>4, <1>7 DEF Apart, Verbs
<1>9. Apart(T[2], T[3])
  BY <1>2, <1>3 DEF Apart, Verbs
<1>10. \A k \in 1 .. 3 : Placed(T[k]) /\ Family(T[k]) = "auth"
  BY <1>5, <1>6
<1>11. \A j, k \in 1 .. 3 : j < k => Apart(T[j], T[k])
  BY <1>8, <1>9
<1> QED
  BY <1>1, <1>10, <1>11, AuthTable DEF Group, Clear

LEMMA AdminUsersRows ==
  /\ Is(AdminUsersRoutes[1], "GET", <<"admin", "users">>)
  /\ Is(AdminUsersRoutes[2], "POST", <<"admin", "users">>)
  /\ Is(AdminUsersRoutes[3], "PATCH", <<"admin", "users", ":id">>)
  /\ Is(AdminUsersRoutes[4], "DELETE", <<"admin", "users", ":id">>)
  /\ Is(AdminUsersRoutes[5], "PATCH", <<"admin", "users", ":id", "role">>)
  BY Built, Kept DEF AdminUsersRoutes

LEMMA AdminUsersGroup == Group(AdminUsersRoutes, {"admin-users"})
<1> DEFINE T == AdminUsersRoutes
<1>1. DOMAIN T = 1 .. 5
  BY DEF AdminUsersRoutes
<1>2. /\ Len(T[1].path) = 2 /\ Len(T[2].path) = 2 /\ Len(T[3].path) = 3
      /\ Len(T[4].path) = 3 /\ Len(T[5].path) = 4
  BY AdminUsersRows DEF Is
<1>3. /\ T[1].method = "GET" /\ T[2].method = "POST" /\ T[3].method = "PATCH"
      /\ T[4].method = "DELETE" /\ T[5].method = "PATCH"
  BY AdminUsersRows DEF Is
<1>4. /\ T[1].path[1] = "admin" /\ T[1].path[2] = "users" /\ T[2].path[1] = "admin"
      /\ T[2].path[2] = "users" /\ T[3].path[1] = "admin" /\ T[3].path[2] = "users"
      /\ T[4].path[1] = "admin" /\ T[4].path[2] = "users" /\ T[5].path[1] = "admin"
      /\ T[5].path[2] = "users"
  BY AdminUsersRows DEF Is
<1>5. /\ Placed(T[1]) /\ Placed(T[2]) /\ Placed(T[3]) /\ Placed(T[4]) /\ Placed(T[5])
  BY <1>2, <1>3, <1>4 DEF Placed, Heads, Verbs
<1>6. /\ Family(T[1]) = "admin-users" /\ Family(T[2]) = "admin-users"
      /\ Family(T[3]) = "admin-users" /\ Family(T[4]) = "admin-users"
      /\ Family(T[5]) = "admin-users"
  BY <1>2, <1>3, <1>4 DEF Family
<1>7. /\ Apart(T[1], T[2]) /\ Apart(T[1], T[3]) /\ Apart(T[1], T[4]) /\ Apart(T[1], T[5])
  BY <1>2, <1>3 DEF Apart, Verbs
<1>8. /\ Apart(T[2], T[3]) /\ Apart(T[2], T[4]) /\ Apart(T[2], T[5])
  BY <1>2 DEF Apart
<1>9. /\ Apart(T[3], T[4]) /\ Apart(T[3], T[5])
  BY <1>2, <1>3 DEF Apart, Verbs
<1>10. Apart(T[4], T[5])
  BY <1>2 DEF Apart
<1>11. \A k \in 1 .. 5 : Placed(T[k]) /\ Family(T[k]) = "admin-users"
  BY <1>5, <1>6
<1>12. \A j, k \in 1 .. 5 : j < k => Apart(T[j], T[k])
  BY <1>7, <1>8, <1>9, <1>10
<1> QED
  BY <1>1, <1>11, <1>12, AdminUsersTable DEF Group, Clear

LEMMA AdminRows ==
  /\ Is(AdminRoutes[1], "ALL", <<"admin", ":resource">>)
  /\ Is(AdminRoutes[2], "ALL", <<"admin", ":resource", ":id">>)
  /\ Is(AdminRoutes[3], "ALL",
        <<"admin", "departments", ":departmentId", "services", ":serviceId">>)
  BY Built, Kept DEF AdminRoutes

LEMMA AdminGroup == Group(AdminRoutes, {"admin"})
<1> DEFINE T == AdminRoutes
<1>1. DOMAIN T = 1 .. 3
  BY DEF AdminRoutes
<1>2. /\ Len(T[1].path) = 2 /\ Len(T[2].path) = 3 /\ Len(T[3].path) = 5
  BY AdminRows DEF Is
<1>3. /\ T[1].method = "ALL" /\ T[2].method = "ALL" /\ T[3].method = "ALL"
  BY AdminRows DEF Is
<1>4. /\ T[1].path[1] = "admin" /\ T[1].path[2] = ":resource" /\ T[2].path[1] = "admin"
      /\ T[2].path[2] = ":resource" /\ T[3].path[1] = "admin"
      /\ T[3].path[2] = "departments"
  BY AdminRows DEF Is
<1>5. /\ Placed(T[1]) /\ Placed(T[2]) /\ Placed(T[3])
  BY <1>2, <1>3, <1>4 DEF Placed, Heads, Verbs
<1>6. /\ Family(T[1]) = "admin" /\ Family(T[2]) = "admin" /\ Family(T[3]) = "admin"
  BY <1>2, <1>3, <1>4 DEF Family
<1>7. /\ Apart(T[1], T[2]) /\ Apart(T[1], T[3])
  BY <1>2 DEF Apart
<1>8. Apart(T[2], T[3])
  BY <1>2 DEF Apart
<1>9. \A k \in 1 .. 3 : Placed(T[k]) /\ Family(T[k]) = "admin"
  BY <1>5, <1>6
<1>10. \A j, k \in 1 .. 3 : j < k => Apart(T[j], T[k])
  BY <1>7, <1>8
<1> QED
  BY <1>1, <1>9, <1>10, AdminTable DEF Group, Clear

LEMMA AnalyticsRows ==
  /\ Is(AnalyticsRoutes[1], "GET", <<"analytics", "department-load">>)
  /\ Is(AnalyticsRoutes[2], "GET", <<"analytics", "operator-stats">>)
  /\ Is(AnalyticsRoutes[3], "GET", <<"analytics", "summary">>)
  /\ Is(AnalyticsRoutes[4], "POST", <<"analytics", "recalculate">>)
  BY Built, Kept DEF AnalyticsRoutes

LEMMA AnalyticsGroup == Group(AnalyticsRoutes, {"analytics"})
<1> DEFINE T == AnalyticsRoutes
<1>1. DOMAIN T = 1 .. 4
  BY DEF AnalyticsRoutes
<1>2. /\ Len(T[1].path) = 2 /\ Len(T[2].path) = 2 /\ Len(T[3].path) = 2
      /\ Len(T[4].path) = 2
  BY AnalyticsRows DEF Is
<1>3. /\ T[1].method = "GET" /\ T[2].method = "GET" /\ T[3].method = "GET"
      /\ T[4].method = "POST"
  BY AnalyticsRows DEF Is
<1>4. /\ T[1].path[1] = "analytics" /\ T[1].path[2] = "department-load"
      /\ T[2].path[1] = "analytics" /\ T[2].path[2] = "operator-stats"
      /\ T[3].path[1] = "analytics" /\ T[3].path[2] = "summary"
      /\ T[4].path[1] = "analytics"
  BY AnalyticsRows DEF Is
<1>5. /\ Placed(T[1]) /\ Placed(T[2]) /\ Placed(T[3]) /\ Placed(T[4])
  BY <1>2, <1>3, <1>4 DEF Placed, Heads, Verbs
<1>6. /\ Family(T[1]) = "analytics" /\ Family(T[2]) = "analytics"
      /\ Family(T[3]) = "analytics" /\ Family(T[4]) = "analytics"
  BY <1>2, <1>3, <1>4 DEF Family
<1>7. /\ ~Agree("department-load", "operator-stats") /\ ~Agree("department-load", "summary")
      /\ ~Agree("operator-stats", "summary")
  BY DEF Agree, Parameters, Reserved
<1>8. /\ Apart(T[1], T[2]) /\ Apart(T[1], T[3]) /\ Apart(T[1], T[4])
  BY <1>2, <1>3, <1>4, <1>7 DEF Apart, Verbs
<1>9. /\ Apart(T[2], T[3]) /\ Apart(T[2], T[4])
  BY <1>2, <1>3, <1>4, <1>7 DEF Apart, Verbs
<1>10. Apart(T[3], T[4])
  BY <1>2, <1>3 DEF Apart, Verbs
<1>11. \A k \in 1 .. 4 : Placed(T[k]) /\ Family(T[k]) = "analytics"
  BY <1>5, <1>6
<1>12. \A j, k \in 1 .. 4 : j < k => Apart(T[j], T[k])
  BY <1>8, <1>9, <1>10
<1> QED
  BY <1>1, <1>11, <1>12, AnalyticsTable DEF Group, Clear

LEMMA CoreAuditRows ==
  /\ Is(CoreAuditRoutes[1], "GET", <<"audit", "logs">>)
  /\ Is(CoreAuditRoutes[2], "GET", <<"audit", "logs", "by-actor">>)
  BY Built, Kept DEF CoreAuditRoutes

LEMMA CoreAuditGroup == Group(CoreAuditRoutes, {"audit-logs"})
<1> DEFINE T == CoreAuditRoutes
<1>1. DOMAIN T = 1 .. 2
  BY DEF CoreAuditRoutes
<1>2. /\ Len(T[1].path) = 2 /\ Len(T[2].path) = 3
  BY CoreAuditRows DEF Is
<1>3. /\ T[1].method = "GET" /\ T[2].method = "GET"
  BY CoreAuditRows DEF Is
<1>4. /\ T[1].path[1] = "audit" /\ T[2].path[1] = "audit"
  BY CoreAuditRows DEF Is
<1>5. /\ Placed(T[1]) /\ Placed(T[2])
  BY <1>2, <1>3, <1>4 DEF Placed, Heads, Verbs
<1>6. /\ Family(T[1]) = "audit-logs" /\ Family(T[2]) = "audit-logs"
  BY <1>2, <1>3, <1>4 DEF Family
<1>7. Apart(T[1], T[2])
  BY <1>2 DEF Apart
<1>8. \A k \in 1 .. 2 : Placed(T[k]) /\ Family(T[k]) = "audit-logs"
  BY <1>5, <1>6
<1>9. \A j, k \in 1 .. 2 : j < k => Apart(T[j], T[k])
  BY <1>7
<1> QED
  BY <1>1, <1>8, <1>9, CoreAuditTable DEF Group, Clear

LEMMA MaintenanceRows ==
  Is(MaintenanceRoutes[1], "POST", <<"maintenance", "run">>)
  BY Built, Kept DEF MaintenanceRoutes

LEMMA MaintenanceGroup == Group(MaintenanceRoutes, {"maintenance"})
<1> DEFINE T == MaintenanceRoutes
<1>1. DOMAIN T = 1 .. 1
  BY DEF MaintenanceRoutes
<1>2. Len(T[1].path) = 2
  BY MaintenanceRows DEF Is
<1>3. T[1].method = "POST"
  BY MaintenanceRows DEF Is
<1>4. T[1].path[1] = "maintenance"
  BY MaintenanceRows DEF Is
<1>5. Placed(T[1])
  BY <1>2, <1>3, <1>4 DEF Placed, Heads, Verbs
<1>6. Family(T[1]) = "maintenance"
  BY <1>2, <1>3, <1>4 DEF Family
<1> QED
  BY <1>1, <1>5, <1>6, MaintenanceTable DEF Group, Clear

LEMMA ManagementRows ==
  /\ Is(ManagementRoutes[1], "ALL", <<"management", "departments", ":departmentId", ":resource">>)
  /\ Is(ManagementRoutes[2], "ALL",
        <<"management", "departments", ":departmentId", ":resource", ":id">>)
  /\ Is(ManagementRoutes[3], "ALL",
        <<"management", "employees", ":employeeId", "services", ":serviceId">>)
  /\ Is(ManagementRoutes[4], "ALL",
        <<"management", "employees", ":employeeId", "windows", ":windowId">>)
  BY Built, Kept DEF ManagementRoutes

LEMMA ManagementGroup == Group(ManagementRoutes, {"management"})
<1> DEFINE T == ManagementRoutes
<1>1. DOMAIN T = 1 .. 4
  BY DEF ManagementRoutes
<1>2. /\ Len(T[1].path) = 4 /\ Len(T[2].path) = 5 /\ Len(T[3].path) = 5
      /\ Len(T[4].path) = 5
  BY ManagementRows DEF Is
<1>3. /\ T[1].method = "ALL" /\ T[2].method = "ALL" /\ T[3].method = "ALL"
      /\ T[4].method = "ALL"
  BY ManagementRows DEF Is
<1>4. /\ T[1].path[1] = "management" /\ T[2].path[1] = "management"
      /\ T[2].path[2] = "departments" /\ T[3].path[1] = "management"
      /\ T[3].path[2] = "employees" /\ T[3].path[4] = "services"
      /\ T[4].path[1] = "management" /\ T[4].path[2] = "employees"
      /\ T[4].path[4] = "windows"
  BY ManagementRows DEF Is
<1>5. /\ Placed(T[1]) /\ Placed(T[2]) /\ Placed(T[3]) /\ Placed(T[4])
  BY <1>2, <1>3, <1>4 DEF Placed, Heads, Verbs
<1>6. /\ Family(T[1]) = "management" /\ Family(T[2]) = "management"
      /\ Family(T[3]) = "management" /\ Family(T[4]) = "management"
  BY <1>2, <1>3, <1>4 DEF Family
<1>7. /\ ~Agree("departments", "employees") /\ ~Agree("services", "windows")
  BY DEF Agree, Parameters, Reserved
<1>8. /\ Apart(T[1], T[2]) /\ Apart(T[1], T[3]) /\ Apart(T[1], T[4])
  BY <1>2 DEF Apart
<1>9. /\ Apart(T[2], T[3]) /\ Apart(T[2], T[4])
  BY <1>2, <1>4, <1>7 DEF Apart
<1>10. Apart(T[3], T[4])
  BY <1>2, <1>4, <1>7 DEF Apart
<1>11. \A k \in 1 .. 4 : Placed(T[k]) /\ Family(T[k]) = "management"
  BY <1>5, <1>6
<1>12. \A j, k \in 1 .. 4 : j < k => Apart(T[j], T[k])
  BY <1>8, <1>9, <1>10
<1> QED
  BY <1>1, <1>11, <1>12, ManagementTable DEF Group, Clear

LEMMA DashboardRows ==
  /\ Is(DashboardRoutes[1], "GET", <<"dashboard", "admin">>)
  /\ Is(DashboardRoutes[2], "GET", <<"dashboard", "department">>)
  BY Built, Kept DEF DashboardRoutes

LEMMA DashboardGroup == Group(DashboardRoutes, {"dashboard"})
<1> DEFINE T == DashboardRoutes
<1>1. DOMAIN T = 1 .. 2
  BY DEF DashboardRoutes
<1>2. /\ Len(T[1].path) = 2 /\ Len(T[2].path) = 2
  BY DashboardRows DEF Is
<1>3. /\ T[1].method = "GET" /\ T[2].method = "GET"
  BY DashboardRows DEF Is
<1>4. /\ T[1].path[1] = "dashboard" /\ T[1].path[2] = "admin" /\ T[2].path[1] = "dashboard"
      /\ T[2].path[2] = "department"
  BY DashboardRows DEF Is
<1>5. /\ Placed(T[1]) /\ Placed(T[2])
  BY <1>2, <1>3, <1>4 DEF Placed, Heads, Verbs
<1>6. /\ Family(T[1]) = "dashboard" /\ Family(T[2]) = "dashboard"
  BY <1>2, <1>3, <1>4 DEF Family
<1>7. ~Agree("admin", "department")
  BY DEF Agree, Parameters, Reserved
<1>8. Apart(T[1], T[2])
  BY <1>2, <1>4, <1>7 DEF Apart
<1>9. \A k \in 1 .. 2 : Placed(T[k]) /\ Family(T[k]) = "dashboard"
  BY <1>5, <1>6
<1>10. \A j, k \in 1 .. 2 : j < k => Apart(T[j], T[k])
  BY <1>8
<1> QED
  BY <1>1, <1>9, <1>10, DashboardTable DEF Group, Clear

LEMMA OperatorRows ==
  /\ Is(OperatorRoutes[1], "GET", <<"operator", "dashboard">>)
  /\ Is(OperatorRoutes[2], "POST", <<"operator", "window", "available">>)
  /\ Is(OperatorRoutes[3], "POST", <<"operator", "window", "away">>)
  /\ Is(OperatorRoutes[4], "POST", <<"operator", "tickets", "next">>)
  /\ Is(OperatorRoutes[5], "GET", <<"operator", "tickets", "restorable">>)
  /\ Is(OperatorRoutes[6], "POST", <<"operator", "tickets", ":ticketId", ":action">>)
  BY Built, Kept DEF OperatorRoutes

LEMMA OperatorGroup == Group(OperatorRoutes, {"operator"})
<1> DEFINE T == OperatorRoutes
<1>1. DOMAIN T = 1 .. 6
  BY DEF OperatorRoutes
<1>2. /\ Len(T[1].path) = 2 /\ Len(T[2].path) = 3 /\ Len(T[3].path) = 3
      /\ Len(T[4].path) = 3 /\ Len(T[5].path) = 3 /\ Len(T[6].path) = 4
  BY OperatorRows DEF Is
<1>3. /\ T[1].method = "GET" /\ T[2].method = "POST" /\ T[3].method = "POST"
      /\ T[4].method = "POST" /\ T[5].method = "GET" /\ T[6].method = "POST"
  BY OperatorRows DEF Is
<1>4. /\ T[1].path[1] = "operator" /\ T[2].path[1] = "operator" /\ T[2].path[2] = "window"
      /\ T[2].path[3] = "available" /\ T[3].path[1] = "operator" /\ T[3].path[2] = "window"
      /\ T[3].path[3] = "away" /\ T[4].path[1] = "operator" /\ T[4].path[2] = "tickets"
      /\ T[5].path[1] = "operator" /\ T[6].path[1] = "operator"
  BY OperatorRows DEF Is
<1>5. /\ Placed(T[1]) /\ Placed(T[2]) /\ Placed(T[3]) /\ Placed(T[4]) /\ Placed(T[5])
      /\ Placed(T[6])
  BY <1>2, <1>3, <1>4 DEF Placed, Heads, Verbs
<1>6. /\ Family(T[1]) = "operator" /\ Family(T[2]) = "operator" /\ Family(T[3]) = "operator"
      /\ Family(T[4]) = "operator" /\ Family(T[5]) = "operator" /\ Family(T[6]) = "operator"
  BY <1>2, <1>3, <1>4 DEF Family
<1>7. /\ ~Agree("available", "away") /\ ~Agree("window", "tickets")
  BY DEF Agree, Parameters, Reserved
<1>8. /\ Apart(T[1], T[2]) /\ Apart(T[1], T[3]) /\ Apart(T[1], T[4]) /\ Apart(T[1], T[5])
      /\ Apart(T[1], T[6])
  BY <1>2 DEF Apart
<1>9. /\ Apart(T[2], T[3]) /\ Apart(T[2], T[4]) /\ Apart(T[2], T[5]) /\ Apart(T[2], T[6])
  BY <1>2, <1>3, <1>4, <1>7 DEF Apart, Verbs
<1>10. /\ Apart(T[3], T[4]) /\ Apart(T[3], T[5]) /\ Apart(T[3], T[6])
  BY <1>2, <1>3, <1>4, <1>7 DEF Apart, Verbs
<1>11. /\ Apart(T[4], T[5]) /\ Apart(T[4], T[6])
  BY <1>2, <1>3 DEF Apart, Verbs
<1>12. Apart(T[5], T[6])
  BY <1>2 DEF Apart
<1>13. \A k \in 1 .. 6 : Placed(T[k]) /\ Family(T[k]) = "operator"
  BY <1>5, <1>6
<1>14. \A j, k \in 1 .. 6 : j < k => Apart(T[j], T[k])
  BY <1>8, <1>9, <1>10, <1>11, <1>12
<1> QED
  BY <1>1, <1>13, <1>14, OperatorTable DEF Group, Clear

LEMMA PublicBookingsRows ==
  /\ Is(PublicBookingsRoutes[1], "GET", <<"public", "bookings", "slots">>)
  /\ Is(PublicBookingsRoutes[2], "POST", <<"public", "bookings">>)
  /\ Is(PublicBookingsRoutes[3], "GET", <<"public", "bookings", ":confirmationCode">>)
  /\ Is(PublicBookingsRoutes[4], "POST", <<"public", "bookings", ":confirmationCode", "confirm">>)
  /\ Is(PublicBookingsRoutes[5], "POST",
        <<"public", "bookings", ":confirmationCode", "check-in">>)
  /\ Is(PublicBookingsRoutes[6], "POST", <<"public", "bookings", ":confirmationCode", "cancel">>)
  BY Built, Kept DEF PublicBookingsRoutes

LEMMA PublicBookingsGroup == Group(PublicBookingsRoutes, {"public"})
<1> DEFINE T == PublicBookingsRoutes
<1>1. DOMAIN T = 1 .. 6
  BY DEF PublicBookingsRoutes
<1>2. /\ Len(T[1].path) = 3 /\ Len(T[2].path) = 2 /\ Len(T[3].path) = 3
      /\ Len(T[4].path) = 4 /\ Len(T[5].path) = 4 /\ Len(T[6].path) = 4
  BY PublicBookingsRows DEF Is
<1>3. /\ T[1].method = "GET" /\ T[2].method = "POST" /\ T[3].method = "GET"
      /\ T[4].method = "POST" /\ T[5].method = "POST" /\ T[6].method = "POST"
  BY PublicBookingsRows DEF Is
<1>4. /\ T[1].path[1] = "public" /\ T[1].path[3] = "slots" /\ T[2].path[1] = "public"
      /\ T[3].path[1] = "public" /\ T[3].path[3] = ":confirmationCode"
      /\ T[4].path[1] = "public" /\ T[4].path[4] = "confirm" /\ T[5].path[1] = "public"
      /\ T[5].path[4] = "check-in" /\ T[6].path[1] = "public" /\ T[6].path[4] = "cancel"
  BY PublicBookingsRows DEF Is
<1>5. /\ Placed(T[1]) /\ Placed(T[2]) /\ Placed(T[3]) /\ Placed(T[4]) /\ Placed(T[5])
      /\ Placed(T[6])
  BY <1>2, <1>3, <1>4 DEF Placed, Heads, Verbs
<1>6. /\ Family(T[1]) = "public" /\ Family(T[2]) = "public" /\ Family(T[3]) = "public"
      /\ Family(T[4]) = "public" /\ Family(T[5]) = "public" /\ Family(T[6]) = "public"
  BY <1>2, <1>3, <1>4 DEF Family
<1>7. /\ ~Agree("slots", ":confirmationCode") /\ ~Agree("confirm", "check-in")
      /\ ~Agree("confirm", "cancel") /\ ~Agree("check-in", "cancel")
  BY DEF Agree, Parameters, Reserved
<1>8. /\ Apart(T[1], T[2]) /\ Apart(T[1], T[3]) /\ Apart(T[1], T[4]) /\ Apart(T[1], T[5])
      /\ Apart(T[1], T[6])
  BY <1>2, <1>4, <1>7 DEF Apart
<1>9. /\ Apart(T[2], T[3]) /\ Apart(T[2], T[4]) /\ Apart(T[2], T[5]) /\ Apart(T[2], T[6])
  BY <1>2 DEF Apart
<1>10. /\ Apart(T[3], T[4]) /\ Apart(T[3], T[5]) /\ Apart(T[3], T[6])
  BY <1>2 DEF Apart
<1>11. /\ Apart(T[4], T[5]) /\ Apart(T[4], T[6])
  BY <1>2, <1>4, <1>7 DEF Apart
<1>12. Apart(T[5], T[6])
  BY <1>2, <1>4, <1>7 DEF Apart
<1>13. \A k \in 1 .. 6 : Placed(T[k]) /\ Family(T[k]) = "public"
  BY <1>5, <1>6
<1>14. \A j, k \in 1 .. 6 : j < k => Apart(T[j], T[k])
  BY <1>8, <1>9, <1>10, <1>11, <1>12
<1> QED
  BY <1>1, <1>13, <1>14, PublicBookingsTable DEF Group, Clear

LEMMA PublicCatalogRows ==
  Is(PublicCatalogRoutes[1], "GET", <<"catalog", "department-services">>)
  BY Built, Kept DEF PublicCatalogRoutes

LEMMA PublicCatalogGroup == Group(PublicCatalogRoutes, {"catalog"})
<1> DEFINE T == PublicCatalogRoutes
<1>1. DOMAIN T = 1 .. 1
  BY DEF PublicCatalogRoutes
<1>2. Len(T[1].path) = 2
  BY PublicCatalogRows DEF Is
<1>3. T[1].method = "GET"
  BY PublicCatalogRows DEF Is
<1>4. T[1].path[1] = "catalog"
  BY PublicCatalogRows DEF Is
<1>5. Placed(T[1])
  BY <1>2, <1>3, <1>4 DEF Placed, Heads, Verbs
<1>6. Family(T[1]) = "catalog"
  BY <1>2, <1>3, <1>4 DEF Family
<1> QED
  BY <1>1, <1>5, <1>6, PublicCatalogTable DEF Group, Clear

LEMMA QrCoreRows ==
  /\ Is(QrCoreRoutes[1], "GET", <<"qr", "sessions", "validate">>)
  /\ Is(QrCoreRoutes[2], "POST", <<"qr", "tickets">>)
  BY Built, Kept DEF QrCoreRoutes

LEMMA QrCoreGroup == Group(QrCoreRoutes, {"qr-core"})
<1> DEFINE T == QrCoreRoutes
<1>1. DOMAIN T = 1 .. 2
  BY DEF QrCoreRoutes
<1>2. /\ Len(T[1].path) = 3 /\ Len(T[2].path) = 2
  BY QrCoreRows DEF Is
<1>3. /\ T[1].method = "GET" /\ T[2].method = "POST"
  BY QrCoreRows DEF Is
<1>4. /\ T[1].path[1] = "qr" /\ T[2].path[1] = "qr"
  BY QrCoreRows DEF Is
<1>5. /\ Placed(T[1]) /\ Placed(T[2])
  BY <1>2, <1>3, <1>4 DEF Placed, Heads, Verbs
<1>6. /\ Family(T[1]) = "qr-core" /\ Family(T[2]) = "qr-core"
  BY <1>2, <1>3, <1>4 DEF Family
<1>7. Apart(T[1], T[2])
  BY <1>2 DEF Apart
<1>8. \A k \in 1 .. 2 : Placed(T[k]) /\ Family(T[k]) = "qr-core"
  BY <1>5, <1>6
<1>9. \A j, k \in 1 .. 2 : j < k => Apart(T[j], T[k])
  BY <1>7
<1> QED
  BY <1>1, <1>8, <1>9, QrCoreTable DEF Group, Clear

LEMMA ReportsRows ==
  Is(ReportsRoutes[1], "GET", <<"reports", "department-load.xlsx">>)
  BY Built, Kept DEF ReportsRoutes

LEMMA ReportsGroup == Group(ReportsRoutes, {"reports"})
<1> DEFINE T == ReportsRoutes
<1>1. DOMAIN T = 1 .. 1
  BY DEF ReportsRoutes
<1>2. Len(T[1].path) = 2
  BY ReportsRows DEF Is
<1>3. T[1].method = "GET"
  BY ReportsRows DEF Is
<1>4. T[1].path[1] = "reports"
  BY ReportsRows DEF Is
<1>5. Placed(T[1])
  BY <1>2, <1>3, <1>4 DEF Placed, Heads, Verbs
<1>6. Family(T[1]) = "reports"
  BY <1>2, <1>3, <1>4 DEF Family
<1> QED
  BY <1>1, <1>5, <1>6, ReportsTable DEF Group, Clear

LEMMA TerminalRows ==
  /\ Is(TerminalRoutes[1], "POST", <<"terminal", ":deviceCode", "tickets">>)
  /\ Is(TerminalRoutes[2], "POST", <<"terminal", ":deviceCode", "qr-sessions">>)
  /\ Is(TerminalRoutes[3], "GET", <<"terminal", ":deviceCode", "tickets", ":ticketId", "print">>)
  BY Built, Kept DEF TerminalRoutes

LEMMA TerminalGroup == Group(TerminalRoutes, {"terminal"})
<1> DEFINE T == TerminalRoutes
<1>1. DOMAIN T = 1 .. 3
  BY DEF TerminalRoutes
<1>2. /\ Len(T[1].path) = 3 /\ Len(T[2].path) = 3 /\ Len(T[3].path) = 5
  BY TerminalRows DEF Is
<1>3. /\ T[1].method = "POST" /\ T[2].method = "POST" /\ T[3].method = "GET"
  BY TerminalRows DEF Is
<1>4. /\ T[1].path[1] = "terminal" /\ T[1].path[3] = "tickets" /\ T[2].path[1] = "terminal"
      /\ T[2].path[3] = "qr-sessions" /\ T[3].path[1] = "terminal"
  BY TerminalRows DEF Is
<1>5. /\ Placed(T[1]) /\ Placed(T[2]) /\ Placed(T[3])
  BY <1>2, <1>3, <1>4 DEF Placed, Heads, Verbs
<1>6. /\ Family(T[1]) = "terminal" /\ Family(T[2]) = "terminal" /\ Family(T[3]) = "terminal"
  BY <1>2, <1>3, <1>4 DEF Family
<1>7. ~Agree("tickets", "qr-sessions")
  BY DEF Agree, Parameters, Reserved
<1>8. /\ Apart(T[1], T[2]) /\ Apart(T[1], T[3])
  BY <1>2, <1>4, <1>7 DEF Apart
<1>9. Apart(T[2], T[3])
  BY <1>2 DEF Apart
<1>10. \A k \in 1 .. 3 : Placed(T[k]) /\ Family(T[k]) = "terminal"
  BY <1>5, <1>6
<1>11. \A j, k \in 1 .. 3 : j < k => Apart(T[j], T[k])
  BY <1>8, <1>9
<1> QED
  BY <1>1, <1>10, <1>11, TerminalTable DEF Group, Clear

LEMMA TicketsRows ==
  /\ Is(TicketsRoutes[1], "POST", <<"tickets">>)
  /\ Is(TicketsRoutes[2], "GET", <<"tickets", "query", "waiting">>)
  /\ Is(TicketsRoutes[3], "GET", <<"tickets", "query", "operator", "current">>)
  /\ Is(TicketsRoutes[4], "GET", <<"tickets", "query", "by-number">>)
  /\ Is(TicketsRoutes[5], "GET", <<"tickets", "query", ":ticketId", "history">>)
  /\ Is(TicketsRoutes[6], "GET", <<"tickets", "print">>)
  /\ Is(TicketsRoutes[7], "GET", <<"tickets", ":ticketId", "print">>)
  BY Built, Kept DEF TicketsRoutes

LEMMA TicketsGroup == Group(TicketsRoutes, {"tickets"})
<1> DEFINE T == TicketsRoutes
<1>1. DOMAIN T = 1 .. 7
  BY DEF TicketsRoutes
<1>2. /\ Len(T[1].path) = 1 /\ Len(T[2].path) = 3 /\ Len(T[3].path) = 4
      /\ Len(T[4].path) = 3 /\ Len(T[5].path) = 4 /\ Len(T[6].path) = 2
      /\ Len(T[7].path) = 3
  BY TicketsRows DEF Is
<1>3. /\ T[1].method = "POST" /\ T[2].method = "GET" /\ T[3].method = "GET"
      /\ T[4].method = "GET" /\ T[5].method = "GET" /\ T[6].method = "GET"
      /\ T[7].method = "GET"
  BY TicketsRows DEF Is
<1>4. /\ T[1].path[1] = "tickets" /\ T[2].path[1] = "tickets" /\ T[2].path[3] = "waiting"
      /\ T[3].path[1] = "tickets" /\ T[3].path[4] = "current" /\ T[4].path[1] = "tickets"
      /\ T[4].path[3] = "by-number" /\ T[5].path[1] = "tickets" /\ T[5].path[4] = "history"
      /\ T[6].path[1] = "tickets" /\ T[7].path[1] = "tickets" /\ T[7].path[3] = "print"
  BY TicketsRows DEF Is
<1>5. /\ Placed(T[1]) /\ Placed(T[2]) /\ Placed(T[3]) /\ Placed(T[4]) /\ Placed(T[5])
      /\ Placed(T[6]) /\ Placed(T[7])
  BY <1>2, <1>3, <1>4 DEF Placed, Heads, Verbs
<1>6. /\ Family(T[1]) = "tickets" /\ Family(T[2]) = "tickets" /\ Family(T[3]) = "tickets"
      /\ Family(T[4]) = "tickets" /\ Family(T[5]) = "tickets" /\ Family(T[6]) = "tickets"
      /\ Family(T[7]) = "tickets"
  BY <1>2, <1>3, <1>4 DEF Family
<1>7. /\ ~Agree("waiting", "by-number") /\ ~Agree("waiting", "print")
      /\ ~Agree("current", "history") /\ ~Agree("by-number", "print")
  BY DEF Agree, Parameters, Reserved
<1>8. /\ Apart(T[1], T[2]) /\ Apart(T[1], T[3]) /\ Apart(T[1], T[4]) /\ Apart(T[1], T[5])
      /\ Apart(T[1], T[6]) /\ Apart(T[1], T[7])
  BY <1>2 DEF Apart
<1>9. /\ Apart(T[2], T[3]) /\ Apart(T[2], T[4]) /\ Apart(T[2], T[5]) /\ Apart(T[2], T[6])
      /\ Apart(T[2], T[7])
  BY <1>2, <1>4, <1>7 DEF Apart
<1>10. /\ Apart(T[3], T[4]) /\ Apart(T[3], T[5]) /\ Apart(T[3], T[6]) /\ Apart(T[3], T[7])
  BY <1>2, <1>4, <1>7 DEF Apart
<1>11. /\ Apart(T[4], T[5]) /\ Apart(T[4], T[6]) /\ Apart(T[4], T[7])
  BY <1>2, <1>4, <1>7 DEF Apart
<1>12. /\ Apart(T[5], T[6]) /\ Apart(T[5], T[7])
  BY <1>2 DEF Apart
<1>13. Apart(T[6], T[7])
  BY <1>2 DEF Apart
<1>14. \A k \in 1 .. 7 : Placed(T[k]) /\ Family(T[k]) = "tickets"
  BY <1>5, <1>6
<1>15. \A j, k \in 1 .. 7 : j < k => Apart(T[j], T[k])
  BY <1>8, <1>9, <1>10, <1>11, <1>12, <1>13
<1> QED
  BY <1>1, <1>14, <1>15, TicketsTable DEF Group, Clear

LEMMA TvRows ==
  /\ Is(TvRoutes[1], "GET", <<"tv", "snapshot">>)
  /\ Is(TvRoutes[2], "GET", <<"tv", ":deviceCode", "snapshot">>)
  BY Built, Kept DEF TvRoutes

LEMMA TvGroup == Group(TvRoutes, {"tv"})
<1> DEFINE T == TvRoutes
<1>1. DOMAIN T = 1 .. 2
  BY DEF TvRoutes
<1>2. /\ Len(T[1].path) = 2 /\ Len(T[2].path) = 3
  BY TvRows DEF Is
<1>3. /\ T[1].method = "GET" /\ T[2].method = "GET"
  BY TvRows DEF Is
<1>4. /\ T[1].path[1] = "tv" /\ T[2].path[1] = "tv"
  BY TvRows DEF Is
<1>5. /\ Placed(T[1]) /\ Placed(T[2])
  BY <1>2, <1>3, <1>4 DEF Placed, Heads, Verbs
<1>6. /\ Family(T[1]) = "tv" /\ Family(T[2]) = "tv"
  BY <1>2, <1>3, <1>4 DEF Family
<1>7. Apart(T[1], T[2])
  BY <1>2 DEF Apart
<1>8. \A k \in 1 .. 2 : Placed(T[k]) /\ Family(T[k]) = "tv"
  BY <1>5, <1>6
<1>9. \A j, k \in 1 .. 2 : j < k => Apart(T[j], T[k])
  BY <1>7
<1> QED
  BY <1>1, <1>8, <1>9, TvTable DEF Group, Clear

LEMMA DirectoryGroup ==
  ASSUME NEW table \in {"branches", "services", "departments"}
  PROVE  Group(DirectoryRoutes(table), {table})
<1> DEFINE T == DirectoryRoutes(table)
<1>1. DOMAIN T = 1 .. 5
  BY DEF DirectoryRoutes
<1>2. /\ Is(T[1], "POST", <<table>>)
       /\ Is(T[2], "GET", <<table>>)
       /\ Is(T[3], "GET", <<table, ":id">>)
       /\ Is(T[4], "PATCH", <<table, ":id">>)
       /\ Is(T[5], "DELETE", <<table, ":id">>)
  BY Built, Kept DEF DirectoryRoutes
<1>3. /\ Len(T[1].path) = 1 /\ Len(T[2].path) = 1 /\ Len(T[3].path) = 2
      /\ Len(T[4].path) = 2 /\ Len(T[5].path) = 2
  BY <1>2 DEF Is
<1>4. /\ T[1].method = "POST" /\ T[2].method = "GET" /\ T[3].method = "GET"
      /\ T[4].method = "PATCH" /\ T[5].method = "DELETE"
  BY <1>2 DEF Is
<1>5. /\ T[1].path[1] = table /\ T[2].path[1] = table /\ T[3].path[1] = table
      /\ T[4].path[1] = table /\ T[5].path[1] = table
  BY <1>2 DEF Is
<1>6. /\ Placed(T[1]) /\ Placed(T[2]) /\ Placed(T[3]) /\ Placed(T[4]) /\ Placed(T[5])
  BY <1>3, <1>4, <1>5 DEF Placed, Heads, Verbs
<1>7. /\ Family(T[1]) = table /\ Family(T[2]) = table /\ Family(T[3]) = table
      /\ Family(T[4]) = table /\ Family(T[5]) = table
  BY <1>3, <1>4, <1>5 DEF Family
<1>8. /\ Apart(T[1], T[2]) /\ Apart(T[1], T[3]) /\ Apart(T[1], T[4]) /\ Apart(T[1], T[5])
  BY <1>3, <1>4 DEF Apart, Verbs
<1>9. /\ Apart(T[2], T[3]) /\ Apart(T[2], T[4]) /\ Apart(T[2], T[5])
  BY <1>3 DEF Apart
<1>10. /\ Apart(T[3], T[4]) /\ Apart(T[3], T[5])
  BY <1>3, <1>4 DEF Apart, Verbs
<1>11. Apart(T[4], T[5])
  BY <1>3, <1>4 DEF Apart, Verbs
<1>12. \A k \in 1 .. 5 : Placed(T[k]) /\ Family(T[k]) = table
  BY <1>6, <1>7
<1>13. \A j, k \in 1 .. 5 : j < k => Apart(T[j], T[k])
  BY <1>8, <1>9, <1>10, <1>11
<1> QED
  BY <1>1, <1>12, <1>13, DirectoryTable DEF Group, Clear

LEMMA DepartmentServicesRows ==
  /\ Is(DepartmentServicesRoutes[1], "POST", <<"department-services", "assign">>)
  /\ Is(DepartmentServicesRoutes[2], "POST", <<"department-services", "unassign">>)
  /\ Is(DepartmentServicesRoutes[3], "GET",
        <<"department-services", "by-department", ":departmentId">>)
  /\ Is(DepartmentServicesRoutes[4], "GET",
        <<"department-services", "by-department", ":departmentId", "services">>)
  /\ Is(DepartmentServicesRoutes[5], "GET", <<"department-services", "by-service", ":serviceId">>)
  /\ Is(DepartmentServicesRoutes[6], "GET",
        <<"department-services", "by-service", ":serviceId", "departments">>)
  /\ Is(DepartmentServicesRoutes[7], "PATCH", <<"department-services", ":id">>)
  /\ Is(DepartmentServicesRoutes[8], "DELETE", <<"department-services", ":id">>)
  BY Built, Kept DEF DepartmentServicesRoutes

LEMMA DepartmentServicesGroup == Group(DepartmentServicesRoutes, {"department-services"})
<1> DEFINE T == DepartmentServicesRoutes
<1>1. DOMAIN T = 1 .. 8
  BY DEF DepartmentServicesRoutes
<1>2. /\ Len(T[1].path) = 2 /\ Len(T[2].path) = 2 /\ Len(T[3].path) = 3
      /\ Len(T[4].path) = 4 /\ Len(T[5].path) = 3 /\ Len(T[6].path) = 4
      /\ Len(T[7].path) = 2 /\ Len(T[8].path) = 2
  BY DepartmentServicesRows DEF Is
<1>3. /\ T[1].method = "POST" /\ T[2].method = "POST" /\ T[3].method = "GET"
      /\ T[4].method = "GET" /\ T[5].method = "GET" /\ T[6].method = "GET"
      /\ T[7].method = "PATCH" /\ T[8].method = "DELETE"
  BY DepartmentServicesRows DEF Is
<1>4. /\ T[1].path[1] = "department-services" /\ T[1].path[2] = "assign"
      /\ T[2].path[1] = "department-services" /\ T[2].path[2] = "unassign"
      /\ T[3].path[1] = "department-services" /\ T[3].path[2] = "by-department"
      /\ T[4].path[1] = "department-services" /\ T[4].path[2] = "by-department"
      /\ T[5].path[1] = "department-services" /\ T[5].path[2] = "by-service"
      /\ T[6].path[1] = "department-services" /\ T[6].path[2] = "by-service"
      /\ T[7].path[1] = "department-services" /\ T[8].path[1] = "department-services"
  BY DepartmentServicesRows DEF Is
<1>5. /\ Placed(T[1]) /\ Placed(T[2]) /\ Placed(T[3]) /\ Placed(T[4]) /\ Placed(T[5])
      /\ Placed(T[6]) /\ Placed(T[7]) /\ Placed(T[8])
  BY <1>2, <1>3, <1>4 DEF Placed, Heads, Verbs
<1>6. /\ Family(T[1]) = "department-services" /\ Family(T[2]) = "department-services"
      /\ Family(T[3]) = "department-services" /\ Family(T[4]) = "department-services"
      /\ Family(T[5]) = "department-services" /\ Family(T[6]) = "department-services"
      /\ Family(T[7]) = "department-services" /\ Family(T[8]) = "department-services"
  BY <1>2, <1>3, <1>4 DEF Family
<1>7. /\ ~Agree("assign", "unassign") /\ ~Agree("by-department", "by-service")
  BY DEF Agree, Parameters, Reserved
<1>8. /\ Apart(T[1], T[2]) /\ Apart(T[1], T[3]) /\ Apart(T[1], T[4]) /\ Apart(T[1], T[5])
      /\ Apart(T[1], T[6]) /\ Apart(T[1], T[7]) /\ Apart(T[1], T[8])
  BY <1>2, <1>3, <1>4, <1>7 DEF Apart, Verbs
<1>9. /\ Apart(T[2], T[3]) /\ Apart(T[2], T[4]) /\ Apart(T[2], T[5]) /\ Apart(T[2], T[6])
      /\ Apart(T[2], T[7]) /\ Apart(T[2], T[8])
  BY <1>2, <1>3 DEF Apart, Verbs
<1>10. /\ Apart(T[3], T[4]) /\ Apart(T[3], T[5]) /\ Apart(T[3], T[6]) /\ Apart(T[3], T[7])
      /\ Apart(T[3], T[8])
  BY <1>2, <1>4, <1>7 DEF Apart
<1>11. /\ Apart(T[4], T[5]) /\ Apart(T[4], T[6]) /\ Apart(T[4], T[7]) /\ Apart(T[4], T[8])
  BY <1>2, <1>4, <1>7 DEF Apart
<1>12. /\ Apart(T[5], T[6]) /\ Apart(T[5], T[7]) /\ Apart(T[5], T[8])
  BY <1>2 DEF Apart
<1>13. /\ Apart(T[6], T[7]) /\ Apart(T[6], T[8])
  BY <1>2 DEF Apart
<1>14. Apart(T[7], T[8])
  BY <1>2, <1>3 DEF Apart, Verbs
<1>15. \A k \in 1 .. 8 : Placed(T[k]) /\ Family(T[k]) = "department-services"
  BY <1>5, <1>6
<1>16. \A j, k \in 1 .. 8 : j < k => Apart(T[j], T[k])
  BY <1>8, <1>9, <1>10, <1>11, <1>12, <1>13, <1>14
<1> QED
  BY <1>1, <1>15, <1>16, DepartmentServicesTable DEF Group, Clear

LEMMA BookingsRows ==
  /\ Is(BookingsRoutes[1], "GET", <<"bookings", "slots">>)
  /\ Is(BookingsRoutes[2], "POST", <<"bookings">>)
  /\ Is(BookingsRoutes[3], "GET", <<"bookings">>)
  /\ Is(BookingsRoutes[4], "GET", <<"bookings", ":id", "qr">>)
  /\ Is(BookingsRoutes[5], "GET", <<"bookings", ":id", "qr.svg">>)
  /\ Is(BookingsRoutes[6], "GET", <<"bookings", ":id">>)
  /\ Is(BookingsRoutes[7], "PATCH", <<"bookings", ":id", "confirm">>)
  /\ Is(BookingsRoutes[8], "PATCH", <<"bookings", ":id", "cancel">>)
  BY Built, Kept DEF BookingsRoutes

LEMMA BookingsGroup == Group(BookingsRoutes, {"bookings"})
<1> DEFINE T == BookingsRoutes
<1>1. DOMAIN T = 1 .. 8
  BY DEF BookingsRoutes
<1>2. /\ Len(T[1].path) = 2 /\ Len(T[2].path) = 1 /\ Len(T[3].path) = 1
      /\ Len(T[4].path) = 3 /\ Len(T[5].path) = 3 /\ Len(T[6].path) = 2
      /\ Len(T[7].path) = 3 /\ Len(T[8].path) = 3
  BY BookingsRows DEF Is
<1>3. /\ T[1].method = "GET" /\ T[2].method = "POST" /\ T[3].method = "GET"
      /\ T[4].method = "GET" /\ T[5].method = "GET" /\ T[6].method = "GET"
      /\ T[7].method = "PATCH" /\ T[8].method = "PATCH"
  BY BookingsRows DEF Is
<1>4. /\ T[1].path[1] = "bookings" /\ T[1].path[2] = "slots" /\ T[2].path[1] = "bookings"
      /\ T[3].path[1] = "bookings" /\ T[4].path[1] = "bookings" /\ T[4].path[3] = "qr"
      /\ T[5].path[1] = "bookings" /\ T[5].path[3] = "qr.svg" /\ T[6].path[1] = "bookings"
      /\ T[6].path[2] = ":id" /\ T[7].path[1] = "bookings" /\ T[7].path[3] = "confirm"
      /\ T[8].path[1] = "bookings" /\ T[8].path[3] = "cancel"
  BY BookingsRows DEF Is
<1>5. /\ Placed(T[1]) /\ Placed(T[2]) /\ Placed(T[3]) /\ Placed(T[4]) /\ Placed(T[5])
      /\ Placed(T[6]) /\ Placed(T[7]) /\ Placed(T[8])
  BY <1>2, <1>3, <1>4 DEF Placed, Heads, Verbs
<1>6. /\ Family(T[1]) = "bookings" /\ Family(T[2]) = "bookings" /\ Family(T[3]) = "bookings"
      /\ Family(T[4]) = "bookings" /\ Family(T[5]) = "bookings" /\ Family(T[6]) = "bookings"
      /\ Family(T[7]) = "bookings" /\ Family(T[8]) = "bookings"
  BY <1>2, <1>3, <1>4 DEF Family
<1>7. /\ ~Agree("slots", ":id") /\ ~Agree("qr", "qr.svg") /\ ~Agree("confirm", "cancel")
  BY DEF Agree, Parameters, Reserved
<1>8. /\ Apart(T[1], T[2]) /\ Apart(T[1], T[3]) /\ Apart(T[1], T[4]) /\ Apart(T[1], T[5])
      /\ Apart(T[1], T[6]) /\ Apart(T[1], T[7]) /\ Apart(T[1], T[8])
  BY <1>2, <1>4, <1>7 DEF Apart
<1>9. /\ Apart(T[2], T[3]) /\ Apart(T[2], T[4]) /\ Apart(T[2], T[5]) /\ Apart(T[2], T[6])
      /\ Apart(T[2], T[7]) /\ Apart(T[2], T[8])
  BY <1>2, <1>3 DEF Apart, Verbs
<1>10. /\ Apart(T[3], T[4]) /\ Apart(T[3], T[5]) /\ Apart(T[3], T[6]) /\ Apart(T[3], T[7])
      /\ Apart(T[3], T[8])
  BY <1>2 DEF Apart
<1>11. /\ Apart(T[4], T[5]) /\ Apart(T[4], T[6]) /\ Apart(T[4], T[7]) /\ Apart(T[4], T[8])
  BY <1>2, <1>3, <1>4, <1>7 DEF Apart, Verbs
<1>12. /\ Apart(T[5], T[6]) /\ Apart(T[5], T[7]) /\ Apart(T[5], T[8])
  BY <1>2, <1>3 DEF Apart, Verbs
<1>13. /\ Apart(T[6], T[7]) /\ Apart(T[6], T[8])
  BY <1>2 DEF Apart
<1>14. Apart(T[7], T[8])
  BY <1>2, <1>4, <1>7 DEF Apart
<1>15. \A k \in 1 .. 8 : Placed(T[k]) /\ Family(T[k]) = "bookings"
  BY <1>5, <1>6
<1>16. \A j, k \in 1 .. 8 : j < k => Apart(T[j], T[k])
  BY <1>8, <1>9, <1>10, <1>11, <1>12, <1>13, <1>14
<1> QED
  BY <1>1, <1>15, <1>16, BookingsTable DEF Group, Clear

LEMMA QrRows ==
  /\ Is(QrRoutes[1], "GET", <<"qr", "token.svg">>)
  /\ Is(QrRoutes[2], "GET", <<"qr", ":token">>)
  /\ Is(QrRoutes[3], "POST", <<"qr", ":token", "consume">>)
  BY Built, Kept DEF QrRoutes

LEMMA QrGroup == Group(QrRoutes, {"qr"})
<1> DEFINE T == QrRoutes
<1>1. DOMAIN T = 1 .. 3
  BY DEF QrRoutes
<1>2. /\ Len(T[1].path) = 2 /\ Len(T[2].path) = 2 /\ Len(T[3].path) = 3
  BY QrRows DEF Is
<1>3. /\ T[1].method = "GET" /\ T[2].method = "GET" /\ T[3].method = "POST"
  BY QrRows DEF Is
<1>4. /\ T[1].path[1] = "qr" /\ T[1].path[2] = "token.svg" /\ T[2].path[1] = "qr"
      /\ T[2].path[2] = ":token" /\ T[3].path[1] = "qr"
  BY QrRows DEF Is
<1>5. /\ Placed(T[1]) /\ Placed(T[2]) /\ Placed(T[3])
  BY <1>2, <1>3, <1>4 DEF Placed, Heads, Verbs
<1>6. /\ Family(T[1]) = "qr" /\ Family(T[2]) = "qr" /\ Family(T[3]) = "qr"
  BY <1>2, <1>3, <1>4 DEF Family
<1>7. ~Agree("token.svg", ":token")
  BY DEF Agree, Parameters, Reserved
<1>8. /\ Apart(T[1], T[2]) /\ Apart(T[1], T[3])
  BY <1>2, <1>4, <1>7 DEF Apart
<1>9. Apart(T[2], T[3])
  BY <1>2 DEF Apart
<1>10. \A k \in 1 .. 3 : Placed(T[k]) /\ Family(T[k]) = "qr"
  BY <1>5, <1>6
<1>11. \A j, k \in 1 .. 3 : j < k => Apart(T[j], T[k])
  BY <1>8, <1>9
<1> QED
  BY <1>1, <1>10, <1>11, QrTable DEF Group, Clear

----------------------------------------------------------------------------
(* The tables joined *)

CoreFamilies ==
  {"admin", "analytics", "audit-logs", "maintenance", "management", "dashboard", "operator",
   "public", "catalog", "qr-core", "reports", "terminal", "tickets", "tv"}

LocalFamilies ==
  {"branches", "services", "departments", "department-services", "bookings", "qr"}

LEMMA CoreGatewayGroup == Group(CoreGatewayRoutes, CoreFamilies)
<1> DEFINE c2 == AdminRoutes \o AnalyticsRoutes
           c3 == c2 \o CoreAuditRoutes
           c4 == c3 \o MaintenanceRoutes
           c5 == c4 \o ManagementRoutes
           c6 == c5 \o DashboardRoutes
           c7 == c6 \o OperatorRoutes
           c8 == c7 \o PublicBookingsRoutes
           c9 == c8 \o PublicCatalogRoutes
           c10 == c9 \o QrCoreRoutes
           c11 == c10 \o ReportsRoutes
           c12 == c11 \o TerminalRoutes
           c13 == c12 \o TicketsRoutes
           c14 == c13 \o TvRoutes
<1>1. Group(c2, {"admin", "analytics"})
  BY GroupsJoined, AdminGroup, AnalyticsGroup
<1>2. Group(c3, {"admin", "analytics", "audit-logs"})
  BY GroupsJoined, <1>1, CoreAuditGroup
<1>3. Group(c4, {"admin", "analytics", "audit-logs", "maintenance"})
  BY GroupsJoined, <1>2, MaintenanceGroup
<1>4. Group(c5, {"admin", "analytics", "audit-logs", "maintenance", "management"})
  BY GroupsJoined, <1>3, ManagementGroup
<1>5. Group(c6, {"admin", "analytics", "audit-logs", "maintenance", "management",
                 "dashboard"})
  BY GroupsJoined, <1>4, DashboardGroup
<1>6. Group(c7, {"admin", "analytics", "audit-logs", "maintenance", "management",
                 "dashboard", "operator"})
  BY GroupsJoined, <1>5, OperatorGroup
<1>7. Group(c8, {"admin", "analytics", "audit-logs", "maintenance", "management",
                 "dashboard", "operator", "public"})
  BY GroupsJoined, <1>6, PublicBookingsGroup
<1>8. Group(c9, {"admin", "analytics", "audit-logs", "maintenance", "management",
                 "dashboard", "operator", "public", "catalog"})
  BY GroupsJoined, <1>7, PublicCatalogGroup
<1>9. Group(c10, {"admin", "analytics", "audit-logs", "maintenance", "management",
                  "dashboard", "operator", "public", "catalog", "qr-core"})
  BY GroupsJoined, <1>8, QrCoreGroup
<1>10. Group(c11, {"admin", "analytics", "audit-logs", "maintenance", "management",
                   "dashboard", "operator", "public", "catalog", "qr-core", "reports"})
  BY GroupsJoined, <1>9, ReportsGroup
<1>11. Group(c12, {"admin", "analytics", "audit-logs", "maintenance", "management",
                   "dashboard", "operator", "public", "catalog", "qr-core", "reports",
                   "terminal"})
  BY GroupsJoined, <1>10, TerminalGroup
<1>12. Group(c13, {"admin", "analytics", "audit-logs", "maintenance", "management",
                   "dashboard", "operator", "public", "catalog", "qr-core", "reports",
                   "terminal", "tickets"})
  BY GroupsJoined, <1>11, TicketsGroup
<1>13. Group(c14, {"admin", "analytics", "audit-logs", "maintenance", "management",
                   "dashboard", "operator", "public", "catalog", "qr-core", "reports",
                   "terminal", "tickets", "tv"})
  BY GroupsJoined, <1>12, TvGroup
<1> QED
  BY <1>13 DEF CoreGatewayRoutes, CoreFamilies

LEMMA LocalGroup == Group(LocalRoutes, LocalFamilies)
<1> DEFINE c2 == DirectoryRoutes("branches") \o DirectoryRoutes("services")
           c3 == c2 \o DirectoryRoutes("departments")
           c4 == c3 \o DepartmentServicesRoutes
           c5 == c4 \o BookingsRoutes
           c6 == c5 \o QrRoutes
<1>0. /\ Group(DirectoryRoutes("branches"), {"branches"})
      /\ Group(DirectoryRoutes("services"), {"services"})
      /\ Group(DirectoryRoutes("departments"), {"departments"})
  BY DirectoryGroup
<1>1. Group(c2, {"branches", "services"})
  BY GroupsJoined, <1>0
<1>2. Group(c3, {"branches", "services", "departments"})
  BY GroupsJoined, <1>0, <1>1
<1>3. Group(c4, {"branches", "services", "departments", "department-services"})
  BY GroupsJoined, <1>2, DepartmentServicesGroup
<1>4. Group(c5, {"branches", "services", "departments", "department-services", "bookings"})
  BY GroupsJoined, <1>3, BookingsGroup
<1>5. Group(c6, {"branches", "services", "departments", "department-services", "bookings", "qr"})
  BY GroupsJoined, <1>4, QrGroup
<1> QED
  BY <1>5 DEF LocalRoutes, LocalFamilies

LEMMA AllGroup == \E families : Group(AllRoutes, families)
<1> DEFINE c2 == AuditRoutes \o HealthRoutes
           c3 == c2 \o AuthRoutes
           c4 == c3 \o AdminUsersRoutes
           c5 == c4 \o CoreGatewayRoutes
           c6 == c5 \o LocalRoutes
<1>1. Group(c2, {"audit", "health"})
  BY GroupsJoined, AuditGroup, HealthGroup
<1>2. Group(c3, {"audit", "health", "auth"})
  BY GroupsJoined, <1>1, AuthGroup
<1> DEFINE first == {"audit", "health", "auth", "admin-users"}
<1>3. Group(c4, first)
  BY GroupsJoined, <1>2, AdminUsersGroup
<1>4. Group(c5, first \cup CoreFamilies)
  <2>1. first \cap CoreFamilies = {} /\ "admin" \notin first
    BY DEF CoreFamilies
  <2> QED
    BY <2>1, GroupsJoined, <1>3, CoreGatewayGroup
<1>5. Group(c6, first \cup CoreFamilies \cup LocalFamilies)
  <2>1. (first \cup CoreFamilies) \cap LocalFamilies = {} /\ "admin-users" \notin LocalFamilies
    BY DEF CoreFamilies, LocalFamilies
  <2> QED
    BY <2>1, GroupsJoined, <1>4, LocalGroup
<1> QED
  BY <1>5 DEF AllRoutes

\* No route is hidden by one that is registered before it: whatever a client puts for
\* the parameters of a route, as long as it is none of the reserved words, its request
\* is served by that route and by no other.
THEOREM RoutesReached ==
  ASSUME NEW k \in DOMAIN AllRoutes, NEW method, NEW path, Meant(AllRoutes[k], method, path)
  PROVE  RouteFor(method, path) = k
<1> DEFINE fitting == {j \in DOMAIN AllRoutes :
                         FitsMethod(AllRoutes[j], method) /\ FitsPath(AllRoutes[j].path, path)}
<1>1. k \in fitting
  BY DEF Meant
<1>2. DOMAIN AllRoutes \subseteq Nat
  BY RoutesSound
<1>3. ASSUME NEW j \in fitting, j < k
      PROVE  FALSE
  <2>1. Apart(AllRoutes[j], AllRoutes[k]) /\ Len(AllRoutes[j].path) \in Nat
    BY <1>3, AllGroup DEF Group, Clear, Placed
  <2> QED
    BY <2>1, NoneFitsBoth
<1>4. fitting \in SUBSET Nat /\ fitting # {} /\ k \in Nat
  BY <1>1, <1>2
<1>5. RouteFor(method, path) = Min(fitting)
  BY <1>1 DEF RouteFor
<1> HIDE DEF fitting
<1>6. \A j \in fitting : j \in Nat /\ k =< j
  BY <1>3, <1>4
<1>7. Min(fitting) \in fitting /\ \A j \in fitting : Min(fitting) =< j
  BY <1>4, LeastPosition
<1>8. Min(fitting) \in Nat /\ k =< Min(fitting) /\ Min(fitting) =< k
  BY <1>1, <1>6, <1>7
<1> QED
  BY <1>4, <1>5, <1>8

=============================================================================
