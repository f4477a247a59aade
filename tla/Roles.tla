------------------------------- MODULE Roles -------------------------------
(***************************************************************************)
(* Role names.  Common Auth, its tokens and the requests spell a role in    *)
(* several ways; the gateway reads a spelling twice, with different rules:  *)
(* normalizeRoleCode (src/auth/auth.roles.ts) for the guards and for user   *)
(* management, and CoreActorFactory.normalizeRole                           *)
(* (src/core/core-actor.factory.ts) for what the core is told.              *)
(*                                                                         *)
(* A spelling is a role code and a style:                                   *)
(*   "plain"     the words apart:             ADMIN, Admin, super-admin      *)
(*   "run"       the words run together:      SuperAdmin, SUPERADMIN         *)
(*   "prefixed"  plain behind ROLE_:          ROLE_ADMIN                     *)
(*   "glued"     behind another ROLE:         RoleAdmin, ROLE-ADMIN          *)
(* Only SUPER_ADMIN has two words.                                          *)
(***************************************************************************)
EXTENDS Store, Sequences, FiniteSetsExt

\* enum AuthRoleCode
AuthRoleCode == {"SUPER_ADMIN", "ADMIN", "CEO", "LICENSE", "SPEC", "HR", "OVK", "TV",
                 "TERMINAL", "MANAGER", "AUDITOR", "OPERATOR", "SYSTEM"}

CoreRoles == {"SUPER_ADMIN", "ADMIN", "AUDITOR", "MANAGER", "OPERATOR", "TERMINAL", "TV",
              "SYSTEM"}

Style == {"plain", "run", "prefixed", "glued"}
Spelling == [code: AuthRoleCode, style: Style]

\* an absent role is not spelled
ASSUME AbsentRole == Undefined \notin AuthRoleCode /\ Undefined \notin Spelling

\* the prefix goes, the words are set apart, and SUPERADMIN is an alias
NormalizeRoleCode(spelling) == [code |-> spelling.code, style |-> "plain"]

\* the name that Common Auth has for the role
ToCommonAuthRole(spelling) == [code |-> spelling.code, style |-> "run"]

\* the words are not set apart and only ROLE_ goes: what is left has to be a core role
NormalizeRole(spelling) ==
  IF /\ spelling.code \in CoreRoles
     /\ \/ spelling.style \in {"plain", "prefixed"}
        \/ spelling.style = "run" /\ spelling.code # "SUPER_ADMIN"
  THEN spelling.code ELSE Undefined

----------------------------------------------------------------------------
(***************************************************************************)
(* What /auth/me tells of a user: an id, a role, roles and a place, the     *)
(* organization and the department the user belongs to.                     *)
(***************************************************************************)

\* what is known of a user who exists
IsPerson(p) ==
  /\ DOMAIN p = {"id", "role", "roles", "place"}
  /\ p.id # Undefined
  /\ p.role \in Spelling \cup {Undefined} /\ p.roles \in Seq(Spelling)

NoPlace == [ordId |-> Undefined, departmentId |-> Undefined]

\* { success: true }, which stands for a 2xx without a body
NoUser == [id |-> Undefined, role |-> Undefined, roles |-> <<>>, place |-> NoPlace]

\* mutant: the roles are taken as they are spelled
KeepSpellings(source) ==
  IF source.role = Undefined \/ source.role \in Range(source.roles) THEN source
  ELSE [source EXCEPT !.roles = Append(@, source.role)]

\* role is one of roles, and all are role codes
NormalizeAuthContext(source) ==
  LET role == IF source.role = Undefined THEN Undefined ELSE NormalizeRoleCode(source.role)
      roles == [k \in DOMAIN source.roles |-> NormalizeRoleCode(source.roles[k])]
  IN [source EXCEPT !.role = role,
       !.roles = IF role = Undefined \/ role \in Range(roles) THEN roles
                 ELSE Append(roles, role)]

\* the role codes that RolesGuard looks at
RolesOf(person) == {NormalizeRoleCode(s).code : s \in Range(person.roles)}

\* the user's role before the other roles
Candidates(person) ==
  (IF person.role = Undefined THEN <<>> ELSE <<person.role>>) \o person.roles

IsDepartmentManager(person) ==
  LET held == {NormalizeRoleCode(s).code : s \in Range(Candidates(person))}
  IN "MANAGER" \in held /\ held \cap {"ADMIN", "SUPER_ADMIN"} = {}

\* the first role that the core knows
ResolveUserRole(person) ==
  LET candidates == Candidates(person)
      usable == {k \in DOMAIN candidates : NormalizeRole(candidates[k]) # Undefined}
  IN IF usable = {} THEN Undefined ELSE NormalizeRole(candidates[Min(usable)])

=============================================================================
