------------------------------ MODULE Catalog ------------------------------
(***************************************************************************)
(* ServicesService (src/catalog/services.service.ts): the catalog tree of   *)
(* categories and bookable services, kept in memory.  Two system categories *)
(* are its roots; every other node hangs below a category.  One action per  *)
(* request that changes the tree; a rejected request changes nothing and is *)
(* not an action, except for the update that fails half way.                *)
(*                                                                         *)
(* A code is an atom.  Names, descriptions and timestamps are left out: no  *)
(* decision of the service reads them.                                      *)
(***************************************************************************)
EXTENDS Store

CONSTANTS
  VS, TS,        \* the codes of the two system root categories
  CodeInputs,    \* the codes a request may give; an update may leave it out
                 \* (Undefined), and @IsOptional() lets its null through too
  TypeInputs,    \* the node types a request may give, Null and Undefined too
  ParentInputs,  \* the parent ids a request may give, Null and Undefined too
  ActiveInputs,  \* the isActive a request may give, Null and Undefined too
  MaxServiceId   \* bound: the highest id the service issues

\* the validated enum; a null passes @IsOptional() and is stored as it is
ServiceNodeType == {"CATEGORY", "SERVICE"}
NodeType == ServiceNodeType \cup {Null}

ASSUME CatalogAssumption ==
  /\ VS # TS /\ {VS, TS} \cap {Undefined, Null} = {}
  /\ Null \notin ServiceNodeType /\ Undefined \notin ServiceNodeType
  /\ TypeInputs \subseteq NodeType \cup {Undefined}
  /\ ActiveInputs \subseteq BOOLEAN \cup {Null, Undefined}
  /\ MaxServiceId \in Nat /\ MaxServiceId >= 2

VARIABLES
  services,      \* the nodes, by id
  nextServiceId,
  serviceTrail   \* the newest audited state of each node

catalogVars == <<services, nextServiceId, serviceTrail>>

Codes == {VS, TS} \cup (CodeInputs \ {Undefined})
ServiceEntity ==
  [code: Codes, type: NodeType, parentId: Nat \cup {Null},
   isSystem: BOOLEAN, isActive: BOOLEAN]
UpdateServiceDto ==
  [code: CodeInputs, type: TypeInputs, parentId: ParentInputs, isActive: ActiveInputs]

\* the constructor's seedRootCategories(), which writes no audit record
RootCategory(code) ==
  [code |-> code, type |-> "CATEGORY", parentId |-> Null,
   isSystem |-> TRUE, isActive |-> TRUE]

CatalogInit ==
  /\ services = [i \in 1..2 |-> RootCategory(IF i = 1 THEN VS ELSE TS)]
  /\ nextServiceId = 3
  /\ serviceTrail = [i \in {} |-> RootCategory(VS)]

----------------------------------------------------------------------------
(* The checks *)

IsService(s) == s \in DOMAIN services /\ services[s].type = "SERVICE"

HasChildren(i) == \E c \in DOMAIN services : services[c].parentId = i

CodeIsUnique(code, excluded) ==
  \A s \in DOMAIN services \ {excluded} : services[s].code # code

CategoryParent(p) == p \in DOMAIN services /\ services[p].type = "CATEGORY"

\* a set of nodes that holds the parent of every member that has one
UpwardClosed(S) ==
  \A x \in S : services[x].parentId \in DOMAIN services => services[x].parentId \in S

\* mutant: the walk stops after its first step
IsParent(p, i) == services[p].parentId = i

(***************************************************************************)
(* Walking up from p, some node has i as its parent: the nodes the walk     *)
(* visits are the least upward closed set that holds p.                     *)
(***************************************************************************)
IsDescendant(p, i) ==
  \A S \in SUBSET DOMAIN services :
    (p \in S /\ UpwardClosed(S)) => \E x \in S : services[x].parentId = i

\* mutant: a move is not checked against the descendants of the node
ParentAcceptableAnywhere(i, p) == p = Undefined \/ (CategoryParent(p) /\ p # i)

ParentAcceptable(i, p) ==
  \/ p = Undefined
  \/ /\ CategoryParent(p)
     /\ p # i
     /\ ~IsDescendant(p, i)

ChangesProtectedField(item, dto) ==
  \/ dto.code \notin {Undefined, item.code}
  \/ dto.type \notin {Undefined, item.type}
  \/ dto.parentId # Undefined
  \/ dto.isActive \notin {Undefined, item.isActive}

\* mutant: a category with children may become a service
NodeCanBeUpdatedWithChildren(i, dto) ==
  /\ ~(services[i].isSystem /\ ChangesProtectedField(services[i], dto))
  /\ dto.parentId # i

NodeCanBeUpdated(i, dto) ==
  /\ ~(services[i].isSystem /\ ChangesProtectedField(services[i], dto))
  /\ ~(dto.type = "SERVICE" /\ HasChildren(i))
  /\ dto.parentId # i

\* mutant: an update does not look for its code elsewhere
UpdateAcceptedAnyCode(i, dto) == NodeCanBeUpdated(i, dto)

UpdateAccepted(i, dto) ==
  /\ NodeCanBeUpdated(i, dto)
  /\ dto.code # Undefined => CodeIsUnique(dto.code, i)

----------------------------------------------------------------------------
(* The requests *)

CreateService(code, type, parentId, isActive) ==
  LET item == [code |-> code,
               type |-> Given(type, "CATEGORY"),
               parentId |-> parentId,
               isSystem |-> FALSE,
               isActive |-> Coalesce(isActive, TRUE)]
  IN /\ nextServiceId <= MaxServiceId
     /\ CategoryParent(parentId)
     /\ CodeIsUnique(code, Undefined)
     /\ services' = With(services, nextServiceId, item)
     /\ serviceTrail' = RecordAfter(serviceTrail, nextServiceId, item)
     /\ nextServiceId' = nextServiceId + 1

\* mutant: isActive is assigned before the parent is resolved
ActivityAssignedToo(item, dto) ==
  [item EXCEPT !.code = Given(dto.code, @), !.type = Given(dto.type, @),
               !.isActive = GivenFlag(dto.isActive, @)]

\* what an update has assigned by the time it resolves the new parent
AssignedBeforeParent(item, dto) ==
  [item EXCEPT !.code = Given(dto.code, @), !.type = Given(dto.type, @)]

UpdateService(i, dto) ==
  LET item == [AssignedBeforeParent(services[i], dto) EXCEPT
                 !.parentId = Given(dto.parentId, @),
                 !.isActive = GivenFlag(dto.isActive, @)]
  IN /\ UpdateAccepted(i, dto)
     /\ ParentAcceptable(i, dto.parentId)
     /\ services' = With(services, i, item)
     /\ serviceTrail' = RecordAfter(serviceTrail, i, item)
     /\ UNCHANGED nextServiceId

(***************************************************************************)
(* The parent is resolved after code and type were written to the live      *)
(* node: when resolveParentIdForUpdate throws, they stay written, the rest  *)
(* of the update is skipped, and no audit record is made.                   *)
(***************************************************************************)
UpdateServiceFailsOnParent(i, dto) ==
  /\ UpdateAccepted(i, dto)
  /\ ~ParentAcceptable(i, dto.parentId)
  /\ services' = With(services, i, AssignedBeforeParent(services[i], dto))
  /\ UNCHANGED <<nextServiceId, serviceTrail>>

\* mutant: the removal is not recorded
RemoveServiceUnrecorded(i) ==
  /\ ~services[i].isSystem
  /\ ~HasChildren(i)
  /\ services' = Without(services, i)
  /\ UNCHANGED <<nextServiceId, serviceTrail>>

RemoveService(i) ==
  /\ ~services[i].isSystem
  /\ ~HasChildren(i)
  /\ services' = Without(services, i)
  /\ serviceTrail' = RecordRemoval(serviceTrail, i)
  /\ UNCHANGED nextServiceId

CatalogNext ==
  \/ \E code \in CodeInputs \ {Undefined, Null}, type \in TypeInputs,
        parentId \in ParentInputs, isActive \in ActiveInputs :
       CreateService(code, type, parentId, isActive)
  \/ \E i \in DOMAIN services :
       \/ \E dto \in UpdateServiceDto : UpdateService(i, dto)
       \/ \E dto \in UpdateServiceDto : UpdateServiceFailsOnParent(i, dto)
       \/ RemoveService(i)

CatalogSpec == CatalogInit /\ [][CatalogNext]_catalogVars

----------------------------------------------------------------------------
(* What the catalog promises *)

\* The nodes are well-formed rows under ids the service has issued, and the
\* audited states are those of existing nodes.
CatalogTypeOK ==
  /\ nextServiceId \in 3..(MaxServiceId + 1)
  /\ DOMAIN services \subseteq 1..(nextServiceId - 1)
  /\ services \in [DOMAIN services -> ServiceEntity]
  /\ DOMAIN serviceTrail \subseteq DOMAIN services
  /\ serviceTrail \in [DOMAIN serviceTrail -> ServiceEntity]

\* Every parent exists, and only the system roots have none.
ParentsExist ==
  \A i \in DOMAIN services :
    /\ services[i].parentId = Null <=> services[i].isSystem
    /\ services[i].parentId \in DOMAIN services \cup {Null}

\* No set of nodes is closed under "has its parent in the set": no cycles.
Acyclic ==
  \A S \in SUBSET DOMAIN services :
    S # {} => \E x \in S : services[x].parentId \notin S

\* The catalog is a forest under the two system roots, whatever the order in
\* which nodes are created, moved, converted and removed.
Forest ==
  /\ {1, 2} \subseteq DOMAIN services
  /\ \A i \in DOMAIN services : services[i].isSystem <=> i \in {1, 2}
  /\ ParentsExist
  /\ Acyclic

\* Nothing hangs below a bookable service, although services and categories
\* can be converted into one another and moved in one request.
ServicesAreLeaves == \A s \in DOMAIN services : IsService(s) => ~HasChildren(s)

\* No two nodes share a code, across creation, renaming and half-done updates.
UniqueCodes ==
  \A i, j \in DOMAIN services : services[i].code = services[j].code => i = j

\* The place and the activity of a node are never ahead of its audit record:
\* whatever an update leaves behind when it fails, it is neither of those.
PlacementAudited ==
  /\ \A i \in DOMAIN services : services[i].isSystem \/ i \in DOMAIN serviceTrail
  /\ \A i \in DOMAIN serviceTrail :
       /\ serviceTrail[i].parentId = services[i].parentId
       /\ serviceTrail[i].isActive = services[i].isActive

(***************************************************************************)
(* The loop of isDescendant, step by step: up[n] is where the walk from p   *)
(* stands after n steps, as long as it stands on a node.                    *)
(***************************************************************************)
Walk(p) ==
  LET up[n \in 0..MaxServiceId] ==
        IF n = 0 THEN p
        ELSE IF up[n - 1] \in DOMAIN services THEN services[up[n - 1]].parentId
        ELSE Null
  IN up

\* From every node the loop of isDescendant ends, and it answers whether the
\* item is above the candidate parent.
DescendantWalk ==
  \A p \in DOMAIN services :
    /\ \E n \in 0..MaxServiceId : Walk(p)[n] = Null
    /\ \A i \in DOMAIN services :
         IsDescendant(p, i) <=> \E n \in 1..MaxServiceId : Walk(p)[n] = i

----------------------------------------------------------------------------
(* What the texts of the repository say and the code does not keep *)

\* "Parent node must be a category" (services.service.ts:164)
ParentsAreCategories ==
  \A i \in DOMAIN services :
    services[i].parentId = Null \/ CategoryParent(services[i].parentId)

\* "in-memory audit log for directory changes" (README.md:10): replaying the
\* log gives the nodes as they are.
CatalogAudited == \A i \in DOMAIN serviceTrail : serviceTrail[i] = services[i]

=============================================================================
