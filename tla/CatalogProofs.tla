--------------------------- MODULE CatalogProofs ---------------------------
(***************************************************************************)
(* The catalog stays a well-typed forest under its two system roots, for    *)
(* every set of codes, every set of inputs and every bound on the ids; and   *)
(* the loop of isDescendant ends on it and answers what IsDescendant says.   *)
(*                                                                         *)
(* Acyclicity is about parents alone, so the three ways a request changes   *)
(* the parents (a new leaf, a removed leaf, a move) are lemmas about two    *)
(* tables; the proof of each action cites one of them.                      *)
(***************************************************************************)
EXTENDS Catalog, FiniteSetTheorems, TLAPS

\* Acyclic, for any table of nodes
AcyclicIn(nodes) ==
  \A S \in SUBSET DOMAIN nodes :
    S # {} => \E x \in S : nodes[x].parentId \notin S

\* Adding a node below an existing one closes no cycle, if no node has the
\* new id as its parent yet.
LEMMA NewLeafAcyclic ==
  ASSUME NEW old, NEW new, NEW n,
         AcyclicIn(old),
         n \notin DOMAIN old,
         DOMAIN new = DOMAIN old \cup {n},
         \A x \in DOMAIN old : new[x].parentId = old[x].parentId,
         \A x \in DOMAIN old : old[x].parentId # n,
         new[n].parentId # n
  PROVE  AcyclicIn(new)
<1> SUFFICES ASSUME NEW S \in SUBSET DOMAIN new, S # {}
             PROVE  \E x \in S : new[x].parentId \notin S
  BY DEF AcyclicIn
<1>1. CASE S = {n}
  BY <1>1
<1>2. CASE S # {n}
  <2> DEFINE T == S \ {n}
  <2>1. T \in SUBSET DOMAIN old /\ T # {}
    BY <1>2
  <2>2. PICK x \in T : old[x].parentId \notin T
    BY <2>1 DEF AcyclicIn
  <2>3. x \in S /\ new[x].parentId \notin S
    BY <2>1, <2>2
  <2> QED
    BY <2>3
<1> QED
  BY <1>1, <1>2

\* Taking nodes away opens no cycle.
LEMMA FewerAcyclic ==
  ASSUME NEW old, NEW new,
         AcyclicIn(old),
         DOMAIN new \subseteq DOMAIN old,
         \A x \in DOMAIN new : new[x].parentId = old[x].parentId
  PROVE  AcyclicIn(new)
  BY DEF AcyclicIn

\* Moving i below p closes no cycle if the walk up from p does not meet i:
\* a cycle after the move would leave, without i, a cycle before it inside
\* the nodes that the walk visits.
LEMMA MoveAcyclic ==
  ASSUME NEW old, NEW new, NEW i, NEW p,
         AcyclicIn(old),
         DOMAIN new = DOMAIN old,
         p # i,
         \A x \in DOMAIN old \ {i} : new[x].parentId = old[x].parentId,
         new[i].parentId = p,
         NEW U \in SUBSET DOMAIN old,
         p \in U,
         \A x \in U : old[x].parentId \in DOMAIN old => old[x].parentId \in U,
         \A x \in U : old[x].parentId # i
  PROVE  AcyclicIn(new)
<1> SUFFICES ASSUME NEW S \in SUBSET DOMAIN old, S # {},
                    \A x \in S : new[x].parentId \in S
             PROVE  FALSE
  BY DEF AcyclicIn
<1>1. CASE i \notin S
  BY <1>1 DEF AcyclicIn
<1>2. CASE i \in S
  <2> DEFINE T == (S \cap U) \ {i}
  <2>1. p \in T
    BY <1>2
  <2>2. ASSUME NEW x \in T
        PROVE  old[x].parentId \in T
    <3>1. old[x].parentId \in S
      BY <2>2
    <3>2. old[x].parentId \in U /\ old[x].parentId # i
      BY <2>2, <3>1
    <3> QED
      BY <3>1, <3>2
  <2> QED
    BY <2>1, <2>2 DEF AcyclicIn
<1> QED
  BY <1>1, <1>2

----------------------------------------------------------------------------
(* The inductive invariant: types and forest need each other, since a new   *)
(* id is unknown to every node only because parents exist.                  *)

CatalogIInv == CatalogTypeOK /\ Forest

LEMMA CatalogInitInv == CatalogInit => CatalogIInv
<1> SUFFICES ASSUME CatalogInit PROVE CatalogIInv
  OBVIOUS
<1> USE CatalogAssumption, AbsentValues
<1>1. /\ DOMAIN services = {1, 2}
      /\ services[1] = RootCategory(VS) /\ services[2] = RootCategory(TS)
  BY DEF CatalogInit
<1>2. RootCategory(VS) \in ServiceEntity /\ RootCategory(TS) \in ServiceEntity
  BY DEF RootCategory, ServiceEntity, Codes, NodeType, ServiceNodeType
<1>3. CatalogTypeOK
  <2>1. services \in [DOMAIN services -> ServiceEntity]
    BY <1>1, <1>2 DEF CatalogInit
  <2>2. DOMAIN serviceTrail = {} /\ serviceTrail \in [{} -> ServiceEntity]
    BY DEF CatalogInit
  <2> QED
    BY <1>1, <2>1, <2>2 DEF CatalogTypeOK, CatalogInit
<1>4. Forest
  BY <1>1 DEF Forest, ParentsExist, Acyclic, RootCategory
<1> QED
  BY <1>3, <1>4 DEF CatalogIInv

\* A category parent is a node, and its id is a natural number.
LEMMA ParentIsNode ==
  ASSUME CatalogIInv, NEW p, CategoryParent(p)
  PROVE  p \in DOMAIN services /\ p \in Nat /\ p # Null
  BY CatalogAssumption, AbsentValues DEF CatalogIInv, CatalogTypeOK, CategoryParent

\* Creating a node adds a leaf under an unused id.
LEMMA CreateServiceInv ==
  ASSUME CatalogIInv,
         NEW code \in CodeInputs \ {Undefined}, NEW type \in TypeInputs,
         NEW parentId \in ParentInputs, NEW isActive \in ActiveInputs,
         CreateService(code, type, parentId, isActive)
  PROVE  CatalogIInv'
<1> DEFINE n == nextServiceId
           item == [code |-> code, type |-> Given(type, "CATEGORY"),
                    parentId |-> parentId, isSystem |-> FALSE,
                    isActive |-> Coalesce(isActive, TRUE)]
<1>1. /\ n \in Nat /\ n >= 3 /\ n <= MaxServiceId
      /\ n \notin DOMAIN services /\ n \notin DOMAIN serviceTrail
      /\ CategoryParent(parentId)
      /\ nextServiceId' = n + 1
  BY CatalogAssumption DEF CatalogIInv, CatalogTypeOK, CreateService
<1>stored. /\ services' = With(services, n, item)
      /\ serviceTrail' = With(serviceTrail, n, item)
  BY DEF CreateService, RecordAfter
<1>2. parentId \in DOMAIN services /\ parentId \in Nat /\ parentId # Null /\ parentId # n
  BY <1>1, ParentIsNode
<1>3. item \in ServiceEntity
  <2>1. Given(type, "CATEGORY") \in NodeType
    BY CatalogAssumption DEF Given, NodeType, ServiceNodeType
  <2>2. Coalesce(isActive, TRUE) \in BOOLEAN
    BY CatalogAssumption DEF Coalesce
  <2> QED
    BY <1>2, <2>1, <2>2 DEF ServiceEntity, Codes
<1>4. /\ DOMAIN services' = DOMAIN services \cup {n}
      /\ services'[n] = item
      /\ \A x \in DOMAIN services : services'[x] = services[x]
  BY <1>1, <1>stored DEF With
<1>5. CatalogTypeOK'
  <2>1. services' \in [DOMAIN services' -> ServiceEntity]
    BY <1>stored, <1>3 DEF With, CatalogIInv, CatalogTypeOK
  <2>2. /\ serviceTrail' \in [DOMAIN serviceTrail' -> ServiceEntity]
        /\ DOMAIN serviceTrail' = DOMAIN serviceTrail \cup {n}
    BY <1>stored, <1>3 DEF With, CatalogIInv, CatalogTypeOK
  <2>3. DOMAIN serviceTrail' \subseteq DOMAIN services'
    BY <1>4, <2>2 DEF CatalogIInv, CatalogTypeOK
  <2>4. DOMAIN services' \subseteq 1..(nextServiceId' - 1)
    BY <1>1, <1>4 DEF CatalogIInv, CatalogTypeOK
  <2>5. nextServiceId' \in 3..(MaxServiceId + 1)
    BY <1>1, CatalogAssumption
  <2> QED
    BY <2>1, <2>2, <2>3, <2>4, <2>5 DEF CatalogTypeOK
<1>6. Acyclic'
  <2>1. \A x \in DOMAIN services : services[x].parentId # n
    BY <1>1, AbsentValues DEF CatalogIInv, Forest, ParentsExist
  <2>2. AcyclicIn(services)
    BY DEF CatalogIInv, Forest, Acyclic, AcyclicIn
  <2>3. AcyclicIn(services')
    BY <1>1, <1>2, <1>4, <2>1, <2>2, NewLeafAcyclic
  <2> QED
    BY <2>3 DEF Acyclic, AcyclicIn
<1>7. Forest'
  BY <1>1, <1>2, <1>4, <1>6 DEF CatalogIInv, Forest, ParentsExist
<1> QED
  BY <1>5, <1>7 DEF CatalogIInv

\* What both outcomes of an update leave of a node: its flags and, unless it
\* was moved, its place.
LEMMA UpdatedRow ==
  ASSUME CatalogIInv, NEW i \in DOMAIN services, NEW dto \in UpdateServiceDto
  PROVE  LET item == AssignedBeforeParent(services[i], dto)
         IN /\ item \in ServiceEntity
            /\ item.parentId = services[i].parentId
            /\ item.isSystem = services[i].isSystem
<1>1. services[i] \in ServiceEntity
  BY DEF CatalogIInv, CatalogTypeOK
<1>2. Given(dto.code, services[i].code) \in Codes
  BY <1>1 DEF UpdateServiceDto, Given, ServiceEntity, Codes
<1>3. Given(dto.type, services[i].type) \in NodeType
  BY <1>1, CatalogAssumption DEF UpdateServiceDto, Given, ServiceEntity
<1> QED
  BY <1>1, <1>2, <1>3 DEF AssignedBeforeParent, ServiceEntity

\* The types survive a change of one row in place, audited or not.
LEMMA ChangeInPlaceTypes ==
  ASSUME CatalogIInv, NEW i \in DOMAIN services, NEW item \in ServiceEntity,
         services' = With(services, i, item),
         serviceTrail' \in {serviceTrail, With(serviceTrail, i, item)},
         nextServiceId' = nextServiceId
  PROVE  /\ CatalogTypeOK'
         /\ DOMAIN services' = DOMAIN services
         /\ services'[i] = item
         /\ \A x \in DOMAIN services \ {i} : services'[x] = services[x]
<1>1. /\ DOMAIN services' = DOMAIN services
      /\ services'[i] = item
      /\ \A x \in DOMAIN services \ {i} : services'[x] = services[x]
  BY DEF With
<1>2. services' \in [DOMAIN services' -> ServiceEntity]
  BY DEF With, CatalogIInv, CatalogTypeOK
<1>3. /\ serviceTrail' \in [DOMAIN serviceTrail' -> ServiceEntity]
      /\ DOMAIN serviceTrail' \subseteq DOMAIN serviceTrail \cup {i}
  BY DEF With, CatalogIInv, CatalogTypeOK
<1> QED
  BY <1>1, <1>2, <1>3 DEF CatalogIInv, CatalogTypeOK

\* An accepted update changes one node; if it moves it, the new parent was
\* found not to be below the node.
LEMMA UpdateServiceInv ==
  ASSUME CatalogIInv, NEW i \in DOMAIN services, NEW dto \in UpdateServiceDto,
         UpdateService(i, dto)
  PROVE  CatalogIInv'
<1> DEFINE base == AssignedBeforeParent(services[i], dto)
           p == dto.parentId
           item == [base EXCEPT !.parentId = Given(dto.parentId, @),
                                !.isActive = GivenFlag(dto.isActive, @)]
<1>1. /\ UpdateAccepted(i, dto) /\ ParentAcceptable(i, p)
      /\ services' = With(services, i, item)
      /\ serviceTrail' = With(serviceTrail, i, item)
      /\ nextServiceId' = nextServiceId
  BY DEF UpdateService, RecordAfter
<1>2. /\ base \in ServiceEntity
      /\ base.parentId = services[i].parentId
      /\ base.isSystem = services[i].isSystem
  BY UpdatedRow
<1>3. p # Undefined => p \in DOMAIN services /\ p \in Nat /\ p # Null /\ p # i
  BY <1>1, ParentIsNode DEF ParentAcceptable
<1>4. /\ item \in ServiceEntity
      /\ item.isSystem = services[i].isSystem
      /\ item.parentId = IF p = Undefined THEN services[i].parentId ELSE p
  <2>1. GivenFlag(dto.isActive, base.isActive) \in BOOLEAN
    BY <1>2 DEF GivenFlag, ServiceEntity
  <2>2. Given(p, base.parentId) \in Nat \cup {Null}
    BY <1>2, <1>3 DEF Given, ServiceEntity
  <2> QED
    BY <1>2, <2>1, <2>2 DEF ServiceEntity, Given
<1>5. /\ CatalogTypeOK'
      /\ DOMAIN services' = DOMAIN services
      /\ services'[i] = item
      /\ \A x \in DOMAIN services \ {i} : services'[x] = services[x]
  BY <1>1, <1>4, ChangeInPlaceTypes
<1>6. CASE p = Undefined
  <2>1. \A x \in DOMAIN services : services'[x].parentId = services[x].parentId
                                /\ services'[x].isSystem = services[x].isSystem
    BY <1>4, <1>5, <1>6
  <2>2. AcyclicIn(services')
    BY <1>5, <2>1, FewerAcyclic DEF CatalogIInv, Forest, Acyclic, AcyclicIn
  <2>3. Forest'
    BY <1>5, <2>1, <2>2 DEF CatalogIInv, Forest, ParentsExist, Acyclic, AcyclicIn
  <2> QED
    BY <1>5, <2>3 DEF CatalogIInv
<1>7. CASE p # Undefined
  <2>0. DOMAIN services' = DOMAIN services
    BY <1>5
  <2>1. ~services[i].isSystem
    BY <1>1, <1>7 DEF UpdateAccepted, NodeCanBeUpdated, ChangesProtectedField
  <2>2. PICK U \in SUBSET DOMAIN services :
          /\ p \in U /\ UpwardClosed(U)
          /\ \A x \in U : services[x].parentId # i
    BY <1>1, <1>7 DEF ParentAcceptable, IsDescendant
  <2>3. AcyclicIn(services)
    BY DEF CatalogIInv, Forest, Acyclic, AcyclicIn
  <2>4. AcyclicIn(services')
    <3>1. services'[i].parentId = p
      BY <1>4, <1>5, <1>7
    <3>2. \A x \in DOMAIN services \ {i} : services'[x].parentId = services[x].parentId
      BY <1>5
    <3>3. \A x \in U : services[x].parentId \in DOMAIN services => services[x].parentId \in U
      BY <2>2 DEF UpwardClosed
    <3> QED
      BY <1>3, <1>7, <2>0, <2>2, <2>3, <3>1, <3>2, <3>3, MoveAcyclic
  <2>5. /\ services'[i].parentId = p
        /\ \A x \in DOMAIN services \ {i} : services'[x].parentId = services[x].parentId
        /\ \A x \in DOMAIN services : services'[x].isSystem = services[x].isSystem
    BY <1>4, <1>5, <1>7
  <2>6. Forest'
    BY <1>3, <1>7, <2>0, <2>1, <2>4, <2>5
       DEF CatalogIInv, Forest, ParentsExist, Acyclic, AcyclicIn
  <2> QED
    BY <1>5, <2>6 DEF CatalogIInv
<1> QED
  BY <1>6, <1>7

\* An update that fails on its parent moves nothing.
LEMMA UpdateServiceFailsOnParentInv ==
  ASSUME CatalogIInv, NEW i \in DOMAIN services, NEW dto \in UpdateServiceDto,
         UpdateServiceFailsOnParent(i, dto)
  PROVE  CatalogIInv'
<1> DEFINE item == AssignedBeforeParent(services[i], dto)
<1>1. /\ services' = With(services, i, item)
      /\ serviceTrail' = serviceTrail
      /\ nextServiceId' = nextServiceId
  BY DEF UpdateServiceFailsOnParent
<1>2. /\ item \in ServiceEntity
      /\ item.parentId = services[i].parentId
      /\ item.isSystem = services[i].isSystem
  BY UpdatedRow
<1>3. /\ CatalogTypeOK'
      /\ DOMAIN services' = DOMAIN services
      /\ services'[i] = item
      /\ \A x \in DOMAIN services \ {i} : services'[x] = services[x]
  BY <1>1, <1>2, ChangeInPlaceTypes
<1>4. \A x \in DOMAIN services : services'[x].parentId = services[x].parentId
                              /\ services'[x].isSystem = services[x].isSystem
  BY <1>2, <1>3
<1>5. AcyclicIn(services')
  BY <1>3, <1>4, FewerAcyclic DEF CatalogIInv, Forest, Acyclic, AcyclicIn
<1>6. Forest'
  BY <1>3, <1>4, <1>5 DEF CatalogIInv, Forest, ParentsExist, Acyclic, AcyclicIn
<1> QED
  BY <1>3, <1>6 DEF CatalogIInv

\* Only a node without children is removed, so no parent goes missing.
LEMMA RemoveServiceInv ==
  ASSUME CatalogIInv, NEW i \in DOMAIN services, RemoveService(i)
  PROVE  CatalogIInv'
<1>1. /\ ~services[i].isSystem
      /\ \A x \in DOMAIN services : services[x].parentId # i
      /\ services' = Without(services, i)
      /\ serviceTrail' = Without(serviceTrail, i)
      /\ nextServiceId' = nextServiceId
  BY DEF RemoveService, RecordRemoval, HasChildren
<1>2. /\ DOMAIN services' = DOMAIN services \ {i}
      /\ \A x \in DOMAIN services' : services'[x] = services[x]
      /\ DOMAIN serviceTrail' = DOMAIN serviceTrail \ {i}
  BY <1>1 DEF Without, Restrict
<1>3. /\ services' \in [DOMAIN services' -> ServiceEntity]
      /\ serviceTrail' \in [DOMAIN serviceTrail' -> ServiceEntity]
  BY <1>1 DEF Without, Restrict, CatalogIInv, CatalogTypeOK
<1>4. CatalogTypeOK'
  BY <1>1, <1>2, <1>3 DEF CatalogIInv, CatalogTypeOK
<1>5. AcyclicIn(services')
  BY <1>2, FewerAcyclic DEF CatalogIInv, Forest, Acyclic, AcyclicIn
<1>6. Forest'
  BY <1>1, <1>2, <1>5 DEF CatalogIInv, Forest, ParentsExist, Acyclic, AcyclicIn
<1> QED
  BY <1>4, <1>6 DEF CatalogIInv

\* Every step of the catalog preserves the invariant.
LEMMA CatalogNextInv == CatalogIInv /\ [CatalogNext]_catalogVars => CatalogIInv'
<1> SUFFICES ASSUME CatalogIInv, [CatalogNext]_catalogVars PROVE CatalogIInv'
  OBVIOUS
<1>1. ASSUME NEW code \in CodeInputs \ {Undefined}, NEW type \in TypeInputs,
             NEW parentId \in ParentInputs, NEW isActive \in ActiveInputs,
             CreateService(code, type, parentId, isActive)
      PROVE  CatalogIInv'
  BY <1>1, CreateServiceInv
<1>2. ASSUME NEW i \in DOMAIN services, NEW dto \in UpdateServiceDto, UpdateService(i, dto)
      PROVE  CatalogIInv'
  BY <1>2, UpdateServiceInv
<1>3. ASSUME NEW i \in DOMAIN services, NEW dto \in UpdateServiceDto,
             UpdateServiceFailsOnParent(i, dto)
      PROVE  CatalogIInv'
  BY <1>3, UpdateServiceFailsOnParentInv
<1>4. ASSUME NEW i \in DOMAIN services, RemoveService(i)
      PROVE  CatalogIInv'
  BY <1>4, RemoveServiceInv
<1>5. CASE UNCHANGED catalogVars
  BY <1>5 DEF catalogVars, CatalogIInv, CatalogTypeOK, Forest, ParentsExist, Acyclic
<1> QED
  BY <1>1, <1>2, <1>3, <1>4, <1>5 DEF CatalogNext

\* The catalog only ever holds well-formed nodes under issued ids.
THEOREM CatalogTypeCorrect == CatalogSpec => []CatalogTypeOK
<1>1. CatalogIInv => CatalogTypeOK
  BY DEF CatalogIInv
<1> QED
  BY <1>1, CatalogInitInv, CatalogNextInv, PTL DEF CatalogSpec

\* No sequence of creations, moves, conversions, removals and updates failing
\* half way takes the catalog out of a forest under its two system roots, so
\* the walk up in isDescendant always ends.
THEOREM CatalogForest == CatalogSpec => []Forest
<1>1. CatalogIInv => Forest
  BY DEF CatalogIInv
<1> QED
  BY <1>1, CatalogInitInv, CatalogNextInv, PTL DEF CatalogSpec

----------------------------------------------------------------------------
(* What else the rows promise.  These follow from each request's own guards  *)
(* once the rows are well formed.                                           *)

CatalogRows == ServicesAreLeaves /\ UniqueCodes /\ PlacementAudited

\* A change of one node keeps services childless and codes apart: it has been
\* looked for children if it becomes a service, and goes below a category.
LEMMA ChangedNode ==
  ASSUME CatalogIInv, CatalogRows, NEW i \in DOMAIN services, NEW dto, UpdateAccepted(i, dto),
         NEW item, services' = With(services, i, item),
         item.type = Given(dto.type, services[i].type),
         item.code = Given(dto.code, services[i].code),
         \/ item.parentId = services[i].parentId
         \/ CategoryParent(item.parentId) /\ item.parentId # i
  PROVE  ServicesAreLeaves' /\ UniqueCodes'
<1>1. /\ DOMAIN services' = DOMAIN services
      /\ services'[i] = item
      /\ \A x \in DOMAIN services \ {i} : services'[x] = services[x]
  BY DEF With
<1>2. UniqueCodes'
  BY <1>1 DEF CatalogRows, UniqueCodes, UpdateAccepted, CodeIsUnique, Given
<1>3. ASSUME NEW s \in DOMAIN services, NEW c \in DOMAIN services,
             services'[s].type = "SERVICE", services'[c].parentId = s
      PROVE  FALSE
  <2>1. services[s].type = "SERVICE" => \A x \in DOMAIN services : services[x].parentId # s
    BY DEF CatalogRows, ServicesAreLeaves, IsService, HasChildren
  <2>2. s = i /\ services[i].type # "SERVICE" => \A x \in DOMAIN services : services[x].parentId # i
    BY <1>1, <1>3 DEF UpdateAccepted, NodeCanBeUpdated, HasChildren, Given
  <2>3. \A x \in DOMAIN services : services[x].parentId # s
    BY <1>1, <1>3, <2>1, <2>2
  <2>4. c = i /\ CategoryParent(s) /\ s # i
    BY <1>1, <1>3, <2>3
  <2> QED
    BY <1>1, <1>3, <2>4 DEF CategoryParent
<1>4. ServicesAreLeaves'
  BY <1>1, <1>3 DEF ServicesAreLeaves, IsService, HasChildren
<1> QED
  BY <1>2, <1>4

LEMMA CreateServiceRows ==
  ASSUME CatalogIInv, CatalogRows,
         NEW code \in CodeInputs \ {Undefined}, NEW type \in TypeInputs,
         NEW parentId \in ParentInputs, NEW isActive \in ActiveInputs,
         CreateService(code, type, parentId, isActive)
  PROVE  CatalogRows'
<1>0. PICK n : n = nextServiceId
  OBVIOUS
<1>1. PICK item : /\ services' = With(services, n, item)
                  /\ serviceTrail' = With(serviceTrail, n, item)
                  /\ item.code = code /\ item.parentId = parentId
  BY <1>0 DEF CreateService, RecordAfter
<1>2. /\ n \in Nat /\ n \notin DOMAIN services /\ n \notin DOMAIN serviceTrail
      /\ CategoryParent(parentId) /\ CodeIsUnique(code, Undefined)
  BY <1>0, CatalogAssumption DEF CatalogIInv, CatalogTypeOK, CreateService
<1>3. /\ DOMAIN services' = DOMAIN services \cup {n} /\ services'[n] = item
      /\ \A x \in DOMAIN services : services'[x] = services[x]
      /\ DOMAIN serviceTrail' = DOMAIN serviceTrail \cup {n} /\ serviceTrail'[n] = item
      /\ \A x \in DOMAIN serviceTrail : serviceTrail'[x] = serviceTrail[x]
  BY <1>1, <1>2 DEF With
<1>4. \A x \in DOMAIN services : services[x].parentId # n
  BY <1>2, AbsentValues DEF CatalogIInv, Forest, ParentsExist
<1>5. Undefined \notin DOMAIN services
  BY AbsentValues, CatalogAssumption DEF CatalogIInv, CatalogTypeOK
<1>6. UniqueCodes'
  BY <1>1, <1>2, <1>3, <1>5 DEF CatalogRows, UniqueCodes, CodeIsUnique
<1>7. ServicesAreLeaves'
  BY <1>1, <1>2, <1>3, <1>4
     DEF CatalogRows, ServicesAreLeaves, IsService, HasChildren, CategoryParent
<1>8. PlacementAudited'
  BY <1>2, <1>3 DEF CatalogRows, PlacementAudited, CatalogIInv, CatalogTypeOK
<1> QED
  BY <1>6, <1>7, <1>8 DEF CatalogRows

LEMMA UpdateServiceRows ==
  ASSUME CatalogIInv, CatalogRows, NEW i \in DOMAIN services, NEW dto \in UpdateServiceDto,
         UpdateService(i, dto)
  PROVE  CatalogRows'
<1> DEFINE base == AssignedBeforeParent(services[i], dto)
           row == [base EXCEPT !.parentId = Given(dto.parentId, @),
                               !.isActive = GivenFlag(dto.isActive, @)]
<1>1. /\ UpdateAccepted(i, dto) /\ ParentAcceptable(i, dto.parentId)
      /\ services' = With(services, i, row)
      /\ serviceTrail' = With(serviceTrail, i, row)
  BY DEF UpdateService, RecordAfter
<1>2. /\ base \in ServiceEntity /\ services[i] \in ServiceEntity
      /\ base.parentId = services[i].parentId
  BY UpdatedRow DEF CatalogIInv, CatalogTypeOK
<1>3. /\ base.type = Given(dto.type, services[i].type)
      /\ base.code = Given(dto.code, services[i].code)
  BY <1>2 DEF AssignedBeforeParent, ServiceEntity
<1>4. /\ row.type = base.type /\ row.code = base.code
      /\ row.parentId = Given(dto.parentId, base.parentId)
  BY <1>2 DEF ServiceEntity
<1> HIDE DEF base, row
<1>5. \/ row.parentId = services[i].parentId
      \/ CategoryParent(row.parentId) /\ row.parentId # i
  BY <1>1, <1>2, <1>4 DEF ParentAcceptable, Given
<1>6. ServicesAreLeaves' /\ UniqueCodes'
  BY <1>1, <1>3, <1>4, <1>5, ChangedNode
<1>7. PlacementAudited'
  BY <1>1 DEF With, CatalogRows, PlacementAudited, CatalogIInv, CatalogTypeOK, Forest
<1> QED
  BY <1>6, <1>7 DEF CatalogRows

\* The half-done update has changed code and type alone.
LEMMA UpdateServiceFailsRows ==
  ASSUME CatalogIInv, CatalogRows, NEW i \in DOMAIN services, NEW dto \in UpdateServiceDto,
         UpdateServiceFailsOnParent(i, dto)
  PROVE  CatalogRows'
<1> DEFINE base == AssignedBeforeParent(services[i], dto)
<1>1. /\ UpdateAccepted(i, dto)
      /\ services' = With(services, i, base) /\ serviceTrail' = serviceTrail
  BY DEF UpdateServiceFailsOnParent
<1>2. /\ services[i] \in ServiceEntity
      /\ base.parentId = services[i].parentId /\ base.isSystem = services[i].isSystem
  BY UpdatedRow DEF CatalogIInv, CatalogTypeOK
<1>3. /\ base.type = Given(dto.type, services[i].type)
      /\ base.code = Given(dto.code, services[i].code)
      /\ base.isActive = services[i].isActive
  BY <1>2 DEF AssignedBeforeParent, ServiceEntity
<1> HIDE DEF base
<1>4. ServicesAreLeaves' /\ UniqueCodes'
  BY <1>1, <1>2, <1>3, ChangedNode
<1>5. PlacementAudited'
  BY <1>1, <1>2, <1>3 DEF With, CatalogRows, PlacementAudited, CatalogIInv, CatalogTypeOK
<1> QED
  BY <1>4, <1>5 DEF CatalogRows

LEMMA RemoveServiceRows ==
  ASSUME CatalogIInv, CatalogRows, NEW i \in DOMAIN services, RemoveService(i)
  PROVE  CatalogRows'
<1>1. /\ DOMAIN services' = DOMAIN services \ {i}
      /\ \A x \in DOMAIN services' : services'[x] = services[x]
      /\ DOMAIN serviceTrail' = DOMAIN serviceTrail \ {i}
      /\ \A x \in DOMAIN serviceTrail' : serviceTrail'[x] = serviceTrail[x]
  BY DEF RemoveService, RecordRemoval, Without, Restrict
<1>2. ServicesAreLeaves' /\ UniqueCodes'
  BY <1>1 DEF CatalogRows, ServicesAreLeaves, UniqueCodes, IsService, HasChildren
<1>3. PlacementAudited'
  BY <1>1 DEF CatalogRows, PlacementAudited, CatalogIInv, CatalogTypeOK
<1> QED
  BY <1>2, <1>3 DEF CatalogRows

LEMMA CatalogInitRows == CatalogInit => CatalogRows
<1> SUFFICES ASSUME CatalogInit PROVE CatalogRows
  OBVIOUS
<1>1. /\ DOMAIN services = {1, 2} /\ DOMAIN serviceTrail = {}
      /\ services[1] = RootCategory(VS) /\ services[2] = RootCategory(TS)
  BY DEF CatalogInit
<1> QED
  BY <1>1, CatalogAssumption, AbsentValues
     DEF RootCategory, CatalogRows, ServicesAreLeaves, UniqueCodes, PlacementAudited, IsService

LEMMA CatalogNextRows ==
  CatalogIInv /\ CatalogRows /\ [CatalogNext]_catalogVars => CatalogRows'
<1> SUFFICES ASSUME CatalogIInv, CatalogRows, [CatalogNext]_catalogVars PROVE CatalogRows'
  OBVIOUS
<1>1. CASE UNCHANGED catalogVars
  BY <1>1 DEF catalogVars, CatalogRows, ServicesAreLeaves, UniqueCodes, PlacementAudited,
              IsService, HasChildren
<1> QED
  BY <1>1, CreateServiceRows, UpdateServiceRows, UpdateServiceFailsRows, RemoveServiceRows
     DEF CatalogNext

\* Nothing ever hangs below a bookable service.
THEOREM CatalogLeaves == CatalogSpec => []ServicesAreLeaves
<1>1. CatalogRows => ServicesAreLeaves
  BY DEF CatalogRows
<1> QED
  BY <1>1, CatalogInitInv, CatalogNextInv, CatalogInitRows, CatalogNextRows, PTL DEF CatalogSpec

\* No two nodes ever share a code.
THEOREM CatalogCodes == CatalogSpec => []UniqueCodes
<1>1. CatalogRows => UniqueCodes
  BY DEF CatalogRows
<1> QED
  BY <1>1, CatalogInitInv, CatalogNextInv, CatalogInitRows, CatalogNextRows, PTL DEF CatalogSpec

\* The place and the activity of a node are as its newest audit record has them.
THEOREM CatalogPlacement == CatalogSpec => []PlacementAudited
<1>1. CatalogRows => PlacementAudited
  BY DEF CatalogRows
<1> QED
  BY <1>1, CatalogInitInv, CatalogNextInv, CatalogInitRows, CatalogNextRows, PTL DEF CatalogSpec

----------------------------------------------------------------------------
(***************************************************************************)
(* The loop of isDescendant.  Walk is a recursive function, so each fact     *)
(* about its n-th step is a set of numbers that holds 0 and, with a number,   *)
(* the next one.                                                           *)
(***************************************************************************)

\* A set that holds 0 and the successor of each number in it holds them all:
\* otherwise there would be a least one outside, and it has no predecessor.
LEMMA AllNumbers ==
  ASSUME NEW S, 0 \in S, \A n \in Nat : n \in S => n + 1 \in S
  PROVE  \A n \in Nat : n \in S
<1> DEFINE R == OpToRel(<, Nat)
           T == Nat \ S
<1>1. IsWellFoundedOn(R, Nat)
  BY NatLessThanWellFounded, Zenon
<1>2. \A m, n \in Nat : m < n => <<m, n>> \in R
  BY DEF OpToRel
<1> HIDE DEF R
<1> SUFFICES ASSUME T # {} PROVE FALSE
  OBVIOUS
<1>3. T \subseteq Nat
  OBVIOUS
<1> HIDE DEF T
<1>4. PICK k \in T : \A other \in T : ~ (<<other, k>> \in R)
  BY <1>1, <1>3, WFMin
<1> USE DEF T
<1>5. k \in Nat /\ k \notin S /\ k # 0
  OBVIOUS
<1>6. k - 1 \in Nat /\ k - 1 < k
  BY <1>5
<1>7. k - 1 \in S
  BY <1>2, <1>4, <1>5, <1>6
<1> QED
  BY <1>5, <1>6, <1>7

\* One step of the loop
StepUp(x) == IF x \in DOMAIN services THEN services[x].parentId ELSE Null

\* Walk is the function that its recursion describes: there is one.
LEMMA WalkSteps ==
  ASSUME NEW p
  PROVE  /\ Walk(p)[0] = p
         /\ \A n \in 1..MaxServiceId : Walk(p)[n] = StepUp(Walk(p)[n - 1])
<1> DEFINE Describes(f, k) ==
             f = [n \in 0..k |-> IF n = 0 THEN p
                                 ELSE IF f[n - 1] \in DOMAIN services
                                      THEN services[f[n - 1]].parentId ELSE Null]
           S == {k \in Nat : \E f : Describes(f, k)}
<1>1. 0 \in S
  <2>1. Describes([n \in 0..0 |-> p], 0)
    OBVIOUS
  <2> QED
    BY <2>1
<1>2. ASSUME NEW k \in Nat, k \in S PROVE k + 1 \in S
  <2>1. PICK f : Describes(f, k)
    BY <1>2
  <2> DEFINE g == [n \in 0..(k + 1) |-> IF n <= k THEN f[n] ELSE StepUp(f[k])]
  <2>2. /\ \A n \in 0..k : f[n] = IF n = 0 THEN p
                                  ELSE IF f[n - 1] \in DOMAIN services
                                       THEN services[f[n - 1]].parentId ELSE Null
        /\ \A n \in 0..k : g[n] = f[n]
        /\ g[k + 1] = StepUp(f[k])
        /\ g = [n \in 0..(k + 1) |-> g[n]]
    BY <2>1
  <2> HIDE DEF g
  <2>3. ASSUME NEW n \in 0..(k + 1)
        PROVE  g[n] = IF n = 0 THEN p
                      ELSE IF g[n - 1] \in DOMAIN services
                           THEN services[g[n - 1]].parentId ELSE Null
    <3>1. CASE n \in 0..k
      <4>1. n # 0 => n - 1 \in 0..k
        BY <3>1
      <4> QED
        BY <2>2, <3>1, <4>1
    <3>2. CASE n = k + 1
      <4>1. n # 0 /\ n - 1 = k /\ k \in 0..k
        BY <3>2
      <4> QED
        BY <2>2, <3>2, <4>1 DEF StepUp
    <3> QED
      BY <3>1, <3>2
  <2>4. Describes(g, k + 1)
    BY <2>2, <2>3
  <2> QED
    BY <2>4
<1>3. \A k \in Nat : k \in S
  <2> HIDE DEF S
  <2> QED
    BY <1>1, <1>2, AllNumbers
<1>4. \E f : Describes(f, MaxServiceId)
  BY <1>3, CatalogAssumption
<1> DEFINE up == CHOOSE f : Describes(f, MaxServiceId)
<1>5. Describes(up, MaxServiceId)
  BY <1>4
<1>6. Walk(p) = up
  BY DEF Walk
<1> HIDE DEF up
<1>7. \A n \in 0..MaxServiceId :
        up[n] = IF n = 0 THEN p
                ELSE IF up[n - 1] \in DOMAIN services
                     THEN services[up[n - 1]].parentId ELSE Null
  BY <1>5
<1> HIDE DEF Describes
<1> QED
  BY <1>6, <1>7, CatalogAssumption DEF StepUp

\* The walk from a node stands on nodes until it is past the root, and from then
\* on nowhere.
LEMMA WalkLeaves ==
  ASSUME CatalogIInv, NEW p \in DOMAIN services
  PROVE  /\ \A n \in 0..MaxServiceId : Walk(p)[n] \in DOMAIN services \cup {Null}
         /\ \A m, n \in 0..MaxServiceId : m <= n /\ Walk(p)[m] = Null => Walk(p)[n] = Null
<1> DEFINE W == Walk(p)
<1>1. /\ W[0] = p
      /\ \A n \in 1..MaxServiceId : W[n] = StepUp(W[n - 1])
  BY WalkSteps
<1> HIDE DEF W
<1>2. \A x : StepUp(x) \in DOMAIN services \cup {Null}
  BY DEF StepUp, CatalogIInv, Forest, ParentsExist
<1>3. StepUp(Null) = Null
  BY AbsentValues DEF StepUp, CatalogIInv, CatalogTypeOK
<1>4. ASSUME NEW n \in 0..MaxServiceId
      PROVE  W[n] \in DOMAIN services \cup {Null}
  BY <1>1, <1>2, CatalogAssumption
<1>5. ASSUME NEW m \in 0..MaxServiceId, W[m] = Null
      PROVE  \A n \in 0..MaxServiceId : m <= n => W[n] = Null
  <2> DEFINE S == {k \in Nat : m + k <= MaxServiceId => W[m + k] = Null}
  <2>1. 0 \in S
    BY <1>5
  <2>2. ASSUME NEW k \in Nat, k \in S PROVE k + 1 \in S
    <3> SUFFICES ASSUME m + (k + 1) <= MaxServiceId PROVE W[m + (k + 1)] = Null
      OBVIOUS
    <3>1. /\ m + (k + 1) \in 1..MaxServiceId /\ (m + (k + 1)) - 1 = m + k
          /\ m + k <= MaxServiceId
      BY CatalogAssumption
    <3> QED
      BY <1>1, <1>3, <2>2, <3>1
  <2>3. \A k \in Nat : k \in S
    <3> HIDE DEF S
    <3> QED
      BY <2>1, <2>2, AllNumbers
  <2> SUFFICES ASSUME NEW n \in 0..MaxServiceId, m <= n PROVE W[n] = Null
    OBVIOUS
  <2>4. n - m \in Nat /\ m + (n - m) = n
    BY CatalogAssumption
  <2> QED
    BY <2>3, <2>4, CatalogAssumption
<1> QED
  BY <1>4, <1>5 DEF W

\* The walk ends: more steps than there are ids would visit a node twice, and
\* what lies between the two visits would be a cycle.
LEMMA WalkEnds ==
  ASSUME CatalogIInv, NEW p \in DOMAIN services
  PROVE  \E n \in 0..MaxServiceId : Walk(p)[n] = Null
<1> DEFINE W == Walk(p)
           N == MaxServiceId
<1>1. /\ W[0] = p
      /\ \A n \in 1..N : W[n] = StepUp(W[n - 1])
      /\ \A n \in 0..N : W[n] \in DOMAIN services \cup {Null}
  BY WalkSteps, WalkLeaves
<1> HIDE DEF W
<1> SUFFICES ASSUME \A n \in 0..N : W[n] # Null PROVE FALSE
  BY DEF W
<1>2. \A n \in 0..N : W[n] \in DOMAIN services
  BY <1>1
<1>3. DOMAIN services \subseteq 1..N
  BY CatalogAssumption DEF CatalogIInv, CatalogTypeOK
<1>4. PICK j \in 0..N, k \in 0..N : j # k /\ W[j] = W[k]
  <2> DEFINE f == [n \in 0..N |-> W[n]]
  <2>1. N \in Nat /\ 0 \in Int /\ 1 \in Int
    BY CatalogAssumption
  <2>2. /\ IsFiniteSet(0..N) /\ Cardinality(0..N) = N + 1
        /\ IsFiniteSet(1..N) /\ Cardinality(1..N) = N
    BY <2>1, FS_Interval, CatalogAssumption
  <2>3. f \in [0..N -> 1..N]
    BY <1>2, <1>3
  <2>4. Cardinality(1..N) < Cardinality(0..N)
    BY <2>1, <2>2
  <2> HIDE DEF f
  <2>5. PICK x \in 0..N, y \in 0..N : x # y /\ f[x] = f[y]
    BY <2>2, <2>3, <2>4, FS_PigeonHole
  <2> QED
    BY <2>5 DEF f
<1>5. PICK m \in 0..N, n \in 0..N : m < n /\ W[m] = W[n]
  <2>1. j < k \/ k < j
    BY <1>4, CatalogAssumption
  <2> QED
    BY <1>4, <2>1
<1> DEFINE C == {W[i] : i \in m..(n - 1)}
<1>6. C \in SUBSET DOMAIN services /\ W[m] \in C
  BY <1>2, <1>5, CatalogAssumption
<1>7. ASSUME NEW x \in C PROVE services[x].parentId \in C
  <2>1. PICK i \in m..(n - 1) : x = W[i]
    OBVIOUS
  <2>2. i \in 0..N /\ i + 1 \in 1..N /\ (i + 1) - 1 = i
    BY CatalogAssumption
  <2>3. services[x].parentId = W[i + 1]
    BY <1>1, <1>2, <2>1, <2>2 DEF StepUp
  <2>4. i + 1 \in m..(n - 1) \/ i + 1 = n
    BY CatalogAssumption
  <2> QED
    BY <1>5, <1>6, <2>3, <2>4
<1> QED
  BY <1>6, <1>7 DEF CatalogIInv, Forest, Acyclic

\* The nodes that the walk visits are an upward closed set, and every upward
\* closed set that holds its start holds them.
LEMMA WalkAnswers ==
  ASSUME CatalogIInv, NEW p \in DOMAIN services, NEW i \in DOMAIN services
  PROVE  IsDescendant(p, i) <=> \E n \in 1..MaxServiceId : Walk(p)[n] = i
<1> DEFINE W == Walk(p)
           N == MaxServiceId
<1>1. /\ W[0] = p
      /\ \A n \in 1..N : W[n] = StepUp(W[n - 1])
      /\ \A n \in 0..N : W[n] \in DOMAIN services \cup {Null}
      /\ \A m, n \in 0..N : m <= n /\ W[m] = Null => W[n] = Null
  BY WalkSteps, WalkLeaves
<1>2. PICK e \in 0..N : W[e] = Null
  BY WalkEnds
<1> HIDE DEF W
<1>3. Null \notin DOMAIN services
  BY AbsentValues DEF CatalogIInv, CatalogTypeOK
<1>4. ASSUME NEW n \in 0..N, W[n] \in DOMAIN services
      PROVE  n + 1 \in 1..N /\ W[n + 1] = services[W[n]].parentId
  <2>1. n < e
    BY <1>1, <1>2, <1>3, <1>4, CatalogAssumption
  <2>2. n + 1 \in 1..N /\ (n + 1) - 1 = n
    BY <2>1, CatalogAssumption
  <2> QED
    BY <1>1, <1>4, <2>2 DEF StepUp
<1>5. ASSUME IsDescendant(p, i) PROVE \E n \in 1..N : W[n] = i
  <2> DEFINE S == {W[n] : n \in {m \in 0..N : W[m] \in DOMAIN services}}
  <2>1. S \in SUBSET DOMAIN services
    OBVIOUS
  <2>2. p \in S
    BY <1>1, CatalogAssumption
  <2>3. UpwardClosed(S)
    <3> SUFFICES ASSUME NEW x \in S, services[x].parentId \in DOMAIN services
                 PROVE  services[x].parentId \in S
      BY DEF UpwardClosed
    <3>1. PICK n \in 0..N : W[n] = x /\ W[n] \in DOMAIN services
      OBVIOUS
    <3>2. n + 1 \in 0..N /\ W[n + 1] = services[x].parentId
      BY <1>4, <3>1, CatalogAssumption
    <3> QED
      BY <3>2
  <2>4. PICK x \in S : services[x].parentId = i
    BY <1>5, <2>1, <2>2, <2>3 DEF IsDescendant
  <2>5. PICK n \in 0..N : W[n] = x /\ W[n] \in DOMAIN services
    OBVIOUS
  <2> QED
    BY <1>4, <2>4, <2>5
<1>6. ASSUME NEW n \in 1..N, W[n] = i PROVE IsDescendant(p, i)
  <2> SUFFICES ASSUME NEW S \in SUBSET DOMAIN services, p \in S, UpwardClosed(S)
               PROVE  \E x \in S : services[x].parentId = i
    BY DEF IsDescendant
  <2>1. ASSUME NEW k \in 0..n PROVE W[k] \in DOMAIN services
    <3>1. k \in 0..N /\ n \in 0..N /\ k <= n
      BY CatalogAssumption
    <3> QED
      BY <1>1, <1>3, <1>6, <3>1
  <2> DEFINE T == {k \in Nat : k <= n => W[k] \in S}
  <2>2. 0 \in T
    BY <1>1
  <2>3. ASSUME NEW k \in Nat, k \in T PROVE k + 1 \in T
    <3> SUFFICES ASSUME k + 1 <= n PROVE W[k + 1] \in S
      OBVIOUS
    <3>1. k \in 0..N /\ k \in 0..n /\ k + 1 \in 0..n
      BY CatalogAssumption
    <3>2. W[k] \in S /\ W[k] \in DOMAIN services /\ W[k + 1] \in DOMAIN services
      BY <2>1, <2>3, <3>1
    <3> QED
      BY <1>4, <3>1, <3>2 DEF UpwardClosed
  <2>4. \A k \in Nat : k \in T
    <3> HIDE DEF T
    <3> QED
      BY <2>2, <2>3, AllNumbers
  <2>5. n - 1 \in Nat /\ n - 1 \in 0..N /\ n - 1 \in 0..n /\ (n - 1) + 1 = n
    BY CatalogAssumption
  <2>6. W[n - 1] \in S
    BY <2>4, <2>5
  <2>7. services[W[n - 1]].parentId = i
    BY <1>4, <1>6, <2>1, <2>5
  <2> QED
    BY <2>6, <2>7
<1> QED
  BY <1>5, <1>6 DEF W

\* The loop of isDescendant ends from every node of every catalog, and answers
\* whether the item is above the candidate parent.
THEOREM CatalogWalk == CatalogSpec => []DescendantWalk
<1>1. CatalogIInv => DescendantWalk
  BY WalkEnds, WalkAnswers DEF DescendantWalk
<1> QED
  BY <1>1, CatalogInitInv, CatalogNextInv, PTL DEF CatalogSpec

=============================================================================
