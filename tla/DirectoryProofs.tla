-------------------------- MODULE DirectoryProofs --------------------------
(***************************************************************************)
(* The two directory tables and the links between departments and services  *)
(* stay well typed, their audit trails replay to them, a pair is linked once, *)
(* and rows that still name a removed one never come to name a later one.    *)
(***************************************************************************)
EXTENDS DepartmentServices, CatalogProofs, TLAPS

DirectoryIInv == DirectoryTypeOK /\ DirectoryAudited

LEMMA DirectoryInitInv == DirectoryInit => DirectoryIInv
<1> SUFFICES ASSUME DirectoryInit PROVE DirectoryIInv
  OBVIOUS
<1>1. /\ DOMAIN branches = {} /\ branches \in [{} -> Branch]
      /\ DOMAIN departments = {} /\ departments \in [{} -> Department]
  BY DEF DirectoryInit
<1> QED
  BY <1>1, DirectoryAssumption
     DEF DirectoryIInv, DirectoryInit, DirectoryTypeOK, DirectoryAudited

\* Storing a row under an issued id, recorded, keeps the branches in order.
LEMMA BranchStored ==
  ASSUME DirectoryIInv, NEW b, NEW branch \in Branch,
         \/ b \in DOMAIN branches /\ nextBranchId' = nextBranchId
         \/ b = nextBranchId /\ b <= MaxBranchId /\ nextBranchId' = nextBranchId + 1,
         branches' = With(branches, b, branch),
         branchTrail' = RecordAfter(branchTrail, b, branch),
         UNCHANGED departmentVars
  PROVE  DirectoryIInv'
<1>1. branches' \in [DOMAIN branches' -> Branch] /\ DOMAIN branches' = DOMAIN branches \cup {b}
  BY DEF With, DirectoryIInv, DirectoryTypeOK
<1>2. DOMAIN branches' \subseteq 1..(nextBranchId' - 1) /\ nextBranchId' \in 1..(MaxBranchId + 1)
  BY <1>1, DirectoryAssumption DEF DirectoryIInv, DirectoryTypeOK
<1>3. branchTrail' = branches'
  BY DEF DirectoryIInv, DirectoryAudited, RecordAfter
<1> QED
  BY <1>1, <1>2, <1>3
     DEF DirectoryIInv, DirectoryTypeOK, DirectoryAudited, departmentVars

LEMMA DepartmentStored ==
  ASSUME DirectoryIInv, NEW d, NEW department \in Department,
         \/ d \in DOMAIN departments /\ nextDepartmentId' = nextDepartmentId
         \/ /\ d = nextDepartmentId /\ d <= MaxDepartmentId
            /\ nextDepartmentId' = nextDepartmentId + 1,
         departments' = With(departments, d, department),
         departmentTrail' = RecordAfter(departmentTrail, d, department),
         UNCHANGED branchVars
  PROVE  DirectoryIInv'
<1>1. /\ departments' \in [DOMAIN departments' -> Department]
      /\ DOMAIN departments' = DOMAIN departments \cup {d}
  BY DEF With, DirectoryIInv, DirectoryTypeOK
<1>2. /\ DOMAIN departments' \subseteq 1..(nextDepartmentId' - 1)
      /\ nextDepartmentId' \in 1..(MaxDepartmentId + 1)
  BY <1>1, DirectoryAssumption DEF DirectoryIInv, DirectoryTypeOK
<1>3. departmentTrail' = departments'
  BY DEF DirectoryIInv, DirectoryAudited, RecordAfter
<1> QED
  BY <1>1, <1>2, <1>3 DEF DirectoryIInv, DirectoryTypeOK, DirectoryAudited, branchVars

LEMMA DirectoryNextInv == DirectoryIInv /\ [DirectoryNext]_directoryVars => DirectoryIInv'
<1> SUFFICES ASSUME DirectoryIInv, [DirectoryNext]_directoryVars PROVE DirectoryIInv'
  OBVIOUS
<1> USE DirectoryAssumption
<1>1. ASSUME NEW isActive \in DirectoryActiveInputs, NEW code \in BranchCodeInputs \ {Undefined},
             CreateBranch(code, isActive)
      PROVE  DirectoryIInv'
  <2>1. [code |-> code, isActive |-> Coalesce(isActive, TRUE)] \in Branch
    BY DEF Branch, Coalesce
  <2> QED
    BY <1>1, <2>1, BranchStored DEF CreateBranch
<1>2. ASSUME NEW isActive \in DirectoryActiveInputs, NEW b \in DOMAIN branches,
             NEW code \in BranchCodeInputs, UpdateBranch(b, code, isActive)
      PROVE  DirectoryIInv'
  <2> DEFINE row == [branches[b] EXCEPT !.code = Given(code, @),
                                        !.isActive = GivenFlag(isActive, @)]
  <2>1. branches[b] \in Branch
    BY DEF DirectoryIInv, DirectoryTypeOK
  <2>2. row \in Branch
    BY <2>1 DEF Branch, Given, GivenFlag
  <2>3. PICK branch \in Branch :
          /\ branches' = With(branches, b, branch)
          /\ branchTrail' = RecordAfter(branchTrail, b, branch)
    BY <1>2, <2>2 DEF UpdateBranch
  <2>4. nextBranchId' = nextBranchId /\ UNCHANGED departmentVars
    BY <1>2 DEF UpdateBranch
  <2> QED
    BY <2>3, <2>4, BranchStored
<1>3. ASSUME NEW b \in DOMAIN branches, RemoveBranch(b)
      PROVE  DirectoryIInv'
  <2>1. /\ branches' \in [DOMAIN branches' -> Branch]
        /\ DOMAIN branches' \subseteq DOMAIN branches
    BY <1>3 DEF RemoveBranch, Without, Restrict, DirectoryIInv, DirectoryTypeOK
  <2> QED
    BY <1>3, <2>1 DEF RemoveBranch, RecordRemoval, DirectoryIInv, DirectoryTypeOK,
                      DirectoryAudited, departmentVars
<1>4. ASSUME NEW branchId \in BranchIdInputs \ {Null, Undefined},
             NEW isActive \in DirectoryActiveInputs \ {Null, Undefined},
             CreateDepartment(branchId, isActive)
      PROVE  DirectoryIInv'
  <2>1. [branchId |-> branchId, isActive |-> isActive] \in Department
    BY DEF Department
  <2> QED
    BY <1>4, <2>1, DepartmentStored DEF CreateDepartment
<1>5. ASSUME NEW isActive \in DirectoryActiveInputs, NEW d \in DOMAIN departments,
             NEW branchId \in BranchIdInputs, UpdateDepartment(d, branchId, isActive)
      PROVE  DirectoryIInv'
  <2> DEFINE row == [departments[d] EXCEPT !.branchId = Given(branchId, @),
                                           !.isActive = GivenFlag(isActive, @)]
  <2>1. departments[d] \in Department
    BY DEF DirectoryIInv, DirectoryTypeOK
  <2>2. row \in Department
    BY <2>1 DEF Department, Given, GivenFlag
  <2>3. PICK department \in Department :
          /\ departments' = With(departments, d, department)
          /\ departmentTrail' = RecordAfter(departmentTrail, d, department)
    BY <1>5, <2>2 DEF UpdateDepartment
  <2>4. nextDepartmentId' = nextDepartmentId /\ UNCHANGED branchVars
    BY <1>5 DEF UpdateDepartment
  <2> QED
    BY <2>3, <2>4, DepartmentStored
<1>6. ASSUME NEW d \in DOMAIN departments, RemoveDepartment(d)
      PROVE  DirectoryIInv'
  <2>1. /\ departments' \in [DOMAIN departments' -> Department]
        /\ DOMAIN departments' \subseteq DOMAIN departments
    BY <1>6 DEF RemoveDepartment, Without, Restrict, DirectoryIInv, DirectoryTypeOK
  <2> QED
    BY <1>6, <2>1 DEF RemoveDepartment, RecordRemoval, DirectoryIInv, DirectoryTypeOK,
                      DirectoryAudited, branchVars
<1>7. CASE UNCHANGED directoryVars
  BY <1>7 DEF directoryVars, branchVars, departmentVars, DirectoryIInv, DirectoryTypeOK,
              DirectoryAudited
<1> QED
  BY <1>1, <1>2, <1>3, <1>4, <1>5, <1>6, <1>7 DEF DirectoryNext

\* Both tables hold rows under issued ids, and the log has their newest states.
THEOREM DirectoryInvariant == DirectorySpec => []DirectoryIInv
  BY DirectoryInitInv, DirectoryNextInv, PTL DEF DirectorySpec

\* The rows stay well formed, under issued ids.
THEOREM DirectoryTypeCorrect == DirectorySpec => []DirectoryTypeOK
<1>1. DirectoryIInv => DirectoryTypeOK
  BY DEF DirectoryIInv
<1> QED
  BY <1>1, DirectoryInvariant, PTL

\* The audit log replays to the rows as they are.
THEOREM DirectoryLogged == DirectorySpec => []DirectoryAudited
<1>1. DirectoryIInv => DirectoryAudited
  BY DEF DirectoryIInv
<1> QED
  BY <1>1, DirectoryInvariant, PTL

\* No later branch takes the place of a removed one under its departments.
THEOREM DirectoryOrphans == DirectorySpec => OrphanStaysOrphan
<1> DEFINE Step == \A d \in DOMAIN departments \cap DOMAIN departments' :
       (/\ departments[d].branchId \in (1..(nextBranchId - 1)) \ DOMAIN branches
        /\ departments'[d].branchId = departments[d].branchId)
       => departments'[d].branchId \notin DOMAIN branches'
<1>1. DirectoryIInv /\ [DirectoryNext]_directoryVars => [Step]_directoryVars
  <2> SUFFICES ASSUME DirectoryIInv, DirectoryNext
               PROVE  DOMAIN branches' \subseteq DOMAIN branches \cup {nextBranchId}
    BY DEF DirectoryIInv, DirectoryTypeOK
  <2>1. ASSUME NEW code, NEW isActive, CreateBranch(code, isActive)
        PROVE  DOMAIN branches' \subseteq DOMAIN branches \cup {nextBranchId}
    BY <2>1 DEF CreateBranch, With
  <2>2. ASSUME NEW b \in DOMAIN branches, NEW code, NEW isActive,
               UpdateBranch(b, code, isActive)
        PROVE  DOMAIN branches' \subseteq DOMAIN branches
    BY <2>2 DEF UpdateBranch, With
  <2>3. ASSUME NEW b, RemoveBranch(b)
        PROVE  DOMAIN branches' \subseteq DOMAIN branches
    BY <2>3 DEF RemoveBranch, Without, Restrict
  <2>4. ASSUME UNCHANGED branchVars
        PROVE  DOMAIN branches' \subseteq DOMAIN branches
    BY <2>4 DEF branchVars
  <2> QED
    BY <2>1, <2>2, <2>3, <2>4
       DEF DirectoryNext, CreateDepartment, UpdateDepartment, RemoveDepartment
<1> QED
  BY <1>1, DirectoryInitInv, DirectoryNextInv, PTL DEF DirectorySpec, OrphanStaysOrphan

----------------------------------------------------------------------------
(* The links between departments and services.  That a pair is linked once   *)
(* is what makes findAssignment find the link that a request is about; that  *)
(* a link names issued ids only, which come from the two other components,   *)
(* is what keeps later rows from taking over the links of removed ones.      *)

LinkRows == LinksTypeOK /\ OneLinkPerPair /\ LinksAudited
OfferIInv == CatalogIInv /\ DirectoryIInv /\ LinkRows

\* A row stored in place keeps its pair; a new row is for a pair without a link.
LEMMA LinkStored ==
  ASSUME LinkRows, NEW l, NEW link \in Link,
         link.departmentId < nextDepartmentId, link.serviceId < nextServiceId,
         \/ /\ l \in DOMAIN links /\ nextLinkId' = nextLinkId
            /\ link.departmentId = links[l].departmentId /\ link.serviceId = links[l].serviceId
         \/ /\ l = nextLinkId /\ l <= MaxLinkId /\ nextLinkId' = nextLinkId + 1
            /\ Assignments(link.departmentId, link.serviceId) = {},
         links' = With(links, l, link),
         linkTrail' = RecordAfter(linkTrail, l, link),
         nextDepartmentId' = nextDepartmentId, nextServiceId' = nextServiceId
  PROVE  /\ LinkRows'
         /\ \A m \in DOMAIN links : /\ links'[m].departmentId = links[m].departmentId
                                    /\ links'[m].serviceId = links[m].serviceId
<1>1. /\ links' \in [DOMAIN links' -> Link] /\ DOMAIN links' = DOMAIN links \cup {l}
      /\ links'[l] = link /\ \A m \in DOMAIN links \ {l} : links'[m] = links[m]
  BY DEF With, LinkRows, LinksTypeOK
<1>2. l \in DOMAIN links \/ (l \notin DOMAIN links /\ l \in Nat)
  BY LinksAssumption DEF LinkRows, LinksTypeOK
<1>3. DOMAIN links' \subseteq 1..(nextLinkId' - 1) /\ nextLinkId' \in 1..(MaxLinkId + 1)
  BY <1>1, LinksAssumption DEF LinkRows, LinksTypeOK
<1>4. linkTrail' = links'
  BY DEF LinkRows, LinksAudited, RecordAfter
<1>5. OneLinkPerPair'
  BY <1>1, <1>2 DEF LinkRows, OneLinkPerPair, Assignments
<1>6. \A m \in DOMAIN links' : /\ links'[m].departmentId < nextDepartmentId'
                               /\ links'[m].serviceId < nextServiceId'
  BY <1>1 DEF LinkRows, LinksTypeOK
<1>7. l \in DOMAIN links => /\ link.departmentId = links[l].departmentId
                            /\ link.serviceId = links[l].serviceId
  BY LinksAssumption DEF LinkRows, LinksTypeOK
<1> QED
  BY <1>1, <1>3, <1>4, <1>5, <1>6, <1>7 DEF LinkRows, LinksTypeOK, LinksAudited

\* The link that findAssignment returns is the one of its pair.
LEMMA AssignmentFound ==
  ASSUME LinkRows, NEW d, NEW s, Assignments(d, s) # {}
  PROVE  FindAssignment(d, s) \in Assignments(d, s)
<1>1. PICK l : l \in Assignments(d, s)
  OBVIOUS
<1>2. l \in Nat /\ \A m \in Assignments(d, s) : m = l
  BY <1>1, LinksAssumption DEF Assignments, LinkRows, LinksTypeOK, OneLinkPerPair
<1>3. \E x \in Assignments(d, s) : \A m \in Assignments(d, s) : x <= m
  BY <1>1, <1>2
<1> HIDE DEF Assignments
<1> QED
  BY <1>3, Zenon DEF FindAssignment

LEMMA AssignRow ==
  ASSUME OfferIInv, NEW d \in DOMAIN departments, NEW s \in DOMAIN services,
         NEW dto \in LinkDto, Assign(d, s, dto), UNCHANGED <<catalogVars, directoryVars>>
  PROVE  /\ LinkRows'
         /\ \A m \in DOMAIN links : /\ links'[m].departmentId = links[m].departmentId
                                    /\ links'[m].serviceId = links[m].serviceId
<1> USE LinksAssumption
<1>1. /\ d \in Nat /\ d < nextDepartmentId /\ s \in Nat /\ s < nextServiceId
      /\ nextDepartmentId' = nextDepartmentId /\ nextServiceId' = nextServiceId
  BY DEF OfferIInv, CatalogIInv, CatalogTypeOK, DirectoryIInv, DirectoryTypeOK, catalogVars,
         directoryVars, departmentVars
<1>2. dto.isActive \in LinkActiveInputs /\ dto.enabled \in [Channels -> ChannelInputs]
  BY DEF LinkDto
<1>3. CASE Assignments(d, s) = {}
  <2>1. PICK link : /\ link = NewLink(d, s, dto)
                    /\ links' = With(links, nextLinkId, link)
                    /\ linkTrail' = RecordAfter(linkTrail, nextLinkId, link)
    BY <1>3 DEF Assign
  <2>2. nextLinkId' = nextLinkId + 1 /\ nextLinkId <= MaxLinkId
    BY <1>3 DEF Assign
  <2>3. link \in Link /\ link.departmentId = d /\ link.serviceId = s
    BY <1>1, <1>2, <2>1 DEF NewLink, Link, Coalesce
  <2> QED
    BY <1>1, <1>3, <2>1, <2>2, <2>3, LinkStored DEF OfferIInv
<1>4. CASE Assignments(d, s) # {}
  <2>0. PICK l : l = FindAssignment(d, s)
    OBVIOUS
  <2>1. l \in DOMAIN links /\ links[l].departmentId = d /\ links[l].serviceId = s
    BY <1>4, <2>0, AssignmentFound DEF OfferIInv, Assignments
  <2>2. PICK link : /\ link = ReassignedLink(links[l], dto)
                    /\ links' = With(links, l, link)
                    /\ linkTrail' = RecordAfter(linkTrail, l, link)
    BY <1>4, <2>0 DEF Assign
  <2>3. nextLinkId' = nextLinkId
    BY <1>4 DEF Assign
  <2>4. links[l] \in Link
    BY <2>1 DEF OfferIInv, LinkRows, LinksTypeOK
  <2>5. /\ Coalesce(dto.isActive, links[l].isActive) \in BOOLEAN
        /\ [c \in Channels |-> Coalesce(dto.enabled[c], links[l].enabled[c])] \in [Channels -> BOOLEAN]
    BY <1>2, <2>4 DEF Link, Coalesce
  <2>6. link \in Link /\ link.departmentId = d /\ link.serviceId = s
    BY <2>1, <2>2, <2>4, <2>5 DEF ReassignedLink, Link
  <2> QED
    BY <1>1, <2>1, <2>2, <2>3, <2>6, LinkStored DEF OfferIInv
<1> QED
  BY <1>3, <1>4

LEMMA UpdateLinkRow ==
  ASSUME OfferIInv, NEW l \in DOMAIN links, NEW dto \in LinkDto, UpdateLink(l, dto),
         UNCHANGED <<catalogVars, directoryVars>>
  PROVE  /\ LinkRows'
         /\ \A m \in DOMAIN links : /\ links'[m].departmentId = links[m].departmentId
                                    /\ links'[m].serviceId = links[m].serviceId
<1> DEFINE row == [links[l] EXCEPT
                     !.isActive = GivenFlag(dto.isActive, @),
                     !.enabled = [c \in Channels |-> GivenFlag(dto.enabled[c], @[c])]]
<1>1. links[l] \in Link
  BY DEF OfferIInv, LinkRows, LinksTypeOK
<1>2. /\ GivenFlag(dto.isActive, links[l].isActive) \in BOOLEAN
      /\ [c \in Channels |-> GivenFlag(dto.enabled[c], links[l].enabled[c])] \in [Channels -> BOOLEAN]
  BY <1>1 DEF Link, GivenFlag
<1>3. /\ row \in Link /\ row.departmentId = links[l].departmentId
      /\ row.serviceId = links[l].serviceId
  BY <1>1, <1>2 DEF Link
<1>4. PICK link : /\ link = row /\ links' = With(links, l, link)
                  /\ linkTrail' = RecordAfter(linkTrail, l, link)
  BY DEF UpdateLink
<1>5. /\ nextLinkId' = nextLinkId
      /\ nextDepartmentId' = nextDepartmentId /\ nextServiceId' = nextServiceId
  BY DEF UpdateLink, catalogVars, directoryVars, departmentVars
<1>6. links[l].departmentId < nextDepartmentId /\ links[l].serviceId < nextServiceId
  BY DEF OfferIInv, LinkRows, LinksTypeOK
<1> HIDE DEF row
<1> QED
  BY <1>3, <1>4, <1>5, <1>6, LinkStored DEF OfferIInv

LEMMA DropLinkRow ==
  ASSUME OfferIInv, NEW l, DropLink(l), UNCHANGED <<catalogVars, directoryVars>>
  PROVE  /\ LinkRows'
         /\ DOMAIN links' \subseteq DOMAIN links
         /\ \A m \in DOMAIN links' : links'[m] = links[m]
<1>1. /\ DOMAIN links' \subseteq DOMAIN links
      /\ \A m \in DOMAIN links' : links'[m] = links[m]
      /\ links' = [m \in DOMAIN links' |-> links'[m]]
  BY DEF DropLink, Without, Restrict
<1>2. linkTrail' = links' /\ nextLinkId' = nextLinkId
  BY DEF DropLink, RecordRemoval, OfferIInv, LinkRows, LinksAudited
<1>3. nextDepartmentId' = nextDepartmentId /\ nextServiceId' = nextServiceId
  BY DEF catalogVars, directoryVars, departmentVars
<1>4. LinksTypeOK' /\ OneLinkPerPair'
  BY <1>1, <1>2, <1>3 DEF OfferIInv, LinkRows, LinksTypeOK, OneLinkPerPair
<1> QED
  BY <1>1, <1>2, <1>4 DEF LinkRows, LinksAudited

\* A request about links never lets one link name another pair.
LEMMA LinksStep ==
  ASSUME OfferIInv, LinksNext, UNCHANGED <<catalogVars, directoryVars>>
  PROVE  /\ LinkRows'
         /\ \A m \in DOMAIN links \cap DOMAIN links' :
              /\ links'[m].departmentId = links[m].departmentId
              /\ links'[m].serviceId = links[m].serviceId
  BY AssignRow, UpdateLinkRow, DropLinkRow DEF LinksNext, Unassign, RemoveLink

\* New rows come under new ids, whichever request makes them.
LEMMA ServiceIds ==
  ASSUME CatalogIInv, CatalogNext
  PROVE  /\ nextServiceId' >= nextServiceId
         /\ DOMAIN services' \subseteq DOMAIN services \cup {nextServiceId}
<1>1. nextServiceId \in Int
  BY DEF CatalogIInv, CatalogTypeOK
<1>2. ASSUME NEW code, NEW type, NEW parentId, NEW isActive,
             CreateService(code, type, parentId, isActive)
      PROVE  /\ nextServiceId' = nextServiceId + 1
             /\ DOMAIN services' \subseteq DOMAIN services \cup {nextServiceId}
  BY <1>2 DEF CreateService, With
<1>3. ASSUME NEW i \in DOMAIN services, NEW dto,
             UpdateService(i, dto) \/ UpdateServiceFailsOnParent(i, dto)
      PROVE  nextServiceId' = nextServiceId /\ DOMAIN services' = DOMAIN services
  BY <1>3 DEF UpdateService, UpdateServiceFailsOnParent, With
<1>4. ASSUME NEW i, RemoveService(i)
      PROVE  nextServiceId' = nextServiceId /\ DOMAIN services' \subseteq DOMAIN services
  BY <1>4 DEF RemoveService, Without, Restrict
<1> QED
  BY <1>1, <1>2, <1>3, <1>4 DEF CatalogNext

LEMMA BranchIds ==
  ASSUME DirectoryIInv, DirectoryNext
  PROVE  /\ nextBranchId' >= nextBranchId
         /\ DOMAIN branches' \subseteq DOMAIN branches \cup {nextBranchId}
<1>1. nextBranchId \in Int
  BY DEF DirectoryIInv, DirectoryTypeOK
<1>2. ASSUME NEW code, NEW isActive, CreateBranch(code, isActive)
      PROVE  /\ nextBranchId' = nextBranchId + 1
             /\ DOMAIN branches' \subseteq DOMAIN branches \cup {nextBranchId}
  BY <1>2 DEF CreateBranch, With
<1>3. ASSUME NEW b \in DOMAIN branches, NEW code, NEW isActive, UpdateBranch(b, code, isActive)
      PROVE  nextBranchId' = nextBranchId /\ DOMAIN branches' = DOMAIN branches
  BY <1>3 DEF UpdateBranch, With
<1>4. ASSUME NEW b, RemoveBranch(b)
      PROVE  nextBranchId' = nextBranchId /\ DOMAIN branches' \subseteq DOMAIN branches
  BY <1>4 DEF RemoveBranch, Without, Restrict
<1>5. ASSUME UNCHANGED branchVars
      PROVE  nextBranchId' = nextBranchId /\ DOMAIN branches' = DOMAIN branches
  BY <1>5 DEF branchVars
<1>6. ASSUME NEW branchId, NEW isActive, NEW d,
             \/ CreateDepartment(branchId, isActive)
             \/ UpdateDepartment(d, branchId, isActive)
             \/ RemoveDepartment(d)
      PROVE  UNCHANGED branchVars
  BY <1>6 DEF CreateDepartment, UpdateDepartment, RemoveDepartment
<1> QED
  BY <1>1, <1>2, <1>3, <1>4, <1>5, <1>6 DEF DirectoryNext

LEMMA DepartmentIds ==
  ASSUME DirectoryIInv, DirectoryNext
  PROVE  /\ nextDepartmentId' >= nextDepartmentId
         /\ DOMAIN departments' \subseteq DOMAIN departments \cup {nextDepartmentId}
<1>1. nextDepartmentId \in Int
  BY DEF DirectoryIInv, DirectoryTypeOK
<1>2. ASSUME NEW branchId, NEW isActive, CreateDepartment(branchId, isActive)
      PROVE  /\ nextDepartmentId' = nextDepartmentId + 1
             /\ DOMAIN departments' \subseteq DOMAIN departments \cup {nextDepartmentId}
  BY <1>2 DEF CreateDepartment, With
<1>3. ASSUME NEW d \in DOMAIN departments, NEW branchId, NEW isActive,
             UpdateDepartment(d, branchId, isActive)
      PROVE  nextDepartmentId' = nextDepartmentId /\ DOMAIN departments' = DOMAIN departments
  BY <1>3 DEF UpdateDepartment, With
<1>4. ASSUME NEW d, RemoveDepartment(d)
      PROVE  /\ nextDepartmentId' = nextDepartmentId
             /\ DOMAIN departments' \subseteq DOMAIN departments
  BY <1>4 DEF RemoveDepartment, Without, Restrict
<1>5. ASSUME UNCHANGED departmentVars
      PROVE  nextDepartmentId' = nextDepartmentId /\ DOMAIN departments' = DOMAIN departments
  BY <1>5 DEF departmentVars
<1>6. ASSUME NEW code, NEW isActive, NEW b,
             CreateBranch(code, isActive) \/ UpdateBranch(b, code, isActive) \/ RemoveBranch(b)
      PROVE  UNCHANGED departmentVars
  BY <1>6 DEF CreateBranch, UpdateBranch, RemoveBranch
<1> QED
  BY <1>1, <1>2, <1>3, <1>4, <1>5, <1>6 DEF DirectoryNext

LEMMA OfferInitInv == OfferInit => OfferIInv
<1> SUFFICES ASSUME OfferInit PROVE OfferIInv
  OBVIOUS
<1>1. /\ DOMAIN links = {} /\ links \in [{} -> Link] /\ linkTrail = links /\ nextLinkId = 1
  BY DEF OfferInit, LinksInit
<1>2. LinkRows
  BY <1>1, LinksAssumption DEF LinkRows, LinksTypeOK, OneLinkPerPair, LinksAudited
<1> QED
  BY <1>2, CatalogInitInv, DirectoryInitInv DEF OfferInit, OfferIInv

\* The other components issue further ids and leave the links alone.
LEMMA LinksLeftAlone ==
  ASSUME LinkRows, UNCHANGED linkVars,
         nextDepartmentId \in Int, nextDepartmentId' \in Int, nextDepartmentId' >= nextDepartmentId,
         nextServiceId \in Int, nextServiceId' \in Int, nextServiceId' >= nextServiceId
  PROVE  LinkRows'
<1>1. links' = links /\ nextLinkId' = nextLinkId /\ linkTrail' = linkTrail
  BY DEF linkVars
<1>2. \A l \in DOMAIN links : links[l].departmentId \in Nat /\ links[l].serviceId \in Nat
  BY DEF LinkRows, LinksTypeOK, Link
<1> QED
  BY <1>1, <1>2 DEF LinkRows, LinksTypeOK, OneLinkPerPair, LinksAudited

LEMMA OfferNextInv == OfferIInv /\ [OfferNext]_offerVars => OfferIInv'
<1> SUFFICES ASSUME OfferIInv, [OfferNext]_offerVars PROVE OfferIInv'
  OBVIOUS
<1>1. CatalogIInv'
  BY CatalogNextInv DEF OfferNext, OfferIInv, offerVars
<1>2. DirectoryIInv'
  BY DirectoryNextInv DEF OfferNext, OfferIInv, offerVars
<1>3. /\ nextDepartmentId \in Int /\ nextDepartmentId' \in Int
      /\ nextServiceId \in Int /\ nextServiceId' \in Int
  BY <1>1, <1>2 DEF OfferIInv, CatalogIInv, CatalogTypeOK, DirectoryIInv, DirectoryTypeOK
<1>4. CASE LinksNext /\ UNCHANGED <<catalogVars, directoryVars>>
  BY <1>1, <1>2, <1>4, LinksStep DEF OfferIInv
<1>5. CASE CatalogNext /\ UNCHANGED <<directoryVars, linkVars>>
  <2>1. nextDepartmentId' >= nextDepartmentId
    BY <1>3, <1>5 DEF directoryVars, departmentVars
  <2>2. LinkRows'
    BY <1>3, <1>5, <2>1, ServiceIds, LinksLeftAlone DEF OfferIInv
  <2> QED
    BY <1>1, <1>2, <2>2 DEF OfferIInv
<1>6. CASE DirectoryNext /\ UNCHANGED <<catalogVars, linkVars>>
  <2>1. nextServiceId' >= nextServiceId
    BY <1>3, <1>6 DEF catalogVars
  <2>2. LinkRows'
    BY <1>3, <1>6, <2>1, DepartmentIds, LinksLeftAlone DEF OfferIInv
  <2> QED
    BY <1>1, <1>2, <2>2 DEF OfferIInv
<1>7. CASE UNCHANGED offerVars
  <2>1. nextServiceId' >= nextServiceId /\ nextDepartmentId' >= nextDepartmentId
    BY <1>3, <1>7 DEF offerVars, catalogVars, directoryVars, departmentVars
  <2>2. LinkRows'
    BY <1>3, <1>7, <2>1, LinksLeftAlone DEF OfferIInv, offerVars
  <2> QED
    BY <1>1, <1>2, <2>2 DEF OfferIInv
<1> QED
  BY <1>4, <1>5, <1>6, <1>7 DEF OfferNext

\* So do the links, over the catalog and the departments as these change.
THEOREM OfferInvariant == OfferSpec => []OfferIInv
  BY OfferInitInv, OfferNextInv, PTL DEF OfferSpec

\* Links are well-formed rows between ids that were issued.
THEOREM LinksTypeCorrect == OfferSpec => []LinksTypeOK
<1>1. OfferIInv => LinksTypeOK
  BY DEF OfferIInv, LinkRows
<1> QED
  BY <1>1, OfferInvariant, PTL

\* A department and a service are never linked twice.
THEOREM LinksUnique == OfferSpec => []OneLinkPerPair
<1>1. OfferIInv => OneLinkPerPair
  BY DEF OfferIInv, LinkRows
<1> QED
  BY <1>1, OfferInvariant, PTL

\* The audit log replays to the links as they are.
THEOREM LinksLogged == OfferSpec => []LinksAudited
<1>1. OfferIInv => LinksAudited
  BY DEF OfferIInv, LinkRows
<1> QED
  BY <1>1, OfferInvariant, PTL

\* A link of a removed service or department never offers a later one.
THEOREM LinksDangle == OfferSpec => DanglingStaysDangling
<1> DEFINE A == \A l \in DOMAIN links : Dangling(l) => l \notin DOMAIN links' \/ Dangling(l)'
<1>1. OfferIInv /\ [OfferNext]_offerVars => [A]_offerVars
  <2> SUFFICES ASSUME OfferIInv, OfferNext, NEW l \in DOMAIN links, Dangling(l),
                      l \in DOMAIN links'
               PROVE  Dangling(l)'
    OBVIOUS
  <2>1. /\ links[l].departmentId \in Nat /\ links[l].departmentId < nextDepartmentId
        /\ links[l].serviceId \in Nat /\ links[l].serviceId < nextServiceId
    BY DEF OfferIInv, LinkRows, LinksTypeOK, Link
  <2>2. /\ links'[l].departmentId = links[l].departmentId
        /\ links'[l].serviceId = links[l].serviceId
    BY LinksStep DEF OfferNext, linkVars
  <2>3. /\ links[l].departmentId \in DOMAIN departments' => links[l].departmentId \in DOMAIN departments
        /\ links[l].serviceId \in DOMAIN services' => links[l].serviceId \in DOMAIN services
    <3>1. DOMAIN departments' \subseteq DOMAIN departments \cup {nextDepartmentId}
      BY DepartmentIds DEF OfferNext, OfferIInv, directoryVars, departmentVars
    <3>2. DOMAIN services' \subseteq DOMAIN services \cup {nextServiceId}
      BY ServiceIds DEF OfferNext, OfferIInv, catalogVars
    <3> QED
      BY <2>1, <3>1, <3>2
  <2> QED
    BY <2>2, <2>3 DEF Dangling
<1> QED
  BY <1>1, OfferInitInv, OfferNextInv, PTL DEF OfferSpec, DanglingStaysDangling

----------------------------------------------------------------------------
(* The parts keep their promises in the composition *)

\* Behind one process the catalog and the directory tables still behave as each
\* does alone: no request of one is a step of another, or hinders it.
THEOREM OfferParts == OfferSpec => CatalogSpec /\ DirectorySpec
<1>1. OfferInit => CatalogInit /\ DirectoryInit
  BY DEF OfferInit
<1>2. [OfferNext]_offerVars => [CatalogNext]_catalogVars /\ [DirectoryNext]_directoryVars
  BY Zenon DEF OfferNext, offerVars
<1> QED
  BY <1>1, <1>2, PTL DEF OfferSpec, CatalogSpec, DirectorySpec

=============================================================================
