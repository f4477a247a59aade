------------------------- MODULE DepartmentServices -------------------------
(***************************************************************************)
(* DepartmentServicesService (src/department-services): which department    *)
(* offers which catalog service, and through which channels.  It reads the  *)
(* catalog and the departments through the services injected into it; none  *)
(* of them reads it back, so rows it refers to may change or go away under  *)
(* it.                                                                      *)
(*                                                                         *)
(* The three channel flags are one function from channels to booleans.      *)
(* Priorities and timestamps are left out: they only order the listings.    *)
(***************************************************************************)
EXTENDS Catalog, Directory

CONSTANTS
  Channels,          \* the channels a link can be offered through
  LinkActiveInputs,  \* the isActive a link request may give, Null and Undefined too
  ChannelInputs,     \* the flag a link request may give per channel, likewise
  MaxLinkId          \* bound: the highest link id issued

ASSUME LinksAssumption ==
  /\ "booking" \in Channels /\ Channels \subseteq {"booking", "terminal", "operator"}
  /\ LinkActiveInputs \subseteq BOOLEAN \cup {Null, Undefined}
  /\ ChannelInputs \subseteq BOOLEAN \cup {Null, Undefined}
  /\ MaxLinkId \in Nat

VARIABLES links, nextLinkId, linkTrail

linkVars == <<links, nextLinkId, linkTrail>>

Link == [departmentId: Nat, serviceId: Nat, isActive: BOOLEAN,
         enabled: [Channels -> BOOLEAN]]
LinkDto == [isActive: LinkActiveInputs, enabled: [Channels -> ChannelInputs]]

LinksInit == /\ links = [l \in {} |-> Null] /\ nextLinkId = 1
             /\ linkTrail = [l \in {} |-> Null]

----------------------------------------------------------------------------
(* Lookups *)

Assignments(d, s) ==
  {l \in DOMAIN links : links[l].departmentId = d /\ links[l].serviceId = s}

\* findAssignment: the array is in order of creation, so the oldest match
FindAssignment(d, s) ==
  CHOOSE l \in Assignments(d, s) : \A m \in Assignments(d, s) : l <= m

ServiceAvailable(d, s, channel) ==
  /\ IsService(s) /\ services[s].isActive
  /\ d \in DOMAIN departments /\ departments[d].isActive
  /\ Assignments(d, s) # {}
  /\ links[FindAssignment(d, s)].isActive
  /\ links[FindAssignment(d, s)].enabled[channel]

----------------------------------------------------------------------------
(* The requests *)

\* a new link is on in every respect the request does not mention
NewLink(d, s, dto) ==
  [departmentId |-> d, serviceId |-> s,
   isActive |-> Coalesce(dto.isActive, TRUE),
   enabled |-> [c \in Channels |-> Coalesce(dto.enabled[c], TRUE)]]

\* assigning again keeps what the request does not mention
ReassignedLink(link, dto) ==
  [link EXCEPT !.isActive = Coalesce(dto.isActive, @),
               !.enabled = [c \in Channels |-> Coalesce(dto.enabled[c], @[c])]]

\* mutant: assigning again makes a second link
AssignAnother(d, s, dto) ==
  LET link == NewLink(d, s, dto)
  IN /\ d \in DOMAIN departments
     /\ IsService(s)
     /\ nextLinkId <= MaxLinkId
     /\ links' = With(links, nextLinkId, link)
     /\ linkTrail' = RecordAfter(linkTrail, nextLinkId, link)
     /\ nextLinkId' = nextLinkId + 1

Assign(d, s, dto) ==
  LET new == Assignments(d, s) = {}
      l == IF new THEN nextLinkId ELSE FindAssignment(d, s)
      link == IF new THEN NewLink(d, s, dto) ELSE ReassignedLink(links[l], dto)
  IN /\ d \in DOMAIN departments
     /\ IsService(s)
     /\ new => nextLinkId <= MaxLinkId
     /\ links' = With(links, l, link)
     /\ linkTrail' = RecordAfter(linkTrail, l, link)
     /\ nextLinkId' = IF new THEN nextLinkId + 1 ELSE nextLinkId

UpdateLink(l, dto) ==
  LET link == [links[l] EXCEPT
                 !.isActive = GivenFlag(dto.isActive, @),
                 !.enabled = [c \in Channels |-> GivenFlag(dto.enabled[c], @[c])]]
  IN /\ links' = With(links, l, link)
     /\ linkTrail' = RecordAfter(linkTrail, l, link)
     /\ UNCHANGED nextLinkId

\* mutants: a removal takes back the newest id, or is not recorded
DropLinkTakesIdBack(l) ==
  /\ links' = Without(links, l)
  /\ linkTrail' = RecordRemoval(linkTrail, l)
  /\ nextLinkId' = nextLinkId - 1

DropLinkUnrecorded(l) ==
  /\ links' = Without(links, l)
  /\ UNCHANGED <<linkTrail, nextLinkId>>

DropLink(l) ==
  /\ links' = Without(links, l)
  /\ linkTrail' = RecordRemoval(linkTrail, l)
  /\ UNCHANGED nextLinkId

Unassign(d, s) == Assignments(d, s) # {} /\ DropLink(FindAssignment(d, s))
RemoveLink(l) == DropLink(l)

LinksNext ==
  \/ \E d \in DOMAIN departments, s \in DOMAIN services, dto \in LinkDto :
       Assign(d, s, dto)
  \/ \E l \in DOMAIN links :
       \/ \E dto \in LinkDto : UpdateLink(l, dto)
       \/ Unassign(links[l].departmentId, links[l].serviceId)
       \/ RemoveLink(l)

----------------------------------------------------------------------------
(* The gateway's directory: the three components behind one process *)

offerVars == <<catalogVars, directoryVars, linkVars>>

OfferInit == CatalogInit /\ DirectoryInit /\ LinksInit

OfferNext ==
  \/ CatalogNext /\ UNCHANGED <<directoryVars, linkVars>>
  \/ DirectoryNext /\ UNCHANGED <<catalogVars, linkVars>>
  \/ LinksNext /\ UNCHANGED <<catalogVars, directoryVars>>

OfferSpec == OfferInit /\ [][OfferNext]_offerVars

----------------------------------------------------------------------------
(* What the links promise *)

\* Links are well-formed rows under issued ids, between ids that were issued.
LinksTypeOK ==
  /\ nextLinkId \in 1..(MaxLinkId + 1)
  /\ DOMAIN links \subseteq 1..(nextLinkId - 1)
  /\ links \in [DOMAIN links -> Link]
  /\ \A l \in DOMAIN links : /\ links[l].departmentId < nextDepartmentId
                             /\ links[l].serviceId < nextServiceId

\* A department and a service are linked at most once, so that a link that is
\* switched off cannot be shadowed by, or shadow, another one.
OneLinkPerPair ==
  \A l, m \in DOMAIN links :
    (/\ links[l].departmentId = links[m].departmentId
     /\ links[l].serviceId = links[m].serviceId) => l = m

Dangling(l) == \/ links[l].departmentId \notin DOMAIN departments
               \/ links[l].serviceId \notin DOMAIN services

\* A link left behind by the removal of its service or its department never
\* comes to offer another one that is created later.
DanglingStaysDangling ==
  [][\A l \in DOMAIN links : Dangling(l) => l \notin DOMAIN links' \/ Dangling(l)']_offerVars

\* The log replays to the links as they are: re-assigning, switching a channel
\* and both ways of removing a link are all recorded under the right link.
LinksAudited == linkTrail = links

=============================================================================
