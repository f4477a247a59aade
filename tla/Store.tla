------------------------------- MODULE Store -------------------------------
(***************************************************************************)
(* What every in-memory service of the gateway is built from.  A service   *)
(* keeps an array of entities that it searches by id; the array is modelled *)
(* as a function from the ids it holds to the entities.  A request body     *)
(* (DTO) may leave a field out (undefined) or send null, and the services   *)
(* tell the two apart in different ways.                                    *)
(***************************************************************************)
EXTENDS Integers, Functions

CONSTANTS
  Undefined,  \* a field the request does not mention
  Null        \* a field the request, or an entity, holds as null

\* undefined and null are two values, and neither is an id or an instant
ASSUME AbsentValues == Undefined # Null /\ Undefined \notin Int /\ Null \notin Int

\* store.push(entity), or the in-place change of the entity found under id
With(store, id, entity) ==
  [x \in DOMAIN store \cup {id} |-> IF x = id THEN entity ELSE store[x]]

\* store.splice(index, 1)
Without(store, id) == Restrict(store, DOMAIN store \ {id})

\* if (dto.field !== undefined) entity.field = dto.field
Given(value, old) == IF value = Undefined THEN old ELSE value

\* dto.field ?? otherwise
Coalesce(value, otherwise) ==
  IF value \in {Undefined, Null} THEN otherwise ELSE value

(***************************************************************************)
(* A flag is only ever read by its truth: a null written to one reads as   *)
(* false, and is stored as FALSE here.                                      *)
(***************************************************************************)
GivenFlag(value, old) == IF value = Undefined THEN old ELSE value = TRUE

----------------------------------------------------------------------------
(***************************************************************************)
(* AuditService keeps a log of records, each with a copy of the entity      *)
(* after (and before) a change.  What a reader of the log can rebuild is    *)
(* the newest state recorded per entity: the trail of an entity type is     *)
(* that state for each entity whose newest record is not a removal.  A row   *)
(* and its trail differ exactly when the row changed with no record made.   *)
(***************************************************************************)

\* record({ entityId: id, afterState: entity })
RecordAfter(trail, id, entity) == With(trail, id, entity)

\* record({ entityId: id, beforeState: removed })
RecordRemoval(trail, id) == Without(trail, id)

=============================================================================
