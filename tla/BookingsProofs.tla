--------------------------- MODULE BookingsProofs ---------------------------
(***************************************************************************)
(* For every directory, every set of requests, every token lifetime (a      *)
(* malformed one too) and every bound: slots stay exclusive and are offered *)
(* as they are granted, tokens are used once, the log replays to the        *)
(* bookings, what is created has none, and the bookings implement a booking *)
(* desk.                                                                    *)
(***************************************************************************)
EXTENDS Bookings, CatalogProofs, DirectoryProofs

(***************************************************************************)
(* Exclusiveness is inductive over the bookings alone, but a new row is     *)
(* only known to be well typed because the directory's ids are, so the      *)
(* invariants of the catalog and of the directory come along.               *)
(***************************************************************************)
BookingRows == BookingsTypeOK /\ SlotExclusive /\ BookingsAudited
BookingsIInv == CatalogIInv /\ DirectoryIInv /\ BookingRows

LEMMA BookingsInitInv == GatewayInit => BookingsIInv
<1> SUFFICES ASSUME GatewayInit PROVE BookingsIInv
  OBVIOUS
<1>1. CatalogIInv /\ DirectoryIInv
  BY CatalogInitInv, DirectoryInitInv DEF GatewayInit, OfferInit
<1>2. BookingRows
  BY BookingsAssumption
     DEF GatewayInit, BookingsInit, BookingRows, BookingsTypeOK, SlotExclusive, BookingsAudited
<1> QED
  BY <1>1, <1>2 DEF BookingsIInv

\* What the directory does leaves its own invariants and the bookings alone.
LEMMA OfferStepInv ==
  ASSUME BookingsIInv, OfferNext, UNCHANGED <<bookingVars, now>>
  PROVE  BookingsIInv'
<1>1. CatalogIInv'
  BY CatalogNextInv DEF OfferNext, BookingsIInv
<1>2. DirectoryIInv'
  BY DirectoryNextInv DEF OfferNext, BookingsIInv
<1>3. BookingRows'
  BY DEF bookingVars, BookingsIInv, BookingRows, BookingsTypeOK, SlotExclusive, BookingsAudited,
         Active, SlotOf
<1> QED
  BY <1>1, <1>2, <1>3 DEF BookingsIInv

----------------------------------------------------------------------------
(* The requests *)

\* A booking request adds one row under the next id, and only for a slot that
\* no active booking holds.
LEMMA CreateBookingRow ==
  ASSUME BookingsIInv,
         NEW b \in DOMAIN branches, NEW d \in DOMAIN departments,
         NEW s \in DOMAIN services, NEW t \in Requested,
         CreateBooking(b, d, s, t),
         NEW n, n = nextBookingId
  PROVE  /\ n \in Nat /\ n >= 1 /\ n <= MaxBookingId /\ n \notin DOMAIN bookings
         /\ nextBookingId' = n + 1 /\ now' = now
         /\ DOMAIN bookings' = DOMAIN bookings \cup {n}
         /\ bookings' \in [DOMAIN bookings' -> Booking]
         /\ bookingTrail' = bookings'
         /\ \A k \in DOMAIN bookings : bookings'[k] = bookings[k]
         /\ SlotOf(n)' = <<d, s, t>>
         /\ Active(n)'
         /\ \A k \in DOMAIN bookings : Active(k) => SlotOf(k) # <<d, s, t>>
<1> DEFINE row == [branchId |-> b, departmentId |-> d, serviceId |-> s,
                   scheduledAt |-> t, status |-> "PENDING",
                   qrExpiresAt |-> QrExpiry(t), qrUsedAt |-> Undefined]
<1>1. /\ n \in Nat /\ n >= 1 /\ n <= MaxBookingId /\ n \notin DOMAIN bookings
      /\ nextBookingId' = n + 1 /\ now' = now
  BY BookingsAssumption DEF BookingsIInv, BookingRows, BookingsTypeOK, CreateBooking
<1>2. row \in Booking
  <2>1. b \in Nat /\ d \in Nat /\ s \in Nat /\ t \in Int
    BY BookingsAssumption
       DEF BookingsIInv, CatalogIInv, CatalogTypeOK, DirectoryIInv, DirectoryTypeOK
  <2>2. QrExpiry(t) \in Int \cup {NaN}
    BY <2>1, BookingsAssumption DEF QrExpiry
  <2> QED
    BY <2>1, <2>2 DEF Booking, BookingStatus
<1>3. /\ bookings' = With(bookings, n, row)
      /\ bookingTrail' = RecordQr(With(bookings, n, row), n, row.qrExpiresAt)
  BY DEF CreateBooking, RecordAfter, BookingsIInv, BookingRows, BookingsAudited
<1>4. /\ DOMAIN bookings' = DOMAIN bookings \cup {n}
      /\ bookings'[n] = row
      /\ \A k \in DOMAIN bookings : bookings'[k] = bookings[k]
  BY <1>1, <1>3 DEF With
<1>5. bookings' \in [DOMAIN bookings' -> Booking]
  BY <1>2, <1>3 DEF With, BookingsIInv, BookingRows, BookingsTypeOK
<1>6. bookingTrail' = bookings'
  <2>1. bookingTrail' = [bookings' EXCEPT ![n].qrExpiresAt = row.qrExpiresAt]
    BY <1>3 DEF RecordQr
  <2>2. [row EXCEPT !.qrExpiresAt = row.qrExpiresAt] = row
    OBVIOUS
  <2>3. bookingTrail' = [bookings' EXCEPT ![n] = bookings'[n]]
    BY <2>1, <2>2, <1>4
  <2> QED
    BY <2>3, <1>5
<1>7. SlotOf(n)' = <<d, s, t>> /\ Active(n)'
  BY <1>4 DEF SlotOf, Active
<1>8. \A k \in DOMAIN bookings : Active(k) => SlotOf(k) # <<d, s, t>>
  BY DEF CreateBooking, CanBook, HasSlotConflict
<1> QED
  BY <1>1, <1>4, <1>5, <1>6, <1>7, <1>8

LEMMA CreateBookingInv ==
  ASSUME BookingsIInv,
         NEW b \in DOMAIN branches, NEW d \in DOMAIN departments,
         NEW s \in DOMAIN services, NEW t \in Requested,
         CreateBooking(b, d, s, t)
  PROVE  BookingRows'
<1>0. PICK n : n = nextBookingId
  OBVIOUS
<1>1. /\ n \in Nat /\ n >= 1 /\ n <= MaxBookingId /\ n \notin DOMAIN bookings
      /\ nextBookingId' = n + 1 /\ now' = now
      /\ DOMAIN bookings' = DOMAIN bookings \cup {n}
      /\ bookings' \in [DOMAIN bookings' -> Booking]
      /\ bookingTrail' = bookings'
  BY <1>0, CreateBookingRow
<1>2. \A k \in DOMAIN bookings : /\ Active(k)' <=> Active(k)
                                 /\ SlotOf(k)' = SlotOf(k)
  BY <1>0, CreateBookingRow DEF Active, SlotOf
<1>3. /\ \A k \in DOMAIN bookings : Active(k)' => SlotOf(k)' # SlotOf(n)'
      /\ Active(n)'
  BY <1>0, <1>2, CreateBookingRow
<1>4. BookingsTypeOK'
  BY <1>0, <1>1, BookingsAssumption DEF BookingsIInv, BookingRows, BookingsTypeOK
<1>5. SlotExclusive'
  <2> SUFFICES ASSUME NEW j \in DOMAIN bookings', NEW k \in DOMAIN bookings',
                      Active(j)', Active(k)', SlotOf(j)' = SlotOf(k)'
               PROVE  j = k
    BY DEF SlotExclusive
  <2>1. CASE j \in DOMAIN bookings /\ k \in DOMAIN bookings
    BY <1>2, <2>1 DEF BookingsIInv, BookingRows, SlotExclusive
  <2>2. CASE j = n \/ k = n
    BY <1>1, <1>3, <2>2
  <2> QED
    BY <1>1, <2>1, <2>2
<1> QED
  BY <1>1, <1>4, <1>5 DEF BookingRows, BookingsAudited

\* A request about a booking changes that row in place and records it.
LEMMA ChangeRow ==
  ASSUME BookingsIInv, NEW k \in DOMAIN bookings, NEW row \in Booking, Change(k, row)
  PROVE  /\ nextBookingId' = nextBookingId /\ now' = now
         /\ DOMAIN bookings' = DOMAIN bookings
         /\ bookings' \in [DOMAIN bookings' -> Booking]
         /\ bookings'[k] = row
         /\ \A j \in DOMAIN bookings \ {k} : bookings'[j] = bookings[j]
         /\ bookingTrail' = bookings'
  BY DEF Change, With, RecordAfter, BookingsIInv, BookingRows, BookingsTypeOK, BookingsAudited

\* If the row keeps its slot and is not revived, slots stay exclusive.
LEMMA ChangeInv ==
  ASSUME BookingsIInv, NEW k \in DOMAIN bookings, NEW row \in Booking, Change(k, row),
         Active(k),
         row.departmentId = bookings[k].departmentId,
         row.serviceId = bookings[k].serviceId,
         row.scheduledAt = bookings[k].scheduledAt
  PROVE  BookingRows'
<1>1. /\ nextBookingId' = nextBookingId /\ now' = now
      /\ DOMAIN bookings' = DOMAIN bookings
      /\ bookings' \in [DOMAIN bookings' -> Booking]
      /\ bookingTrail' = bookings'
  BY ChangeRow
<1>2. \A j \in DOMAIN bookings : SlotOf(j)' = SlotOf(j) /\ (Active(j)' => Active(j))
  BY ChangeRow DEF SlotOf, Active
<1>3. BookingsTypeOK'
  BY <1>1 DEF BookingsIInv, BookingRows, BookingsTypeOK
<1>4. SlotExclusive'
  BY <1>1, <1>2 DEF BookingsIInv, BookingRows, SlotExclusive
<1> QED
  BY <1>1, <1>3, <1>4 DEF BookingRows, BookingsAudited

\* The rows that the three requests about a booking write are well formed and
\* are for the same slot.
LEMMA RequestRows ==
  ASSUME BookingsIInv, NEW k \in DOMAIN bookings
  PROVE  /\ bookings[k] \in Booking
         /\ \A status \in BookingStatus : [bookings[k] EXCEPT !.status = status] \in Booking
         /\ [bookings[k] EXCEPT !.qrUsedAt = now] \in Booking
<1>1. bookings[k] \in Booking /\ now \in Nat
  BY BookingsAssumption DEF BookingsIInv, BookingRows, BookingsTypeOK
<1> QED
  BY <1>1 DEF Booking

LEMMA BookingRequestInv ==
  ASSUME BookingsIInv, NEW k \in DOMAIN bookings, Confirm(k) \/ Cancel(k) \/ ConsumeQr(k)
  PROVE  BookingRows'
<1>1. bookings[k] \in Booking
  BY RequestRows
<1>2. PICK row \in Booking :
        /\ Change(k, row)
        /\ row.departmentId = bookings[k].departmentId
        /\ row.serviceId = bookings[k].serviceId
        /\ row.scheduledAt = bookings[k].scheduledAt
  <2>1. CASE Confirm(k)
    <3>1. [bookings[k] EXCEPT !.status = "CONFIRMED"] \in Booking
      BY RequestRows DEF BookingStatus
    <3> QED
      BY <1>1, <2>1, <3>1 DEF Confirm, Booking
  <2>2. CASE Cancel(k)
    <3>1. [bookings[k] EXCEPT !.status = "CANCELLED"] \in Booking
      BY RequestRows DEF BookingStatus
    <3> QED
      BY <1>1, <2>2, <3>1 DEF Cancel, Booking
  <2>3. CASE ConsumeQr(k)
    <3>1. [bookings[k] EXCEPT !.qrUsedAt = now] \in Booking
      BY RequestRows
    <3> QED
      BY <1>1, <2>3, <3>1 DEF ConsumeQr, Booking
  <2> QED
    BY <2>1, <2>2, <2>3
<1>3. Active(k)
  BY DEF Confirm, Cancel, ConsumeQr, IsQrValid
<1> QED
  BY <1>2, <1>3, ChangeInv

\* Every step of the gateway preserves the invariant.
LEMMA BookingsNextInv == BookingsIInv /\ [GatewayNext]_gatewayVars => BookingsIInv'
<1> SUFFICES ASSUME BookingsIInv, [GatewayNext]_gatewayVars PROVE BookingsIInv'
  OBVIOUS
<1>1. CASE OfferNext /\ UNCHANGED <<bookingVars, now>>
  BY <1>1, OfferStepInv
<1>2. CASE BookingsNext /\ UNCHANGED offerVars
  <2>1. CatalogIInv' /\ DirectoryIInv'
    BY <1>2, CatalogNextInv, DirectoryNextInv DEF BookingsIInv, offerVars
  <2>2. BookingRows'
    <3>1. ASSUME NEW b \in DOMAIN branches, NEW d \in DOMAIN departments,
                 NEW s \in DOMAIN services, NEW t \in Requested, CreateBooking(b, d, s, t)
          PROVE  BookingRows'
      BY <3>1, CreateBookingInv
    <3>2. ASSUME NEW k \in DOMAIN bookings, Confirm(k) \/ Cancel(k) \/ ConsumeQr(k)
          PROVE  BookingRows'
      BY <3>2, BookingRequestInv
    <3>3. CASE AdvanceClock
      BY <3>3, BookingsAssumption
         DEF AdvanceClock, bookingVars, BookingsIInv, BookingRows, BookingsTypeOK,
             SlotExclusive, BookingsAudited, Active, SlotOf
    <3> QED
      BY <1>2, <3>1, <3>2, <3>3 DEF BookingsNext
  <2> QED
    BY <2>1, <2>2 DEF BookingsIInv
<1>3. CASE UNCHANGED gatewayVars
  <2>1. CatalogIInv' /\ DirectoryIInv'
    BY <1>3, CatalogNextInv, DirectoryNextInv DEF BookingsIInv, offerVars, gatewayVars
  <2>2. BookingRows'
    BY <1>3 DEF gatewayVars, bookingVars, BookingsIInv, BookingRows, BookingsTypeOK,
                SlotExclusive, BookingsAudited, Active, SlotOf
  <2> QED
    BY <2>1, <2>2 DEF BookingsIInv
<1> QED
  BY <1>1, <1>2, <1>3 DEF GatewayNext

----------------------------------------------------------------------------
\* The bookings are well-formed rows under issued ids.
THEOREM BookingsTypeCorrect == GatewaySpec => []BookingsTypeOK
<1>1. BookingsIInv => BookingsTypeOK
  BY DEF BookingsIInv, BookingRows
<1> QED
  BY <1>1, BookingsInitInv, BookingsNextInv, PTL DEF GatewaySpec

\* A slot belongs to at most one booking that is not cancelled, for any number
\* of clients, bookings, departments, services and times.
THEOREM BookingsExclusive == GatewaySpec => []SlotExclusive
<1>1. BookingsIInv => SlotExclusive
  BY DEF BookingsIInv, BookingRows
<1> QED
  BY <1>1, BookingsInitInv, BookingsNextInv, PTL DEF GatewaySpec

\* The audit log replays to the bookings as they are.
THEOREM BookingsLogged == GatewaySpec => []BookingsAudited
<1>1. BookingsIInv => BookingsAudited
  BY DEF BookingsIInv, BookingRows
<1> QED
  BY <1>1, BookingsInitInv, BookingsNextInv, PTL DEF GatewaySpec

----------------------------------------------------------------------------
(* What a step may do to a booking *)

\* A request about one booking leaves its siblings alone and is refused for a
\* cancelled one.
LEMMA CancelledStep ==
  ASSUME BookingsIInv, [GatewayNext]_gatewayVars, NEW k \in DOMAIN bookings, ~Active(k)
  PROVE  k \in DOMAIN bookings' /\ bookings'[k] = bookings[k]
<1>1. ASSUME NEW b \in DOMAIN branches, NEW d \in DOMAIN departments,
             NEW s \in DOMAIN services, NEW t \in Requested, CreateBooking(b, d, s, t)
      PROVE  k \in DOMAIN bookings' /\ bookings'[k] = bookings[k]
  <2>1. PICK n : n = nextBookingId
    OBVIOUS
  <2> QED
    BY <1>1, <2>1, CreateBookingRow
<1>2. ASSUME NEW j \in DOMAIN bookings, Confirm(j) \/ Cancel(j) \/ ConsumeQr(j)
      PROVE  k \in DOMAIN bookings' /\ bookings'[k] = bookings[k]
  <2>1. j # k
    BY <1>2 DEF Confirm, Cancel, ConsumeQr, IsQrValid
  <2> QED
    BY <1>2, <2>1 DEF Confirm, Cancel, ConsumeQr, Change, With
<1>3. CASE UNCHANGED bookings
  BY <1>3
<1> QED
  BY <1>1, <1>2, <1>3 DEF GatewayNext, BookingsNext, AdvanceClock, gatewayVars, bookingVars

\* A cancelled booking never changes again.
THEOREM BookingsCancelledFinal == GatewaySpec => CancelledIsFinal
<1>1. BookingsIInv /\ [GatewayNext]_gatewayVars =>
        [\A k \in DOMAIN bookings :
           ~Active(k) => k \in DOMAIN bookings' /\ bookings'[k] = bookings[k]]_gatewayVars
  BY CancelledStep
<1> QED
  BY <1>1, BookingsInitInv, BookingsNextInv, PTL DEF GatewaySpec, CancelledIsFinal

----------------------------------------------------------------------------
(* Slots and tokens *)

\* A slot offered for a date is on that date: the slots of a day fit into it.
LEMMA SlotDate ==
  ASSUME NEW date \in Dates, NEW t \in SlotsOn(date)
  PROVE  t \div DayLength = date
<1> USE BookingsAssumption
<1>1. PICK n \in 0..(SlotCount - 1) : t = date * DayLength + FirstSlot + n
  BY DEF SlotsOn
<1> DEFINE hour == FirstSlot + n
<1>2. hour \in Nat /\ hour < DayLength /\ date \in Nat /\ DayLength \in Nat \ {0}
  OBVIOUS
<1>3. t = date * DayLength + hour
  <2>1. date * DayLength \in Int
    OBVIOUS
  <2> QED
    BY <1>1, <2>1
<1> HIDE DEF hour
<1> QED
  BY <1>2, <1>3

\* What is offered is what would be granted, at every moment.
THEOREM BookingsOffered == GatewaySpec => []OfferedIsBookable
<1>1. ASSUME BookingsIInv PROVE OfferedIsBookable
  <2> SUFFICES ASSUME NEW b, NEW d, NEW s, NEW date \in Dates, BookingAvailable(b, d, s),
                      NEW t \in SlotsOn(date)
               PROVE  t \in BookedSlots(d, s, date) <=> HasSlotConflict(d, s, t)
    BY DEF OfferedIsBookable, AvailableSlots, CanBook
  <2>1. t \div DayLength = date
    BY SlotDate
  <2> QED
    BY <2>1 DEF BookedSlots, HasSlotConflict, SlotOf
<1> QED
  BY <1>1, BookingsInitInv, BookingsNextInv, PTL DEF GatewaySpec

\* Only a consumption uses a token, and it has looked at it.
LEMMA ConsumedStep ==
  ASSUME BookingsIInv, [GatewayNext]_gatewayVars, NEW k \in DOMAIN bookings,
         bookings'[k].qrUsedAt # bookings[k].qrUsedAt
  PROVE  /\ bookings[k].qrUsedAt = Undefined
         /\ Active(k) /\ Active(k)'
         /\ bookings[k].qrExpiresAt = NaN \/ now <= bookings[k].qrExpiresAt
<1>1. CASE bookings' = bookings
  BY <1>1
<1>2. ASSUME NEW b \in DOMAIN branches, NEW d \in DOMAIN departments,
             NEW s \in DOMAIN services, NEW t \in Requested, CreateBooking(b, d, s, t)
      PROVE  FALSE
  <2>1. PICK n : n = nextBookingId
    OBVIOUS
  <2> QED
    BY <1>2, <2>1, CreateBookingRow
<1>3. ASSUME NEW j \in DOMAIN bookings, NEW status \in BookingStatus,
             Change(j, [bookings[j] EXCEPT !.status = status])
      PROVE  FALSE
  <2>1. PICK row \in Booking : /\ row = [bookings[j] EXCEPT !.status = status] /\ Change(j, row)
    BY <1>3, RequestRows
  <2>2. row.qrUsedAt = bookings[j].qrUsedAt
    BY <2>1, RequestRows DEF Booking
  <2> QED
    BY <2>1, <2>2, ChangeRow
<1>4. ASSUME NEW j \in DOMAIN bookings, ConsumeQr(j)
      PROVE  /\ bookings[k].qrUsedAt = Undefined
             /\ Active(k) /\ Active(k)'
             /\ bookings[k].qrExpiresAt = NaN \/ now <= bookings[k].qrExpiresAt
  <2>1. PICK row \in Booking : /\ row = [bookings[j] EXCEPT !.qrUsedAt = now] /\ Change(j, row)
    BY <1>4, RequestRows DEF ConsumeQr
  <2>2. k = j /\ bookings'[k] = row
    BY <2>1, ChangeRow
  <2>3. /\ bookings[k] \in Booking /\ row.status = bookings[k].status
        /\ now \in Int /\ bookings[k].qrExpiresAt \in Int \cup {NaN}
    BY <2>1, <2>2, RequestRows, BookingsAssumption
       DEF Booking, BookingsIInv, BookingRows, BookingsTypeOK
  <2> QED
    BY <1>4, <2>2, <2>3 DEF ConsumeQr, IsQrValid, Active, QrExpired
<1>5. UNCHANGED bookingVars => bookings' = bookings
  BY DEF bookingVars
<1> QED
  BY <1>1, <1>2, <1>3, <1>4, <1>5
     DEF GatewayNext, BookingsNext, AdvanceClock, Confirm, Cancel, BookingStatus, gatewayVars

\* A token is consumed once at most, in time, and not after a cancellation.
THEOREM BookingsSingleUse == GatewaySpec => QrSingleUse
<1>1. BookingsIInv /\ [GatewayNext]_gatewayVars =>
        [\A k \in DOMAIN bookings :
           bookings'[k].qrUsedAt # bookings[k].qrUsedAt =>
             /\ bookings[k].qrUsedAt = Undefined
             /\ Active(k) /\ Active(k)'
             /\ bookings[k].qrExpiresAt = NaN \/ now <= bookings[k].qrExpiresAt]_gatewayVars
  BY ConsumedStep
<1> QED
  BY <1>1, BookingsInitInv, BookingsNextInv, PTL DEF GatewaySpec, QrSingleUse

----------------------------------------------------------------------------
(* Bookings and what is created after them *)

\* No booking names an id that is still to be issued.
BookedIds ==
  \A k \in DOMAIN bookings : /\ bookings[k].branchId < nextBranchId
                             /\ bookings[k].departmentId < nextDepartmentId
                             /\ bookings[k].serviceId < nextServiceId

SameNames(j, k) == /\ bookings'[j].branchId = bookings[k].branchId
                   /\ bookings'[j].departmentId = bookings[k].departmentId
                   /\ bookings'[j].serviceId = bookings[k].serviceId

\* Whatever the step, ids are issued in order and rows come under the next one.
LEMMA IdsGrow ==
  ASSUME BookingsIInv, [GatewayNext]_gatewayVars
  PROVE  /\ nextBranchId \in Nat /\ nextBranchId' \in Nat /\ nextBranchId' >= nextBranchId
         /\ nextDepartmentId \in Nat /\ nextDepartmentId' \in Nat
         /\ nextDepartmentId' >= nextDepartmentId
         /\ nextServiceId \in Nat /\ nextServiceId' \in Nat /\ nextServiceId' >= nextServiceId
         /\ DOMAIN branches' \subseteq DOMAIN branches \cup {nextBranchId}
         /\ DOMAIN departments' \subseteq DOMAIN departments \cup {nextDepartmentId}
         /\ DOMAIN services' \subseteq DOMAIN services \cup {nextServiceId}
<1>1. /\ nextBranchId \in Nat /\ nextDepartmentId \in Nat /\ nextServiceId \in Nat
      /\ nextBranchId' \in Nat /\ nextDepartmentId' \in Nat /\ nextServiceId' \in Nat
  BY BookingsNextInv DEF BookingsIInv, CatalogIInv, CatalogTypeOK, DirectoryIInv, DirectoryTypeOK
<1>2. CASE DirectoryNext /\ UNCHANGED catalogVars
  BY <1>1, <1>2, BranchIds, DepartmentIds DEF BookingsIInv, catalogVars
<1>3. CASE CatalogNext /\ UNCHANGED directoryVars
  BY <1>1, <1>3, ServiceIds DEF BookingsIInv, directoryVars, branchVars, departmentVars
<1>4. CASE UNCHANGED <<catalogVars, directoryVars>>
  BY <1>1, <1>4 DEF catalogVars, directoryVars, branchVars, departmentVars
<1> QED
  BY <1>2, <1>3, <1>4 DEF GatewayNext, OfferNext, gatewayVars, offerVars

\* Requests about bookings keep what these name.
LEMMA NamesKept ==
  ASSUME BookingsIInv, NEW k \in DOMAIN bookings, Confirm(k) \/ Cancel(k) \/ ConsumeQr(k)
  PROVE  /\ DOMAIN bookings' = DOMAIN bookings
         /\ \A j \in DOMAIN bookings : SameNames(j, j)
<1>1. bookings[k] \in Booking
  BY RequestRows
<1>2. PICK row : /\ bookings' = With(bookings, k, row)
                 /\ row.branchId = bookings[k].branchId
                 /\ row.departmentId = bookings[k].departmentId
                 /\ row.serviceId = bookings[k].serviceId
  BY <1>1 DEF Confirm, Cancel, ConsumeQr, Change, Booking
<1> QED
  BY <1>2 DEF With, SameNames

\* A booking request names rows that are there, under ids that were issued.
LEMMA BookedIdsKept ==
  ASSUME BookingsIInv, BookedIds, [GatewayNext]_gatewayVars
  PROVE  BookedIds'
<1>1. \A k \in DOMAIN bookings : bookings[k] \in Booking
  BY RequestRows
<1>2. ASSUME DOMAIN bookings' = DOMAIN bookings,
             \A k \in DOMAIN bookings : SameNames(k, k)
      PROVE  BookedIds'
  BY <1>1, <1>2, IdsGrow DEF BookedIds, SameNames, Booking
<1>3. ASSUME NEW b \in DOMAIN branches, NEW d \in DOMAIN departments,
             NEW s \in DOMAIN services, NEW t \in Requested,
             CreateBooking(b, d, s, t), UNCHANGED offerVars
      PROVE  BookedIds'
  <2>1. PICK n : n = nextBookingId
    OBVIOUS
  <2>2. /\ DOMAIN bookings' = DOMAIN bookings \cup {n}
        /\ \A k \in DOMAIN bookings : bookings'[k] = bookings[k]
        /\ bookings'[n].departmentId = d /\ bookings'[n].serviceId = s
    BY <1>3, <2>1, CreateBookingRow DEF SlotOf
  <2>3. bookings'[n].branchId = b
    BY <1>3, <2>1 DEF CreateBooking, With
  <2>4. /\ b < nextBranchId /\ d < nextDepartmentId /\ s < nextServiceId
    BY DEF BookingsIInv, CatalogIInv, CatalogTypeOK, DirectoryIInv, DirectoryTypeOK
  <2>5. /\ nextBranchId' = nextBranchId /\ nextDepartmentId' = nextDepartmentId
        /\ nextServiceId' = nextServiceId
    BY <1>3 DEF offerVars, catalogVars, directoryVars, branchVars, departmentVars
  <2> QED
    BY <2>2, <2>3, <2>4, <2>5 DEF BookedIds
<1>4. ASSUME NEW k \in DOMAIN bookings, Confirm(k) \/ Cancel(k) \/ ConsumeQr(k)
      PROVE  BookedIds'
  BY <1>2, <1>4, NamesKept
<1>5. CASE UNCHANGED bookings
  BY <1>2, <1>5 DEF SameNames
<1> QED
  BY <1>3, <1>4, <1>5 DEF GatewayNext, BookingsNext, AdvanceClock, gatewayVars, bookingVars

\* What is created while bookings are left behind by removals starts without them.
THEOREM BookingsNewcomers == GatewaySpec => NewcomersUnbooked
<1>1. GatewayInit => BookedIds
  BY DEF GatewayInit, BookingsInit, BookedIds
<1>2. BookingsIInv /\ BookedIds /\ [GatewayNext]_gatewayVars => BookedIds'
  BY BookedIdsKept
<1>3. BookingsIInv /\ BookedIds /\ [GatewayNext]_gatewayVars =>
        [\A k \in DOMAIN bookings :
           /\ bookings[k].branchId \notin DOMAIN branches' \ DOMAIN branches
           /\ bookings[k].departmentId \notin DOMAIN departments' \ DOMAIN departments
           /\ bookings[k].serviceId \notin DOMAIN services' \ DOMAIN services]_gatewayVars
  <2> SUFFICES ASSUME BookingsIInv, BookedIds, [GatewayNext]_gatewayVars,
                      NEW k \in DOMAIN bookings
               PROVE  /\ bookings[k].branchId \notin DOMAIN branches' \ DOMAIN branches
                      /\ bookings[k].departmentId \notin DOMAIN departments' \ DOMAIN departments
                      /\ bookings[k].serviceId \notin DOMAIN services' \ DOMAIN services
    OBVIOUS
  <2>1. /\ bookings[k].branchId # nextBranchId /\ bookings[k].departmentId # nextDepartmentId
        /\ bookings[k].serviceId # nextServiceId
    BY IdsGrow, RequestRows DEF BookedIds, Booking
  <2> QED
    BY <2>1, IdsGrow
<1> QED
  BY <1>1, <1>2, <1>3, BookingsInitInv, BookingsNextInv, PTL DEF GatewaySpec, NewcomersUnbooked

----------------------------------------------------------------------------
(* The refinement *)

Holding == {<<SlotOf(k), k>> : k \in {j \in DOMAIN bookings : Active(j)}}
Redeemable == {k \in DOMAIN bookings : IsQrValid(k)}

LEMMA DeskInitially == GatewayInit => Desk!Init
  BY DEF GatewayInit, BookingsInit, Desk!Init

\* A new booking reserves a slot nobody holds.
LEMMA CreateBookingReserves ==
  ASSUME BookingsIInv,
         NEW b \in DOMAIN branches, NEW d \in DOMAIN departments,
         NEW s \in DOMAIN services, NEW t \in Requested,
         CreateBooking(b, d, s, t)
  PROVE  Desk!Next
<1>0. PICK n : n = nextBookingId
  OBVIOUS
<1>1. /\ n \in Nat /\ n >= 1 /\ n <= MaxBookingId /\ n \notin DOMAIN bookings
      /\ nextBookingId' = n + 1 /\ now' = now
      /\ DOMAIN bookings' = DOMAIN bookings \cup {n}
      /\ SlotOf(n)' = <<d, s, t>> /\ Active(n)'
      /\ \A k \in DOMAIN bookings : Active(k) => SlotOf(k) # <<d, s, t>>
  BY <1>0, CreateBookingRow
<1>2. \A k \in DOMAIN bookings : bookings'[k] = bookings[k]
  BY <1>0, CreateBookingRow
<1>3. \A k \in DOMAIN bookings : /\ Active(k)' <=> Active(k)
                                 /\ SlotOf(k)' = SlotOf(k)
                                 /\ IsQrValid(k)' <=> IsQrValid(k)
  BY <1>1, <1>2 DEF Active, SlotOf, IsQrValid, QrExpired
<1>4. Holding' = Holding \cup {<<<<d, s, t>>, n>>}
  BY <1>1, <1>3 DEF Holding
<1>5. Redeemable' \in {Redeemable, Redeemable \cup {n}}
  BY <1>1, <1>3 DEF Redeemable
<1>6. n \notin 1..(nextBookingId - 1)
      /\ 1..(nextBookingId' - 1) = (1..(nextBookingId - 1)) \cup {n}
  BY <1>0, <1>1
<1>7. \A h \in Holding : h[1] # <<d, s, t>>
  BY <1>1 DEF Holding
<1>8. <<d, s, t>> \in (1..MaxDepartmentId) \X (1..MaxServiceId) \X Requested
  BY CatalogAssumption, DirectoryAssumption
     DEF BookingsIInv, CatalogIInv, CatalogTypeOK, DirectoryIInv, DirectoryTypeOK
<1>9. Desk!Reserve(<<d, s, t>>, n)
  BY <1>4, <1>5, <1>6, <1>7 DEF Desk!Reserve, Holding, Redeemable
<1>10. n \in 1..MaxBookingId
  BY <1>1, BookingsAssumption
<1> QED
  BY <1>8, <1>9, <1>10 DEF Desk!Next

\* A request about a booking changes no other booking's place at the desk.
LEMMA OthersAtDesk ==
  ASSUME BookingsIInv, NEW k \in DOMAIN bookings, NEW row \in Booking, Change(k, row),
         NEW j \in DOMAIN bookings, j # k
  PROVE  /\ Active(j)' <=> Active(j)
         /\ SlotOf(j)' = SlotOf(j)
         /\ IsQrValid(j)' <=> IsQrValid(j)
  BY ChangeRow DEF Active, SlotOf, IsQrValid, QrExpired

\* Confirming is invisible to the desk.
LEMMA ConfirmStutters ==
  ASSUME BookingsIInv, NEW k \in DOMAIN bookings, Confirm(k)
  PROVE  UNCHANGED <<Holding, nextBookingId, Redeemable>>
<1>1. PICK row \in Booking : /\ Change(k, row)
                             /\ row = [bookings[k] EXCEPT !.status = "CONFIRMED"]
  BY RequestRows DEF Confirm, BookingStatus
<1>2. /\ DOMAIN bookings' = DOMAIN bookings /\ nextBookingId' = nextBookingId
      /\ now' = now /\ bookings'[k] = row
  BY <1>1, ChangeRow
<1>3. Active(k) /\ bookings[k] \in Booking
  BY RequestRows DEF Confirm
<1>4. /\ Active(k)' <=> Active(k)
      /\ SlotOf(k)' = SlotOf(k)
      /\ IsQrValid(k)' <=> IsQrValid(k)
  BY <1>1, <1>2, <1>3 DEF Active, SlotOf, IsQrValid, QrExpired, Booking
<1>5. \A j \in DOMAIN bookings : /\ Active(j)' <=> Active(j)
                                 /\ SlotOf(j)' = SlotOf(j)
                                 /\ IsQrValid(j)' <=> IsQrValid(j)
  BY <1>1, <1>4, OthersAtDesk
<1> QED
  BY <1>2, <1>5 DEF Holding, Redeemable

\* Cancelling gives the slot and the token up.
LEMMA CancelReleases ==
  ASSUME BookingsIInv, NEW k \in DOMAIN bookings, Cancel(k)
  PROVE  Desk!Release(k)
<1>1. PICK row \in Booking : /\ Change(k, row)
                             /\ row = [bookings[k] EXCEPT !.status = "CANCELLED"]
  BY RequestRows DEF Cancel, BookingStatus
<1>2. /\ DOMAIN bookings' = DOMAIN bookings /\ nextBookingId' = nextBookingId
      /\ bookings'[k] = row
  BY <1>1, ChangeRow
<1>3. Active(k) /\ ~Active(k)' /\ ~IsQrValid(k)'
  <2>1. bookings[k] \in Booking
    BY RequestRows
  <2> QED
    BY <1>1, <1>2, <2>1 DEF Cancel, Active, IsQrValid, Booking
<1>4. \A j \in DOMAIN bookings \ {k} : /\ Active(j)' <=> Active(j)
                                       /\ SlotOf(j)' = SlotOf(j)
                                       /\ IsQrValid(j)' <=> IsQrValid(j)
  BY <1>1, OthersAtDesk
<1>5. Holding' = {h \in Holding : h[2] # k}
  BY <1>2, <1>3, <1>4 DEF Holding
<1>6. Redeemable' = Redeemable \ {k}
  BY <1>2, <1>3, <1>4 DEF Redeemable
<1>7. k \in {h[2] : h \in Holding}
  <2>1. <<SlotOf(k), k>> \in Holding
    BY <1>3 DEF Holding
  <2> QED
    BY <2>1
<1> QED
  BY <1>2, <1>5, <1>6, <1>7 DEF Desk!Release, Desk!Holders, Holding, Redeemable

\* Consuming a token redeems it.
LEMMA ConsumeQrRedeems ==
  ASSUME BookingsIInv, NEW k \in DOMAIN bookings, ConsumeQr(k)
  PROVE  Desk!Redeem(k)
<1>1. PICK row \in Booking : /\ Change(k, row)
                             /\ row = [bookings[k] EXCEPT !.qrUsedAt = now]
  BY RequestRows DEF ConsumeQr
<1>2. /\ DOMAIN bookings' = DOMAIN bookings /\ nextBookingId' = nextBookingId
      /\ bookings'[k] = row
  BY <1>1, ChangeRow
<1>3. /\ Active(k)' <=> Active(k)
      /\ SlotOf(k)' = SlotOf(k)
      /\ IsQrValid(k) /\ ~IsQrValid(k)'
  <2>1. bookings[k] \in Booking /\ now # Undefined
    BY RequestRows, AbsentValues DEF BookingsIInv, BookingRows, BookingsTypeOK
  <2> QED
    BY <1>1, <1>2, <2>1 DEF ConsumeQr, Active, SlotOf, IsQrValid, Booking
<1>4. \A j \in DOMAIN bookings \ {k} : /\ Active(j)' <=> Active(j)
                                       /\ SlotOf(j)' = SlotOf(j)
                                       /\ IsQrValid(j)' <=> IsQrValid(j)
  BY <1>1, OthersAtDesk
<1>5. Holding' = Holding
  BY <1>2, <1>3, <1>4 DEF Holding
<1>6. k \in Redeemable /\ Redeemable' = Redeemable \ {k}
  BY <1>2, <1>3, <1>4 DEF Redeemable
<1> QED
  BY <1>2, <1>5, <1>6 DEF Desk!Redeem, Holding, Redeemable

\* As time passes, tokens lapse and nothing else happens at the desk.
LEMMA AdvanceClockLapses ==
  ASSUME BookingsIInv, AdvanceClock
  PROVE  Desk!Lapse
<1>1. /\ bookings' = bookings /\ nextBookingId' = nextBookingId
      /\ now \in Nat /\ now' = now + 1
  BY BookingsAssumption
     DEF AdvanceClock, bookingVars, BookingsIInv, BookingRows, BookingsTypeOK
<1>2. \A k \in DOMAIN bookings : QrExpired(k) => QrExpired(k)'
  <2>1. \A k \in DOMAIN bookings : bookings[k].qrExpiresAt \in Int \cup {NaN}
    BY DEF BookingsIInv, BookingRows, BookingsTypeOK, Booking
  <2> QED
    BY <1>1, <2>1 DEF QrExpired
<1>3. Redeemable' \subseteq Redeemable
  BY <1>1, <1>2 DEF Redeemable, IsQrValid, Active
<1>4. Holding' = Holding
  BY <1>1 DEF Holding, Active, SlotOf
<1> QED
  BY <1>1, <1>3, <1>4 DEF Desk!Lapse, Holding, Redeemable

LEMMA DeskStep ==
  ASSUME BookingsIInv, [GatewayNext]_gatewayVars
  PROVE  [Desk!Next]_(Desk!vars)
<1>1. ASSUME NEW b \in DOMAIN branches, NEW d \in DOMAIN departments,
             NEW s \in DOMAIN services, NEW t \in Requested, CreateBooking(b, d, s, t)
      PROVE  Desk!Next
  BY <1>1, CreateBookingReserves
<1>2. ASSUME NEW k \in DOMAIN bookings, Confirm(k)
      PROVE  UNCHANGED Desk!vars
  BY <1>2, ConfirmStutters DEF Desk!vars, Holding, Redeemable
<1>3. ASSUME NEW k \in DOMAIN bookings, Cancel(k) \/ ConsumeQr(k)
      PROVE  Desk!Next
  <2>1. k \in 1..(nextBookingId - 1)
    BY DEF BookingsIInv, BookingRows, BookingsTypeOK
  <2> QED
    BY <1>3, <2>1, CancelReleases, ConsumeQrRedeems DEF Desk!Next
<1>4. CASE AdvanceClock
  BY <1>4, AdvanceClockLapses DEF Desk!Next
<1>5. CASE UNCHANGED <<bookings, nextBookingId, now>>
  BY <1>5 DEF Desk!vars, Active, SlotOf, IsQrValid, QrExpired
<1> QED
  BY <1>1, <1>2, <1>3, <1>4, <1>5 DEF GatewayNext, BookingsNext, gatewayVars, bookingVars

\* The bookings implement a booking desk: each request is one step of it or
\* invisible to it, and each change of the directory is invisible.
THEOREM BookingsImplementDesk == GatewaySpec => DeskSpec
<1>1. BookingsIInv /\ [GatewayNext]_gatewayVars => [Desk!Next]_(Desk!vars)
  BY DeskStep
<1> QED
  BY <1>1, DeskInitially, BookingsInitInv, BookingsNextInv, PTL
     DEF GatewaySpec, DeskSpec, Desk!Spec

----------------------------------------------------------------------------
(* What the desk promises, of the bookings *)

DeskProofs == INSTANCE ReservationsProofs WITH
  Slots <- (1..MaxDepartmentId) \X (1..MaxServiceId) \X Requested,
  Ids <- 1..MaxBookingId,
  held <- {<<SlotOf(k), k>> : k \in {j \in DOMAIN bookings : Active(j)}},
  issued <- 1..(nextBookingId - 1),
  live <- {k \in DOMAIN bookings : IsQrValid(k)}

LEMMA SameDesk ==
  /\ Desk!Init <=> DeskProofs!Init
  /\ [Desk!Next]_(Desk!vars) <=> [DeskProofs!Next]_(DeskProofs!vars)
<1>1. Desk!Init <=> DeskProofs!Init
  BY DEF Desk!Init, DeskProofs!Init
<1>2. /\ Desk!Next <=> DeskProofs!Next
      /\ Desk!vars = DeskProofs!vars /\ Desk!vars' = DeskProofs!vars'
  BY Zenon DEF Desk!Next, Desk!Reserve, Desk!Release, Desk!Redeem, Desk!Lapse, Desk!Holders, Desk!vars,
         DeskProofs!Next, DeskProofs!Reserve, DeskProofs!Release, DeskProofs!Redeem,
         DeskProofs!Lapse, DeskProofs!Holders, DeskProofs!vars
<1> QED
  BY <1>1, <1>2

\* At every moment a slot has one holder and a booking one slot, and only a booking
\* that holds its slot has a token that can be redeemed.
THEOREM BookingsKeepDesk == GatewaySpec => [](Desk!OneHolderPerSlot /\ Desk!LiveTokensHold)
<1>1. DeskProofs!OneHolderPerSlot /\ DeskProofs!LiveTokensHold
        <=> Desk!OneHolderPerSlot /\ Desk!LiveTokensHold
  BY Zenon DEF Desk!OneHolderPerSlot, Desk!LiveTokensHold, Desk!Holders,
         DeskProofs!OneHolderPerSlot, DeskProofs!LiveTokensHold, DeskProofs!Holders
<1> QED
  BY <1>1, BookingsImplementDesk, DeskProofs!DeskCorrect, SameDesk, PTL
     DEF DeskSpec, Desk!Spec, DeskProofs!Spec

\* A token that cannot be redeemed any more, and a booking that gave its slot back,
\* stay that way: a screenshot of a QR code is worth nothing once it was used, its
\* booking was cancelled or its time is over.
THEOREM BookingsNeverRevive == GatewaySpec => Desk!NoRevival
<1>1. DeskProofs!NoRevival <=> Desk!NoRevival
  BY DEF Desk!NoRevival, DeskProofs!NoRevival, Desk!Holders, DeskProofs!Holders, Desk!vars, DeskProofs!vars
<1> QED
  BY <1>1, BookingsImplementDesk, DeskProofs!DeskNoRevival, SameDesk, PTL
     DEF DeskSpec, Desk!Spec, DeskProofs!Spec

----------------------------------------------------------------------------
(* The directory keeps its promises under the bookings *)

\* The bookings only read the directory: under them it behaves as it does alone.
THEOREM GatewayParts == GatewaySpec => OfferSpec
<1>1. GatewayInit => OfferInit
  BY DEF GatewayInit
<1>2. [GatewayNext]_gatewayVars => [OfferNext]_offerVars
  BY Zenon DEF GatewayNext, gatewayVars
<1> QED
  BY <1>1, <1>2, PTL DEF GatewaySpec, OfferSpec

\* In the local half as a whole, with requests to all its services interleaved in any
\* order, the catalog is a forest with unique codes and bookable leaves whose walks
\* end, the tables and the links are logged, and what dangles stays dangling.
THEOREM GatewayKeepsDirectory ==
  GatewaySpec => /\ [](CatalogTypeOK /\ Forest /\ ServicesAreLeaves /\ UniqueCodes)
                 /\ [](PlacementAudited /\ DescendantWalk)
                 /\ [](DirectoryTypeOK /\ DirectoryAudited)
                 /\ [](LinksTypeOK /\ OneLinkPerPair /\ LinksAudited)
                 /\ OrphanStaysOrphan /\ DanglingStaysDangling
  BY GatewayParts, OfferParts, CatalogTypeCorrect, CatalogForest, CatalogLeaves,
     CatalogCodes, CatalogPlacement, CatalogWalk, DirectoryTypeCorrect, DirectoryLogged,
     DirectoryOrphans, LinksTypeCorrect, LinksUnique, LinksLogged, LinksDangle, PTL

=============================================================================
