------------------------------ MODULE Bookings ------------------------------
(***************************************************************************)
(* BookingsService (src/bookings/bookings.service.ts): the local bookings,  *)
(* their slots and their QR tokens, on top of the directory it is injected  *)
(* with.  A request handler is one step: none of them awaits anything, and  *)
(* Node runs them one at a time.  Between two requests of a client the      *)
(* clock, the directory and the other clients move.                         *)
(*                                                                         *)
(* Time is counted in hours.  A token is a fresh random UUID, so it stands  *)
(* for its booking's id.  Customers, notes and timestamps are left out.     *)
(***************************************************************************)
EXTENDS DepartmentServices

CONSTANTS
  Requested,     \* the instants a booking request may ask for
  Dates,         \* the dates a slot query may ask for
  DayLength,     \* hours in a day: 24
  FirstSlot,     \* the hour of the first slot offered: 9
  SlotCount,     \* the number of hourly slots offered: 8
  QrTtl,         \* validity of a token past its visit: Number(QR_TTL_MINUTES ?? 30)
  NaN,           \* the QrTtl that Number() makes of a malformed setting
  MaxBookingId,  \* bound: the highest booking id issued
  MaxTime        \* bound: the last instant of the clock

ASSUME BookingsAssumption ==
  /\ Requested \subseteq Int /\ Dates \subseteq Nat
  /\ DayLength \in Nat \ {0} /\ FirstSlot \in Nat /\ SlotCount \in Nat
  /\ FirstSlot + SlotCount <= DayLength
  /\ QrTtl \in Int \cup {NaN} /\ NaN \notin Int
  /\ MaxBookingId \in Nat /\ MaxTime \in Nat

VARIABLES bookings, nextBookingId, bookingTrail,
          now  \* the clock the handlers read

bookingVars == <<bookings, nextBookingId, bookingTrail>>
gatewayVars == <<offerVars, bookingVars, now>>

BookingStatus == {"PENDING", "CONFIRMED", "CANCELLED"}
Booking ==
  [branchId: Nat, departmentId: Nat, serviceId: Nat, scheduledAt: Int,
   status: BookingStatus, qrExpiresAt: Int \cup {NaN}, qrUsedAt: Nat \cup {Undefined}]

BookingsInit == /\ bookings = [k \in {} |-> Null] /\ nextBookingId = 1
                /\ bookingTrail = [k \in {} |-> Null]
                /\ now = 0

----------------------------------------------------------------------------
(* What the handlers look at *)

\* assertBookingAvailability
BookingAvailable(b, d, s) ==
  /\ b \in DOMAIN branches /\ branches[b].isActive
  /\ d \in DOMAIN departments /\ departments[d].isActive
  /\ departments[d].branchId = b
  /\ IsService(s) /\ services[s].isActive
  /\ ServiceAvailable(d, s, "booking")

Active(k) == bookings[k].status # "CANCELLED"

\* the slot a booking is for; its branch is not part of it
SlotOf(k) ==
  <<bookings[k].departmentId, bookings[k].serviceId, bookings[k].scheduledAt>>

\* mutant: only confirmed bookings are in the way
HasConfirmedConflict(d, s, t) ==
  \E k \in DOMAIN bookings : bookings[k].status = "CONFIRMED" /\ SlotOf(k) = <<d, s, t>>

HasSlotConflict(d, s, t) ==
  \E k \in DOMAIN bookings : Active(k) /\ SlotOf(k) = <<d, s, t>>

CanBook(b, d, s, t) ==
  BookingAvailable(b, d, s) /\ t > now /\ ~HasSlotConflict(d, s, t)

\* the instants of getAvailableSlots for one date
SlotsOn(date) == {date * DayLength + FirstSlot + n : n \in 0..(SlotCount - 1)}

\* mutant: a cancelled booking keeps its slot from being offered
EverBookedSlots(d, s, date) ==
  {t \in SlotsOn(date) : \E k \in DOMAIN bookings : SlotOf(k) = <<d, s, t>>}

BookedSlots(d, s, date) ==
  {bookings[k].scheduledAt : k \in
     {j \in DOMAIN bookings : /\ bookings[j].departmentId = d
                              /\ bookings[j].serviceId = s
                              /\ Active(j)
                              /\ bookings[j].scheduledAt \div DayLength = date}}

AvailableSlots(d, s, date) ==
  {t \in SlotsOn(date) : t > now /\ t \notin BookedSlots(d, s, date)}

\* mutant: the expiry is compared with the visit, not with the clock
QrExpiredAtVisit(k) ==
  bookings[k].qrExpiresAt # NaN /\ bookings[k].qrExpiresAt < bookings[k].scheduledAt

\* a comparison with an invalid date is false
QrExpired(k) == bookings[k].qrExpiresAt # NaN /\ bookings[k].qrExpiresAt < now

\* mutants: the status, or the earlier use, is not looked at
IsQrValidWhenCancelled(k) == ~QrExpired(k) /\ bookings[k].qrUsedAt = Undefined
IsQrValidAgain(k) == Active(k) /\ ~QrExpired(k)

IsQrValid(k) ==
  Active(k) /\ ~QrExpired(k) /\ bookings[k].qrUsedAt = Undefined

----------------------------------------------------------------------------
(* The requests *)

QrExpiry(t) == IF QrTtl = NaN THEN NaN ELSE t + QrTtl

\* the audit record qr.generated holds the QR fields alone
RecordQr(trail, k, expiry) == [trail EXCEPT ![k].qrExpiresAt = expiry]

CreateBooking(b, d, s, t) ==
  LET booking == [branchId |-> b, departmentId |-> d, serviceId |-> s,
                  scheduledAt |-> t, status |-> "PENDING",
                  qrExpiresAt |-> QrExpiry(t), qrUsedAt |-> Undefined]
  IN /\ nextBookingId <= MaxBookingId
     /\ CanBook(b, d, s, t)
     /\ bookings' = With(bookings, nextBookingId, booking)
     /\ bookingTrail' = RecordQr(RecordAfter(bookingTrail, nextBookingId, booking),
                                 nextBookingId, booking.qrExpiresAt)
     /\ nextBookingId' = nextBookingId + 1
     /\ UNCHANGED now

\* mutant: the record is made before the change
ChangeRecordedBefore(k, booking) ==
  /\ bookings' = With(bookings, k, booking)
  /\ bookingTrail' = RecordAfter(bookingTrail, k, bookings[k])
  /\ UNCHANGED <<nextBookingId, now>>

\* the booking found under k is changed in place and recorded
Change(k, booking) ==
  /\ bookings' = With(bookings, k, booking)
  /\ bookingTrail' = RecordAfter(bookingTrail, k, booking)
  /\ UNCHANGED <<nextBookingId, now>>

\* mutant: a cancelled booking can be confirmed
ConfirmCancelled(k) == Change(k, [bookings[k] EXCEPT !.status = "CONFIRMED"])

\* confirming again is accepted, and recorded again
Confirm(k) ==
  /\ Active(k)
  /\ Change(k, [bookings[k] EXCEPT !.status = "CONFIRMED"])

\* mutant: a cancelled booking is taken out of the list
CancelRemoves(k) ==
  /\ Active(k)
  /\ bookings' = Without(bookings, k)
  /\ bookingTrail' = RecordRemoval(bookingTrail, k)
  /\ UNCHANGED <<nextBookingId, now>>

\* cancelling again answers with the booking and changes nothing
Cancel(k) ==
  /\ Active(k)
  /\ Change(k, [bookings[k] EXCEPT !.status = "CANCELLED"])

ConsumeQr(k) ==
  /\ IsQrValid(k)
  /\ Change(k, [bookings[k] EXCEPT !.qrUsedAt = now])

AdvanceClock ==
  /\ now < MaxTime
  /\ now' = now + 1
  /\ UNCHANGED bookingVars

BookingsNext ==
  \/ \E b \in DOMAIN branches, d \in DOMAIN departments, s \in DOMAIN services,
        t \in Requested : CreateBooking(b, d, s, t)
  \/ \E k \in DOMAIN bookings : Confirm(k) \/ Cancel(k) \/ ConsumeQr(k)
  \/ AdvanceClock

----------------------------------------------------------------------------
(* The local half of the gateway *)

GatewayInit == OfferInit /\ BookingsInit

GatewayNext ==
  \/ OfferNext /\ UNCHANGED <<bookingVars, now>>
  \/ BookingsNext /\ UNCHANGED offerVars

GatewaySpec == GatewayInit /\ [][GatewayNext]_gatewayVars

\* time passes, whatever the requests do
FairGatewaySpec == GatewaySpec /\ WF_gatewayVars(AdvanceClock /\ UNCHANGED offerVars)

----------------------------------------------------------------------------
(* What the bookings promise *)

\* Bookings are well-formed rows under issued ids; the clock is within bounds.
BookingsTypeOK ==
  /\ nextBookingId \in 1..(MaxBookingId + 1)
  /\ DOMAIN bookings = 1..(nextBookingId - 1)
  /\ bookings \in [DOMAIN bookings -> Booking]
  /\ now \in 0..MaxTime

\* A slot (department, service, time) belongs to at most one booking that is
\* not cancelled, whatever sequence of bookings, cancellations and
\* confirmations the clients interleave.
SlotExclusive ==
  \A j, k \in DOMAIN bookings :
    (Active(j) /\ Active(k) /\ SlotOf(j) = SlotOf(k)) => j = k

\* A cancelled booking never holds its slot again and never changes again.
CancelledIsFinal ==
  [][\A k \in DOMAIN bookings :
       ~Active(k) => k \in DOMAIN bookings' /\ bookings'[k] = bookings[k]]_gatewayVars

\* A token is consumed at most once ("single-use protection", README.md:9), at
\* an instant inside its validity, and never after its booking was cancelled.
QrSingleUse ==
  [][\A k \in DOMAIN bookings :
       bookings'[k].qrUsedAt # bookings[k].qrUsedAt =>
         /\ bookings[k].qrUsedAt = Undefined
         /\ Active(k) /\ Active(k)'
         /\ bookings[k].qrExpiresAt = NaN \/ now <= bookings[k].qrExpiresAt]_gatewayVars

\* The slots offered for a date are those that a booking request for the same
\* branch, department and service would be granted at that moment: the two
\* handlers decide alike what is free.
OfferedIsBookable ==
  \A b \in DOMAIN branches, d \in DOMAIN departments, s \in DOMAIN services,
     date \in Dates :
    BookingAvailable(b, d, s) =>
      AvailableSlots(d, s, date) = {t \in SlotsOn(date) : CanBook(b, d, s, t)}

\* What the directory creates starts with no bookings: whatever was removed under
\* the bookings that name it, its visitors are never sent to a branch, a department
\* or a service that came later.
NewcomersUnbooked ==
  [][\A k \in DOMAIN bookings :
       /\ bookings[k].branchId \notin DOMAIN branches' \ DOMAIN branches
       /\ bookings[k].departmentId \notin DOMAIN departments' \ DOMAIN departments
       /\ bookings[k].serviceId \notin DOMAIN services' \ DOMAIN services]_gatewayVars

\* "in-memory audit log for ... booking lifecycle" (README.md:10): the log
\* replays to the bookings as they are.
BookingsAudited == bookingTrail = bookings

\* No token can be redeemed for ever, confirmed or not: time alone ends it.
QrEndsEventually ==
  \A k \in 1..MaxBookingId :
    (k \in DOMAIN bookings) ~> (k \in DOMAIN bookings /\ ~IsQrValid(k))

----------------------------------------------------------------------------
(* The bookings implement the promises of a booking desk *)

Desk == INSTANCE Reservations WITH
  Slots <- (1..MaxDepartmentId) \X (1..MaxServiceId) \X Requested,
  Ids <- 1..MaxBookingId,
  held <- {<<SlotOf(k), k>> : k \in {j \in DOMAIN bookings : Active(j)}},
  issued <- 1..(nextBookingId - 1),
  live <- {k \in DOMAIN bookings : IsQrValid(k)}

DeskSpec == Desk!Spec

=============================================================================
