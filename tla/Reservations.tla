---------------------------- MODULE Reservations ----------------------------
(***************************************************************************)
(* What a booking desk promises, whoever runs it and however it is stored:  *)
(*   - a slot is held by at most one booking at a time;                     *)
(*   - a booking that gave its slot back never holds a slot again;          *)
(*   - a booking's token is live at most from the booking on until it is    *)
(*     redeemed, its booking is given up or it lapses, and never again:     *)
(*     so it is redeemed at most once, and only while its booking holds.    *)
(* Bookings is shown to implement this.                                     *)
(***************************************************************************)
CONSTANTS Slots, Ids

VARIABLES
  held,     \* the pairs <<slot, booking>>: the booking holds the slot
  issued,   \* the bookings ever made
  live      \* the bookings whose token can be redeemed

vars == <<held, issued, live>>

Holders == {h[2] : h \in held}

Init == held = {} /\ issued = {} /\ live = {}

\* A booking that was never made before takes a slot that nobody holds.  Its
\* token is live, unless it lapsed before it was born.
Reserve(slot, b) ==
  /\ b \notin issued
  /\ \A h \in held : h[1] # slot
  /\ held' = held \cup {<<slot, b>>}
  /\ issued' = issued \cup {b}
  /\ live' \in {live, live \cup {b}}

Release(b) ==
  /\ b \in Holders
  /\ held' = {h \in held : h[2] # b}
  /\ live' = live \ {b}
  /\ UNCHANGED issued

Redeem(b) ==
  /\ b \in live
  /\ live' = live \ {b}
  /\ UNCHANGED <<held, issued>>

Lapse == live' \in SUBSET live /\ UNCHANGED <<held, issued>>

Next ==
  \/ \E slot \in Slots, b \in Ids : Reserve(slot, b)
  \/ \E b \in issued : Release(b) \/ Redeem(b)
  \/ Lapse

Spec == Init /\ [][Next]_vars

----------------------------------------------------------------------------
\* At most one booking holds a slot, and a booking holds at most one slot.
OneHolderPerSlot ==
  \A g, h \in held : (g[1] = h[1] \/ g[2] = h[2]) => g = h

\* Only a booking that holds its slot can have its token redeemed.
LiveTokensHold == live \subseteq Holders /\ Holders \subseteq issued

\* A token that is not live, and a booking that holds no slot, stay that way
\* once the booking was made.
NoRevival ==
  [][\A b \in issued : /\ b \notin live => b \notin live'
                       /\ b \notin Holders => b \notin Holders']_vars

=============================================================================
