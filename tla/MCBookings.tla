----------------------------- MODULE MCBookings -----------------------------
(***************************************************************************)
(* Instances of Bookings for TLC.  One branch, one department, one service  *)
(* and one link come, are switched off and on, and go under the bookings;   *)
(* in Newcomers each may come a second time.  A day has two hours here and  *)
(* offers its hour 1 as a slot.                                             *)
(***************************************************************************)
EXTENDS Bookings

CONSTANTS a  \* the one catalog code that requests give

MCOneCode == {a}
MCServiceOnly == {"SERVICE"}
MCFirstId == {1}
MCTwoIds == {1, 2}
MCSwitch == {TRUE, FALSE}
MCOn == {TRUE}
MCBranchCode == {"ALM"}

\* a slot of today, a slot of tomorrow, and a time between that is no slot
MCRequested == {1, 2, 3}
MCDates == {0, 1}
MCOneTime == {1}

=============================================================================
