------------------------- MODULE ReservationsProofs -------------------------
(* The promises of a booking desk follow from its specification. *)
EXTENDS Reservations, TLAPS

DeskInv == OneHolderPerSlot /\ LiveTokensHold

LEMMA DeskInitInv == Init => DeskInv
  BY DEF Init, DeskInv, OneHolderPerSlot, LiveTokensHold, Holders

LEMMA DeskNextInv == DeskInv /\ [Next]_vars => DeskInv'
<1> SUFFICES ASSUME DeskInv, [Next]_vars PROVE DeskInv'
  OBVIOUS
<1> USE DEF DeskInv, OneHolderPerSlot, LiveTokensHold, Holders
<1>1. ASSUME NEW slot, NEW b, Reserve(slot, b)
      PROVE  DeskInv'
  <2>1. held' = held \cup {<<slot, b>>} /\ issued' = issued \cup {b}
    BY <1>1 DEF Reserve
  <2>2. \A h \in held : h[1] # slot /\ h[2] # b
    BY <1>1 DEF Reserve
  <2>3. OneHolderPerSlot'
    <3> SUFFICES ASSUME NEW g \in held', NEW h \in held', g[1] = h[1] \/ g[2] = h[2]
                 PROVE  g = h
      OBVIOUS
    <3>1. CASE g \in held /\ h \in held
      BY <3>1
    <3>2. CASE g \notin held \/ h \notin held
      BY <3>2, <2>1, <2>2
    <3> QED
      BY <3>1, <3>2
  <2>4. Holders' = Holders \cup {b}
    <3>1. Holders' \subseteq Holders \cup {b}
      BY <2>1
    <3>2. Holders \subseteq Holders'
      BY <2>1
    <3>3. b \in Holders'
      <4>1. <<slot, b>> \in held' /\ <<slot, b>>[2] = b
        BY <2>1
      <4> QED
        BY <4>1
    <3> QED
      BY <3>1, <3>2, <3>3
  <2>5. live' \subseteq live \cup {b}
    BY <1>1 DEF Reserve
  <2>6. LiveTokensHold'
    BY <2>1, <2>4, <2>5
  <2> QED
    BY <2>3, <2>6
<1>2. ASSUME NEW b, Release(b)
      PROVE  DeskInv'
  BY <1>2 DEF Release
<1>3. ASSUME NEW b, Redeem(b)
      PROVE  DeskInv'
  BY <1>3 DEF Redeem
<1>4. CASE Lapse
  BY <1>4 DEF Lapse
<1>5. CASE UNCHANGED vars
  BY <1>5 DEF vars
<1> QED
  BY <1>1, <1>2, <1>3, <1>4, <1>5 DEF Next

\* At most one booking holds a slot, and only holders have live tokens.
THEOREM DeskCorrect == Spec => [](OneHolderPerSlot /\ LiveTokensHold)
  BY DeskInitInv, DeskNextInv, PTL DEF Spec, DeskInv

\* No step revives a token or a holding.
LEMMA DeskStepNoRevival ==
  ASSUME DeskInv, Next, NEW b \in issued
  PROVE  /\ b \notin live => b \notin live'
         /\ b \notin Holders => b \notin Holders'
<1>1. ASSUME NEW slot, NEW c, Reserve(slot, c)
      PROVE  /\ b \notin live => b \notin live'
             /\ b \notin Holders => b \notin Holders'
  BY <1>1 DEF Reserve, Holders
<1>2. ASSUME NEW c, Release(c) \/ Redeem(c) \/ Lapse
      PROVE  /\ b \notin live => b \notin live'
             /\ b \notin Holders => b \notin Holders'
  BY <1>2 DEF Release, Redeem, Lapse, Holders
<1> QED
  BY <1>1, <1>2 DEF Next

\* A token that died and a booking that gave its slot back stay that way: a
\* token is redeemed at most once.
THEOREM DeskNoRevival == Spec => NoRevival
<1>1. DeskInv /\ [Next]_vars =>
        [\A b \in issued : /\ b \notin live => b \notin live'
                           /\ b \notin Holders => b \notin Holders']_vars
  BY DeskStepNoRevival
<1> QED
  BY <1>1, DeskInitInv, DeskNextInv, PTL DEF Spec, NoRevival

=============================================================================
