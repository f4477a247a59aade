------------------------------- MODULE Relay -------------------------------
(***************************************************************************)
(* What a client may conclude from an answer that the gateway got from       *)
(* another service.  A request is done at most once, and at any time, unless *)
(* the client was told how it ended: what is called done was done, what is   *)
(* called refused was not and never will be, and what is called unknown may   *)
(* still be done after the answer.                                          *)
(***************************************************************************)
EXTENDS Naturals

CONSTANT Requests

VARIABLES
  done,  \* of each request: how often it was done
  said   \* of each request: what its client was told

Said == {"nothing", "done", "refused", "unknown"}

RelayInit ==
  /\ done = [r \in Requests |-> 0]
  /\ said = [r \in Requests |-> "nothing"]

Do(r) ==
  /\ done[r] = 0 /\ said[r] \in {"nothing", "unknown"}
  /\ done' = [done EXCEPT ![r] = 1]
  /\ UNCHANGED said

Say(r, what) ==
  /\ said[r] = "nothing"
  /\ what = "done" => done[r] = 1
  /\ what = "refused" => done[r] = 0
  /\ said' = [said EXCEPT ![r] = what]
  /\ UNCHANGED done

RelayNext ==
  \E r \in Requests : Do(r) \/ \E what \in Said \ {"nothing"} : Say(r, what)

RelaySpec == RelayInit /\ [][RelayNext]_<<done, said>>

----------------------------------------------------------------------------
\* Nothing is done twice, and no client is told the opposite of what is the case.
ToldTruly ==
  \A r \in Requests :
    /\ done[r] \in {0, 1} /\ said[r] \in Said
    /\ said[r] = "done" => done[r] = 1
    /\ said[r] = "refused" => done[r] = 0

\* A client is told once; whatever is done after that was called unknown, and what
\* is done stays done.
ToldForGood ==
  [][\A r \in Requests :
       /\ said[r] # "nothing" => said'[r] = said[r]
       /\ done'[r] # done[r] => said[r] \in {"nothing", "unknown"} /\ done'[r] = 1]_<<done, said>>

=============================================================================
