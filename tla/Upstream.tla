------------------------------ MODULE Upstream ------------------------------
(***************************************************************************)
(* One request of the gateway to another service, with fetch() and a timer: *)
(* AuthService.request (src/auth/auth.service.ts) and                       *)
(* EqueueCoreClient.request and requestRaw (src/core/equeue-core.client.ts). *)
(* The three run alike.  The timer is set before fetch and cleared in        *)
(* finally, as soon as fetch settles: it bounds the wait for the headers of  *)
(* the answer, not the reading of its body.                                  *)
(*                                                                         *)
(* Giving up does not call the request back.  While it is in transit the     *)
(* service may take it, and act on it, at any later time.                    *)
(***************************************************************************)
EXTENDS Naturals

CONSTANT Calls

VARIABLE call  \* of each call: how far the gateway is with it, whether its
               \* request is still on the way, how often the service did what it
               \* asks, and whether the service agreed to

\* how a call ends for the gateway: the body that came with a 2xx or with
\* another status, or the exception thrown in place of an answer
Failures == {"504", "503", "502", "500"}
Endings == {"ok", "rejected"} \cup Failures
Phases == {"unsent", "sent", "answering"} \cup Endings
Verdicts == {"none", "accepted", "refused"}

Unsent == [phase |-> "unsent", inTransit |-> FALSE, applied |-> 0, verdict |-> "none"]

UpstreamInit == call = [c \in Calls |-> Unsent]

Ended(c) == call[c].phase \in Endings

----------------------------------------------------------------------------
(* The gateway *)

\* setTimeout(abort), fetch(...)
Send(c) ==
  /\ call[c].phase = "unsent"
  /\ call' = [call EXCEPT ![c].phase = "sent", ![c].inTransit = TRUE]

\* fetch settles: the headers are in, and the timer is cleared
Headers(c) ==
  /\ call[c].phase = "sent" /\ ~call[c].inTransit
  /\ call' = [call EXCEPT ![c].phase = "answering"]

\* mutant: a request that timed out is sent once more
TimesOutAndResends(c) ==
  /\ call[c].phase = "sent"
  /\ \/ call' = [call EXCEPT ![c].phase = "504"]
     \/ ~call[c].inTransit /\ call' = [call EXCEPT ![c].inTransit = TRUE]

\* mutant: the timer starts when the service has taken the request
TimesOutOnceTaken(c) ==
  /\ call[c].phase = "sent" /\ ~call[c].inTransit
  /\ call' = [call EXCEPT ![c].phase = "504"]

\* the timer fires first: GatewayTimeoutException
TimesOut(c) ==
  /\ call[c].phase = "sent"
  /\ call' = [call EXCEPT ![c].phase = "504"]

\* fetch fails for another reason, the request lost or not: ServiceUnavailableException
Unreachable(c) ==
  /\ call[c].phase = "sent"
  /\ \E lost \in BOOLEAN :
       call' = [call EXCEPT ![c].phase = "503", ![c].inTransit = @ /\ ~lost]

\* the body is read to its end, and response.ok decides
BodyEnds(c) ==
  /\ call[c].phase = "answering"
  /\ call' = [call EXCEPT ![c].phase =
       IF call[c].verdict = "accepted" THEN "ok" ELSE "rejected"]

\* the connection breaks inside the body: the error of text() goes out as a 500
BodyBreaks(c) ==
  /\ call[c].phase = "answering"
  /\ call' = [call EXCEPT ![c].phase = "500"]

\* parseBody throws a BadGatewayException, whatever the status: the body is not
\* the JSON that its content type says it is
BodyGarbled(c) ==
  /\ call[c].phase = "answering"
  /\ call' = [call EXCEPT ![c].phase = "502"]

----------------------------------------------------------------------------
(* The service *)

\* it takes the request, and does what it asks or refuses to
Take(c, verdict) ==
  /\ call[c].inTransit
  /\ call' = [call EXCEPT ![c].inTransit = FALSE, ![c].verdict = verdict,
       ![c].applied = IF verdict = "accepted" THEN @ + 1 ELSE @]

----------------------------------------------------------------------------
(* What holds of a call at any time *)

CallRecord ==
  [phase: Phases, inTransit: BOOLEAN, applied: {0, 1}, verdict: Verdicts]

CallOK(x) ==
  /\ x.applied = 1 <=> x.verdict = "accepted"
  /\ x.inTransit => x.verdict = "none" /\ x.phase \in {"sent", "504", "503"}
  /\ x.phase = "unsent" => x.verdict = "none"
  /\ x.phase = "sent" /\ ~x.inTransit => x.verdict # "none"
  /\ x.phase = "answering" => x.verdict # "none"
  /\ x.phase = "ok" => x.verdict = "accepted"
  /\ x.phase = "rejected" => x.verdict = "refused"

\* A request is on the way until the service has its say, which is once at most;
\* an answer is read only after that, and told as it was.
CallsOK == call \in [Calls -> CallRecord] /\ \A c \in Calls : CallOK(call[c])

Step(c) ==
  \/ Send(c) \/ Headers(c) \/ TimesOut(c) \/ Unreachable(c)
  \/ BodyEnds(c) \/ BodyBreaks(c) \/ BodyGarbled(c)
  \/ \E verdict \in {"accepted", "refused"} : Take(c, verdict)

\* Every step of a call keeps this, and leaves the other calls alone.
LEMMA CallStep ==
  ASSUME CallsOK, NEW c \in Calls, Step(c)
  PROVE  CallsOK' /\ \A other \in Calls \ {c} : call'[other] = call[other]
<1> DEFINE x == call[c]
           Becomes(y) == y \in CallRecord /\ CallOK(y) /\ call' = [call EXCEPT ![c] = y]
<1>1. x \in CallRecord /\ CallOK(x)
  BY DEF CallsOK
<1>2. \E y : Becomes(y)
  <2> USE <1>1 DEF CallRecord, CallOK, Phases, Endings, Failures, Verdicts
  <2>1. CASE Send(c)
    <3>1. Becomes([x EXCEPT !.phase = "sent", !.inTransit = TRUE])
      BY <2>1 DEF Send
    <3> QED
      BY <3>1
  <2>2. CASE Headers(c)
    <3>1. Becomes([x EXCEPT !.phase = "answering"])
      BY <2>2 DEF Headers
    <3> QED
      BY <3>1
  <2>3. CASE TimesOut(c)
    <3>1. Becomes([x EXCEPT !.phase = "504"])
      BY <2>3 DEF TimesOut
    <3> QED
      BY <3>1
  <2>4. CASE Unreachable(c)
    <3>1. PICK lost \in BOOLEAN :
            call' = [call EXCEPT ![c].phase = "503", ![c].inTransit = @ /\ ~lost]
      BY <2>4 DEF Unreachable
    <3>2. Becomes([x EXCEPT !.phase = "503", !.inTransit = @ /\ ~lost])
      BY <3>1, <2>4 DEF Unreachable
    <3> QED
      BY <3>2
  <2>5. CASE BodyEnds(c)
    <3>1. Becomes([x EXCEPT !.phase = IF x.verdict = "accepted" THEN "ok" ELSE "rejected"])
      BY <2>5 DEF BodyEnds
    <3> QED
      BY <3>1
  <2>6. CASE BodyBreaks(c)
    <3>1. Becomes([x EXCEPT !.phase = "500"])
      BY <2>6 DEF BodyBreaks
    <3> QED
      BY <3>1
  <2>7. CASE BodyGarbled(c)
    <3>1. Becomes([x EXCEPT !.phase = "502"])
      BY <2>7 DEF BodyGarbled
    <3> QED
      BY <3>1
  <2>8. ASSUME NEW verdict \in {"accepted", "refused"}, Take(c, verdict)
        PROVE  \E y : Becomes(y)
    <3> DEFINE y == [phase |-> x.phase, inTransit |-> FALSE, verdict |-> verdict,
                     applied |-> IF verdict = "accepted" THEN 1 ELSE 0]
    <3>1. x.inTransit /\ x.verdict = "none" /\ x.applied = 0
      BY <2>8 DEF Take
    <3>2. y \in CallRecord /\ CallOK(y)
      BY <3>1
    <3>3. y = [x EXCEPT !.inTransit = FALSE, !.verdict = verdict,
                        !.applied = IF verdict = "accepted" THEN @ + 1 ELSE @]
      <4> DEFINE z == [x EXCEPT !.inTransit = FALSE, !.verdict = verdict,
                         !.applied = IF verdict = "accepted" THEN @ + 1 ELSE @]
      <4>1. DOMAIN x = {"phase", "inTransit", "applied", "verdict"}
        BY <1>1
      <4>2. z.phase = x.phase /\ z.inTransit = FALSE /\ z.verdict = verdict
        BY <4>1
      <4>3. z.applied = y.applied
        BY <3>1, <4>1
      <4>4. DOMAIN z = DOMAIN y /\ z = [f \in DOMAIN z |-> z[f]]
        BY <4>1
      <4>5. y = [f \in DOMAIN y |-> y[f]]
        OBVIOUS
      <4>6. \A f \in DOMAIN y : z[f] = y[f]
        <5>1. DOMAIN y = {"phase", "inTransit", "applied", "verdict"}
          OBVIOUS
        <5>2. y.phase = x.phase /\ y.inTransit = FALSE /\ y.verdict = verdict
          OBVIOUS
        <5> HIDE DEF z, y
        <5> QED
          BY <5>1, <5>2, <4>2, <4>3
      <4>7. z = y
        <5> HIDE DEF z, y
        <5> QED BY <4>4, <4>5, <4>6
      <4> QED
        BY <4>7
    <3>4. call' = [call EXCEPT ![c] = y]
      BY <2>8, <3>3 DEF Take
    <3> QED
      BY <3>2, <3>4
  <2> QED
    BY <2>1, <2>2, <2>3, <2>4, <2>5, <2>6, <2>7, <2>8 DEF Step
<1> QED
  BY <1>2 DEF CallsOK

\* From which phase to which a step takes a call, and who has a say in its verdict.
LEMMA CallMoves ==
  ASSUME CallsOK, NEW c \in Calls
  PROVE  LET from == call[c]
             to == call'[c]
             Goes(phase, ending) ==
               /\ from.phase = phase /\ to.phase = ending
               /\ to.verdict = from.verdict /\ to.applied = from.applied
         IN /\ Send(c) => Goes("unsent", "sent")
            /\ Headers(c) => Goes("sent", "answering")
            /\ TimesOut(c) => Goes("sent", "504")
            /\ Unreachable(c) => Goes("sent", "503")
            /\ BodyEnds(c) => Goes("answering",
                                   IF from.verdict = "accepted" THEN "ok" ELSE "rejected")
            /\ BodyBreaks(c) => Goes("answering", "500")
            /\ BodyGarbled(c) => Goes("answering", "502")
            /\ \A verdict \in {"accepted", "refused"} : Take(c, verdict) =>
                 /\ from.inTransit /\ to.phase = from.phase /\ to.verdict = verdict
                 /\ to.applied = from.applied + (IF verdict = "accepted" THEN 1 ELSE 0)
  BY DEF CallsOK, CallRecord, Send, Headers, TimesOut, Unreachable, BodyEnds, BodyBreaks,
         BodyGarbled, Take

=============================================================================
