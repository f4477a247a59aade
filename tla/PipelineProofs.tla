--------------------------- MODULE PipelineProofs ---------------------------
(***************************************************************************)
(* The request pipeline, for any set of requests, users, tokens and inputs.  *)
(*                                                                         *)
(* A request is decided upon when the chain has come to it and forwarded as   *)
(* it was decided; from then on its input and its user never change.  The     *)
(* invariant therefore says, request by request, where the chain has come to *)
(* and that what was forwarded is what the decision makes of that input and  *)
(* user (ChainOK); that the user is one whom Common Auth knew behind the      *)
(* token since the request arrived, or nobody (UserOK); and that accounts are *)
(* persons, which keeps the decision well defined (AccountsOK).  The safety   *)
(* properties follow from it, and so does the refinement: each step does or   *)
(* says, of one request, no more than Relay allows (Moved).                   *)
(***************************************************************************)
EXTENDS Pipeline, RoutesProofs, TLAPS

Statuses == {"400", "401", "403", "404", "405", "500"}

LEMMA RefusalMeaning ==
  ASSUME NEW i, NEW rt, NEW u
  PROVE  /\ Refusal(i, rt, u) \in Statuses \cup {"none"}
         /\ Refusal(i, rt, u) = "none" =>
              /\ PassesRolesGuard(rt, u) /\ ManagerPlaced(i, rt, u)
              /\ rt.actor = "user" => ResolveUserRole(u) # Undefined
         /\ Refusal(i, rt, u) \in {"401", "403"} =>
              \/ ~PassesRolesGuard(rt, u)
              \/ rt.actor = "user" /\ (u.id = Undefined \/ ResolveUserRole(u) = Undefined)
<1> DEFINE demands == Demands(i, rt, u)
           unmet == {k \in DOMAIN demands : ~demands[k][1]}
<1>1. DOMAIN demands = 1 .. 9
  BY DEF Demands
<1>2. unmet # {} => Min(unmet) \in unmet
  BY <1>1, LeastPosition
<1>3. Refusal(i, rt, u) = IF unmet = {} THEN "none" ELSE demands[Min(unmet)][2]
  BY DEF Refusal
<1>4. \A k \in 1 .. 9 : demands[k][2] \in Statuses
  BY DEF Demands, Statuses
<1>5. \A k \in 1 .. 9 : demands[k][2] \in {"401", "403"} => k \in {1, 7, 8}
  BY DEF Demands
<1>6. /\ demands[1][1] <=> PassesRolesGuard(rt, u)
      /\ demands[5][1] <=> ManagerPlaced(i, rt, u)
      /\ demands[7][1] <=> (rt.actor = "user" => u.id # Undefined)
      /\ demands[8][1] <=> (rt.actor = "user" => ResolveUserRole(u) # Undefined)
  BY DEF Demands
<1> HIDE DEF demands
<1>7. CASE unmet = {}
  BY <1>1, <1>3, <1>6, <1>7
<1>8. CASE unmet # {}
  BY <1>1, <1>2, <1>3, <1>4, <1>5, <1>6, <1>8 DEF Statuses
<1> QED
  BY <1>7, <1>8

----------------------------------------------------------------------------
(* The invariant *)

\* the user whom the guards and the handler of a request see
Context(r) == IF RouteOf(r).public THEN NoUser ELSE NormalizeAuthContext(user[r])
RefusalOf(r) == Refusal(input[r], RouteOf(r), Context(r))

Shape ==
  /\ input \in [Requests -> Inputs \cup {Null}]
  /\ DOMAIN served = Requests /\ DOMAIN user = Requests
  /\ DOMAIN told = Requests /\ DOMAIN since = Requests
  /\ answer \in [Requests -> Answers \cup {Null}]
  /\ DOMAIN account = Users
  /\ Me!CallsOK /\ Fwd!CallsOK

\* where the chain has come to, and what was done and said up to there
ChainOK(r) ==
  /\ input[r] = Null <=>
       me[r].phase = "unsent" /\ fwd[r].phase = "unsent" /\ answer[r] = Null
  /\ served[r] # Undefined => served[r] \in DOMAIN AllRoutes
  /\ me[r].phase # "unsent" => input[r] # Null /\ served[r] # Undefined /\ ~RouteOf(r).public
  /\ me[r].phase \in {"sent", "answering"} => answer[r] = Null /\ fwd[r].phase = "unsent"
  /\ me[r].phase \in Me!Endings \ {"ok"} => answer[r] # Null /\ fwd[r].phase = "unsent"
  /\ me[r].phase = "ok" /\ fwd[r].phase = "unsent" =>
       /\ answer[r] # Null
       /\ answer[r] \in {"401", "403"} => RefusalOf(r) = answer[r]
  /\ fwd[r].phase = "unsent" => answer[r] # "ok"
  /\ fwd[r].phase \in {"sent", "answering"} => answer[r] = Null
  /\ fwd[r].phase \in Me!Endings => answer[r] = fwd[r].phase
  /\ fwd[r].phase # "unsent" =>
       /\ input[r] # Null /\ served[r] # Undefined
       /\ RouteOf(r).public \/ me[r].phase = "ok"
       /\ RefusalOf(r) = "none" /\ RouteOf(r).service # "local"
       /\ told[r] = Forwarded(input[r], RouteOf(r), Context(r))

\* who a request is for, as Common Auth said while the gateway asked
UserOK(r) ==
  /\ me[r].verdict # "accepted" => user[r] = Null
  /\ me[r].verdict = "accepted" => user[r] \in since[r] \cup {NoUser}
  /\ \A u \in since[r] : IsPerson(u)
  /\ Waiting(r) => Known(account, session, input[r].token) \subseteq since[r]

AccountsOK == \A u \in Users : account[u] \in {Undefined, Null} \/ IsPerson(account[u])

PipelineInv ==
  Shape /\ AccountsOK /\ \A r \in Requests : ChainOK(r) /\ UserOK(r)

LEMMA PipelineInitInv == PipelineInit => PipelineInv
<1> SUFFICES ASSUME PipelineInit PROVE PipelineInv
  OBVIOUS
<1> USE DEF PipelineInit, Me!UpstreamInit, Fwd!UpstreamInit, Me!Unsent, Fwd!Unsent
<1>1. Me!CallsOK /\ Fwd!CallsOK
  BY DEF Me!CallsOK, Fwd!CallsOK, Me!CallRecord, Fwd!CallRecord, Me!CallOK, Fwd!CallOK,
         Me!Phases, Fwd!Phases, Me!Verdicts, Fwd!Verdicts
<1>2. DOMAIN account = Users
  BY PipelineAssumption
<1>3. Shape
  BY <1>1, <1>2 DEF Shape
<1>4. AccountsOK
  BY PipelineAssumption DEF AccountsOK
<1>5. ASSUME NEW r \in Requests
      PROVE  ChainOK(r) /\ UserOK(r)
  <2>1. /\ input[r] = Null /\ served[r] = Undefined /\ answer[r] = Null /\ user[r] = Null
        /\ me[r].phase = "unsent" /\ me[r].verdict = "none" /\ fwd[r].phase = "unsent"
        /\ since[r] = {}
    BY <1>5
  <2>2. ChainOK(r)
    BY <2>1, AbsentAnswer DEF ChainOK, Answers, Me!Endings, Me!Failures
  <2>3. UserOK(r)
    BY <2>1 DEF UserOK, Waiting
  <2> QED
    BY <2>2, <2>3
<1> QED
  BY <1>3, <1>4, <1>5 DEF PipelineInv

----------------------------------------------------------------------------
(* Steps *)

\* what a step of one request leaves of another
OnlyAt(r) ==
  \A q \in Requests \ {r} :
    /\ input'[q] = input[q] /\ served'[q] = served[q] /\ user'[q] = user[q]
    /\ told'[q] = told[q] /\ answer'[q] = answer[q] /\ me'[q] = me[q] /\ fwd'[q] = fwd[q]

LEMMA OthersKept ==
  ASSUME NEW r, NEW q \in Requests \ {r}, OnlyAt(r)
  PROVE  /\ ChainOK(q) => ChainOK(q)'
         /\ UserOK(q) /\ since'[q] = since[q] /\ UNCHANGED <<account, session>> => UserOK(q)'
<1>1. /\ input'[q] = input[q] /\ served'[q] = served[q] /\ user'[q] = user[q]
      /\ told'[q] = told[q] /\ answer'[q] = answer[q] /\ me'[q] = me[q] /\ fwd'[q] = fwd[q]
  BY DEF OnlyAt
<1>2. ChainOK(q) => ChainOK(q)'
  BY <1>1 DEF ChainOK, RefusalOf, Context, RouteOf
<1>3. ASSUME UserOK(q), since'[q] = since[q], UNCHANGED <<account, session>>
      PROVE  UserOK(q)'
  BY <1>1, <1>3 DEF UserOK, Waiting, Known
<1> QED
  BY <1>2, <1>3

\* The outcomes of the guards and the handler.
LEMMA HandleCases ==
  ASSUME Shape, NEW r \in Requests, NEW i, NEW rt, NEW u,
         fwd[r].phase = "unsent", answer[r] = Null, Handle(r, i, rt, u)
  PROVE  /\ \/ /\ answer'[r] \in Statuses \cup {"local", "cached"}
               /\ answer'[r] \in {"401", "403"} => Refusal(i, rt, u) = answer'[r]
               /\ UNCHANGED <<told, fwd>>
            \/ /\ Refusal(i, rt, u) = "none" /\ rt.service # "local"
               /\ fwd'[r].phase = "sent" /\ told'[r] = Forwarded(i, rt, u)
               /\ UNCHANGED answer
         /\ answer' \in [Requests -> Answers \cup {Null}] /\ DOMAIN told' = Requests
         /\ Fwd!CallsOK'
         /\ \A q \in Requests \ {r} :
              told'[q] = told[q] /\ answer'[q] = answer[q] /\ fwd'[q] = fwd[q]
<1>1. /\ answer \in [Requests -> Answers \cup {Null}] /\ DOMAIN told = Requests
      /\ Fwd!CallsOK
  BY DEF Shape
<1>2. Statuses \cup {"local", "cached"} \subseteq Answers
  BY DEF Statuses, Answers, Me!Endings, Me!Failures
<1>3. ASSUME NEW what \in Statuses \cup {"local", "cached"}, Answer(r, what),
             UNCHANGED <<told, fwd>>, what \in {"401", "403"} => Refusal(i, rt, u) = what
      PROVE  /\ answer'[r] = what
             /\ answer' \in [Requests -> Answers \cup {Null}] /\ DOMAIN told' = Requests
             /\ Fwd!CallsOK'
             /\ \A q \in Requests \ {r} :
                  told'[q] = told[q] /\ answer'[q] = answer[q] /\ fwd'[q] = fwd[q]
  BY <1>1, <1>2, <1>3 DEF Answer, Fwd!CallsOK
<1>4. CASE Refusal(i, rt, u) # "none" /\ Answer(r, Refusal(i, rt, u)) /\ UNCHANGED <<told, fwd>>
  BY <1>3, <1>4, RefusalMeaning
<1>5. CASE Answer(r, "local") /\ UNCHANGED <<told, fwd>>
  BY <1>3, <1>5
<1>6. CASE Answer(r, "cached") /\ UNCHANGED <<told, fwd>>
  BY <1>3, <1>6
<1>7. CASE /\ Refusal(i, rt, u) = "none" /\ rt.service # "local"
           /\ Fwd!Send(r) /\ told' = [told EXCEPT ![r] = Forwarded(i, rt, u)]
           /\ UNCHANGED answer
  <2>1. Fwd!Step(r)
    BY <1>7 DEF Fwd!Step
  <2>2. Fwd!CallsOK' /\ \A q \in Requests \ {r} : fwd'[q] = fwd[q]
    BY <1>1, <2>1, Fwd!CallStep
  <2>3. fwd'[r].phase = "sent"
    BY <1>1, <1>7, Fwd!CallMoves
  <2>4. told'[r] = Forwarded(i, rt, u) /\ \A q \in Requests \ {r} : told'[q] = told[q]
    BY <1>1, <1>7
  <2> QED
    BY <1>1, <1>7, <2>2, <2>3, <2>4
<1> QED
  BY <1>4, <1>5, <1>6, <1>7 DEF Handle

LEMMA RouteFound ==
  ASSUME NEW method, NEW path, RouteFor(method, path) # Undefined
  PROVE  RouteFor(method, path) \in DOMAIN AllRoutes
<1> DEFINE fitting == {k \in DOMAIN AllRoutes :
                         FitsMethod(AllRoutes[k], method) /\ FitsPath(AllRoutes[k].path, path)}
<1>1. fitting # {} /\ RouteFor(method, path) = Min(fitting)
  BY DEF RouteFor
<1>2. fitting \in SUBSET Nat
  BY RoutesSound
<1> QED
  BY <1>1, <1>2, LeastPosition

LEMMA ArriveInv ==
  ASSUME PipelineInv, NEW r \in Requests, NEW i \in Inputs, Arrive(r, i)
  PROVE  PipelineInv' /\ OnlyAt(r)
<1> DEFINE k == RouteFor(i.method, i.path)
<1>1. /\ input[r] = Null /\ input' = [input EXCEPT ![r] = i]
      /\ served' = [served EXCEPT ![r] = k]
      /\ since' = [since EXCEPT ![r] = Known(account, session, i.token)]
      /\ UNCHANGED <<user, account, session>>
  BY DEF Arrive
<1>2. Shape /\ AccountsOK /\ (\A q \in Requests : ChainOK(q) /\ UserOK(q)) /\ Null \notin Inputs
  BY PipelineAssumption DEF PipelineInv
<1>3. me[r].phase = "unsent" /\ fwd[r].phase = "unsent" /\ answer[r] = Null
  BY <1>1, <1>2 DEF ChainOK
<1>4. /\ input'[r] = i /\ served'[r] = k /\ since'[r] = Known(account, session, i.token)
      /\ user'[r] = user[r]
      /\ \A q \in Requests \ {r} :
           input'[q] = input[q] /\ served'[q] = served[q] /\ since'[q] = since[q]
      /\ input' \in [Requests -> Inputs \cup {Null}]
      /\ DOMAIN served' = Requests /\ DOMAIN since' = Requests
  BY <1>1, <1>2 DEF Shape
<1>5. me[r] \in Me!CallRecord /\ Me!CallOK(me[r]) /\ fwd[r] \in Fwd!CallRecord
  BY <1>2 DEF Shape, Me!CallsOK, Fwd!CallsOK
<1>6. me[r].verdict = "none" /\ user[r] = Null
  BY <1>2, <1>3, <1>5 DEF Me!CallOK, UserOK
<1>7. \A p \in Known(account, session, i.token) : IsPerson(p)
  BY <1>2 DEF AccountsOK, Known
<1>8. k # Undefined => k \in DOMAIN AllRoutes
  BY RouteFound
<1> HIDE DEF k
<1>9. ASSUME Shape', OnlyAt(r), ChainOK(r)', me'[r].verdict = "none"
      PROVE  PipelineInv' /\ OnlyAt(r)
  <2>1. UserOK(r)'
    BY <1>1, <1>4, <1>6, <1>7, <1>9 DEF UserOK, Known
  <2>2. AccountsOK'
    BY <1>1, <1>2 DEF AccountsOK
  <2>3. \A q \in Requests \ {r} : ChainOK(q)' /\ UserOK(q)'
    BY <1>1, <1>2, <1>4, <1>9, OthersKept
  <2> QED
    BY <1>9, <2>1, <2>2, <2>3 DEF PipelineInv
<1>10. CASE /\ k = Undefined \/ (~AllRoutes[k].public /\ i.token = Undefined)
            /\ \E status \in {"404", "401"} : Answer(r, status)
            /\ UNCHANGED <<me, told, fwd>>
  <2>1. PICK status \in {"404", "401"} : Answer(r, status)
    BY <1>10
  <2>2. /\ answer' \in [Requests -> Answers \cup {Null}] /\ answer'[r] = status
        /\ \A q \in Requests \ {r} : answer'[q] = answer[q]
    BY <1>2, <2>1 DEF Answer, Answers, Shape
  <2>3. Shape'
    BY <1>1, <1>2, <1>4, <1>10, <2>2 DEF Shape, Me!CallsOK, Fwd!CallsOK
  <2>4. OnlyAt(r)
    BY <1>1, <1>4, <1>10, <2>2 DEF OnlyAt
  <2>5. ChainOK(r)'
    BY <1>2, <1>3, <1>4, <1>8, <1>10, <2>2, AbsentAnswer
       DEF ChainOK, Answers, Me!Endings, Me!Failures
  <2> QED
    BY <1>6, <1>9, <1>10, <2>3, <2>4, <2>5
<1>11. CASE /\ k # Undefined /\ AllRoutes[k].public
            /\ Handle(r, i, AllRoutes[k], NoUser) /\ UNCHANGED me
  <2> DEFINE rt == AllRoutes[k]
  <2>1. /\ \/ /\ answer'[r] \in Statuses \cup {"local", "cached"} /\ UNCHANGED <<told, fwd>>
           \/ /\ Refusal(i, rt, NoUser) = "none" /\ rt.service # "local"
              /\ fwd'[r].phase = "sent" /\ told'[r] = Forwarded(i, rt, NoUser)
              /\ UNCHANGED answer
        /\ answer' \in [Requests -> Answers \cup {Null}] /\ DOMAIN told' = Requests
        /\ Fwd!CallsOK'
        /\ \A q \in Requests \ {r} :
             told'[q] = told[q] /\ answer'[q] = answer[q] /\ fwd'[q] = fwd[q]
    BY <1>2, <1>3, <1>11, HandleCases
  <2>2. Shape'
    BY <1>1, <1>2, <1>4, <1>11, <2>1 DEF Shape, Me!CallsOK
  <2>3. OnlyAt(r)
    BY <1>1, <1>4, <1>11, <2>1 DEF OnlyAt
  <2>4. RouteOf(r)' = rt /\ Context(r)' = NoUser
    BY <1>4, <1>11 DEF RouteOf, Context
  <2>5. CASE answer'[r] \in Statuses \cup {"local", "cached"} /\ UNCHANGED <<told, fwd>>
    <3>1. ChainOK(r)'
      BY <1>2, <1>3, <1>4, <1>8, <1>11, <2>5, AbsentAnswer
         DEF ChainOK, Answers, Statuses, Me!Endings, Me!Failures
    <3> QED
      BY <1>6, <1>9, <1>11, <2>2, <2>3, <3>1
  <2>6. CASE /\ Refusal(i, rt, NoUser) = "none" /\ rt.service # "local"
             /\ fwd'[r].phase = "sent" /\ told'[r] = Forwarded(i, rt, NoUser)
             /\ UNCHANGED answer
    <3>1. ChainOK(r)'
      BY <1>2, <1>3, <1>4, <1>8, <1>11, <2>4, <2>6
         DEF ChainOK, RefusalOf, Me!Endings, Me!Failures
    <3> QED
      BY <1>6, <1>9, <1>11, <2>2, <2>3, <3>1
  <2> QED
    BY <2>1, <2>5, <2>6
<1>12. CASE /\ k # Undefined /\ ~AllRoutes[k].public /\ i.token # Undefined
            /\ Me!Send(r) /\ UNCHANGED <<answer, told, fwd>>
  <2>1. Me!Step(r)
    BY <1>12 DEF Me!Step
  <2>2. Me!CallsOK' /\ \A q \in Requests \ {r} : me'[q] = me[q]
    BY <1>2, <2>1, Me!CallStep DEF Shape
  <2>3. me'[r].phase = "sent" /\ me'[r].verdict = "none"
    BY <1>2, <1>6, <1>12, Me!CallMoves DEF Shape
  <2>4. Shape'
    BY <1>1, <1>2, <1>4, <1>12, <2>2 DEF Shape, Fwd!CallsOK
  <2>5. OnlyAt(r)
    BY <1>1, <1>4, <1>12, <2>2 DEF OnlyAt
  <2>6. ChainOK(r)'
    BY <1>2, <1>3, <1>4, <1>8, <1>12, <2>3 DEF ChainOK, Me!Endings, Me!Failures, RouteOf
  <2> QED
    BY <1>9, <2>3, <2>4, <2>5, <2>6
<1> QED
  BY <1>10, <1>11, <1>12 DEF Arrive, k

LEMMA StepInv ==
  ASSUME PipelineInv, NEW r \in Requests, UNCHANGED others,
         Shape', OnlyAt(r), ChainOK(r)', UserOK(r)'
  PROVE  PipelineInv'
<1>1. UNCHANGED <<account, session>> /\ since' = since
  BY DEF others
<1>2. AccountsOK'
  BY <1>1 DEF PipelineInv, AccountsOK
<1>3. \A q \in Requests \ {r} : ChainOK(q)' /\ UserOK(q)'
  BY <1>1, OthersKept DEF PipelineInv
<1> QED
  BY <1>2, <1>3 DEF PipelineInv

\* A step of the gateway that concerns the call to /auth/me.
LEMMA MeMoved ==
  ASSUME PipelineInv, NEW r \in Requests, UNCHANGED <<user, others>>,
         \/ Me!Headers(r) \/ Me!BodyEnds(r) \/ Me!TimesOut(r)
         \/ Me!Unreachable(r) \/ Me!BodyBreaks(r) \/ Me!BodyGarbled(r)
  PROVE  /\ Me!CallsOK' /\ \A q \in Requests \ {r} : me'[q] = me[q]
         /\ me[r].phase \in {"sent", "answering"}
         /\ me'[r].phase = "answering" \/ me'[r].phase \in Me!Endings
         /\ me'[r].phase = "ok" => me'[r].verdict = "accepted"
         /\ input[r] # Null /\ served[r] # Undefined /\ ~RouteOf(r).public
         /\ answer[r] = Null /\ fwd[r].phase = "unsent"
         /\ UserOK(r)'
<1>1. Me!CallsOK /\ ChainOK(r) /\ UserOK(r)
  BY DEF PipelineInv, Shape
<1>2. Me!Step(r)
  BY DEF Me!Step
<1>3. Me!CallsOK' /\ \A q \in Requests \ {r} : me'[q] = me[q]
  BY <1>1, <1>2, Me!CallStep
<1>4. /\ me[r].phase \in {"sent", "answering"} /\ me'[r].verdict = me[r].verdict
      /\ me'[r].phase = "answering" \/ me'[r].phase \in Me!Endings
      /\ me'[r].phase = "ok" => me'[r].verdict = "accepted"
  BY <1>1, Me!CallMoves DEF Me!Endings, Me!Failures
<1>5. me'[r].phase = "answering" => Waiting(r)
  BY <1>4 DEF Waiting
<1>6. UserOK(r)'
  BY <1>1, <1>4, <1>5 DEF UserOK, Waiting, Known, others, Me!Endings, Me!Failures
<1> QED
  BY <1>1, <1>3, <1>4, <1>6 DEF ChainOK

LEMMA MeHeadersInv ==
  ASSUME PipelineInv, NEW r \in Requests, MeHeaders(r)
  PROVE  PipelineInv' /\ OnlyAt(r)
<1>1. Me!Headers(r) /\ UNCHANGED <<user, told, answer, fwd, others>>
  BY DEF MeHeaders
<1>2. /\ Me!CallsOK' /\ UserOK(r)' /\ \A q \in Requests \ {r} : me'[q] = me[q]
      /\ input[r] # Null /\ served[r] # Undefined /\ ~RouteOf(r).public
      /\ answer[r] = Null /\ fwd[r].phase = "unsent"
  BY <1>1, MeMoved
<1>3. me'[r].phase = "answering"
  BY <1>1, Me!CallMoves DEF PipelineInv, Shape
<1>4. Shape'
  BY <1>1, <1>2 DEF PipelineInv, Shape, Fwd!CallsOK, others
<1>5. OnlyAt(r)
  BY <1>1, <1>2 DEF OnlyAt, others
<1>6. ChainOK(r)'
  BY <1>1, <1>2, <1>3, AbsentAnswer
     DEF PipelineInv, ChainOK, RouteOf, Answers, Me!Endings, Me!Failures, others
<1> QED
  BY <1>1, <1>2, <1>4, <1>5, <1>6, StepInv

\* A call to /auth/me that fails, or that Common Auth refuses, ends the request.
LEMMA MeRefused ==
  ASSUME PipelineInv, NEW r \in Requests, UNCHANGED <<user, told, fwd, others>>,
         \/ Me!BodyEnds(r) \/ Me!TimesOut(r)
         \/ Me!Unreachable(r) \/ Me!BodyBreaks(r) \/ Me!BodyGarbled(r),
         me'[r].phase # "ok", Answer(r, me'[r].phase)
  PROVE  PipelineInv' /\ OnlyAt(r)
<1>1. /\ Me!CallsOK' /\ UserOK(r)' /\ \A q \in Requests \ {r} : me'[q] = me[q]
      /\ input[r] # Null /\ served[r] # Undefined /\ ~RouteOf(r).public
      /\ answer[r] = Null /\ fwd[r].phase = "unsent"
  BY MeMoved
<1>2. me'[r].phase \in Me!Endings \ {"ok"}
  BY Me!CallMoves DEF PipelineInv, Shape, Me!Endings, Me!Failures
<1>3. /\ answer' \in [Requests -> Answers \cup {Null}] /\ answer'[r] = me'[r].phase
      /\ \A q \in Requests \ {r} : answer'[q] = answer[q]
  BY <1>2 DEF PipelineInv, Shape, Answer, Answers
<1>4. Shape'
  BY <1>1, <1>3 DEF PipelineInv, Shape, Fwd!CallsOK, others
<1>5. OnlyAt(r)
  BY <1>1, <1>3 DEF OnlyAt, others
<1>6. ChainOK(r)'
  BY <1>1, <1>2, <1>3, AbsentAnswer
     DEF PipelineInv, ChainOK, RouteOf, Answers, Me!Endings, Me!Failures, others
<1> QED
  BY <1>1, <1>4, <1>5, <1>6, StepInv

LEMMA MeEndsInv ==
  ASSUME PipelineInv, NEW r \in Requests, MeEnds(r)
  PROVE  PipelineInv' /\ OnlyAt(r)
<1>1. CASE me'[r].phase = "rejected" /\ Answer(r, "rejected") /\ UNCHANGED <<told, fwd>>
  BY <1>1, MeRefused DEF MeEnds
<1>2. CASE me'[r].phase = "ok"
           /\ Handle(r, input[r], RouteOf(r), NormalizeAuthContext(user[r]))
  <2> DEFINE i == input[r]
             rt == RouteOf(r)
             u == NormalizeAuthContext(user[r])
  <2>1. /\ Me!CallsOK' /\ UserOK(r)' /\ \A q \in Requests \ {r} : me'[q] = me[q]
        /\ input[r] # Null /\ served[r] # Undefined /\ ~RouteOf(r).public
        /\ answer[r] = Null /\ fwd[r].phase = "unsent"
    BY MeMoved DEF MeEnds
  <2>2. UNCHANGED <<user, others>>
    BY DEF MeEnds
  <2>3. /\ \/ /\ answer'[r] \in Statuses \cup {"local", "cached"}
              /\ answer'[r] \in {"401", "403"} => Refusal(i, rt, u) = answer'[r]
              /\ UNCHANGED <<told, fwd>>
           \/ /\ Refusal(i, rt, u) = "none" /\ rt.service # "local"
              /\ fwd'[r].phase = "sent" /\ told'[r] = Forwarded(i, rt, u)
              /\ UNCHANGED answer
        /\ answer' \in [Requests -> Answers \cup {Null}] /\ DOMAIN told' = Requests
        /\ Fwd!CallsOK'
        /\ \A q \in Requests \ {r} :
             told'[q] = told[q] /\ answer'[q] = answer[q] /\ fwd'[q] = fwd[q]
    BY <1>2, <2>1, HandleCases DEF PipelineInv
  <2>4. Shape'
    BY <2>1, <2>2, <2>3 DEF PipelineInv, Shape, others
  <2>5. OnlyAt(r)
    BY <2>1, <2>2, <2>3 DEF OnlyAt, others
  <2>6. input'[r] = i /\ RouteOf(r)' = rt /\ Context(r)' = u /\ served'[r] = served[r]
    BY <2>1, <2>2 DEF RouteOf, Context, others
  <2>7. served[r] \in DOMAIN AllRoutes
    BY <2>1 DEF PipelineInv, ChainOK
  <2>8. CASE /\ answer'[r] \in Statuses \cup {"local", "cached"}
             /\ answer'[r] \in {"401", "403"} => Refusal(i, rt, u) = answer'[r]
             /\ UNCHANGED <<told, fwd>>
    <3>1. answer'[r] # Null /\ answer'[r] # "ok"
      BY <2>8, AbsentAnswer DEF Statuses, Answers, Me!Endings, Me!Failures
    <3>2. ChainOK(r)'
      BY <1>2, <2>1, <2>6, <2>7, <2>8, <3>1
         DEF ChainOK, RefusalOf, Me!Endings, Me!Failures
    <3> QED
      BY <2>1, <2>2, <2>4, <2>5, <3>2, StepInv
  <2>9. CASE /\ Refusal(i, rt, u) = "none" /\ rt.service # "local"
             /\ fwd'[r].phase = "sent" /\ told'[r] = Forwarded(i, rt, u)
             /\ UNCHANGED answer
    <3>1. ChainOK(r)'
      BY <1>2, <2>1, <2>6, <2>7, <2>9
         DEF ChainOK, RefusalOf, Me!Endings, Me!Failures
    <3> QED
      BY <2>1, <2>2, <2>4, <2>5, <3>1, StepInv
  <2> QED
    BY <2>3, <2>8, <2>9
<1> QED
  BY <1>1, <1>2 DEF MeEnds

LEMMA MeTimesOutInv ==
  ASSUME PipelineInv, NEW r \in Requests, MeTimesOut(r)
  PROVE  PipelineInv' /\ OnlyAt(r)
<1>1. me'[r].phase = "504"
  BY Me!CallMoves DEF MeTimesOut, PipelineInv, Shape
<1> QED
  BY <1>1, MeRefused DEF MeTimesOut, MeFailed

LEMMA MeFailsInv ==
  ASSUME PipelineInv, NEW r \in Requests, MeFails(r)
  PROVE  PipelineInv' /\ OnlyAt(r)
<1>1. me'[r].phase \in {"503", "500", "502"}
  BY Me!CallMoves DEF MeFails, PipelineInv, Shape
<1> QED
  BY <1>1, MeRefused DEF MeFails, MeFailed

LEMMA MeTakenInv ==
  ASSUME PipelineInv, NEW r \in Requests, MeTaken(r)
  PROVE  PipelineInv' /\ OnlyAt(r)
<1>1. PICK verdict \in {"accepted", "refused"} : Me!Take(r, verdict)
  BY DEF MeTaken
<1>2. me[r].phase = "sent" /\ UNCHANGED <<told, answer, fwd, others>>
  BY DEF MeTaken
<1>3. Shape /\ Me!CallsOK /\ ChainOK(r) /\ UserOK(r)
  BY DEF PipelineInv, Shape
<1>4. Me!CallsOK' /\ \A q \in Requests \ {r} : me'[q] = me[q]
  <2>1. Me!Step(r)
    BY <1>1 DEF Me!Step
  <2> QED
    BY <1>3, <2>1, Me!CallStep
<1>5. me'[r].phase = "sent" /\ me'[r].verdict = verdict /\ me[r].inTransit
  BY <1>1, <1>2, <1>3, Me!CallMoves
<1>6. me[r].verdict = "none" /\ user[r] = Null
  BY <1>3, <1>5 DEF Me!CallsOK, Me!CallOK, UserOK
<1>7. Known(account, session, input[r].token) \subseteq since[r]
  BY <1>2, <1>3 DEF UserOK, Waiting
<1>8. /\ DOMAIN user' = Requests /\ \A q \in Requests \ {r} : user'[q] = user[q]
      /\ verdict = "accepted" => user'[r] \in since[r] \cup {NoUser}
      /\ verdict # "accepted" => user'[r] = Null
  <2>1. CASE Me!Take(r, "refused") /\ UNCHANGED user
    <3>1. verdict = "refused"
      BY <1>3, <1>5, <2>1, Me!CallMoves
    <3> QED
      BY <1>3, <1>6, <2>1, <3>1 DEF Shape
  <2>2. CASE /\ Me!Take(r, "accepted")
             /\ \E u \in Known(account, session, input[r].token) :
                  \E body \in {u, NoUser} : user' = [user EXCEPT ![r] = body]
    <3>1. verdict = "accepted"
      BY <1>3, <1>5, <2>2, Me!CallMoves
    <3> QED
      BY <1>3, <1>7, <2>2, <3>1 DEF Shape
  <2> QED
    BY <2>1, <2>2 DEF MeTaken
<1>9. Shape'
  BY <1>2, <1>3, <1>4, <1>8 DEF Shape, Fwd!CallsOK, others
<1>10. OnlyAt(r)
  BY <1>2, <1>4, <1>8 DEF OnlyAt, others
<1>11. ChainOK(r)'
  BY <1>2, <1>3, <1>5 DEF ChainOK, RouteOf, Me!Endings, Me!Failures, others
<1>12. UserOK(r)'
  BY <1>2, <1>3, <1>5, <1>7, <1>8 DEF UserOK, Waiting, Known, others
<1> QED
  BY <1>2, <1>9, <1>10, <1>11, <1>12, StepInv

----------------------------------------------------------------------------
(* The forwarded request *)

LEMMA FwdHeadersInv ==
  ASSUME PipelineInv, NEW r \in Requests, FwdHeaders(r)
  PROVE  PipelineInv' /\ OnlyAt(r)
<1>1. Fwd!Headers(r) /\ UNCHANGED <<user, told, answer, me, others>>
  BY DEF FwdHeaders
<1>2. Fwd!CallsOK /\ ChainOK(r) /\ UserOK(r)
  BY DEF PipelineInv, Shape
<1>3. Fwd!Step(r)
  BY <1>1 DEF Fwd!Step
<1>4. Fwd!CallsOK' /\ \A q \in Requests \ {r} : fwd'[q] = fwd[q]
  BY <1>2, <1>3, Fwd!CallStep
<1>5. fwd[r].phase = "sent" /\ fwd'[r].phase = "answering"
  BY <1>1, <1>2, Fwd!CallMoves
<1>6. Shape'
  BY <1>1, <1>4 DEF PipelineInv, Shape, Me!CallsOK, others
<1>7. OnlyAt(r)
  BY <1>1, <1>4 DEF OnlyAt, others
<1>8. ChainOK(r)'
  BY <1>1, <1>2, <1>5
     DEF ChainOK, RefusalOf, Context, RouteOf, Me!Endings, Me!Failures, others
<1>9. UserOK(r)'
  BY <1>1, <1>2 DEF UserOK, Waiting, Known, others
<1> QED
  BY <1>1, <1>6, <1>7, <1>8, <1>9, StepInv

\* However the forwarded request ends, its client is told so.
LEMMA FwdEndedInv ==
  ASSUME PipelineInv, NEW r \in Requests, FwdEnded(r),
         \/ Fwd!BodyEnds(r) \/ Fwd!TimesOut(r)
         \/ Fwd!Unreachable(r) \/ Fwd!BodyBreaks(r) \/ Fwd!BodyGarbled(r)
  PROVE  PipelineInv' /\ OnlyAt(r)
<1>1. Answer(r, fwd'[r].phase) /\ UNCHANGED <<user, told, me, others>>
  BY DEF FwdEnded
<1>2. Fwd!CallsOK /\ ChainOK(r) /\ UserOK(r)
  BY DEF PipelineInv, Shape
<1>3. Fwd!Step(r)
  BY DEF Fwd!Step
<1>4. Fwd!CallsOK' /\ \A q \in Requests \ {r} : fwd'[q] = fwd[q]
  BY <1>2, <1>3, Fwd!CallStep
<1>5. fwd[r].phase \in {"sent", "answering"} /\ fwd'[r].phase \in Me!Endings
  BY <1>2, Fwd!CallMoves DEF Me!Endings, Me!Failures
<1>6. /\ answer' \in [Requests -> Answers \cup {Null}] /\ answer'[r] = fwd'[r].phase
      /\ \A q \in Requests \ {r} : answer'[q] = answer[q]
  BY <1>1, <1>5 DEF PipelineInv, Shape, Answer, Answers
<1>7. Shape'
  BY <1>1, <1>4, <1>6 DEF PipelineInv, Shape, Me!CallsOK, others
<1>8. OnlyAt(r)
  BY <1>1, <1>4, <1>6 DEF OnlyAt, others
<1>9. me[r].phase = "unsent" \/ me[r].phase = "ok"
  BY <1>2, <1>5 DEF PipelineInv, Shape, Me!CallsOK, Me!CallRecord, Me!Phases, ChainOK
<1>10. ChainOK(r)'
  BY <1>1, <1>2, <1>5, <1>6, <1>9
     DEF ChainOK, RefusalOf, Context, RouteOf, Me!Endings, Me!Failures, others
<1>11. UserOK(r)'
  BY <1>1, <1>2 DEF UserOK, Waiting, Known, others
<1> QED
  BY <1>1, <1>7, <1>8, <1>10, <1>11, StepInv

\* What Common Auth is asked to write of an account.
LEMMA Written ==
  ASSUME NEW i \in Inputs, NEW rt, NEW u, rt.service # "core"
  PROVE  /\ Forwarded(i, rt, u).body.role \in Spelling \cup {Undefined}
         /\ Forwarded(i, rt, u).body.place =
              IF rt.operation = "create" THEN ScopedBody(i, u).place ELSE i.body.place
<1> DEFINE body == IF rt.operation = "create" THEN ScopedBody(i, u) ELSE i.body
<1>1. DOMAIN i.body = {"role", "place"} /\ i.body.role \in AuthRoleCode \cup {Undefined}
  BY PipelineAssumption
<1>2. /\ DOMAIN body = {"role", "place"} /\ body.role = i.body.role
      /\ body.place = IF rt.operation = "create" THEN ScopedBody(i, u).place ELSE i.body.place
  BY <1>1 DEF ScopedBody
<1>3. Forwarded(i, rt, u).body = CommonAuthWriteBody(body)
  BY DEF Forwarded
<1> HIDE DEF body
<1>4. \A code \in AuthRoleCode : ToCommonAuthRole([code |-> code, style |-> "plain"]) \in Spelling
  BY DEF ToCommonAuthRole, Spelling, Style
<1>5. /\ CommonAuthWriteBody(body).role \in Spelling \cup {Undefined}
      /\ CommonAuthWriteBody(body).place = body.place
  BY <1>1, <1>2, <1>4 DEF CommonAuthWriteBody
<1> QED
  BY <1>2, <1>3, <1>5

\* Common Auth keeps accounts of persons.
LEMMA OperationKeepsAccounts ==
  ASSUME Shape, AccountsOK, NEW r \in Requests, Operation(r),
         told[r].body.role \in Spelling \cup {Undefined}
  PROVE  AccountsOK' /\ DOMAIN account' = Users
<1>1. DOMAIN account = Users
  BY DEF Shape
<1>2. CASE UNCHANGED account
  BY <1>1, <1>2 DEF AccountsOK
<1>3. CASE Create(r)
  <2>1. PICK u \in Users :
          account' = [account EXCEPT ![u] = [id |-> u, role |-> told[r].body.role, roles |-> <<>>,
                                             place |-> told[r].body.place]]
    BY <1>3 DEF Create
  <2> DEFINE new == [id |-> u, role |-> told[r].body.role, roles |-> <<>>,
                     place |-> told[r].body.place]
  <2>2. u # Undefined
    BY PipelineAssumption
  <2>3. <<>> \in Seq(Spelling)
    OBVIOUS
  <2>4. IsPerson(new)
    BY <2>2, <2>3 DEF IsPerson
  <2> HIDE DEF new
  <2>5. account' = [account EXCEPT ![u] = new]
    BY <2>1 DEF new
  <2> QED
    BY <1>1, <2>4, <2>5 DEF AccountsOK
<1>4. CASE Update(r)
  <2> DEFINE u == Named(r)
             new == Merged(account[u], told[r].body)
  <2>1. u \in Users /\ account[u] \notin {Undefined, Null} /\ account' = [account EXCEPT ![u] = new]
    BY <1>4 DEF Update
  <2>2. IsPerson(account[u])
    BY <2>1 DEF AccountsOK
  <2>3. IsPerson(new)
    BY <2>2 DEF IsPerson, Merged, Given
  <2> HIDE DEF new, u
  <2> QED
    BY <1>1, <2>1, <2>3 DEF AccountsOK
<1>5. CASE Delete(r)
  BY <1>1, <1>5 DEF Delete, AccountsOK
<1> QED
  BY <1>2, <1>3, <1>4, <1>5 DEF Operation, Login, Logout

LEMMA FwdTakenInv ==
  ASSUME PipelineInv, NEW r \in Requests, FwdTaken(r)
  PROVE  PipelineInv' /\ OnlyAt(r)
<1>1. PICK verdict \in {"accepted", "refused"} : Fwd!Take(r, verdict)
  BY DEF FwdTaken
<1>2. /\ UNCHANGED <<input, served, user, told, answer, me>>
      /\ since' = [q \in Requests |-> IF Waiting(q)
                     THEN since[q] \cup Known(account', session', input[q].token) ELSE since[q]]
  BY DEF FwdTaken
<1>3. Shape /\ Fwd!CallsOK /\ AccountsOK /\ \A q \in Requests : ChainOK(q) /\ UserOK(q)
  BY DEF PipelineInv, Shape
<1>4. Fwd!CallsOK' /\ \A q \in Requests \ {r} : fwd'[q] = fwd[q]
  <2>1. Fwd!Step(r)
    BY <1>1 DEF Fwd!Step
  <2> QED
    BY <1>3, <2>1, Fwd!CallStep
<1>5. fwd'[r].phase = fwd[r].phase /\ fwd[r].inTransit
  BY <1>1, <1>3, Fwd!CallMoves
<1>6. fwd[r].phase # "unsent"
  BY <1>3, <1>5 DEF Fwd!CallsOK, Fwd!CallOK
<1>7. AccountsOK' /\ DOMAIN account' = Users
  <2>1. CASE UNCHANGED <<account, session>>
    BY <1>3, <2>1 DEF Shape, AccountsOK
  <2>2. CASE RouteOf(r).service = "auth" /\ Operation(r)
    <3>1. /\ told[r] = Forwarded(input[r], RouteOf(r), Context(r))
          /\ input[r] # Null /\ input[r] \in Inputs \cup {Null}
      BY <1>3, <1>6 DEF ChainOK, Shape
    <3>2. told[r].body.role \in Spelling \cup {Undefined}
      BY <2>2, <3>1, Written
    <3> QED
      BY <1>3, <2>2, <3>2, OperationKeepsAccounts
  <2> QED
    BY <2>1, <2>2 DEF FwdTaken
<1>8. Shape'
  BY <1>2, <1>3, <1>4, <1>7 DEF Shape, Me!CallsOK
<1>9. OnlyAt(r)
  BY <1>2, <1>4 DEF OnlyAt
<1>10. ChainOK(r)'
  BY <1>2, <1>3, <1>5 DEF ChainOK, RefusalOf, Context, RouteOf
<1>11. ASSUME NEW q \in Requests PROVE UserOK(q)'
  <2>1. Waiting(q)' <=> Waiting(q)
    BY <1>2 DEF Waiting
  <2>2. since'[q] = IF Waiting(q) THEN since[q] \cup Known(account', session', input[q].token)
                    ELSE since[q]
    BY <1>2
  <2>3. \A u \in Known(account', session', input[q].token) : IsPerson(u)
    BY <1>7 DEF AccountsOK, Known
  <2>4. UserOK(q)
    BY <1>3
  <2>5. Known(account, session, input[q].token)' = Known(account', session', input[q].token)
    BY <1>2 DEF Known
  <2>6. user'[q] = user[q] /\ me'[q] = me[q]
    BY <1>2
  <2> QED
    BY <2>1, <2>2, <2>3, <2>4, <2>5, <2>6 DEF UserOK
<1>12. \A q \in Requests \ {r} : ChainOK(q)'
  BY <1>3, <1>9, OthersKept
<1> QED
  BY <1>7, <1>8, <1>9, <1>10, <1>11, <1>12 DEF PipelineInv

LEMMA PipelineStepInv == PipelineInv /\ [PipelineNext]_vars => PipelineInv'
<1> SUFFICES ASSUME PipelineInv, [PipelineNext]_vars PROVE PipelineInv'
  OBVIOUS
<1>1. ASSUME NEW r \in Requests, FwdEnds(r) \/ FwdTimesOut(r) \/ FwdFails(r)
      PROVE  PipelineInv'
  BY <1>1, FwdEndedInv DEF FwdEnds, FwdTimesOut, FwdFails
<1>2. CASE UNCHANGED vars
  <2>1. UNCHANGED <<input, served, user, told, answer, me, fwd, account, session, since>>
    BY <1>2 DEF vars
  <2>2. Shape'
    BY <2>1 DEF PipelineInv, Shape, Me!CallsOK, Fwd!CallsOK
  <2>3. AccountsOK'
    BY <2>1 DEF PipelineInv, AccountsOK
  <2>4. \A q \in Requests : ChainOK(q)' /\ UserOK(q)'
    BY <2>1 DEF PipelineInv, ChainOK, RefusalOf, Context, RouteOf, UserOK, Waiting, Known
  <2> QED
    BY <2>2, <2>3, <2>4 DEF PipelineInv
<1> QED
  BY <1>1, <1>2, ArriveInv, MeHeadersInv, MeEndsInv, MeTimesOutInv, MeFailsInv, MeTakenInv,
     FwdHeadersInv, FwdTakenInv DEF PipelineNext

\* The inductive invariant, which relates every request to its two calls, holds
\* however requests, Common Auth and the core take turns.
THEOREM PipelineInvariant == PipelineSpec => []PipelineInv
  BY PipelineInitInv, PipelineStepInv, PTL DEF PipelineSpec

----------------------------------------------------------------------------
(* What follows from the invariant *)

\* The role that the core is told is one it knows.
LEMMA ToldRole ==
  ASSUME NEW i, NEW rt, NEW u, Refusal(i, rt, u) = "none", rt.service = "core"
  PROVE  Forwarded(i, rt, u).actor.role \in CoreRoles
<1>1. rt.actor = "user" => ResolveUserRole(u) \in CoreRoles
  BY RefusalMeaning, ResolvedRole
<1>2. Actor(i, rt, u).role \in CoreRoles
  BY <1>1 DEF Actor, CoreRoles
<1>3. Headers(Actor(i, rt, u)).role = Actor(i, rt, u).role
  BY DEF Headers, Actor
<1> QED
  BY <1>2, <1>3 DEF Forwarded

LEMMA InvType == PipelineInv => PipelineTypeOK
<1> SUFFICES ASSUME PipelineInv PROVE PipelineTypeOK
  OBVIOUS
<1>1. Shape /\ \A r \in Requests : ChainOK(r)
  BY DEF PipelineInv
<1>2. ASSUME NEW r \in Requests, Sent(r), RouteOf(r).service = "core"
      PROVE  told[r].actor.role \in CoreRoles
  BY <1>1, <1>2, ToldRole DEF ChainOK, RefusalOf, Sent
<1>3. ASSUME NEW r \in Requests
      PROVE  /\ me[r].phase # "unsent" => input[r] # Null /\ served[r] # Undefined
             /\ Sent(r) => input[r] # Null /\ served[r] # Undefined
             /\ Sent(r) => RouteOf(r).public \/ me[r].phase = "ok"
             /\ answer[r] \in Answers \cup {Null}
             /\ answer[r] = Null /\ Me!Ended(r) => me[r].phase = "ok" /\ Sent(r)
  BY <1>1 DEF Shape, ChainOK, Sent, Me!Ended
<1> QED
  BY <1>1, <1>2, <1>3 DEF PipelineTypeOK, Shape

\* Every request is somewhere along the chain.
THEOREM PipelineTypeCorrect == PipelineSpec => []PipelineTypeOK
  BY PipelineInvariant, InvType, PTL

\* The safety core of "every request is answered": none is ever adrift.
THEOREM PipelineNeverAdrift == PipelineSpec => []NeverAdrift
<1>1. PipelineInv => NeverAdrift
  <2> SUFFICES ASSUME PipelineInv, NEW r \in Requests
               PROVE  input[r] # Null /\ answer[r] = Null
                        <=> Waiting(r) \/ fwd[r].phase \in {"sent", "answering"}
    BY DEF NeverAdrift
  <2>1. ChainOK(r) /\ me[r].phase \in Me!Phases /\ fwd[r].phase \in Fwd!Phases
    BY DEF PipelineInv, Shape, Me!CallsOK, Fwd!CallsOK, Me!CallRecord, Fwd!CallRecord
  <2> QED
    BY <2>1, AbsentAnswer
       DEF ChainOK, Waiting, Me!Phases, Fwd!Phases, Answers,
           Me!Endings, Fwd!Endings, Me!Failures, Fwd!Failures
<1> QED
  BY <1>1, PipelineInvariant, PTL

\* Express routes a request when it arrives, once.
Routed == \A r \in Requests :
            input[r] # Null => served[r] = RouteFor(input[r].method, input[r].path)

LEMMA RoutedStep == PipelineInv /\ Routed /\ [PipelineNext]_vars => Routed'
<1> SUFFICES ASSUME PipelineInv, Routed, [PipelineNext]_vars PROVE Routed'
  OBVIOUS
<1>1. ASSUME NEW r \in Requests, NEW i \in Inputs, Arrive(r, i) PROVE Routed'
  <2>1. /\ input' = [input EXCEPT ![r] = i]
        /\ served' = [served EXCEPT ![r] = RouteFor(i.method, i.path)]
    BY <1>1 DEF Arrive
  <2>2. DOMAIN input = Requests /\ DOMAIN served = Requests
    BY DEF PipelineInv, Shape
  <2> QED
    BY <2>1, <2>2 DEF Routed
<1>2. CASE UNCHANGED <<input, served>>
  BY <1>2 DEF Routed
<1>3. ASSUME NEW r \in Requests,
             \/ MeHeaders(r) \/ MeEnds(r) \/ MeTimesOut(r) \/ MeFails(r) \/ MeTaken(r)
             \/ FwdHeaders(r) \/ FwdEnds(r) \/ FwdTimesOut(r) \/ FwdFails(r) \/ FwdTaken(r)
      PROVE  UNCHANGED <<input, served>>
  BY <1>3 DEF MeHeaders, MeEnds, MeTimesOut, MeFails, MeFailed, MeTaken, FwdHeaders, FwdEnds,
              FwdTimesOut, FwdFails, FwdEnded, FwdTaken, others
<1>4. CASE UNCHANGED vars
  BY <1>2, <1>4 DEF vars
<1> QED
  BY <1>1, <1>2, <1>3, <1>4 DEF PipelineNext

\* No route of the gateway is hidden by another: every request is served by the route
\* that its client wants, and by none if the path is none of the gateway's.
THEOREM PipelineRoutes == PipelineSpec => []RoutedAsIntended
<1>1. PipelineInit => Routed
  BY DEF PipelineInit, Routed
<1>2. PipelineInv /\ Routed => RoutedAsIntended
  <2> SUFFICES ASSUME PipelineInv, Routed, NEW r \in Requests, input[r] # Null
               PROVE  served[r] = input[r].wants
    BY DEF RoutedAsIntended
  <2>1. input[r] \in Inputs /\ served[r] = RouteFor(input[r].method, input[r].path)
    BY DEF PipelineInv, Shape, Routed
  <2> QED
    BY <2>1, IntendedInputs, RoutesReached
<1> QED
  BY <1>1, <1>2, RoutedStep, PipelineInitInv, PipelineStepInv, PTL DEF PipelineSpec

\* An empty answer of /auth/me names no role.
LEMMA NoUserHasNoRoles == RolesOf(NormalizeAuthContext(NoUser)) = {}
<1>1. Spellings(NoUser) = {}
  BY DEF Spellings, NoUser, Range
<1>2. Range(NormalizeAuthContext(NoUser).roles) = {}
  BY <1>1, NormalizedPerson
<1> QED
  BY <1>2 DEF RolesOf

\* Who is let through has come from Common Auth.
LEMMA InvUser ==
  ASSUME PipelineInv, NEW r \in Requests, me[r].phase = "ok"
  PROVE  /\ user[r] \in since[r] \cup {NoUser}
         /\ user[r] = NoUser \/ IsPerson(user[r])
  BY DEF PipelineInv, Shape, Me!CallsOK, Me!CallOK, UserOK

LEMMA InvVouched == PipelineInv => VouchedSinceArrival
<1> SUFFICES ASSUME PipelineInv, NEW r \in Requests, Sent(r), ~RouteOf(r).public,
                    user[r] \notin since[r]
             PROVE  user[r] = NoUser /\ RouteOf(r).roles = {}
  BY DEF VouchedSinceArrival
<1>1. /\ me[r].phase = "ok" /\ RefusalOf(r) = "none"
      /\ Context(r) = NormalizeAuthContext(user[r])
  BY DEF PipelineInv, ChainOK, Sent, Context
<1>2. user[r] = NoUser
  BY <1>1, InvUser
<1>3. PassesRolesGuard(RouteOf(r), NormalizeAuthContext(NoUser))
  BY <1>1, <1>2, RefusalMeaning DEF RefusalOf
<1> QED
  BY <1>2, <1>3, NoUserHasNoRoles DEF PassesRolesGuard

\* Nothing is forwarded on the word of another time.
THEOREM PipelineVouches == PipelineSpec => []VouchedSinceArrival
  BY PipelineInvariant, InvVouched, PTL

\* A request that was forwarded took a route of the table.
LEMMA InvRoute ==
  ASSUME PipelineInv, NEW r \in Requests, input[r] # Null, served[r] # Undefined
  PROVE  RouteOK(RouteOf(r)) /\ input[r] \in Inputs
  BY RoutesSound DEF PipelineInv, Shape, ChainOK, RouteOf

LEMMA InvScope == PipelineInv => CreatedInScope
<1> SUFFICES ASSUME PipelineInv, NEW r \in Requests, Sent(r),
                    RouteOf(r).operation = "create", user[r] \notin {Null, NoUser}
             PROVE  /\ (\A u \in since[r] : IsDepartmentManager(u)) =>
                         told[r].body.place \in {u.place : u \in since[r]}
                    /\ input[r].body.role = "MANAGER" => Complete(told[r].body.place)
  BY DEF CreatedInScope
<1> DEFINE u == user[r]
           n == NormalizeAuthContext(u)
<1>1. /\ input[r] # Null /\ served[r] # Undefined
      /\ RouteOf(r).public \/ me[r].phase = "ok"
      /\ Refusal(input[r], RouteOf(r), Context(r)) = "none"
      /\ told[r] = Forwarded(input[r], RouteOf(r), Context(r))
  BY DEF PipelineInv, ChainOK, Sent, RefusalOf
<1>2. RouteOf(r).service = "auth" /\ input[r] \in Inputs
  BY <1>1, InvRoute DEF RouteOK
<1>3. me[r].verdict = "accepted"
  BY DEF PipelineInv, UserOK
<1>4. me[r].phase # "unsent"
  BY <1>3 DEF PipelineInv, Shape, Me!CallsOK, Me!CallOK
<1>5. ~RouteOf(r).public
  BY <1>4 DEF PipelineInv, ChainOK
<1>6. u \in since[r] /\ IsPerson(u) /\ Context(r) = n
  BY <1>1, <1>5, InvUser DEF Context
<1>7. told[r].body.place = ScopedBody(input[r], n).place
  BY <1>1, <1>2, <1>6, Written
<1>8. ASSUME IsDepartmentManager(u) PROVE told[r].body.place = u.place
  <2>1. IsDepartmentManager(n) /\ n.place = u.place
    BY <1>6, <1>8, ManagerKept, NormalizedPerson
  <2>2. DOMAIN input[r].body = {"role", "place"}
    BY <1>2, PipelineAssumption
  <2> QED
    BY <1>7, <2>1, <2>2 DEF ScopedBody
<1>9. input[r].body.role = "MANAGER" => Complete(told[r].body.place)
  <2>1. ManagerPlaced(input[r], RouteOf(r), n)
    BY <1>1, <1>6, RefusalMeaning
  <2> QED
    BY <1>7, <2>1 DEF ManagerPlaced
<1> QED
  BY <1>6, <1>8, <1>9

\* Users created by a department manager get the manager's place, whatever the
\* request says and whenever the manager is moved.
THEOREM PipelineScopes == PipelineSpec => []CreatedInScope
  BY PipelineInvariant, InvScope, PTL

LEMMA InvDepartment == PipelineInv => DepartmentAsNamed
<1> SUFFICES ASSUME PipelineInv, NEW r \in Requests, Sent(r), RouteOf(r).service = "core"
             PROVE  LET named == DepartmentOverride(input[r], RouteOf(r))
                    IN /\ named \notin {Undefined, Null, Empty} =>
                            told[r].actor.department = named
                       /\ RouteOf(r).public => told[r].actor.department \in {named, Undefined}
  BY DEF DepartmentAsNamed
<1> DEFINE i == input[r]
           rt == RouteOf(r)
           actor == Actor(i, rt, Context(r))
<1>1. input[r] # Null /\ served[r] # Undefined /\ told[r] = Forwarded(i, rt, Context(r))
  BY DEF PipelineInv, ChainOK, Sent
<1>2. told[r].actor = Headers(actor)
  BY <1>1 DEF Forwarded
<1>3. actor.department = ActorDepartment(i, rt, Context(r)) /\ "department" \in DOMAIN actor
  BY DEF Actor
<1> HIDE DEF actor
<1>4. told[r].actor.department =
        IF actor.department = Empty THEN Undefined ELSE actor.department
  BY <1>2, <1>3 DEF Headers
<1>5. rt.public => rt.actor # "user"
  BY <1>1, InvRoute DEF RouteOK
<1> QED
  BY <1>3, <1>4, <1>5 DEF ActorDepartment, Coalesce

\* The client's header never contradicts the department that the route is about.
THEOREM PipelineKeepsDepartment == PipelineSpec => []DepartmentAsNamed
  BY PipelineInvariant, InvDepartment, PTL

LEMMA InvAdmitted == PipelineInv => AdmittedHasActor
<1> SUFFICES ASSUME PipelineInv, NEW r \in Requests, me[r].phase = "ok",
                    RouteOf(r).service = "core", answer[r] \in {"401", "403"},
                    RouteOf(r).roles \cap RolesOf(NormalizeAuthContext(user[r])) # {}
             PROVE  FALSE
  BY DEF AdmittedHasActor
<1> DEFINE u == user[r]
           n == NormalizeAuthContext(u)
           rt == RouteOf(r)
<1>1. /\ input[r] # Null /\ served[r] # Undefined /\ ~rt.public
      /\ fwd[r].phase # "unsent" => answer[r] \in {"ok", "rejected", "504", "503", "502", "500"}
                                    \/ answer[r] = Null
      /\ fwd[r].phase = "unsent" => RefusalOf(r) = answer[r]
  BY DEF PipelineInv, Shape, Fwd!CallsOK, Fwd!CallRecord, Fwd!Phases, Fwd!Endings, Fwd!Failures,
         Me!Endings, Me!Failures, ChainOK
<1>2. Refusal(input[r], rt, n) \in {"401", "403"}
  BY <1>1, AbsentAnswer DEF RefusalOf, Context, Answers
<1>3. rt.roles # {} /\ rt.roles \subseteq CoreRoles
  BY <1>1, InvRoute DEF RouteOK
<1>4. u = NoUser \/ IsPerson(u)
  BY InvUser
<1>5. IsPerson(u) /\ n.id = u.id /\ n.id # Undefined
  BY <1>4, NoUserHasNoRoles, NormalizedPerson DEF IsPerson
<1>6. PassesRolesGuard(rt, n) /\ ResolveUserRole(n) # Undefined
  BY <1>3, <1>4, CoreRoleResolved DEF PassesRolesGuard
<1> QED
  BY <1>2, <1>5, <1>6, RefusalMeaning

\* Whom RolesGuard lets through to the core has an actor there.
THEOREM PipelineAdmitted == PipelineSpec => []AdmittedHasActor
  BY PipelineInvariant, InvAdmitted, PTL

----------------------------------------------------------------------------
(* The pipeline implements Relay *)

\* What a step does to the answer of a request and to what was done for it: an
\* answer stays, and what is done is done while the request is on its way, when
\* nothing is answered.
Moved(r) ==
  /\ answer[r] # Null => answer'[r] = answer[r]
  /\ \/ fwd'[r].applied = fwd[r].applied
     \/ /\ fwd[r].inTransit /\ fwd'[r].applied = fwd[r].applied + 1
        /\ answer'[r] = answer[r]

LEMMA StepMoves ==
  ASSUME PipelineInv, NEW r \in Requests,
         \/ \E i \in Inputs : Arrive(r, i)
         \/ MeHeaders(r) \/ MeEnds(r) \/ MeTimesOut(r) \/ MeFails(r) \/ MeTaken(r)
         \/ FwdHeaders(r) \/ FwdEnds(r) \/ FwdTimesOut(r) \/ FwdFails(r) \/ FwdTaken(r)
  PROVE  Moved(r)
<1>1. Fwd!CallsOK /\ Me!CallsOK /\ ChainOK(r)
  BY DEF PipelineInv, Shape
<1>2. ASSUME NEW i, NEW rt, NEW u, Handle(r, i, rt, u)
      PROVE  fwd'[r].applied = fwd[r].applied
  BY <1>1, <1>2, Fwd!CallMoves DEF Handle
<1>3. ASSUME NEW i \in Inputs, Arrive(r, i) PROVE Moved(r)
  <2>1. answer[r] = Null
    BY <1>1, <1>3 DEF Arrive, ChainOK
  <2>2. fwd'[r].applied = fwd[r].applied
    BY <1>2, <1>3 DEF Arrive
  <2> QED
    BY <2>1, <2>2 DEF Moved
<1>4. ASSUME MeEnds(r) PROVE Moved(r)
  <2>1. answer[r] = Null
    BY <1>4, MeMoved DEF MeEnds
  <2>2. fwd'[r].applied = fwd[r].applied
    BY <1>2, <1>4 DEF MeEnds
  <2> QED
    BY <2>1, <2>2 DEF Moved
<1>5. ASSUME MeTimesOut(r) \/ MeFails(r) PROVE Moved(r)
  BY <1>5, MeMoved DEF MeTimesOut, MeFails, MeFailed, Moved
<1>6. ASSUME MeHeaders(r) \/ MeTaken(r) PROVE Moved(r)
  BY <1>6 DEF MeHeaders, MeTaken, Moved
<1>7. ASSUME FwdHeaders(r) \/ FwdEnds(r) \/ FwdTimesOut(r) \/ FwdFails(r) PROVE Moved(r)
  <2>1. fwd[r].phase \in {"sent", "answering"} /\ fwd'[r].applied = fwd[r].applied
    BY <1>1, <1>7, Fwd!CallMoves DEF FwdHeaders, FwdEnds, FwdTimesOut, FwdFails
  <2> QED
    BY <1>1, <2>1 DEF Moved, ChainOK
<1>8. ASSUME FwdTaken(r) PROVE Moved(r)
  <2>1. PICK verdict \in {"accepted", "refused"} : Fwd!Take(r, verdict)
    BY <1>8 DEF FwdTaken
  <2>2. /\ fwd[r].inTransit /\ fwd'[r].phase = fwd[r].phase
        /\ fwd'[r].applied = fwd[r].applied + (IF verdict = "accepted" THEN 1 ELSE 0)
    BY <1>1, <2>1, Fwd!CallMoves
  <2>3. fwd[r].applied \in {0, 1}
    BY <1>1 DEF Fwd!CallsOK, Fwd!CallRecord
  <2> QED
    BY <1>8, <2>2, <2>3 DEF FwdTaken, Moved
<1> QED
  BY <1>3, <1>4, <1>5, <1>6, <1>7, <1>8

\* What is said of a request, and what is known of it by then.
Truly(r) ==
  /\ relaySaid[r] \in Abstract!Said /\ relayDone[r] \in {0, 1}
  /\ relaySaid[r] = "nothing" <=> answer[r] = Null
  /\ relaySaid[r] = "done" => relayDone[r] = 1
  /\ relaySaid[r] = "refused" => relayDone[r] = 0
  /\ fwd[r].inTransit => relaySaid[r] \in {"nothing", "unknown"} /\ relayDone[r] = 0

LEMMA SaidTruly == PipelineInv => \A r \in Requests : Truly(r)
<1> SUFFICES ASSUME PipelineInv, NEW r \in Requests PROVE Truly(r)
  OBVIOUS
<1> DEFINE x == fwd[r]
<1>1. /\ relayDone[r] = x.applied
      /\ relaySaid[r] = IF answer[r] = Null THEN "nothing" ELSE IF answer[r] = "ok" THEN "done"
                        ELSE IF answer[r] \in Fwd!Failures THEN "unknown" ELSE "refused"
  BY DEF relayDone, relaySaid
<1>2. x \in Fwd!CallRecord /\ Fwd!CallOK(x) /\ ChainOK(r)
  BY DEF PipelineInv, Shape, Fwd!CallsOK
<1>3. x.applied \in {0, 1} /\ x.phase \in Fwd!Phases
  BY <1>2 DEF Fwd!CallRecord
<1>4. CASE x.phase = "unsent"
  BY <1>1, <1>2, <1>3, <1>4 DEF Truly, ChainOK, Fwd!CallOK, Fwd!Failures, Abstract!Said
<1>5. CASE x.phase \in {"sent", "answering"}
  BY <1>1, <1>2, <1>3, <1>5 DEF Truly, ChainOK, Fwd!CallOK, Fwd!Failures, Abstract!Said
<1>6. CASE x.phase \in Me!Endings
  BY <1>1, <1>2, <1>3, <1>6, AbsentAnswer
     DEF Truly, ChainOK, Fwd!CallOK, Fwd!Failures, Me!Endings, Me!Failures, Answers, Abstract!Said
<1> QED
  BY <1>3, <1>4, <1>5, <1>6
     DEF Fwd!Phases, Fwd!Endings, Fwd!Failures, Me!Endings, Me!Failures

LEMMA SaidTrulyNext == PipelineInv' => (\A r \in Requests : Truly(r))'
  BY SaidTruly, PTL

LEMMA StepRefines ==
  ASSUME PipelineInv, PipelineInv', NEW r \in Requests, OnlyAt(r), Moved(r)
  PROVE  [Abstract!RelayNext]_<<relayDone, relaySaid>>
<1>1. /\ relayDone = [q \in Requests |-> relayDone[q]] /\ relaySaid = [q \in Requests |-> relaySaid[q]]
      /\ relayDone' = [q \in Requests |-> relayDone'[q]]
      /\ relaySaid' = [q \in Requests |-> relaySaid'[q]]
  BY DEF relayDone, relaySaid
<1>2. \A q \in Requests \ {r} : relayDone'[q] = relayDone[q] /\ relaySaid'[q] = relaySaid[q]
  BY DEF OnlyAt, relayDone, relaySaid
<1>3. /\ relayDone[r] = fwd[r].applied /\ relayDone'[r] = fwd'[r].applied
      /\ answer'[r] = answer[r] => relaySaid'[r] = relaySaid[r]
  BY DEF relayDone, relaySaid
<1>4. /\ relaySaid[r] = "nothing" <=> answer[r] = Null
      /\ fwd[r].inTransit => relaySaid[r] \in {"nothing", "unknown"} /\ relayDone[r] = 0
  BY SaidTruly DEF Truly
<1>5. /\ relaySaid'[r] \in Abstract!Said
      /\ relaySaid'[r] = "done" => relayDone'[r] = 1
      /\ relaySaid'[r] = "refused" => relayDone'[r] = 0
  BY SaidTrulyNext DEF Truly
<1> HIDE DEF relayDone, relaySaid
<1>6. CASE relayDone'[r] = relayDone[r] /\ relaySaid'[r] = relaySaid[r]
  BY <1>1, <1>2, <1>6
<1>7. CASE relayDone'[r] = relayDone[r] /\ relaySaid'[r] # relaySaid[r]
  <2>1. relaySaid[r] = "nothing"
    BY <1>3, <1>4, <1>7 DEF Moved
  <2>2. relayDone' = relayDone /\ relaySaid' = [relaySaid EXCEPT ![r] = relaySaid'[r]]
    BY <1>1, <1>2, <1>7
  <2>3. Abstract!Say(r, relaySaid'[r]) /\ relaySaid'[r] \in Abstract!Said \ {"nothing"}
    BY <1>5, <1>7, <2>1, <2>2 DEF Abstract!Say
  <2> QED
    BY <2>3 DEF Abstract!RelayNext
<1>8. CASE relayDone'[r] # relayDone[r]
  <2>1. /\ fwd[r].inTransit /\ fwd'[r].applied = fwd[r].applied + 1
        /\ answer'[r] = answer[r]
    BY <1>3, <1>8 DEF Moved
  <2>2. relayDone[r] = 0 /\ relayDone'[r] = 1 /\ relaySaid'[r] = relaySaid[r]
    BY <1>3, <1>4, <2>1
  <2>3. relayDone' = [relayDone EXCEPT ![r] = 1] /\ relaySaid' = relaySaid
    BY <1>1, <1>2, <2>2
  <2>4. Abstract!Do(r)
    BY <1>4, <2>1, <2>2, <2>3 DEF Abstract!Do
  <2> QED
    BY <2>4 DEF Abstract!RelayNext
<1> QED
  BY <1>6, <1>7, <1>8

LEMMA InitRefines == PipelineInit => Abstract!RelayInit
  BY DEF PipelineInit, Fwd!UpstreamInit, Fwd!Unsent, Abstract!RelayInit, relayDone, relaySaid

LEMMA NextRefines ==
  PipelineInv /\ PipelineInv' /\ [PipelineNext]_vars =>
    [Abstract!RelayNext]_<<relayDone, relaySaid>>
<1> SUFFICES ASSUME PipelineInv, PipelineInv', [PipelineNext]_vars
             PROVE  [Abstract!RelayNext]_<<relayDone, relaySaid>>
  OBVIOUS
<1>1. CASE UNCHANGED vars
  BY <1>1 DEF vars, relayDone, relaySaid
<1>2. ASSUME NEW r \in Requests,
             \/ \E i \in Inputs : Arrive(r, i)
             \/ MeHeaders(r) \/ MeEnds(r) \/ MeTimesOut(r) \/ MeFails(r) \/ MeTaken(r)
             \/ FwdHeaders(r) \/ FwdEnds(r) \/ FwdTimesOut(r) \/ FwdFails(r) \/ FwdTaken(r)
      PROVE  [Abstract!RelayNext]_<<relayDone, relaySaid>>
  <2>1. Moved(r)
    BY <1>2, StepMoves
  <2>2. OnlyAt(r)
    BY <1>2, ArriveInv, MeHeadersInv, MeEndsInv, MeTimesOutInv, MeFailsInv, MeTakenInv,
       FwdHeadersInv, FwdEndedInv, FwdTakenInv DEF FwdEnds, FwdTimesOut, FwdFails
  <2> QED
    BY <2>1, <2>2, StepRefines
<1> QED
  BY <1>1, <1>2 DEF PipelineNext

\* Clients are told the truth: the pipeline implements Relay.
THEOREM PipelineImplementsRelay == PipelineSpec => AnsweredTruthfully
  BY PipelineInitInv, PipelineStepInv, InitRefines, NextRefines, PTL
     DEF PipelineSpec, AnsweredTruthfully, Abstract!RelaySpec

----------------------------------------------------------------------------
(* What Relay promises, of the pipeline *)

RelayInv ==
  /\ DOMAIN relayDone = Requests /\ DOMAIN relaySaid = Requests
  /\ Abstract!ToldTruly

LEMMA RelayStepInv ==
  RelayInv /\ [Abstract!RelayNext]_<<relayDone, relaySaid>> => RelayInv'
<1> SUFFICES ASSUME RelayInv, [Abstract!RelayNext]_<<relayDone, relaySaid>> PROVE RelayInv'
  OBVIOUS
<1> USE DEF RelayInv, Abstract!ToldTruly
<1>1. ASSUME NEW r \in Requests, Abstract!Do(r) PROVE RelayInv'
  BY <1>1 DEF Abstract!Do
<1>2. ASSUME NEW r \in Requests, NEW what \in Abstract!Said \ {"nothing"},
             Abstract!Say(r, what)
      PROVE  RelayInv'
  BY <1>2 DEF Abstract!Say
<1>3. CASE UNCHANGED <<relayDone, relaySaid>>
  BY <1>3
<1> QED
  BY <1>1, <1>2, <1>3 DEF Abstract!RelayNext

LEMMA RelayInitInv == Abstract!RelayInit => RelayInv
  BY DEF RelayInv, Abstract!RelayInit, Abstract!ToldTruly, Abstract!Said

\* What a client is told of its request is the case from then on: after a success it
\* was done, once; after a refusal, of the service or of the gateway's own making, it
\* was not.
THEOREM PipelineToldTruly == PipelineSpec => []Abstract!ToldTruly
<1>1. RelayInv => Abstract!ToldTruly
  BY DEF RelayInv
<1> QED
  BY <1>1, RelayInitInv, RelayStepInv, PipelineImplementsRelay, PTL
     DEF AnsweredTruthfully, Abstract!RelaySpec

\* And it stays so: no answer is taken back, and a request that is carried out after
\* its answer is one whose client was told that its end is unknown.
THEOREM PipelineToldForGood == PipelineSpec => Abstract!ToldForGood
<1> DEFINE A == \A r \in Requests :
                  /\ relaySaid[r] # "nothing" => relaySaid'[r] = relaySaid[r]
                  /\ relayDone'[r] # relayDone[r] =>
                       relaySaid[r] \in {"nothing", "unknown"} /\ relayDone'[r] = 1
<1>1. RelayInv /\ [Abstract!RelayNext]_<<relayDone, relaySaid>> => [A]_<<relayDone, relaySaid>>
  <2> SUFFICES ASSUME RelayInv, Abstract!RelayNext PROVE A
    OBVIOUS
  <2>1. PICK r \in Requests :
          Abstract!Do(r) \/ \E what \in Abstract!Said \ {"nothing"} : Abstract!Say(r, what)
    BY DEF Abstract!RelayNext
  <2>2. CASE Abstract!Do(r)
    BY <2>2 DEF Abstract!Do, RelayInv
  <2>3. CASE \E what \in Abstract!Said \ {"nothing"} : Abstract!Say(r, what)
    BY <2>3 DEF Abstract!Say, RelayInv
  <2> QED
    BY <2>1, <2>2, <2>3
<1> QED
  BY <1>1, RelayInitInv, RelayStepInv, PipelineImplementsRelay, PTL
     DEF AnsweredTruthfully, Abstract!RelaySpec, Abstract!ToldForGood

=============================================================================
