---------------------------- MODULE Gateway_proofs ----------------------------
(***************************************************************************)
(* Proofs about Gateway, for any keys, any number of requests in flight    *)
(* and any limit and window.  What the limiter promises by itself is taken *)
(* over from RateLimit_proofs: a step of the gateway is a step of the      *)
(* limiter, leaves it alone, or starts a new one.                          *)
(***************************************************************************)
EXTENDS Gateway, RateLimit_proofs

(***************************************************************************)
(* A key told to be revoked is, and stays so: a request that arrives with  *)
(* it finds no usable row however late its lookup comes.                   *)
(***************************************************************************)
DeadInv ==
    /\ \A k \in assured : row[k] = "revoked"
    /\ \A r \in Requests :
           InFlight(r) /\ req[r].dead =>
               req[r].token \in Keys /\ row[req[r].token] = "revoked"

\* Nobody is asked for quota but for a costly endpoint.
LimitInv == \A r \in Requests : req[r].at = "limit" => req[r].costly

GatewayIInv ==
    /\ IInv
    /\ GatewayTypeOK
    /\ DeadInv
    /\ LimitInv
    /\ ServedIsAuthorised

-----------------------------------------------------------------------------

LEMMA FreeType ==
    Free \in [at : {"free", "auth", "limit", "serve"}, costly : BOOLEAN,
              token : Tokens, dead : BOOLEAN]
  BY DEF Free, Tokens

LEMMA GatewayInitIInv == GatewayInit => GatewayIInv
  <1> SUFFICES ASSUME GatewayInit PROVE GatewayIInv
    OBVIOUS
  <1>1. IInv /\ TypeOK
    BY InitIInv DEF GatewayInit, IInv
  <1>2. GatewayTypeOK
    BY <1>1, FreeType DEF GatewayInit, GatewayTypeOK, InFlight, Free
  <1>3. DeadInv /\ ServedIsAuthorised /\ LimitInv
    BY DEF LimitInv, GatewayInit, DeadInv, ServedIsAuthorised, InFlight, Free
  <1> QED
    BY <1>1, <1>2, <1>3 DEF GatewayIInv

\* A new process begins with a limiter that has seen nothing.
LEMMA FreshLimiter ==
    ASSUME IInv, now' = now, windowStart' = None, count' = 0, told' = None,
           admitted' = << >>
    PROVE  IInv'
  <1>1. Len(admitted') = 0 /\ admitted' \in Seq(Nat)
    OBVIOUS
  <1>2. TypeOK'
    BY <1>1, RateAssumption DEF IInv, TypeOK
  <1>3. WindowInv'
    BY <1>1 DEF WindowInv
  <1>4. ToldInv' /\ SustainedRate' /\ RefusalIsEarned'
    BY <1>1 DEF ToldInv, SustainedRate, RefusalIsEarned
  <1> QED
    BY <1>2, <1>3, <1>4 DEF IInv

\* What every step does to the limiter.
LEMMA LimiterStep ==
    ASSUME IInv, [GatewayNext]_gatewayVars
    PROVE  IInv' /\ TypeOK'
  <1>1. CASE \E m \in {"env", "database"} : Start(m)
    BY <1>1, FreshLimiter DEF Start, IInv
  <1>2. CASE [Next]_vars
    BY <1>2, NextIInv DEF IInv
  <1>3. CASE UNCHANGED gatewayVars
    BY <1>2, <1>3 DEF gatewayVars
  <1> QED
    BY <1>1, <1>2, <1>3
    DEF GatewayNext, Keygen, Handles, Migrate, Create, Revoke, RevokeAgain,
        Arrive, Authenticate, LookupFails, Let, TooMany, Serve, Signal,
        Drained, GraceExpires, ServeFails, Closed, Crash, Stops, Closes,
        GatewayTick, Next

\* A request that moves on keeps its token and what was known at its arrival.
LEMMA GotoKeeps ==
    ASSUME GatewayTypeOK, NEW r \in Requests,
           NEW place \in {"auth", "limit", "serve"}, Goto(r, place)
    PROVE  /\ req' \in [Requests -> [at : {"free", "auth", "limit", "serve"},
                             costly : BOOLEAN, token : Tokens,
                             dead : BOOLEAN]]
           /\ \A q \in Requests :
                  /\ q # r => req'[q] = req[q]
                  /\ req'[q].token = req[q].token /\ req'[q].dead = req[q].dead
                  /\ req'[q].costly = req[q].costly
           /\ req'[r].at = place
  BY DEF GatewayTypeOK, Goto

LEMMA AnswerFrees ==
    ASSUME GatewayTypeOK, NEW r \in Requests, Answer(r)
    PROVE  /\ req' \in [Requests -> [at : {"free", "auth", "limit", "serve"},
                             costly : BOOLEAN, token : Tokens,
                             dead : BOOLEAN]]
           /\ \A q \in Requests : q # r => req'[q] = req[q]
           /\ req'[r].at = "free"
  BY FreeType DEF GatewayTypeOK, Answer, Free

\* One step of a request in flight.
LEMMA HandlesIInv ==
    ASSUME GatewayIInv, IInv', TypeOK', NEW r \in Requests, Handles(r)
    PROVE  GatewayIInv'
  <1>1. UNCHANGED <<life, mode, migrated, row, assured>> /\ life # "down"
    BY DEF Handles, Authenticate, LookupFails, Let, TooMany, Serve
  <1>2. CASE Answer(r)
    BY <1>1, <1>2, AnswerFrees
    DEF GatewayIInv, GatewayTypeOK, DeadInv, LimitInv, ServedIsAuthorised,
        Authorised, InFlight
  <1>3. CASE \E place \in {"limit", "serve"} : 
          Goto(r, place) /\ Authorised(r) /\ InFlight(r)
          /\ (place = "limit" => req[r].costly)
    <2>1. PICK place \in {"limit", "serve"} :
              /\ Goto(r, place) /\ Authorised(r) /\ InFlight(r)
              /\ place = "limit" => req[r].costly
      BY <1>3
    <2>2. /\ req' \in [Requests -> [at : {"free", "auth", "limit", "serve"},
                             costly : BOOLEAN, token : Tokens,
                             dead : BOOLEAN]]
          /\ \A q \in Requests :
                  /\ q # r => req'[q] = req[q]
                  /\ req'[q].token = req[q].token /\ req'[q].dead = req[q].dead
                  /\ req'[q].costly = req[q].costly
          /\ req'[r].at = place
      BY <2>1, GotoKeeps DEF GatewayIInv
    <2>3. GatewayTypeOK'
      BY <1>1, <2>2 DEF GatewayIInv, GatewayTypeOK
    <2>4. DeadInv'
      BY <1>1, <2>1, <2>2 DEF GatewayIInv, DeadInv, InFlight
    <2>5. ServedIsAuthorised' /\ LimitInv'
      BY <1>1, <2>1, <2>2 DEF GatewayIInv, ServedIsAuthorised, Authorised,
                              LimitInv
    <2> QED
      BY <2>3, <2>4, <2>5 DEF GatewayIInv
  <1>4. CASE Authenticate(r) /\ ~Answer(r)
    <2>1. /\ req[r].at = "auth" /\ Goto(r, AfterAuth(r))
          /\ EnvMatches(req[r].token) \/ FoundUsable(req[r].token)
      BY <1>4 DEF Authenticate
    <2>2. /\ AfterAuth(r) \in {"limit", "serve"}
          /\ AfterAuth(r) = "limit" => req[r].costly
      BY DEF AfterAuth
    <2>3. Authorised(r)
      BY <2>1 DEF Authorised, EnvMatches, FoundUsable, GatewayIInv, DeadInv,
                  InFlight
    <2> QED
      BY <1>3, <2>1, <2>2, <2>3 DEF InFlight
  <1>5. CASE Let(r)
    BY <1>3, <1>5 DEF Let, AtLimiter, GatewayIInv, ServedIsAuthorised, InFlight
  <1> QED
    BY <1>2, <1>4, <1>5 DEF Handles, LookupFails, TooMany, Serve

\* Keygen and Migrate: rows are made, and revoked for good.
LEMMA KeyTableIInv ==
    ASSUME GatewayIInv, IInv', TypeOK', Keygen \/ Migrate
    PROVE  GatewayIInv'
  <1> USE DEF GatewayIInv, GatewayTypeOK, DeadInv, LimitInv,
              ServedIsAuthorised, Authorised, InFlight
  <1>1. CASE Migrate
    BY <1>1 DEF Migrate
  <1>2. ASSUME NEW k \in Keys, Create(k) PROVE GatewayIInv'
    BY <1>2 DEF Create
  <1>3. ASSUME NEW k \in Keys, Revoke(k) PROVE GatewayIInv'
    BY <1>3 DEF Revoke
  <1>4. ASSUME NEW k \in Keys, RevokeAgain(k) PROVE GatewayIInv'
    BY <1>4 DEF RevokeAgain
  <1> QED
    BY <1>1, <1>2, <1>3, <1>4 DEF Keygen

LEMMA ArriveIInv ==
    ASSUME GatewayIInv, IInv', TypeOK', NEW r \in Requests, NEW t \in Tokens,
           NEW c \in BOOLEAN, Arrive(r, t, c)
    PROVE  GatewayIInv'
  <1> DEFINE dead == t \in assured
             new == [at |-> "auth", costly |-> c, token |-> t, dead |-> dead]
  <1>a. dead \in BOOLEAN
    OBVIOUS
  <1>b. req' = [req EXCEPT ![r] = new]
    BY DEF Arrive
  <1>c. /\ new \in [at : {"free", "auth", "limit", "serve"},
                   costly : BOOLEAN, token : Tokens, dead : BOOLEAN]
        /\ new.at = "auth" /\ new.token = t /\ new.dead = dead
    <2> HIDE DEF dead
    <2> QED
      BY <1>a
  <1> HIDE DEF new
  <1>1. /\ life = "up" /\ UNCHANGED <<life, mode, migrated, row, assured>>
        /\ req' \in [Requests -> [at : {"free", "auth", "limit", "serve"},
                             costly : BOOLEAN, token : Tokens,
                             dead : BOOLEAN]]
        /\ \A q \in Requests : q # r => req'[q] = req[q]
        /\ req'[r].at = "auth" /\ req'[r].token = t
        /\ req'[r].dead = (t \in assured)
    BY <1>b, <1>c DEF Arrive, GatewayIInv, GatewayTypeOK
  <1>2. GatewayTypeOK' /\ ServedIsAuthorised' /\ LimitInv'
    BY <1>1 DEF GatewayIInv, GatewayTypeOK, ServedIsAuthorised, Authorised,
                LimitInv
  <1>3. DeadInv'
    BY <1>1 DEF GatewayIInv, GatewayTypeOK, DeadInv, InFlight
  <1> QED
    BY <1>2, <1>3 DEF GatewayIInv

\* The life of the process.
LEMMA LifeIInv ==
    ASSUME GatewayIInv, IInv', TypeOK',
           \/ \E m \in {"env", "database"} : Start(m)
           \/ Signal \/ Stops \/ Closes
           \/ GatewayTick \/ UNCHANGED gatewayVars,
           Closes => life # "down"
    PROVE  GatewayIInv'
  <1> USE DEF GatewayIInv, GatewayTypeOK, DeadInv, LimitInv,
              ServedIsAuthorised, Authorised, InFlight
  <1>1. ASSUME NEW m \in {"env", "database"}, Start(m) PROVE GatewayIInv'
    BY <1>1 DEF Start, Ready
  <1>2. CASE Signal
    BY <1>2 DEF Signal
  <1>3. CASE Stops
    BY <1>3, FreeType DEF Stops, Free
  <1>4. CASE Closes
    BY <1>4 DEF Closes
  <1>5. CASE GatewayTick \/ UNCHANGED gatewayVars
    BY <1>5 DEF GatewayTick, gatewayVars, ownVars
  <1> QED
    BY <1>1, <1>2, <1>3, <1>4, <1>5

LEMMA GatewayInvariance == GatewaySpec => []GatewayIInv
  <1>1. ASSUME GatewayIInv, [GatewayNext]_gatewayVars PROVE GatewayIInv'
    <2>1. IInv' /\ TypeOK'
      BY <1>1, LimiterStep DEF GatewayIInv
    <2>2. CASE Keygen \/ Migrate
      BY <1>1, <2>1, <2>2, KeyTableIInv
    <2>3. ASSUME NEW r \in Requests, NEW t \in Tokens, NEW c \in BOOLEAN,
                 Arrive(r, t, c)
          PROVE  GatewayIInv'
      BY <1>1, <2>1, <2>3, ArriveIInv
    <2>4. ASSUME NEW r \in Requests, Handles(r) PROVE GatewayIInv'
      BY <1>1, <2>1, <2>4, HandlesIInv
    <2>5. CASE \/ \E m \in {"env", "database"} : Start(m)
               \/ Signal \/ Stops
               \/ GatewayTick \/ UNCHANGED gatewayVars
      <3>1. Closes => life # "down"
        BY <2>5 DEF Start, Signal, Stops, Closes, GatewayTick, gatewayVars,
                    ownVars
      <3> QED
        BY <1>1, <2>1, <2>5, <3>1, LifeIInv
    <2>6. CASE Closes /\ life # "down"
      BY <1>1, <2>1, <2>6, LifeIInv
    <2>7. Drained \/ Closed \/ Crash => Stops
      BY DEF Drained, Closed, Crash
    <2>8. GraceExpires \/ ServeFails => Closes /\ life # "down"
      BY DEF GraceExpires, ServeFails
    <2> QED
      BY <1>1, <2>2, <2>3, <2>4, <2>5, <2>6, <2>7, <2>8 DEF GatewayNext
  <1> QED
    BY <1>1, GatewayInitIInv, PTL DEF GatewaySpec

\* Every variable of the gateway and its limiter stays in its range, and
\* database mode runs on its table.
THEOREM GatewayTypeCorrect == GatewaySpec => []GatewayTypeOK
  BY GatewayInvariance, PTL DEF GatewayIInv

\* The sliding bound of the limiter holds of every process, whoever asks it.
THEOREM GatewaySlidingBound == GatewaySpec => []TwiceTheLimit
  BY GatewayInvariance, SustainedTwice, PTL DEF GatewayIInv

\* So do the rate it keeps up over any number of windows,
THEOREM GatewayRateIsSustained == GatewaySpec => []SustainedRate
  BY GatewayInvariance, PTL DEF GatewayIInv, IInv

\* what a 429 says of the requests before it,
THEOREM GatewayRefusalsAreEarned == GatewaySpec => []RefusalIsEarned
  BY GatewayInvariance, PTL DEF GatewayIInv, IInv

\* and what a refused client is told.
THEOREM GatewayWaitIsEnough == GatewaySpec => []WaitSuffices
  BY GatewayInvariance, WaitOutlasts, PTL DEF GatewayIInv

\* Nobody gets past withAuth but with a key of the running mode that was not
\* known to be revoked.
THEOREM OnlyTheAuthorised == GatewaySpec => []ServedIsAuthorised
  BY GatewayInvariance, PTL DEF GatewayIInv

\* A request that is let through costs one unit and no other request does.
THEOREM QuotaIsSpentOnWork == GatewaySpec => QuotaIsForWork
  <1>1. ASSUME GatewayIInv, GatewayNext PROVE \A q \in Requests : Accounted(q)
    <2> USE DEF Accounted
    <2>1. Len(admitted) \in Nat
      BY <1>1 DEF GatewayIInv, IInv, TypeOK
    <2>2. ASSUME NEW r \in Requests, Let(r)
          PROVE  \A q \in Requests : Accounted(q)
      <3>1. /\ Goto(r, "serve") /\ req[r].at = "limit" /\ req[r].costly
            /\ Authorised(r) /\ admitted' = Append(admitted, now)
        BY <1>1, <2>2 DEF Let, AtLimiter, Admit, GatewayIInv, LimitInv,
                          ServedIsAuthorised
      <3>2. Len(admitted') = Len(admitted) + 1
        BY <1>1, <3>1 DEF GatewayIInv, IInv, TypeOK
      <3>3. req'[r].at = "serve" /\ \A q \in Requests : q # r => req'[q] = req[q]
        BY <1>1, <3>1, GotoKeeps DEF GatewayIInv
      <3> QED
        BY <2>1, <3>1, <3>2, <3>3
    <2>3. ASSUME NEW r \in Requests, Authenticate(r) \/ LookupFails(r)
                                     \/ TooMany(r) \/ Serve(r)
          PROVE  \A q \in Requests : Accounted(q)
      <3>1. admitted' = admitted
        BY <2>3 DEF Authenticate, LookupFails, TooMany, Refuse, Serve, vars
      <3>2. CASE Answer(r)
        BY <1>1, <2>1, <3>1, <3>2, AnswerFrees DEF GatewayIInv
      <3>3. CASE Goto(r, AfterAuth(r))
        <4>1. AfterAuth(r) \in {"auth", "limit", "serve"}
              /\ (req[r].costly => AfterAuth(r) = "limit")
          BY DEF AfterAuth
        <4>2. /\ req'[r].at = AfterAuth(r)
              /\ \A q \in Requests : q # r => req'[q] = req[q]
          BY <1>1, <3>3, <4>1, GotoKeeps DEF GatewayIInv
        <4> QED
          BY <2>1, <3>1, <4>1, <4>2
      <3> QED
        BY <2>3, <3>2, <3>3 DEF Authenticate, LookupFails, TooMany, Serve
    <2>4. ASSUME NEW r \in Requests, NEW t \in Tokens, NEW c \in BOOLEAN,
                 Arrive(r, t, c)
          PROVE  \A q \in Requests : Accounted(q)
      <3>1. /\ admitted' = admitted /\ req'[r].at = "auth"
            /\ \A q \in Requests : q # r => req'[q] = req[q]
        BY <1>1, <2>4 DEF Arrive, vars, GatewayIInv, GatewayTypeOK
      <3> QED
        BY <2>1, <3>1
    <2>5. CASE \E m \in {"env", "database"} : Start(m)
      BY <2>1, <2>5 DEF Start
    <2>6. CASE Stops
      BY <2>1, <2>6 DEF Stops, vars, Free
    <2>7. CASE UNCHANGED <<admitted, req>>
      BY <2>1, <2>7
    <2> QED
      BY <1>1, <2>2, <2>3, <2>4, <2>5, <2>6, <2>7
      DEF GatewayNext, Handles, Keygen, Migrate, Create, Revoke, RevokeAgain,
          Signal, Drained, GraceExpires, ServeFails, Closed, Crash, Closes,
          GatewayTick, Tick, vars, ownVars
  <1>2. GatewayIInv /\ [GatewayNext]_gatewayVars =>
            [\A r \in Requests : Accounted(r)]_gatewayVars
    BY <1>1
  <1> QED
    BY <1>2, GatewayInvariance, PTL DEF GatewaySpec, QuotaIsForWork

(***************************************************************************)
(* What StopsOnSignal rests on.                                            *)
(***************************************************************************)
Place == [auth |-> 1, limit |-> 2, serve |-> 3, free |-> 4]

\* From the signal on the process only goes towards its end: Shutdown, Close,
\* down; no request is taken in, and each of those in flight moves on towards
\* its answer, three times at most, whatever the database, keygen and the
\* limiter do.
Winding ==
    life \in {"draining", "closing"} =>
        /\ \/ life' \in {life, "down"}
           \/ life = "draining" /\ life' = "closing"
        /\ \A r \in Requests :
               \/ req'[r] \in {req[r], Free}
               \/ Place[req'[r].at] > Place[req[r].at]

WindsDown == [][Winding]_gatewayVars

THEOREM ShutdownWindsDown == GatewaySpec => WindsDown
  <1>1. ASSUME GatewayIInv, GatewayNext, life \in {"draining", "closing"}
        PROVE  Winding
    <2> USE DEF Winding, Place
    <2>1. req \in [Requests -> [at : {"free", "auth", "limit", "serve"},
                             costly : BOOLEAN, token : Tokens,
                             dead : BOOLEAN]]
      BY <1>1 DEF GatewayIInv, GatewayTypeOK
    <2>2. ASSUME NEW r \in Requests, Handles(r) PROVE Winding
      <3>1. UNCHANGED life
        BY <2>2 DEF Handles, Authenticate, LookupFails, Let, TooMany, Serve
      <3>2. CASE Answer(r) /\ req[r].at # "free"
        <4>1. /\ req'[r].at = "free"
              /\ \A q \in Requests : q # r => req'[q] = req[q]
          BY <1>1, <3>2, AnswerFrees DEF GatewayIInv
        <4> QED
          BY <2>1, <3>1, <3>2, <4>1
      <3>3. CASE Authenticate(r) /\ Goto(r, AfterAuth(r))
        <4>1. AfterAuth(r) \in {"limit", "serve"} /\ req[r].at = "auth"
          BY <3>3 DEF AfterAuth, Authenticate
        <4>2. /\ req'[r].at \in {"limit", "serve"}
              /\ \A q \in Requests : q # r => req'[q] = req[q]
          BY <1>1, <3>3, <4>1, GotoKeeps DEF GatewayIInv
        <4> QED
          BY <2>1, <3>1, <4>1, <4>2
      <3>4. CASE Let(r)
        <4>1. req[r].at = "limit" /\ Goto(r, "serve")
          BY <3>4 DEF Let, AtLimiter
        <4>2. /\ req'[r].at = "serve"
              /\ \A q \in Requests : q # r => req'[q] = req[q]
          BY <1>1, <4>1, GotoKeeps DEF GatewayIInv
        <4> QED
          BY <2>1, <3>1, <4>1, <4>2
      <3> QED
        BY <2>2, <3>2, <3>3, <3>4
        DEF Handles, Authenticate, LookupFails, TooMany, AtLimiter, Serve
    <2>3. CASE Stops
      BY <2>1, <2>3 DEF Stops, Free
    <2>4. CASE Closes
      BY <1>1, <2>4 DEF Closes
    <2>5. CASE UNCHANGED <<life, req>>
      BY <2>5
    <2>6. ~(\E r \in Requests, t \in Tokens, c \in BOOLEAN : Arrive(r, t, c))
          /\ ~(\E m \in {"env", "database"} : Start(m)) /\ ~Signal
      BY <1>1 DEF Arrive, Start, Signal
    <2> QED
      BY <1>1, <2>2, <2>3, <2>4, <2>5, <2>6
      DEF GatewayNext, Keygen, Migrate, Create, Revoke, RevokeAgain, Drained,
          GraceExpires, ServeFails, Closed, Crash, GatewayTick, ownVars
  <1>2. GatewayIInv /\ [GatewayNext]_gatewayVars => [Winding]_gatewayVars
    BY <1>1 DEF Winding
  <1> QED
    BY <1>2, GatewayInvariance, PTL DEF GatewaySpec, WindsDown

=============================================================================
