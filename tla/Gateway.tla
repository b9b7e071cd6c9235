------------------------------- MODULE Gateway -------------------------------
(***************************************************************************)
(* The gateway process in front of its endpoints: the middleware chain     *)
(* (authentication, then the limiter of RateLimit, then the handler), the  *)
(* key table it asks and that keygen changes meanwhile, and the life of    *)
(* the process from its readiness check to the end of its shutdown.        *)
(*                                                                         *)
(* RateLimit's actions are steps of this module: its variables are those   *)
(* of the process that is up, and a restart begins with a fresh limiter.   *)
(*                                                                         *)
(* External: PostgreSQL answers a query from what is committed, fails it,  *)
(* or keeps it waiting; net/http's Shutdown takes no new request and waits *)
(* for those in flight; the pool's Close waits for the connections in use. *)
(***************************************************************************)
EXTENDS RateLimit

CONSTANTS
    Keys,       \* keys that keygen may create
    EnvKey,     \* MINI_AI_DOS_API_KEY
    Requests    \* requests in flight at the same time

ASSUME GatewayAssumption == EnvKey \notin Keys

VARIABLES
    life,       \* the process: down, up, draining (Shutdown), closing (Close)
    mode,       \* its AuthMode: env or database
    migrated,   \* does the table api_keys exist?
    row,        \* of each key in it: none, active or revoked
    assured,    \* history: keys whose revocation the operator was told of
    req         \* the requests in flight, free if there is none

ownVars == <<life, mode, migrated, row, assured, req>>

gatewayVars == <<vars, ownVars>>

Tokens == Keys \cup {EnvKey}

\* A request: where it is, its endpoint (one that costs upstream calls, or the
\* polling of a run), its token, and, history, whether the operator had been
\* told of that key's revocation when the request arrived.
Free == [at |-> "free", costly |-> FALSE, token |-> EnvKey, dead |-> FALSE]

InFlight(r) == req[r].at # "free"

-----------------------------------------------------------------------------

GatewayInit ==
    /\ Init
    /\ life = "down" /\ mode = "env" /\ migrated = FALSE
    /\ row = [k \in Keys |-> "none"] /\ assured = {}
    /\ req = [r \in Requests |-> Free]

(***************************************************************************)
(* Migration and keygen: other processes, at any time.                     *)
(***************************************************************************)

Migrate ==
    /\ ~migrated /\ migrated' = TRUE
    /\ UNCHANGED <<vars, life, mode, row, assured, req>>

\* Whether its raw key reaches the operator makes no difference to the table.
Create(k) ==
    /\ migrated /\ row[k] = "none"
    /\ row' = [row EXCEPT ![k] = "active"]
    /\ UNCHANGED <<vars, life, mode, migrated, assured, req>>

\* "API KEY REVOKED" is printed, or that answer is lost.
Revoke(k) ==
    /\ row[k] = "active"
    /\ row' = [row EXCEPT ![k] = "revoked"]
    /\ assured' \in {assured, assured \cup {k}}
    /\ UNCHANGED <<vars, life, mode, migrated, req>>

\* The UPDATE matches no row: ErrNotFound, and for a key that is in the list
\* this says that it was revoked before.
RevokeAgain(k) ==
    /\ row[k] = "revoked"
    /\ assured' = assured \cup {k}
    /\ UNCHANGED <<vars, life, mode, migrated, row, req>>

(***************************************************************************)
(* A request.                                                              *)
(***************************************************************************)

Goto(r, place) == req' = [req EXCEPT ![r].at = place]

Answer(r) == req' = [req EXCEPT ![r] = Free]

Arrive(r, token, costly) ==
    /\ life = "up" /\ ~InFlight(r)
    /\ req' = [req EXCEPT ![r] = [at |-> "auth", costly |-> costly,
                                  token |-> token, dead |-> token \in assured]]
    /\ UNCHANGED <<vars, life, mode, migrated, row, assured>>

\* What withAuth calls: the limiter is in front of the costly endpoints.
AfterAuth(r) == IF req[r].costly THEN "limit" ELSE "serve"

\* Mutant: the environment's key is good in either mode.
EnvMatchesAlways(token) == token = EnvKey

EnvMatches(token) == mode = "env" /\ token = EnvKey

\* Mutant: Revoked() is not asked.
FoundAnyRow(token) == mode = "database" /\ token \in Keys /\ row[token] # "none"

\* The row FindByHash returns, and key.Revoked().
FoundUsable(token) ==
    mode = "database" /\ token \in Keys /\ row[token] = "active"

Authenticate(r) ==
    /\ req[r].at = "auth" /\ life # "down"
    /\ IF EnvMatches(req[r].token) \/ FoundUsable(req[r].token)
       THEN Goto(r, AfterAuth(r))
       ELSE Answer(r)                       \* 401, whatever the reason
    /\ UNCHANGED <<vars, life, mode, migrated, row, assured>>

\* The lookup fails, or its client goes away: 500, and no other key is tried.
LookupFails(r) ==
    /\ req[r].at = "auth" /\ life # "down" /\ mode = "database"
    /\ Answer(r)
    /\ UNCHANGED <<vars, life, mode, migrated, row, assured>>

\* Mutant: the limiter is asked before the key is.
AtLimiterEarly(r) == req[r].at \in {"auth", "limit"}

AtLimiter(r) == req[r].at = "limit"

Let(r) ==
    /\ AtLimiter(r) /\ life # "down"
    /\ Admit
    /\ Goto(r, "serve")
    /\ UNCHANGED <<life, mode, migrated, row, assured>>

TooMany(r) ==
    /\ AtLimiter(r) /\ life # "down"
    /\ Refuse
    /\ Answer(r)
    /\ UNCHANGED <<life, mode, migrated, row, assured>>

Serve(r) ==
    /\ req[r].at = "serve" /\ life # "down"
    /\ Answer(r)
    /\ UNCHANGED <<vars, life, mode, migrated, row, assured>>

(***************************************************************************)
(* The process.                                                            *)
(***************************************************************************)

\* Mutant: an answer to Ping is enough.
ReadyUnasked(m) == TRUE

\* Database mode starts on a database that is reachable and has the table.
Ready(m) == m = "database" => migrated

Start(m) ==
    /\ life = "down" /\ Ready(m)
    /\ life' = "up" /\ mode' = m
    /\ windowStart' = None /\ count' = 0 /\ told' = None /\ admitted' = << >>
    /\ UNCHANGED <<now, migrated, row, assured, req>>

Stops ==
    /\ life' = "down"
    /\ req' = [r \in Requests |-> Free]     \* what is in flight is cut off
    /\ UNCHANGED <<vars, mode, migrated, row, assured>>

Signal ==
    /\ life = "up" /\ life' = "draining"
    /\ UNCHANGED <<vars, mode, migrated, row, assured, req>>

Drained == life = "draining" /\ (\A r \in Requests : ~InFlight(r)) /\ Stops

\* The grace is over, or Serve failed: run returns and its deferred Close waits.
Closes ==
    /\ life' = "closing"
    /\ UNCHANGED <<vars, mode, migrated, row, assured, req>>

GraceExpires ==
    /\ life = "draining" /\ \E r \in Requests : InFlight(r)
    /\ Closes

ServeFails == life = "up" /\ Closes

\* Mutant: Close waits for every request.
HoldsPoolAnyway(r) == InFlight(r)

\* A lookup has a connection of the pool.
HoldsPool(r) == mode = "database" /\ req[r].at = "auth"

Closed == life = "closing" /\ (\A r \in Requests : ~HoldsPool(r)) /\ Stops

Crash == life # "down" /\ Stops

GatewayTick == Tick /\ UNCHANGED ownVars

Keygen == \E k \in Keys : Create(k) \/ Revoke(k) \/ RevokeAgain(k)

Handles(r) ==
    \/ Authenticate(r) \/ LookupFails(r)
    \/ Let(r) \/ TooMany(r)
    \/ Serve(r)

GatewayNext ==
    \/ Migrate \/ Keygen
    \/ \E r \in Requests, t \in Tokens, c \in BOOLEAN : Arrive(r, t, c)
    \/ \E r \in Requests : Handles(r)
    \/ \E m \in {"env", "database"} : Start(m)
    \/ Signal \/ Drained \/ GraceExpires \/ ServeFails \/ Closed \/ Crash
    \/ GatewayTick

GatewaySpec == GatewayInit /\ [][GatewayNext]_gatewayVars

\* The timer of the grace and the end of run are the process's own.  A lookup
\* has no deadline: that it ends is up to the database.  Of the handlers
\* nothing is assumed, they may outlast the grace.
FairGateway ==
    /\ GatewaySpec
    /\ WF_gatewayVars(Drained \/ GraceExpires)
    /\ WF_gatewayVars(Closed)
    /\ \A r \in Requests : WF_gatewayVars(Authenticate(r) \/ LookupFails(r))

-----------------------------------------------------------------------------
(***************************************************************************)
(* Properties.                                                             *)
(***************************************************************************)

\* Every variable stays in its range; no request is in flight without a
\* process; database mode never runs without its table.
GatewayTypeOK ==
    /\ TypeOK
    /\ life \in {"down", "up", "draining", "closing"}
    /\ mode \in {"env", "database"}
    /\ migrated \in BOOLEAN
    /\ row \in [Keys -> {"none", "active", "revoked"}]
    /\ assured \in SUBSET Keys
    /\ req \in [Requests -> [at : {"free", "auth", "limit", "serve"},
                             costly : BOOLEAN, token : Tokens,
                             dead : BOOLEAN]]
    /\ life = "down" => \A r \in Requests : ~InFlight(r)
    /\ life # "down" /\ mode = "database" => migrated

\* Past authentication: a key of the running mode alone, in database mode one
\* that keygen created and whose revocation nobody had been told of when the
\* request arrived: "the next request with it" is refused.
Authorised(r) ==
    IF mode = "env" THEN req[r].token = EnvKey
    ELSE /\ req[r].token \in Keys
         /\ row[req[r].token] # "none"
         /\ ~req[r].dead

\* Whatever keygen, the database and restarts in the other mode do meanwhile,
\* a request gets past withAuth only if it is authorised.
ServedIsAuthorised ==
    \A r \in Requests : req[r].at \in {"limit", "serve"} => Authorised(r)

\* Quota is spent by one authorised request for a costly endpoint at a time,
\* as it is let through, and no such request is served without: neither a
\* rejected token nor polling can use it up.
Accounted(r) ==
    LET served == req[r].at # "serve" /\ req'[r].at = "serve"
        spent  == Len(admitted') > Len(admitted) /\ req'[r] # req[r]
    IN  /\ served /\ req[r].costly => spent
        /\ spent => served /\ req[r].costly /\ Authorised(r)

QuotaIsForWork == [][\A r \in Requests : Accounted(r)]_gatewayVars

\* After the signal the process ends, although no handler need ever end and
\* the lookups of the requests still waiting must be over before Close is.
StopsOnSignal == life = "draining" ~> life = "down"

=============================================================================
