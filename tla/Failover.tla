------------------------------ MODULE Failover ------------------------------
(***************************************************************************)
(* The failover chain: concurrent requests try the upstreams in order,     *)
(* each upstream behind a circuit breaker that all requests share.         *)
(*                                                                         *)
(* A request reads the circuits once (available), under Failover.mu, and   *)
(* walks the list it got; each attempt ends in a second critical section   *)
(* that records its outcome.  Other requests record theirs, and time       *)
(* passes, in between, so the list may be stale when it is used.           *)
(*                                                                         *)
(* A request that ended may be followed by another one in the same place.  *)
(* Time is kept as what is left of each cooldown, in ticks, since only     *)
(* now.After(openUntil) is ever asked.                                     *)
(***************************************************************************)
EXTENDS Naturals

CONSTANTS
    Requests,       \* calls of ChatCompletion at the same time
    Size,           \* upstreams in the chain; 1 is tried first
    Threshold,      \* breakerThreshold
    Cooldown,       \* breakerCooldown, in ticks
    MaxFails        \* bound: failures are not counted beyond

ASSUME FailoverAssumption ==
    /\ Size \in Nat
    /\ Threshold \in Nat \ {0}
    /\ Cooldown \in Nat
    /\ MaxFails \in Nat /\ MaxFails > Threshold

Upstreams == 1..Size

VARIABLES
    fails,      \* breakerState.fails of each upstream
    wait,       \* ticks until now is after breakerState.openUntil
    rpc,        \* of each request: idle, next (between attempts) or call
    todo,       \* the rest of the list available gave it
    at,         \* the upstream it called last, 0 before the first
    cancelled,  \* is its caller's context done?
    \* History, for the properties only.
    outcomes,   \* the last Threshold outcomes of each upstream, newest first
    failedOn,   \* the upstreams that failed on this request
    skipped,    \* those available left out, and
    blamed,     \* those whose failure was counted after the cancellation
    answer      \* the end of the place's last request

breakerVars == <<fails, wait, outcomes>>
vars == <<breakerVars, rpc, todo, at, cancelled, failedOn, skipped, blamed,
          answer>>

-----------------------------------------------------------------------------

Init ==
    /\ fails = [i \in Upstreams |-> 0]
    /\ wait = [i \in Upstreams |-> 0]
    /\ rpc = [r \in Requests |-> "idle"]
    /\ todo = [r \in Requests |-> {}]
    /\ at = [r \in Requests |-> 0]
    /\ cancelled = [r \in Requests |-> FALSE]
    /\ outcomes = [i \in Upstreams |-> [k \in 1..Threshold |-> TRUE]]
    /\ failedOn = [r \in Requests |-> {}]
    /\ skipped = [r \in Requests |-> {}]
    /\ blamed = [r \in Requests |-> {}]
    /\ answer = [r \in Requests |-> "none"]

\* Mutant: a circuit that opened stays so.
ClosedForGood == {i \in Upstreams : fails[i] < Threshold}

\* available: the upstreams that are closed or cooled down, all if none is.
\* The slice is in the order of the chain, so the set says as much.
Closed == {i \in Upstreams : wait[i] = 0}

\* Mutants: nothing is tried when all is open; the wrong indexes are.
AvailableOnly    == Closed
AvailableShifted == IF Closed # {} THEN Closed ELSE 0..(Size - 1)

Available == IF Closed # {} THEN Closed ELSE Upstreams

Begin(r) ==
    /\ rpc[r] = "idle"
    /\ rpc' = [rpc EXCEPT ![r] = "next"]
    /\ todo' = [todo EXCEPT ![r] = Available]
    /\ at' = [at EXCEPT ![r] = 0]
    /\ cancelled' = [cancelled EXCEPT ![r] = FALSE]
    /\ failedOn' = [failedOn EXCEPT ![r] = {}]
    /\ skipped' = [skipped EXCEPT ![r] = Upstreams \ Available]
    /\ blamed' = [blamed EXCEPT ![r] = {}]
    /\ answer' = [answer EXCEPT ![r] = "none"]
    /\ UNCHANGED breakerVars

Ends(r, how) ==
    /\ rpc' = [rpc EXCEPT ![r] = "idle"]
    /\ todo' = [todo EXCEPT ![r] = {}]
    /\ answer' = [answer EXCEPT ![r] = how]

\* Mutants: the last of the list is taken; it stays on the list; nobody looks
\* whether the caller left.
IsLast(i, list)    == \A j \in list : i >= j
Unchanged(list, i) == list
NeverGone(r)       == FALSE

IsNext(i, list)    == \A j \in list : i <= j
Without(list, i)   == list \ {i}
Gone(r)            == cancelled[r]

\* The next upstream of the list is called.
Attempt(r) ==
    /\ rpc[r] = "next" /\ ~Gone(r)
    /\ \E i \in todo[r] :
           /\ IsNext(i, todo[r])
           /\ at' = [at EXCEPT ![r] = i]
           /\ todo' = [todo EXCEPT ![r] = Without(todo[r], i)]
    /\ rpc' = [rpc EXCEPT ![r] = "call"]
    /\ UNCHANGED <<breakerVars, cancelled, failedOn, skipped, blamed, answer>>

\* There is one left, but the caller's context is done.
Stops(r) ==
    /\ rpc[r] = "next" /\ Gone(r) /\ todo[r] # {}
    /\ Ends(r, "cancelled")
    /\ UNCHANGED <<breakerVars, at, cancelled, failedOn, skipped, blamed>>

\* The list is used up: the last error, or none when there was no upstream.
Exhausted(r) ==
    /\ rpc[r] = "next" /\ todo[r] = {}
    /\ Ends(r, IF at[r] = 0 THEN "unconfigured" ELSE "failed")
    /\ UNCHANGED <<breakerVars, at, cancelled, failedOn, skipped, blamed>>

Recorded(i, ok) ==
    outcomes' = [outcomes EXCEPT
                     ![i] = [k \in 1..Threshold |->
                                 IF k = 1 THEN ok ELSE outcomes[i][k - 1]]]

\* Mutant: the circuit is closed, the failures are still counted.
recordSuccessHalf(i) ==
    /\ wait' = [wait EXCEPT ![i] = 0]
    /\ Recorded(i, TRUE)
    /\ UNCHANGED fails

recordSuccess(i) ==
    /\ fails' = [fails EXCEPT ![i] = 0]
    /\ wait' = [wait EXCEPT ![i] = 0]
    /\ Recorded(i, TRUE)

\* Mutant: only the failure that reaches the threshold opens the circuit.
recordFailureOnce(i) ==
    /\ fails' = [fails EXCEPT ![i] = IF @ < MaxFails THEN @ + 1 ELSE @]
    /\ wait' = IF fails[i] + 1 = Threshold
                 THEN [wait EXCEPT ![i] = Cooldown + 1]
                 ELSE wait
    /\ Recorded(i, FALSE)

\* Time is after openUntil one tick later than it is at openUntil.
recordFailure(i) ==
    /\ fails' = [fails EXCEPT ![i] = IF @ < MaxFails THEN @ + 1 ELSE @]
    /\ wait' = IF fails[i] + 1 >= Threshold
                 THEN [wait EXCEPT ![i] = Cooldown + 1]
                 ELSE wait
    /\ Recorded(i, FALSE)

\* The upstream answered, possibly after the caller was gone.
Succeeds(r) ==
    /\ rpc[r] = "call"
    /\ recordSuccess(at[r])
    /\ Ends(r, "served")
    /\ UNCHANGED <<at, cancelled, failedOn, skipped, blamed>>

\* It did not: an error, its timeout or the caller's, or the cancelled call.
Fails(r) ==
    /\ rpc[r] = "call"
    /\ recordFailure(at[r])
    /\ rpc' = [rpc EXCEPT ![r] = "next"]
    /\ failedOn' = [failedOn EXCEPT ![r] = @ \cup {at[r]}]
    /\ blamed' = IF cancelled[r]
                   THEN [blamed EXCEPT ![r] = @ \cup {at[r]}]
                   ELSE blamed
    /\ UNCHANGED <<todo, at, cancelled, skipped, answer>>

\* The client leaves, or the timeout above the chain expires.
CallerLeaves(r) ==
    /\ rpc[r] # "idle" /\ ~cancelled[r]
    /\ cancelled' = [cancelled EXCEPT ![r] = TRUE]
    /\ UNCHANGED <<breakerVars, rpc, todo, at, failedOn, skipped, blamed,
                   answer>>

Tick ==
    /\ \E i \in Upstreams : wait[i] > 0
    /\ wait' = [i \in Upstreams |-> IF wait[i] > 0 THEN wait[i] - 1 ELSE 0]
    /\ UNCHANGED <<fails, outcomes, rpc, todo, at, cancelled, failedOn,
                   skipped, blamed, answer>>

\* What the request's own goroutine does once it began.
Proceeds(r) == Attempt(r) \/ Stops(r) \/ Exhausted(r) \/ Succeeds(r) \/ Fails(r)

Next ==
    \/ \E r \in Requests : Begin(r) \/ Proceeds(r) \/ CallerLeaves(r)
    \/ Tick

Spec == Init /\ [][Next]_vars

\* Time passes and every provider call returns (the HTTP client has a timeout);
\* nobody need send requests or leave.
FairSpec == Spec /\ WF_vars(Tick) /\ \A r \in Requests : WF_vars(Proceeds(r))

-----------------------------------------------------------------------------
(***************************************************************************)
(* Properties.                                                             *)
(***************************************************************************)

\* Every variable stays in its range: cooldowns never exceed breakerCooldown.
TypeOK ==
    /\ fails \in [Upstreams -> 0..MaxFails]
    /\ wait \in [Upstreams -> 0..(Cooldown + 1)]
    /\ rpc \in [Requests -> {"idle", "next", "call"}]
    /\ todo \in [Requests -> SUBSET Upstreams]
    /\ at \in [Requests -> Upstreams \cup {0}]
    /\ cancelled \in [Requests -> BOOLEAN]
    /\ outcomes \in [Upstreams -> [1..Threshold -> BOOLEAN]]
    /\ failedOn \in [Requests -> SUBSET Upstreams]
    /\ skipped \in [Requests -> SUBSET Upstreams]
    /\ blamed \in [Requests -> SUBSET Upstreams]
    /\ answer \in [Requests -> {"none", "served", "failed", "cancelled",
                                "unconfigured"}]

Down(i) == \A k \in 1..Threshold : ~outcomes[i][k]

\* "breakerThreshold consecutive failures open an upstream's circuit": a
\* circuit is open only while the last Threshold outcomes recorded, by whatever
\* requests and however late, are failures; one success closes it for all.
OpenedByConsecutiveFailures == \A i \in Upstreams : wait[i] > 0 => Down(i)

\* "failure re-opens it immediately": the Threshold-th failure in a row, and
\* every one after it, opens the circuit for a whole cooldown.
ProbeReopens ==
    [][\A r \in Requests : \A i \in failedOn'[r] \ failedOn[r] :
           Down(i)' => wait'[i] = Cooldown + 1]_vars

\* The free-first order: when a request calls an upstream, every earlier one
\* has failed on this very request or was left out because its circuit was open.
FreeFirst ==
    \A r \in Requests : rpc[r] = "call" =>
        \A j \in Upstreams : j < at[r] => j \in failedOn[r] \cup skipped[r]

\* "If every circuit is open the chain tries all upstreams anyway": a request
\* fails only after an upstream was really tried, and every upstream it was
\* given failed on it.
FailsOnlyWhenAllFailed ==
    \A r \in Requests :
        /\ answer[r] = "failed" =>
               failedOn[r] # {} /\ failedOn[r] \cup skipped[r] = Upstreams
        /\ answer[r] = "unconfigured" => Size = 0

\* A failed call of a client that left is counted against the breaker; since
\* the loop stops then, one such client counts against one upstream at most.
CancelBlamesOneUpstream ==
    \A r \in Requests : \A i, j \in blamed[r] : i = j

\* No upstream is shut out for ever: again and again the next request would
\* have it on its list, even if no other request ever closes its circuit.
NotShutOut == \A i \in Upstreams : []<>(i \in Available)

\* Every request gets an answer.
RequestsEnd == \A r \in Requests : rpc[r] # "idle" ~> rpc[r] = "idle"

=============================================================================
