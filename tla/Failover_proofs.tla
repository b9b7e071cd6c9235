--------------------------- MODULE Failover_proofs ---------------------------
(***************************************************************************)
(* Proofs about Failover, for any number of concurrent requests, any chain *)
(* and any threshold and cooldown.                                         *)
(***************************************************************************)
EXTENDS Failover, TLAPS

(***************************************************************************)
(* The failure counter is the length of the last row of failures, up to    *)
(* the threshold: that makes an open circuit mean what it should.          *)
(***************************************************************************)
BreakerInv ==
    \A i \in Upstreams :
        /\ wait[i] > 0 => fails[i] >= Threshold
        /\ \A k \in 1..Threshold : k <= fails[i] => ~outcomes[i][k]
        /\ fails[i] < Threshold => outcomes[i][fails[i] + 1]

(***************************************************************************)
(* Every upstream is accounted for during a request: still to be tried,    *)
(* being called, failed or left out, and what is still to be tried comes   *)
(* after what was.                                                         *)
(***************************************************************************)
Accounted(r) ==
    /\ Upstreams = todo[r] \cup failedOn[r] \cup skipped[r]
                       \cup (IF rpc[r] = "call" THEN {at[r]} ELSE {})
    /\ \A j \in todo[r] : j > at[r]
    /\ rpc[r] = "call" => at[r] \in Upstreams
    /\ rpc[r] = "next" /\ at[r] # 0 => failedOn[r] # {}
    /\ rpc[r] = "next" /\ at[r] = 0 /\ todo[r] = {} => Size = 0

\* A request whose caller left is at its last call.
Blame(r) == ~cancelled[r] \/ rpc[r] = "call" => blamed[r] = {}

RequestOK(r) ==
    /\ rpc[r] # "idle" => Accounted(r) /\ Blame(r) /\ answer[r] = "none"
    /\ answer[r] = "failed" =>
           failedOn[r] # {} /\ failedOn[r] \cup skipped[r] = Upstreams
    /\ answer[r] = "unconfigured" => Size = 0
    /\ \A i, j \in blamed[r] : i = j

RequestInv == \A r \in Requests : RequestOK(r)

IInv == TypeOK /\ BreakerInv /\ RequestInv

-----------------------------------------------------------------------------

USE FailoverAssumption

LEMMA InitIInv == Init => IInv
  <1> SUFFICES ASSUME Init PROVE IInv
    OBVIOUS
  <1>1. TypeOK
    BY DEF Init, TypeOK
  <1>2. BreakerInv
    BY DEF Init, BreakerInv
  <1>3. RequestInv
    BY DEF Init, RequestInv, RequestOK
  <1> QED
    BY <1>1, <1>2, <1>3 DEF IInv

\* A request is between its calls of the breaker and the list it got from it.
LEMMA AvailableIsSafe ==
    /\ Available \subseteq Upstreams
    /\ Available = {} => Size = 0
  BY DEF Available, Closed, Upstreams

LEMMA RecordTypes ==
    ASSUME TypeOK, NEW i \in Upstreams, NEW ok \in BOOLEAN, Recorded(i, ok)
    PROVE  /\ outcomes' \in [Upstreams -> [1..Threshold -> BOOLEAN]]
           /\ \A k \in 1..Threshold :
                  outcomes'[i][k] = IF k = 1 THEN ok ELSE outcomes[i][k - 1]
           /\ \A j \in Upstreams : j # i => outcomes'[j] = outcomes[j]
  <1> DEFINE new == [k \in 1..Threshold |->
                         IF k = 1 THEN ok ELSE outcomes[i][k - 1]]
  <1>1. new \in [1..Threshold -> BOOLEAN]
    BY DEF TypeOK
  <1>2. outcomes' = [outcomes EXCEPT ![i] = new]
    BY DEF Recorded
  <1>3. \A k \in 1..Threshold :
            new[k] = IF k = 1 THEN ok ELSE outcomes[i][k - 1]
    OBVIOUS
  <1> HIDE DEF new
  <1> QED
    BY <1>1, <1>2, <1>3 DEF TypeOK

LEMMA SuccessRecorded ==
    ASSUME TypeOK, BreakerInv, NEW i \in Upstreams, recordSuccess(i)
    PROVE  /\ fails' \in [Upstreams -> 0..MaxFails]
           /\ wait' \in [Upstreams -> 0..(Cooldown + 1)]
           /\ outcomes' \in [Upstreams -> [1..Threshold -> BOOLEAN]]
           /\ BreakerInv'
  <1>1. /\ outcomes' \in [Upstreams -> [1..Threshold -> BOOLEAN]]
        /\ outcomes'[i][1]
        /\ \A j \in Upstreams : j # i => outcomes'[j] = outcomes[j]
    <2>1. /\ outcomes' \in [Upstreams -> [1..Threshold -> BOOLEAN]]
          /\ \A k \in 1..Threshold :
                 outcomes'[i][k] = IF k = 1 THEN TRUE ELSE outcomes[i][k - 1]
          /\ \A j \in Upstreams : j # i => outcomes'[j] = outcomes[j]
      BY RecordTypes DEF recordSuccess
    <2>2. 1 \in 1..Threshold
      OBVIOUS
    <2> QED
      BY <2>1, <2>2
  <1>2. /\ fails' \in [Upstreams -> 0..MaxFails]
        /\ wait' \in [Upstreams -> 0..(Cooldown + 1)]
        /\ fails'[i] = 0 /\ wait'[i] = 0
        /\ \A j \in Upstreams :
               j # i => fails'[j] = fails[j] /\ wait'[j] = wait[j]
    BY DEF recordSuccess, TypeOK
  <1>3. ASSUME NEW j \in Upstreams
        PROVE  /\ wait'[j] > 0 => fails'[j] >= Threshold
               /\ \A k \in 1..Threshold : k <= fails'[j] => ~outcomes'[j][k]
               /\ fails'[j] < Threshold => outcomes'[j][fails'[j] + 1]
    <2>1. CASE j = i
      BY <1>1, <1>2, <2>1
    <2>2. CASE j # i
      BY <1>1, <1>2, <2>2 DEF BreakerInv
    <2> QED
      BY <2>1, <2>2
  <1>4. BreakerInv'
    BY <1>3 DEF BreakerInv, Upstreams
  <1> QED
    BY <1>1, <1>2, <1>4

LEMMA FailureRecorded ==
    ASSUME TypeOK, BreakerInv, NEW i \in Upstreams, recordFailure(i)
    PROVE  /\ fails' \in [Upstreams -> 0..MaxFails]
           /\ wait' \in [Upstreams -> 0..(Cooldown + 1)]
           /\ outcomes' \in [Upstreams -> [1..Threshold -> BOOLEAN]]
           /\ BreakerInv'
           /\ Down(i)' => wait'[i] = Cooldown + 1
  <1>1. /\ outcomes' \in [Upstreams -> [1..Threshold -> BOOLEAN]]
        /\ \A k \in 1..Threshold :
               outcomes'[i][k] = IF k = 1 THEN FALSE ELSE outcomes[i][k - 1]
        /\ \A j \in Upstreams : j # i => outcomes'[j] = outcomes[j]
    BY RecordTypes DEF recordFailure
  <1>2. /\ fails' \in [Upstreams -> 0..MaxFails]
        /\ fails'[i] = IF fails[i] < MaxFails THEN fails[i] + 1 ELSE fails[i]
        /\ \A j \in Upstreams : j # i => fails'[j] = fails[j]
    BY DEF recordFailure, TypeOK
  <1>3. /\ wait' \in [Upstreams -> 0..(Cooldown + 1)]
        /\ wait'[i] = IF fails[i] + 1 >= Threshold THEN Cooldown + 1 ELSE wait[i]
        /\ \A j \in Upstreams : j # i => wait'[j] = wait[j]
    BY DEF recordFailure, TypeOK
  <1>4. fails[i] \in 0..MaxFails
    BY DEF TypeOK
  <1>5. /\ wait'[i] > 0 => fails'[i] >= Threshold
        /\ \A k \in 1..Threshold : k <= fails'[i] => ~outcomes'[i][k]
        /\ fails'[i] < Threshold => outcomes'[i][fails'[i] + 1]
    <2>1. wait'[i] > 0 => fails'[i] >= Threshold
      BY <1>2, <1>3, <1>4 DEF BreakerInv
    <2>2. ASSUME NEW k \in 1..Threshold, k <= fails'[i]
          PROVE  ~outcomes'[i][k]
      <3>1. CASE k = 1
        BY <1>1, <3>1
      <3>2. CASE k # 1
        <4>1. k - 1 \in 1..Threshold /\ k - 1 <= fails[i]
          BY <1>2, <1>4, <2>2, <3>2
        <4> QED
          BY <1>1, <3>2, <4>1 DEF BreakerInv
      <3> QED
        BY <3>1, <3>2
    <2>3. ASSUME fails'[i] < Threshold PROVE outcomes'[i][fails'[i] + 1]
      <3>1. fails[i] < Threshold /\ fails'[i] = fails[i] + 1
        BY <1>2, <1>4, <2>3
      <3>2. fails'[i] + 1 \in 1..Threshold /\ fails'[i] + 1 # 1
        BY <1>4, <2>3, <3>1
      <3>3. outcomes'[i][fails'[i] + 1] = outcomes[i][(fails'[i] + 1) - 1]
        BY <1>1, <3>2
      <3>4. (fails'[i] + 1) - 1 = fails[i] + 1
        BY <1>4, <3>1
      <3> QED
        BY <3>1, <3>3, <3>4 DEF BreakerInv
    <2> QED
      BY <2>1, <2>2, <2>3
  <1>6. BreakerInv'
    BY <1>1, <1>2, <1>3, <1>5 DEF BreakerInv, Upstreams
  <1>7. Down(i)' => wait'[i] = Cooldown + 1
    <2> SUFFICES ASSUME Down(i)' PROVE wait'[i] = Cooldown + 1
      OBVIOUS
    <2>1. ~(fails'[i] < Threshold)
      <3>1. fails'[i] < Threshold => fails'[i] + 1 \in 1..Threshold
        BY <1>2, <1>4
      <3> QED
        BY <1>5, <3>1 DEF Down
    <2> QED
      BY <1>2, <1>3, <1>4, <2>1
  <1> QED
    BY <1>1, <1>2, <1>3, <1>6, <1>7

\* The step of one request leaves the others' invariants alone.
LEMMA NextIInv == IInv /\ [Next]_vars => IInv'
  <1> SUFFICES ASSUME IInv, [Next]_vars PROVE IInv'
    OBVIOUS
  <1> USE DEF IInv, TypeOK, RequestInv, RequestOK, Accounted, Blame
  <1>1. ASSUME NEW r \in Requests, Begin(r) PROVE IInv'
    <2>1. TypeOK'
      BY <1>1, AvailableIsSafe DEF Begin, breakerVars
    <2>2. BreakerInv'
      BY <1>1 DEF Begin, breakerVars, BreakerInv
    <2>3. ASSUME NEW q \in Requests, q # r PROVE RequestOK(q)'
      BY <1>1, <2>3 DEF Begin
    <2>4. RequestOK(r)'
      <3>1. /\ rpc'[r] = "next" /\ todo'[r] = Available /\ at'[r] = 0
            /\ failedOn'[r] = {} /\ skipped'[r] = Upstreams \ Available
            /\ blamed'[r] = {} /\ answer'[r] = "none"
        BY <1>1 DEF Begin
      <3>2. \A j \in Available : j > 0
        BY AvailableIsSafe DEF Upstreams
      <3> QED
        BY <3>1, <3>2, AvailableIsSafe
    <2> QED
      BY <2>1, <2>2, <2>3, <2>4
  <1>2. ASSUME NEW r \in Requests, Attempt(r) PROVE IInv'
    <2>1. PICK i \in todo[r] :
              /\ \A j \in todo[r] : i <= j
              /\ at' = [at EXCEPT ![r] = i]
              /\ todo' = [todo EXCEPT ![r] = @ \ {i}]
      BY <1>2 DEF Attempt, IsNext, Without
    <2>2. i \in Upstreams /\ i # 0
      BY DEF Upstreams
    <2>3. TypeOK'
      BY <1>2, <2>1, <2>2 DEF Attempt, breakerVars
    <2>4. BreakerInv'
      BY <1>2 DEF Attempt, breakerVars, BreakerInv
    <2>5. RequestInv'
      <3>1. \A j \in todo[r] \ {i} : j > i
        BY <2>1, <2>2 DEF Upstreams
      <3>2. ASSUME NEW q \in Requests, q # r PROVE RequestOK(q)'
        BY <1>2, <2>1, <3>2 DEF Attempt
      <3>3. /\ rpc[r] = "next" /\ ~cancelled[r]
            /\ rpc'[r] = "call" /\ at'[r] = i /\ todo'[r] = todo[r] \ {i}
        BY <1>2, <2>1 DEF Attempt, Gone
      <3>4. RequestOK(r)'
        BY <1>2, <2>2, <3>1, <3>3 DEF Attempt
      <3> QED
        BY <3>2, <3>4
    <2> QED
      BY <2>3, <2>4, <2>5
  <1>3. ASSUME NEW r \in Requests, Stops(r) \/ Exhausted(r) PROVE IInv'
    <2>1. TypeOK'
      BY <1>3 DEF Stops, Gone, Exhausted, Ends, breakerVars
    <2>2. BreakerInv'
      BY <1>3 DEF Stops, Exhausted, breakerVars, BreakerInv
    <2>3. ASSUME NEW q \in Requests, q # r PROVE RequestOK(q)'
      BY <1>3, <2>3 DEF Stops, Gone, Exhausted, Ends
    <2>4. CASE Stops(r)
      BY <2>1, <2>2, <2>3, <2>4 DEF Stops, Gone, Ends
    <2>5. CASE Exhausted(r)
      <3>1. failedOn[r] \cup skipped[r] = Upstreams
        BY <2>5 DEF Exhausted
      <3>2. RequestOK(r)'
        BY <2>5, <3>1 DEF Exhausted, Ends
      <3> QED
        BY <2>1, <2>2, <2>3, <3>2
    <2> QED
      BY <1>3, <2>4, <2>5
  <1>4. ASSUME NEW r \in Requests, Succeeds(r) PROVE IInv'
    <2>1. at[r] \in Upstreams
      BY <1>4 DEF Succeeds
    <2>2. /\ fails' \in [Upstreams -> 0..MaxFails]
          /\ wait' \in [Upstreams -> 0..(Cooldown + 1)]
          /\ outcomes' \in [Upstreams -> [1..Threshold -> BOOLEAN]]
          /\ BreakerInv'
      BY <1>4, <2>1, SuccessRecorded DEF Succeeds
    <2>3. TypeOK'
      BY <1>4, <2>2 DEF Succeeds, Ends
    <2>4. RequestInv'
      BY <1>4 DEF Succeeds, Ends
    <2> QED
      BY <2>2, <2>3, <2>4
  <1>5. ASSUME NEW r \in Requests, Fails(r) PROVE IInv'
    <2>1. at[r] \in Upstreams /\ at[r] # 0
      BY <1>5 DEF Fails, Upstreams
    <2>2. /\ fails' \in [Upstreams -> 0..MaxFails]
          /\ wait' \in [Upstreams -> 0..(Cooldown + 1)]
          /\ outcomes' \in [Upstreams -> [1..Threshold -> BOOLEAN]]
          /\ BreakerInv'
      BY <1>5, <2>1, FailureRecorded DEF Fails
    <2>3. TypeOK'
      BY <1>5, <2>1, <2>2 DEF Fails
    <2>4. RequestInv'
      BY <1>5, <2>1 DEF Fails
    <2> QED
      BY <2>2, <2>3, <2>4
  <1>6. ASSUME NEW r \in Requests, CallerLeaves(r) PROVE IInv'
    <2>1. TypeOK'
      BY <1>6 DEF CallerLeaves, breakerVars
    <2>2. BreakerInv'
      BY <1>6 DEF CallerLeaves, breakerVars, BreakerInv
    <2>3. RequestInv'
      BY <1>6 DEF CallerLeaves
    <2> QED
      BY <2>1, <2>2, <2>3
  <1>7. CASE Tick
    <2>1. TypeOK'
      <3>1. wait' \in [Upstreams -> 0..(Cooldown + 1)]
        BY <1>7 DEF Tick
      <3> QED
        BY <1>7, <3>1 DEF Tick
    <2>2. BreakerInv'
      BY <1>7 DEF Tick, BreakerInv
    <2>3. RequestInv'
      BY <1>7 DEF Tick
    <2> QED
      BY <2>1, <2>2, <2>3
  <1>8. CASE UNCHANGED vars
    BY <1>8 DEF vars, breakerVars, BreakerInv
  <1> QED
    BY <1>1, <1>2, <1>3, <1>4, <1>5, <1>6, <1>7, <1>8 DEF Next, Proceeds

LEMMA Invariance == Spec => []IInv
  BY InitIInv, NextIInv, PTL DEF Spec

\* The breakers and the requests stay in their ranges; no circuit is ever open
\* for longer than breakerCooldown.
THEOREM TypeCorrect == Spec => []TypeOK
  BY Invariance, PTL DEF IInv

\* A circuit that available leaves out had Threshold failures in a row, in the
\* order in which recordSuccess and recordFailure got the lock.
THEOREM OpenedByFailures == Spec => []OpenedByConsecutiveFailures
  <1>1. IInv => OpenedByConsecutiveFailures
    BY DEF IInv, TypeOK, BreakerInv, OpenedByConsecutiveFailures, Down
  <1> QED
    BY <1>1, Invariance, PTL

\* A failed probe opens the circuit again, however many probes there were.
THEOREM ProbesReopen == Spec => ProbeReopens
  <1>1. IInv /\ [Next]_vars =>
            [\A r \in Requests : \A i \in failedOn'[r] \ failedOn[r] :
                 Down(i)' => wait'[i] = Cooldown + 1]_vars
    <2> SUFFICES ASSUME IInv, Next, NEW r \in Requests,
                        NEW i \in failedOn'[r] \ failedOn[r]
                 PROVE  Down(i)' => wait'[i] = Cooldown + 1
      OBVIOUS
    <2>1. ASSUME NEW q \in Requests, Fails(q)
          PROVE  Down(i)' => wait'[i] = Cooldown + 1
      <3>1. at[q] \in Upstreams
        BY <2>1 DEF Fails, IInv, RequestInv, RequestOK, Accounted
      <3>2. i = at[q]
        BY <2>1 DEF Fails, IInv, TypeOK
      <3> QED
        BY <2>1, <3>1, <3>2, FailureRecorded DEF Fails, IInv
    <2>2. CASE UNCHANGED failedOn
      BY <2>2
    <2>3. ASSUME NEW q \in Requests, Begin(q) PROVE FALSE
      BY <2>3 DEF Begin, IInv, TypeOK
    <2> QED
      BY <2>1, <2>2, <2>3 DEF Next, Proceeds, Attempt, Stops, Exhausted,
           Succeeds, CallerLeaves, Tick
  <1> QED
    BY <1>1, Invariance, PTL DEF Spec, ProbeReopens

\* The chain's order of preference is kept whatever other requests do to the
\* circuits between available and the attempt.
THEOREM OrderKept == Spec => []FreeFirst
  <1>1. IInv => FreeFirst
    <2> SUFFICES ASSUME IInv, NEW r \in Requests, rpc[r] = "call",
                        NEW j \in Upstreams, j < at[r]
                 PROVE  j \in failedOn[r] \cup skipped[r]
      BY DEF FreeFirst
    <2>1. /\ Upstreams = todo[r] \cup failedOn[r] \cup skipped[r] \cup {at[r]}
          /\ \A k \in todo[r] : k > at[r]
          /\ at[r] \in Upstreams
      BY DEF IInv, RequestInv, RequestOK, Accounted
    <2>2. j \notin todo[r] /\ j # at[r]
      BY <2>1 DEF Upstreams
    <2> QED
      BY <2>1, <2>2
  <1> QED
    BY <1>1, Invariance, PTL

\* ChatCompletion gives up only when every upstream failed or was left out, and
\* at least one was tried.
THEOREM GivesUpLast == Spec => []FailsOnlyWhenAllFailed
  <1>1. IInv => FailsOnlyWhenAllFailed
    BY DEF IInv, RequestInv, RequestOK, FailsOnlyWhenAllFailed
  <1> QED
    BY <1>1, Invariance, PTL

\* The ctx.Err() at the head of the loop bounds what a client that leaves can
\* do to the breakers.
THEOREM OneBlame == Spec => []CancelBlamesOneUpstream
  <1>1. IInv => CancelBlamesOneUpstream
    BY DEF IInv, RequestInv, RequestOK, CancelBlamesOneUpstream
  <1> QED
    BY <1>1, Invariance, PTL

(***************************************************************************)
(* One list, walked once.                                                  *)
(***************************************************************************)
\* What is still to be tried was neither tried nor left out.
Untried ==
    \A r \in Requests : rpc[r] # "idle" =>
        todo[r] \cap (failedOn[r] \cup skipped[r]) = {}

LEMMA UntriedInvariance == Spec => []Untried
  <1>1. Init => Untried
    BY DEF Init, Untried
  <1>2. IInv /\ Untried /\ [Next]_vars => Untried'
    <2> SUFFICES ASSUME IInv, Untried, [Next]_vars, NEW r \in Requests,
                        rpc'[r] # "idle"
                 PROVE  todo'[r] \cap (failedOn'[r] \cup skipped'[r]) = {}
      BY DEF Untried
    <2> USE DEF IInv, TypeOK, Untried
    <2>1. ASSUME NEW q \in Requests, Begin(q)
          PROVE  todo'[r] \cap (failedOn'[r] \cup skipped'[r]) = {}
      BY <2>1 DEF Begin
    <2>2. ASSUME NEW q \in Requests, Attempt(q)
          PROVE  todo'[r] \cap (failedOn'[r] \cup skipped'[r]) = {}
      BY <2>2 DEF Attempt, Without
    <2>3. ASSUME NEW q \in Requests, Stops(q) \/ Exhausted(q) \/ Succeeds(q)
          PROVE  todo'[r] \cap (failedOn'[r] \cup skipped'[r]) = {}
      BY <2>3 DEF Stops, Exhausted, Succeeds, Ends
    <2>4. ASSUME NEW q \in Requests, Fails(q)
          PROVE  todo'[r] \cap (failedOn'[r] \cup skipped'[r]) = {}
      <3>1. at[q] \in Upstreams /\ \A j \in todo[q] : j > at[q]
        BY <2>4 DEF Fails, RequestInv, RequestOK, Accounted
      <3>2. at[q] \notin todo[q]
        BY <3>1 DEF Upstreams
      <3> QED
        BY <2>4, <3>2 DEF Fails
    <2>5. ASSUME UNCHANGED <<rpc, todo, failedOn, skipped>>
          PROVE  todo'[r] \cap (failedOn'[r] \cup skipped'[r]) = {}
      BY <2>5
    <2> QED
      BY <2>1, <2>2, <2>3, <2>4, <2>5
      DEF Next, Proceeds, CallerLeaves, Tick, vars
  <1> QED
    BY <1>1, <1>2, Invariance, PTL DEF Spec

\* A request calls one upstream at a time, each later in the chain than the
\* one before, never one that failed on this very request or that available
\* had left out, even though other requests may have opened or closed any
\* circuit since: so it is over after at most as many calls as there are
\* upstreams.
ListIsWalkedOnce ==
    [][\A r \in Requests : at'[r] # at[r] =>
           \/ rpc[r] = "idle" /\ at'[r] = 0
           \/ /\ rpc[r] = "next" /\ rpc'[r] = "call"
              /\ at'[r] > at[r]
              /\ at'[r] \in todo[r] \ todo'[r]
              /\ at'[r] \notin failedOn[r] \cup skipped[r]]_vars

THEOREM WalkedOnce == Spec => ListIsWalkedOnce
  <1>1. IInv /\ Untried /\ [Next]_vars =>
            [\A r \in Requests : at'[r] # at[r] =>
                 \/ rpc[r] = "idle" /\ at'[r] = 0
                 \/ /\ rpc[r] = "next" /\ rpc'[r] = "call"
                    /\ at'[r] > at[r]
                    /\ at'[r] \in todo[r] \ todo'[r]
                    /\ at'[r] \notin failedOn[r] \cup skipped[r]]_vars
    <2> DEFINE Walks(r) ==
                  \/ rpc[r] = "idle" /\ at'[r] = 0
                  \/ /\ rpc[r] = "next" /\ rpc'[r] = "call"
                     /\ at'[r] > at[r]
                     /\ at'[r] \in todo[r] \ todo'[r]
                     /\ at'[r] \notin failedOn[r] \cup skipped[r]
    <2> SUFFICES ASSUME IInv, Untried, Next, NEW r \in Requests,
                        at'[r] # at[r]
                 PROVE  Walks(r)
      OBVIOUS
    <2>1. ASSUME NEW q \in Requests, Begin(q) PROVE Walks(r)
      BY <2>1 DEF Begin, IInv, TypeOK
    <2>2. ASSUME NEW q \in Requests, Attempt(q) PROVE Walks(r)
      <3>1. q = r
        BY <2>2 DEF Attempt, IInv, TypeOK
      <3>2. PICK i \in todo[r] :
                /\ at' = [at EXCEPT ![r] = i]
                /\ todo' = [todo EXCEPT ![r] = todo[r] \ {i}]
        BY <2>2, <3>1 DEF Attempt, Without
      <3>3. at'[r] = i /\ todo'[r] = todo[r] \ {i}
        BY <3>2 DEF IInv, TypeOK
      <3>4. rpc[r] = "next" /\ rpc'[r] = "call"
        BY <2>2, <3>1 DEF Attempt, IInv, TypeOK
      <3>5. i > at[r]
        BY <3>4 DEF IInv, RequestInv, RequestOK, Accounted
      <3>6. i \notin failedOn[r] \cup skipped[r]
        BY <3>4 DEF Untried
      <3> QED
        BY <3>3, <3>4, <3>5, <3>6
    <2>3. ASSUME UNCHANGED at PROVE Walks(r)
      BY <2>3
    <2> QED
      BY <2>1, <2>2, <2>3 DEF Next, Proceeds, Stops, Exhausted, Succeeds,
                              Fails, CallerLeaves, Tick
  <1> QED
    BY <1>1, Invariance, UntriedInvariance, PTL DEF Spec, ListIsWalkedOnce

(***************************************************************************)
(* Each upstream behind the breaker that is documented.                    *)
(***************************************************************************)
BreakerOf(i) ==
    INSTANCE Breaker
    WITH row  <- IF fails[i] < Threshold THEN fails[i] ELSE Threshold,
         open <- wait[i] > 0

LEMMA StepBreaker ==
    ASSUME IInv, [Next]_vars, NEW i \in Upstreams
    PROVE  [BreakerOf(i)!Next]_(BreakerOf(i)!vars)
  <1> USE DEF BreakerOf!Next, BreakerOf!vars, IInv, TypeOK
  <1>1. ASSUME NEW r \in Requests, Succeeds(r)
        PROVE  [BreakerOf(i)!Next]_(BreakerOf(i)!vars)
    <2>1. CASE at[r] = i
      <3>1. fails'[i] = 0 /\ wait'[i] = 0
        BY <1>1, <2>1 DEF Succeeds, recordSuccess
      <3> QED
        BY <3>1 DEF BreakerOf!Success
    <2>2. CASE at[r] # i
      <3>1. fails'[i] = fails[i] /\ wait'[i] = wait[i]
        BY <1>1, <2>2 DEF Succeeds, recordSuccess
      <3> QED
        BY <3>1
    <2> QED
      BY <2>1, <2>2
  <1>2. ASSUME NEW r \in Requests, Fails(r)
        PROVE  [BreakerOf(i)!Next]_(BreakerOf(i)!vars)
    <2>1. CASE at[r] = i
      <3>1. /\ fails'[i] = IF fails[i] < MaxFails THEN fails[i] + 1 ELSE fails[i]
            /\ wait'[i] = IF fails[i] + 1 >= Threshold THEN Cooldown + 1
                                                     ELSE wait[i]
        BY <1>2, <2>1 DEF Fails, recordFailure
      <3>2. fails[i] \in 0..MaxFails /\ wait[i] \in 0..(Cooldown + 1)
        OBVIOUS
      <3>3. fails[i] < Threshold => wait[i] = 0
        <4>1. wait[i] > 0 => fails[i] >= Threshold
          BY DEF BreakerInv
        <4> QED
          BY <3>2, <4>1
      <3>4. (wait'[i] > 0) = (fails[i] + 1 >= Threshold)
        BY <3>1, <3>2, <3>3
      <3>5. BreakerOf(i)!Failure
        BY <3>1, <3>2, <3>4 DEF BreakerOf!Failure
      <3> QED
        BY <3>5
    <2>2. CASE at[r] # i
      <3>1. fails'[i] = fails[i] /\ wait'[i] = wait[i]
        BY <1>2, <2>2 DEF Fails, recordFailure
      <3> QED
        BY <3>1
    <2> QED
      BY <2>1, <2>2
  <1>3. CASE Tick
    <2>1. /\ fails'[i] = fails[i]
          /\ wait'[i] = IF wait[i] > 0 THEN wait[i] - 1 ELSE 0
      BY <1>3 DEF Tick
    <2>2. wait'[i] > 0 => wait[i] > 0
      BY <2>1
    <2> QED
      BY <2>1, <2>2 DEF BreakerOf!CoolDown
  <1>4. CASE UNCHANGED breakerVars
    BY <1>4 DEF breakerVars
  <1> QED
    BY <1>1, <1>2, <1>3, <1>4 DEF Next, Proceeds, Begin, Attempt, Stops,
                                  Exhausted, CallerLeaves, vars

\* Requests that overlap, use stale lists, or report long after their caller
\* left make each upstream's circuit do nothing that the documented breaker of
\* a single caller could not do.
THEOREM EachIsABreaker ==
    ASSUME NEW i \in Upstreams
    PROVE  Spec => BreakerOf(i)!Spec
  <1>1. Init => BreakerOf(i)!Init
    BY DEF Init, BreakerOf!Init
  <1>2. IInv /\ [Next]_vars => [BreakerOf(i)!Next]_(BreakerOf(i)!vars)
    BY StepBreaker
  <1> QED
    BY <1>1, <1>2, Invariance, PTL DEF Spec, BreakerOf!Spec

=============================================================================
