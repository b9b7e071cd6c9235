------------------------------ MODULE RateLimit ------------------------------
(***************************************************************************)
(* The fixed-window limiter in front of the endpoints that cost upstream   *)
(* calls, and what its 429 tells the client.                               *)
(*                                                                         *)
(* A window starts with the first request after the last one expired.      *)
(* Allow is one critical section, so requests are taken one by one; time   *)
(* runs in ticks finer than the seconds of the Retry-After header.         *)
(***************************************************************************)
EXTENDS Naturals, Sequences

CONSTANTS
    Limit,      \* RATE_LIMIT_REQUESTS, positive
    Seconds,    \* RATE_LIMIT_WINDOW, positive
    Second,     \* ticks per second
    None,       \* no window yet, no refusal yet
    MaxTime     \* bound: ticks on the clock

ASSUME RateAssumption ==
    /\ Limit \in Nat \ {0}
    /\ Seconds \in Nat \ {0}
    /\ Second \in Nat \ {0}
    /\ MaxTime \in Nat
    /\ None \notin Nat
    /\ None \notin [at : Nat, wait : Nat, header : Nat]

Window == Seconds * Second

VARIABLES
    now,            \* the clock
    windowStart,    \* Limiter.windowStart, None for the zero time
    count,          \* Limiter.count
    told,           \* the last 429: when, the wait, and its header
    admitted        \* history: when each request was let through

vars == <<now, windowStart, count, told, admitted>>

-----------------------------------------------------------------------------

Init ==
    /\ now = 0 /\ windowStart = None /\ count = 0
    /\ told = None /\ admitted = << >>

Expired == windowStart = None \/ now - windowStart >= Window

\* Mutant: whole seconds only, as in the header.
LeftTruncated ==
    LET left == Window - (now - windowStart)
    IN  IF left < Second THEN Second ELSE (left \div Second) * Second

\* What is left of the window, but a second at least.
Left == LET left == Window - (now - windowStart)
        IN  IF left < Second THEN Second ELSE left

\* int(retryAfter.Seconds()) drops the fraction of the last second.
HeaderSeconds(wait) == wait \div Second

\* The ticks of one second more than the header says.
SecondMore(header) == (header + 1) * Second

\* Mutant: one request too many.
FullLate == ~Expired /\ count > Limit

Full == ~Expired /\ count >= Limit

\* Allow lets a request through, in a new window or in the current one.
Admit ==
    /\ ~Full
    /\ windowStart' = IF Expired THEN now ELSE windowStart
    /\ count' = IF Expired THEN 1 ELSE count + 1
    /\ admitted' = Append(admitted, now)
    /\ UNCHANGED <<now, told>>

\* Allow refuses it, and withRateLimit answers 429.
Refuse ==
    /\ Full
    /\ told' = [at |-> now, wait |-> Left, header |-> HeaderSeconds(Left)]
    /\ UNCHANGED <<now, windowStart, count, admitted>>

Tick ==
    /\ now < MaxTime
    /\ now' = now + 1
    /\ UNCHANGED <<windowStart, count, told, admitted>>

Next == Admit \/ Refuse \/ Tick

Spec == Init /\ [][Next]_vars

-----------------------------------------------------------------------------
(***************************************************************************)
(* Properties.                                                             *)
(***************************************************************************)

\* Every variable stays in its range; the counter never exceeds the limit.
TypeOK ==
    /\ now \in Nat
    /\ windowStart \in Nat \cup {None}
    /\ count \in 0..Limit
    /\ told \in [at : Nat, wait : Nat, header : Nat] \cup {None}
    /\ admitted \in Seq(Nat)

\* What a fixed window really guarantees: no span as long as a window, wherever
\* it starts, ever sees more than twice the limit.
TwiceTheLimit ==
    \A i, j \in 1..Len(admitted) :
        j = i + 2 * Limit => admitted[j] >= admitted[i] + Window

\* The rate over any longer span: each further Limit admissions take another
\* window, so n windows see at most n + 1 times the limit, one burst included.
\* TwiceTheLimit is the case of one window.
SustainedRate ==
    \A i, j, n \in 1..Len(admitted) :
        j = i + (n + 1) * Limit => admitted[j] >= admitted[i] + n * Window

\* Nobody is refused whose quota others did not use: Limit requests had been let
\* through within the window before the last 429.
RefusalIsEarned ==
    told # None =>
        \E k \in 0..(Len(admitted) - Limit) :
            \A i \in (k + 1)..(k + Limit) :
                admitted[i] <= told.at /\ told.at < admitted[i] + Window

\* A client that was refused and waits for so many ticks does not meet the
\* window that refused it.
Suffices(ticks) ==
    now >= told.at + ticks => Expired \/ windowStart > told.at

\* "retryAfter is how long until the window resets": after the wait the window
\* that refused is over.  The header is short of it by less than a second, so one
\* second more than it says is enough too.
WaitSuffices ==
    told # None =>
        /\ Suffices(told.wait)
        /\ Suffices(SecondMore(told.header))

=============================================================================
