------------------------------- MODULE ChatUI -------------------------------
(***************************************************************************)
(* The page served at /chat: one thread of callbacks over state that all   *)
(* the flows the user started share.                                       *)
(*                                                                         *)
(* A flow is one call of send or agentSend.  Between its callbacks, which  *)
(* are the actions, the server acts, connections break and the user clicks *)
(* what is on the page.  A run is named after the flow that created it and *)
(* passes through what PolledRun allows, which is what AgentRun does as    *)
(* far as the page tells its statuses apart.                               *)
(*                                                                         *)
(* Abstracted: texts, the bubbles in the log, downloads.  A cancel request *)
(* is sent and forgotten, and any run may fail at any time, so it is no    *)
(* step of its own.                                                        *)
(***************************************************************************)
EXTENDS Naturals, Sequences

CONSTANTS
    MaxFlows,       \* bound: flows the user starts
    MaxErrors,      \* the poll errors that are retried: 5
    None            \* no flow, no run, no reply

ASSUME ChatAssumption ==
    /\ MaxFlows \in Nat
    /\ MaxErrors \in Nat
    /\ None \notin Nat \cup {"ok"}

Flows == 1..MaxFlows

VARIABLES
    \* The page: the variable state, the key, and msgs.
    status,     \* state.status
    card,       \* state.card: its kind, its flow and its buttons
    key,        \* is there an API key?
    retry,      \* what state.retryFn calls
    runId,      \* state.runId
    poll,       \* state.poll: the flow of the last timer set, None once fired
    ctrl,       \* state.ctrl: the flow it aborts
    msgs,       \* the conversation sent upstream, as roles
    \* Each flow.
    at,         \* where it is
    target,     \* the run its request in flight is about
    reply,      \* the answer on its way, None until the server has acted
    errors,     \* pollErrors
    \* The server, external to the page.
    run,        \* the status of each run
    token,      \* an approval its loop has not taken yet
    \* History.
    abandoned,  \* did New Chat leave a flow behind that still runs?
    unheard     \* the runs that were created and their flow was not told

pageVars   == <<status, card, key, retry, runId, poll, ctrl, msgs>>
flowVars   == <<at, target, reply, errors>>
serverVars == <<run, token>>
history    == <<abandoned, unheard>>
vars == <<pageVars, flowVars, serverVars, history>>

-----------------------------------------------------------------------------

NoCard == [kind |-> "none", of |-> None, buttons |-> "none"]

Init ==
    /\ status = "idle" /\ card = NoCard /\ key \in BOOLEAN /\ retry = "none"
    /\ runId = None /\ poll = None /\ ctrl = None /\ msgs = << >>
    /\ at = [f \in Flows |-> "new"]
    /\ target = [f \in Flows |-> None]
    /\ reply = [f \in Flows |-> None]
    /\ errors = [f \in Flows |-> 0]
    /\ run = [f \in Flows |-> "none"]
    /\ token = [f \in Flows |-> FALSE]
    /\ abandoned = FALSE /\ unheard = {}

\* A flow goes on to l.  A request about a run is about the one of state.runId.
Goto(f, l) ==
    /\ at' = [at EXCEPT ![f] = l]
    /\ reply' = [reply EXCEPT ![f] = None]
    /\ target' = [target EXCEPT ![f] = IF l \in {"tick", "post"} THEN runId
                                                               ELSE None]

\* Mutant: a message whose completion failed stays in the conversation.
Unpopped(list) == list

\* msgs.pop(), which leaves an empty list as it is.
Popped(list) == IF list = << >> THEN list ELSE SubSeq(list, 1, Len(list) - 1)

\* Mutant: the status is not that of the card.
ErrorCardOnly ==
    /\ UNCHANGED status
    /\ card' = [kind |-> "error", of |-> None, buttons |-> "retry"]

\* dropCard, and the cards that replace the one there is.
DropCard == card' = NoCard
ErrorCard ==
    /\ status' = "error"
    /\ card' = [kind |-> "error", of |-> None, buttons |-> "retry"]
WaitingCard(next) ==
    /\ status' = "waiting"
    /\ card' = [kind |-> "waiting", of |-> None, buttons |-> next]
WorkingCard(f, b) ==
    /\ status' = "working"
    /\ card' = [kind |-> "working", of |-> f, buttons |-> b]

\* The actions of a flow's own card, wherever that card may be by now.
Buttons(f, b) ==
    card' = IF card.of = f THEN [card EXCEPT !.buttons = b] ELSE card

-----------------------------------------------------------------------------
(***************************************************************************)
(* The user.                                                               *)
(***************************************************************************)

\* send and agentSend with a key, up to their fetch.
Launch(f, kind) ==
    /\ at[f] = "new" /\ \A g \in 1..(f - 1) : at[g] # "new"
    /\ retry' = kind
    /\ IF kind = "chat"
         THEN /\ msgs' = Append(msgs, "user")
              /\ WorkingCard(f, "abort")
              /\ ctrl' = f
              /\ Goto(f, "chat")
         ELSE /\ WorkingCard(f, "stop")
              /\ Goto(f, "create")
              /\ UNCHANGED <<msgs, ctrl>>

\* Without one they show a card and are called again from it.
Send(f, kind) ==
    /\ \/ /\ key
          /\ Launch(f, kind)
       \/ /\ ~key
          /\ WaitingCard(kind)
          /\ UNCHANGED <<retry, ctrl, msgs, at, target, reply>>
    /\ UNCHANGED <<key, runId, poll, errors, serverVars, history>>

\* Mutant: the form is always open.
AlwaysOpen == TRUE

FormIsOpen == status # "working"

Submit(f) == FormIsOpen /\ \E kind \in {"chat", "agent"} : Send(f, kind)

\* "Retry" on the error card.
Retry(f) == card.kind = "error" /\ Send(f, retry)

\* "Enter the key" on the waiting card, and its onApprove, which does nothing
\* if it was a poll that was refused.
EnterKey(f) ==
    /\ card.kind = "waiting"
    /\ key' = TRUE
    /\ \/ /\ card.buttons = "nothing"
          /\ DropCard
          /\ UNCHANGED <<status, retry, ctrl, msgs, at, target, reply>>
       \/ /\ card.buttons # "nothing"
          /\ Launch(f, card.buttons)
    /\ UNCHANGED <<runId, poll, errors, serverVars, history>>

\* The key button of the header.
SetKey ==
    /\ ~key
    /\ key' = TRUE
    /\ UNCHANGED <<status, card, retry, runId, poll, ctrl, msgs, flowVars,
                   serverVars, history>>

\* "Cancel" on a waiting or an error card.
CancelCard ==
    /\ card.kind \in {"waiting", "error"}
    /\ DropCard
    /\ status' = "idle"
    /\ UNCHANGED <<key, retry, runId, poll, ctrl, msgs, flowVars, serverVars,
                   history>>

\* "Stop" on the card of a chat: the fetch of ctrl is aborted, and its catch
\* runs before any other callback.
StopChat ==
    /\ card.buttons = "abort" /\ ctrl # None
    /\ Goto(ctrl, "ended")
    /\ ctrl' = None
    /\ DropCard
    /\ msgs' = Popped(msgs)
    /\ status' = "idle"
    /\ UNCHANGED <<key, retry, runId, poll, errors, serverVars, history>>

\* The approval of a plan and the decision on a command: the Stop button is
\* back and the request is sent.
Answer(f) ==
    /\ at[f] = "paused" /\ card.of = f /\ card.buttons \in {"plan", "decide"}
    /\ Buttons(f, "stop")
    /\ Goto(f, "post")
    /\ UNCHANGED <<status, key, retry, runId, poll, ctrl, msgs, errors,
                   serverVars, history>>

\* "Cancel" on the plan.
CancelPlan(f) ==
    /\ at[f] = "paused" /\ card.of = f /\ card.buttons = "plan"
    /\ Goto(f, "ended")
    /\ runId' = None
    /\ DropCard
    /\ status' = "idle"
    /\ UNCHANGED <<key, retry, poll, ctrl, msgs, errors, serverVars,
                   history>>

\* New Chat aborts the chat (its catch finds the empty conversation) and stops
\* the last timer set.  Requests of agent flows are not aborted.
NewChat ==
    /\ status' = "idle" /\ DropCard /\ runId' = None /\ poll' = None
    /\ ctrl' = None /\ msgs' = << >>
    /\ at' = [f \in Flows |->
                  IF f \in {ctrl, poll} \/ at[f] = "paused"
                    THEN "ended" ELSE at[f]]
    /\ reply' = [f \in Flows |-> IF at'[f] = at[f] THEN reply[f] ELSE None]
    /\ errors' = [f \in Flows |-> IF at'[f] = at[f] THEN errors[f] ELSE 0]
    /\ abandoned' = (abandoned \/ \E f \in Flows :
                                     at'[f] \notin {"new", "ended"})
    /\ UNCHANGED <<key, retry, target, serverVars, unheard>>

-----------------------------------------------------------------------------
(***************************************************************************)
(* The server, and the way to it.                                          *)
(***************************************************************************)

\* What a request about run r is answered: a lost or unknown run is a 404.
Snapshot(r) == IF r = None \/ run[r] = "lost" THEN "gone" ELSE run[r]

\* The server acts on a request and sends its answer.
ServerActs(f) ==
    /\ reply[f] = None
    /\ \/ /\ at[f] = "chat"
          /\ reply' = [reply EXCEPT ![f] = "ok"]
          /\ UNCHANGED serverVars
       \/ /\ at[f] = "create"
          /\ reply' = [reply EXCEPT ![f] = "ok"]
          /\ run' = [run EXCEPT ![f] = "planning"]
          /\ UNCHANGED token
       \/ /\ at[f] = "tick"
          /\ reply' = [reply EXCEPT ![f] = Snapshot(target[f])]
          /\ UNCHANGED serverVars
       \/ /\ at[f] = "post"
          /\ reply' = [reply EXCEPT ![f] = "ok"]
          /\ token' = IF Snapshot(target[f]) = "planned"
                        THEN [token EXCEPT ![target[f]] = TRUE] ELSE token
          /\ UNCHANGED run
    /\ UNCHANGED <<pageVars, at, target, errors, history>>

\* Or it refuses, in JSON: the key may have been revoked or its lookup may fail,
\* the upstream or the rate limit may say no.  A refusal changes nothing before
\* the page hears of it, so it is no step of its own.  Nor is it that the
\* connection breaks, before or after the server acted, or that what arrives is
\* not JSON: that may happen to any request in flight.
Refused(f, l) == at[f] = l /\ reply[f] = None

\* Mutant: the run is created without auto_start: false.
AutoStarted(r) == TRUE

\* A run is gated: it goes on when the user has answered.
Answered(r) == token[r]

\* One that waits for a decision gets one, or it was cancelled and goes on
\* without.
RunMoves(r) ==
    /\ \/ /\ run[r] = "planning"
          /\ run' = [run EXCEPT ![r] = "planned"]
          /\ UNCHANGED token
       \/ /\ run[r] = "planned" /\ Answered(r)
          /\ run' = [run EXCEPT ![r] = "executing"]
          /\ token' = [token EXCEPT ![r] = FALSE]
       \/ /\ run[r] = "awaiting"
          /\ run' = [run EXCEPT ![r] = "executing"]
          /\ UNCHANGED token
       \/ /\ run[r] = "executing"
          /\ run' = [run EXCEPT ![r] = "awaiting"]
          /\ UNCHANGED token
    /\ UNCHANGED <<pageVars, flowVars, history>>

\* It completes, or it fails, is cancelled or meets its deadline.  A run that
\* waits for a decision is back at its stage first, which no poll need see.
RunEnds(r) ==
    /\ run[r] \in {"planning", "planned", "executing", "awaiting"}
    /\ \/ run' = [run EXCEPT ![r] = "failed"]
       \/ /\ run[r] = "executing"
          /\ run' = [run EXCEPT ![r] = "completed"]
    /\ token' = [token EXCEPT ![r] = FALSE]
    /\ UNCHANGED <<pageVars, flowVars, history>>

\* The server restarted, or evicted the run after its end.
RunIsLost(r) ==
    /\ run[r] \notin {"none", "lost"}
    /\ run' = [run EXCEPT ![r] = "lost"]
    /\ token' = [token EXCEPT ![r] = FALSE]
    /\ UNCHANGED <<pageVars, flowVars, history>>

-----------------------------------------------------------------------------
(***************************************************************************)
(* The callbacks of the fetches and timers.                                *)
(***************************************************************************)

\* The end of a chat: ctrl is reset whoever's it is.
ChatEnds(f) == Goto(f, "ended") /\ ctrl' = None

ChatReply(f) ==
    /\ at[f] = "chat" /\ reply[f] = "ok"
    /\ msgs' = Append(msgs, "assistant")
    /\ DropCard
    /\ status' = "done"
    /\ ChatEnds(f)
    /\ UNCHANGED <<key, retry, runId, poll, errors, serverVars, history>>

ChatRefused(f) ==
    /\ Refused(f, "chat")
    /\ msgs' = Popped(msgs)
    /\ key' = FALSE
    /\ WaitingCard("chat")
    /\ ChatEnds(f)
    /\ UNCHANGED <<retry, runId, poll, errors, serverVars, history>>

\* It is refused for another reason than the key, or the connection breaks.
ChatFails(f) ==
    /\ at[f] = "chat"
    /\ msgs' = Popped(msgs)
    /\ ErrorCard
    /\ ChatEnds(f)
    /\ UNCHANGED <<key, retry, runId, poll, errors, serverVars, history>>

\* setTimeout(tick, ...).
Schedule(f) == Goto(f, "timer") /\ poll' = f

CreateReply(f) ==
    /\ at[f] = "create" /\ reply[f] = "ok"
    /\ runId' = f
    /\ Schedule(f)
    /\ UNCHANGED <<status, card, key, retry, ctrl, msgs, errors,
                   serverVars, history>>

CreateRefused(f) ==
    /\ Refused(f, "create")
    /\ key' = FALSE
    /\ WaitingCard("agent")
    /\ Goto(f, "ended")
    /\ UNCHANGED <<retry, runId, poll, ctrl, msgs, errors,
                   serverVars, history>>

\* The same.  The run may have been created if the connection broke.
CreateFails(f) ==
    /\ at[f] = "create"
    /\ ErrorCard
    /\ Goto(f, "ended")
    /\ unheard' = IF run[f] = "none" THEN unheard ELSE unheard \cup {f}
    /\ UNCHANGED <<key, retry, runId, poll, ctrl, msgs, errors,
                   serverVars, abandoned>>

TimerFires(f) ==
    /\ at[f] = "timer"
    /\ Goto(f, "tick")
    /\ poll' = IF poll = f THEN None ELSE poll
    /\ UNCHANGED <<status, card, key, retry, runId, ctrl, msgs, errors,
                   serverVars, history>>

\* The polling of f is over; whichever run the page was at, it forgets it.
PollEnds(f) ==
    /\ Goto(f, "ended")
    /\ errors' = [errors EXCEPT ![f] = 0]
    /\ runId' = None

TickOver(f, seen) == at[f] = "tick" /\ reply[f] \in seen

TickGone(f) ==
    /\ TickOver(f, {"gone"})
    /\ PollEnds(f)
    /\ ErrorCard
    /\ UNCHANGED <<key, retry, poll, ctrl, msgs, serverVars, history>>

TickRefused(f) ==
    /\ Refused(f, "tick")
    /\ PollEnds(f)
    /\ key' = FALSE
    /\ WaitingCard("nothing")
    /\ UNCHANGED <<retry, poll, ctrl, msgs, serverVars, history>>

\* Mutant: pollErrors is reset before each poll, not by its answer.
OneOnly(f) == 1

OneMore(f) == errors[f] + 1

\* Mutant: it is looked at before it is incremented.
GivesUpLate(n) == n - 1 > MaxErrors

GivesUp(n) == n > MaxErrors

\* The catch of tick, pollErrors being n then.
Caught(f, n) ==
    /\ IF GivesUp(n)
         THEN /\ PollEnds(f)
              /\ ErrorCard
              /\ UNCHANGED poll
         ELSE /\ Schedule(f)
              /\ errors' = [errors EXCEPT ![f] = n]
              /\ UNCHANGED <<runId, status, card>>
    /\ UNCHANGED <<key, retry, ctrl, msgs, serverVars, history>>

\* The connection broke, or what arrived is not JSON.
TickFails(f) == at[f] = "tick" /\ Caught(f, OneMore(f))

\* It is the JSON of an error that is neither a 401 nor a 404: tick throws, but
\* only after it has set pollErrors to 0.
TickNoSnapshot(f) == Refused(f, "tick") /\ Caught(f, 1)

TickWorking(f) ==
    /\ TickOver(f, {"planning", "executing"})
    /\ Schedule(f)
    /\ errors' = [errors EXCEPT ![f] = 0]
    /\ UNCHANGED <<status, card, key, retry, runId, ctrl, msgs, serverVars,
                   history>>

\* The run waits for the user, so does the flow.
TickPauses(f) ==
    /\ TickOver(f, {"planned", "awaiting"})
    /\ Goto(f, "paused")
    /\ Buttons(f, IF reply[f] = "planned" THEN "plan" ELSE "decide")
    /\ errors' = [errors EXCEPT ![f] = 0]
    /\ UNCHANGED <<status, key, retry, runId, poll, ctrl, msgs,
                   serverVars, history>>

TickCompleted(f) ==
    /\ TickOver(f, {"completed"})
    /\ PollEnds(f)
    /\ DropCard
    /\ status' = "done"
    /\ UNCHANGED <<key, retry, poll, ctrl, msgs, serverVars, history>>

\* A run the user cancelled is no error.
TickFailed(f) ==
    /\ TickOver(f, {"failed"})
    /\ PollEnds(f)
    /\ \/ ErrorCard
       \/ DropCard /\ status' = "idle"
    /\ UNCHANGED <<key, retry, poll, ctrl, msgs, serverVars, history>>

\* Any answer to an approval or a decision resumes the polling, a refusal too;
\* a broken connection ends it.
PostOver(f) ==
    /\ at[f] = "post"
    /\ \/ /\ Schedule(f)
          /\ UNCHANGED <<status, card>>
       \/ /\ ErrorCard
          /\ Goto(f, "ended")
          /\ UNCHANGED poll
    /\ UNCHANGED <<key, retry, runId, ctrl, msgs, errors,
                   serverVars, history>>

\* The timer of setStatus("done").
DoneFades ==
    /\ status = "done"
    /\ status' = "idle"
    /\ UNCHANGED <<card, key, retry, runId, poll, ctrl, msgs, flowVars,
                   serverVars, history>>

-----------------------------------------------------------------------------

User(f) ==
    \/ Submit(f) \/ Retry(f) \/ EnterKey(f) \/ Answer(f) \/ CancelPlan(f)

Callback(f) ==
    \/ ChatReply(f) \/ ChatRefused(f) \/ ChatFails(f)
    \/ CreateReply(f) \/ CreateRefused(f) \/ CreateFails(f)
    \/ TimerFires(f)
    \/ TickGone(f) \/ TickRefused(f)
    \/ TickFails(f) \/ TickNoSnapshot(f)
    \/ TickWorking(f) \/ TickPauses(f) \/ TickCompleted(f) \/ TickFailed(f)
    \/ PostOver(f)

Server(f) == RunMoves(f) \/ RunEnds(f) \/ RunIsLost(f)

Next ==
    \/ \E f \in Flows : User(f) \/ Callback(f) \/ Server(f)
    \/ \E f \in Flows : ServerActs(f)
    \/ SetKey \/ CancelCard \/ StopChat \/ NewChat \/ DoneFades

Spec == Init /\ [][Next]_vars

\* Requests are answered or broken off, callbacks run, runs meet their
\* deadline; the user need never do anything.
FairSpec ==
    /\ Spec
    /\ \A f \in Flows :
           /\ WF_vars(ServerActs(f) \/ Callback(f))
           /\ WF_vars(RunEnds(f))

-----------------------------------------------------------------------------
(***************************************************************************)
(* Properties.                                                             *)
(***************************************************************************)

Alive(f) == at[f] \notin {"new", "ended"}

\* Every variable stays in its range: the count of a poller that goes on never
\* exceeds the errors it may retry.
TypeOK ==
    /\ status \in {"idle", "working", "waiting", "error", "done"}
    /\ card \in [kind : {"none", "working", "waiting", "error"},
                 of : Flows \cup {None},
                 buttons : {"none", "abort", "stop", "plan", "decide", "retry",
                            "chat", "agent", "nothing"}]
    /\ key \in BOOLEAN
    /\ retry \in {"none", "chat", "agent"}
    /\ runId \in Flows \cup {None}
    /\ poll \in Flows \cup {None}
    /\ ctrl \in Flows \cup {None}
    /\ msgs \in Seq({"user", "assistant"})
    /\ at \in [Flows -> {"new", "chat", "create", "timer", "tick", "paused",
                         "post", "ended"}]
    /\ target \in [Flows -> Flows \cup {None}]
    /\ errors \in [Flows -> 0..MaxErrors]
    /\ reply \in [Flows -> {None, "ok", "gone", "none", "planning", "planned",
                            "executing", "awaiting", "completed", "failed"}]
    /\ run \in [Flows -> {"none", "planning", "planned", "executing",
                          "awaiting", "completed", "failed", "lost"}]
    /\ token \in [Flows -> BOOLEAN]
    /\ abandoned \in BOOLEAN
    /\ unheard \in SUBSET Flows

\* Each run is one that AgentRun may be: see PolledRun.  One that is not there
\* yet is one whose first snapshot nobody asked for.
Polled(f) == INSTANCE PolledRun WITH
    run   <- IF run[f] = "none" THEN "planning" ELSE run[f],
    token <- token[f]

\* The conversation sent upstream alternates: every question is followed by its
\* answer, or is the one in flight; a failed, refused or stopped completion
\* leaves no trace, whatever cards, retries and New Chats came in between, as
\* long as New Chat has found no agent flow in the midst of a request.
ConversationAlternates ==
    ~abandoned =>
        /\ \A i \in 1..Len(msgs) :
               msgs[i] = IF i % 2 = 1 THEN "user" ELSE "assistant"
        /\ Len(msgs) % 2 = 1 <=> \E f \in Flows : at[f] = "chat"

\* The working card is that of the one flow that is alive, with the buttons it
\* waits for, and what it polls, approves and decides is its own run, unless New
\* Chat has left a flow behind: then CardDrivesItsRun shows what happens.
FlowIsShown ==
    ~abandoned => \A f \in Flows : Alive(f) =>
        /\ status = "working" /\ card.of = f
        /\ at[f] = "paused" <=> card.buttons \in {"plan", "decide"}
        /\ at[f] \in {"timer", "tick", "paused", "post"} => runId = f
        /\ at[f] \in {"tick", "post"} => target[f] = f

\* The answer to the POST that creates a run is lost: the page has shown an
\* error and will never name that run, whatever else it approves, and may have
\* created another one by Retry.  The lost one is "gated (auto_start:false) so
\* it stops at the plan": nothing of the task is done twice, or unseen.
UnheardRunIsIdle ==
    \A f \in unheard : run[f] \notin {"executing", "awaiting", "completed"}

StopsPolling(f) == at[f] \in {"timer", "tick"} ~> at[f] \in {"paused", "ended"}

\* The server does not answer the polls of f with errors for ever, without a
\* snapshot every now and then, after which no error is counted.
ServerRecovers(f) ==
    []<><<TickNoSnapshot(f)>>_vars => []<>(at[f] = "timer" /\ errors[f] = 0)

\* "Stop cleanly instead of polling a dead id forever": whatever broken
\* connections, lost runs, restarts and passing errors it meets in whatever
\* order, every poller stops or waits for the user, those New Chat left behind
\* and those that share a run too.
PollsEnd == \A f \in Flows : ServerRecovers(f) => StopsPolling(f)

\* The page does not stay at work for ever: it gets to an end, to an error or
\* to a question for the user that is really on the page.
WorkingEnds ==
    (\A f \in Flows : ServerRecovers(f)) =>
        (status = "working" ~> \/ status # "working"
                               \/ card.buttons \in {"plan", "decide"})

\* "Retry a few times, then give up rather than spam the console forever",
\* whatever the errors are.
PollingGivesUp == \A f \in Flows : StopsPolling(f)

\* "The working card is then driven by polled snapshots": the run it polls,
\* approves and cancels is the one its flow created.
CardDrivesItsRun ==
    \A f \in Flows :
        card.of = f /\ at[f] \in {"timer", "tick", "paused", "post"}
            => runId = f

=============================================================================
