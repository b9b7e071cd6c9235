# mini AI-DOS gateway: TLA+ specifications and proofs

The gateway is one Go process. It relays chat completions to a chain of model
providers, and it runs *agent tasks*: a goroutine per task asks the model for a
plan, executes it with tools in a workspace directory, inspects and fixes the
outcome, and reports. A page served at `/chat` drives both. This directory
holds models of the parts whose behaviour over time matters, the TLC
configurations that check them, and TLAPS proofs about each of them.

Paths below are relative to `src/services/gateway/`.

## 1. Inventory

| Component | State | Operations | Interacts with |
|---|---|---|---|
| Agent run (`internal/agent/agent.go`, `executor.go`, `tools.go`) | the record `Run` under `Engine.mu`; channels `approve` and `decision`; a context; locals of `Engine.loop` | plan, gate, steps with tool calls, command approval, inspect, fix, verify, report; `Approve`, `Decide`, `Cancel`, `Revert`, `Compare`, `Get` | provider (calls), workspace (files), handlers (channels, lock, context) |
| Run registry (`agent.go` `Start`, `evictLocked`, `update`) | `Engine.runs`, directories under `baseDir` | start, insert and evict, read back, finish | loops, reverts, process restarts |
| Workspace and versioning (`workspace.go`, `versioning.go`) | files on disk | write, edit, list, snapshot, restore, diff, zip | the loop, commands, reverts |
| Inspection (`inspect.go`) | none | what is broken in a page | workspace |
| Failover chain (`internal/provider/failover.go`) | a circuit breaker per upstream under `Failover.mu` | walk the chain, record success and failure | every completion and every model call of a run |
| Rate limiter (`internal/ratelimit`, `server/middleware.go`) | window start and counter | allow or refuse, `Retry-After` | requests in front of the costly endpoints |
| Chat page (`internal/server/chat.go`) | `state`, `msgs`, timers, requests in flight, DOM cards | send, poll, approve, decide, stop, cancel, retry, New Chat | handlers over HTTP, which may fail or lose answers |
| HTTP handlers (`server/handlers*.go`) | none of their own | validate, call the engine or the chain, encode | all of the above |
| Authentication, key store (`server/middleware.go`, `internal/store/apikey.go`, `postgres.go`, `cmd/keygen`) | table `api_keys` | create, revoke, list, find by hash | every request under `/v1`; PostgreSQL, which `keygen` and `migrate` change from other processes |
| Migrations (`store/migrate.go`, `cmd/migrate`) | table `schema_migrations` and what the files create | apply what is missing | PostgreSQL; other processes of itself; `Ready` of the gateway and of `keygen` |
| Server lifecycle (`server/server.go`, `cmd/gateway`) | listener, requests in flight, the pool of connections | check readiness, listen, serve, shut down with a grace | handlers; not the run goroutines |
| Configuration, foundation library, TypeScript workspace, documents | none over time | parsing, helpers | - |

What is hard, and what makes each part correct:

* **Agent run.** The loop, any number of HTTP requests, a deadline and a cancel
  share a record, two one-place channels and a directory. A handler checks
  under the lock and sends after it; the loop never polls its context between
  calls; `Revert` ignores the status; commands change anything. Correct means:
  the status follows the fixed progression, nothing happens before an approval,
  one Allow lets one command through, a cancelled run stops, every run ends,
  and the report describes the disk.
* **Run registry.** Insert, launch and read-back of a `Start` are three
  critical regions; an eviction, a finishing loop and a late `Revert` fit in
  between. Correct means: a live run is never lost, the map stays bounded,
  finished runs go only under pressure, directories leak in known ways only,
  `Start` returns the run.
* **Failover.** Requests walk a list read earlier while others open and close
  circuits; outcomes arrive in any order; cancelled callers look like failures.
  Correct means: the free-first order, a breaker that opens only after
  consecutive failures and reopens at once when a probe fails, no refusal while
  an upstream was not tried, no upstream shut out for ever.
* **Rate limiter.** Boundary between windows, rounding of the remaining time.
* **Chat page.** Single-threaded but full of callbacks: an answer that arrives
  after New Chat or Retry acts on state that belongs to another flow; a poller
  must stop, however its errors are mixed; a card with buttons must exist
  whenever the page waits.

* **Authentication, limiter and process life** are correct together or not at
  all: one bearer token meets a mode that a restart changes, a row that
  `keygen` revokes meanwhile, a limiter that one order of wrappers protects from
  rejected requests, and a shutdown whose grace ends before the lookups do.
  Correct means: nobody is served without a key of the running mode, a
  revocation that was reported holds from then on, quota is spent on work only,
  and a signal ends the process.
* **Migrations.** The version is looked up outside of any transaction, by
  processes that may run at once, fail anywhere, and not hear that they
  succeeded. Correct means: each file takes effect once, in order, and a process
  that reports success has told the truth.

`PROJECT.json` lists every hazard with its line.

## 2. Modules

    RunLifecycle          what a client of a run may rely on (abstract)
      ^ implemented by
    AgentRun              the loop, the handlers, the workspace
      ^ MCAgentRun        constants and symmetry for TLC
      ^ AgentRun_proofs   ^ AgentRunSteps_proofs
      | implements (gated runs)
    PolledRun             a run as the page tells its statuses apart (abstract)
      ^ implemented by each run of
    ChatUI                the page, its flows and the server it talks to
      ^ ChatUI_proofs
    RunRegistry           the map of runs and the disk
      ^ MCRunRegistry, RunRegistry_proofs
    Breaker               the documented circuit breaker, one caller (abstract)
      ^ implemented by each upstream of
    Failover   ^ Failover_proofs
    RateLimit  ^ RateLimit_proofs
      ^ extended by
    Gateway               authentication, limiter, handlers, keygen, process life
      ^ Gateway_proofs    (extends RateLimit_proofs)
    Migrations ^ Migrations_proofs

**RunLifecycle** is the promise of the comment on `Status` (agent.go:62), "the
progression is fixed", completed by what the code adds to it: the plan gate,
and `awaiting_approval`, which suspends a stage and returns to the same stage.
`AgentRun` contains it as `Lifecycle == INSTANCE RunLifecycle WITH ...`; the
refinement mapping shows the suspended stage (`prev`) as the phase while a
command waits.

**AgentRun** models one run. A step lies between two points where another
goroutine can see or change something: a critical section of `Engine.mu`, a
channel operation, a provider call, an access to the workspace. `pc` names the
position in `Engine.loop`, `chat`/`attempt` the model call in
`chatMessages`, `step`/`iter`/`nudges` the counters of `executeStep` and
`fixWithTools`, `cmd`/`prev`/`answer` the locals of `runTool` and
`requestApproval`, `found` the loop's lists. Each HTTP request has a position
`hpc`; `Approve` and `Decide` are check (under the lock) and send (after it),
`Revert` is begin, one step per file removed, two per file written, list,
publish. The two are those of `os.WriteFile` (workspace.go:114), which empties
the file (`RestoreOpen`) before it writes it (`RestoreWrite`): in between, and
for good if the Revert fails there (`RestoreFails`), the page is `Partial`.
A file is what the engine can tell apart: absent, too big for
`ReadFile`, there in part only, or a page that needs one other file, itself, or
something that cannot exist. The writes of the loop's own
tools are one step: a Revert is the only one who could meet them half done, and
what it then leaves is claimed by no property (`tampered`). The text of plans, prompts and answers is a nondeterministic
choice among the answers the loop distinguishes. A command may change the
workspace in any way, fail, or succeed. The variables after *History* exist only
for the properties.

**PolledRun** is where the page and the engine meet: `executing` stands for all
stages that work on the approved plan, `awaiting` for a command on the card,
`token` for an approval that the loop has not acted on yet. The page's runs do
what PolledRun allows and nothing else, and the engine's gated runs do nothing
it does not allow; both are theorems, so what TLC shows of the page against
ChatUI's server holds against the engine. The attempt to prove it corrected
ChatUI: a run whose context ends while a card is up goes back to its stage
without a decision (`AwaitCancelled`), which the page's server did not allow.

**RunRegistry** models all runs, each reduced to unborn, made, live, terminal
or lost. `Insert` is the critical section of `Start` with `evictLocked` in it;
the iteration order of the map is the choice of any element of `Evictable`,
and `RemoveWorkspace` may fail, since nobody looks at its error (agent.go:456).
`Restart` empties the map and leaves the disk.

**Failover** models concurrent `ChatCompletion` calls. `wait[i]` is the number
of ticks until circuit `i` lets a probe through (`now.After(openUntil)` is
strict, hence `Cooldown + 1`). `Begin` reads `available()` once, as the code
does; `Succeeds` and `Fails` record the outcome and go on; `CallerLeaves`
cancels the context at any time.

**Breaker** is what the comments at the head of failover.go say of one circuit,
for a single caller and without time: a row of failures, open or not. Each
upstream of Failover implements it.

**RateLimit** models `Limiter.Allow`, one critical section, and the header
`withRateLimit` derives from its answer, in ticks finer than a second so that
the truncation is visible.

**ChatUI** models the page. A *flow* is one call of `send` or `agentSend`; its
callbacks are the actions. Shared page state (`state.runId`, `state.card`,
`state.ctrl`, `state.poll`, `msgs`) is shared by the flows as in the code. The
server answers, moves runs and loses them (eviction or restart). A refusal
changes nothing before the page hears of it, and a broken connection shows only
in the callback, so both are parts of the callbacks: `Refused` requests are
those the server has not acted on, a connection breaks at any time, before or
after it acted. A poll has two kinds of errors. One that breaks or brings no
JSON counts up (`TickFails`); the JSON of an error, which is parsed, resets
`pollErrors` before the page throws (chat.go:775-777), and so counts one each
time (`TickNoSnapshot`). The history variable `unheard` holds the runs whose
create answer was lost.

**Gateway** composes the middleware chain with the process around it. It EXTENDS
RateLimit: `Let` and `TooMany` are steps that conjoin RateLimit's `Admit` and
`Refuse` with the request's own step, and `Start` gives a new process a fresh
limiter, so that RateLimit's properties are checked again where concurrent
requests and restarts can break them. The limiter lives in memory, so its bound
is one of a process: `Start` empties the history `admitted` with it. A request is at `auth`, `limit` or `serve`;
`Arrive` takes any token and an endpoint that is limited (completions, creation
of a run) or not (everything about an existing run). `Authenticate` is
`withAuth` with `authenticate`, in the mode the process was started in;
`LookupFails` is its 500, without a fallback. `Create`, `Revoke` and
`RevokeAgain` are `keygen`, whose answer may be lost; `assured` records what the
operator was told. `life` is the process: `up`, `draining` (`Shutdown`, no new
request), `closing` (the grace is over or `Serve` failed, the deferred
`pg.Close()` waits for connections in use), `down`.

**Migrations** models any number of `cmd/migrate` processes, `pc[r]` being the
position of `store.Migrate` in each. The transaction runs from `ExecSQL` to
`Commit`; `InsertVersion` waits while another open transaction holds the row
(`Taken`) and is refused if that one committed (`Duplicate`). `CommitUnheard`
took effect and is reported as an error; `Fails` is an error, the 30 s deadline
or a crash anywhere. An effect is the file's number in the history `schema`.

## 3. Runs

| Run | Question | Result |
|---|---|---|
| `agent_progress` | Does a gated or ungated run show the fixed progression (refinement of RunLifecycle), do nothing before approval, end, and react to approvals and decisions? Is every accepted Allow used by one command, and does a cancelled run touch the workspace at most once more? | holds |
| `agent_revert` | Are the steps of a run done in order? Does the report describe the disk until a Revert begins? Does a successful Revert after the loop restore the build, one that comes after a failed one or races another too, but for files above `maxFileBytes` and pages that other Revert has cut short? | holds |
| `agent_stale_decision` | Is the command an Allow lets through the one that was shown? | violated |
| `agent_no_files` | Does a completed run have files? | violated |
| `registry` | Live runs kept, map bounded, eviction under pressure only, three known kinds of leak only | holds |
| `registry_start_nil` | Does `Start` return its run? | violated |
| `failover` | Breaker rule, order, exhaustion, blame, probes, no upstream shut out, every request ends | holds |
| `gateway` | At most twice the limit in any window-long span of a process, the returned wait is enough and its header short of it by less than a second; only authorised requests are served, quota is spent on them only, a signal ends the process | holds |
| `migrations` | Each migration once and in order, success is complete, no process waits for ever | holds |
| `chat_ui` | Conversation well formed, live flow shown (both until New Chat leaves an agent flow behind), a run the page was not told of stays at its gate, pollers and work end unless polls are answered by errors in JSON for ever | holds |
| `chat_ui_card` | Does a card drive the run its flow created, New Chat included? | violated |
| `chat_ui_polls` | Does the page give up polling whatever the errors are? | violated |

Every property of a passing run has a mutant in `PROJECT.json`: a plausible bug
in one definition under which TLC finds that property violated.

The runs that find a violation quote what the code says of itself:

* `agent_stale_decision`: `Decide` checks the status under the lock and sends
  after it, and nothing drains the channel. The second of two decisions on one
  command can be accepted after the loop took the first one and then answers
  the *next* command (agent.go:230, against agent.go:280).
* `agent_no_files`: the completion gate counts files before the fix stage,
  whose commands can remove them (agent.go:586, against agent.go:583).
* `registry_start_nil`: `Start` reads its run back in a second critical
  section; a run that already failed can have been evicted, and the handler
  uses the nil result (agent.go:190, against agent.go:155).
* `chat_ui_card`: an answer to a creation that New Chat left behind overwrites
  `state.runId` of the next flow (chat.go:478, against chat.go:395).
* `chat_ui_polls`: an answer that is the JSON of an error resets the count of
  errors before it is counted, so an endpoint that goes on answering 500 is
  polled for ever (chat.go:775, against chat.go:843). `PollsEnd` and
  `WorkingEnds` say what is left: both ends are reached if the server does not
  answer so for ever (`ServerRecovers`).

One more disagreement has no run of its own, because a property that holds says
it more exactly: the `Retry-After` header drops the fraction of a second
(middleware.go:176), while ratelimit.go:36 speaks of a wait "rounded up to a
whole second", so a client that obeys the header may be refused once more.
`WaitSuffices` states that it is short by less than a second: one second more
than the header says is enough.

What some of the passing properties leave out on purpose:

* `ReportIsFaithful` ends where a Revert begins, and `RevertRestoresBuild` where
  one overlapped the loop: `Revert` looks at no status and keeps `Verification`
  and `Result`, so of these cases nothing can be claimed.
* `ConversationAlternates` and `FlowIsShown` hold until New Chat finds an agent
  flow in the midst of a request; `CardDrivesItsRun` shows what may follow.
* `DecisionResumes` says that the run goes on; that the card goes with it is the
  theorem `CardIsTrue`.
* `OneAllowOneCommand` counts commands, it does not say which;
  `AllowedCommandWasShown` does.

### Bounds, and why they are enough

* `AgentRunProgress`: one step and the round of fixes, three tool calls in
  each, one nudge, one retry, one file, one sensitive command. With three calls
  and one nudge both ways a dialogue ends at a counter are there: it narrates
  until the nudges are used up, or works until the calls are. The two stages
  and the calls of each give a second command for a decision left over by an
  earlier one. One decider and the loop race for the slot of the channel;
  `OneAllowOneCommand` for any number of deciders is a theorem.
* `AgentRunRevert`: two steps, which is what an order takes; two Reverts, so that
  one overlaps the other; two files, so that a restore is not atomic, one write
  may fail after another succeeded, and references between pages can break and
  be repaired; a file may be too big for a snapshot. The two files are
  interchangeable, so are the two Reverts (symmetry). No approvers: runs that
  start ungated have the same later stages. A Revert that overlaps the loop is
  followed to its beginning only (constraint `Untampered`), since no property of
  the run claims anything after it; the theorems do without the constraint.
* `RunRegistry`: four runs with a cap of two put the map two over its cap; two
  Reverts; one restart; removals that fail; a clock of two values gives ties and strict order of
  `Created`.
* `Failover`: two upstreams, two requests, threshold two, so that failures of
  different requests mix; `MaxFails` 3 lets the counter pass the threshold by a
  failed probe. The code has threshold 3 and 30 s; the theorems cover those.
* `Gateway`: two requests, so that one passes the limiter while the other is
  authenticated or hangs in a lookup; one key and the environment's key, which
  is every class of token (of the running mode, of the other one, unknown,
  revoked); limit two, windows of four ticks and six instants, so that a window
  ends at every phase and a next one begins. The theorems cover any keys,
  requests, limits and windows.
* `Migrations`: three processes, so that two wait for the row of a third; two
  files, which is what an order takes.
* `ChatUI`: two flows, which is what it takes for an answer of one to meet the
  state of the other; one poll error retried (the code retries five: the
  boundary is what matters). `ChatUIPolls`: one flow, and all five errors.

`MaxTime`, `MaxRestarts`, `MaxFlows` and `MaxFails` are bounds of the models
only, and the guards that use them are the only ones without a counterpart
in the code. (`MaxFails` caps a counter that the code lets grow.)
`CHECK_DEADLOCK FALSE` is in every configuration but `Gateway.cfg` and
`Migrations.cfg` (a process can always be started again) because those systems
may stop: a run has ended, ids, flows and the bounded clock are used up,
and nobody is obliged to send another request.

### Fairness

* `AgentRun!FairSpec`: weak fairness of the loop's own steps. The goroutine is
  scheduled, each provider call has the client's timeout and each command has
  `commandTimeout`. Not when `Stuck`: `cmd.Run` returns only when the output pipe
  is closed, and a child that a command leaves behind keeps it open beyond the
  timeout. `RunEnds` assumes in its own antecedent that the context ends
  (`runTimeout`); `DecisionResumes` and `ApprovalReleases` do not. Nothing is
  assumed of users.
* `Failover!FairSpec`: time passes and provider calls return. Nothing makes
  requests arrive or callers leave.
* `ChatUI!FairSpec`: a request is answered or broken off, callbacks run, and a
  run meets its deadline. Clicks are never assumed.
* `Gateway!FairGateway`: the timer of the grace and the end of `run` are the
  process's own steps. Of handlers nothing is assumed: they may outlast the
  grace. Of lookups it is assumed that the database answers or fails them:
  `authenticate` gives its query the request's context, which has no deadline,
  the deferred `pg.Close()` waits for connections in use, and a second signal is
  still caught by `signal.Notify` and read by nobody. Without that assumption
  `StopsOnSignal` does not hold.
* `Migrations!FairSpec`: weak fairness of each process's next query, and strong
  fairness of its insert, because the row it waits for may be taken again and
  again: PostgreSQL wakes the waiters of a transaction when it ends. That a
  process fails is never relied upon.

## 4. Proofs

Eight proof modules hold theorems for all values of the constants, under
the named assumption of each module (`RunAssumption`, `RegistryAssumption`,
`FailoverAssumption`, `RateAssumption`, `GatewayAssumption`,
`MigrationsAssumption`, `ChatAssumption`): limits are naturals of the sign the
configuration enforces, and the special values differ from the others. Each is
an inductive invariant with the facts that it holds initially (`InitIInv`),
that each action keeps it, and that it therefore holds always (`Invariance`);
the theorems follow from it.

* **AgentRun_proofs.** `IInv == TypeOK /\ ControlInv`. `ControlInv` ties the
  position of the loop to the status clients see; without it typing is not
  inductive (the status restored after a decision is `prev`) and neither is the
  refinement. Theorems: `TypeCorrect`; `OneAllow` for any number of deciders
  (through `DecisionMoves`: an accepted Allow moves from channel to loop to
  command and is never copied); `CancelledRunStops` (`LateInv`: once a tool
  ran late no model call is in flight, and none begins under a context that is
  done); `GateHolds`; `StepsShownInOrder`; `Refinement`, that
  `AgentRun` implements `RunLifecycle`, step by step (`StepImplements`,
  `QuietStep`); `RevertIsExact` (`RestoreInv`: what a Revert still has to remove
  or write, with what it has done, is the build, whatever an earlier one left
  half way, but for a page that another one has open or broke off in) and `ReportIsTrue` (`ReportInv`: which of the loop's lists describe
  the workspace at which position).
* **AgentRunSteps_proofs** extends it with what single steps may do.
  `LoopMovesForward`: every step of the loop makes seven numbers (stage, step,
  place in the step, tool calls, place in the turn, retries, place in the call)
  lexicographically larger, and nobody else moves it; `CourseBounded`: they stay
  below bounds made of `MaxSteps`, `MaxToolCalls` and `MaxRetries` (`PlanInv`:
  the plan is not longer than `MaxSteps`). So no answer of the model keeps a run
  busy for ever; that the loop does take its next step is the fairness TLC
  assumes for `RunEnds`. `CardIsTrue`, `NoCommandUnasked`,
  `AlwaysAllowNarrow` (`CardMatches`, itself inductive with `IInv`): the card is
  shown exactly while the status says so and names the command the loop holds,
  no sensitive command starts without an Allow applied under its own card, and
  "always allow" adds that card's category only. Which decision that Allow was
  meant for is another matter (`agent_stale_decision`). `EndedStaysEnded`: after
  the loop only a Revert's publication changes the record.
  `PolledRefinement`: gated runs implement PolledRun. It needs `ApprovalInv`
  (no approval is on its way before there is a plan), without which an approval
  would be there as the plan is shown.
* **RunRegistry_proofs.** `MapInv`: the map holds exactly live and finished
  runs, all live ones, and no more were live than the recorded peak. Theorems:
  `TypeCorrect`, `LiveKept`, `RetentionIsBounded`, `EvictionNeedsPressure`,
  `LeaksHaveThreeCauses`. The bound needs that a set of finished runs has an
  oldest (`LeastNatural`): above the cap without a finished run, all in the map
  are live.
* **Failover_proofs.** `BreakerInv`: an open circuit has a count of at least
  the threshold, and the count is the length of the last row of failures (up to
  the threshold). `RequestInv`: each upstream is still to be tried, being
  called, failed on this request, or was left out, and what is still to be tried
  comes after what was. Theorems: `TypeCorrect`, `OpenedByFailures`, `ProbesReopen`,
  `OrderKept`, `GivesUpLast`, `OneBlame`; `WalkedOnce` (with `Untried`: what is
  still to be tried was neither tried nor left out), so a request makes at most
  one call per upstream, which is the bounded part of `RequestsEnd`;
  `EachIsABreaker`, the refinement of Breaker for each upstream.
* **RateLimit_proofs.** `WindowInv`: the last `count` admissions are the
  current window's, and all but the `Limit` before them are a window older than
  its start; with it `SlidingBound` (at most twice the limit in any window-long
  span) is inductive. `ToldInv` gives `WaitIsEnough` (`WaitOutlasts`;
  `Rounding` for the header). The
  bound is the first of a row: `RateIsSustained` (n windows see at most n + 1
  times the limit) is what is inductive, `SlidingBound` its instance for one
  window. `RefusalsAreEarned`: a refused request follows a whole limit of
  admissions less than a window old.
* **Gateway_proofs.** Every step is a step of the limiter, none, or a fresh one
  (`LimiterStep`, `FreshLimiter`), so `GatewaySlidingBound` and
  `GatewayWaitIsEnough` rest on RateLimit's invariant. `DeadInv`: a key whose
  revocation was reported is revoked for ever, so a request that arrived after
  the report finds no usable row however late its lookup comes; with it
  `OnlyTheAuthorised` is inductive. `LimitInv` (only costly requests reach the
  limiter) gives `QuotaIsSpentOnWork`. Also `GatewayTypeCorrect`,
  `GatewayRateIsSustained`, `GatewayRefusalsAreEarned`, and `ShutdownWindsDown`:
  from the signal on no request is taken in, each in flight moves only towards
  its answer and the process only towards its end, which is what
  `StopsOnSignal` rests on besides fairness.
* **Migrations_proofs.** `Progress`: a process past a file knows it is
  committed, and one that is about to commit knows it is not. `Exclusive`: no
  two are about to commit the same. Hence the file committed is the next one in
  order (`HolderIsNext`, `NextFile`). Theorems: `TypeCorrect`, `MigratesOnce`,
  `SuccessIsTrue`; `OneHolder`, that all processes together hold one row at most,
  so a wait for a row is a wait for one process that waits for nobody;
  `NothingTakenBack`, that the database only moves on by whole files.
* **ChatUI_proofs.** `Alone`: until New Chat leaves something behind at most
  one flow is alive, the working card is its card, and `ctrl` is set just while a
  chat is. It is this that `FormIsOpen` buys, and without it neither the
  conversation nor the card is inductive. `UntoldInv`: a run the page was not
  told of is named by no variable of the page. Theorems: `TypeCorrect`,
  `ConversationIsSound`, `ShownFlowIsTheLiveOne`, `LostRunWaits`;
  `RunsArePolled` (`CreateInv`: a flow has no run before its POST is handled, so
  it creates one at most), and `PolledRunsAreMet`, that the server
  of ChatUI leaves out no step a run of PolledRun may take by itself.

Every safety property that a passing run checks is a theorem too. Only
model-checked: what needs fairness (`RunEnds`, `DecisionResumes`,
`ApprovalReleases`, `NotShutOut`, `RequestsEnd`, `PollsEnd`, `WorkingEnds`,
`StopsOnSignal`, `RunnersEnd`), which is out of the prover's reach, and the five
properties that are violated. For the first, fifth, eighth and ninth of them the
part that is no matter of fairness is proved, as said above. The theorems that
name no property of a run were checked by TLC on small instances before they were
proved (`PolledRunsAreMet`, a statement about single steps, excepted); they are
not repeated as runs.

## 5. Not modelled

* How raw keys and hashes are made, and `keygen -list`: one key value each, and
  a read. `RATE_LIMIT_ENABLED=false`: without a limiter nothing is promised.
* The composition of a run's retries with the chain of providers. Two facts of
  the code, read but not checked: the chain returns the last upstream's error
  only (failover.go:165), so whether `chatMessages` backs off (agent.go:631)
  depends on the order of the upstreams; and an answer of 400 or 404, which no
  other upstream's health explains, counts against the circuit like any error.
  `AgentRun` has a call end in any answer, error or rate limit, `Failover` any
  number of callers, so each holds for whatever the other does.
* The number of files under commands and concurrent writers: `WriteFile` counts
  before it creates, and a command is not counted at all, so there is no bound
  to state. Word splitting in `commandCategory`: a category is a constant of a
  command here.
* The goroutines of agent runs at shutdown: nothing waits for them and nothing
  is promised; `Restart` of RunRegistry is their end.
* The log of a run (`appendLog`, capped, for display only), `Search`, `Dump`,
  `WriteZip`, line diffs, HTML scanning, path confinement of tools: text
  processing or reading, no state the properties are about.
* Wire formats of the providers, request validation, encoding of answers.
* The report of a finished run in the page (previews, downloads, Compare and
  Revert buttons): it reads the server and prints into its own bubble, and
  shares no state with the flows. Its Revert button does not look at the status
  of the answer (chat.go:574), so it reports success after a refusal too.
* Configuration (parsed once), the foundation library, the TypeScript packages
  and the documents under `specs/`: no behaviour over time.

## 6. Plan

Done, in this order: what a run promises (RunLifecycle, AgentRun, RunRegistry),
what it calls (Failover, RateLimit), its client (ChatUI), the process and the
database around it (Gateway, Migrations), the safety of all of them proved, and
the page joined to the engine (PolledRun) and the breakers to their documentation
(Breaker) by refinement proofs.
What would come next:

1. AgentRun against Failover: retries and breakers must not starve each other.
2. Gateway with RunRegistry: what the grace covers of a run that is live.
3. A larger ChatUI run with a third flow, for pairs of flows left behind.
4. A course for ChatUI's flows like the one of AgentRun's loop: a bound on what
   a flow does after the server answered for the last time, for `PollsEnd`.
5. AgentRun's run as one of RunRegistry's: `Finish` and `Revert` of the registry
   as an abstraction of the loop and of Revert.

To check or prove: `tlc -config X.cfg M` and `tlapm M_proofs.tla`.
