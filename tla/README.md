# im-assistant: verification project

TLA+ models of the DingTalk assistant in `src/`, the TLC runs that check them and
the theorems TLAPS proves about them. Source paths below are relative to the
repository's `src/` package (`main.py` is `src/main.py` of the repository).

1. [The system](#1-the-system)
2. [Modules](#2-modules)
3. [Model and code](#3-model-and-code)
4. [Runs, bounds, fairness](#4-runs-bounds-fairness)
5. [What the code does not keep](#5-what-the-code-does-not-keep)
6. [Proofs](#6-proofs)
7. [Not modelled](#7-not-modelled)
8. [Plan](#8-plan)

## 1. The system

One asyncio process. DingTalk's Stream SDK starts a task for every inbound message and
every card button; the assistant keeps its state in one SQLite file.

| Component | Code | State | Operations |
|---|---|---|---|
| Stream adapter | `adapters/dingtalk/stream.py` | connection, reconnect delay | chatbot callback, card callback, reconnect |
| Normalization, trigger | `adapters/dingtalk/message.py`, `trigger.py` | none | payload to event |
| Session inbox | `core/inbox.py` | queue and worker task per conversation | enqueue, run, join, close |
| Inbound handling | `main.py` | claims (`inbound_messages`) | claim, handle, release, mark processed; recovery; wiring |
| Session manager | `core/session_manager.py` | `sessions` | get or create and write back |
| Router | `core/router.py` | none | pending interaction, then command, then agent |
| Commands | `core/commands.py`, `core/builtin_commands.py` | via store | `/help /reset /whoami /connect /disconnect /cancel`, roles |
| Agent loop | `core/agent_loop.py` | `sessions`, `messages` | run a turn, suspend it, resolve a card callback, cancel |
| Interrupts | `core/interrupt.py` | `pending_interactions`, `sessions` | create, resolve, cancel |
| Timers | `main.py` `InteractionTimeoutScheduler` | task per interaction | schedule, fire, restore at startup |
| Authorizer, capabilities | `capabilities/` | registry | can use; granted, needs consent, denied |
| Token vault | `infra/token_vault.py` | `token_vault` | get valid (refresh), put, revoke |
| OAuth | `infra/oauth.py` | `pending_auths` | create nonce, start, callback |
| DingTalk client, outbound | `infra/dingtalk_client.py`, `adapters/dingtalk/outbound.py` | app token cache, rate limiter | token, cards, replies |
| Store | `infra/store.py` | the SQLite tables | one transaction per call, one shared connection |
| LLM, audit, metrics, log, config | `infra/` | - | I/O and records |

**Interaction.** A message goes Stream task → inbox → worker → claim → Session lookup
→ route → command or agent turn → reply. A tool that needs confirmation inserts a
`pending_interactions` row, moves the Session to `AwaitingInteraction`, sends a card and
arms a timer. From then on three kinds of task may close the interaction: the *worker*
(a later message, `/cancel`, a card that could not be sent), a *card callback* (outside the
inbox, as many as there are clicks) and the *timer*.

**What is hard.** Each of these tasks reads a row, awaits, and writes; the worker writes the
whole `sessions` row back. Closing is decided by one conditional `UPDATE`. Tasks and queues
die with the process, the tables do not. Messages are acknowledged when they are enqueued.
All tasks share one SQLite connection, and with it one transaction: whoever commits or rolls
back does it for everybody. A refresh holds a grant over an HTTP call while `/disconnect`, a
new consent or another refresh change the row. All requests share one application token and the
lock around fetching and dropping it; a token can run out or be refused between any two awaits. The
registry is read from disk each time, so what a tool name stands for can change between the card and
the click, and the Session's actor with it. An approved tool runs beside the next turn.

**What makes it correct.** A deferred tool runs only after its responder approved it,
at most once, and never after the user was told it did not run; nothing is called timed out while the
answer is in time; no turn runs beside a pending interaction; every interaction ends; every message is handled in order, its turn at most once
per life of the process; a restart restores a consistent Session. A stored grant is the
principal's own and has the scopes of a link sent to this principal; a tool gets a credential
only if it covers what the tool needs; a link works once, until it is used or expires. What has an
effect needed no approval or has one for what was shown, and is allowed where it runs; a card is
decided as it was pressed; turns end. No API call is carried out twice by a retry, no request goes
out with a token known to be dead, replies keep their distance, and every operation ends.
The hazards in `PROJECT.json` list where each of these could break, line by line.

## 2. Modules

| Module | Contents |
|---|---|
| `Interactions` | One Session: worker, callbacks and timers on the rows `sessions` and `pending_interactions`; crashes and recovery |
| `ConfirmOnce` | Abstract: an interaction is opened once, closed once, run at most once and only if approved, announced as not executed only if cancelled |
| `MCInteractions` | Model values and symmetry for TLC |
| `Interactions_proof` | Type correctness, the inductive invariant, the refinement |
| `InteractionTurns_proof` | Timers, recovery, and what a turn can rely on while interactions come and go |
| `Delivery` | Callbacks, inbox workers, claims, orderly stop, crash and restart, for several conversations |
| `SerialQueues` | Abstract: the events of a conversation are handled one at a time, in order |
| `MCDelivery` | Model values and symmetry for TLC |
| `Delivery_proof` | Types, the inductive invariant in three layers, the refinement |
| `Grants` | Authorizer, token vault, consent nonces, the OAuth endpoints and `/disconnect` on the shared connection; failing statements and crashes |
| `MCGrants` | Model values and symmetry for TLC |
| `Grants_proof` | Types, the inductive invariant, where grants and credentials come from, that sent links last |
| `Client` | The application token, its cache and lock, the one retry; operations as sequences of API calls |
| `Outbound` | `Client` behind the rate limiter of replies, with session webhooks |
| `MCOutbound` | Three replies and a todo for TLC |
| `Client_proof`, `Outbound_proof` | The inductive invariant of the token; the limiter's, and that it leaves the client what it is |
| `Gate` | Capabilities, the tiers of the registry, `can_use`, what a requirement resolves to; operators only |
| `Turn` | Turns of one Session: the tool loop, credentials, confirmation, suspension, deferred runs |
| `Inbound` | Frames, slash commands, card presses; operators only |
| `Dispatch` | `Turn` with `Inbound` in front of it and the user tokens that decide its credentials |
| `MCDispatch` | Capabilities like the shipped ones, messages and versions of a user's files for TLC |
| `Turn_proof`, `Dispatch_proof` | The inductive invariant of `Turn`; that `Dispatch` takes only its steps; cards and `/connect` |

`Interactions` implements `ConfirmOnce`, `Delivery` implements `SerialQueues` (`INSTANCE ...
WITH`, checked as a PROPERTY). `Interactions` relies on what `Delivery` shows: its worker
takes the messages of one Session one by one from a FIFO queue. `Grants` opens up the tool
call inside `Think` and `ExecuteConfirmedTool` of `Interactions`: its strands are that worker
and those callbacks, two of which can work for the same user at a time. `Turn` opens up `Think` in
the other direction: what is offered to the model, what runs, for whom and with what approval;
`Interactions` says what happens to the rows meanwhile, so in `Turn` closing an interaction is one
step. `Dispatch` composes `Turn` with `Inbound` and a vault, and `Outbound` composes the limiter with
`Client`; the composed specifications implement `Spec` of `Turn` and of `Client` (both proved), so
what holds of the component holds of the composition.

Operators named as mutants (their comment starts with "Mutant:") are plausible bugs of the
definition they precede. They belong to no specification; each property is shown to fail
when one of them takes the place of the original.

## 3. Model and code

**Steps.** Coroutines switch only at an `await`. A step of the models is one call of the store
or of the outside world with the code that runs up to the next one. asyncio wakes tasks in
FIFO order; the models allow every order, which is weaker.

### Interactions

| Variable | Code |
|---|---|
| `session` | the `sessions` row: `state`, `context.pending_interaction`, `actor_id` |
| `row[c]` | `pending_interactions`: `status`, `kind`, `responder_id`, `expires_at`; `op`, `by`, `at` are the resolution |
| `cards` | interactions whose card DingTalk shows |
| `inbox`, `outcome` | the queue; what became of each message |
| `msg`, `view` | locals of the handler: the event, and its `Session` object |
| `pc`, `job`, `snap` | of each task: next step, the interaction it closes and how, the row it read |
| `noticed`, `runs`, `ranAs`, `overtaken` | history: "not executed" notices, tool runs, the actor of the last run, the interactions whose closer the worker overtook |
| `now`, `up`, `crashes` | clock, process |

`LookupSession`, `UpsertSession`, `Route` are `get_or_create_for_event` (read, write the row
as it was read, read) and `classify_inbound_message`. `FindPending`, `Check`, `Update`,
`ReadSession`, `WriteIdle`, `CloseOut` are the steps of
`SessionInterruptManager.resolve/cancel` and `_cancel_pending_interaction_record`; all
three kinds of task run them, told apart by `job.op`. `StartRun` to `FinishRun` are
`AgentLoop.run`. `TimerFires` is `_run_timeout` up to its look at the wall clock. `Recover` is `recover_persisted_session_state` followed by
`schedule_persisted_interaction_timeouts`.

Abstractions, and why they are sound for the properties:

- A message is a sender and a kind; `help` stands for every command that changes nothing,
  `unsupported` for a non-text message. An agent turn ends in one of four ways (`Turns`);
  LLM rounds and tools that need no confirmation are inside `Think`.
- Correlation ids are numbered in creation order, so `ORDER BY created_at DESC` is the
  greatest one.
- `/cancel` reads the pending row twice in a row; the model once. A close between the two
  reads leads to the same reply as one before.
- `ExecuteConfirmedTool` reads the `sessions` row and runs the tool in one step; the row it
  reads is what decides the actor.
- `Tick` waits while a card is being sent: HTTP timeouts are seconds, the confirmation
  timeout is half an hour by default. The clock is the wall clock and does not go back.
- A timer sleeps on the monotonic clock for a difference of wall-clock times (`main.py` 172, 196), so
  it may wake at any time. A wake-up before `expires_at` closes nothing and the task is over
  (`core/agent_loop.py` 581): `pc` is then `"early"`, and only a restart arms a timer again.
- Sending a card may raise although DingTalk shows it (`SendCard`).
- Consent is closed by cancellation and timeout only: nothing in `main.py` resolves it, the
  OAuth application is not started there.
- Calls of the local SQLite file succeed; `Grants` looks at the connection's transactions.

### Delivery

`pc`, `carries` are the SDK's callback tasks; `queue`, `unfinished`, `current` are
`SessionInbox._queue`, its unfinished-task count and `_worker_task`; `at`, `holds` are worker
tasks (`Slot` leaves room for a second one, so that having only one is a result); `claims` is
`inbound_messages`; `phase`, `closing`, `owed` follow `SessionInboxDispatcher.close`. `fate`
and `turns` are history. The handler succeeds or raises; what it does is `Interactions`.
The inbox's locks are held over no `await`, so what they guard is a single step. The end of
the process, orderly or not, drops everything but `claims`. Every message of the model
triggers; untriggered ones are claimed and marked like successes.

### Grants

| Variable | Code |
|---|---|
| `tx`, `auths`, `vault` | the connection: is a transaction open; `pending_auths` and `token_vault` as it sees them |
| `disk` | both tables as committed |
| `asked`, `expired`, `links` | actor and scopes of a nonce, its expiry, whether its link was sent |
| `at`, `needs`, `seen`, `asks` | of each strand (session worker, card callback): next step, required scopes, the grant it read, the nonce it created |
| `rpc`, `state`, `got` | of each HTTP request: next step, nonce in its URL, grant it obtained |
| `removed`, `consumed`, `revoked` | history: nonces deleted, how often consumed, consents disconnected |

A step is one SQL statement, one commit or one HTTP call, because each is an `await` of its
own (`infra/store.py`), and between two of them any task may use the connection. `Write`,
`Commit` and `Rollback` are what Python's `sqlite3` does with it. `Resolve` to `SendLink` are
`Authorizer.resolve` with `TokenVault.get_valid`, `put`, `revoke` and
`SQLitePendingAuthStore.create`; `Disconnect` is the command; `Start` to `CommitStore` are
`OAuthRequestHandler.start` and `callback` with `consume_pending_auth`. `Elsewhere` stands for
the statements and commits of all other tables.

Abstractions:

- One service, and the principal is the user of a DM: other principals have other rows.
- A grant is its owner, its scopes and the consent it goes back to. Tokens and their encryption
  are left out, and so is time: any stored grant may be found due for a refresh.
- Every grant has a refresh token. Nonces are 192 random bits: each is new.
- A link is used only after it was sent. The redirect of `/oauth/start` and DingTalk's consent
  page change nothing here and are part of `Callback`.
- A failing statement or commit is modelled where the code handles it, in
  `consume_pending_auth`; elsewhere an error surfaces as a failed tool.
- `main.py` does not start the OAuth application; the model takes it as running in the same
  process on the same store. `PendingAuthStore` in memory is used by tests only,
  `on_authorized` is never set; both are left out.

### Client and Outbound

| Variable | Code |
|---|---|
| `cached`, `refreshIn` | `_cached_token`, and `_refresh_after` minus the clock |
| `owner`, `waiters` | `_token_lock`: its holder, who waits for it in order |
| `pc`, `attempt`, `left`, `token` | of each operation: what it waits for, the attempt of its call, the calls it has left, what the request carries |
| `answer` | the answer of a token fetch on its way |
| `life`, `issued`, `revoked` | the server: how long a token lives, which were handed out, which were given up early |
| `stage`, `line`, `cool` | `OutboundRateLimiter`: where a reply is, the lock, `_next_allowed_at` minus the clock |
| `webhook` | how long the session webhook of a reply is valid |
| `refused`, `again`, `carried`, `since` | history: the token a call was refused with, tokens handed out since, how often the server carried a call out, time since a reply was let through |

`Begin` is `get_access_token` up to its first await, `Locked` the second look under the lock, `Issue`,
`Answered`, `FetchFails` the fetch, `Accepted`, `Failed`, `Clear` the answers of `_api_request` and
`_invalidate_cached_access_token`. `Arrive`, `Turn`, `Wake` are `OutboundRateLimiter.wait`,
`Dispatched` the choice in `reply`. What runs between two awaits is one step.

- Clocks are kept as the time left, so that the state space is finite without a bound on time.
- An operation is the number of API calls it makes: a confirm card two, a paged list one per page.
  Bodies and the parsing of answers are left out; a malformed answer is an error.
- A lock goes to its first waiter as it is released, as `asyncio.Lock` does between tasks that wait.
- The server answers a fetch with a token that is still valid or a new one. That an answer takes at
  most `Latency <= Skew` is an assumption (HTTP requests time out after 10 s, the skew is 300 s) which `SendsLive` rests on.
- `min_interval_seconds = 0` switches the limiter off and is left out.

### Gate, Turn, Inbound and Dispatch

| Variable | Code |
|---|---|
| `mode`, `actor` | `Session.kind` and `actor_id` |
| `own` | the capability files of each user |
| `pc`, `offered`, `iteration`, `calls` | `AgentLoop.run`: where it is, `capabilities_by_name`, its loop counter, the tool calls left |
| `status`, `question` | the interactions: state, payload and responder; `question.asked`, the capability that asked, is history |
| `running` | approved interactions whose tool a callback is about to run |
| `cancelled` | interactions that a history row calls cancelled |
| `granted`, `link` | scopes of the partner's token of a service; the consent link of an interaction while it works |
| `times`, `ran`, `connected`, `pressed` | history: effects of an interaction's call, the last call with an effect, what `/connect` promised, the buttons pressed |

`Message` is `AgentLoop.run` up to its first request, after what was pending is superseded; `Aside` a message that does not reach the
model; `UseTools`, `Call`, `Reply` the rounds of `_complete_with_tools` and `_execute_tool_call`; `Send` the
card and its failure; `Click`, `Cancel`, `Consent`, `RunApproved` are `resolve_confirm_callback`,
`cancel_pending_interaction`, `resume_interaction` and `_execute_confirmed_tool`. `Registered` and
`CanUse` are the registry and `can_use`, `Outcomes` the loop over a capability's requirements.
`Chat` reads a frame (`Normalized`), finds its command (`CommandText`, `Verdict`) and runs it;
`Press` wraps a press as DingTalk may (`CardFrames`) and reads it back (`CardRead`): the button's word
alone, or its fields in any of the four places a callback has for them, under any key that
`normalize_card_callback` knows, on a card with another id, and with the fields of that other card and
of the other button in the places around it, which it must override. Fields of the outer places are
taken to use the same keys as the press.

- Delivery makes the messages of a Session come one at a time, so a command is one step here; the
  task of a callback still runs beside the turn (`running`).
- A handler asks, fails, or has one effect and then returns or raises; two effects of one handler
  are not told apart.
- A word of a message is a value with the attributes the parser looks at: a mention, a slash, an open
  quote, its lower case. Whether a frame has all it needs is one Boolean.
- A token can be lost at any time, which covers refusals, failed refreshes and `/disconnect` by
  another strand; statement by statement this is `Grants`.
- `on_authorized` is left open: when a link is used, the interaction may be resumed
  (`resume_interaction`) or not, as in `src/`, where nothing sets the hook.
- The history is only which interactions it calls cancelled; which rows the next prompt contains
  is not modelled.

## 4. Runs, bounds, fairness

| Run | Question | Bounds |
|---|---|---|
| `race` | Can racing clicks, timers, messages and `/cancel` run a tool twice, unapproved, or after a notice, or time out an interaction too early? Is it `ConfirmOnce`? Does a turn run for somebody else, or beside an open interaction? | 2 users, 2 messages, 2 clicks, 2 interactions, time 0..2, TTL 1 |
| `live` | Timers, recovery, and do interactions and messages end? Is it `ConfirmOnce`? | 1 user, 2 messages of every kind, 1 click, 1 interaction, 1 crash at any step, time 0..1 |
| `delivery` | Serial, in order, no lost wake-up, duplicates, stop and restart | 2 conversations, 3 messages, 3 deliveries, 1 end of the process |
| `delivery_live` | Are deliveries settled, does a stop terminate? | 2 conversations, 2 messages, 2 deliveries, 1 end |
| `grants` | Is a grant always its user's own, a credential fitting, a sent link valid? | 2 users, a worker and a callback of one of them, 1 request, 2 nonces, 1 failure |
| `outbound` | Does the shared token serve everyone, are retries safe, do replies keep their distance, does everything end? | 3 replies (webhook that runs out, API, other conversation types), 1 todo, 2 tokens of life 2; skew, latency, interval 1 |
| `dispatch` | Does only what was approved and allowed run, once; are cards read right, does `/connect` suffice, do turns end? | 2 users, DM and group, 3 tools, 11 messages, 2 rounds of 2 calls, 2 details, 2 interactions |
| `wedge`, `drop`, `actor`, `once`, `disconnect` | Documented claims the code breaks (section 5) | as small as shows them |

Why they are enough: a race over an interaction is between two closers and the worker that
created it, so two clicks, a timer and a superseding message give every pair and triple; two
interactions let a late task of the first meet the second; two users make a foreign click and
a changed actor possible; TTL 1 within time 2 has a moment before, at and after expiry. A moment
before and one at expiry are enough for `live`, where the crash, which can come at any step, is
what matters; recovery forgets how it came about. In `Delivery` three
deliveries give a duplicate of a message and a neighbour in its queue, or a second
conversation that closes at another time. In `Grants` the worker and the callback refresh,
replace and revoke the same row, while a request opened by either user consumes a nonce; with two
nonces and two sets of scopes a later consent can replace a wider or a narrower one. One failure
is a statement that fails and rolls back for everyone, or a crash. `once` takes a second request,
`disconnect` needs no failure at all. In `outbound` the reply through the API and
the todo are the holder of the token lock and the one that waits or is refused in the meantime, and
three replies make one that is let through, one that sleeps and one that waits for the limiter; two tokens make the one that was refused and the one
that replaces it, and the server may hand out either again. In `dispatch` two calls in an answer put
one with an effect before one that suspends, two rounds reach the bound of the loop, and two
interactions let a message supersede one while the approved call of another is still running; the
tools differ in sensitivity, place, owner and scopes, and one may be shadowed by a user's own of the
same name while its card is open.

The longest runs are `grants` (4.9 million states), `race` (2.0 million), `outbound` (0.5 million)
and `dispatch` (0.1 million states, 3 million steps): one to three minutes with two workers.
Operations of several API calls and several arguments of a tool are left to the theorems, which hold
for any of them; that an operation of several calls ends is not checked.

Sending a card may raise although DingTalk shows it. The user's click then races the withdrawal
(`card_send_failed`); if it wins, the worker's withdrawal fails, its turn ends with an error
(`core/agent_loop.py` 461), and it goes on while the callback still has to give the Session back.
`overtaken` keeps the interactions of which this is true. `OvertookAClick` says that nothing else gets
the worker past a closer; `NoTurnWhilePending` and `TurnRunsAsSender` hold unless it has happened, for
any number of interactions, messages and clicks (section 6). Once it has, the code keeps neither: the
callback may sleep over the worker's next steps, and the Session it then writes back is an old one. Its
Idle overwrites the Awaiting of the next interaction, beside which a third message then runs a turn, or
its actor gets between the Idle that a superseding message writes and the row this message reads again,
and the turn runs in the name of somebody else. Both need a task to sleep through the HTTP calls of a
whole turn between two SQLite calls: unlikely, but nothing in the code excludes it. They also need three
messages. Outside the runs listed here TLC was given 3 texts, 2 interactions and 1 click: without the
exception it finds both failures (`NoTurnWhilePending` in a trace of 35 steps), with it both properties hold (2.6
million states up to time 2, and 5.1 million with 2 clicks up to time 1). `race` has two messages, and
the worker overtakes a click in it too.

**Fairness** (only in `FairSpec`): every task that can run runs - the event loop starves no
ready task, HTTP calls have timeouts, the LLM loop is bounded by `max_tool_iterations`; the
clock advances and sleeps end; a stopped process is started again. Users owe nothing: no
fairness for messages, clicks, crashes or an orderly stop. In `Outbound` time passes, the next step
of some operation is taken and the limiter's waiters are woken: HTTP requests end by their timeout,
with an error if need be. In `Dispatch` only the turn itself (`Serve`) is fair: the model and the tools
answer or fail. `Grants` states no liveness: whether a user follows a link is hers.

## 5. What the code does not keep

Each is a violation run with a short counterexample.

- **`wedge`** - `README.md` 102-103: closing an interrupt "restores the Session to `Idle`". A
  message's lookup reads `AwaitingInteraction`; a click (or timer) closes the interaction and
  writes `Idle`; the lookup's write-back (`core/session_manager.py` 84) restores
  `AwaitingInteraction`. Nothing is pending, so every later message fails at `main.py` 556
  until the process restarts.
- **`drop`** - `README.md` 116-118: a later message cancels the pending interaction "then
  processes the new message normally". If a click or timer closes it after the message read
  the Session, the handler raises instead. The message was acknowledged when it was
  enqueued.
- **`actor`** - `docs/architecture.md` 361: the responder is the actor. The approved tool runs
  as the actor the `sessions` row names at the click (`core/agent_loop.py` 1038), which a
  message of another group member may have changed.
- **`once`** - `README.md` 84-85: the callback "validates and consumes that state once";
  `infra/store.py` 809: "Atomically consume". The transaction is the connection's: a commit of
  any other task between the `SELECT` and the `DELETE` ends it, a second callback with the same
  nonce then begins its own and finds the row, and the `DELETE` (`infra/store.py` 823) does not
  look at how many rows it removed. Both callbacks go on to exchange their code.
- **`disconnect`** - `README.md` 132: "`/disconnect <service>` revokes a TokenVault grant". A
  refresh under way in a card callback holds the grant over an HTTP call and upserts it
  (`infra/token_vault.py` 131) after the command deleted the row and said so.

## 6. Proofs

`Interactions_proof`, for every value of the constants that satisfies the named assumptions
(bounds are naturals, TTL positive, tasks distinct from each other):

| Theorem | States |
|---|---|
| `TypeCorrect` | `Spec => []TypeOK` |
| `OnlyApproved` | `Spec => []ApprovedByResponder` |
| `AtMostOnce` | `Spec => []RunsAtMostOnce` |
| `NoticeIsTrue` | `Spec => []NoticeExcludesRun` |
| `InTime` | `Spec => []TimedOutInTime` |
| `Refinement` | `Spec => ImplementsConfirmOnce` |

None of the properties is inductive: that a tool ran at most once depends on who may still be
about to run it. The invariant `ClosureInv` adds

- `JobNamed`: at the steps that index a table with the task's interaction, there is one;
- `TaskOK`: a task that passed `Check` holds a request that was valid when checked, a task past
  `Update` has given its row the status of its request, and runs the tool only if that was an
  approval;
- `RowOK`: what a closed row says of its responder, its time, its runs and its notice;
- `Exclusive`: no two tasks are past `Update` for one interaction, and its tool has not run.

`Exclusive` is what the conditional `UPDATE` gives; the rest follows from it. The proof of
`ClosureStep` has one step per action. Most actions are "calm" (they move no task that is
closing anything) and go through one lemma; `CreateInteraction`, `Update`, `CloseOut` and
`ExecuteConfirmedTool` are where the argument is. `NewestIsPending` uses well-founded
induction to show that the row `FindPending` picks exists.

`InteractionTurns_proof` goes on from there, under the same assumptions:

| Theorem | States |
|---|---|
| `Covered` | `Spec => []TimerCovers` |
| `Restored` | `Spec => RecoveryRestores` |
| `OvertakesClicks` | `Spec => []OvertookAClick` |
| `NoTurnBeside` | `Spec => []NoTurnWhilePending` |
| `TurnIsSenders` | `Spec => []TurnRunsAsSender` |

It first reduces every action to what it does to the tasks and the rows (the "effect" lemmas); the
invariants then never look into an action again.

- `Timers`: a timer past its sleep has its own interaction in hand (`TimerOwn`), and an interaction
  the worker is announcing is not overdue and the worker acts as its responder (`Announced`), so that
  withdrawing it is not refused, which would leave it pending without a timer. Recovery starts a timer for
  each pending row, closing one leaves the others alone; that is `TimerCovers`.
- `Met`: once a message has been looked up its Session is in the table, so that recovery finds it.
- `Fresh`, `Clickers`, `Unseen`: a new interaction's identifier is known to nobody before its card is
  shown, and a callback works on an interaction whose card is. So while the worker announces an
  interaction or withdraws it (`Secret`), its timer is not armed, and it is pending or was closed by a
  click of its responder. That gives `OvertookAClick` (`Overtaking`): the withdrawal itself cannot be
  refused (`Announced`), so if it fails, that click was faster (`Withdrawn`).
- `Open`: an interaction holds its Session from its insertion until the task that closed it has
  written the Session back (`Holding`). One holds it at a time, the row says Awaiting meanwhile, and
  the worker is at none of the steps (`Clear`) where it works on a turn. `Sole`: what is being announced
  or withdrawn is the one that holds it. A failed withdrawal ends `Clear`'s wait early; it keeps `Open`
  if the click has already given the Session back, and is what `overtaken` records if not.
- `Sender`: so between the write of a message's sender and the end of its turn nobody else writes an
  actor.
- `Told` puts them together: the first two groups always hold, `Open`, `Sole` and `Sender` as long as
  `overtaken` is empty, and it never shrinks.

`Delivery_proof`, for any conversations, messages, deliveries, worker slots and ends of the process:

| Theorem | States |
|---|---|
| `DeliveryTypes` | `Spec => []TypeOK` |
| `OneTurnPerLife` | `Spec => []TurnsPerLife` |
| `SkippedMeansDone` | `Spec => []SkippedOnlyIfDone` |
| `WorkersAwake` | `Spec => []NoLostWakeup` |
| `StopLosesNothing` | `Spec => []CloseLosesNothing` |
| `InboxesAreSerial` | `Spec => ImplementsSerialQueues` |

`_worker_task` carries the argument: the task it names is the only one of its inbox that runs
(`OneWorker`), although an idle worker clears it before it ends and a callback may start the next
one at once. From it follow, in this order, that a delivery is in one place (`Placed`: in one queue or in one hand;
`Found`: what is queued or active is somewhere), that `unfinished` counts what is in the queue and in the
hand (`Counted`, without which `task_done` would raise and `join` return early), that a claim in
process belongs to the delivery the worker holds (`ClaimsHeld`) and that a message whose claim is not
processed has had no turn in this life, unless it is just being marked (`TurnLeft`). `OwedJoins` says which inboxes a stop still has to
join. `NoLostWakeup` needs nothing but `OneWorker` and the order of the worker's check and its end. For
the refinement a `Put` is an `Accept`, `TakeNext` a `Begin`, `TaskDone` an `End`, the end of the process
`LoseAll`; all other steps stutter.

`Grants_proof`, for every set of users, strands, requests, nonces and requirements:

| Theorem | States |
|---|---|
| `TypesHold` | `Spec => []TypeOK` |
| `GrantsTrace` | `Spec => []GrantTraces` |
| `CredentialsFit` | `Spec => []CredentialFits` |
| `LinksHold` | `Spec => []LinksSurvive` |

`GrantTraces` speaks of the tables, but what is written into them comes out of a task's hands,
and a rollback or a crash brings back what is on disk. The invariant therefore adds `Shape` (what
the step of a task says about its locals) and `Traced` (the vault, the disk, every grant a strand
has read and every grant a request has obtained trace to a sent link). `TracesStay` is the reason
it is inductive: a nonce is asked for once and links are not taken back, so a grant in the hands
of a task goes on tracing, whatever the other tasks do to the tables in the meantime. `LinksHold` adds
`Written`: a strand that has committed its nonce and reads it back finds it only if it is on disk. The
row may be gone by then, by somebody's rollback before the commit; but then it is not found and no
link is sent.

`Client_proof` and `Outbound_proof`, for any operations, tokens and times (`Latency <= Skew` is the one
assumption that is about the world):

| Theorem | States |
|---|---|
| `RetriesAreFresh`, `CallsApplyOnce` | `Spec => []RetryFresh`, `Spec => []AppliedOnce` |
| `FreshTokensStay`, `SendsAreLive` | `Spec => FreshKept`, `Spec => SendsLive` |
| `RepliesAreSpaced` | `OutboundSpec => Spaced` |
| `ClientBehindLimiter`, `RepliesKeepTokens` | `OutboundSpec => Spec`, and so the above for replies |
| `OutboundTypes` | `OutboundSpec => []OutboundTypeOK` |

The token lock carries the argument (`FetchHolds`, `AnswerHeld`): an answer is on its way only while
the operation that asked for it holds the lock and the cache is not fresh, so a fetch cannot
overwrite a fresh token, and a token cannot be dropped while an answer might bring it back
(`NotBack`). `Counted` relates the cache's clock to the server's: an answer is at most `Latency` old,
and the skew takes off more than that. For the limiter, `Cooling` balances the time since the last
reply against what is left to wait; `LinedUp` relates the steps of the replies to the line they wait in.

`Turn_proof` and `Dispatch_proof`, for any capabilities, files, users, arguments and bounds:

| Theorem | States |
|---|---|
| `CallsAreApproved`, `CallsAreAllowed`, `ApprovalsRunOnce` | `Spec => []RanAsApproved`, `[]RanWhereAllowed`, `[]RunsAreFinal` |
| `DispatchTurns`, `DispatchedCalls` | `DispatchSpec => Spec`, and so the above with messages, cards and tokens |
| `CardsAreReadRight` | `DispatchSpec => []DecidedAsPressed` |
| `ConnectingSuffices` | `DispatchSpec => []ConnectCovers` |
| `DispatchTypes` | `DispatchSpec => []DispatchTypeOK` |

The invariant of `Turn` adds that what a turn offers passed the gate for its actor
(`OfferedAllowed`), that the capability which asked has the name on the card and could be found where the
session is (`AskedByName`), that only cards are approved (`ApprovedByCard`) and that a cancelled interaction
stays cancelled (`CancelledStays`). Outside the user's own files the registry does not change
and has one capability of each name, so the name then stands for the capability that asked. Two lemmas do the work: `CallSteps` says that a step has an effect
in two ways only, in its turn without a question or once for an approval, and `AskSteps` that a decided
interaction keeps its state and question. In `Dispatch_proof`, `TokensMatter` shows that looking at the
tokens only narrows what credentials can come to, which makes every step one of `Turn`; `CardReads`
shows for every wrapping of a press that its own fields override what is around them and are found
under their keys; `ServingScopes` says that the union `/connect` asks for covers
every capability it was taken from. `DispatchTypes` is more than types: the link of a suspended call is
found again by the name of the call, so it takes that a turn is offered one capability of each name
(`OfferedByName`, from `TiersAssumption`: a registry is a dictionary, `capabilities/registry.py` 56)
and that a call which has to ask for consent has a first requirement without a token
(`ConsentIsNeeded`, `LinkOfRequirement`).

Out of the prover's reach: liveness (`PendingEnds`, `MessageEnds`, `DeliveryEnds`, `CloseEnds`,
`OperationsEnd`, `TurnsEnd`) and `ENABLED`. Every safety property that a passing run checks is a
theorem.

## 7. Not modelled

- JSON, the SDK's classes, card layout, request bodies and the parsing of answers; prompts and reply
  texts; the LLM's I/O: conversions on which no modelled decision depends, beyond those named above.
- What the history contains and which rows a prompt is given (`core/agent_loop.py` 1099 keeps only
  user and assistant rows, so a row that says an action was cancelled is not among them); identity
  bindings.
- Loading capability files and checking declarations; how a token is handed to a handler; what the
  system tools send, their two-step effects included (a document is created, then filled).
- Audit, metrics, logging (append-only), configuration (read once), the smoke script.
- The Stream reconnect loop: one sequential loop, whose delay doubles and is not reset after a
  connection that lasted.
- Failures of SQLite calls other than in `consume_pending_auth`; the shutdown of the timers.

Behaviour that the models have and no document promises otherwise, so that no property speaks of it:
a refused refresh deletes whatever grant is stored by then; `BEGIN IMMEDIATE` fails, and a callback
is answered 500, while another task has an uncommitted statement; a cancelled consent leaves its
link working; an approval is used up when the token was lost meanwhile; callbacks that enqueue after
their inbox was drained lose the message; a text that is just a slash ends in an error without a reply. An
approval that is checked in time counts although its `UPDATE` may land after `expires_at`
(`core/interrupt.py` 276-281). A timer that wakes too early leaves its interaction open until the next
message or restart.

After a click neither the identity nor the sensitivity of the capability is compared with what asked
(`core/agent_loop.py` 985-1020). So in a one-to-one chat a card of a tool in the user's own directory can,
when the file goes away before the click, run the shipped tool of the same name with the arguments of
the call that asked, even if the one that asked was not sensitive and the shipped one is, although
`README.md` 107-109 has every such tool guarded by the runtime. `RanAsApproved` names this exception
and no other: without it TLC refutes the property under the bounds of `dispatch`, and where no file of the
user's own directory is involved the capability that runs is the one that asked.

## 8. Plan

Done: Interactions, Delivery, Grants, the client and its limiter, the gate, turns, commands, cards.
What is left, in this order:

1. `Store`: failing statements and lost commits for the tables of `Interactions` and `Delivery` on
   the shared connection, under a bound.
2. The message history: what the next prompt contains after a suspension, a cancellation, a deferred run.
