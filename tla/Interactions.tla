---------------------------- MODULE Interactions ----------------------------
(***************************************************************************)
(* One persistent Session of the assistant and its pending interactions.   *)
(*                                                                         *)
(* Three kinds of asyncio task touch the same two SQLite tables, sessions  *)
(* and pending_interactions:                                               *)
(*   - the inbox worker, which handles the Session's messages one by one   *)
(*     (main.handle_inbound_event and everything it calls);                *)
(*   - one task per card callback, started by the DingTalk SDK outside the *)
(*     inbox (AgentLoop.resolve_confirm_callback);                         *)
(*   - one timeout task per interaction (InteractionTimeoutScheduler).     *)
(* A task runs without interruption between two awaits.  Every step below  *)
(* is one store call, or one call of the outside world, together with the  *)
(* code that runs before the next one.  Store calls on different Sessions  *)
(* never meet, so one Session is all there is to model.                    *)
(***************************************************************************)
EXTENDS Naturals, Sequences, FiniteSets

CONSTANTS
  User,             \* DingTalk users who can write to the conversation
  MsgId,            \* inbound messages; bounds their number
  Callback,         \* card-callback tasks; bounds the number of button clicks
  MaxInteractions,  \* bound on the interactions ever opened
  MaxTime,          \* bound on the clock
  MaxCrashes,       \* bound on process crashes
  TTL,              \* expires_at - created_at of an interaction
  Kinds,            \* the kinds of message users send
  Turns,            \* the ways an agent turn can end
  Worker,           \* the inbox worker task
  None              \* no user

Corr == 1 .. MaxInteractions   \* correlation ids, in creation order
NoCorr == 0
Proc == {Worker} \cup Callback \cup Corr   \* interaction c's timer is task c

AllKinds == {"text", "cancel", "connect", "reset", "help", "unsupported"}
AllTurns == {"answer", "fail", "confirm", "consent"}

ASSUME BoundsAssumption ==
  /\ MaxInteractions \in Nat /\ MaxTime \in Nat /\ MaxCrashes \in Nat
  /\ TTL \in Nat \ {0}
ASSUME InputAssumption ==
  Kinds \subseteq AllKinds /\ Turns \subseteq AllTurns
ASSUME TaskAssumption ==
  /\ Worker \notin Callback \cup Nat
  /\ Callback \cap Nat = {}
  /\ None \notin User

VARIABLES
  session,   \* the sessions row: state, pending_interaction context, actor_id
  row,       \* the pending_interactions rows, by correlation id
  cards,     \* interactions whose card DingTalk shows to the conversation
  inbox,     \* messages queued for the Session, oldest first
  outcome,   \* what became of each message
  msg,       \* the message the worker handles
  view,      \* the Session object the worker's handler holds
  pc,        \* the next step of each task
  job,       \* the interaction a task is closing, and how
  snap,      \* the sessions row a task has read and not yet written back
  noticed,   \* interactions closed out with a "not executed" notice
  runs,      \* how often the deferred tool of an interaction ran
  ranAs,     \* the actor in whose name it ran last
  overtaken, \* history: interactions that a click closed before the worker could
             \* withdraw them, and whose callback it overtook
  now,       \* the clock
  up,        \* is the process running?
  crashes    \* crashes so far

rows == <<session, row>>
effects == <<noticed, runs, ranAs>>
history == <<effects, overtaken>>
clock == <<now, up, crashes>>
worker == <<msg, view>>
tasks == <<pc, job, snap>>
vars == <<rows, cards, inbox, outcome, worker, tasks, history, clock>>

NoMsg == [id |-> None, from |-> None, kind |-> "none"]
NoSession == [state |-> "Absent", ctx |-> NoCorr, actor |-> None]
NoJob == [c |-> NoCorr, op |-> "none", by |-> None]
NoRow == [status |-> "absent", kind |-> "none", responder |-> None,
          expires |-> 0, op |-> "none", by |-> None, at |-> 0]

Pending == {c \in Corr : row[c].status = "pending"}

(* get_pending_interaction_for_session: ORDER BY created_at DESC LIMIT 1.  *)
NewestPending ==
  IF Pending = {} THEN NoCorr ELSE CHOOSE c \in Pending : \A d \in Pending : d <= c

Init ==
  /\ session = NoSession
  /\ row = [c \in Corr |-> NoRow]
  /\ cards = {}
  /\ inbox = << >>
  /\ outcome = [m \in MsgId |-> "new"]
  /\ msg = NoMsg
  /\ view = NoSession
  /\ pc = [p \in Proc |-> IF p = Worker THEN "free" ELSE "off"]
  /\ job = [p \in Proc |-> NoJob]
  /\ snap = [p \in Proc |-> NoSession]
  /\ noticed = {}
  /\ runs = [c \in Corr |-> 0]
  /\ ranAs = [c \in Corr |-> None]
  /\ overtaken = {}
  /\ now = 0
  /\ up = TRUE
  /\ crashes = 0

Goto(p, step) == pc' = [pc EXCEPT ![p] = step]

(* A callback or timeout task is over.                                     *)
Finish(p, step) ==
  /\ Goto(p, step)
  /\ job' = [job EXCEPT ![p] = NoJob]
  /\ snap' = [snap EXCEPT ![p] = NoSession]

(* The handler of the current message returns or raises: the claim is      *)
(* marked processed or released, and the worker takes the next message.    *)
EndMessage(result) ==
  /\ outcome' = [outcome EXCEPT ![msg.id] = result]
  /\ msg' = NoMsg
  /\ view' = NoSession
  /\ Finish(Worker, "free")

-----------------------------------------------------------------------------
(* Inbound messages: the queue, routing to the Session, classification.    *)

(* The Stream callback enqueues a triggered message and acknowledges it.   *)
Arrive(m, u, k) ==
  /\ up
  /\ outcome[m] = "new"
  /\ outcome' = [outcome EXCEPT ![m] = "queued"]
  /\ inbox' = Append(inbox, [id |-> m, from |-> u, kind |-> k])
  /\ UNCHANGED <<rows, cards, worker, tasks, history, clock>>

(* The worker takes the head of the queue and claims it.                   *)
Take ==
  /\ pc[Worker] = "free"
  /\ inbox # << >>
  /\ msg' = Head(inbox)
  /\ inbox' = Tail(inbox)
  /\ outcome' = [outcome EXCEPT ![msg'.id] = "active"]
  /\ Goto(Worker, "lookup")
  /\ UNCHANGED <<rows, cards, view, job, snap, history, clock>>

(* get_or_create_for_event reads the row ...                               *)
LookupSession ==
  /\ pc[Worker] = "lookup"
  /\ snap' = [snap EXCEPT ![Worker] = session]
  /\ Goto(Worker, "upsert")
  /\ UNCHANGED <<rows, cards, inbox, outcome, worker, job, history, clock>>

(* Mutant: the sender of the message does not become the Session's actor.  *)
UpsertSessionKeepsActor ==
  /\ pc[Worker] = "upsert"
  /\ session' = IF snap[Worker].state = "Absent"
                THEN [NoSession EXCEPT !.state = "Idle", !.actor = msg.from]
                ELSE snap[Worker]
  /\ Goto(Worker, "reload")
  /\ UNCHANGED <<row, cards, inbox, outcome, worker, job, snap, history, clock>>

(* Mutant: a message starts with a fresh Session.                          *)
UpsertSessionFresh ==
  /\ pc[Worker] = "upsert"
  /\ session' = [NoSession EXCEPT !.state = "Idle", !.actor = msg.from]
  /\ Goto(Worker, "reload")
  /\ UNCHANGED <<row, cards, inbox, outcome, worker, job, snap, history, clock>>

(* ... writes it back, as it was read, with the sender as its actor ...    *)
UpsertSession ==
  /\ pc[Worker] = "upsert"
  /\ session' = [snap[Worker] EXCEPT
                   !.state = IF @ = "Absent" THEN "Idle" ELSE @,
                   !.actor = msg.from]
  /\ Goto(Worker, "reload")
  /\ UNCHANGED <<row, cards, inbox, outcome, worker, job, snap, history, clock>>

(* ... and welcomes a group it has not met.  The welcome may fail to send. *)
WelcomeFails ==
  /\ pc[Worker] = "reload"
  /\ snap[Worker].state = "Absent"
  /\ EndMessage("faulted")
  /\ UNCHANGED <<rows, cards, inbox, history, clock>>

(* Mutant: the whole message is recorded instead of its sender.            *)
CancelRequestMessage(reason) == [NoJob EXCEPT !.op = reason, !.by = msg]

(* The request that cancels whatever is pending, on behalf of msg.from.    *)
CancelRequest(reason) == [NoJob EXCEPT !.op = reason, !.by = msg.from]

(* The route of a message and its handler; s is the Session object the     *)
(* handler holds.  A Session that still awaits an interaction would send   *)
(* even a command to the agent loop, which refuses it.                     *)
Dispatch(s) ==
  LET kind == IF s.state = "AwaitingInteraction" /\ msg.kind # "unsupported"
              THEN "text" ELSE msg.kind
  IN
  /\ view' = s
  /\ \/ /\ kind \in {"unsupported", "help"}
        /\ Goto(Worker, "reply")
        /\ UNCHANGED job
     \/ /\ kind = "cancel"
        /\ job' = [job EXCEPT ![Worker] = CancelRequest("command_cancelled")]
        /\ Goto(Worker, "find")
     \/ /\ kind \in {"connect", "reset"}
        /\ Goto(Worker, kind)
        /\ UNCHANGED job
     \/ /\ kind = "text"
        /\ Goto(Worker, "run")
        /\ UNCHANGED job
  /\ snap' = [snap EXCEPT ![Worker] = NoSession]
  /\ UNCHANGED <<rows, cards, inbox, outcome, msg, history, clock>>

(* ... and reads the stored row again: the Session the message is routed   *)
(* to.  AwaitingInteraction comes before every other route.                *)
Route ==
  /\ pc[Worker] = "reload"
  /\ LET s == [session EXCEPT !.actor = msg.from] IN
       IF s.state = "AwaitingInteraction"
       THEN /\ view' = s
            /\ job' = [job EXCEPT ![Worker] = CancelRequest(
                         IF msg.kind = "cancel" THEN "command_cancelled"
                         ELSE "superseded_by_new_message")]
            /\ Goto(Worker, "find")
            /\ snap' = [snap EXCEPT ![Worker] = NoSession]
            /\ UNCHANGED <<rows, cards, inbox, outcome, msg, history, clock>>
       ELSE Dispatch(s)

-----------------------------------------------------------------------------
(* Closing an interaction: SessionInterruptManager.resolve and .cancel,    *)
(* run by the worker, by card callbacks and by timeout tasks alike.        *)

(* The operations that only the responder may perform, and only in time.   *)
Strict == {"approved", "user_cancelled", "card_send_failed"}

(* Somebody closed c and has not given the Session back yet.               *)
Returning(c) == \E p \in Proc : pc[p] \in {"readSession", "writeIdle"} /\ job[p].c = c

(* The closing task gives up: the error ends a callback or timeout task,   *)
(* and in the worker it ends the message (commands and superseding) or the *)
(* agent turn (a card that could not be sent), which may overtake the      *)
(* callback that was faster.                                               *)
GiveUp(p) ==
  \/ /\ p # Worker
     /\ Finish(p, IF p \in Corr THEN "off" ELSE "done")
     /\ UNCHANGED <<outcome, worker, overtaken>>
  \/ /\ p = Worker /\ job[p].op = "card_send_failed"
     /\ Finish(p, "abort")
     /\ overtaken' = overtaken \cup {c \in {job[p].c} : Returning(c)}
     /\ UNCHANGED <<outcome, worker>>
  \/ /\ p = Worker /\ job[p].op # "card_send_failed"
     /\ EndMessage("rejected")
     /\ UNCHANGED overtaken

(* The user presses a button of a card; the callback task reads the row    *)
(* and stops at once when the interaction is no longer pending.            *)
CardCallback(k, c, u, op) ==
  /\ up
  /\ pc[k] = "off" /\ c \in cards
  /\ op \in {"approved", "user_cancelled"}
  /\ IF row[c].status = "pending" /\ row[c].kind = "confirm"
     THEN /\ job' = [job EXCEPT ![k] = [c |-> c, op |-> op, by |-> u]]
          /\ Goto(k, "check")
     ELSE /\ Goto(k, "done")
          /\ UNCHANGED job
  /\ UNCHANGED <<rows, cards, inbox, outcome, worker, snap, history, clock>>

(* Mutant: a timeout is taken at its word.                                 *)
TooEarlyNever(c) == row[c].status = "absent"

(* A timeout task looks at the wall clock before it closes anything.       *)
TooEarly(c) == now < row[c].expires

(* The timeout task wakes.  It slept on another clock than the one that    *)
(* expires_at is read from, so it may wake at any time; if that is too     *)
(* early it is over, and only a restart arms another one.  A row that is   *)
(* no longer pending is left alone.                                        *)
TimerFires(c) ==
  /\ pc[c] = "armed"
  /\ \/ /\ row[c].status = "pending" /\ ~TooEarly(c)
        /\ job' = [job EXCEPT ![c] = [NoJob EXCEPT !.c = c, !.op = "timeout"]]
        /\ Goto(c, "check")
     \/ /\ row[c].status = "pending" /\ TooEarly(c)
        /\ Goto(c, "early")
        /\ UNCHANGED job
     \/ /\ row[c].status # "pending"
        /\ Goto(c, "off")
        /\ UNCHANGED job
  /\ UNCHANGED <<rows, cards, inbox, outcome, worker, snap, history, clock>>

(* Mutant: with nothing to cancel the handler waits for an interaction.    *)
FindPendingWaits ==
  /\ pc[Worker] = "find" /\ Pending # {}
  /\ job' = [job EXCEPT ![Worker].c = NewestPending]
  /\ Goto(Worker, "check")
  /\ UNCHANGED <<rows, cards, inbox, outcome, worker, snap, history, clock>>

(* The worker looks up the interaction to cancel.  Nothing to cancel is a  *)
(* reply to /cancel and an error for a superseding message.  An overdue    *)
(* interaction is cancelled as timed out, whatever was asked.              *)
FindPending ==
  /\ pc[Worker] = "find"
  /\ \/ /\ Pending # {}
        /\ job' = [job EXCEPT ![Worker] = [@ EXCEPT
                     !.c = NewestPending,
                     !.op = IF now > row[NewestPending].expires THEN "timeout"
                            ELSE job[Worker].op]]
        /\ Goto(Worker, "check")
        /\ UNCHANGED <<outcome, worker, snap>>
     \/ /\ Pending = {} /\ job[Worker].op = "command_cancelled"
        /\ Finish(Worker, "reply")
        /\ UNCHANGED <<outcome, worker>>
     \/ /\ Pending = {} /\ job[Worker].op # "command_cancelled"
        /\ EndMessage("rejected")
  /\ UNCHANGED <<rows, cards, inbox, history, clock>>

(* Mutant: anyone in the conversation may answer.                          *)
MayCloseAnyone(p) ==
  LET r == row[job[p].c] IN
  r.status = "pending" /\ (job[p].op \in Strict => now <= r.expires)

(* resolve and cancel read the row and validate the request: the row is    *)
(* pending and, for a strict operation, the responder answers by expiry.   *)
MayClose(p) ==
  LET r == row[job[p].c] IN
  /\ r.status = "pending"
  /\ job[p].op \in Strict => job[p].by = r.responder /\ now <= r.expires

Check(p) ==
  /\ pc[p] = "check"
  /\ \/ /\ MayClose(p)
        /\ Goto(p, "update")
        /\ UNCHANGED <<outcome, worker, job, snap, overtaken>>
     \/ /\ ~MayClose(p)
        /\ GiveUp(p)
  /\ UNCHANGED <<rows, cards, inbox, effects, clock>>

TerminalStatus(op) == IF op = "approved" THEN "resolved" ELSE "cancelled"

(* Mutant: UPDATE without AND status = 'pending'.                          *)
StillPendingAlways(c) == c \in Corr

(* The WHERE clause: status = 'pending'.                                   *)
StillPending(c) == row[c].status = "pending"

(* resolve_pending_interaction, a conditional UPDATE: the task that        *)
(* changes the row wins, any other gets a StoreError.                      *)
Update(p) ==
  /\ pc[p] = "update"
  /\ LET c == job[p].c IN
     \/ /\ StillPending(c)
        /\ row' = [row EXCEPT ![c] = [@ EXCEPT
                     !.status = TerminalStatus(job[p].op),
                     !.op = job[p].op, !.by = job[p].by, !.at = now]]
        /\ Goto(p, "readSession")
        /\ UNCHANGED <<outcome, worker, job, snap, overtaken>>
     \/ /\ ~StillPending(c)
        /\ GiveUp(p)
        /\ UNCHANGED row
  /\ UNCHANGED <<session, cards, inbox, effects, clock>>

ReadSession(p) ==
  /\ pc[p] = "readSession"
  /\ snap' = [snap EXCEPT ![p] = session]
  /\ Goto(p, "writeIdle")
  /\ UNCHANGED <<rows, cards, inbox, outcome, worker, job, history, clock>>

(* The row that was read goes back as Idle, without pending_interaction.   *)
WriteIdle(p) ==
  /\ pc[p] = "writeIdle"
  /\ session' = [snap[p] EXCEPT !.state = "Idle", !.ctx = NoCorr]
  /\ snap' = [snap EXCEPT ![p] = NoSession]
  /\ Goto(p, CASE job[p].op = "approved" -> "execute"
               [] job[p].op = "user_cancelled" -> "done"
               [] job[p].op = "card_send_failed" -> "abort"
               [] OTHER -> "closeOut")
  /\ job' = IF job[p].op \in {"user_cancelled", "card_send_failed"}
            THEN [job EXCEPT ![p] = NoJob] ELSE job
  /\ UNCHANGED <<row, cards, inbox, outcome, worker, history, clock>>

(* The notice "... not executed" is persisted; a timeout task then sends   *)
(* it and is over.                                                         *)
CloseOut(p) ==
  /\ pc[p] = "closeOut"
  /\ noticed' = noticed \cup {job[p].c}
  /\ Finish(p, IF p = Worker THEN "restored" ELSE "off")
  /\ UNCHANGED <<rows, cards, inbox, outcome, worker, runs, ranAs, overtaken, clock>>

(* The worker reads the Session again.  /cancel answers with the notice; a *)
(* superseding message goes on as the actor the stored row names.          *)
Restore ==
  /\ pc[Worker] = "restored"
  /\ view' = session
  /\ Goto(Worker, IF msg.kind = "cancel" THEN "reply" ELSE "notify")
  /\ UNCHANGED <<rows, cards, inbox, outcome, msg, job, snap, history, clock>>

(* The cancellation notice is sent, then the message is classified anew.   *)
Notify ==
  /\ pc[Worker] = "notify"
  /\ \/ Dispatch(view)
     \/ /\ EndMessage("faulted")
        /\ UNCHANGED <<rows, cards, inbox, history, clock>>

(* The approved tool runs, as the actor the sessions row names now, unless *)
(* the tool or its credentials are gone (the error ends the callback).     *)
ExecuteConfirmedTool(p) ==
  /\ pc[p] = "execute"
  /\ \/ /\ runs' = [runs EXCEPT ![job[p].c] = @ + 1]
        /\ ranAs' = [ranAs EXCEPT ![job[p].c] = session.actor]
     \/ UNCHANGED <<runs, ranAs>>
  /\ Finish(p, "done")
  /\ UNCHANGED <<rows, cards, inbox, outcome, worker, noticed, overtaken, clock>>

-----------------------------------------------------------------------------
(* The agent turn and the commands that touch the Session.                 *)

(* AgentLoop.run: _ensure_idle, then the Session is marked RunningAgent.   *)
StartRun ==
  /\ pc[Worker] = "run"
  /\ IF view.state = "Idle"
     THEN /\ session' = [view EXCEPT !.state = "RunningAgent"]
          /\ Goto(Worker, "think")
          /\ UNCHANGED <<outcome, worker, job, snap>>
     ELSE /\ EndMessage("rejected")
          /\ UNCHANGED session
  /\ UNCHANGED <<row, cards, inbox, history, clock>>

(* The model's bound on interactions: another one fits MaxInteractions and *)
(* expires by MaxTime.                                                     *)
RoomForInteraction ==
  now + TTL <= MaxTime /\ \E c \in Corr : row[c].status = "absent"

(* The model answers or fails, or one of its tool calls needs the user.    *)
Think(turn) ==
  /\ pc[Worker] = "think"
  /\ \/ /\ turn = "answer" /\ Goto(Worker, "finish")
        /\ UNCHANGED job
     \/ /\ turn = "fail" /\ Goto(Worker, "abort")
        /\ UNCHANGED job
     \/ /\ turn \in {"confirm", "consent"} /\ RoomForInteraction
        /\ Goto(Worker, "create")
        /\ job' = [job EXCEPT ![Worker].op = turn]
  /\ UNCHANGED <<rows, cards, inbox, outcome, worker, snap, history, clock>>

(* /connect: the Authorizer grants or denies, or asks for consent.         *)
Connect ==
  /\ pc[Worker] = "connect"
  /\ \/ /\ Goto(Worker, "reply")
        /\ UNCHANGED job
     \/ /\ RoomForInteraction
        /\ Goto(Worker, "create")
        /\ job' = [job EXCEPT ![Worker].op = "consent"]
  /\ UNCHANGED <<rows, cards, inbox, outcome, worker, snap, history, clock>>

(* SessionInterruptManager.create inserts the pending row ...              *)
CreateInteraction(c) ==
  /\ pc[Worker] = "create"
  /\ row[c].status = "absent" /\ \A d \in 1 .. (c - 1) : row[d].status # "absent"
  /\ row' = [row EXCEPT ![c] = [NoRow EXCEPT
               !.status = "pending", !.kind = job[Worker].op,
               !.responder = view.actor, !.expires = now + TTL]]
  /\ job' = [job EXCEPT ![Worker].c = c]
  /\ Goto(Worker, "await")
  /\ UNCHANGED <<session, cards, inbox, outcome, worker, snap, history, clock>>

(* ... and moves the Session, as the handler holds it, to Awaiting.        *)
AwaitInteraction ==
  /\ pc[Worker] = "await"
  /\ session' = [view EXCEPT !.state = "AwaitingInteraction", !.ctx = job[Worker].c]
  /\ Goto(Worker, IF job[Worker].op = "confirm" THEN "sendCard" ELSE "arm")
  /\ UNCHANGED <<row, cards, inbox, outcome, worker, job, snap, history, clock>>

(* The confirm card is delivered, or sending it raises and the interaction *)
(* is cancelled.  The call may raise (a lost response) although DingTalk   *)
(* shows the card.                                                         *)
SendCard ==
  /\ pc[Worker] = "sendCard"
  /\ \/ /\ cards' = cards \cup {job[Worker].c}
        /\ Goto(Worker, "arm")
        /\ UNCHANGED job
     \/ /\ \/ UNCHANGED cards
           \/ cards' = cards \cup {job[Worker].c}
        /\ job' = [job EXCEPT ![Worker] =
                     [@ EXCEPT !.op = "card_send_failed", !.by = view.actor]]
        /\ Goto(Worker, "check")
  /\ UNCHANGED <<rows, inbox, outcome, worker, snap, history, clock>>

(* Mutant: the turn is suspended without a timeout task.                   *)
ArmTimerForgets ==
  /\ pc[Worker] = "arm"
  /\ Goto(Worker, "reply")
  /\ job' = [job EXCEPT ![Worker] = NoJob]
  /\ UNCHANGED <<rows, cards, inbox, outcome, worker, snap, history, clock>>

(* The suspended turn returns and its timeout task is scheduled.           *)
ArmTimer ==
  /\ pc[Worker] = "arm"
  /\ pc' = [pc EXCEPT ![Worker] = "reply", ![job[Worker].c] = "armed"]
  /\ job' = [job EXCEPT ![Worker] = NoJob]
  /\ UNCHANGED <<rows, cards, inbox, outcome, worker, snap, history, clock>>

(* The finally clause of a turn that is not suspended: the Session as the  *)
(* turn found it, Idle.  An aborted turn ends the message with its error.  *)
FinishRun ==
  /\ pc[Worker] \in {"finish", "abort"}
  /\ session' = [view EXCEPT !.state = "Idle"]
  /\ \/ /\ pc[Worker] = "finish"
        /\ Goto(Worker, "reply")
        /\ UNCHANGED <<outcome, worker, job, snap>>
     \/ /\ pc[Worker] = "abort"
        /\ EndMessage("faulted")
  /\ UNCHANGED <<row, cards, inbox, history, clock>>

(* /reset: _reset_context keeps no pending_interaction.                    *)
Reset ==
  /\ pc[Worker] = "reset"
  /\ session' = [view EXCEPT !.state = "Idle", !.ctx = NoCorr]
  /\ Goto(Worker, "reply")
  /\ UNCHANGED <<row, cards, inbox, outcome, worker, job, snap, history, clock>>

(* The reply reaches DingTalk, or sending it raises.                       *)
Reply(result) ==
  /\ pc[Worker] = "reply"
  /\ result \in {"processed", "faulted"}
  /\ EndMessage(result)
  /\ UNCHANGED <<rows, cards, inbox, history, clock>>

-----------------------------------------------------------------------------
(* Time, crashes and recovery.                                             *)

(* Sending a card takes less than the life of the interaction: the HTTP    *)
(* timeouts are seconds, confirm_timeout_sec half an hour.                 *)
Announcing == pc[Worker] \in {"await", "sendCard", "arm"} \/ job[Worker].op = "card_send_failed"

Tick ==
  /\ now < MaxTime
  /\ Announcing => now < row[job[Worker].c].expires
  /\ pc[Worker] = "create" => now + TTL < MaxTime   \* keeps RoomForInteraction
  /\ now' = now + 1
  /\ UNCHANGED <<rows, cards, inbox, outcome, worker, tasks, history, up, crashes>>

(* The process dies: tasks, queue and timers are gone, the database stays. *)
Crash ==
  /\ up /\ crashes < MaxCrashes
  /\ up' = FALSE /\ crashes' = crashes + 1
  /\ inbox' = << >>
  /\ outcome' = [m \in MsgId |-> IF outcome[m] \in {"queued", "active"}
                                 THEN "lost" ELSE outcome[m]]
  /\ msg' = NoMsg /\ view' = NoSession
  /\ pc' = [p \in Proc |-> IF p = Worker THEN "free"
                           ELSE IF p \in Corr \/ pc[p] = "off" THEN "off" ELSE "done"]
  /\ job' = [p \in Proc |-> NoJob]
  /\ snap' = [p \in Proc |-> NoSession]
  /\ UNCHANGED <<rows, cards, history, now>>

(* Mutant: only an interrupted agent turn is normalized.                   *)
RecoveredSessionRunning ==
  IF session.state = "RunningAgent" /\ Pending = {}
  THEN [session EXCEPT !.state = "Idle", !.ctx = NoCorr] ELSE session

(* recover_persisted_session_state: the state and context a Session        *)
(* restarts with.                                                          *)
RecoveredSession ==
  IF session.state = "Absent" THEN session
  ELSE IF Pending # {}
  THEN [session EXCEPT !.state = "AwaitingInteraction", !.ctx = NewestPending]
  ELSE [session EXCEPT !.state = "Idle", !.ctx = NoCorr]

(* Mutant: no timers after a restart.                                      *)
RecoverWithoutTimers ==
  /\ ~up
  /\ up' = TRUE
  /\ session' = RecoveredSession
  /\ UNCHANGED <<row, cards, inbox, outcome, worker, tasks, history, now, crashes>>

(* Startup, before any other task runs: the Session is normalized, then    *)
(* schedule_persisted_interaction_timeouts arms a timer per pending row.   *)
Recover ==
  /\ ~up
  /\ up' = TRUE
  /\ session' = RecoveredSession
  /\ pc' = [p \in Proc |-> IF p \in Pending THEN "armed" ELSE pc[p]]
  /\ UNCHANGED <<row, cards, inbox, outcome, worker, job, snap, history, now, crashes>>

-----------------------------------------------------------------------------
WorkerStep ==
  \/ Take \/ LookupSession \/ UpsertSession \/ WelcomeFails \/ Route \/ FindPending
  \/ Restore \/ Notify \/ StartRun \/ (\E t \in Turns : Think(t)) \/ Connect
  \/ (\E c \in Corr : CreateInteraction(c)) \/ AwaitInteraction \/ SendCard
  \/ ArmTimer \/ FinishRun \/ Reset
  \/ \E r \in {"processed", "faulted"} : Reply(r)

CloseStep(p) ==
  \/ Check(p) \/ Update(p) \/ ReadSession(p) \/ WriteIdle(p) \/ CloseOut(p)

Environment ==
  \/ \E m \in MsgId, u \in User, k \in Kinds : Arrive(m, u, k)
  \/ \E k \in Callback, c \in Corr, u \in User, op \in {"approved", "user_cancelled"} :
       CardCallback(k, c, u, op)
  \/ Tick \/ Crash \/ Recover

Step ==
  \/ WorkerStep
  \/ \E p \in Proc : CloseStep(p)
  \/ \E k \in Callback : ExecuteConfirmedTool(k)
  \/ \E c \in Corr : TimerFires(c)
  \/ Environment

(* Nothing to do: no message, no running task, no armed timer.  Any other  *)
(* state without a successor is a deadlock.                                *)
Rest ==
  /\ up /\ pc[Worker] = "free" /\ inbox = << >>
  /\ \A k \in Callback : pc[k] \in {"off", "done"}
  /\ \A c \in Corr : pc[c] \in {"off", "early"}
  /\ UNCHANGED vars

Next == Step \/ Rest

Spec == Init /\ [][Next]_vars

(* The event loop runs every ready task, timers fire, and the process is   *)
(* restarted after a crash.  Users owe nothing: they may never write, and  *)
(* never press a button.                                                   *)
Fairness ==
  /\ WF_vars(WorkerStep)
  /\ \A p \in Proc : WF_vars(CloseStep(p))
  /\ \A k \in Callback : WF_vars(ExecuteConfirmedTool(k))
  /\ \A c \in Corr : WF_vars(TimerFires(c))
  /\ WF_vars(Tick) /\ WF_vars(Recover)

FairSpec == Spec /\ Fairness

-----------------------------------------------------------------------------
Status == {"absent", "pending", "resolved", "cancelled"}
Ops == {"none", "confirm", "consent", "approved", "user_cancelled", "card_send_failed",
        "command_cancelled", "superseded_by_new_message", "timeout"}
States == {"Absent", "Idle", "RunningAgent", "AwaitingInteraction"}
Steps == {"free", "lookup", "upsert", "reload", "find", "check", "update", "readSession",
          "writeIdle", "closeOut", "restored", "notify", "execute", "run", "think", "connect",
          "create", "await", "sendCard", "arm", "finish", "abort", "reset", "reply",
          "off", "armed", "early", "done"}
Outcomes == {"new", "queued", "active", "processed", "faulted", "rejected", "lost"}
Message == [id : MsgId \cup {None}, from : User \cup {None}, kind : AllKinds \cup {"none"}]
SessionRow == [state : States, ctx : Corr \cup {NoCorr}, actor : User \cup {None}]
Row == [status : Status, kind : Ops, responder : User \cup {None},
        expires : Nat, op : Ops, by : User \cup {None}, at : Nat]
Job == [c : Corr \cup {NoCorr}, op : Ops, by : User \cup {None}]

(* Every variable has its type.                                            *)
TypeOK ==
  /\ session \in SessionRow
  /\ row \in [Corr -> Row]
  /\ cards \subseteq Corr
  /\ inbox \in Seq(Message)
  /\ outcome \in [MsgId -> Outcomes]
  /\ msg \in Message
  /\ view \in SessionRow
  /\ pc \in [Proc -> Steps]
  /\ job \in [Proc -> Job]
  /\ snap \in [Proc -> SessionRow]
  /\ noticed \subseteq Corr
  /\ runs \in [Corr -> Nat]
  /\ ranAs \in [Corr -> User \cup {None}]
  /\ overtaken \subseteq Corr
  /\ now \in Nat
  /\ up \in BOOLEAN
  /\ crashes \in Nat

-----------------------------------------------------------------------------
(* Properties.                                                             *)

(* A deferred tool runs only after its responder approved it: not on       *)
(* somebody else's click in a group, not after a cancellation.             *)
(* (resolve_confirm_callback, SessionInterrupt.resolve)                    *)
ApprovedByResponder ==
  \A c \in Corr : runs[c] > 0 => row[c].status = "resolved" /\ row[c].by = row[c].responder

(* However many clicks, timeouts and superseding messages race, the tool   *)
(* of one interaction runs at most once. (the conditional UPDATE)          *)
RunsAtMostOnce == \A c \in Corr : runs[c] <= 1

(* Once the conversation was told that the action was not executed, it has *)
(* not been executed and never will be. (docs/architecture.md, 8.4b)       *)
NoticeExcludesRun == \A c \in noticed : runs[c] = 0 /\ row[c].status = "cancelled"

(* Nobody is told "timed out" while the answer was still in time: whoever  *)
(* closes an interaction as timed out, a timer that woke on a clock set    *)
(* back or a message, the UPDATE lands at its expiry or later.             *)
(* (_cancel_pending_interaction_record, _effective_cancellation_reason)    *)
TimedOutInTime ==
  \A c \in Corr : row[c].op = "timeout" => row[c].at >= row[c].expires

(* The worker fails to withdraw an interaction whose card could not be     *)
(* sent, and overtakes whoever closed it, only if DingTalk shows the card  *)
(* all the same and its responder has pressed a button: no timer, message  *)
(* or expiry gets in between. (run, send_confirm_card)                     *)
OvertookAClick ==
  \A c \in overtaken :
    c \in cards /\ row[c].op \in {"approved", "user_cancelled"} /\ row[c].by = row[c].responder

(* The agent never works on a turn while an interaction of its Session     *)
(* waits for an answer, so two are never open at once (main.py's routing), *)
(* unless it overtook a callback: that one may sleep over a turn and write *)
(* Idle over the Awaiting of the next interaction.                         *)
NoTurnWhilePending ==
  pc[Worker] \in {"run", "think", "finish", "connect"} /\ overtaken = {} => Pending = {}

(* A turn runs, and asks for confirmation, in the name of the sender of    *)
(* its message, also when the message superseded another user's            *)
(* interaction and the Session was read again from the table; with the     *)
(* same exception: an overtaken callback may write an old actor between    *)
(* the worker's own write of Idle and its reading.                         *)
TurnRunsAsSender ==
  pc[Worker] \in {"run", "think", "connect", "create"} /\ overtaken = {} =>
    view.actor = msg.from

(* While the process runs, every pending interaction has a timeout task,   *)
(* or the worker is about to schedule one, or the interaction is being     *)
(* withdrawn because its card could not be sent; only a timer that woke    *)
(* too early ("early") is gone for good.                                   *)
TimerCovers ==
  up => \A c \in Pending : pc[c] # "off" \/ (Announcing /\ job[Worker].c = c)

(* A restart leaves the Session awaiting exactly an interaction that is    *)
(* still pending, or Idle with no pending context when there is none.      *)
RecoveryRestores ==
  [][~up /\ up' =>
       \/ session' = NoSession
       \/ session'.state = "Idle" /\ session'.ctx = NoCorr /\ Pending = {}
       \/ session'.state = "AwaitingInteraction" /\ session'.ctx \in Pending]_vars

(* Every interaction is eventually closed, by an answer or its timeout,    *)
(* also across a crash, unless its timer woke too early.                   *)
PendingEnds == \A c \in Corr : c \in Pending ~> c \notin Pending \/ pc[c] = "early"

(* Every queued message is eventually handled or lost in a crash: no       *)
(* interaction, failure or race holds up the queue.                        *)
MessageEnds ==
  \A m \in MsgId : outcome[m] = "queued" ~> outcome[m] \notin {"queued", "active"}

(* Claimed by README.md, violated: closing an interaction restores the     *)
(* Session to Idle.  When no task is closing or handling anything, a       *)
(* Session that awaits an interaction has one.                             *)
Quiet == pc[Worker] = "free" /\ \A p \in Callback \cup Corr : pc[p] \in {"off", "armed", "early", "done"}
AwaitingHasPending ==
  up /\ Quiet /\ session.state = "AwaitingInteraction" => Pending # {}

(* Claimed by README.md, violated: a message that arrives while an         *)
(* interaction is open cancels it and is then processed normally; the      *)
(* handler never fails on the state of the Session itself.                 *)
NeverRejected == \A m \in MsgId : outcome[m] # "rejected"

(* Claimed by docs/architecture.md, violated: the responder is the actor   *)
(* in whose name the confirmed tool runs.                                  *)
RunsAsResponder == \A c \in Corr : runs[c] > 0 => ranAs[c] = row[c].responder

(* What the interactions promise (ConfirmOnce), implemented.               *)
Once == INSTANCE ConfirmOnce WITH
  phase <- [c \in Corr |-> row[c].status], ran <- runs, told <- noticed
ImplementsConfirmOnce == Once!Spec
=============================================================================
