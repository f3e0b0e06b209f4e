------------------------------ MODULE Delivery ------------------------------
(***************************************************************************)
(* How an inbound message reaches its handler, and how often.              *)
(*                                                                         *)
(* DingTalk may deliver a message more than once; each delivery is a       *)
(* callback task of the Stream SDK.  It appends the message to the inbox   *)
(* of its conversation, makes sure that the inbox has a worker task, and   *)
(* acknowledges (SessionInboxDispatcher.enqueue).  The worker claims the   *)
(* message in SQLite, runs the handler, and marks the claim processed or   *)
(* releases it (main.handle_inbound_event).  The process may crash, or be  *)
(* stopped, in which case it drains the inboxes it knows; at the next      *)
(* start stale claims are released.                                        *)
(*                                                                         *)
(* The inbox's lock is held over no await, so what it guards is one step.  *)
(* What the handler does to the Session is the subject of Interactions.    *)
(***************************************************************************)
EXTENDS Naturals, Sequences, FiniteSets

CONSTANTS
  Conv,          \* conversations
  MsgId,         \* messages
  Home,          \* the conversation of each message
  Callback,      \* callback tasks; bounds the number of deliveries
  Slot,          \* the worker tasks an inbox could have at a time
  NoTask,        \* no worker task
  NoCallback,    \* no delivery
  MaxEnds        \* bound on the ends of the process

ASSUME DeliveryAssumption ==
  /\ Home \in [MsgId -> Conv]
  /\ NoTask \notin Slot
  /\ NoCallback \notin Callback
  /\ MaxEnds \in Nat

VARIABLES
  pc,          \* the next step of each callback task
  carries,     \* the message a callback delivers
  known,       \* conversations that have an inbox
  queue,       \* the deliveries in each inbox, oldest first
  unfinished,  \* asyncio.Queue's count of unfinished tasks, which join awaits
  current,     \* SessionInbox._worker_task
  at,          \* the next step of each worker task
  holds,       \* the delivery a worker task handles
  claims,      \* the inbound_messages rows, by message
  fate,        \* what became of each delivery
  turns,       \* how often the handler of a message succeeded
  phase,       \* is the process open, closing its inboxes, or down?
  closing,     \* where SessionInbox.close is, by conversation
  owed,        \* deliveries that were accepted when the process began to close
  ends         \* ends of the process so far

callbacks == <<pc, carries>>
inboxes == <<known, queue, unfinished, current>>
workers == <<at, holds>>
shutdown == <<phase, closing, owed, ends>>
vars == <<callbacks, inboxes, workers, claims, fate, turns, shutdown>>

Task == Conv \X Slot
Message(k) == carries[k]
Unsettled == {k \in Callback : fate[k] \in {"queued", "active"}}

Init ==
  /\ pc = [k \in Callback |-> "off"]
  /\ carries \in [Callback -> MsgId]
  /\ known = {}
  /\ queue = [c \in Conv |-> << >>]
  /\ unfinished = [c \in Conv |-> 0]
  /\ current = [c \in Conv |-> NoTask]
  /\ at = [t \in Task |-> "off"]
  /\ holds = [t \in Task |-> NoCallback]
  /\ claims = [m \in MsgId |-> "absent"]
  /\ fate = [k \in Callback |-> "none"]
  /\ turns = [m \in MsgId |-> 0]
  /\ phase = "open"
  /\ closing = [c \in Conv |-> "no"]
  /\ owed = {}
  /\ ends = 0

-----------------------------------------------------------------------------
(* A delivery: SessionInboxDispatcher.enqueue and SessionInbox.enqueue.    *)

Receive(k) ==
  /\ phase = "open"
  /\ pc[k] = "off"
  /\ pc' = [pc EXCEPT ![k] = "get"]
  /\ UNCHANGED <<carries, inboxes, workers, claims, fate, turns, shutdown>>

GetOrCreateInbox(k) ==
  /\ pc[k] = "get"
  /\ known' = known \cup {Home[Message(k)]}
  /\ pc' = [pc EXCEPT ![k] = "put"]
  /\ UNCHANGED <<carries, queue, unfinished, current, workers, claims, fate, turns, shutdown>>

Put(k) ==
  /\ pc[k] = "put"
  /\ LET c == Home[Message(k)] IN
       /\ queue' = [queue EXCEPT ![c] = Append(@, k)]
       /\ unfinished' = [unfinished EXCEPT ![c] = @ + 1]
  /\ fate' = [fate EXCEPT ![k] = "queued"]
  /\ pc' = [pc EXCEPT ![k] = "ensure"]
  /\ UNCHANGED <<carries, known, current, workers, claims, turns, shutdown>>

(* Mutant: a worker is started for every event.                            *)
NeedsWorkerAlways(c) == c \in Conv

NeedsWorker(c) == current[c] = NoTask

EnsureWorker(k) ==
  /\ pc[k] = "ensure"
  /\ LET c == Home[Message(k)] IN
     \/ /\ NeedsWorker(c)
        /\ \E s \in Slot :
             /\ at[<<c, s>>] = "off"
             /\ current' = [current EXCEPT ![c] = s]
             /\ at' = [at EXCEPT ![<<c, s>>] = "loop"]
     \/ /\ ~NeedsWorker(c)
        /\ UNCHANGED <<current, at>>
  /\ pc' = [pc EXCEPT ![k] = "acked"]
  /\ UNCHANGED <<carries, known, queue, unfinished, holds, claims, fate, turns, shutdown>>

-----------------------------------------------------------------------------
(* The worker task: SessionInbox._run, with handle_inbound_event.          *)

TakeNext(t) ==
  /\ at[t] = "loop"
  /\ LET c == t[1] IN
     \/ /\ queue[c] # << >>
        /\ holds' = [holds EXCEPT ![t] = Head(queue[c])]
        /\ queue' = [queue EXCEPT ![c] = Tail(@)]
        /\ fate' = [fate EXCEPT ![Head(queue[c])] = "active"]
        /\ at' = [at EXCEPT ![t] = "claim"]
     \/ /\ queue[c] = << >>
        /\ at' = [at EXCEPT ![t] = "empty"]
        /\ UNCHANGED <<queue, holds, fate>>
  /\ UNCHANGED <<callbacks, known, unfinished, current, claims, turns, shutdown>>

(* Mutant: the worker retires without looking at the queue again.          *)
MayRetireBlindly(c) == c \in Conv

MayRetire(c) == queue[c] = << >>

(* _mark_idle_when_empty: an event put meanwhile keeps the worker.         *)
MarkIdleWhenEmpty(t) ==
  /\ at[t] = "empty"
  /\ \/ /\ MayRetire(t[1])
        /\ current' = [current EXCEPT ![t[1]] = NoTask]
        /\ at' = [at EXCEPT ![t] = "off"]
     \/ /\ ~MayRetire(t[1])
        /\ at' = [at EXCEPT ![t] = "loop"]
        /\ UNCHANGED current
  /\ UNCHANGED <<callbacks, known, queue, unfinished, holds, claims, fate, turns, shutdown>>

(* Mutant: INSERT OR REPLACE, so that every claim succeeds.                *)
UnclaimedAlways(m) == m \in MsgId

(* INSERT OR IGNORE inserts a row when there is none.                      *)
Unclaimed(m) == claims[m] = "absent"

(* Mutant: task_done is called by the error path and again in finally.     *)
TaskDoneTwice(t, result) ==
  /\ fate' = [fate EXCEPT ![holds[t]] = result]
  /\ holds' = [holds EXCEPT ![t] = NoCallback]
  /\ unfinished' = [unfinished EXCEPT ![t[1]] = @ - (IF result = "failed" THEN 2 ELSE 1)]
  /\ at' = [at EXCEPT ![t] = "loop"]

(* The end of _process: task_done in its finally clause.                   *)
TaskDone(t, result) ==
  /\ fate' = [fate EXCEPT ![holds[t]] = result]
  /\ holds' = [holds EXCEPT ![t] = NoCallback]
  /\ unfinished' = [unfinished EXCEPT ![t[1]] = @ - 1]
  /\ at' = [at EXCEPT ![t] = "loop"]

(* A message that is already claimed is a duplicate and is skipped.        *)
Claim(t) ==
  /\ at[t] = "claim"
  /\ LET m == Message(holds[t]) IN
     \/ /\ Unclaimed(m)
        /\ claims' = [claims EXCEPT ![m] = "processing"]
        /\ at' = [at EXCEPT ![t] = "handle"]
        /\ UNCHANGED <<fate, holds, unfinished>>
     \/ /\ ~Unclaimed(m)
        /\ TaskDone(t, "skipped")
        /\ UNCHANGED claims
  /\ UNCHANGED <<callbacks, known, queue, current, turns, shutdown>>

(* The handler's outcome: the message was dealt with, or it raised.        *)
Handle(t) ==
  /\ at[t] = "handle"
  /\ \/ /\ turns' = [turns EXCEPT ![Message(holds[t])] = @ + 1]
        /\ at' = [at EXCEPT ![t] = "mark"]
     \/ /\ at' = [at EXCEPT ![t] = "release"]
        /\ UNCHANGED turns
  /\ UNCHANGED <<callbacks, inboxes, holds, claims, fate, shutdown>>

(* mark_inbound_message_processed; a claim that is gone is a StoreError.   *)
MarkProcessed(t) ==
  /\ at[t] = "mark"
  /\ LET m == Message(holds[t]) IN
     \/ /\ claims[m] = "processing"
        /\ claims' = [claims EXCEPT ![m] = "processed"]
        /\ TaskDone(t, "succeeded")
     \/ /\ claims[m] # "processing"
        /\ TaskDone(t, "failed")
        /\ UNCHANGED claims
  /\ UNCHANGED <<callbacks, known, queue, current, turns, shutdown>>

(* Mutant: task_done is left out when the handler raised.                  *)
ReleaseClaimWithoutTaskDone(t) ==
  /\ at[t] = "release"
  /\ LET m == Message(holds[t]) IN
       claims' = [claims EXCEPT ![m] = IF @ = "processing" THEN "absent" ELSE @]
  /\ fate' = [fate EXCEPT ![holds[t]] = "failed"]
  /\ holds' = [holds EXCEPT ![t] = NoCallback]
  /\ at' = [at EXCEPT ![t] = "loop"]
  /\ UNCHANGED <<callbacks, inboxes, turns, shutdown>>

(* release_inbound_message_claim, so that the message can be retried.      *)
ReleaseClaim(t) ==
  /\ at[t] = "release"
  /\ LET m == Message(holds[t]) IN
       claims' = [claims EXCEPT ![m] = IF @ = "processing" THEN "absent" ELSE @]
  /\ TaskDone(t, "failed")
  /\ UNCHANGED <<callbacks, known, queue, current, turns, shutdown>>

-----------------------------------------------------------------------------
(* The end of the process and the next start.                              *)

(* The Stream client is cancelled and SessionInboxDispatcher.close takes   *)
(* the inboxes it knows.  Callback tasks that have started go on.          *)
BeginClose ==
  /\ phase = "open" /\ ends < MaxEnds
  /\ phase' = "closing"
  /\ closing' = [c \in Conv |-> IF c \in known THEN "join" ELSE "no"]
  /\ owed' = Unsettled
  /\ UNCHANGED <<callbacks, inboxes, workers, claims, fate, turns, ends>>

(* Mutant: close waits for the worker only.                                *)
DrainedWithoutJoin(c) == c \in Conv

(* asyncio.Queue.join: every event ever put was followed by task_done.     *)
Drained(c) == unfinished[c] = 0

Join(c) ==
  /\ phase = "closing"
  /\ closing[c] = "join" /\ Drained(c)
  /\ closing' = [closing EXCEPT ![c] = "await"]
  /\ UNCHANGED <<callbacks, inboxes, workers, claims, fate, turns, phase, owed, ends>>

AwaitWorker(c) ==
  /\ phase = "closing"
  /\ closing[c] = "await" /\ current[c] = NoTask
  /\ closing' = [closing EXCEPT ![c] = "closed"]
  /\ UNCHANGED <<callbacks, inboxes, workers, claims, fate, turns, phase, owed, ends>>

(* Tasks and inboxes are gone; SQLite stays.                               *)
ProcessEnds ==
  /\ phase' = "down"
  /\ ends' = ends + 1
  /\ pc' = [k \in Callback |-> IF pc[k] = "off" THEN "off" ELSE "acked"]
  /\ known' = {}
  /\ queue' = [c \in Conv |-> << >>]
  /\ unfinished' = [c \in Conv |-> 0]
  /\ current' = [c \in Conv |-> NoTask]
  /\ at' = [t \in Task |-> "off"]
  /\ holds' = [t \in Task |-> NoCallback]
  /\ fate' = [k \in Callback |-> IF k \in Unsettled THEN "lost" ELSE fate[k]]
  /\ closing' = [c \in Conv |-> "no"]
  /\ UNCHANGED <<carries, claims, turns>>

(* close() returns once every inbox it took is closed.                     *)
Stop ==
  /\ phase = "closing"
  /\ \A c \in Conv : closing[c] \in {"no", "closed"}
  /\ ProcessEnds
  /\ UNCHANGED owed

Crash ==
  /\ phase \in {"open", "closing"} /\ ends < MaxEnds
  /\ owed' = {}
  /\ ProcessEnds

(* Mutant: stale claims survive the restart.                               *)
ReleasedClaimsNone == claims

(* release_processing_inbound_messages.                                    *)
ReleasedClaims ==
  [m \in MsgId |-> IF claims[m] = "processing" THEN "absent" ELSE claims[m]]

(* recover_inbound_message_claims, before the Stream is opened.            *)
Restart ==
  /\ phase = "down"
  /\ phase' = "open"
  /\ claims' = ReleasedClaims
  /\ owed' = {}
  /\ UNCHANGED <<callbacks, inboxes, workers, fate, turns, closing, ends>>

-----------------------------------------------------------------------------
CallbackStep(k) == GetOrCreateInbox(k) \/ Put(k) \/ EnsureWorker(k)

WorkerStep(t) ==
  \/ TakeNext(t) \/ MarkIdleWhenEmpty(t) \/ Claim(t) \/ Handle(t) \/ MarkProcessed(t)
  \/ ReleaseClaim(t)

CloseStep == Stop \/ \E c \in Conv : Join(c) \/ AwaitWorker(c)

Step ==
  \/ \E k \in Callback : Receive(k) \/ CallbackStep(k)
  \/ \E t \in Task : WorkerStep(t)
  \/ BeginClose \/ CloseStep \/ Crash \/ Restart

(* Nothing to deliver and nothing to do.                                   *)
Rest ==
  /\ phase = "open"
  /\ \A k \in Callback : pc[k] \in {"off", "acked"} /\ k \notin Unsettled
  /\ \A t \in Task : at[t] = "off"
  /\ UNCHANGED vars

Next == Step \/ Rest

Spec == Init /\ [][Next]_vars

(* The event loop runs every ready task, the handler comes back (its calls *)
(* have timeouts), and the process is started again after its end.         *)
Fairness ==
  /\ \A k \in Callback : WF_vars(CallbackStep(k))
  /\ \A t \in Task : WF_vars(WorkerStep(t))
  /\ WF_vars(CloseStep) /\ WF_vars(Restart)

FairSpec == Spec /\ Fairness

-----------------------------------------------------------------------------
Fates == {"none", "queued", "active", "skipped", "succeeded", "failed", "lost"}

(* Every variable has its type.                                            *)
TypeOK ==
  /\ pc \in [Callback -> {"off", "get", "put", "ensure", "acked"}]
  /\ carries \in [Callback -> MsgId]
  /\ known \subseteq Conv
  /\ queue \in [Conv -> Seq(Callback)]
  /\ unfinished \in [Conv -> Nat]
  /\ current \in [Conv -> Slot \cup {NoTask}]
  /\ at \in [Task -> {"off", "loop", "empty", "claim", "handle", "mark", "release"}]
  /\ holds \in [Task -> Callback \cup {NoCallback}]
  /\ claims \in [MsgId -> {"absent", "processing", "processed"}]
  /\ fate \in [Callback -> Fates]
  /\ turns \in [MsgId -> Nat]
  /\ phase \in {"open", "closing", "down"}
  /\ closing \in [Conv -> {"no", "join", "await", "closed"}]
  /\ owed \subseteq Callback
  /\ ends \in Nat

-----------------------------------------------------------------------------
(* Properties.                                                             *)

(* However often DingTalk delivers a message, its handler succeeds at most *)
(* once; only an end of the process between the handler and the mark makes *)
(* room for one more. (claims in SQLite, released at the start)            *)
TurnsPerLife == \A m \in MsgId : turns[m] <= 1 + ends

(* A delivery is skipped as a duplicate only when its message was handled  *)
(* with success: never because another attempt is still under way and may  *)
(* fail, nor because of a claim left by a process that is gone.            *)
SkippedOnlyIfDone ==
  \A k \in Callback : fate[k] = "skipped" => claims[Message(k)] = "processed"

(* No lost wake-up: an inbox with waiting events has a worker that will    *)
(* look at its queue, or a callback about to start one.                    *)
NoLostWakeup ==
  \A c \in Conv : queue[c] # << >> =>
    \/ current[c] \in Slot /\ at[<<c, current[c]>>] # "off"
    \/ \E k \in Callback : pc[k] = "ensure" /\ Home[Message(k)] = c

(* An orderly stop loses no event that was accepted before it began, also  *)
(* when late callbacks go on filling the inboxes.                          *)
CloseLosesNothing == \A k \in owed : fate[k] # "lost"

(* The inboxes implement serial queues: one event of a conversation at a   *)
(* time, in the order of acceptance, although workers come and go.         *)
Holding(c) == {holds[<<c, s>>] : s \in Slot} \ {NoCallback}
Serial == INSTANCE SerialQueues WITH
  Event <- Callback, NoEvent <- NoCallback, waiting <- queue,
  busy <- [c \in Conv |->
             IF Holding(c) = {} THEN NoCallback ELSE CHOOSE k \in Holding(c) : TRUE]
ImplementsSerialQueues == Serial!Spec

(* Every accepted delivery is handled, skipped, or lost with the process.  *)
DeliveryEnds == \A k \in Callback : fate[k] = "queued" ~> k \notin Unsettled

(* An orderly stop comes to its end: no inbox waits for itself.            *)
CloseEnds == phase = "closing" ~> phase = "down"
=============================================================================
