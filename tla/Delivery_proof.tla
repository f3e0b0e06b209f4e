--------------------------- MODULE Delivery_proof ---------------------------
(***************************************************************************)
(* Theorems about Delivery, for any conversations, messages, deliveries,   *)
(* worker tasks and ends of the process.                                   *)
(*                                                                         *)
(* SessionInbox._worker_task carries the argument: the task it names is    *)
(* the only one of its inbox that runs (OneWorker), so a delivery is in    *)
(* one place at a time (Placed), and a claim that is in process belongs to *)
(* the delivery this task holds (ClaimsHeld).                              *)
(***************************************************************************)
EXTENDS Delivery, TLAPS

Claimed == {"handle", "mark", "release"}
Busy == {"claim"} \cup Claimed

(* The worker tasks that run are the ones the inboxes know.                 *)
OneWorker ==
  /\ \A t \in Task : at[t] # "off" => current[t[1]] = t[2]
  /\ \A c \in Conv : current[c] # NoTask => at[<<c, current[c]>>] # "off"

(* A task holds a delivery while it handles it.                             *)
HoldsBusy == \A t \in Task : at[t] \in Busy <=> holds[t] # NoCallback

(* What is held is active, what is in a queue is queued, in the inbox of   *)
(* its conversation.                                                        *)
Placed ==
  /\ \A t \in Task : holds[t] # NoCallback =>
       fate[holds[t]] = "active" /\ Home[Message(holds[t])] = t[1]
  /\ \A c \in Conv : \A i \in DOMAIN queue[c] :
       fate[queue[c][i]] = "queued" /\ Home[Message(queue[c][i])] = c

(* And the other way round; nothing is queued twice.                        *)
Found ==
  /\ \A c \in Conv : \A i, j \in DOMAIN queue[c] : queue[c][i] = queue[c][j] => i = j
  /\ \A k \in Callback : fate[k] = "queued" =>
       \E i \in DOMAIN queue[Home[Message(k)]] : queue[Home[Message(k)]][i] = k
  /\ \A k \in Callback : fate[k] = "active" => \E t \in Task : holds[t] = k

(* Queue.join counts what waits and what is held.                           *)
Counted == \A c \in Conv :
  unfinished[c] = Len(queue[c]) + IF Holding(c) = {} THEN 0 ELSE 1

(* A delivery that is not put yet has no fate, one that is has an inbox.    *)
Early ==
  /\ \A k \in Callback : pc[k] \in {"off", "get", "put"} => fate[k] = "none"
  /\ \A k \in Callback : pc[k] \in {"put", "ensure"} \/ k \in Unsettled =>
       Home[Message(k)] \in known

(* Nothing runs while the process is down.                                  *)
DownIsDown == phase = "down" =>
  /\ \A k \in Callback : pc[k] \in {"off", "acked"}
  /\ \A t \in Task : at[t] = "off"

Claimer(m) == {t \in Task : at[t] \in Claimed /\ Message(holds[t]) = m}

(* A claim in process is the one of the task that handles its message.      *)
ClaimsHeld ==
  /\ \A t \in Task : at[t] \in Claimed => claims[Message(holds[t])] = "processing"
  /\ \A m \in MsgId : claims[m] = "processing" /\ phase # "down" => Claimer(m) # {}

(* A message that is not processed has a turn to come.                      *)
TurnLeft == \A m \in MsgId : claims[m] # "processed" =>
  turns[m] <= ends \/ \E t \in Claimer(m) : at[t] = "mark"

(* What a stop owes is waiting to be joined, or settled.                    *)
OwedJoins ==
  /\ phase = "open" => owed = {}
  /\ phase = "closing" => \A k \in owed :
       /\ fate[k] \notin {"none", "lost"}
       /\ k \in Unsettled => closing[Home[Message(k)]] = "join"

Inv1 == TypeOK /\ OneWorker /\ HoldsBusy /\ Placed /\ Early /\ DownIsDown
Inv2 == Found /\ Counted
Inv3 == ClaimsHeld /\ TurnLeft /\ TurnsPerLife /\ SkippedOnlyIfDone
IInv == Inv1 /\ Inv2 /\ Inv3 /\ OwedJoins /\ CloseLosesNothing /\ NoLostWakeup

-----------------------------------------------------------------------------
(* The steps, told apart by what the inductive argument sees of them.      *)

(* A task that is done held a delivery, and goes on with its inbox.         *)
LEMMA SettleEffect ==
  ASSUME TypeOK, HoldsBusy, Placed, Counted, NEW t \in Task, at[t] \in Busy,
         NEW result \in {"skipped", "succeeded", "failed"}, TaskDone(t, result)
  PROVE  /\ holds[t] \in Callback /\ t[1] \in Conv /\ t[2] \in Slot
         /\ fate[holds[t]] = "active" /\ Home[Message(holds[t])] = t[1]
         /\ unfinished[t[1]] = Len(queue[t[1]]) + 1
         /\ unfinished' = [unfinished EXCEPT ![t[1]] = Len(queue[t[1]])]
<1>1. holds[t] \in Callback /\ t[1] \in Conv /\ t[2] \in Slot /\ t = <<t[1], t[2]>>
  BY DEF TypeOK, HoldsBusy, Task
<1>2. holds[t] \in Holding(t[1])
  BY <1>1, DeliveryAssumption DEF Holding
<1>3. unfinished[t[1]] = Len(queue[t[1]]) + 1 /\ Len(queue[t[1]]) \in Nat
  BY <1>1, <1>2 DEF Counted, TypeOK
<1>4. fate[holds[t]] = "active" /\ Home[Message(holds[t])] = t[1]
  BY <1>1, DeliveryAssumption DEF Placed
<1>5. unfinished' = [unfinished EXCEPT ![t[1]] = unfinished[t[1]] - 1]
  BY DEF TaskDone
<1>6. unfinished[t[1]] - 1 = Len(queue[t[1]])
  BY <1>3
<1> QED
  BY <1>1, <1>3, <1>4, <1>5, <1>6

(* The next delivery of a queue.                                            *)
LEMMA NextWaits ==
  ASSUME TypeOK, NEW c \in Conv, queue[c] # << >>
  PROVE  /\ Head(queue[c]) \in Callback /\ Tail(queue[c]) \in Seq(Callback)
         /\ Len(queue[c]) \in Nat \ {0} /\ Len(Tail(queue[c])) = Len(queue[c]) - 1
         /\ Head(queue[c]) = queue[c][1] /\ DOMAIN queue[c] = 1..Len(queue[c])
         /\ \A i \in DOMAIN Tail(queue[c]) :
              /\ i \in Nat /\ i + 1 \in DOMAIN queue[c] /\ i + 1 # 1
              /\ Tail(queue[c])[i] = queue[c][i + 1] /\ queue[c][i + 1] \in Callback
         /\ \A i \in DOMAIN queue[c] : i # 1 =>
              i - 1 \in DOMAIN Tail(queue[c]) /\ Tail(queue[c])[i - 1] = queue[c][i]
  BY DEF TypeOK

(* A delivery is put behind the others.                                     *)
LEMMA AppendEffect ==
  ASSUME NEW s \in Seq(Callback), NEW k \in Callback
  PROVE  /\ Len(Append(s, k)) = Len(s) + 1 /\ Append(s, k)[Len(s) + 1] = k
         /\ Append(s, k) # << >> /\ DOMAIN s = 1..Len(s) /\ Len(s) \in Nat
         /\ DOMAIN Append(s, k) = 1..(Len(s) + 1)
         /\ \A i \in DOMAIN s : Append(s, k)[i] = s[i] /\ s[i] \in Callback
         /\ \A i \in DOMAIN Append(s, k) : i \in DOMAIN s \/ i = Len(s) + 1
  OBVIOUS

(* The types, first.                                                        *)
LEMMA InitTypes == Init => TypeOK
  BY DeliveryAssumption DEF Init, TypeOK, Fates

(* Every step keeps the types.                                              *)
LEMMA TypeStep ==
  ASSUME TypeOK, HoldsBusy, Placed, Counted, [Next]_vars
  PROVE  TypeOK'
<1> USE DeliveryAssumption DEF TypeOK, Fates, callbacks, inboxes, workers, shutdown
<1>1. ASSUME NEW k \in Callback, Receive(k) PROVE TypeOK'
  BY <1>1 DEF Receive
<1>2. ASSUME NEW k \in Callback, GetOrCreateInbox(k) PROVE TypeOK'
  <2>1. Home[Message(k)] \in Conv
    BY DEF Message
  <2> QED
    BY <1>2, <2>1 DEF GetOrCreateInbox
<1>3. ASSUME NEW k \in Callback, Put(k) PROVE TypeOK'
  <2>1. Home[Message(k)] \in Conv
    BY DEF Message
  <2> QED
    BY <1>3, <2>1 DEF Put
<1>4. ASSUME NEW k \in Callback, EnsureWorker(k) PROVE TypeOK'
  BY <1>4 DEF EnsureWorker, Task
<1>5. ASSUME NEW t \in Task, TakeNext(t) PROVE TypeOK'
  <2>1. t[1] \in Conv
    BY DEF Task
  <2>2. CASE queue[t[1]] # << >>
    <3>1. Head(queue[t[1]]) \in Callback /\ Tail(queue[t[1]]) \in Seq(Callback)
      BY <2>1, <2>2, NextWaits
    <3>2. /\ holds' = [holds EXCEPT ![t] = Head(queue[t[1]])]
          /\ fate' = [fate EXCEPT ![Head(queue[t[1]])] = "active"]
          /\ queue' = [queue EXCEPT ![t[1]] = Tail(queue[t[1]])]
          /\ at' = [at EXCEPT ![t] = "claim"]
      BY <1>5, <2>2 DEF TakeNext
    <3>3. holds' \in [Task -> Callback \cup {NoCallback}] /\ fate' \in [Callback -> Fates]
      BY <3>1, <3>2
    <3>4. queue' \in [Conv -> Seq(Callback)]
      BY <3>1, <3>2
    <3> QED
      BY <1>5, <3>2, <3>3, <3>4 DEF TakeNext
  <2>3. CASE queue[t[1]] = << >>
    BY <1>5, <2>1, <2>3 DEF TakeNext
  <2> QED
    BY <2>2, <2>3
<1>6. ASSUME NEW t \in Task, MarkIdleWhenEmpty(t) PROVE TypeOK'
  BY <1>6 DEF MarkIdleWhenEmpty, Task
<1>7. ASSUME NEW t \in Task, Handle(t) PROVE TypeOK'
  <2>1. holds[t] \in Callback
    BY <1>7 DEF Handle, HoldsBusy, Busy, Claimed
  <2>2. Message(holds[t]) \in MsgId
    BY <2>1 DEF Message
  <2>3. turns[Message(holds[t])] + 1 \in Nat
    BY <2>2
  <2>4. turns' \in [MsgId -> Nat]
    BY <1>7, <2>2, <2>3 DEF Handle
  <2> QED
    BY <1>7, <2>4 DEF Handle
<1>8. ASSUME NEW t \in Task, Claim(t) \/ MarkProcessed(t) \/ ReleaseClaim(t) PROVE TypeOK'
  <2>1. at[t] \in Busy
    BY <1>8 DEF Claim, MarkProcessed, ReleaseClaim, Busy, Claimed
  <2>2. ASSUME NEW result \in {"skipped", "succeeded", "failed"}, TaskDone(t, result)
        PROVE  /\ unfinished' \in [Conv -> Nat] /\ fate' \in [Callback -> Fates]
               /\ holds' \in [Task -> Callback \cup {NoCallback}]
               /\ at' \in [Task -> {"off", "loop", "empty", "claim", "handle", "mark", "release"}]
    <3>1. unfinished' = [unfinished EXCEPT ![t[1]] = Len(queue[t[1]])] /\ t[1] \in Conv
      BY <2>1, <2>2, SettleEffect
    <3>2. Len(queue[t[1]]) \in Nat
      BY <3>1
    <3>3. unfinished' \in [Conv -> Nat]
      BY <3>1, <3>2
    <3>4. fate' \in [Callback -> Fates]
      BY <2>2 DEF TaskDone
    <3> QED
      BY <2>2, <3>3, <3>4 DEF TaskDone
  <2>3. Message(holds[t]) \in MsgId
    BY <2>1 DEF HoldsBusy, Message
  <2>4. CASE Claim(t)
    <3>1. CASE TaskDone(t, "skipped") /\ UNCHANGED claims
      BY <2>2, <2>4, <3>1 DEF Claim
    <3>2. CASE /\ claims' = [claims EXCEPT ![Message(holds[t])] = "processing"]
               /\ at' = [at EXCEPT ![t] = "handle"] /\ UNCHANGED <<fate, holds, unfinished>>
      BY <2>3, <2>4, <3>2 DEF Claim
    <3> QED
      BY <2>4, <3>1, <3>2 DEF Claim
  <2>5. CASE MarkProcessed(t)
    BY <2>2, <2>3, <2>5 DEF MarkProcessed
  <2>6. CASE ReleaseClaim(t)
    BY <2>2, <2>3, <2>6 DEF ReleaseClaim
  <2> QED
    BY <1>8, <2>4, <2>5, <2>6
<1>9. CASE BeginClose
  BY <1>9 DEF BeginClose, Unsettled
<1>10. ASSUME NEW c \in Conv, Join(c) \/ AwaitWorker(c) PROVE TypeOK'
  BY <1>10 DEF Join, AwaitWorker
<1>11. CASE Stop \/ Crash
  <2>1. ProcessEnds
    BY <1>11 DEF Stop, Crash
  <2>2. fate' \in [Callback -> Fates] /\ pc' \in [Callback -> {"off", "acked"}]
    BY <2>1 DEF ProcessEnds
  <2>3. queue' \in [Conv -> Seq(Callback)] /\ current' \in [Conv -> {NoTask}]
    BY <2>1 DEF ProcessEnds
  <2>4. at' \in [Task -> {"off"}] /\ holds' \in [Task -> {NoCallback}]
    BY <2>1 DEF ProcessEnds
  <2>5. closing' \in [Conv -> {"no"}] /\ unfinished' \in [Conv -> {0}] /\ known' = {}
    BY <2>1 DEF ProcessEnds
  <2>6. owed' \subseteq Callback /\ ends' \in Nat /\ phase' = "down"
    BY <1>11 DEF Stop, Crash, ProcessEnds
  <2>7. UNCHANGED <<carries, claims, turns>>
    BY <2>1 DEF ProcessEnds
  <2> QED
    BY <2>2, <2>3, <2>4, <2>5, <2>6, <2>7
<1>12. CASE Restart
  BY <1>12 DEF Restart, ReleasedClaims
<1>13. CASE Rest \/ UNCHANGED vars
  BY <1>13 DEF Rest, vars
<1> QED
  BY <1>1, <1>2, <1>3, <1>4, <1>5, <1>6, <1>7, <1>8, <1>9, <1>10, <1>11, <1>12, <1>13
     DEF Next, Step, CallbackStep, WorkerStep, CloseStep

-----------------------------------------------------------------------------
(* What a step does to the inbox, when it is one of those three.           *)

(* Between the claim and the mark a worker starts on its delivery, or      *)
(* settles it.                                                              *)
LEMMA ClaimEffect ==
  ASSUME NEW t \in Task, Claim(t) \/ MarkProcessed(t) \/ ReleaseClaim(t)
  PROVE  /\ at[t] \in Busy
         /\ UNCHANGED <<pc, carries, known, queue, current, turns, phase, closing, owed, ends>>
         /\ \/ /\ at[t] = "claim" /\ at' = [at EXCEPT ![t] = "handle"]
               /\ UNCHANGED <<fate, holds, unfinished>>
            \/ \E result \in {"skipped", "succeeded", "failed"} : TaskDone(t, result)
<1>1. CASE Claim(t)
  BY <1>1 DEF Claim, Busy, callbacks, shutdown
<1>2. CASE MarkProcessed(t)
  BY <1>2 DEF MarkProcessed, Busy, Claimed, callbacks, shutdown
<1>3. CASE ReleaseClaim(t)
  BY <1>3 DEF ReleaseClaim, Busy, Claimed, callbacks, shutdown
<1> QED
  BY <1>1, <1>2, <1>3

(* The inbox a message belongs to.                                          *)
LEMMA HomeType == TypeOK => \A k \in Callback : Message(k) \in MsgId /\ Home[Message(k)] \in Conv
  BY DeliveryAssumption DEF TypeOK, Message

(* What the queues are after a delivery was put into one.                  *)
LEMMA PutEffect ==
  ASSUME TypeOK, NEW k \in Callback, NEW c, c = Home[Message(k)], Put(k)
  PROVE  /\ c \in Conv /\ pc[k] = "put" /\ pc' = [pc EXCEPT ![k] = "ensure"]
         /\ queue'[c] = Append(queue[c], k) /\ \A d \in Conv : d # c => queue'[d] = queue[d]
         /\ fate'[k] = "queued" /\ \A j \in Callback : j # k => fate'[j] = fate[j]
         /\ unfinished'[c] = unfinished[c] + 1
         /\ \A d \in Conv : d # c => unfinished'[d] = unfinished[d]
         /\ UNCHANGED <<carries, known, current, workers, claims, turns, shutdown>>
         /\ \A d \in Conv : \A i \in DOMAIN queue[d] :
              i \in DOMAIN queue'[d] /\ queue'[d][i] = queue[d][i] /\ queue[d][i] \in Callback
         /\ \A d \in Conv : \A i \in DOMAIN queue'[d] :
              i \in DOMAIN queue[d] \/ (d = c /\ i = Len(queue[c]) + 1 /\ queue'[d][i] = k)
         /\ Len(queue[c]) + 1 \in DOMAIN queue'[c] /\ queue'[c][Len(queue[c]) + 1] = k
<1>1. c \in Conv /\ queue[c] \in Seq(Callback)
  BY HomeType DEF TypeOK
<1>2. /\ pc[k] = "put" /\ pc' = [pc EXCEPT ![k] = "ensure"]
      /\ queue' = [queue EXCEPT ![c] = Append(queue[c], k)]
      /\ fate' = [fate EXCEPT ![k] = "queued"]
      /\ unfinished' = [unfinished EXCEPT ![c] = unfinished[c] + 1]
      /\ UNCHANGED <<carries, known, current, workers, claims, turns, shutdown>>
  BY DEF Put
<1>3. /\ queue'[c] = Append(queue[c], k) /\ \A d \in Conv : d # c => queue'[d] = queue[d]
      /\ fate'[k] = "queued" /\ \A j \in Callback : j # k => fate'[j] = fate[j]
      /\ unfinished'[c] = unfinished[c] + 1
      /\ \A d \in Conv : d # c => unfinished'[d] = unfinished[d]
  BY <1>1, <1>2 DEF TypeOK
<1>4. \A d \in Conv : \A i \in DOMAIN queue[d] : queue[d][i] \in Callback
  BY DEF TypeOK
<1>5. /\ \A d \in Conv : \A i \in DOMAIN queue[d] :
           i \in DOMAIN queue'[d] /\ queue'[d][i] = queue[d][i] /\ queue[d][i] \in Callback
      /\ \A d \in Conv : \A i \in DOMAIN queue'[d] :
           i \in DOMAIN queue[d] \/ (d = c /\ i = Len(queue[c]) + 1 /\ queue'[d][i] = k)
      /\ Len(queue[c]) + 1 \in DOMAIN queue'[c] /\ queue'[c][Len(queue[c]) + 1] = k
  <2>1. /\ Len(queue[c]) + 1 \in DOMAIN queue'[c] /\ queue'[c][Len(queue[c]) + 1] = k
        /\ \A i \in DOMAIN queue[c] :
             i \in DOMAIN queue'[c] /\ queue'[c][i] = queue[c][i] /\ queue[c][i] \in Callback
        /\ \A i \in DOMAIN queue'[c] : i \in DOMAIN queue[c] \/ i = Len(queue[c]) + 1
    BY <1>1, <1>3, AppendEffect
  <2>2. ASSUME NEW d \in Conv, NEW i \in DOMAIN queue[d]
        PROVE  i \in DOMAIN queue'[d] /\ queue'[d][i] = queue[d][i] /\ queue[d][i] \in Callback
    <3>1. CASE d = c
      BY <2>1, <2>2, <3>1
    <3>2. CASE d # c
      BY <1>3, <1>4, <2>2, <3>2
    <3> QED
      BY <3>1, <3>2
  <2>3. ASSUME NEW d \in Conv, NEW i \in DOMAIN queue'[d]
        PROVE  i \in DOMAIN queue[d] \/ (d = c /\ i = Len(queue[c]) + 1 /\ queue'[d][i] = k)
    <3>1. CASE d = c
      BY <2>1, <2>3, <3>1
    <3>2. CASE d # c
      BY <1>3, <2>3, <3>2
    <3> QED
      BY <3>1, <3>2
  <2> QED
    BY <2>1, <2>2, <2>3
<1> QED
  BY <1>1, <1>2, <1>3, <1>5

(* What the queues are after a worker took its next delivery.              *)
LEMMA TakeEffect ==
  ASSUME TypeOK, NEW t \in Task, NEW c, c = t[1], TakeNext(t), queue[c] # << >>,
         NEW k, k = Head(queue[c])
  PROVE  /\ c \in Conv /\ k \in Callback /\ k = queue[c][1] /\ 1 \in DOMAIN queue[c]
         /\ at[t] = "loop" /\ at' = [at EXCEPT ![t] = "claim"]
         /\ queue'[c] = Tail(queue[c]) /\ \A d \in Conv : d # c => queue'[d] = queue[d]
         /\ Len(queue[c]) \in Nat /\ Len(queue'[c]) = Len(queue[c]) - 1
         /\ fate'[k] = "active" /\ \A j \in Callback : j # k => fate'[j] = fate[j]
         /\ holds'[t] = k /\ \A u \in Task : u # t => holds'[u] = holds[u]
         /\ UNCHANGED <<callbacks, known, unfinished, current, claims, turns, shutdown>>
         /\ \A i \in DOMAIN queue'[c] :
              /\ i \in Nat /\ i + 1 \in DOMAIN queue[c] /\ i + 1 # 1
              /\ queue'[c][i] = queue[c][i + 1] /\ queue[c][i + 1] \in Callback
         /\ \A i \in DOMAIN queue[c] : i # 1 =>
              i - 1 \in DOMAIN queue'[c] /\ queue'[c][i - 1] = queue[c][i]
         /\ \A d \in Conv : \A i \in DOMAIN queue[d] : queue[d][i] \in Callback
<1>1. c \in Conv
  BY DEF Task
<1>2. /\ at[t] = "loop" /\ at' = [at EXCEPT ![t] = "claim"]
      /\ queue' = [queue EXCEPT ![c] = Tail(queue[c])]
      /\ fate' = [fate EXCEPT ![k] = "active"] /\ holds' = [holds EXCEPT ![t] = k]
      /\ UNCHANGED <<callbacks, known, unfinished, current, claims, turns, shutdown>>
  BY DEF TakeNext
<1>3. /\ k \in Callback /\ k = queue[c][1] /\ 1 \in DOMAIN queue[c] /\ Len(queue[c]) \in Nat
      /\ Len(Tail(queue[c])) = Len(queue[c]) - 1
  BY <1>1, NextWaits
<1>4. /\ queue'[c] = Tail(queue[c]) /\ \A d \in Conv : d # c => queue'[d] = queue[d]
      /\ fate'[k] = "active" /\ \A j \in Callback : j # k => fate'[j] = fate[j]
      /\ holds'[t] = k /\ \A u \in Task : u # t => holds'[u] = holds[u]
  BY <1>1, <1>2, <1>3 DEF TypeOK
<1>5. /\ \A i \in DOMAIN queue'[c] :
           /\ i \in Nat /\ i + 1 \in DOMAIN queue[c] /\ i + 1 # 1
           /\ queue'[c][i] = queue[c][i + 1] /\ queue[c][i + 1] \in Callback
      /\ \A i \in DOMAIN queue[c] : i # 1 =>
           i - 1 \in DOMAIN queue'[c] /\ queue'[c][i - 1] = queue[c][i]
  BY <1>1, <1>4, NextWaits
<1>6. \A d \in Conv : \A i \in DOMAIN queue[d] : queue[d][i] \in Callback
  BY DEF TypeOK
<1> QED
  BY <1>1, <1>2, <1>3, <1>4, <1>5, <1>6

(* What a worker has done when it is done with a delivery.                 *)
LEMMA DoneEffect ==
  ASSUME TypeOK, OneWorker, HoldsBusy, Placed, Counted, NEW t \in Task, at[t] \in Busy,
         NEW result \in {"skipped", "succeeded", "failed"}, TaskDone(t, result)
  PROVE  /\ fate'[holds[t]] = result
         /\ \A j \in Callback : j # holds[t] => fate'[j] = fate[j]
         /\ holds'[t] = NoCallback /\ at'[t] = "loop"
         /\ \A u \in Task : u # t => holds'[u] = holds[u] /\ at'[u] = at[u]
         /\ \A u \in Task : u # t => holds[u] # holds[t] \/ holds[u] = NoCallback
         /\ \A u \in Task : u # t /\ u[1] = t[1] => holds[u] = NoCallback
<1>1. holds[t] \in Callback /\ Home[Message(holds[t])] = t[1]
  BY SettleEffect
<1>2. /\ fate'[holds[t]] = result
      /\ \A j \in Callback : j # holds[t] => fate'[j] = fate[j]
      /\ holds'[t] = NoCallback /\ at'[t] = "loop"
      /\ \A u \in Task : u # t => holds'[u] = holds[u] /\ at'[u] = at[u]
  BY <1>1 DEF TaskDone, TypeOK
<1>3. ASSUME NEW u \in Task, u # t, u[1] = t[1] PROVE holds[u] = NoCallback
  <2>1. u[2] # t[2]
    BY <1>3 DEF Task
  <2>2. at[u] = "off"
    BY <1>3, <2>1 DEF OneWorker, Busy, Claimed
  <2> QED
    BY <2>2 DEF HoldsBusy, Busy, Claimed
<1>4. \A u \in Task : holds[u] = holds[t] => u[1] = t[1]
  BY <1>1, DeliveryAssumption DEF Placed
<1> QED
  BY <1>2, <1>3, <1>4

(* A worker task is a slot of an inbox.                                     *)
LEMMA TaskType == \A t \in Task : t[1] \in Conv /\ t[2] \in Slot /\ t = <<t[1], t[2]>>
  BY DEF Task

(* The first layer holds at the start.                                      *)
LEMMA InitLayer1 == Init => Inv1
  BY InitTypes, TaskType, DeliveryAssumption
     DEF Init, Inv1, OneWorker, HoldsBusy, Placed, Early, DownIsDown, Busy, Claimed, Unsettled

(* The worker the inbox names is the only one.                              *)
LEMMA OneWorkerStep ==
  ASSUME TypeOK, OneWorker, [Next]_vars
  PROVE  OneWorker'
<1> USE DeliveryAssumption, TaskType DEF TypeOK, OneWorker, callbacks, inboxes, workers, shutdown
<1>1. ASSUME NEW k \in Callback, Receive(k) \/ GetOrCreateInbox(k) \/ Put(k) PROVE OneWorker'
  BY <1>1 DEF Receive, GetOrCreateInbox, Put
<1>2. ASSUME NEW k \in Callback, EnsureWorker(k) PROVE OneWorker'
  <2> DEFINE c == Home[Message(k)]
  <2>1. c \in Conv
    BY HomeType
  <2>2. CASE UNCHANGED <<current, at>>
    BY <2>2
  <2>3. ASSUME current[c] = NoTask, NEW s \in Slot, at[<<c, s>>] = "off",
               current' = [current EXCEPT ![c] = s], at' = [at EXCEPT ![<<c, s>>] = "loop"]
        PROVE  OneWorker'
    <3>1. <<c, s>> \in Task
      BY <2>1 DEF Task
    <3>2. \A t \in Task : at'[t] # "off" => current'[t[1]] = t[2]
      BY <2>1, <2>3, <3>1
    <3>3. \A d \in Conv : current'[d] # NoTask => at'[<<d, current'[d]>>] # "off"
      <4> SUFFICES ASSUME NEW d \in Conv, current'[d] # NoTask
                   PROVE  at'[<<d, current'[d]>>] # "off"
        OBVIOUS
      <4>1. CASE d = c
        BY <2>1, <2>3, <3>1, <4>1
      <4>2. CASE d # c
        <5>1. current'[d] = current[d] /\ <<d, current[d]>> \in Task
          BY <2>1, <2>3, <4>2 DEF Task
        <5> QED
          BY <2>3, <3>1, <4>2, <5>1
      <4> QED
        BY <4>1, <4>2
    <3> QED
      BY <3>2, <3>3
  <2> QED
    BY <1>2, <2>2, <2>3 DEF EnsureWorker, NeedsWorker
<1>3. ASSUME NEW t \in Task, TakeNext(t) \/ Handle(t) \/ Claim(t) \/ MarkProcessed(t) \/ ReleaseClaim(t)
      PROVE  OneWorker'
  <2>1. UNCHANGED current /\ at[t] # "off"
    BY <1>3 DEF TakeNext, Handle, Claim, MarkProcessed, ReleaseClaim
  <2>2. \E b \in {"claim", "empty", "mark", "release", "handle", "loop"} : at' = [at EXCEPT ![t] = b]
    BY <1>3 DEF TakeNext, Handle, Claim, MarkProcessed, ReleaseClaim, TaskDone
  <2>3. \A u \in Task : at'[u] = "off" <=> at[u] = "off"
    BY <2>1, <2>2
  <2>4. \A c \in Conv : current[c] # NoTask => <<c, current[c]>> \in Task
    BY DEF Task
  <2> QED
    BY <2>1, <2>3, <2>4
<1>4. ASSUME NEW t \in Task, MarkIdleWhenEmpty(t) PROVE OneWorker'
  <2>1. CASE UNCHANGED current /\ at' = [at EXCEPT ![t] = "loop"]
    <3>1. \A u \in Task : at'[u] = "off" <=> at[u] = "off"
      BY <1>4, <2>1 DEF MarkIdleWhenEmpty
    <3>2. \A c \in Conv : current[c] # NoTask => <<c, current[c]>> \in Task
      BY DEF Task
    <3> QED
      BY <2>1, <3>1, <3>2
  <2>2. CASE current' = [current EXCEPT ![t[1]] = NoTask] /\ at' = [at EXCEPT ![t] = "off"]
    <3>1. current[t[1]] = t[2]
      BY <1>4 DEF MarkIdleWhenEmpty
    <3>2. \A u \in Task : at'[u] # "off" => current'[u[1]] = u[2]
      BY <2>2, <3>1
    <3>3. \A c \in Conv : current'[c] # NoTask =>
            c # t[1] /\ current'[c] = current[c] /\ <<c, current[c]>> \in Task
      BY <2>2 DEF Task
    <3> QED
      BY <2>2, <3>2, <3>3
  <2> QED
    BY <1>4, <2>1, <2>2 DEF MarkIdleWhenEmpty
<1>5. CASE BeginClose \/ Restart \/ \E c \in Conv : Join(c) \/ AwaitWorker(c)
  BY <1>5 DEF BeginClose, Join, AwaitWorker, Restart
<1>6. CASE Stop \/ Crash
  BY <1>6 DEF Stop, Crash, ProcessEnds
<1>7. CASE Rest \/ UNCHANGED vars
  BY <1>7 DEF Rest, vars
<1> QED
  BY <1>1, <1>2, <1>3, <1>4, <1>5, <1>6, <1>7
     DEF Next, Step, CallbackStep, WorkerStep, CloseStep

(* A task holds a delivery exactly while it is at work on one.             *)
LEMMA HoldsBusyStep ==
  ASSUME TypeOK, HoldsBusy, Placed, Counted, [Next]_vars
  PROVE  HoldsBusy'
<1> USE DeliveryAssumption, TaskType
    DEF TypeOK, HoldsBusy, Busy, Claimed, callbacks, inboxes, workers, shutdown
<1>1. ASSUME NEW k \in Callback, Receive(k) \/ GetOrCreateInbox(k) \/ Put(k) PROVE HoldsBusy'
  BY <1>1 DEF Receive, GetOrCreateInbox, Put
<1>2. ASSUME NEW k \in Callback, EnsureWorker(k) PROVE HoldsBusy'
  <2>1. Home[Message(k)] \in Conv
    BY HomeType
  <2> QED
    BY <1>2, <2>1 DEF EnsureWorker, Task
<1>3. ASSUME NEW t \in Task, TakeNext(t) PROVE HoldsBusy'
  <2>1. queue[t[1]] # << >> => Head(queue[t[1]]) \in Callback
    BY NextWaits
  <2> QED
    BY <1>3, <2>1 DEF TakeNext
<1>4. ASSUME NEW t \in Task, MarkIdleWhenEmpty(t) \/ Handle(t) PROVE HoldsBusy'
  BY <1>4 DEF MarkIdleWhenEmpty, Handle
<1>5. ASSUME NEW t \in Task, Claim(t) \/ MarkProcessed(t) \/ ReleaseClaim(t) PROVE HoldsBusy'
  <2>1. CASE \E result \in {"skipped", "succeeded", "failed"} : TaskDone(t, result)
    BY <2>1 DEF TaskDone
  <2>2. CASE at[t] = "claim" /\ at' = [at EXCEPT ![t] = "handle"] /\ UNCHANGED holds
    BY <2>2
  <2> QED
    BY <1>5, <2>1, <2>2, ClaimEffect
<1>6. CASE BeginClose \/ Restart \/ \E c \in Conv : Join(c) \/ AwaitWorker(c)
  BY <1>6 DEF BeginClose, Join, AwaitWorker, Restart
<1>7. CASE Stop \/ Crash
  BY <1>7 DEF Stop, Crash, ProcessEnds
<1>8. CASE Rest \/ UNCHANGED vars
  BY <1>8 DEF Rest, vars
<1> QED
  BY <1>1, <1>2, <1>3, <1>4, <1>5, <1>6, <1>7, <1>8
     DEF Next, Step, CallbackStep, WorkerStep, CloseStep

(* Nothing runs while the process is down.                                  *)
LEMMA DownStep ==
  ASSUME TypeOK, DownIsDown, [Next]_vars
  PROVE  DownIsDown'
<1> USE DeliveryAssumption DEF TypeOK, DownIsDown, callbacks, inboxes, workers, shutdown
<1>1. ASSUME NEW k \in Callback, Receive(k) \/ CallbackStep(k) PROVE DownIsDown'
  <2>1. phase # "down" /\ UNCHANGED phase
    BY <1>1 DEF Receive, CallbackStep, GetOrCreateInbox, Put, EnsureWorker
  <2> QED
    BY <2>1
<1>2. ASSUME NEW t \in Task, WorkerStep(t) PROVE DownIsDown'
  <2>1. phase # "down" /\ UNCHANGED phase
    BY <1>2 DEF WorkerStep, TakeNext, MarkIdleWhenEmpty, Claim, Handle, MarkProcessed, ReleaseClaim
  <2> QED
    BY <2>1
<1>3. CASE BeginClose \/ Restart \/ \E c \in Conv : Join(c) \/ AwaitWorker(c)
  BY <1>3 DEF BeginClose, Join, AwaitWorker, Restart
<1>4. CASE Stop \/ Crash
  BY <1>4 DEF Stop, Crash, ProcessEnds
<1>5. CASE Rest \/ UNCHANGED vars
  BY <1>5 DEF Rest, vars
<1> QED
  BY <1>1, <1>2, <1>3, <1>4, <1>5 DEF Next, Step, CloseStep

(* What waits is queued, what is held is active, each in its inbox.        *)
LEMMA PlacedStep ==
  ASSUME TypeOK, OneWorker, HoldsBusy, Placed, Counted, Found, Early, [Next]_vars
  PROVE  Placed'
<1> USE DEF Placed, Message
<1>1. ASSUME UNCHANGED <<holds, fate, queue, carries>> PROVE Placed'
  BY <1>1
<1>2. ASSUME NEW k \in Callback, Put(k) PROVE Placed'
  <2> DEFINE c == Home[Message(k)]
  <2>1. fate[k] = "none"
    BY <1>2 DEF Put, Early
  <2>2. UNCHANGED <<carries, holds>>
    BY <1>2, PutEffect DEF workers
  <2>3. ASSUME NEW u \in Task, holds[u] # NoCallback PROVE fate'[holds[u]] = "active"
    <3>1. holds[u] \in Callback /\ fate[holds[u]] = "active"
      BY <2>3 DEF TypeOK
    <3> QED
      BY <1>2, <2>1, <3>1, PutEffect
  <2>4. ASSUME NEW d \in Conv, NEW i \in DOMAIN queue'[d]
        PROVE  fate'[queue'[d][i]] = "queued" /\ Home[carries[queue'[d][i]]] = d
    BY <1>2, <2>1, <2>4, PutEffect
  <2> QED
    BY <2>2, <2>3, <2>4
<1>3. ASSUME NEW t \in Task, TakeNext(t), queue[t[1]] # << >> PROVE Placed'
  <2> DEFINE c == t[1]
             k == Head(queue[c])
  <2>1. fate[k] = "queued" /\ Home[carries[k]] = c /\ k \in Callback /\ UNCHANGED carries
    BY <1>3, TakeEffect DEF callbacks
  <2>2. ASSUME NEW u \in Task, holds'[u] # NoCallback
        PROVE  fate'[holds'[u]] = "active" /\ Home[carries[holds'[u]]] = u[1]
    <3>1. CASE u = t
      BY <1>3, <2>1, <3>1, TakeEffect
    <3>2. CASE u # t
      BY <1>3, <2>1, <2>2, <3>2, TakeEffect DEF TypeOK
    <3> QED
      BY <3>1, <3>2
  <2>3. ASSUME NEW d \in Conv, NEW i \in DOMAIN queue'[d]
        PROVE  fate'[queue'[d][i]] = "queued" /\ Home[carries[queue'[d][i]]] = d
    <3>1. CASE d = c
      <4>1. /\ i + 1 \in DOMAIN queue[c] /\ i + 1 # 1 /\ 1 \in DOMAIN queue[c]
            /\ queue'[d][i] = queue[c][i + 1] /\ queue[c][i + 1] \in Callback /\ k = queue[c][1]
        BY <1>3, <2>3, <3>1, TakeEffect
      <4>2. queue[c][i + 1] # k
        BY <3>1, <4>1 DEF Found
      <4>3. fate'[queue[c][i + 1]] = fate[queue[c][i + 1]]
        BY <1>3, <4>1, <4>2, TakeEffect
      <4> QED
        BY <3>1, <4>1, <4>3
    <3>2. CASE d # c
      <4>1. queue'[d] = queue[d] /\ queue[d][i] \in Callback /\ i \in DOMAIN queue[d]
        BY <1>3, <2>3, <3>2, TakeEffect
      <4>2. queue[d][i] # k /\ fate[queue[d][i]] = "queued" /\ Home[carries[queue[d][i]]] = d
        BY <2>1, <3>2, <4>1
      <4> QED
        BY <1>3, <4>1, <4>2, TakeEffect
    <3> QED
      BY <3>1, <3>2
  <2> QED
    BY <2>1, <2>2, <2>3
<1>4. ASSUME NEW t \in Task, Claim(t) \/ MarkProcessed(t) \/ ReleaseClaim(t) PROVE Placed'
  <2>1. UNCHANGED <<carries, queue>> /\ at[t] \in Busy
    BY <1>4, ClaimEffect
  <2>2. ASSUME NEW result \in {"skipped", "succeeded", "failed"}, TaskDone(t, result) PROVE Placed'
    <3>1. holds[t] \in Callback /\ fate[holds[t]] = "active" /\ Home[carries[holds[t]]] = t[1]
      BY <2>1, <2>2, SettleEffect
    <3>2. ASSUME NEW u \in Task, holds'[u] # NoCallback
          PROVE  fate'[holds'[u]] = "active" /\ Home[carries[holds'[u]]] = u[1]
      <4>1. u # t /\ holds'[u] = holds[u] /\ holds[u] # holds[t] /\ holds[u] \in Callback
        BY <2>1, <2>2, <3>2, DoneEffect DEF TypeOK
      <4> QED
        BY <2>1, <2>2, <3>1, <4>1, DoneEffect, DeliveryAssumption
    <3>3. ASSUME NEW d \in Conv, NEW i \in DOMAIN queue[d]
          PROVE  fate'[queue[d][i]] = "queued" /\ Home[carries[queue[d][i]]] = d
      <4>1. fate[queue[d][i]] = "queued" /\ queue[d][i] \in Callback
        BY <3>3 DEF TypeOK
      <4> QED
        BY <2>1, <2>2, <3>1, <4>1, DoneEffect
    <3> QED
      BY <2>1, <3>2, <3>3
  <2> QED
    BY <1>1, <1>4, <2>1, <2>2, ClaimEffect
<1>5. CASE Stop \/ Crash
  BY <1>5 DEF Stop, Crash, ProcessEnds
<1>6. ASSUME NEW k \in Callback, Receive(k) \/ GetOrCreateInbox(k) \/ EnsureWorker(k) PROVE Placed'
  BY <1>1, <1>6 DEF Receive, GetOrCreateInbox, EnsureWorker, inboxes, workers
<1>7. ASSUME NEW t \in Task, MarkIdleWhenEmpty(t) \/ Handle(t) PROVE Placed'
  BY <1>1, <1>7 DEF MarkIdleWhenEmpty, Handle, inboxes, callbacks
<1>8. ASSUME NEW t \in Task, TakeNext(t), queue[t[1]] = << >> PROVE Placed'
  BY <1>1, <1>8 DEF TakeNext, callbacks
<1>9. CASE BeginClose \/ Restart \/ \E c \in Conv : Join(c) \/ AwaitWorker(c)
  BY <1>1, <1>9 DEF BeginClose, Join, AwaitWorker, Restart, inboxes, workers, callbacks
<1>10. CASE Rest \/ UNCHANGED vars
  BY <1>1, <1>10 DEF Rest, vars, inboxes, workers, callbacks
<1> QED
  BY <1>2, <1>3, <1>4, <1>5, <1>6, <1>7, <1>8, <1>9, <1>10
     DEF Next, Step, CallbackStep, WorkerStep, CloseStep
(* A delivery has no fate before it is put, and an inbox from then on.     *)
LEMMA EarlyStep ==
  ASSUME TypeOK, OneWorker, HoldsBusy, Placed, Counted, Early, [Next]_vars
  PROVE  Early'
<1> USE DEF Early, Unsettled, Message
<1>1. ASSUME NEW k \in Callback, Receive(k) \/ GetOrCreateInbox(k) \/ EnsureWorker(k) PROVE Early'
  <2>1. UNCHANGED <<fate, carries>> /\ known \subseteq known'
    BY <1>1 DEF Receive, GetOrCreateInbox, EnsureWorker, inboxes
  <2>2. \A j \in Callback : j # k => pc'[j] = pc[j]
    BY <1>1 DEF Receive, GetOrCreateInbox, EnsureWorker, TypeOK
  <2>3. pc'[k] \in {"off", "get", "put"} => fate[k] = "none"
    BY <1>1 DEF Receive, GetOrCreateInbox, EnsureWorker, TypeOK
  <2>4. pc'[k] \in {"put", "ensure"} => Home[carries[k]] \in known'
    BY <1>1 DEF Receive, GetOrCreateInbox, EnsureWorker, TypeOK
  <2> QED
    BY <2>1, <2>2, <2>3, <2>4
<1>2. ASSUME NEW k \in Callback, Put(k) PROVE Early'
  <2>1. UNCHANGED <<carries, known>> /\ pc[k] = "put" /\ pc' = [pc EXCEPT ![k] = "ensure"]
    BY <1>2, PutEffect
  <2>2. fate'[k] = "queued" /\ \A j \in Callback : j # k => fate'[j] = fate[j]
    BY <1>2, PutEffect
  <2>3. pc'[k] = "ensure" /\ \A j \in Callback : j # k => pc'[j] = pc[j]
    BY <2>1 DEF TypeOK
  <2> QED
    BY <2>1, <2>2, <2>3
<1>3. ASSUME NEW t \in Task, TakeNext(t), queue[t[1]] # << >> PROVE Early'
  <2> DEFINE k == Head(queue[t[1]])
  <2>1. k \in Callback /\ UNCHANGED <<pc, carries, known>> /\ fate[k] = "queued"
    BY <1>3, TakeEffect DEF callbacks, Placed
  <2>2. fate'[k] = "active" /\ \A j \in Callback : j # k => fate'[j] = fate[j]
    BY <1>3, TakeEffect
  <2> QED
    BY <2>1, <2>2
<1>4. ASSUME NEW t \in Task, Claim(t) \/ MarkProcessed(t) \/ ReleaseClaim(t) PROVE Early'
  <2>1. UNCHANGED <<pc, carries, known>> /\ at[t] \in Busy
    BY <1>4, ClaimEffect
  <2>2. CASE UNCHANGED fate
    BY <2>1, <2>2
  <2>3. ASSUME NEW result \in {"skipped", "succeeded", "failed"}, TaskDone(t, result) PROVE Early'
    <3>1. holds[t] \in Callback /\ fate[holds[t]] = "active"
      BY <2>1, <2>3, SettleEffect
    <3>2. fate'[holds[t]] = result /\ \A j \in Callback : j # holds[t] => fate'[j] = fate[j]
      BY <2>1, <2>3, DoneEffect
    <3> QED
      BY <2>1, <3>1, <3>2
  <2> QED
    BY <1>4, <2>2, <2>3, ClaimEffect
<1>5. CASE Stop \/ Crash
  <2>1. ProcessEnds
    BY <1>5 DEF Stop, Crash
  <2>2. \A k \in Callback : pc'[k] \in {"off", "acked"} /\ (pc'[k] = "off" => pc[k] = "off")
    BY <2>1 DEF ProcessEnds
  <2>3. \A k \in Callback : /\ fate'[k] \notin {"queued", "active"}
                            /\ fate[k] = "none" => fate'[k] = "none"
    BY <2>1 DEF ProcessEnds
  <2> QED
    BY <2>2, <2>3
<1>6. ASSUME UNCHANGED <<pc, fate, carries, known>> PROVE Early'
  BY <1>6
<1>7. ASSUME NEW t \in Task, MarkIdleWhenEmpty(t) \/ Handle(t) PROVE Early'
  BY <1>6, <1>7 DEF MarkIdleWhenEmpty, Handle, inboxes, callbacks
<1>8. ASSUME NEW t \in Task, TakeNext(t), queue[t[1]] = << >> PROVE Early'
  BY <1>6, <1>8 DEF TakeNext, callbacks
<1>9. CASE BeginClose \/ Restart \/ \E c \in Conv : Join(c) \/ AwaitWorker(c)
  BY <1>6, <1>9 DEF BeginClose, Join, AwaitWorker, Restart, inboxes, callbacks
<1>10. CASE Rest \/ UNCHANGED vars
  BY <1>6, <1>10 DEF Rest, vars, inboxes, callbacks
<1> QED
  BY <1>1, <1>2, <1>3, <1>4, <1>5, <1>7, <1>8, <1>9, <1>10
     DEF Next, Step, CallbackStep, WorkerStep, CloseStep

-----------------------------------------------------------------------------
(* The second layer: nothing is lost or doubled, and the count is right.   *)

(* A delivery that is queued or active is somewhere, after every step.     *)
LEMMA FoundStep ==
  ASSUME TypeOK, OneWorker, HoldsBusy, Placed, Counted, Early, Found, [Next]_vars
  PROVE  Found'
<1> USE DEF Found, Message
<1>1. ASSUME NEW k \in Callback, Put(k) PROVE Found'
  <2> DEFINE c == Home[Message(k)]
             n == Len(queue[c]) + 1
  <2>1. fate[k] = "none" /\ UNCHANGED <<carries, holds>> /\ c \in Conv
    BY <1>1, PutEffect DEF Put, Early, workers
  <2>2. \A d \in Conv : \A i \in DOMAIN queue[d] : queue[d][i] # k
    BY <2>1 DEF Placed
  <2>3. \A d \in Conv : \A i, j \in DOMAIN queue'[d] : queue'[d][i] = queue'[d][j] => i = j
    BY <1>1, <2>2, PutEffect
  <2>4. ASSUME NEW j \in Callback, fate'[j] = "queued"
        PROVE  \E i \in DOMAIN queue'[Home[carries[j]]] : queue'[Home[carries[j]]][i] = j
    <3>1. CASE j = k
      <4>1. n \in DOMAIN queue'[c] /\ queue'[c][n] = k
        BY <1>1, PutEffect
      <4> QED
        BY <3>1, <4>1
    <3>2. CASE j # k
      <4>1. fate[j] = "queued" /\ Home[carries[j]] \in Conv
        BY <1>1, <2>4, <3>2, PutEffect, HomeType
      <4>2. PICK i \in DOMAIN queue[Home[carries[j]]] : queue[Home[carries[j]]][i] = j
        BY <4>1
      <4> QED
        BY <1>1, <4>1, <4>2, PutEffect
    <3> QED
      BY <3>1, <3>2
  <2>5. \A j \in Callback : fate'[j] = "active" => fate[j] = "active"
    BY <1>1, PutEffect
  <2> QED
    BY <2>1, <2>3, <2>4, <2>5
<1>2. ASSUME NEW t \in Task, TakeNext(t), queue[t[1]] # << >> PROVE Found'
  <2> DEFINE c == t[1]
             k == Head(queue[c])
  <2>1. /\ c \in Conv /\ k \in Callback /\ k = queue[c][1] /\ 1 \in DOMAIN queue[c]
        /\ UNCHANGED carries /\ holds'[t] = k
    BY <1>2, TakeEffect DEF callbacks
  <2>2. ASSUME NEW d \in Conv, NEW i \in DOMAIN queue'[d], NEW j \in DOMAIN queue'[d],
               queue'[d][i] = queue'[d][j]
        PROVE  i = j
    <3>1. CASE d = c
      <4>1. /\ i \in Nat /\ i + 1 \in DOMAIN queue[c] /\ queue'[c][i] = queue[c][i + 1]
            /\ j \in Nat /\ j + 1 \in DOMAIN queue[c] /\ queue'[c][j] = queue[c][j + 1]
        BY <1>2, <2>2, <3>1, TakeEffect
      <4>2. i + 1 = j + 1
        BY <2>1, <2>2, <3>1, <4>1
      <4> QED
        BY <4>1, <4>2
    <3>2. CASE d # c
      BY <1>2, <2>2, <3>2, TakeEffect
    <3> QED
      BY <3>1, <3>2
  <2>3. ASSUME NEW j \in Callback, fate'[j] = "queued"
        PROVE  \E i \in DOMAIN queue'[Home[carries[j]]] : queue'[Home[carries[j]]][i] = j
    <3>1. j # k /\ fate[j] = "queued" /\ Home[carries[j]] \in Conv
      BY <1>2, <2>3, TakeEffect, HomeType
    <3>2. PICK i \in DOMAIN queue[Home[carries[j]]] : queue[Home[carries[j]]][i] = j
      BY <3>1
    <3>3. CASE Home[carries[j]] = c
      <4>1. i # 1
        BY <2>1, <3>1, <3>2, <3>3
      <4>2. i - 1 \in DOMAIN queue'[c] /\ queue'[c][i - 1] = queue[c][i]
        BY <1>2, <3>2, <3>3, <4>1, TakeEffect
      <4> QED
        BY <3>2, <3>3, <4>2
    <3>4. CASE Home[carries[j]] # c
      BY <1>2, <3>1, <3>2, <3>4, TakeEffect
    <3> QED
      BY <3>3, <3>4
  <2>4. ASSUME NEW j \in Callback, fate'[j] = "active" PROVE \E u \in Task : holds'[u] = j
    <3>1. CASE j = k
      BY <2>1, <3>1
    <3>2. CASE j # k
      <4>1. fate[j] = "active"
        BY <1>2, <2>4, <3>2, TakeEffect
      <4>2. PICK u \in Task : holds[u] = j
        BY <4>1
      <4>3. holds[t] = NoCallback
        BY <1>2, TakeEffect DEF HoldsBusy, Busy, Claimed
      <4>4. u # t
        BY <4>2, <4>3, DeliveryAssumption
      <4> QED
        BY <1>2, <4>2, <4>4, TakeEffect
    <3> QED
      BY <3>1, <3>2
  <2> QED
    BY <2>1, <2>2, <2>3, <2>4
<1>3. ASSUME NEW t \in Task, Claim(t) \/ MarkProcessed(t) \/ ReleaseClaim(t) PROVE Found'
  <2>1. UNCHANGED <<carries, queue>> /\ at[t] \in Busy
    BY <1>3, ClaimEffect
  <2>2. CASE UNCHANGED <<fate, holds>>
    BY <2>1, <2>2
  <2>3. ASSUME NEW result \in {"skipped", "succeeded", "failed"}, TaskDone(t, result) PROVE Found'
    <3>1. \A j \in Callback : fate'[j] \in {"queued", "active"} => j # holds[t] /\ fate'[j] = fate[j]
      BY <2>1, <2>3, DoneEffect
    <3>2. \A j \in Callback : fate'[j] = "active" => \E u \in Task : u # t /\ holds[u] = j
      BY <3>1
    <3>3. \A j \in Callback : fate'[j] = "active" => \E u \in Task : holds'[u] = j
      BY <2>1, <2>3, <3>2, DoneEffect
    <3> QED
      BY <2>1, <3>1, <3>3
  <2> QED
    BY <1>3, <2>2, <2>3, ClaimEffect
<1>4. CASE Stop \/ Crash
  <2>1. ProcessEnds
    BY <1>4 DEF Stop, Crash
  <2>2. \A k \in Callback : fate'[k] \notin {"queued", "active"}
    BY <2>1 DEF ProcessEnds, Unsettled
  <2>3. \A c \in Conv : DOMAIN queue'[c] = {}
    BY <2>1 DEF ProcessEnds
  <2> QED
    BY <2>2, <2>3
<1>5. ASSUME UNCHANGED <<holds, fate, queue, carries>> PROVE Found'
  BY <1>5
<1>6. ASSUME NEW k \in Callback, Receive(k) \/ GetOrCreateInbox(k) \/ EnsureWorker(k) PROVE Found'
  BY <1>5, <1>6 DEF Receive, GetOrCreateInbox, EnsureWorker, inboxes, workers
<1>7. ASSUME NEW t \in Task, MarkIdleWhenEmpty(t) \/ Handle(t) PROVE Found'
  BY <1>5, <1>7 DEF MarkIdleWhenEmpty, Handle, inboxes, callbacks
<1>8. ASSUME NEW t \in Task, TakeNext(t), queue[t[1]] = << >> PROVE Found'
  BY <1>5, <1>8 DEF TakeNext, callbacks
<1>9. CASE BeginClose \/ Restart \/ \E c \in Conv : Join(c) \/ AwaitWorker(c)
  BY <1>5, <1>9 DEF BeginClose, Join, AwaitWorker, Restart, inboxes, workers, callbacks
<1>10. CASE Rest \/ UNCHANGED vars
  BY <1>5, <1>10 DEF Rest, vars, inboxes, workers, callbacks
<1> QED
  BY <1>1, <1>2, <1>3, <1>4, <1>6, <1>7, <1>8, <1>9, <1>10
     DEF Next, Step, CallbackStep, WorkerStep, CloseStep

(* Is a delivery of the conversation being handled?                         *)
LEMMA HoldingEmpty ==
  ASSUME NEW c \in Conv
  PROVE  (Holding(c) = {}) <=> \A s \in Slot : holds[<<c, s>>] = NoCallback
  BY DEF Holding

(* The count of unfinished tasks follows the queue and the worker.         *)
LEMMA CountedStep ==
  ASSUME TypeOK, OneWorker, HoldsBusy, Placed, Counted, [Next]_vars
  PROVE  Counted'
<1>1. ASSUME UNCHANGED <<queue, holds, unfinished>> PROVE Counted'
  BY <1>1 DEF Counted, Holding
<1>2. ASSUME NEW k \in Callback, Put(k) PROVE Counted'
  <2> DEFINE c == Home[Message(k)]
  <2>1. c \in Conv /\ UNCHANGED holds
    BY <1>2, PutEffect DEF workers
  <2>2. queue'[c] = Append(queue[c], k) /\ unfinished'[c] = unfinished[c] + 1
    BY <1>2, PutEffect
  <2>3. Len(queue'[c]) = Len(queue[c]) + 1 /\ Len(queue[c]) \in Nat
    BY <2>1, <2>2, AppendEffect DEF TypeOK
  <2>4. \A d \in Conv : d # c => queue'[d] = queue[d] /\ unfinished'[d] = unfinished[d]
    BY <1>2, PutEffect
  <2>5. \A d \in Conv : Holding(d)' = Holding(d)
    BY <2>1 DEF Holding
  <2>6. ASSUME NEW d \in Conv
        PROVE  unfinished'[d] = Len(queue'[d]) + IF Holding(d)' = {} THEN 0 ELSE 1
    <3>1. unfinished[d] = Len(queue[d]) + IF Holding(d) = {} THEN 0 ELSE 1
      BY DEF Counted
    <3>2. Holding(d)' = Holding(d)
      BY <2>5
    <3>3. CASE d # c
      BY <2>4, <3>1, <3>2, <3>3
    <3>4. CASE d = c
      <4>1. CASE Holding(d) = {}
        <5>1. unfinished[d] = Len(queue[d]) + 0
          BY <3>1, <4>1
        <5> QED
          BY <2>2, <2>3, <3>2, <3>4, <4>1, <5>1
      <4>2. CASE Holding(d) # {}
        <5>1. unfinished[d] = Len(queue[d]) + 1
          BY <3>1, <4>2
        <5> QED
          BY <2>2, <2>3, <3>2, <3>4, <4>2, <5>1
      <4> QED
        BY <4>1, <4>2
    <3> QED
      BY <3>3, <3>4
  <2> QED
    BY <2>6 DEF Counted
<1>3. ASSUME NEW t \in Task, TakeNext(t), queue[t[1]] # << >> PROVE Counted'
  <2> DEFINE c == t[1]
             k == Head(queue[c])
  <2>1. /\ c \in Conv /\ k \in Callback /\ holds'[t] = k /\ at[t] = "loop" /\ UNCHANGED unfinished
        /\ Len(queue[c]) \in Nat /\ Len(queue'[c]) = Len(queue[c]) - 1
    BY <1>3, TakeEffect
  <2>2. \A d \in Conv : d # c => queue'[d] = queue[d]
    BY <1>3, TakeEffect
  <2>3. \A u \in Task : u # t => holds'[u] = holds[u]
    BY <1>3, TakeEffect
  <2>4. ASSUME NEW s \in Slot PROVE holds[<<c, s>>] = NoCallback
    <3>1. <<c, s>> \in Task
      BY <2>1 DEF Task
    <3>2. CASE s = t[2]
      BY <2>1, <3>2, TaskType DEF HoldsBusy, Busy, Claimed
    <3>3. CASE s # t[2]
      <4>1. at[<<c, s>>] = "off"
        BY <2>1, <3>1, <3>3 DEF OneWorker
      <4> QED
        BY <3>1, <4>1 DEF HoldsBusy, Busy, Claimed
    <3> QED
      BY <3>2, <3>3
  <2>5. Holding(c) = {}
    BY <2>1, <2>4, HoldingEmpty
  <2>6. k \in Holding(c)'
    BY <2>1, TaskType, DeliveryAssumption DEF Holding
  <2>7. ASSUME NEW d \in Conv, d # c PROVE Holding(d)' = Holding(d)
    <3>1. \A s \in Slot : holds'[<<d, s>>] = holds[<<d, s>>]
      BY <2>3, <2>7 DEF Task
    <3> QED
      BY <3>1 DEF Holding
  <2>8. unfinished'[c] = Len(queue'[c]) + 1
    <3>1. unfinished[c] = Len(queue[c]) + IF Holding(c) = {} THEN 0 ELSE 1
      BY <2>1 DEF Counted
    <3>2. unfinished[c] = Len(queue[c])
      BY <2>1, <2>5, <3>1
    <3> QED
      BY <2>1, <3>2
  <2>9. ASSUME NEW d \in Conv
        PROVE  unfinished'[d] = Len(queue'[d]) + IF Holding(d)' = {} THEN 0 ELSE 1
    <3>1. CASE d = c
      BY <2>6, <2>8, <3>1
    <3>2. CASE d # c
      <4>1. unfinished[d] = Len(queue[d]) + IF Holding(d) = {} THEN 0 ELSE 1
        BY DEF Counted
      <4> QED
        BY <2>1, <2>2, <2>7, <3>2, <4>1
    <3> QED
      BY <3>1, <3>2
  <2> QED
    BY <2>9 DEF Counted
<1>4. ASSUME NEW t \in Task, Claim(t) \/ MarkProcessed(t) \/ ReleaseClaim(t) PROVE Counted'
  <2>1. UNCHANGED queue /\ at[t] \in Busy
    BY <1>4, ClaimEffect
  <2>2. ASSUME NEW result \in {"skipped", "succeeded", "failed"}, TaskDone(t, result) PROVE Counted'
    <3>1. t[1] \in Conv /\ unfinished' = [unfinished EXCEPT ![t[1]] = Len(queue[t[1]])]
      BY <2>1, <2>2, SettleEffect
    <3>2. ASSUME NEW s \in Slot PROVE holds'[<<t[1], s>>] = NoCallback
      <4>1. <<t[1], s>> \in Task
        BY <3>1 DEF Task
      <4>2. CASE <<t[1], s>> = t
        BY <2>1, <2>2, <4>2, DoneEffect
      <4>3. CASE <<t[1], s>> # t
        BY <2>1, <2>2, <4>1, <4>3, DoneEffect
      <4> QED
        BY <4>2, <4>3
    <3>3. Holding(t[1])' = {}
      BY <3>2 DEF Holding
    <3>4. ASSUME NEW d \in Conv, d # t[1] PROVE Holding(d)' = Holding(d)
      <4>1. \A s \in Slot : <<d, s>> \in Task /\ <<d, s>> # t
        BY <3>4 DEF Task
      <4>2. \A s \in Slot : holds'[<<d, s>>] = holds[<<d, s>>]
        BY <2>1, <2>2, <4>1, DoneEffect
      <4> QED
        BY <4>2 DEF Holding
    <3>5. unfinished'[t[1]] = Len(queue'[t[1]]) /\ Len(queue[t[1]]) \in Nat
      BY <2>1, <3>1 DEF TypeOK
    <3>6. \A d \in Conv : d # t[1] => unfinished'[d] = unfinished[d]
      BY <3>1 DEF TypeOK
    <3>7. ASSUME NEW d \in Conv
          PROVE  unfinished'[d] = Len(queue'[d]) + IF Holding(d)' = {} THEN 0 ELSE 1
      <4>1. CASE d = t[1]
        BY <2>1, <3>3, <3>5, <4>1
      <4>2. CASE d # t[1]
        <5>1. unfinished[d] = Len(queue[d]) + IF Holding(d) = {} THEN 0 ELSE 1
          BY DEF Counted
        <5> QED
          BY <2>1, <3>4, <3>6, <4>2, <5>1
      <4> QED
        BY <4>1, <4>2
    <3> QED
      BY <3>7 DEF Counted
  <2> QED
    BY <1>1, <1>4, <2>1, <2>2, ClaimEffect
<1>5. CASE Stop \/ Crash
  <2>1. ProcessEnds
    BY <1>5 DEF Stop, Crash
  <2>2. ASSUME NEW c \in Conv PROVE unfinished'[c] = 0 /\ Len(queue'[c]) = 0 /\ Holding(c)' = {}
    <3>1. \A s \in Slot : <<c, s>> \in Task
      BY DEF Task
    <3>2. \A s \in Slot : holds'[<<c, s>>] = NoCallback
      BY <2>1, <3>1 DEF ProcessEnds
    <3> QED
      BY <2>1, <3>2 DEF ProcessEnds, Holding
  <2>3. ASSUME NEW c \in Conv
        PROVE  unfinished'[c] = Len(queue'[c]) + IF Holding(c)' = {} THEN 0 ELSE 1
    <3>1. unfinished'[c] = 0 /\ Len(queue'[c]) = 0 /\ Holding(c)' = {}
      BY <2>2
    <3>2. 0 + (IF Holding(c)' = {} THEN 0 ELSE 1) = 0
      BY <3>1
    <3> QED
      BY <3>1, <3>2
  <2> QED
    BY <2>3 DEF Counted
<1>6. ASSUME NEW k \in Callback, Receive(k) \/ GetOrCreateInbox(k) \/ EnsureWorker(k) PROVE Counted'
  BY <1>1, <1>6 DEF Receive, GetOrCreateInbox, EnsureWorker, inboxes, workers
<1>7. ASSUME NEW t \in Task, MarkIdleWhenEmpty(t) \/ Handle(t) PROVE Counted'
  BY <1>1, <1>7 DEF MarkIdleWhenEmpty, Handle, inboxes
<1>8. ASSUME NEW t \in Task, TakeNext(t), queue[t[1]] = << >> PROVE Counted'
  BY <1>1, <1>8 DEF TakeNext
<1>9. CASE BeginClose \/ Restart \/ \E c \in Conv : Join(c) \/ AwaitWorker(c)
  BY <1>1, <1>9 DEF BeginClose, Join, AwaitWorker, Restart, inboxes, workers
<1>10. CASE Rest \/ UNCHANGED vars
  BY <1>1, <1>10 DEF Rest, vars, inboxes, workers
<1> QED
  BY <1>2, <1>3, <1>4, <1>5, <1>6, <1>7, <1>8, <1>9, <1>10
     DEF Next, Step, CallbackStep, WorkerStep, CloseStep

-----------------------------------------------------------------------------
(* The third layer: the claims of the messages.                            *)

(* Two tasks never work on one message: it has one conversation.           *)
LEMMA SameMessage ==
  ASSUME TypeOK, OneWorker, HoldsBusy, Placed, NEW t \in Task, NEW u \in Task,
         at[t] \in Busy, at[u] \in Busy, Message(holds[t]) = Message(holds[u])
  PROVE  t = u
<1>1. t[1] = u[1]
  BY DEF HoldsBusy, Placed
<1>2. t[2] = u[2]
  BY <1>1 DEF OneWorker, Busy, Claimed
<1> QED
  BY <1>1, <1>2, TaskType

(* A step that leaves the claims and who holds them alone.                 *)
LEMMA ClaimersSame ==
  ASSUME Inv3, UNCHANGED <<carries, claims, phase, turns, ends>>,
         \A u \in Task : at[u] \in Claimed => at'[u] = at[u] /\ holds'[u] = holds[u],
         \A u \in Task : at'[u] \in Claimed => at[u] \in Claimed,
         \A k \in Callback : fate'[k] = "skipped" => fate[k] = "skipped"
  PROVE  Inv3'
<1>1. ClaimsHeld'
  BY DEF Inv3, ClaimsHeld, Claimer, Message
<1>2. TurnLeft'
  BY DEF Inv3, TurnLeft, Claimer, Message, Claimed
<1> QED
  BY <1>1, <1>2 DEF Inv3, TurnsPerLife, SkippedOnlyIfDone, Message

(* A worker claims its message, or skips a delivery of it.                 *)
LEMMA ClaimStep ==
  ASSUME Inv1, Inv2, Inv3, NEW t \in Task, Claim(t)
  PROVE  Inv3'
<1> DEFINE k == holds[t]
           m == Message(k)
<1>1. /\ at[t] = "claim" /\ at[t] \in Busy /\ k \in Callback /\ m \in MsgId
      /\ UNCHANGED <<carries, turns, phase, ends>> /\ phase # "down"
  BY DEF Claim, callbacks, shutdown, Inv1, HoldsBusy, Busy, TypeOK, Message, DownIsDown
<1>2. CASE claims[m] = "absent" /\ claims' = [claims EXCEPT ![m] = "processing"]
           /\ at' = [at EXCEPT ![t] = "handle"] /\ UNCHANGED <<fate, holds, unfinished>>
  <2>1. claims'[m] = "processing" /\ \A n \in MsgId : n # m => claims'[n] = claims[n]
    BY <1>1, <1>2 DEF Inv1, TypeOK
  <2>2. at'[t] = "handle" /\ \A u \in Task : u # t => at'[u] = at[u]
    BY <1>1, <1>2 DEF Inv1, TypeOK
  <2>3. \A u \in Task : at'[u] \in Claimed => u = t \/ at[u] \in Claimed
    BY <2>2
  <2>4. ASSUME NEW u \in Task, at'[u] \in Claimed PROVE claims'[Message(holds[u])] = "processing"
    <3>1. CASE u = t
      BY <2>1, <3>1
    <3>2. CASE u # t
      <4>1. at[u] \in Claimed /\ Message(holds[u]) \in MsgId
        BY <2>2, <2>4, <3>2, DeliveryAssumption
           DEF Inv1, HoldsBusy, Busy, TypeOK, Message
      <4> QED
        BY <2>1, <4>1 DEF Inv3, ClaimsHeld
    <3> QED
      BY <3>1, <3>2
  <2>5. ASSUME NEW n \in MsgId, claims'[n] = "processing" PROVE Claimer(n)' # {}
    <3>1. CASE n = m
      <4>1. t \in Claimer(n)'
        BY <1>1, <1>2, <2>2, <3>1 DEF Claimer, Claimed, Message
      <4> QED
        BY <4>1
    <3>2. CASE n # m
      <4>1. PICK u \in Claimer(n) : TRUE
        BY <1>1, <2>1, <2>5, <3>2 DEF Inv3, ClaimsHeld
      <4>2. u # t
        BY <1>1, <4>1 DEF Claimer, Claimed
      <4>3. u \in Claimer(n)'
        BY <1>1, <1>2, <2>2, <4>1, <4>2 DEF Claimer, Message
      <4> QED
        BY <4>3
    <3> QED
      BY <3>1, <3>2
  <2>6. ClaimsHeld'
    BY <1>1, <1>2, <2>4, <2>5 DEF ClaimsHeld, Message
  <2>7. ASSUME NEW n \in MsgId, claims'[n] # "processed"
        PROVE  turns[n] <= ends \/ \E u \in Claimer(n)' : at'[u] = "mark"
    <3>1. claims[n] # "processed"
      BY <1>2, <2>1, <2>7
    <3>2. ASSUME NEW u \in Claimer(n), at[u] = "mark"
          PROVE  u \in Claimer(n)' /\ at'[u] = "mark"
      BY <1>1, <1>2, <2>2, <3>2 DEF Claimer, Message
    <3> QED
      BY <3>1, <3>2 DEF Inv3, TurnLeft
  <2> QED
    BY <1>1, <1>2, <2>1, <2>6, <2>7 DEF Inv3, TurnLeft, TurnsPerLife, SkippedOnlyIfDone, Message
<1>3. CASE claims[m] # "absent" /\ TaskDone(t, "skipped") /\ UNCHANGED claims
  <2>1. claims[m] = "processed"
    <3> SUFFICES ASSUME claims[m] = "processing"
                 PROVE  FALSE
      BY <1>1, <1>3 DEF Inv1, TypeOK
    <3>1. PICK u \in Task : at[u] \in Claimed /\ Message(holds[u]) = m
      BY <1>1 DEF Inv3, ClaimsHeld, Claimer
    <3>2. u = t
      BY <1>1, <3>1, SameMessage DEF Inv1, Busy
    <3> QED
      BY <1>1, <3>1, <3>2 DEF Claimed
  <2>2. /\ at'[t] = "loop" /\ \A u \in Task : u # t => at'[u] = at[u] /\ holds'[u] = holds[u]
        /\ \A j \in Callback : j # k => fate'[j] = fate[j]
    BY <1>1, <1>3, DoneEffect DEF Inv1, Inv2
  <2>3. /\ \A u \in Task : at[u] \in Claimed => at'[u] = at[u] /\ holds'[u] = holds[u]
        /\ \A u \in Task : at'[u] \in Claimed => at[u] \in Claimed
    BY <1>1, <2>2 DEF Claimed
  <2>4. ClaimsHeld'
    BY <1>1, <1>3, <2>3 DEF Inv3, ClaimsHeld, Claimer, Message
  <2>5. TurnLeft'
    BY <1>1, <1>3, <2>3 DEF Inv3, TurnLeft, Claimer, Message, Claimed
  <2>6. SkippedOnlyIfDone'
    BY <1>1, <1>3, <2>1, <2>2 DEF Inv3, SkippedOnlyIfDone, Message
  <2> QED
    BY <1>1, <2>4, <2>5, <2>6 DEF Inv3, TurnsPerLife
<1> QED
  BY <1>2, <1>3 DEF Claim, Unclaimed

(* The handler comes back, with success or without.                        *)
LEMMA HandleStep ==
  ASSUME Inv1, Inv3, NEW t \in Task, Handle(t)
  PROVE  Inv3'
<1> DEFINE m == Message(holds[t])
<1>1. /\ at[t] = "handle" /\ at[t] \in Busy /\ m \in MsgId
      /\ UNCHANGED <<carries, phase, ends, holds, claims, fate>>
  BY DEF Handle, callbacks, shutdown, Inv1, HoldsBusy, Busy, Claimed, TypeOK, Message
<1>2. /\ at'[t] \in {"mark", "release"} /\ \A u \in Task : u # t => at'[u] = at[u]
      /\ \A u \in Task : at'[u] \in Claimed <=> at[u] \in Claimed
  BY <1>1 DEF Handle, Inv1, TypeOK, Claimed
<1>3. \A n \in MsgId : Claimer(n)' = Claimer(n)
  BY <1>1, <1>2 DEF Claimer, Message
<1>4. ClaimsHeld'
  BY <1>1, <1>2, <1>3 DEF Inv3, ClaimsHeld, Message
<1>5. ASSUME NEW n \in MsgId, NEW u \in Claimer(n), at[u] = "mark" PROVE at'[u] = "mark"
  BY <1>1, <1>2, <1>5 DEF Claimer
<1>6. t \in Claimer(m)
  BY <1>1 DEF Claimer, Claimed
<1>7. turns[m] <= ends
  <2>1. claims[m] # "processed"
    BY <1>1 DEF Inv3, ClaimsHeld, Claimed
  <2>2. ASSUME NEW u \in Claimer(m), at[u] = "mark" PROVE FALSE
    <3>1. u = t
      BY <1>1, <2>2, SameMessage DEF Inv1, Claimer, Busy
    <3> QED
      BY <1>1, <2>2, <3>1
  <2> QED
    BY <1>1, <2>1, <2>2 DEF Inv3, TurnLeft
<1>8. CASE UNCHANGED turns
  <2>1. TurnLeft'
    BY <1>1, <1>3, <1>5, <1>8 DEF Inv3, TurnLeft
  <2> QED
    BY <1>1, <1>4, <1>8, <2>1 DEF Inv3, TurnsPerLife, SkippedOnlyIfDone, Message
<1>9. CASE turns' = [turns EXCEPT ![m] = @ + 1] /\ at' = [at EXCEPT ![t] = "mark"]
  <2>1. turns'[m] = turns[m] + 1 /\ \A n \in MsgId : n # m => turns'[n] = turns[n]
    BY <1>1, <1>9 DEF Inv1, TypeOK
  <2>2. at'[t] = "mark"
    BY <1>9 DEF Inv1, TypeOK
  <2>3. ASSUME NEW n \in MsgId, claims[n] # "processed"
        PROVE  turns'[n] <= ends \/ \E u \in Claimer(n) : at'[u] = "mark"
    <3>1. CASE n = m
      BY <1>6, <2>2, <3>1
    <3>2. CASE n # m
      BY <1>5, <2>1, <2>3, <3>2 DEF Inv3, TurnLeft
    <3> QED
      BY <3>1, <3>2
  <2>4. TurnLeft'
    BY <1>1, <1>3, <2>3 DEF TurnLeft
  <2>5. turns'[m] <= 1 + ends
    BY <1>1, <1>7, <2>1 DEF Inv1, TypeOK
  <2>6. TurnsPerLife'
    BY <1>1, <2>1, <2>5 DEF Inv3, TurnsPerLife
  <2> QED
    BY <1>1, <1>4, <2>4, <2>6 DEF Inv3, SkippedOnlyIfDone, Message
<1> QED
  BY <1>8, <1>9 DEF Handle

(* The claim of a message that is settled leaves no trace with the others. *)
LEMMA SettledClaim ==
  ASSUME Inv1, Inv2, Inv3, NEW t \in Task, at[t] \in Claimed,
         NEW result \in {"succeeded", "failed"}, TaskDone(t, result),
         NEW m, m = Message(holds[t]), NEW row \in {"absent", "processed"},
         claims' = [claims EXCEPT ![m] = row],
         UNCHANGED <<carries, turns, phase, ends>>,
         row = "absent" => turns[m] <= ends
  PROVE  Inv3'
<1>1. at[t] \in Busy /\ m \in MsgId /\ holds[t] \in Callback
  BY DEF Inv1, HoldsBusy, Busy, TypeOK, Message
<1>2. claims[m] = "processing"
  BY DEF Inv3, ClaimsHeld
<1>3. claims'[m] = row /\ \A n \in MsgId : n # m => claims'[n] = claims[n]
  BY <1>1 DEF Inv1, TypeOK
<1>4. /\ at'[t] = "loop" /\ \A u \in Task : u # t => at'[u] = at[u] /\ holds'[u] = holds[u]
      /\ fate'[holds[t]] = result /\ \A j \in Callback : j # holds[t] => fate'[j] = fate[j]
  BY <1>1, DoneEffect DEF Inv1, Inv2
<1>5. ASSUME NEW u \in Task, at'[u] \in Claimed
      PROVE  u # t /\ at[u] \in Claimed /\ Message(holds[u]) \in MsgId \ {m}
  <2>1. u # t /\ at[u] \in Claimed
    BY <1>4, <1>5 DEF Claimed
  <2>2. at[u] \in Busy
    BY <2>1 DEF Busy
  <2>3. Message(holds[u]) # m
    BY <1>1, <2>1, <2>2, SameMessage DEF Inv1
  <2> QED
    BY <2>1, <2>2, <2>3 DEF Inv1, HoldsBusy, TypeOK, Message
<1>6. \A n \in MsgId : n # m => Claimer(n)' = Claimer(n)
  BY <1>4, <1>5 DEF Claimer, Message
<1>7. ClaimsHeld'
  <2>1. \A u \in Task : at'[u] \in Claimed => claims'[Message(holds[u])] = "processing"
    BY <1>3, <1>5 DEF Inv3, ClaimsHeld
  <2>2. \A n \in MsgId : claims'[n] = "processing" /\ phase # "down" => Claimer(n)' # {}
    BY <1>3, <1>6 DEF Inv3, ClaimsHeld
  <2> QED
    BY <1>4, <1>5, <2>1, <2>2 DEF ClaimsHeld, Message
<1>8. TurnLeft'
  <2>1. ASSUME NEW n \in MsgId, n # m, claims'[n] # "processed"
        PROVE  turns[n] <= ends \/ \E u \in Claimer(n)' : at'[u] = "mark"
    <3>1. ASSUME NEW u \in Claimer(n), at[u] = "mark" PROVE at'[u] = "mark"
      BY <1>4, <2>1, <3>1 DEF Claimer
    <3> QED
      BY <1>3, <1>6, <2>1, <3>1 DEF Inv3, TurnLeft
  <2> QED
    BY <1>3, <2>1 DEF TurnLeft
<1>9. SkippedOnlyIfDone'
  <2>1. ASSUME NEW j \in Callback, fate'[j] = "skipped" PROVE claims'[carries[j]] = "processed"
    <3>1. fate[j] = "skipped"
      BY <1>4, <2>1
    <3>2. claims[carries[j]] = "processed" /\ carries[j] \in MsgId
      BY <3>1 DEF Inv1, TypeOK, Inv3, SkippedOnlyIfDone, Message
    <3> QED
      BY <1>2, <1>3, <3>2
  <2> QED
    BY <2>1 DEF SkippedOnlyIfDone, Message
<1> QED
  BY <1>7, <1>8, <1>9 DEF Inv3, TurnsPerLife

(* The mark succeeds: nobody else has touched the claim.                   *)
LEMMA MarkStep ==
  ASSUME Inv1, Inv2, Inv3, NEW t \in Task, MarkProcessed(t)
  PROVE  Inv3'
<1> DEFINE m == Message(holds[t])
<1>1. at[t] = "mark" /\ at[t] \in Claimed /\ claims[m] = "processing"
  BY DEF MarkProcessed, Claimed, Inv3, ClaimsHeld
<1>2. /\ claims' = [claims EXCEPT ![m] = "processed"] /\ TaskDone(t, "succeeded")
      /\ UNCHANGED <<carries, turns, phase, ends>>
  BY <1>1 DEF MarkProcessed, callbacks, shutdown
<1> QED
  BY <1>1, <1>2, SettledClaim

(* A claim that is released leaves the message its turn.                   *)
LEMMA ReleaseStep ==
  ASSUME Inv1, Inv2, Inv3, NEW t \in Task, ReleaseClaim(t)
  PROVE  Inv3'
<1> DEFINE m == Message(holds[t])
<1>1. /\ at[t] = "release" /\ at[t] \in Claimed /\ at[t] \in Busy /\ claims[m] = "processing"
      /\ m \in MsgId
  BY DEF ReleaseClaim, Claimed, Busy, Inv3, ClaimsHeld, Inv1, HoldsBusy, TypeOK, Message
<1>2. /\ claims' = [claims EXCEPT ![m] = "absent"] /\ TaskDone(t, "failed")
      /\ UNCHANGED <<carries, turns, phase, ends>>
  BY <1>1 DEF ReleaseClaim, callbacks, shutdown
<1>3. ASSUME NEW u \in Claimer(m), at[u] = "mark" PROVE FALSE
  <2>1. u = t
    BY <1>1, <1>3, SameMessage DEF Inv1, Claimer, Busy
  <2> QED
    BY <1>1, <1>3, <2>1
<1>4. turns[m] <= ends
  BY <1>1, <1>3 DEF Inv3, TurnLeft
<1> QED
  BY <1>1, <1>2, <1>4, SettledClaim

(* The end of the process makes room for one more turn, the next start     *)
(* for one more claim.                                                      *)
LEMMA EndStep ==
  ASSUME Inv1, Inv3, Stop \/ Crash \/ Restart
  PROVE  Inv3'
<1>1. CASE Stop \/ Crash
  <2>1. ProcessEnds
    BY <1>1 DEF Stop, Crash
  <2>2. /\ phase' = "down" /\ ends' = ends + 1 /\ UNCHANGED <<carries, claims, turns>>
        /\ \A t \in Task : at'[t] = "off"
        /\ \A k \in Callback : fate'[k] = "skipped" => fate[k] = "skipped"
    BY <2>1 DEF ProcessEnds
  <2>3. ClaimsHeld'
    BY <2>2 DEF ClaimsHeld, Claimed
  <2>4. \A m \in MsgId : turns'[m] <= ends' /\ turns'[m] <= 1 + ends'
    BY <2>2 DEF Inv1, TypeOK, Inv3, TurnsPerLife
  <2>5. SkippedOnlyIfDone'
    BY <2>2 DEF Inv3, SkippedOnlyIfDone, Message
  <2> QED
    BY <2>3, <2>4, <2>5 DEF Inv3, TurnLeft, TurnsPerLife
<1>2. CASE Restart
  <2>1. /\ phase = "down" /\ UNCHANGED <<carries, at, holds, fate, turns, ends>>
        /\ \A m \in MsgId : claims'[m] = IF claims[m] = "processing" THEN "absent" ELSE claims[m]
    BY <1>2 DEF Restart, ReleasedClaims, callbacks, workers
  <2>2. \A t \in Task : at[t] = "off"
    BY <2>1 DEF Inv1, DownIsDown
  <2>3. ClaimsHeld'
    BY <2>1, <2>2 DEF ClaimsHeld, Claimed
  <2>4. \A m \in MsgId : Claimer(m) = {}
    BY <2>2 DEF Claimer, Claimed
  <2>5. TurnLeft'
    BY <2>1, <2>4 DEF Inv3, TurnLeft
  <2>6. SkippedOnlyIfDone'
    <3>1. \A k \in Callback : carries[k] \in MsgId
      BY DEF Inv1, TypeOK
    <3> QED
      BY <2>1, <3>1 DEF Inv3, SkippedOnlyIfDone, Message
  <2> QED
    BY <2>1, <2>3, <2>5, <2>6 DEF Inv3, TurnsPerLife
<1> QED
  BY <1>1, <1>2

(* Every step keeps the claims right.                                       *)
LEMMA Layer3Step ==
  ASSUME Inv1, Inv2, Inv3, [Next]_vars
  PROVE  Inv3'
<1>1. ASSUME NEW k \in Callback, Receive(k) \/ GetOrCreateInbox(k) PROVE Inv3'
  BY <1>1, ClaimersSame DEF Receive, GetOrCreateInbox, workers, shutdown
<1>2. ASSUME NEW k \in Callback, Put(k) PROVE Inv3'
  <2>1. UNCHANGED <<carries, at, holds, claims, turns, phase, ends>>
    BY <1>2 DEF Put, workers, shutdown
  <2>2. \A j \in Callback : fate'[j] = "skipped" => fate[j] = "skipped"
    BY <1>2 DEF Put, Inv1, TypeOK
  <2> QED
    BY <2>1, <2>2, ClaimersSame
<1>3. ASSUME NEW k \in Callback, EnsureWorker(k) PROVE Inv3'
  <2>1. UNCHANGED <<carries, holds, claims, fate, turns, phase, ends>>
    BY <1>3 DEF EnsureWorker, shutdown
  <2>2. \A u \in Task : at'[u] = at[u] \/ (at[u] = "off" /\ at'[u] = "loop")
    BY <1>3 DEF EnsureWorker, Inv1, TypeOK
  <2>3. \A u \in Task : (at[u] \in Claimed => at'[u] = at[u]) /\ (at'[u] \in Claimed => at[u] \in Claimed)
    BY <2>2 DEF Claimed
  <2> QED
    BY <2>1, <2>3, ClaimersSame
<1>4. ASSUME NEW t \in Task, TakeNext(t) PROVE Inv3'
  <2>1. UNCHANGED <<carries, claims, turns, phase, ends>> /\ at[t] = "loop"
    BY <1>4 DEF TakeNext, callbacks, shutdown
  <2>2. /\ at'[t] \in {"claim", "empty"} /\ \A u \in Task : u # t => at'[u] = at[u]
        /\ \A u \in Task : u # t => holds'[u] = holds[u]
        /\ \A k \in Callback : fate'[k] = "skipped" => fate[k] = "skipped"
    BY <1>4 DEF TakeNext, Inv1, TypeOK
  <2>3. /\ \A u \in Task : at[u] \in Claimed => at'[u] = at[u] /\ holds'[u] = holds[u]
        /\ \A u \in Task : at'[u] \in Claimed => at[u] \in Claimed
    BY <2>1, <2>2 DEF Claimed
  <2> QED
    BY <2>1, <2>2, <2>3, ClaimersSame
<1>5. ASSUME NEW t \in Task, MarkIdleWhenEmpty(t) PROVE Inv3'
  <2>1. UNCHANGED <<carries, holds, claims, fate, turns, phase, ends>> /\ at[t] = "empty"
    BY <1>5 DEF MarkIdleWhenEmpty, callbacks, shutdown
  <2>2. at'[t] \in {"loop", "off"} /\ \A u \in Task : u # t => at'[u] = at[u]
    BY <1>5 DEF MarkIdleWhenEmpty, Inv1, TypeOK
  <2>3. \A u \in Task : (at[u] \in Claimed => at'[u] = at[u]) /\ (at'[u] \in Claimed => at[u] \in Claimed)
    BY <2>1, <2>2 DEF Claimed
  <2> QED
    BY <2>1, <2>3, ClaimersSame
<1>6. CASE BeginClose \/ \E c \in Conv : Join(c) \/ AwaitWorker(c)
  <2>1. UNCHANGED <<carries, at, holds, claims, fate, turns, ends>>
    BY <1>6 DEF BeginClose, Join, AwaitWorker, callbacks, workers
  <2>2. phase # "down"
    BY <1>6 DEF BeginClose, Join, AwaitWorker
  <2> QED
    BY <2>1, <2>2 DEF Inv3, ClaimsHeld, TurnLeft, TurnsPerLife, SkippedOnlyIfDone, Claimer, Message
<1>7. CASE Rest \/ UNCHANGED vars
  <2>1. UNCHANGED vars
    BY <1>7 DEF Rest
  <2> QED
    BY <2>1, ClaimersSame DEF vars, callbacks, inboxes, workers, shutdown
<1> QED
  BY <1>1, <1>2, <1>3, <1>4, <1>5, <1>6, <1>7, ClaimStep, HandleStep, MarkStep, ReleaseStep, EndStep
     DEF Next, Step, CallbackStep, WorkerStep, CloseStep

-----------------------------------------------------------------------------
(* The close, and the wake-up of a worker.                                  *)

(* What a step that is not the end of the process does to the fates.       *)
LEMMA FateStep ==
  ASSUME Inv1, Inv2, [Next]_vars, ~Stop, ~Crash
  PROVE  /\ UNCHANGED carries
         /\ \A k \in Callback :
              \/ fate'[k] = fate[k]
              \/ fate[k] = "none" /\ fate'[k] = "queued"
              \/ fate[k] = "queued" /\ fate'[k] = "active"
              \/ fate[k] = "active" /\ fate'[k] \in {"skipped", "succeeded", "failed"}
<1>1. ASSUME NEW k \in Callback, Receive(k) \/ GetOrCreateInbox(k) \/ EnsureWorker(k)
      PROVE  UNCHANGED <<carries, fate>>
  BY <1>1 DEF Receive, GetOrCreateInbox, EnsureWorker
<1>2. ASSUME NEW k \in Callback, Put(k)
      PROVE  /\ fate[k] = "none" /\ fate'[k] = "queued" /\ UNCHANGED carries
             /\ \A j \in Callback : j # k => fate'[j] = fate[j]
  BY <1>2 DEF Put, Inv1, Early, TypeOK
<1>3. ASSUME NEW t \in Task, TakeNext(t), queue[t[1]] # << >>
      PROVE  /\ UNCHANGED carries /\ fate[Head(queue[t[1]])] = "queued"
             /\ fate'[Head(queue[t[1]])] = "active"
             /\ \A j \in Callback : j # Head(queue[t[1]]) => fate'[j] = fate[j]
  BY <1>3, TakeEffect DEF callbacks, Inv1, Placed
<1>4. ASSUME NEW t \in Task, TakeNext(t), queue[t[1]] = << >> PROVE UNCHANGED <<carries, fate>>
  BY <1>4 DEF TakeNext, callbacks
<1>5. ASSUME NEW t \in Task, Claim(t) \/ MarkProcessed(t) \/ ReleaseClaim(t)
      PROVE  /\ UNCHANGED carries
             /\ \A k \in Callback : \/ fate'[k] = fate[k]
                                    \/ fate[k] = "active" /\ fate'[k] \in {"skipped", "succeeded", "failed"}
  <2>1. at[t] \in Busy /\ UNCHANGED carries
    BY <1>5, ClaimEffect
  <2>2. ASSUME NEW result \in {"skipped", "succeeded", "failed"}, TaskDone(t, result)
        PROVE  /\ fate[holds[t]] = "active" /\ fate'[holds[t]] = result
               /\ \A j \in Callback : j # holds[t] => fate'[j] = fate[j]
    BY <2>1, <2>2, SettleEffect, DoneEffect DEF Inv1, Inv2
  <2> QED
    BY <1>5, <2>1, <2>2, ClaimEffect
<1>6. ASSUME NEW t \in Task, MarkIdleWhenEmpty(t) \/ Handle(t) PROVE UNCHANGED <<carries, fate>>
  BY <1>6 DEF MarkIdleWhenEmpty, Handle, callbacks
<1>7. ASSUME BeginClose \/ Restart \/ \E c \in Conv : Join(c) \/ AwaitWorker(c)
      PROVE  UNCHANGED <<carries, fate>>
  BY <1>7 DEF BeginClose, Join, AwaitWorker, Restart, callbacks
<1>8. ASSUME Rest \/ UNCHANGED vars PROVE UNCHANGED <<carries, fate>>
  BY <1>8 DEF Rest, vars, callbacks
<1> QED
  BY <1>1, <1>2, <1>3, <1>4, <1>5, <1>6, <1>7, <1>8
     DEF Next, Step, CallbackStep, WorkerStep, CloseStep

(* Only the close itself moves the close.                                   *)
LEMMA CloseFrame ==
  ASSUME [Next]_vars, ~BeginClose, ~Stop, ~Crash, ~Restart,
         \A c \in Conv : ~Join(c) /\ ~AwaitWorker(c)
  PROVE  UNCHANGED shutdown
<1>1. ASSUME NEW k \in Callback, Receive(k) \/ CallbackStep(k) PROVE UNCHANGED shutdown
  BY <1>1 DEF Receive, CallbackStep, GetOrCreateInbox, Put, EnsureWorker
<1>2. ASSUME NEW t \in Task, WorkerStep(t) PROVE UNCHANGED shutdown
  BY <1>2 DEF WorkerStep, TakeNext, MarkIdleWhenEmpty, Claim, Handle, MarkProcessed, ReleaseClaim
<1> QED
  BY <1>1, <1>2 DEF Next, Step, CloseStep, Rest, vars

(* Once the queue of an inbox is joined, nothing of it is unsettled.       *)
LEMMA DrainedSettled ==
  ASSUME Inv1, Inv2, NEW c \in Conv, unfinished[c] = 0
  PROVE  \A k \in Unsettled : Home[Message(k)] # c
<1>1. Len(queue[c]) = 0 /\ Holding(c) = {}
  <2>1. unfinished[c] = Len(queue[c]) + IF Holding(c) = {} THEN 0 ELSE 1
    BY DEF Inv2, Counted
  <2>2. Len(queue[c]) \in Nat
    BY DEF Inv1, TypeOK
  <2>3. CASE Holding(c) = {}
    <3>1. unfinished[c] = Len(queue[c]) + 0
      BY <2>1, <2>3
    <3> QED
      BY <2>2, <2>3, <3>1
  <2>4. CASE Holding(c) # {}
    <3>1. unfinished[c] = Len(queue[c]) + 1
      BY <2>1, <2>4
    <3> QED
      BY <2>2, <3>1
  <2> QED
    BY <2>3, <2>4
<1>2. DOMAIN queue[c] = {}
  BY <1>1 DEF Inv1, TypeOK
<1> SUFFICES ASSUME NEW k \in Unsettled, Home[Message(k)] = c
             PROVE  FALSE
  OBVIOUS
<1>3. k \in Callback /\ fate[k] \in {"queued", "active"}
  BY DEF Unsettled
<1>4. CASE fate[k] = "queued"
  BY <1>2, <1>3, <1>4 DEF Inv2, Found
<1>5. CASE fate[k] = "active"
  <2>1. PICK t \in Task : holds[t] = k
    BY <1>3, <1>5 DEF Inv2, Found
  <2>2. t[1] = c
    BY <1>3, <2>1, DeliveryAssumption DEF Inv1, Placed
  <2>3. k \in Holding(c)
    BY <1>3, <2>1, <2>2, TaskType, DeliveryAssumption DEF Holding
  <2> QED
    BY <1>1, <2>3
<1> QED
  BY <1>3, <1>4, <1>5

(* What a stop owes stays in an inbox that it joins, until it is settled.  *)
LEMMA OwedStep ==
  ASSUME Inv1, Inv2, OwedJoins, [Next]_vars
  PROVE  OwedJoins'
<1>1. CASE BeginClose
  <2>1. /\ phase' = "closing" /\ owed' = Unsettled /\ UNCHANGED <<carries, fate>>
        /\ \A c \in Conv : c \in known => closing'[c] = "join"
    BY <1>1 DEF BeginClose, callbacks
  <2>2. \A k \in Unsettled : k \in Callback /\ Home[Message(k)] \in known /\ fate[k] \notin {"none", "lost"}
    BY DEF Inv1, Early, Unsettled
  <2>3. \A k \in Callback : Home[Message(k)] \in Conv
    BY HomeType DEF Inv1
  <2> QED
    BY <2>1, <2>2, <2>3 DEF OwedJoins, Message
<1>2. ASSUME NEW c \in Conv, Join(c) PROVE OwedJoins'
  <2>1. /\ phase = "closing" /\ UNCHANGED <<phase, owed, carries, fate>> /\ unfinished[c] = 0
        /\ \A d \in Conv : d # c => closing'[d] = closing[d]
    BY <1>2 DEF Join, Drained, callbacks, Inv1, TypeOK
  <2>2. \A k \in Unsettled : k \in Callback /\ Home[Message(k)] \in Conv /\ Home[Message(k)] # c
    BY <2>1, DrainedSettled, HomeType DEF Inv1, Unsettled
  <2>3. Unsettled' = Unsettled
    BY <2>1 DEF Unsettled
  <2> QED
    BY <2>1, <2>2, <2>3 DEF OwedJoins, Message
<1>3. ASSUME NEW c \in Conv, AwaitWorker(c) PROVE OwedJoins'
  <2>1. /\ phase = "closing" /\ UNCHANGED <<phase, owed, carries, fate>> /\ closing[c] = "await"
        /\ \A d \in Conv : d # c => closing'[d] = closing[d]
    BY <1>3 DEF AwaitWorker, callbacks, Inv1, TypeOK
  <2>2. \A k \in owed : k \in Callback /\ Home[Message(k)] \in Conv
    BY HomeType DEF Inv1, TypeOK
  <2>3. Unsettled' = Unsettled
    BY <2>1 DEF Unsettled
  <2> QED
    BY <2>1, <2>2, <2>3 DEF OwedJoins, Message
<1>4. CASE Stop \/ Crash
  BY <1>4 DEF Stop, Crash, ProcessEnds, OwedJoins
<1>5. CASE Restart
  BY <1>5 DEF Restart, OwedJoins
<1>6. ASSUME UNCHANGED shutdown, ~Stop, ~Crash PROVE OwedJoins'
  <2>1. UNCHANGED <<phase, owed, closing>>
    BY <1>6 DEF shutdown
  <2>2. \A k \in owed : k \in Callback
    BY DEF Inv1, TypeOK
  <2>3. \A k \in Callback : fate[k] \notin {"none", "lost"} =>
          fate'[k] \notin {"none", "lost"} /\ (k \in Unsettled' => k \in Unsettled)
    BY <1>6, FateStep DEF Unsettled
  <2>4. UNCHANGED carries
    BY <1>6, FateStep
  <2> QED
    BY <2>1, <2>2, <2>3, <2>4 DEF OwedJoins, Message
<1> QED
  BY <1>1, <1>2, <1>3, <1>4, <1>5, <1>6, CloseFrame

(* An orderly stop loses nothing it owes.                                   *)
LEMMA CloseLosesNothingStep ==
  ASSUME Inv1, Inv2, OwedJoins, CloseLosesNothing, [Next]_vars
  PROVE  CloseLosesNothing'
<1>1. CASE Stop
  <2>1. /\ phase = "closing" /\ UNCHANGED owed /\ \A c \in Conv : closing[c] # "join"
        /\ \A k \in Callback : fate'[k] = IF k \in Unsettled THEN "lost" ELSE fate[k]
    BY <1>1 DEF Stop, ProcessEnds
  <2>2. \A k \in owed : k \in Callback /\ Home[Message(k)] \in Conv
    BY HomeType DEF Inv1, TypeOK
  <2>3. \A k \in owed : k \notin Unsettled
    BY <2>1, <2>2 DEF OwedJoins
  <2>4. \A k \in owed : fate[k] # "lost"
    BY DEF CloseLosesNothing
  <2>5. \A k \in owed : fate'[k] = fate[k]
    BY <2>1, <2>2, <2>3
  <2> QED
    BY <2>1, <2>4, <2>5 DEF CloseLosesNothing
<1>2. CASE Crash \/ Restart
  BY <1>2 DEF Crash, Restart, CloseLosesNothing
<1>3. CASE BeginClose
  BY <1>3 DEF BeginClose, CloseLosesNothing, Unsettled
<1>4. ASSUME UNCHANGED owed, ~Stop, ~Crash PROVE CloseLosesNothing'
  <2>1. \A k \in owed : k \in Callback
    BY DEF Inv1, TypeOK
  <2> QED
    BY <1>4, <2>1, FateStep DEF CloseLosesNothing
<1>5. ASSUME NEW c \in Conv, Join(c) \/ AwaitWorker(c) PROVE UNCHANGED owed
  BY <1>5 DEF Join, AwaitWorker
<1> QED
  BY <1>1, <1>2, <1>3, <1>4, <1>5, CloseFrame DEF shutdown

(* An inbox in which events wait has a worker or will have one.            *)
LEMMA NoLostWakeupStep ==
  ASSUME Inv1, NoLostWakeup, [Next]_vars, TypeOK', OneWorker'
  PROVE  NoLostWakeup'
<1> DEFINE Woken(c) == current[c] # NoTask \/ \E k \in Callback : pc[k] = "ensure" /\ Home[carries[k]] = c
<1>1. \A c \in Conv : queue[c] # << >> => Woken(c)
  BY DeliveryAssumption DEF NoLostWakeup, Message
<1>2. ASSUME \A c \in Conv : queue'[c] # << >> => Woken(c)'
      PROVE  NoLostWakeup'
  <2>1. \A c \in Conv : current'[c] # NoTask => current'[c] \in Slot /\ at'[<<c, current'[c]>>] # "off"
    BY DEF TypeOK, OneWorker
  <2> QED
    BY <1>2, <2>1 DEF NoLostWakeup, Message
<1>3. ASSUME NEW k \in Callback, Put(k) PROVE NoLostWakeup'
  <2> DEFINE h == Home[Message(k)]
  <2>1. /\ h \in Conv /\ UNCHANGED <<carries, current>> /\ pc' = [pc EXCEPT ![k] = "ensure"]
        /\ pc[k] = "put" /\ \A d \in Conv : d # h => queue'[d] = queue[d]
    BY <1>3, PutEffect DEF Inv1
  <2>2. pc'[k] = "ensure" /\ \A j \in Callback : j # k => pc'[j] = pc[j]
    BY <2>1 DEF Inv1, TypeOK
  <2>3. \A d \in Conv : queue'[d] # << >> => Woken(d)'
    BY <1>1, <2>1, <2>2 DEF Message
  <2> QED
    BY <1>2, <2>3
<1>4. ASSUME NEW k \in Callback, EnsureWorker(k) PROVE NoLostWakeup'
  <2> DEFINE h == Home[Message(k)]
  <2>1. h \in Conv /\ UNCHANGED <<carries, queue>>
    BY <1>4, HomeType DEF EnsureWorker, Inv1
  <2>2. current'[h] # NoTask /\ \A d \in Conv : d # h => current'[d] = current[d]
    <3>1. CASE UNCHANGED current /\ current[h] # NoTask
      BY <3>1
    <3>2. ASSUME NEW s \in Slot, current' = [current EXCEPT ![h] = s]
          PROVE  current'[h] # NoTask /\ \A d \in Conv : d # h => current'[d] = current[d]
      BY <2>1, <3>2, DeliveryAssumption DEF Inv1, TypeOK
    <3> QED
      BY <1>4, <3>1, <3>2 DEF EnsureWorker, NeedsWorker
  <2>3. \A j \in Callback : j # k => pc'[j] = pc[j]
    BY <1>4 DEF EnsureWorker, Inv1, TypeOK
  <2>4. \A d \in Conv : queue'[d] # << >> => Woken(d)'
    BY <1>1, <2>1, <2>2, <2>3 DEF Message
  <2> QED
    BY <1>2, <2>4
<1>5. ASSUME NEW k \in Callback, Receive(k) \/ GetOrCreateInbox(k) PROVE NoLostWakeup'
  <2>1. UNCHANGED <<carries, queue, current>> /\ pc[k] # "ensure"
    BY <1>5 DEF Receive, GetOrCreateInbox, inboxes
  <2>2. \A j \in Callback : j # k => pc'[j] = pc[j]
    BY <1>5 DEF Receive, GetOrCreateInbox, Inv1, TypeOK
  <2>3. \A d \in Conv : queue'[d] # << >> => Woken(d)'
    BY <1>1, <2>1, <2>2
  <2> QED
    BY <1>2, <2>3
<1>6. ASSUME NEW t \in Task, MarkIdleWhenEmpty(t) PROVE NoLostWakeup'
  <2>1. UNCHANGED <<pc, carries, queue>> /\ (queue[t[1]] = << >> \/ UNCHANGED current)
    BY <1>6 DEF MarkIdleWhenEmpty, MayRetire, callbacks
  <2>2. \A d \in Conv : d # t[1] => current'[d] = current[d]
    BY <1>6 DEF MarkIdleWhenEmpty, Inv1, TypeOK
  <2>3. \A d \in Conv : queue'[d] # << >> => Woken(d)'
    BY <1>1, <2>1, <2>2
  <2> QED
    BY <1>2, <2>3
<1>7. ASSUME NEW t \in Task, TakeNext(t) PROVE NoLostWakeup'
  <2>1. UNCHANGED <<pc, carries, current>>
    BY <1>7 DEF TakeNext, callbacks
  <2>2. \A d \in Conv : queue'[d] # << >> => queue[d] # << >>
    <3>1. CASE queue[t[1]] # << >>
      BY <1>7, <3>1, TakeEffect DEF Inv1
    <3>2. CASE queue[t[1]] = << >>
      BY <1>7, <3>2 DEF TakeNext
    <3> QED
      BY <3>1, <3>2
  <2>3. \A d \in Conv : queue'[d] # << >> => Woken(d)'
    BY <1>1, <2>1, <2>2
  <2> QED
    BY <1>2, <2>3
<1>8. ASSUME UNCHANGED <<pc, carries, queue, current>> PROVE NoLostWakeup'
  BY <1>1, <1>2, <1>8
<1>9. ASSUME NEW t \in Task, Claim(t) \/ MarkProcessed(t) \/ ReleaseClaim(t) \/ Handle(t) PROVE NoLostWakeup'
  BY <1>8, <1>9, ClaimEffect DEF Handle, callbacks, inboxes
<1>10. CASE BeginClose \/ Restart \/ \E c \in Conv : Join(c) \/ AwaitWorker(c)
  BY <1>8, <1>10 DEF BeginClose, Join, AwaitWorker, Restart, inboxes, callbacks
<1>11. CASE Stop \/ Crash
  BY <1>11 DEF Stop, Crash, ProcessEnds, NoLostWakeup
<1>12. CASE Rest \/ UNCHANGED vars
  BY <1>8, <1>12 DEF Rest, vars, inboxes, callbacks
<1> QED
  BY <1>3, <1>4, <1>5, <1>6, <1>7, <1>9, <1>10, <1>11, <1>12
     DEF Next, Step, CallbackStep, WorkerStep, CloseStep

-----------------------------------------------------------------------------
(* The theorems.                                                            *)

(* At first nothing is queued and no worker runs.                          *)
LEMMA InitIInv == Init => IInv
<1> SUFFICES ASSUME Init
             PROVE  IInv
  OBVIOUS
<1> USE DeliveryAssumption DEF Init
<1>1. Inv1
  BY InitLayer1
<1>2. Found
  BY DEF Found
<1>3. Counted
  <2>1. ASSUME NEW c \in Conv PROVE unfinished[c] = Len(queue[c]) + IF Holding(c) = {} THEN 0 ELSE 1
    <3>1. unfinished[c] = 0 /\ Len(queue[c]) = 0
      OBVIOUS
    <3>2. Holding(c) = {}
      BY DEF Holding, Task
    <3>3. 0 + (IF Holding(c) = {} THEN 0 ELSE 1) = 0
      BY <3>2
    <3> QED
      BY <3>1, <3>3
  <2> QED
    BY <2>1 DEF Counted
<1>4. Inv3
  BY DEF Inv3, ClaimsHeld, TurnLeft, TurnsPerLife, SkippedOnlyIfDone, Claimed
<1>5. OwedJoins /\ CloseLosesNothing /\ NoLostWakeup
  BY DEF OwedJoins, CloseLosesNothing, NoLostWakeup
<1> QED
  BY <1>1, <1>2, <1>3, <1>4, <1>5 DEF IInv, Inv2

(* Every step keeps the invariant.                                         *)
LEMMA IInvStep == IInv /\ [Next]_vars => IInv'
<1> SUFFICES ASSUME IInv, [Next]_vars
             PROVE  IInv'
  OBVIOUS
<1>1. Inv1'
  BY TypeStep, OneWorkerStep, HoldsBusyStep, PlacedStep, EarlyStep, DownStep DEF IInv, Inv1, Inv2
<1>2. Inv2'
  BY FoundStep, CountedStep DEF IInv, Inv1, Inv2
<1>3. Inv3'
  BY Layer3Step DEF IInv
<1>4. OwedJoins'
  BY OwedStep DEF IInv
<1>5. CloseLosesNothing'
  BY CloseLosesNothingStep DEF IInv
<1>6. NoLostWakeup'
  BY <1>1, NoLostWakeupStep DEF IInv, Inv1
<1> QED
  BY <1>1, <1>2, <1>3, <1>4, <1>5, <1>6 DEF IInv

(* The inductive invariant holds in every reachable state.                 *)
THEOREM Invariance == Spec => []IInv
  BY InitIInv, IInvStep, PTL DEF Spec

(* Every variable of the delivery has its type. (main, store, session)     *)
THEOREM DeliveryTypes == Spec => []TypeOK
<1>1. IInv => TypeOK
  BY DEF IInv, Inv1
<1> QED
  BY <1>1, Invariance, PTL

(* The handler of a message succeeds at most once in a life of the process, *)
(* however often the message is delivered. (claims in SQLite)              *)
THEOREM OneTurnPerLife == Spec => []TurnsPerLife
<1>1. IInv => TurnsPerLife
  BY DEF IInv, Inv3
<1> QED
  BY <1>1, Invariance, PTL

(* Only a delivery of a message that was handled with success is skipped.  *)
THEOREM SkippedMeansDone == Spec => []SkippedOnlyIfDone
<1>1. IInv => SkippedOnlyIfDone
  BY DEF IInv, Inv3
<1> QED
  BY <1>1, Invariance, PTL

(* An inbox with waiting events has a worker, or a callback about to start *)
(* one. (_mark_idle_when_empty, _ensure_worker)                            *)
THEOREM WorkersAwake == Spec => []NoLostWakeup
<1>1. IInv => NoLostWakeup
  BY DEF IInv
<1> QED
  BY <1>1, Invariance, PTL

(* An orderly stop loses no event accepted before it. (close, join)        *)
THEOREM StopLosesNothing == Spec => []CloseLosesNothing
<1>1. IInv => CloseLosesNothing
  BY DEF IInv
<1> QED
  BY <1>1, Invariance, PTL

-----------------------------------------------------------------------------
(* The refinement: the inboxes are serial queues.                          *)

busyNow == [c \in Conv |-> IF Holding(c) = {} THEN NoCallback ELSE CHOOSE k \in Holding(c) : TRUE]

(* A step that leaves what is held and what waits alone is a stutter.      *)
LEMMA SerialStutter ==
  ASSUME UNCHANGED <<queue, holds>>
  PROVE  UNCHANGED Serial!serialVars
  BY DEF Serial!serialVars, Holding

(* What an inbox handles, seen from the task that changes it.              *)
LEMMA BusyEffect ==
  ASSUME TypeOK, NEW t \in Task, \A u \in Task : u # t => holds'[u] = holds[u],
         \A u \in Task : u # t /\ u[1] = t[1] => holds[u] = NoCallback
  PROVE  /\ busyNow[t[1]] = holds[t]
         /\ busyNow' = [busyNow EXCEPT ![t[1]] = holds'[t]]
<1>1. ASSUME NEW s \in Slot, s # t[2] PROVE holds[<<t[1], s>>] = NoCallback /\ holds'[<<t[1], s>>] = NoCallback
  BY <1>1 DEF Task
<1>2. holds[t] = holds[<<t[1], t[2]>>] /\ holds'[t] = holds'[<<t[1], t[2]>>] /\ t[1] \in Conv /\ t[2] \in Slot
  BY TaskType
<1>3. Holding(t[1]) = {holds[t]} \ {NoCallback} /\ Holding(t[1])' = {holds'[t]} \ {NoCallback}
  BY <1>1, <1>2 DEF Holding
<1>4. ASSUME NEW c \in Conv, c # t[1] PROVE Holding(c)' = Holding(c)
  <2>1. \A s \in Slot : <<c, s>> \in Task /\ <<c, s>> # t
    BY <1>4 DEF Task
  <2> QED
    BY <2>1 DEF Holding
<1>5. busyNow[t[1]] = holds[t] /\ busyNow'[t[1]] = holds'[t]
  BY <1>2, <1>3 DEF busyNow
<1>6. ASSUME NEW c \in Conv, c # t[1] PROVE busyNow'[c] = busyNow[c]
  <2> DEFINE Pick(S) == IF S = {} THEN NoCallback ELSE CHOOSE k \in S : TRUE
  <2>1. busyNow[c] = Pick(Holding(c)) /\ busyNow'[c] = Pick(Holding(c)')
    BY DEF busyNow
  <2>2. Holding(c)' = Holding(c)
    BY <1>4, <1>6
  <2> HIDE DEF Pick
  <2> QED
    BY <2>1, <2>2
<1>7. busyNow' = [c \in Conv |-> busyNow'[c]] /\ DOMAIN busyNow = Conv /\ busyNow = [c \in Conv |-> busyNow[c]]
  BY DEF busyNow
<1> QED
  BY <1>2, <1>5, <1>6, <1>7

(* Every step of the workers and the callbacks is one of serial queues.    *)
LEMMA SerialStep ==
  ASSUME IInv, [Next]_vars
  PROVE  [Serial!Next]_(Serial!serialVars)
<1>1. ASSUME NEW k \in Callback, Put(k) PROVE Serial!Next
  <2> DEFINE c == Home[Message(k)]
  <2>1. c \in Conv /\ UNCHANGED holds /\ queue' = [queue EXCEPT ![c] = Append(queue[c], k)]
    BY <1>1, HomeType DEF Put, workers, IInv, Inv1
  <2>2. UNCHANGED busyNow
    BY <2>1 DEF busyNow, Holding
  <2>3. Serial!Accept(c, k)
    BY <2>1, <2>2 DEF Serial!Accept, busyNow
  <2> QED
    BY <2>1, <2>3 DEF Serial!Next
<1>2. ASSUME NEW t \in Task, TakeNext(t), queue[t[1]] # << >> PROVE Serial!Next
  <2> DEFINE c == t[1]
  <2>1. /\ c \in Conv /\ at[t] = "loop" /\ queue' = [queue EXCEPT ![c] = Tail(queue[c])]
        /\ holds'[t] = Head(queue[c]) /\ \A u \in Task : u # t => holds'[u] = holds[u]
    BY <1>2, TakeEffect DEF TakeNext, IInv, Inv1
  <2>2. \A u \in Task : u # t /\ u[1] = t[1] => holds[u] = NoCallback
    <3> SUFFICES ASSUME NEW u \in Task, u # t, u[1] = t[1]
                 PROVE  holds[u] = NoCallback
      OBVIOUS
    <3>1. at[u] = "off"
      BY <2>1, TaskType DEF IInv, Inv1, OneWorker
    <3> QED
      BY <3>1 DEF IInv, Inv1, HoldsBusy, Busy, Claimed
  <2>3. busyNow[c] = NoCallback /\ busyNow' = [busyNow EXCEPT ![c] = Head(queue[c])]
    <3>1. holds[t] = NoCallback
      BY <2>1 DEF IInv, Inv1, HoldsBusy, Busy, Claimed
    <3> QED
      BY <2>1, <2>2, <3>1, BusyEffect DEF IInv, Inv1
  <2>4. Serial!Begin(c)
    BY <1>2, <2>1, <2>3 DEF Serial!Begin, busyNow
  <2> QED
    BY <2>1, <2>4 DEF Serial!Next
<1>3. ASSUME NEW t \in Task, Claim(t) \/ MarkProcessed(t) \/ ReleaseClaim(t)
      PROVE  Serial!Next \/ UNCHANGED Serial!serialVars
  <2>1. UNCHANGED queue /\ at[t] \in Busy /\ t[1] \in Conv
    BY <1>3, ClaimEffect, TaskType
  <2>2. ASSUME NEW result \in {"skipped", "succeeded", "failed"}, TaskDone(t, result) PROVE Serial!Next
    <3>1. holds[t] # NoCallback
      BY <2>1 DEF IInv, Inv1, HoldsBusy
    <3>2. /\ holds'[t] = NoCallback /\ \A u \in Task : u # t => holds'[u] = holds[u]
          /\ \A u \in Task : u # t /\ u[1] = t[1] => holds[u] = NoCallback
      BY <2>1, <2>2, DoneEffect DEF IInv, Inv1, Inv2
    <3>3. busyNow[t[1]] # NoCallback /\ busyNow' = [busyNow EXCEPT ![t[1]] = NoCallback]
      BY <3>1, <3>2, BusyEffect DEF IInv, Inv1
    <3>4. Serial!End(t[1])
      BY <2>1, <3>3 DEF Serial!End, busyNow
    <3> QED
      BY <2>1, <3>4 DEF Serial!Next
  <2> QED
    BY <1>3, <2>1, <2>2, ClaimEffect, SerialStutter
<1>4. CASE Stop \/ Crash
  <2>1. queue' = [c \in Conv |-> << >>] /\ holds' = [t \in Task |-> NoCallback]
    BY <1>4 DEF Stop, Crash, ProcessEnds
  <2>2. \A c \in Conv : Holding(c)' = {}
    BY <2>1 DEF Holding, Task
  <2>3. busyNow' = [c \in Conv |-> NoCallback]
    BY <2>2 DEF busyNow
  <2>4. Serial!LoseAll
    BY <2>1, <2>3 DEF Serial!LoseAll, busyNow
  <2> QED
    BY <2>4 DEF Serial!Next
<1>5. ASSUME NEW k \in Callback, Receive(k) \/ GetOrCreateInbox(k) \/ EnsureWorker(k)
      PROVE  UNCHANGED <<queue, holds>>
  BY <1>5 DEF Receive, GetOrCreateInbox, EnsureWorker, inboxes, workers
<1>6. ASSUME NEW t \in Task, \/ MarkIdleWhenEmpty(t) \/ Handle(t)
                             \/ (TakeNext(t) /\ queue[t[1]] = << >>)
      PROVE  UNCHANGED <<queue, holds>>
  BY <1>6 DEF MarkIdleWhenEmpty, Handle, TakeNext, inboxes
<1>7. ASSUME \/ BeginClose \/ Restart \/ Rest \/ UNCHANGED vars
             \/ \E c \in Conv : Join(c) \/ AwaitWorker(c)
      PROVE  UNCHANGED <<queue, holds>>
  BY <1>7 DEF BeginClose, Join, AwaitWorker, Restart, Rest, vars, inboxes, workers
<1> QED
  BY <1>1, <1>2, <1>3, <1>4, <1>5, <1>6, <1>7, SerialStutter
     DEF Next, Step, CallbackStep, WorkerStep, CloseStep

(* The inboxes implement serial queues: the events of a conversation are   *)
(* handled one at a time, in the order of acceptance. (SessionInbox._run)  *)
THEOREM InboxesAreSerial == Spec => ImplementsSerialQueues
<1>1. Init => Serial!Init
  <2> SUFFICES ASSUME Init
               PROVE  Serial!Init
    OBVIOUS
  <2>1. \A c \in Conv : Holding(c) = {}
    BY DEF Init, Holding, Task
  <2>2. busyNow = [c \in Conv |-> NoCallback]
    BY <2>1 DEF busyNow
  <2> QED
    BY <2>2 DEF Init, Serial!Init, busyNow
<1>2. IInv /\ [Next]_vars => [Serial!Next]_(Serial!serialVars)
  BY SerialStep
<1> QED
  BY <1>1, <1>2, Invariance, PTL DEF Spec, ImplementsSerialQueues, Serial!Spec
=============================================================================
