----------------------- MODULE InteractionTurns_proof -----------------------
(***************************************************************************)
(* More theorems about Interactions: every pending interaction has its     *)
(* timer and recovery restores what was pending; the worker overtakes a    *)
(* callback only at a card that was shown although sending it raised; and, *)
(* unless it did, no turn runs while an interaction is open and every turn *)
(* runs as the sender of its message.                                      *)
(***************************************************************************)
EXTENDS Interactions_proof

-----------------------------------------------------------------------------
(* What the actions do to the tasks, and to what later lemmas speak of.    *)

(* Only task p moves.                                                      *)
Alone(p) == \A q \in Proc \ {p} : pc'[q] = pc[q] /\ job'[q] = job[q] /\ snap'[q] = snap[q]

(* The task of a Goto stands at its next step.                             *)
LEMMA GotoEffect ==
  ASSUME TypeOK, NEW p \in Proc, NEW step, Goto(p, step)
  PROVE  pc'[p] = step /\ \A q \in Proc \ {p} : pc'[q] = pc[q]
BY DEF Goto, TypeOK

(* A task that only moves on moves alone.                                  *)
LEMMA GotoAlone ==
  ASSUME TypeOK, NEW p \in Proc, NEW step, Goto(p, step), UNCHANGED <<job, snap>>
  PROVE  pc'[p] = step /\ Alone(p)
BY GotoEffect DEF Alone

(* A task that ends keeps neither a job nor a session.                     *)
LEMMA FinishEffect ==
  ASSUME TypeOK, NEW p \in Proc, NEW step, Finish(p, step)
  PROVE  pc'[p] = step /\ Alone(p) /\ job'[p] = NoJob /\ snap'[p] = NoSession
BY DEF Finish, Goto, Alone, TypeOK

(* After a message the worker is free.                                     *)
LEMMA EndEffect ==
  ASSUME TypeOK, NEW result, EndMessage(result)
  PROVE  pc'[Worker] = "free" /\ Alone(Worker) /\ job'[Worker] = NoJob
BY FinishEffect, Tasks DEF EndMessage

(* A message is taken from the queue.                                      *)
LEMMA TakeEffect ==
  ASSUME TypeOK, Take
  PROVE  /\ pc[Worker] = "free" /\ pc'[Worker] = "lookup" /\ Alone(Worker) /\ inbox # << >>
         /\ UNCHANGED <<session, row, cards, job, snap, now, up>>
BY GotoAlone, Tasks DEF Take, rows, clock

(* The lookup reads the row ...                                            *)
LEMMA LookupEffect ==
  ASSUME TypeOK, LookupSession
  PROVE  /\ pc[Worker] = "lookup" /\ pc'[Worker] = "upsert" /\ Alone(Worker)
         /\ snap'[Worker] = session
         /\ UNCHANGED <<session, row, cards, job, msg, view, now, up>>
BY GotoEffect, Tasks DEF LookupSession, rows, clock, worker, Alone, TypeOK

(* ... and writes it back with the sender as its actor.                    *)
LEMMA UpsertEffect ==
  ASSUME TypeOK, UpsertSession
  PROVE  /\ pc[Worker] = "upsert" /\ pc'[Worker] = "reload" /\ Alone(Worker)
         /\ session'.actor = msg.from
         /\ session'.state = IF snap[Worker].state = "Absent" THEN "Idle" ELSE snap[Worker].state
         /\ UNCHANGED <<row, cards, job, snap, msg, view, now, up>>
<1>1. Alone(Worker) /\ pc'[Worker] = "reload"
  BY GotoAlone, Tasks DEF UpsertSession
<1>2. snap[Worker] \in SessionRow
  BY Tasks DEF TypeOK
<1> QED BY <1>1, <1>2 DEF UpsertSession, SessionRow, clock, worker

(* The route of a message leaves the tables alone.                         *)
LEMMA DispatchEffect ==
  ASSUME TypeOK, NEW s, Dispatch(s)
  PROVE  /\ Alone(Worker) /\ view' = s /\ UNCHANGED <<session, row, cards, msg, now, up>>
         /\ \/ pc'[Worker] \in {"reply", "connect", "reset", "run"} /\ job' = job
            \/ pc'[Worker] = "find" /\ job'[Worker].op = "command_cancelled"
<1> USE Tasks DEF Dispatch, rows, clock
<1>1. snap' = [snap EXCEPT ![Worker] = NoSession] /\ view' = s
      /\ UNCHANGED <<session, row, cards, msg, now, up>>
  OBVIOUS
<1>2. CASE \E step \in {"reply", "connect", "reset", "run"} : Goto(Worker, step) /\ UNCHANGED job
  BY <1>1, <1>2, GotoEffect DEF Alone, TypeOK
<1>3. CASE /\ Goto(Worker, "find")
           /\ job' = [job EXCEPT ![Worker] = CancelRequest("command_cancelled")]
  <2>1. CancelRequest("command_cancelled").op = "command_cancelled"
    BY DEF CancelRequest, NoJob
  <2> QED BY <1>1, <1>3, <2>1, GotoEffect DEF Alone, TypeOK
<1> QED BY <1>2, <1>3

(* A Session that awaits an interaction has it superseded first.           *)
LEMMA RouteEffect ==
  ASSUME TypeOK, Route
  PROVE  /\ pc[Worker] = "reload" /\ Alone(Worker) /\ view'.actor = msg.from
         /\ UNCHANGED <<session, row, cards, msg, now, up>>
         /\ \/ /\ pc'[Worker] = "find"
               /\ job'[Worker].op \in {"command_cancelled", "superseded_by_new_message"}
            \/ /\ pc'[Worker] \in {"reply", "connect", "reset", "run"} /\ job' = job
               /\ session.state # "AwaitingInteraction"
<1> DEFINE s == [session EXCEPT !.actor = msg.from]
           reason == IF msg.kind = "cancel" THEN "command_cancelled"
                     ELSE "superseded_by_new_message"
<1> USE Tasks DEF rows, clock
<1>1. s.actor = msg.from /\ s.state = session.state /\ pc[Worker] = "reload"
  BY DEF TypeOK, SessionRow, Route
<1>2. CASE s.state = "AwaitingInteraction"
  <2>1. /\ job' = [job EXCEPT ![Worker] = CancelRequest(reason)] /\ view' = s
        /\ Goto(Worker, "find") /\ snap' = [snap EXCEPT ![Worker] = NoSession]
        /\ UNCHANGED <<session, row, cards, msg, now, up>>
    BY <1>2 DEF Route
  <2>2. CancelRequest(reason).op = reason
    BY DEF CancelRequest, NoJob
  <2>3. Alone(Worker) /\ pc'[Worker] = "find" /\ job'[Worker].op = reason
    BY <2>1, <2>2, GotoEffect DEF Alone, TypeOK
  <2> QED BY <1>1, <2>1, <2>3
<1>3. CASE s.state # "AwaitingInteraction"
  <2>1. Dispatch(s)
    BY <1>3 DEF Route
  <2> HIDE DEF s
  <2> QED BY <1>1, <1>3, <2>1, DispatchEffect
<1> QED BY <1>2, <1>3

(* The worker finds a pending interaction to cancel, or has nothing to do. *)
LEMMA FindEffect ==
  ASSUME TypeOK, FindPending
  PROVE  /\ pc[Worker] = "find" /\ Alone(Worker) /\ UNCHANGED <<session, row, cards, now, up>>
         /\ \/ /\ pc'[Worker] = "check" /\ UNCHANGED <<msg, view>>
               /\ job'[Worker].c \in Pending /\ job'[Worker].op \in {"timeout", job[Worker].op}
            \/ pc'[Worker] \in {"reply", "free"} /\ job'[Worker] = NoJob
<1> USE Tasks DEF rows, clock, worker
<1>1. pc[Worker] = "find" /\ UNCHANGED <<session, row, cards, now, up>>
  BY DEF FindPending
<1>2. CASE Pending # {}
  <2> DEFINE j == [job[Worker] EXCEPT
                     !.c = NewestPending,
                     !.op = IF now > row[NewestPending].expires THEN "timeout"
                            ELSE job[Worker].op]
  <2>1. job' = [job EXCEPT ![Worker] = j] /\ Goto(Worker, "check") /\ UNCHANGED <<msg, view, snap>>
    BY <1>2 DEF FindPending
  <2>2. j.c \in Pending /\ j.op \in {"timeout", job[Worker].op}
    BY <1>2, NewestIsPending DEF TypeOK, Job
  <2> HIDE DEF j
  <2>3. job'[Worker] = j /\ Alone(Worker) /\ pc'[Worker] = "check"
    BY <2>1, GotoEffect DEF Alone, TypeOK
  <2> QED BY <1>1, <2>1, <2>2, <2>3
<1>3. CASE Pending = {} /\ job[Worker].op = "command_cancelled"
  BY <1>1, <1>3, FinishEffect DEF FindPending
<1>4. CASE Pending = {} /\ job[Worker].op # "command_cancelled"
  BY <1>1, <1>4, EndEffect DEF FindPending
<1> QED BY <1>2, <1>3, <1>4

(* The worker reads the Session again after it closed an interaction.      *)
LEMMA RestoreEffect ==
  ASSUME TypeOK, Restore
  PROVE  /\ pc[Worker] = "restored" /\ pc'[Worker] \in {"reply", "notify"} /\ Alone(Worker)
         /\ view' = session /\ UNCHANGED <<session, row, cards, job, snap, msg, now, up>>
BY GotoAlone, Tasks DEF Restore, rows, clock

(* A turn starts, or the message is refused.                               *)
LEMMA StartEffect ==
  ASSUME TypeOK, StartRun
  PROVE  /\ pc[Worker] = "run" /\ Alone(Worker) /\ UNCHANGED <<row, cards, now, up>>
         /\ \/ /\ pc'[Worker] = "think" /\ session'.state = "RunningAgent"
               /\ UNCHANGED <<job, snap, msg, view>>
            \/ pc'[Worker] = "free" /\ job'[Worker] = NoJob /\ session' = session
<1> USE Tasks DEF clock, worker
<1>1. CASE view.state = "Idle"
  <2>1. Goto(Worker, "think") /\ UNCHANGED <<job, snap, msg, view, row, cards, now, up>>
    BY <1>1 DEF StartRun
  <2>2. session'.state = "RunningAgent"
    BY <1>1 DEF StartRun, TypeOK, SessionRow
  <2> QED BY <2>1, <2>2, GotoAlone DEF StartRun
<1>2. CASE view.state # "Idle"
  BY <1>2, EndEffect DEF StartRun
<1> QED BY <1>1, <1>2

(* A step that may ask for an interaction to be created.                   *)
Asks(from) ==
  /\ pc[Worker] = from /\ Alone(Worker)
  /\ UNCHANGED <<session, row, cards, msg, view, now, up>>
  /\ \/ pc'[Worker] \in {"finish", "abort", "reply"} /\ job' = job
     \/ pc'[Worker] = "create" /\ job'[Worker].op \in {"confirm", "consent"}

(* The model answers, fails or asks.                                       *)
LEMMA ThinkEffect ==
  ASSUME TypeOK, NEW turn, Think(turn)
  PROVE  Asks("think")
<1> USE Tasks DEF rows, clock, worker
<1>1. CASE \E step \in {"finish", "abort"} : Goto(Worker, step) /\ UNCHANGED job
  BY <1>1, GotoAlone DEF Think, Asks
<1>2. CASE /\ turn \in {"confirm", "consent"} /\ Goto(Worker, "create")
           /\ job' = [job EXCEPT ![Worker].op = turn]
  <2>1. job'[Worker].op = turn /\ \A q \in Proc \ {Worker} : job'[q] = job[q]
    BY <1>2 DEF TypeOK, Job
  <2> QED BY <1>2, <2>1, GotoEffect DEF Think, Asks, Alone
<1> QED BY <1>1, <1>2 DEF Think

(* /connect grants, denies or asks.                                        *)
LEMMA ConnectEffect ==
  ASSUME TypeOK, Connect
  PROVE  Asks("connect")
<1> USE Tasks DEF rows, clock, worker
<1>1. CASE Goto(Worker, "reply") /\ UNCHANGED job
  BY <1>1, GotoAlone DEF Connect, Asks
<1>2. CASE Goto(Worker, "create") /\ job' = [job EXCEPT ![Worker].op = "consent"]
  <2>1. job'[Worker].op = "consent" /\ \A q \in Proc \ {Worker} : job'[q] = job[q]
    BY <1>2 DEF TypeOK, Job
  <2> QED BY <1>2, <2>1, GotoEffect DEF Connect, Asks, Alone
<1> QED BY <1>1, <1>2 DEF Connect

(* A new interaction is the responder's and expires TTL from now.          *)
LEMMA CreateEffect ==
  ASSUME TypeOK, NEW c \in Corr, CreateInteraction(c)
  PROVE  /\ pc[Worker] = "create" /\ pc'[Worker] = "await" /\ Alone(Worker)
         /\ row[c].status = "absent" /\ row'[c].status = "pending"
         /\ row'[c].responder = view.actor /\ row'[c].expires = now + TTL
         /\ \A d \in Corr \ {c} : row'[d] = row[d]
         /\ job'[Worker].c = c /\ job'[Worker].op = job[Worker].op
         /\ UNCHANGED <<session, cards, msg, view, now, up>>
<1> USE Tasks DEF clock, worker
<1>1. Goto(Worker, "await") /\ UNCHANGED <<session, cards, msg, view, snap, now, up>>
      /\ job' = [job EXCEPT ![Worker].c = c] /\ pc[Worker] = "create" /\ row[c].status = "absent"
      /\ row' = [row EXCEPT ![c] = [NoRow EXCEPT
               !.status = "pending", !.kind = job[Worker].op,
               !.responder = view.actor, !.expires = now + TTL]]
  BY DEF CreateInteraction
<1>2. row'[c] = [NoRow EXCEPT !.status = "pending", !.kind = job[Worker].op,
                              !.responder = view.actor, !.expires = now + TTL]
      /\ \A d \in Corr \ {c} : row'[d] = row[d]
  BY <1>1 DEF TypeOK
<1>3. row'[c].status = "pending" /\ row'[c].responder = view.actor /\ row'[c].expires = now + TTL
  BY <1>2 DEF NoRow
<1>4. job'[Worker].c = c /\ job'[Worker].op = job[Worker].op
      /\ \A q \in Proc \ {Worker} : job'[q] = job[q]
  BY <1>1 DEF TypeOK, Job
<1> QED BY <1>1, <1>2, <1>3, <1>4, GotoEffect DEF Alone

(* The Session awaits the new interaction.                                 *)
LEMMA AwaitEffect ==
  ASSUME TypeOK, AwaitInteraction
  PROVE  /\ pc[Worker] = "await" /\ pc'[Worker] \in {"sendCard", "arm"} /\ Alone(Worker)
         /\ session'.state = "AwaitingInteraction"
         /\ UNCHANGED <<row, cards, job, snap, msg, view, now, up>>
<1>1. session'.state = "AwaitingInteraction"
  BY DEF AwaitInteraction, TypeOK, SessionRow
<1> QED BY <1>1, GotoAlone, Tasks DEF AwaitInteraction, clock, worker

(* The card is shown, or sending it fails.                                 *)
LEMMA SendEffect ==
  ASSUME TypeOK, SendCard
  PROVE  /\ pc[Worker] = "sendCard" /\ Alone(Worker) /\ job'[Worker].c = job[Worker].c
         /\ UNCHANGED <<session, row, msg, view, now, up>>
         /\ \/ /\ pc'[Worker] = "arm" /\ cards' = cards \cup {job[Worker].c} /\ job' = job
            \/ /\ pc'[Worker] = "check" /\ job'[Worker].op = "card_send_failed"
               /\ job'[Worker].by = view.actor
               /\ cards' \in {cards, cards \cup {job[Worker].c}}
<1> USE Tasks DEF rows, clock, worker
<1>1. CASE cards' = cards \cup {job[Worker].c} /\ Goto(Worker, "arm") /\ UNCHANGED job
  BY <1>1, GotoAlone DEF SendCard
<1>2. CASE /\ cards' \in {cards, cards \cup {job[Worker].c}}
           /\ job' = [job EXCEPT ![Worker] =
                        [@ EXCEPT !.op = "card_send_failed", !.by = view.actor]]
           /\ Goto(Worker, "check")
  <2> DEFINE j == [job[Worker] EXCEPT !.op = "card_send_failed", !.by = view.actor]
  <2>1. j.op = "card_send_failed" /\ j.by = view.actor /\ j.c = job[Worker].c
    BY DEF TypeOK, Job
  <2>2. job' = [job EXCEPT ![Worker] = j]
    BY <1>2
  <2> HIDE DEF j
  <2>3. job'[Worker] = j /\ \A q \in Proc \ {Worker} : job'[q] = job[q]
    BY <2>2 DEF TypeOK
  <2> QED BY <1>2, <2>1, <2>3, GotoEffect DEF SendCard, Alone
<1> QED BY <1>1, <1>2 DEF SendCard

(* The timeout task is scheduled and the suspended turn returns.           *)
LEMMA ArmEffect ==
  ASSUME TypeOK, JobNamed, ArmTimer
  PROVE  LET c == job[Worker].c IN
         /\ pc[Worker] = "arm" /\ c \in Corr /\ c # Worker
         /\ pc'[Worker] = "reply" /\ job'[Worker] = NoJob /\ pc'[c] = "armed"
         /\ \A q \in Proc \ {Worker, c} : pc'[q] = pc[q]
         /\ \A q \in Proc \ {Worker} : job'[q] = job[q] /\ snap'[q] = snap[q]
         /\ UNCHANGED <<session, row, cards, msg, view, now, up>>
<1> USE Tasks DEF rows, clock, worker
<1>1. pc[Worker] = "arm" /\ job[Worker].c \in Corr
  BY DEF ArmTimer, JobNamed, Engaged
<1>2. job[Worker].c # Worker
  BY <1>1, TaskAssumption, BoundsAssumption DEF Corr
<1> QED BY <1>1, <1>2 DEF ArmTimer, TypeOK

(* A turn that is not suspended leaves the Session Idle.                   *)
LEMMA FinishRunEffect ==
  ASSUME TypeOK, FinishRun
  PROVE  /\ pc[Worker] \in {"finish", "abort"} /\ Alone(Worker)
         /\ UNCHANGED <<row, cards, now, up>> /\ session'.state = "Idle"
         /\ \/ pc'[Worker] = "reply" /\ UNCHANGED <<job, snap, msg, view>>
            \/ pc'[Worker] = "free" /\ job'[Worker] = NoJob
<1> USE Tasks DEF clock, worker
<1>1. session'.state = "Idle"
  BY DEF FinishRun, TypeOK, SessionRow
<1>2. CASE Goto(Worker, "reply") /\ UNCHANGED <<outcome, worker, job, snap>>
  BY <1>1, <1>2, GotoAlone DEF FinishRun
<1>3. CASE EndMessage("faulted")
  BY <1>1, <1>3, EndEffect DEF FinishRun
<1> QED BY <1>2, <1>3 DEF FinishRun

(* So does /reset.                                                         *)
LEMMA ResetEffect ==
  ASSUME TypeOK, Reset
  PROVE  /\ pc[Worker] = "reset" /\ pc'[Worker] = "reply" /\ Alone(Worker)
         /\ session'.state = "Idle" /\ UNCHANGED <<row, cards, job, snap, msg, view, now, up>>
<1>1. session'.state = "Idle"
  BY DEF Reset, TypeOK, SessionRow
<1> QED BY <1>1, GotoAlone, Tasks DEF Reset, clock, worker

(* The tasks that close an interaction.  Task p ...                        *)
(* ... found the interaction open and goes on,                             *)
Checked(p) ==
  /\ pc[p] = "check" /\ pc'[p] = "update" /\ row' = row /\ UNCHANGED <<session, msg, view>>
  /\ job'[p].c = job[p].c /\ job'[p].op = job[p].op /\ job'[p].by = job[p].by

(* ... gave up, and then the interaction was closed or not for it to close *)
GaveUp(p) ==
  /\ pc[p] \in Asking /\ row' = row /\ session' = session
  /\ pc[p] = "check" => ~MayClose(p)
  /\ pc[p] = "update" => ~StillPending(job[p].c)
  /\ job'[p] = NoJob
  /\ p \in Corr => pc'[p] = "off"
  /\ p # Worker => pc'[p] \in {"off", "done"} /\ UNCHANGED <<msg, view>>
  /\ p = Worker => pc'[p] \in {"abort", "free"}
  /\ pc'[p] = "abort" => job[p].op = "card_send_failed"
  /\ overtaken' = IF pc'[p] = "abort" THEN overtaken \cup {c \in {job[p].c} : Returning(c)}
                  ELSE overtaken

(* ... closed it,                                                          *)
Won(p) ==
  /\ pc[p] = "update" /\ pc'[p] = "readSession" /\ job'[p] = job[p]
  /\ row[job[p].c].status = "pending" /\ row'[job[p].c].status \in {"resolved", "cancelled"}
  /\ row'[job[p].c].op = job[p].op /\ row'[job[p].c].by = job[p].by
  /\ UNCHANGED <<session, msg, view>>

(* ... read the Session again,                                             *)
Reread(p) ==
  /\ pc[p] = "readSession" /\ pc'[p] = "writeIdle" /\ job'[p] = job[p] /\ snap'[p] = session
  /\ row' = row /\ UNCHANGED <<session, msg, view>>

(* ... wrote it back as Idle,                                              *)
WroteIdle(p) ==
  /\ pc[p] = "writeIdle" /\ row' = row /\ UNCHANGED <<msg, view>>
  /\ session'.state = "Idle" /\ session'.actor = snap[p].actor
  /\ \/ pc'[p] = "execute" /\ job'[p] = job[p] /\ job[p].op = "approved"
     \/ pc'[p] = "done" /\ job'[p] = NoJob /\ job[p].op = "user_cancelled"
     \/ pc'[p] = "abort" /\ job'[p] = NoJob /\ job[p].op = "card_send_failed"
     \/ /\ pc'[p] = "closeOut" /\ job'[p] = job[p]
        /\ job[p].op \notin {"approved", "user_cancelled", "card_send_failed"}

(* ... or closed it out.                                                   *)
ClosedOut(p) ==
  /\ pc[p] = "closeOut" /\ job'[p] = NoJob
  /\ pc'[p] = IF p = Worker THEN "restored" ELSE "off"
  /\ row' = row /\ UNCHANGED <<session, msg, view>>

(* A row that a closing task changes keeps its responder and its expiry,   *)
(* and is closed; the other rows stay.                                     *)
LEMMA UpdateEffect ==
  ASSUME TypeInv, NEW p \in Proc, Update(p), StillPending(job[p].c)
  PROVE  /\ Won(p) /\ Alone(p) /\ job[p].c \in Corr
         /\ \A d \in Corr : row'[d].responder = row[d].responder /\ row'[d].expires = row[d].expires
         /\ \A d \in Corr \ {job[p].c} : row'[d] = row[d]
<1> DEFINE c == job[p].c
           r == [row[c] EXCEPT !.status = TerminalStatus(job[p].op),
                               !.op = job[p].op, !.by = job[p].by, !.at = now]
<1>1. /\ row' = [row EXCEPT ![c] = r] /\ row[c].status = "pending" /\ pc[p] = "update"
      /\ Goto(p, "readSession") /\ UNCHANGED <<session, job, snap, msg, view>>
  <2>1. ~GiveUp(p) \/ StillPending(c)
    OBVIOUS
  <2> QED BY DEF Update, StillPending, worker
<1>2. c \in Corr /\ row[c] \in Row
  BY <1>1 DEF TypeInv, TypeOK, JobNamed, Engaged
<1>3. /\ r.status \in {"resolved", "cancelled"} /\ r.responder = row[c].responder
      /\ r.expires = row[c].expires /\ r.op = job[p].op /\ r.by = job[p].by
  BY <1>2 DEF Row, TerminalStatus
<1> HIDE DEF r, c
<1>4. row'[c] = r /\ \A d \in Corr \ {c} : row'[d] = row[d]
  BY <1>1, <1>2 DEF TypeInv, TypeOK
<1>5. Alone(p) /\ pc'[p] = "readSession" /\ job' = job
  BY <1>1, GotoAlone DEF TypeInv
<1>6. c = job[p].c
  BY DEF c
<1>7. Won(p)
  BY <1>1, <1>3, <1>4, <1>5, <1>6 DEF Won
<1>8. \A d \in Corr : row'[d].responder = row[d].responder /\ row'[d].expires = row[d].expires
  BY <1>3, <1>4
<1> QED BY <1>2, <1>4, <1>5, <1>6, <1>7, <1>8

(* Giving up, seen from outside.                                           *)
LEMMA GiveUpEffect ==
  ASSUME TypeInv, NEW p \in Proc, GiveUp(p), pc[p] \in Asking, row' = row, session' = session,
         pc[p] = "check" => ~MayClose(p),
         pc[p] = "update" => ~StillPending(job[p].c)
  PROVE  GaveUp(p) /\ Alone(p)
<1> USE Tasks DEF worker
<1>1. Worker \notin Corr
  BY TaskAssumption, BoundsAssumption DEF Corr
<1>2. CASE p # Worker /\ Finish(p, IF p \in Corr THEN "off" ELSE "done")
           /\ UNCHANGED <<outcome, worker, overtaken>>
  BY <1>2, FinishEffect DEF GaveUp, TypeInv
<1>3. CASE p = Worker /\ job[p].op = "card_send_failed" /\ Finish(p, "abort")
           /\ overtaken' = overtaken \cup {c \in {job[p].c} : Returning(c)}
           /\ UNCHANGED <<outcome, worker>>
  BY <1>1, <1>3, FinishEffect DEF GaveUp, TypeInv
<1>4. CASE p = Worker /\ EndMessage("rejected") /\ UNCHANGED overtaken
  BY <1>1, <1>4, EndEffect DEF GaveUp, TypeInv
<1> QED BY <1>2, <1>3, <1>4 DEF GiveUp

(* What a closing task does.                                               *)
LEMMA CloseEffect ==
  ASSUME TypeInv, NEW p \in Proc, CloseStep(p)
  PROVE  /\ Alone(p) /\ UNCHANGED <<cards, now, up>>
         /\ \A d \in Corr : row'[d].responder = row[d].responder /\ row'[d].expires = row[d].expires
         /\ \A d \in Corr \ {job[p].c} : row'[d] = row[d]
         /\ Checked(p) \/ GaveUp(p) \/ Won(p) \/ Reread(p) \/ WroteIdle(p) \/ ClosedOut(p)
<1> USE Tasks DEF rows, clock, worker
<1>1. TypeOK
  BY DEF TypeInv
<1>2. UNCHANGED <<cards, now, up>>
  BY DEF CloseStep, Check, Update, ReadSession, WriteIdle, CloseOut
<1>3. CASE Check(p)
  <2>1. pc[p] = "check" /\ row' = row /\ session' = session /\ pc[p] \in Asking
    BY <1>3 DEF Check, Asking
  <2>2. CASE MayClose(p)
    <3>1. Goto(p, "update") /\ UNCHANGED <<msg, view, job, snap>>
      BY <1>3, <2>2 DEF Check
    <3>2. Checked(p) /\ Alone(p)
      BY <1>1, <2>1, <3>1, GotoAlone DEF Checked
    <3> QED BY <1>2, <2>1, <3>2
  <2>3. CASE ~MayClose(p)
    <3>1. GiveUp(p)
      BY <1>3, <2>3 DEF Check
    <3> QED BY <1>2, <2>1, <2>3, <3>1, GiveUpEffect
  <2> QED BY <2>2, <2>3
<1>4. CASE Update(p)
  <2>1. CASE StillPending(job[p].c)
    BY <1>2, <1>4, <2>1, UpdateEffect
  <2>2. CASE ~StillPending(job[p].c)
    <3>1. GiveUp(p) /\ row' = row /\ session' = session /\ pc[p] = "update" /\ pc[p] \in Asking
      BY <1>4, <2>2 DEF Update, Asking
    <3> QED BY <1>2, <2>2, <3>1, GiveUpEffect
  <2> QED BY <2>1, <2>2
<1>5. CASE ReadSession(p)
  <2>1. snap'[p] = session /\ \A q \in Proc \ {p} : snap'[q] = snap[q]
    BY <1>1, <1>5 DEF ReadSession, TypeOK
  <2>2. Reread(p) /\ Alone(p)
    BY <1>1, <1>5, <2>1, GotoEffect DEF ReadSession, Reread, Alone
  <2> QED BY <1>2, <1>5, <2>2 DEF ReadSession
<1>6. CASE WriteIdle(p)
  <2>1. snap[p] \in SessionRow
    BY <1>1 DEF TypeOK
  <2>2. session'.state = "Idle" /\ session'.actor = snap[p].actor
    BY <1>6, <2>1 DEF WriteIdle, SessionRow
  <2>3. \A q \in Proc \ {p} : snap'[q] = snap[q] /\ job'[q] = job[q]
    BY <1>1, <1>6 DEF WriteIdle, TypeOK
  <2>4. /\ pc'[p] = CASE job[p].op = "approved" -> "execute"
                      [] job[p].op = "user_cancelled" -> "done"
                      [] job[p].op = "card_send_failed" -> "abort"
                      [] OTHER -> "closeOut"
        /\ \A q \in Proc \ {p} : pc'[q] = pc[q]
    BY <1>1, <1>6, GotoEffect DEF WriteIdle
  <2>5. job'[p] = IF job[p].op \in {"user_cancelled", "card_send_failed"} THEN NoJob ELSE job[p]
    BY <1>1, <1>6 DEF WriteIdle, TypeOK
  <2>6. pc[p] = "writeIdle" /\ row' = row /\ UNCHANGED <<msg, view>>
    BY <1>6 DEF WriteIdle
  <2>7. Alone(p)
    BY <2>3, <2>4 DEF Alone
  <2>8. WroteIdle(p)
    BY <2>2, <2>4, <2>5, <2>6 DEF WroteIdle
  <2> QED BY <1>2, <2>6, <2>7, <2>8
<1>7. CASE CloseOut(p)
  <2>1. Finish(p, IF p = Worker THEN "restored" ELSE "off")
    BY <1>7 DEF CloseOut
  <2>2. ClosedOut(p) /\ Alone(p)
    BY <1>1, <1>7, <2>1, FinishEffect DEF CloseOut, ClosedOut
  <2> QED BY <1>2, <1>7, <2>2 DEF CloseOut
<1> QED BY <1>3, <1>4, <1>5, <1>6, <1>7 DEF CloseStep

(* A confirmed tool runs beside everything else.                           *)
LEMMA ExecuteEffect ==
  ASSUME TypeOK, NEW k \in Callback, ExecuteConfirmedTool(k)
  PROVE  /\ pc[k] = "execute" /\ pc'[k] = "done" /\ Alone(k) /\ k # Worker
         /\ UNCHANGED <<session, row, cards, msg, view, now, up>>
<1>1. k # Worker /\ k \in Proc
  BY Tasks, TaskAssumption
<1> QED BY <1>1, FinishEffect DEF ExecuteConfirmedTool, rows, clock, worker

(* A press starts a callback for an interaction whose card is shown ...    *)
LEMMA PressEffect ==
  ASSUME TypeOK, NEW k \in Callback, NEW c \in Corr, NEW u \in User,
         NEW op \in {"approved", "user_cancelled"}, CardCallback(k, c, u, op)
  PROVE  /\ pc[k] = "off" /\ Alone(k) /\ k # Worker /\ c \in cards /\ up
         /\ UNCHANGED <<session, row, cards, snap, msg, view, now, up>>
         /\ \/ pc'[k] = "check" /\ job'[k].c = c /\ job'[k].op = op
            \/ pc'[k] = "done"
<1>1. k # Worker /\ k \in Proc
  BY Tasks, TaskAssumption
<1> USE DEF rows, clock, worker
<1>2. CASE row[c].status = "pending" /\ row[c].kind = "confirm"
  <2>1. /\ Goto(k, "check")
        /\ job' = [job EXCEPT ![k] = [c |-> c, op |-> op, by |-> u]]
    BY <1>2 DEF CardCallback
  <2>2. job'[k].c = c /\ job'[k].op = op /\ \A q \in Proc \ {k} : job'[q] = job[q]
    BY <1>1, <2>1 DEF TypeOK
  <2> QED BY <1>1, <2>1, <2>2, GotoEffect DEF CardCallback, Alone
<1>3. CASE ~(row[c].status = "pending" /\ row[c].kind = "confirm")
  BY <1>1, <1>3, GotoAlone DEF CardCallback
<1> QED BY <1>2, <1>3

(* ... and a timer wakes for its own, or too early.                        *)
LEMMA TimerEffect ==
  ASSUME TypeOK, NEW c \in Corr, TimerFires(c)
  PROVE  /\ pc[c] = "armed" /\ Alone(c) /\ c # Worker
         /\ UNCHANGED <<session, row, cards, snap, msg, view, now, up>>
         /\ \/ pc'[c] = "check" /\ job'[c].c = c /\ job'[c].op = "timeout"
            \/ pc'[c] = "early"
            \/ pc'[c] = "off" /\ row[c].status # "pending"
<1>1. c # Worker /\ c \in Proc
  BY Tasks, TaskAssumption, BoundsAssumption DEF Corr
<1> USE DEF rows, clock, worker
<1>2. CASE row[c].status = "pending" /\ ~TooEarly(c)
  <2>1. Goto(c, "check") /\ job' = [job EXCEPT ![c] = [NoJob EXCEPT !.c = c, !.op = "timeout"]]
    BY <1>2 DEF TimerFires
  <2>2. /\ job'[c].c = c /\ job'[c].op = "timeout"
        /\ \A q \in Proc \ {c} : job'[q] = job[q]
    BY <1>1, <2>1 DEF TypeOK, NoJob
  <2> QED BY <1>1, <2>1, <2>2, GotoEffect DEF TimerFires, Alone
<1>3. CASE ~(row[c].status = "pending" /\ ~TooEarly(c))
  BY <1>1, <1>3, GotoAlone DEF TimerFires
<1> QED BY <1>2, <1>3

-----------------------------------------------------------------------------
(* Every pending interaction has its timer.                                *)

(* The timeout task of an interaction only ever times that one out.        *)
TimerOwn(c) ==
  /\ pc[c] \in {"off", "armed", "early"} \cup Asking \cup {"readSession", "writeIdle", "closeOut"}
  /\ pc[c] \notin {"off", "armed", "early"} => job[c].c = c /\ job[c].op = "timeout"

(* While the worker announces an interaction it is not overdue, and the    *)
(* worker acts as its responder: withdrawing it cannot be refused.         *)
Announced ==
  Announcing =>
    LET j == job[Worker] IN
    /\ pc[Worker] \in Opening \cup {"arm"} \cup Asking \cup {"readSession", "writeIdle"}
    /\ row[j.c].responder = view.actor /\ now <= row[j.c].expires
    /\ j.op = "card_send_failed" =>
         j.by = view.actor /\ pc[Worker] \in Asking \cup {"readSession", "writeIdle"}

Timers == (\A c \in Corr : TimerOwn(c)) /\ Announced /\ TimerCovers

TimerInv == ClosureInv /\ Timers

(* The kinds of tasks are disjoint.                                        *)
LEMMA TasksDiffer ==
  Worker \notin Corr /\ Worker \notin Callback /\ Callback \cap Corr = {}
BY TaskAssumption, BoundsAssumption DEF Corr

(* The steps at which the worker announces an interaction.                 *)
LEMMA AnnouncingSteps ==
  ASSUME Announced
  PROVE  Announcing => /\ pc[Worker] \in {"await", "sendCard", "arm", "check", "update",
                                          "readSession", "writeIdle"}
                       /\ pc[Worker] \in Engaged
BY DEF Announced, Opening, Asking, Engaged

(* The worker keeps Timers when it announces nothing.                      *)
LEMMA WorkerKeepsTimers ==
  ASSUME TimerInv, Alone(Worker), ~Announcing, ~Announcing', up' = up,
         \A c \in Corr : row'[c].status = "pending" => row[c].status = "pending"
  PROVE  Timers'
<1>1. \A c \in Corr : c \in Proc \ {Worker}
  BY Tasks, TasksDiffer
<1>2. \A c \in Corr : TimerOwn(c)'
  BY <1>1 DEF TimerInv, Timers, TimerOwn, Alone
<1>3. TimerCovers'
  BY <1>1 DEF TimerInv, Timers, TimerCovers, Pending, Alone
<1> QED BY <1>2, <1>3 DEF Timers, Announced

(* Another task keeps Timers when, if it is a timer, it ends only with its *)
(* interaction closed.                                                     *)
LEMMA OthersKeepTimers ==
  ASSUME TimerInv, NEW p \in Proc \ {Worker}, Alone(p), UNCHANGED <<view, now, up>>,
         \A c \in Corr : /\ row'[c].status = "pending" => row[c].status = "pending"
                         /\ row'[c].responder = row[c].responder
                         /\ row'[c].expires = row[c].expires,
         p \in Corr => TimerOwn(p)' /\ (pc'[p] = "off" => row'[p].status # "pending")
  PROVE  Timers'
<1>1. pc'[Worker] = pc[Worker] /\ job'[Worker] = job[Worker] /\ Corr \subseteq Proc
  BY Tasks DEF Alone
<1>2. Announcing' <=> Announcing
  BY <1>1 DEF Announcing
<1>3. \A c \in Corr : TimerOwn(c)'
  <2> SUFFICES ASSUME NEW c \in Corr PROVE TimerOwn(c)'
    OBVIOUS
  <2>1. CASE c = p
    BY <2>1
  <2>2. CASE c # p
    BY <1>1, <2>2 DEF TimerInv, Timers, TimerOwn, Alone
  <2> QED BY <2>1, <2>2
<1>4. Announced'
  <2>1. Announcing => job[Worker].c \in Corr
    BY Tasks, AnnouncingSteps DEF TimerInv, Timers, ClosureInv, TypeInv, JobNamed
  <2> QED BY <1>1, <1>2, <2>1 DEF TimerInv, Timers, Announced
<1>5. TimerCovers'
  <2> SUFFICES ASSUME up, NEW c \in Corr, row'[c].status = "pending"
               PROVE  pc'[c] # "off" \/ (Announcing' /\ job'[Worker].c = c)
    BY DEF TimerCovers, Pending
  <2>1. pc[c] # "off" \/ (Announcing /\ job[Worker].c = c)
    BY DEF TimerInv, Timers, TimerCovers, Pending
  <2>2. c # p => pc'[c] = pc[c]
    BY <1>1 DEF Alone
  <2> QED BY <1>1, <1>2, <2>1, <2>2
<1> QED BY <1>3, <1>4, <1>5 DEF Timers

(* A step of an announcing worker that goes on announcing.                 *)
LEMMA AnnouncingKeepsTimers ==
  ASSUME TimerInv, Alone(Worker), Announced', Announcing', UNCHANGED up,
         \A c \in Corr : row'[c].status = "pending" =>
                           \/ row[c].status = "pending" /\ (Announcing => c # job[Worker].c)
                           \/ c = job'[Worker].c
  PROVE  Timers'
<1>1. \A c \in Corr : c \in Proc \ {Worker}
  BY Tasks, TasksDiffer
<1>2. \A c \in Corr : TimerOwn(c)'
  BY <1>1 DEF TimerInv, Timers, TimerOwn, Alone
<1>3. TimerCovers'
  BY <1>1 DEF TimerInv, Timers, TimerCovers, Pending, Alone
<1> QED BY <1>2, <1>3 DEF Timers

(* ... that stops announcing an interaction which is closed.               *)
LEMMA WithdrawnKeepsTimers ==
  ASSUME TimerInv, Alone(Worker), ~Announcing', UNCHANGED <<row, up>>,
         row[job[Worker].c].status # "pending"
  PROVE  Timers'
<1>1. \A c \in Corr : c \in Proc \ {Worker}
  BY Tasks, TasksDiffer
<1>2. \A c \in Corr : TimerOwn(c)'
  BY <1>1 DEF TimerInv, Timers, TimerOwn, Alone
<1>3. TimerCovers'
  BY <1>1 DEF TimerInv, Timers, TimerCovers, Pending, Alone
<1> QED BY <1>2, <1>3 DEF Timers, Announced

(* No timer and no announcement at the start.                              *)
LEMMA TimersInit == Init => Timers
<1> SUFFICES ASSUME Init PROVE Timers
  OBVIOUS
<1>1. Pending = {}
  BY DEF Init, Pending, NoRow
<1>2. \A c \in Corr : pc[c] = "off"
  BY Tasks, TasksDiffer DEF Init
<1>3. ~Announcing
  BY Tasks DEF Init, Announcing, NoJob
<1> QED BY <1>1, <1>2, <1>3 DEF Timers, TimerOwn, Announced, TimerCovers

(* The closing tasks keep Timers.                                          *)
LEMMA ClosingKeepsTimers ==
  ASSUME TimerInv, NEW p \in Proc, CloseStep(p)
  PROVE  Timers'
<1> DEFINE j == job[p]
<1>1. TypeInv /\ Announced /\ TaskOK(p)
  BY DEF TimerInv, Timers, ClosureInv, Closure
<1>2. /\ Alone(p) /\ UNCHANGED <<now, up>>
      /\ \A d \in Corr : row'[d].responder = row[d].responder /\ row'[d].expires = row[d].expires
      /\ \A d \in Corr \ {j.c} : row'[d] = row[d]
      /\ Checked(p) \/ GaveUp(p) \/ Won(p) \/ Reread(p) \/ WroteIdle(p) \/ ClosedOut(p)
  BY <1>1, CloseEffect
<1>3. j.c \in Corr
  <2>1. pc[p] \in Engaged
    BY <1>2 DEF Checked, GaveUp, Won, Reread, WroteIdle, ClosedOut, Engaged, Asking
  <2> QED BY <1>1, <2>1 DEF TypeInv, JobNamed
<1>4. \A d \in Corr : row'[d].status = "pending" => row[d].status = "pending"
  BY <1>2, <1>3 DEF Checked, GaveUp, Won, Reread, WroteIdle, ClosedOut
<1>5. pc[p] \in {"writeIdle", "closeOut"} => row[j.c].status # "pending"
  BY <1>1 DEF TaskOK, Closing, TerminalStatus
<1>6. GaveUp(p) => \/ row[j.c].status # "pending"
                   \/ j.op \in Strict /\ ~(j.by = row[j.c].responder /\ now <= row[j.c].expires)
  BY DEF GaveUp, MayClose, StillPending, Asking
<1>7. CASE p = Worker
  <2>1. CASE Announcing
    <3>1. j.op = "card_send_failed"
      BY <1>2, <1>7, <2>1 DEF Announcing, Checked, GaveUp, Won, Reread, WroteIdle, ClosedOut, Asking
    <3>2. /\ row[j.c].responder = view.actor /\ now <= row[j.c].expires
          /\ j.by = view.actor /\ pc[p] # "closeOut"
      BY <1>1, <1>7, <2>1, <3>1 DEF Announced, Asking
    <3>3. CASE Checked(p) \/ Won(p) \/ Reread(p)
      <4>1. /\ pc'[p] \in Asking \cup {"readSession", "writeIdle"} /\ view' = view
            /\ job'[p].c = j.c /\ job'[p].op = j.op /\ job'[p].by = j.by
        BY <3>3 DEF Checked, Won, Reread, Asking
      <4>2. Announcing' /\ Announced'
        BY <1>2, <1>3, <1>7, <3>1, <3>2, <4>1 DEF Announcing, Announced
      <4> QED BY <1>2, <1>4, <1>7, <4>1, <4>2, AnnouncingKeepsTimers
    <3>4. CASE GaveUp(p) \/ WroteIdle(p)
      <4>1. row[j.c].status # "pending" /\ row' = row
        BY <1>5, <1>6, <3>2, <3>4 DEF WroteIdle, GaveUp
      <4>2. ~Announcing'
        BY <1>7, <3>1, <3>4 DEF WroteIdle, GaveUp, Announcing, NoJob
      <4> QED BY <1>2, <1>7, <4>1, <4>2, WithdrawnKeepsTimers
    <3> QED BY <1>2, <3>2, <3>3, <3>4 DEF ClosedOut
  <2>2. CASE ~Announcing
    <3>1. j.op # "card_send_failed"
      BY <1>7, <2>2 DEF Announcing
    <3>2. /\ pc'[p] \notin {"await", "sendCard", "arm"}
          /\ job'[p].op \in {"none", j.op}
      BY <1>2, <1>7, TasksDiffer
      DEF Checked, GaveUp, Won, Reread, WroteIdle, ClosedOut, NoJob
    <3>3. ~Announcing'
      BY <1>7, <3>1, <3>2 DEF Announcing
    <3> QED BY <1>2, <1>4, <1>7, <2>2, <3>3, WorkerKeepsTimers
  <2> QED BY <2>1, <2>2
<1>8. CASE p # Worker
  <2>1. view' = view
    BY <1>2, <1>8 DEF Checked, GaveUp, Won, Reread, WroteIdle, ClosedOut
  <2>2. ASSUME p \in Corr
        PROVE  TimerOwn(p)' /\ (pc'[p] = "off" => row'[p].status # "pending")
    <3>1. pc[p] \notin {"off", "armed", "early"}
      BY <1>2 DEF Checked, GaveUp, Won, Reread, WroteIdle, ClosedOut, Asking
    <3>2. j.c = p /\ j.op = "timeout"
      BY <2>2, <3>1 DEF TimerInv, Timers, TimerOwn
    <3>3. CASE Checked(p) \/ Won(p) \/ Reread(p)
      BY <3>2, <3>3 DEF Checked, Won, Reread, TimerOwn, Asking
    <3>4. CASE GaveUp(p)
      <4>1. row[p].status # "pending"
        BY <1>6, <3>2, <3>4 DEF Strict
      <4> QED BY <2>2, <3>4, <4>1 DEF GaveUp, TimerOwn
    <3>5. CASE WroteIdle(p)
      BY <3>2, <3>5 DEF WroteIdle, TimerOwn
    <3>6. CASE ClosedOut(p)
      <4>1. row[p].status # "pending"
        BY <1>5, <3>2, <3>6 DEF ClosedOut
      <4> QED BY <1>8, <3>6, <4>1 DEF ClosedOut, TimerOwn
    <3> QED BY <1>2, <3>3, <3>4, <3>5, <3>6
  <2> HIDE DEF j
  <2> QED BY <1>2, <1>4, <1>8, <2>1, <2>2, OthersKeepTimers
<1> QED BY <1>7, <1>8

(* Every action keeps Timers.                                              *)
LEMMA TimersStep == TimerInv /\ [Next]_vars => Timers'
<1> SUFFICES ASSUME TimerInv, [Next]_vars PROVE Timers'
  OBVIOUS
<1> USE Tasks, TasksDiffer
<1>1. TypeInv /\ TypeOK /\ JobNamed /\ Announced
  BY DEF TimerInv, Timers, ClosureInv, TypeInv
<1>2. TypeInv'
  BY <1>1, TypeStep
<1>3. Announcing => pc[Worker] \in {"await", "sendCard", "arm", "check", "update",
                                    "readSession", "writeIdle"}
  BY <1>1, AnnouncingSteps
<1>4. ASSUME Alone(Worker), UNCHANGED <<row, up>>, ~Announcing, pc'[Worker] \notin {"await", "sendCard", "arm"},
             job'[Worker].op # "card_send_failed"
      PROVE  Timers'
  BY <1>4, WorkerKeepsTimers DEF TimerInv, Announcing
<1>5. ~Announcing => job[Worker].op # "card_send_failed"
  BY DEF Announcing
<1>6. ASSUME EndMessage("faulted"), UNCHANGED <<row, up>>, ~Announcing
      PROVE  Timers'
  BY <1>1, <1>4, <1>6, EndEffect DEF NoJob
<1>7. ASSUME NEW m \in MsgId, NEW u \in User, NEW k \in Kinds, Arrive(m, u, k)
      PROVE  Timers'
  <2>1. UNCHANGED <<pc, job, row, view, now, up>>
    BY <1>7 DEF Arrive, rows, worker, tasks, clock
  <2> QED BY <2>1 DEF TimerInv, Timers, TimerOwn, Announced, Announcing, TimerCovers, Pending
<1>8. CASE Take
  BY <1>1, <1>3, <1>4, <1>5, <1>8, TakeEffect
<1>9. CASE LookupSession
  BY <1>1, <1>3, <1>4, <1>5, <1>9, LookupEffect
<1>10. CASE UpsertSession
  BY <1>1, <1>3, <1>4, <1>5, <1>10, UpsertEffect
<1>11. CASE WelcomeFails
  BY <1>3, <1>6, <1>11 DEF WelcomeFails, rows, clock
<1>12. CASE Route
  BY <1>1, <1>3, <1>4, <1>5, <1>12, RouteEffect
<1>13. CASE FindPending
  <2>1. job'[Worker].op # "card_send_failed"
    BY <1>1, <1>3, <1>5, <1>13, FindEffect DEF NoJob
  <2> QED BY <1>1, <1>3, <1>4, <1>13, <2>1, FindEffect
<1>14. CASE Restore
  BY <1>1, <1>3, <1>4, <1>5, <1>14, RestoreEffect
<1>15. CASE Notify
  <2>1. pc[Worker] = "notify" /\ ~Announcing
    BY <1>3, <1>15 DEF Notify
  <2>2. CASE Dispatch(view)
    <3>1. job'[Worker].op # "card_send_failed"
      BY <1>1, <1>5, <2>1, <2>2, DispatchEffect
    <3> QED BY <1>1, <1>4, <2>1, <2>2, <3>1, DispatchEffect
  <2>3. CASE EndMessage("faulted") /\ UNCHANGED <<rows, cards, inbox, history, clock>>
    BY <1>6, <2>1, <2>3 DEF rows, clock
  <2> QED BY <1>15, <2>2, <2>3 DEF Notify
<1>16. CASE StartRun
  BY <1>1, <1>3, <1>4, <1>5, <1>16, StartEffect DEF NoJob
<1>17. ASSUME NEW from \in {"think", "connect"}, Asks(from)
       PROVE  Timers'
  BY <1>3, <1>4, <1>5, <1>17 DEF Asks
<1>18. ASSUME NEW t \in Turns, Think(t)
       PROVE  Timers'
  BY <1>1, <1>17, <1>18, ThinkEffect
<1>19. CASE Connect
  BY <1>1, <1>17, <1>19, ConnectEffect
<1>20. ASSUME NEW c \in Corr, CreateInteraction(c)
       PROVE  Timers'
  <2>1. /\ Alone(Worker) /\ pc[Worker] = "create" /\ pc'[Worker] = "await"
        /\ row'[c].responder = view.actor /\ row'[c].expires = now + TTL
        /\ \A d \in Corr \ {c} : row'[d] = row[d]
        /\ job'[Worker].c = c /\ job'[Worker].op = job[Worker].op
        /\ UNCHANGED <<view, now, up>>
    BY <1>1, <1>20, CreateEffect
  <2>2. ~Announcing /\ job'[Worker].op # "card_send_failed"
    BY <1>3, <1>5, <2>1
  <2>3. now <= now + TTL
    BY <1>1, BoundsAssumption DEF TypeOK
  <2>4. Announcing' /\ Announced'
    BY <2>1, <2>2, <2>3 DEF Announcing, Announced, Opening
  <2> QED BY <2>1, <2>2, <2>4, AnnouncingKeepsTimers
<1>21. CASE AwaitInteraction
  <2>1. /\ Alone(Worker) /\ pc[Worker] = "await" /\ pc'[Worker] \in {"sendCard", "arm"}
        /\ UNCHANGED <<row, job, view, now, up>>
    BY <1>1, <1>21, AwaitEffect
  <2>2. Announcing /\ Announcing'
    BY <2>1 DEF Announcing
  <2>3. Announced'
    BY <1>1, <2>1, <2>2 DEF Announced, Opening, Asking
  <2> QED BY <2>1, <2>2, <2>3, AnnouncingKeepsTimers
<1>22. CASE SendCard
  <2>1. /\ pc[Worker] = "sendCard" /\ Alone(Worker) /\ job'[Worker].c = job[Worker].c
        /\ UNCHANGED <<row, view, now, up>>
        /\ \/ pc'[Worker] = "arm" /\ job' = job
           \/ /\ pc'[Worker] = "check" /\ job'[Worker].op = "card_send_failed"
              /\ job'[Worker].by = view.actor
    BY <1>1, <1>22, SendEffect
  <2>2. Announcing /\ Announcing'
    BY <2>1 DEF Announcing
  <2>3. Announced'
    BY <1>1, <2>1, <2>2 DEF Announced, Opening, Asking
  <2> QED BY <2>1, <2>2, <2>3, AnnouncingKeepsTimers
<1>23. CASE ArmTimer
  <2> DEFINE c == job[Worker].c
  <2>1. /\ pc[Worker] = "arm" /\ c \in Corr /\ pc'[Worker] = "reply" /\ job'[Worker] = NoJob
        /\ pc'[c] = "armed" /\ \A q \in Proc \ {Worker, c} : pc'[q] = pc[q]
        /\ \A q \in Proc \ {Worker} : job'[q] = job[q]
        /\ UNCHANGED <<row, up>>
    BY <1>1, <1>23, ArmEffect
  <2> HIDE DEF c
  <2>2. ~Announcing'
    BY <2>1 DEF Announcing, NoJob
  <2>3. \A d \in Corr : TimerOwn(d)'
    <3> SUFFICES ASSUME NEW d \in Corr PROVE TimerOwn(d)'
      OBVIOUS
    <3>1. CASE d = c
      BY <2>1, <3>1 DEF TimerOwn
    <3>2. CASE d # c
      BY <2>1, <3>2 DEF TimerInv, Timers, TimerOwn
    <3> QED BY <3>1, <3>2
  <2>4. TimerCovers'
    <3> SUFFICES ASSUME up, NEW d \in Corr, row[d].status = "pending"
                 PROVE  pc'[d] # "off"
      BY <2>1 DEF TimerCovers, Pending
    <3>1. pc[d] # "off" \/ d = c
      BY DEF TimerInv, Timers, TimerCovers, Pending, c
    <3> QED BY <2>1, <3>1
  <2> QED BY <2>2, <2>3, <2>4 DEF Timers, Announced
<1>24. CASE FinishRun
  BY <1>1, <1>3, <1>4, <1>5, <1>24, FinishRunEffect DEF NoJob
<1>25. CASE Reset
  BY <1>1, <1>3, <1>4, <1>5, <1>25, ResetEffect
<1>26. ASSUME NEW r \in {"processed", "faulted"}, Reply(r)
       PROVE  Timers'
  <2>1. EndMessage(r) /\ UNCHANGED <<row, up>> /\ pc[Worker] = "reply"
    BY <1>26 DEF Reply, rows, clock
  <2> QED BY <1>1, <1>3, <1>4, <2>1, EndEffect DEF NoJob
<1>27. ASSUME NEW p \in Proc, CloseStep(p)
       PROVE  Timers'
  BY <1>27, ClosingKeepsTimers
<1>28. ASSUME NEW k \in Callback, ExecuteConfirmedTool(k)
       PROVE  Timers'
  BY <1>1, <1>28, ExecuteEffect, OthersKeepTimers
<1>29. ASSUME NEW k \in Callback, NEW c \in Corr, NEW u \in User,
              NEW op \in {"approved", "user_cancelled"}, CardCallback(k, c, u, op)
       PROVE  Timers'
  BY <1>1, <1>29, PressEffect, OthersKeepTimers
<1>30. ASSUME NEW c \in Corr, TimerFires(c)
       PROVE  Timers'
  <2>1. TimerOwn(c)' /\ (pc'[c] = "off" => row'[c].status # "pending")
    BY <1>1, <1>30, TimerEffect DEF TimerOwn, Asking
  <2>2. Alone(c) /\ c \in Proc \ {Worker} /\ UNCHANGED <<row, view, now, up>>
    BY <1>1, <1>30, TimerEffect
  <2> QED BY <2>1, <2>2, OthersKeepTimers
<1>31. CASE Tick
  <2>1. /\ UNCHANGED <<pc, job, row, view, up>> /\ now' = now + 1
        /\ Announcing => now < row[job[Worker].c].expires
    BY <1>31 DEF Tick, rows, worker, tasks
  <2>2. Announcing => job[Worker].c \in Corr
    BY <1>1, AnnouncingSteps DEF JobNamed
  <2>3. Announcing => row[job[Worker].c].expires \in Nat
    BY <1>1, <2>2 DEF TypeOK, Row
  <2>4. now \in Nat
    BY <1>1 DEF TypeOK
  <2>5. Announced'
    BY <1>1, <2>1, <2>3, <2>4 DEF Announced, Announcing
  <2> QED BY <2>1, <2>5 DEF TimerInv, Timers, TimerOwn, TimerCovers, Announcing, Pending
<1>32. CASE Crash
  <2>1. /\ \A q \in Proc : job'[q] = NoJob
        /\ \A c \in Corr : pc'[c] = "off"
        /\ pc'[Worker] = "free" /\ up' = FALSE
    BY <1>32 DEF Crash
  <2>2. ~Announcing'
    BY <2>1 DEF Announcing, NoJob
  <2> QED BY <2>1, <2>2 DEF Timers, TimerOwn, Announced, TimerCovers
<1>33. CASE Recover
  <2>1. /\ \A c \in Corr : pc'[c] = IF c \in Pending THEN "armed" ELSE pc[c]
        /\ pc'[Worker] = pc[Worker] /\ UNCHANGED <<row, job, view, now>>
    BY <1>33 DEF Recover, worker, Pending
  <2>2. \A c \in Corr : TimerOwn(c)'
    BY <2>1 DEF TimerInv, Timers, TimerOwn
  <2>3. Announced'
    BY <1>1, <2>1 DEF Announced, Announcing
  <2>4. TimerCovers'
    BY <2>1 DEF TimerCovers, Pending
  <2> QED BY <2>2, <2>3, <2>4 DEF Timers
<1>34. CASE UNCHANGED vars
  BY <1>34 DEF vars, rows, worker, tasks, clock, TimerInv, Timers, TimerOwn, Announced, Announcing,
               TimerCovers, Pending
<1> QED
  BY <1>7, <1>8, <1>9, <1>10, <1>11, <1>12, <1>13, <1>14, <1>15, <1>16, <1>18, <1>19,
     <1>20, <1>21, <1>22, <1>23, <1>24, <1>25, <1>26, <1>27, <1>28, <1>29, <1>30, <1>31, <1>32,
     <1>33, <1>34
  DEF Next, Step, WorkerStep, Environment, Rest

(* TimerInv is inductive, so it always holds.                              *)
LEMMA TimerInvariant == Spec => []TimerInv
<1>1. Init => TimerInv
  BY TypeInit, ClosureInit, TimersInit DEF TimerInv, ClosureInv
<1>2. TimerInv /\ [Next]_vars => TimerInv'
  BY TypeStep, ClosureStep, TimersStep DEF TimerInv, ClosureInv
<1> QED BY <1>1, <1>2, PTL DEF Spec

(* While the process runs, every pending interaction has a timeout task or *)
(* is about to get one, whatever crashes, fails or is answered in between; *)
(* only a timer that woke too early is not armed again.                    *)
THEOREM Covered == Spec => []TimerCovers
<1>1. TimerInv => TimerCovers
  BY DEF TimerInv, Timers
<1> QED BY <1>1, TimerInvariant, PTL

-----------------------------------------------------------------------------
(* The sessions row exists from the first message on.                      *)

Arriving == {"free", "lookup", "upsert"}   \* the worker's steps before the row is written

Met ==
  /\ session.state = "Absent" => session = NoSession
  /\ pc[Worker] \notin Arriving => session.state # "Absent"
  /\ \A c \in Corr : row[c].status # "absent" => session.state # "Absent"

(* The row is never deleted, and it is written before anything needs it.   *)
LEMMA MetStep == TimerInv /\ Met /\ [Next]_vars => Met'
<1> SUFFICES ASSUME TimerInv, Met, [Next]_vars PROVE Met'
  OBVIOUS
<1> USE Tasks, TasksDiffer
<1>1. TypeInv /\ TypeOK /\ JobNamed
  BY DEF TimerInv, ClosureInv, TypeInv
<1>2. ASSUME session' = session \/ session'.state # "Absent",
             pc'[Worker] \notin Arriving => pc[Worker] \notin Arriving \/ session'.state # "Absent",
             \A c \in Corr : row'[c].status # "absent" =>
                               row[c].status # "absent" \/ pc[Worker] \notin Arriving
      PROVE  Met'
  BY <1>2 DEF Met
<1>3. ASSUME session' = session, row' = row, pc[Worker] \notin Arriving \/ pc'[Worker] \in Arriving
      PROVE  Met'
  BY <1>2, <1>3
<1>4. ASSUME NEW result, EndMessage(result), session' = session, row' = row
      PROVE  Met'
  BY <1>1, <1>3, <1>4, EndEffect DEF Arriving
<1>5. ASSUME NEW m \in MsgId, NEW u \in User, NEW k \in Kinds, Arrive(m, u, k)
      PROVE  Met'
  BY <1>3, <1>5 DEF Arrive, rows, tasks
<1>6. CASE Take
  BY <1>1, <1>3, <1>6, TakeEffect DEF Arriving
<1>7. CASE LookupSession
  BY <1>1, <1>3, <1>7, LookupEffect DEF Arriving
<1>8. CASE UpsertSession
  <2>1. session'.state # "Absent" /\ row' = row
    BY <1>1, <1>8, UpsertEffect
  <2> QED BY <1>2, <2>1
<1>9. CASE WelcomeFails
  BY <1>4, <1>9 DEF WelcomeFails, rows
<1>10. CASE Route
  BY <1>1, <1>3, <1>10, RouteEffect DEF Arriving
<1>11. CASE FindPending
  BY <1>1, <1>3, <1>11, FindEffect DEF Arriving
<1>12. CASE Restore
  BY <1>1, <1>3, <1>12, RestoreEffect DEF Arriving
<1>13. CASE Notify
  <2>1. pc[Worker] = "notify" /\ UNCHANGED <<session, row>>
    BY <1>1, <1>13, DispatchEffect DEF Notify, rows
  <2> QED BY <1>3, <2>1 DEF Arriving
<1>14. CASE StartRun
  BY <1>1, <1>2, <1>14, StartEffect DEF Arriving
<1>15. CASE Connect \/ \E t \in Turns : Think(t)
  <2>1. UNCHANGED <<session, row>> /\ pc[Worker] \in {"think", "connect"}
    BY <1>1, <1>15, ThinkEffect, ConnectEffect DEF Asks
  <2> QED BY <1>3, <2>1 DEF Arriving
<1>16. ASSUME NEW c \in Corr, CreateInteraction(c)
       PROVE  Met'
  BY <1>1, <1>2, <1>16, CreateEffect DEF Arriving
<1>17. CASE AwaitInteraction
  BY <1>1, <1>2, <1>17, AwaitEffect DEF Arriving
<1>18. CASE SendCard
  BY <1>1, <1>3, <1>18, SendEffect DEF Arriving
<1>19. CASE ArmTimer
  BY <1>1, <1>3, <1>19, ArmEffect DEF Arriving
<1>20. CASE FinishRun
  BY <1>1, <1>2, <1>20, FinishRunEffect DEF Arriving
<1>21. CASE Reset
  BY <1>1, <1>2, <1>21, ResetEffect DEF Arriving
<1>22. ASSUME NEW r \in {"processed", "faulted"}, Reply(r)
       PROVE  Met'
  BY <1>4, <1>22 DEF Reply, rows
<1>23. ASSUME NEW p \in Proc, CloseStep(p)
       PROVE  Met'
  <2>1. /\ Alone(p) /\ \A d \in Corr \ {job[p].c} : row'[d] = row[d]
        /\ Checked(p) \/ GaveUp(p) \/ Won(p) \/ Reread(p) \/ WroteIdle(p) \/ ClosedOut(p)
    BY <1>1, <1>23, CloseEffect
  <2>2. session' = session \/ session'.state # "Absent"
    BY <2>1 DEF Checked, GaveUp, Won, Reread, WroteIdle, ClosedOut
  <2>3. pc'[Worker] \notin Arriving => pc[Worker] \notin Arriving
    BY <2>1 DEF Checked, GaveUp, Won, Reread, WroteIdle, ClosedOut, Alone, Arriving, Asking
  <2>4. \A c \in Corr : row'[c].status # "absent" => row[c].status # "absent"
    BY <2>1 DEF Checked, GaveUp, Won, Reread, WroteIdle, ClosedOut
  <2> QED BY <1>2, <2>2, <2>3, <2>4
<1>24. ASSUME NEW k \in Callback, ExecuteConfirmedTool(k)
       PROVE  Met'
  BY <1>1, <1>3, <1>24, ExecuteEffect DEF Alone
<1>25. ASSUME NEW k \in Callback, NEW c \in Corr, NEW u \in User,
              NEW op \in {"approved", "user_cancelled"}, CardCallback(k, c, u, op)
       PROVE  Met'
  BY <1>1, <1>3, <1>25, PressEffect DEF Alone
<1>26. ASSUME NEW c \in Corr, TimerFires(c)
       PROVE  Met'
  BY <1>1, <1>3, <1>26, TimerEffect DEF Alone
<1>27. CASE Tick \/ UNCHANGED vars
  BY <1>3, <1>27 DEF Tick, vars, rows, tasks
<1>28. CASE Crash
  BY <1>3, <1>28 DEF Crash, rows, Arriving
<1>29. CASE Recover
  <2>1. row' = row /\ pc'[Worker] = pc[Worker] /\ session' = RecoveredSession
    BY <1>29 DEF Recover, Pending
  <2>2. session' = session \/ session'.state # "Absent"
    BY <1>1, <2>1 DEF RecoveredSession, TypeOK, SessionRow
  <2> QED BY <1>2, <2>1, <2>2
<1> QED
  BY <1>5, <1>6, <1>7, <1>8, <1>9, <1>10, <1>11, <1>12, <1>13, <1>14, <1>15, <1>16, <1>17, <1>18,
     <1>19, <1>20, <1>21, <1>22, <1>23, <1>24, <1>25, <1>26, <1>27, <1>28, <1>29
  DEF Next, Step, WorkerStep, Environment, Rest

(* Met always holds.                                                       *)
LEMMA MetInvariant == Spec => [](TimerInv /\ Met)
<1>1. Init => Met
  BY Tasks DEF Init, Met, NoRow, Arriving
<1>2. TimerInv /\ Met /\ [Next]_vars => Met'
  BY MetStep
<1> QED BY <1>1, <1>2, TimerInvariant, PTL DEF Spec

(* Recovery is the one step that starts the process, and it leaves the     *)
(* Session as the rows of the interactions say.                            *)
LEMMA RecoverStep ==
  Met /\ TypeOK /\ [Next]_vars =>
    [~up /\ up' =>
       \/ session' = NoSession
       \/ session'.state = "Idle" /\ session'.ctx = NoCorr /\ Pending = {}
       \/ session'.state = "AwaitingInteraction" /\ session'.ctx \in Pending]_vars
<1> SUFFICES ASSUME Met, TypeOK, Next, ~up, up'
             PROVE  \/ session' = NoSession
                    \/ session'.state = "Idle" /\ session'.ctx = NoCorr /\ Pending = {}
                    \/ session'.state = "AwaitingInteraction" /\ session'.ctx \in Pending
  OBVIOUS
<1>1. CASE Recover
  <2>1. session' = RecoveredSession /\ session \in SessionRow
    BY <1>1 DEF Recover, TypeOK
  <2>2. CASE session.state = "Absent"
    BY <2>1, <2>2 DEF RecoveredSession, Met
  <2>3. CASE session.state # "Absent" /\ Pending # {}
    <3>1. NewestPending \in Pending
      BY <2>3, NewestIsPending
    <3>2. session' = [session EXCEPT !.state = "AwaitingInteraction", !.ctx = NewestPending]
      BY <2>1, <2>3 DEF RecoveredSession
    <3> QED BY <2>1, <3>1, <3>2 DEF SessionRow
  <2>4. CASE session.state # "Absent" /\ Pending = {}
    <3>1. session' = [session EXCEPT !.state = "Idle", !.ctx = NoCorr]
      BY <2>1, <2>4 DEF RecoveredSession
    <3> QED BY <2>1, <2>4, <3>1 DEF SessionRow
  <2> QED BY <2>2, <2>3, <2>4
<1> USE DEF rows, clock
<1>2. CASE WorkerStep
  <2>1. up' = up
    BY <1>2, TakeEffect, LookupEffect, UpsertEffect, RouteEffect, FindEffect, RestoreEffect,
       DispatchEffect, StartEffect, ThinkEffect, ConnectEffect, CreateEffect, AwaitEffect,
       SendEffect, FinishRunEffect, ResetEffect
    DEF WorkerStep, WelcomeFails, Notify, Asks, ArmTimer, Reply
  <2> QED BY <2>1
<1>3. CASE \E p \in Proc : CloseStep(p)
  BY <1>3 DEF CloseStep, Check, Update, ReadSession, WriteIdle, CloseOut
<1>4. CASE \E k \in Callback : ExecuteConfirmedTool(k)
  BY <1>4 DEF ExecuteConfirmedTool
<1>5. CASE \E c \in Corr : TimerFires(c)
  BY <1>5 DEF TimerFires
<1>6. CASE Environment /\ ~Recover
  BY <1>6 DEF Environment, Arrive, CardCallback, Tick, Crash
<1>7. CASE Rest
  BY <1>7 DEF Rest
<1> QED BY <1>1, <1>2, <1>3, <1>4, <1>5, <1>6, <1>7 DEF Next, Step, Environment

(* However often the process dies and wherever, after a restart the        *)
(* Session awaits an interaction that is pending, or is Idle with none.    *)
THEOREM Restored == Spec => RecoveryRestores
<1>1. TimerInv /\ Met => Met /\ TypeOK
  BY DEF TimerInv, ClosureInv, TypeInv
<1> QED BY <1>1, MetInvariant, RecoverStep, PTL DEF Spec, RecoveryRestores

-----------------------------------------------------------------------------
(* An interaction that is being announced is known to nobody else, unless  *)
(* its card is shown although sending it raised: only clicks of its        *)
(* responder can then close it before the worker withdraws it.             *)

(* An interaction that was not created has no card and no timer.           *)
Fresh ==
  /\ \A c \in Corr : row[c].status = "absent" => c \notin cards /\ pc[c] = "off"
  /\ pc[Worker] = "arm" => row[job[Worker].c].status # "absent"

(* A process that is down has no tasks.                                    *)
Down ==
  ~up => /\ pc[Worker] = "free" /\ inbox = << >>
         /\ \A q \in Proc \ {Worker} : pc[q] \in {"off", "done"}

(* The worker has created an interaction and not announced it.             *)
Secret ==
  pc[Worker] \in Opening \/ (pc[Worker] \in Asking /\ job[Worker].op = "card_send_failed")

Clicked == {"approved", "user_cancelled"}

(* A callback was started by a button of a card.                           *)
Clickers ==
  \A k \in Callback : pc[k] \in Asking => job[k].c \in cards /\ job[k].op \in Clicked

(* A click of its responder closed c.                                      *)
ByClick(c) ==
  /\ c \in cards /\ row[c].status \in {"resolved", "cancelled"}
  /\ row[c].op \in Clicked /\ row[c].by = row[c].responder

(* It has no timer yet, and only a click can have closed it.               *)
Unseen ==
  Secret => LET c == job[Worker].c IN
            /\ pc[c] = "off" /\ (pc[Worker] \in Opening => c \notin cards)
            /\ row[c].status = "pending" \/ ByClick(c)

SecretInv == TimerInv /\ Met /\ Fresh /\ Down /\ Clickers /\ Unseen

(* When the worker fails to withdraw an interaction, it is not pending any *)
(* more, and unless its closer is overtaken nobody is giving it back.      *)
LEMMA Withdrawn ==
  ASSUME SecretInv, GaveUp(Worker), pc'[Worker] = "abort"
  PROVE  LET c == job[Worker].c IN
         /\ Secret /\ c \in Corr /\ row[c].status # "pending"
         /\ overtaken' = overtaken \cup {d \in {c} : Returning(d)}
         /\ overtaken' = {} => ~Returning(c)
<1> DEFINE c == job[Worker].c
<1>1. /\ pc[Worker] \in Asking /\ job[Worker].op = "card_send_failed"
      /\ overtaken' = overtaken \cup {d \in {c} : Returning(d)}
  BY DEF GaveUp
<1>2. Secret /\ Announcing /\ c \in Corr
  BY <1>1, Tasks DEF Secret, Announcing, SecretInv, TimerInv, ClosureInv, TypeInv, JobNamed,
     Engaged, Asking
<1>3. now <= row[c].expires /\ job[Worker].by = row[c].responder
  BY <1>1, <1>2 DEF SecretInv, TimerInv, Timers, Announced
<1>4. row[c].status # "pending"
  BY <1>1, <1>3 DEF GaveUp, Asking, MayClose, StillPending
<1>5. ASSUME overtaken' = {}, Returning(c) PROVE FALSE
  <2>1. c \in {d \in {c} : Returning(d)}
    BY <1>5
  <2> HIDE DEF c
  <2> QED BY <1>1, <1>5, <2>1
<1> QED BY <1>1, <1>2, <1>4, <1>5

(* A step that neither creates an interaction nor starts a timer or shows  *)
(* a card keeps Fresh.                                                     *)
LEMMA FreshKept ==
  ASSUME Fresh, \A c \in Corr : row'[c].status = "absent" => row[c].status = "absent",
         cards' = cards, \A c \in Corr : pc[c] = "off" => pc'[c] = "off",
         pc'[Worker] = "arm" => row'[job'[Worker].c].status # "absent"
  PROVE  Fresh'
BY DEF Fresh

(* The worker keeps Fresh unless it creates, shows or arms something.      *)
LEMMA WorkerKeepsFresh ==
  ASSUME Fresh, Alone(Worker), UNCHANGED <<row, cards>>, pc'[Worker] # "arm"
  PROVE  Fresh'
<1>1. \A c \in Corr : pc'[c] = pc[c]
  BY Tasks, TasksDiffer DEF Alone
<1> QED BY <1>1, FreshKept

(* Another task that was started before keeps Fresh.                       *)
LEMMA OthersKeepFresh ==
  ASSUME Fresh, NEW p \in Proc \ {Worker}, Alone(p), cards' = cards,
         \A c \in Corr : row'[c].status = "absent" <=> row[c].status = "absent",
         p \in Corr => pc[p] # "off",
         pc[Worker] = "arm" => job[Worker].c \in Corr
  PROVE  Fresh'
<1>1. pc'[Worker] = pc[Worker] /\ job'[Worker] = job[Worker]
  BY Tasks DEF Alone
<1>2. \A c \in Corr : pc[c] = "off" => pc'[c] = "off"
  BY Tasks DEF Alone
<1>3. pc'[Worker] = "arm" => row'[job'[Worker].c].status # "absent"
  BY <1>1 DEF Fresh
<1> QED BY <1>2, <1>3, FreshKept

(* Only the worker creates interactions, and it creates each once.         *)
LEMMA FreshStep == TimerInv /\ Fresh /\ Down /\ [Next]_vars => Fresh'
<1> SUFFICES ASSUME TimerInv, Fresh, Down, [Next]_vars PROVE Fresh'
  OBVIOUS
<1> USE Tasks, TasksDiffer
<1>1. TypeInv /\ TypeOK /\ JobNamed /\ \A p \in Proc : TaskOK(p)
  BY DEF TimerInv, ClosureInv, TypeInv, Closure
<1>2. pc[Worker] \in Opening => job[Worker].c \in Corr /\ row[job[Worker].c].status # "absent"
  BY <1>1 DEF TaskOK, JobNamed, Opening, Engaged
<1>3. pc[Worker] = "arm" => job[Worker].c \in Corr
  BY <1>1 DEF JobNamed, Engaged
<1>4. ASSUME NEW result, EndMessage(result), UNCHANGED <<row, cards>>
      PROVE  Fresh'
  BY <1>1, <1>4, EndEffect, WorkerKeepsFresh
<1>5. ASSUME NEW m \in MsgId, NEW u \in User, NEW k \in Kinds, Arrive(m, u, k)
      PROVE  Fresh'
  BY <1>5 DEF Arrive, rows, tasks, Fresh
<1>6. CASE Take \/ LookupSession \/ UpsertSession \/ Restore \/ Reset
  BY <1>1, <1>6, TakeEffect, LookupEffect, UpsertEffect, RestoreEffect, ResetEffect, WorkerKeepsFresh
<1>7. CASE WelcomeFails
  BY <1>4, <1>7 DEF WelcomeFails, rows
<1>8. CASE Route
  BY <1>1, <1>8, RouteEffect, WorkerKeepsFresh
<1>9. CASE FindPending
  BY <1>1, <1>9, FindEffect, WorkerKeepsFresh
<1>10. CASE Notify
  BY <1>1, <1>4, <1>10, DispatchEffect, WorkerKeepsFresh DEF Notify, rows
<1>11. CASE StartRun
  BY <1>1, <1>11, StartEffect, WorkerKeepsFresh
<1>12. CASE Connect \/ \E t \in Turns : Think(t)
  BY <1>1, <1>12, ThinkEffect, ConnectEffect, WorkerKeepsFresh DEF Asks
<1>13. ASSUME NEW c \in Corr, CreateInteraction(c)
       PROVE  Fresh'
  <2>1. /\ pc'[Worker] = "await" /\ Alone(Worker) /\ cards' = cards
        /\ row'[c].status = "pending" /\ \A d \in Corr \ {c} : row'[d] = row[d]
    BY <1>1, <1>13, CreateEffect
  <2>2. \A d \in Corr : pc'[d] = pc[d]
    BY <2>1 DEF Alone
  <2> QED BY <2>1, <2>2, FreshKept
<1>14. CASE AwaitInteraction
  <2>1. /\ pc[Worker] = "await" /\ Alone(Worker) /\ UNCHANGED <<row, cards, job>>
    BY <1>1, <1>14, AwaitEffect
  <2>2. \A d \in Corr : pc'[d] = pc[d]
    BY <2>1 DEF Alone
  <2> QED BY <1>2, <2>1, <2>2, FreshKept DEF Opening
<1>15. CASE SendCard
  <2>1. /\ pc[Worker] = "sendCard" /\ Alone(Worker) /\ row' = row
        /\ job'[Worker].c = job[Worker].c
        /\ cards' \in {cards, cards \cup {job[Worker].c}}
    BY <1>1, <1>15, SendEffect
  <2>2. \A d \in Corr : pc'[d] = pc[d]
    BY <2>1 DEF Alone
  <2> QED BY <1>2, <2>1, <2>2 DEF Fresh, Opening
<1>16. CASE ArmTimer
  <2> DEFINE c == job[Worker].c
  <2>1. /\ pc[Worker] = "arm" /\ c \in Corr /\ pc'[Worker] = "reply"
        /\ \A q \in Proc \ {Worker, c} : pc'[q] = pc[q]
        /\ UNCHANGED <<row, cards>>
    BY <1>1, <1>16, ArmEffect
  <2>2. row[c].status # "absent"
    BY <2>1 DEF Fresh
  <2> HIDE DEF c
  <2> QED BY <2>1, <2>2 DEF Fresh
<1>17. CASE FinishRun
  BY <1>1, <1>17, FinishRunEffect, WorkerKeepsFresh
<1>18. ASSUME NEW r \in {"processed", "faulted"}, Reply(r)
       PROVE  Fresh'
  BY <1>4, <1>18 DEF Reply, rows
<1>19. ASSUME NEW p \in Proc, CloseStep(p)
       PROVE  Fresh'
  <2>1. /\ Alone(p) /\ cards' = cards /\ \A d \in Corr \ {job[p].c} : row'[d] = row[d]
        /\ Checked(p) \/ GaveUp(p) \/ Won(p) \/ Reread(p) \/ WroteIdle(p) \/ ClosedOut(p)
    BY <1>1, <1>19, CloseEffect
  <2>2. \A c \in Corr : row'[c].status = "absent" <=> row[c].status = "absent"
    BY <2>1 DEF Checked, GaveUp, Won, Reread, WroteIdle, ClosedOut
  <2>3. pc[p] # "off"
    BY <2>1 DEF Checked, GaveUp, Won, Reread, WroteIdle, ClosedOut, Asking
  <2>4. CASE p = Worker
    <3>1. pc'[Worker] # "arm" /\ \A d \in Corr : pc'[d] = pc[d]
      BY <2>1, <2>4 DEF Checked, GaveUp, Won, Reread, WroteIdle, ClosedOut, Alone
    <3> QED BY <2>1, <2>2, <3>1, FreshKept
  <2>5. CASE p # Worker
    BY <1>3, <2>1, <2>2, <2>3, <2>5, OthersKeepFresh
  <2> QED BY <2>4, <2>5
<1>20. ASSUME NEW k \in Callback, ExecuteConfirmedTool(k)
       PROVE  Fresh'
  BY <1>1, <1>3, <1>20, ExecuteEffect, OthersKeepFresh
<1>21. ASSUME NEW k \in Callback, NEW c \in Corr, NEW u \in User,
              NEW op \in {"approved", "user_cancelled"}, CardCallback(k, c, u, op)
       PROVE  Fresh'
  BY <1>1, <1>3, <1>21, PressEffect, OthersKeepFresh
<1>22. ASSUME NEW c \in Corr, TimerFires(c)
       PROVE  Fresh'
  BY <1>1, <1>3, <1>22, TimerEffect, OthersKeepFresh
<1>23. CASE Tick \/ UNCHANGED vars
  BY <1>23 DEF Tick, vars, rows, tasks, Fresh
<1>24. CASE Crash
  BY <1>24 DEF Crash, rows, Fresh
<1>25. CASE Recover
  <2>1. /\ UNCHANGED <<row, cards, job>>
        /\ \A p \in Proc : pc'[p] = IF p \in Pending THEN "armed" ELSE pc[p]
    BY <1>25 DEF Recover
  <2>2. \A c \in Corr : row[c].status = "absent" => pc'[c] = pc[c]
    BY <2>1 DEF Pending
  <2>3. pc'[Worker] = pc[Worker]
    BY <2>1 DEF Pending
  <2> QED BY <2>1, <2>2, <2>3 DEF Fresh
<1> QED
  BY <1>5, <1>6, <1>7, <1>8, <1>9, <1>10, <1>11, <1>12, <1>13, <1>14, <1>15, <1>16, <1>17, <1>18,
     <1>19, <1>20, <1>21, <1>22, <1>23, <1>24, <1>25
  DEF Next, Step, WorkerStep, Environment, Rest

(* Nothing runs between a crash and the recovery.                          *)
LEMMA DownStep == TimerInv /\ Down /\ [Next]_vars => Down'
<1> SUFFICES ASSUME TimerInv, Down, [Next]_vars, ~up' PROVE Down'
  BY DEF Down
<1> USE Tasks, TasksDiffer
<1>1. TypeInv /\ TypeOK
  BY DEF TimerInv, ClosureInv, TypeInv
<1>2. CASE Crash
  BY <1>2 DEF Crash, Down
<1>3. CASE Tick \/ UNCHANGED vars
  BY <1>3 DEF Tick, vars, clock, tasks, Down
<1>4. CASE \E m \in MsgId, u \in User, k \in Kinds : Arrive(m, u, k)
  BY <1>4 DEF Arrive, clock
<1>5. CASE \E k \in Callback, c \in Corr, u \in User, op \in {"approved", "user_cancelled"} :
             CardCallback(k, c, u, op)
  BY <1>5 DEF CardCallback, clock
<1>6. CASE Recover
  BY <1>6 DEF Recover
<1>7. CASE WorkerStep
  <2>1. up' = up
    BY <1>1, <1>7, TakeEffect, LookupEffect, UpsertEffect, RouteEffect, FindEffect, RestoreEffect,
       DispatchEffect, StartEffect, ThinkEffect, ConnectEffect, CreateEffect, AwaitEffect,
       SendEffect, FinishRunEffect, ResetEffect
    DEF WorkerStep, WelcomeFails, Notify, Asks, ArmTimer, Reply, rows, clock
  <2>2. pc[Worker] # "free" \/ inbox # << >>
    BY <1>7 DEF WorkerStep, Take, LookupSession, UpsertSession, WelcomeFails, Route, FindPending,
       Restore, Notify, StartRun, Think, Connect, CreateInteraction, AwaitInteraction, SendCard,
       ArmTimer, FinishRun, Reset, Reply
  <2> QED BY <2>1, <2>2 DEF Down
<1>8. ASSUME NEW p \in Proc, CloseStep(p)
      PROVE  FALSE
  <2>1. /\ up' = up
        /\ Checked(p) \/ GaveUp(p) \/ Won(p) \/ Reread(p) \/ WroteIdle(p) \/ ClosedOut(p)
    BY <1>1, <1>8, CloseEffect
  <2>2. pc[p] \notin {"free", "off", "done"}
    BY <2>1 DEF Checked, GaveUp, Won, Reread, WroteIdle, ClosedOut, Asking
  <2> QED BY <2>1, <2>2 DEF Down
<1>9. ASSUME NEW k \in Callback, ExecuteConfirmedTool(k)
      PROVE  FALSE
  BY <1>1, <1>9, ExecuteEffect DEF Down
<1>10. ASSUME NEW c \in Corr, TimerFires(c)
       PROVE  FALSE
  BY <1>1, <1>10, TimerEffect DEF Down
<1> QED
  BY <1>2, <1>3, <1>4, <1>5, <1>6, <1>7, <1>8, <1>9, <1>10 DEF Next, Step, Environment, Rest

(* A card that is shown stays, and so does the row of a closed interaction. *)
LEMMA ClosedStays ==
  ASSUME TypeInv, [Next]_vars
  PROVE  /\ cards \subseteq cards'
         /\ \A c \in Corr : row[c].status \in {"resolved", "cancelled"} => row'[c] = row[c]
<1> USE Tasks, TasksDiffer DEF rows
<1>1. TypeOK
  BY DEF TypeInv
<1>2. CASE WorkerStep
  <2>1. CASE \E c \in Corr : CreateInteraction(c)
    BY <1>1, <2>1, CreateEffect
  <2>2. CASE SendCard
    BY <1>1, <2>2, SendEffect
  <2>3. CASE ArmTimer
    BY <2>3 DEF ArmTimer
  <2>4. CASE ~(\E c \in Corr : CreateInteraction(c)) /\ ~SendCard /\ ~ArmTimer
    <3>1. UNCHANGED <<row, cards>>
      BY <1>1, <1>2, <2>4, TakeEffect, LookupEffect, UpsertEffect, RouteEffect, FindEffect,
         RestoreEffect, DispatchEffect, StartEffect, ThinkEffect, ConnectEffect, AwaitEffect,
         FinishRunEffect, ResetEffect
      DEF WorkerStep, WelcomeFails, Notify, Asks, Reply
    <3> QED BY <3>1
  <2> QED BY <2>1, <2>2, <2>3, <2>4
<1>3. ASSUME NEW p \in Proc, CloseStep(p)
      PROVE  /\ cards' = cards
             /\ \A c \in Corr : row[c].status \in {"resolved", "cancelled"} => row'[c] = row[c]
  BY <1>3, CloseEffect DEF Checked, GaveUp, Won, Reread, WroteIdle, ClosedOut
<1>4. ASSUME NEW k \in Callback, ExecuteConfirmedTool(k)
      PROVE  UNCHANGED <<row, cards>>
  BY <1>1, <1>4, ExecuteEffect
<1>5. ASSUME NEW c \in Corr, TimerFires(c)
      PROVE  UNCHANGED <<row, cards>>
  BY <1>1, <1>5, TimerEffect
<1>6. CASE Environment
  BY <1>6 DEF Environment, Arrive, CardCallback, Tick, Crash, Recover
<1>7. CASE UNCHANGED vars
  BY <1>7 DEF vars
<1> QED BY <1>2, <1>3, <1>4, <1>5, <1>6, <1>7 DEF Next, Step, Rest

(* Only CardCallback starts a callback.                                    *)
LEMMA ClickersStep == SecretInv /\ [Next]_vars => Clickers'
<1> SUFFICES ASSUME SecretInv, [Next]_vars PROVE Clickers'
  OBVIOUS
<1> USE Tasks, TasksDiffer
<1>1. TypeInv /\ TypeOK /\ Clickers /\ cards \subseteq cards'
  BY ClosedStays DEF SecretInv, TimerInv, ClosureInv, TypeInv
<1>2. ASSUME \A k \in Callback : pc'[k] \in Asking =>
               pc[k] \in Asking /\ job'[k].c = job[k].c /\ job'[k].op = job[k].op
      PROVE  Clickers'
  BY <1>1, <1>2 DEF Clickers
<1>3. ASSUME Alone(Worker)
      PROVE  Clickers'
  BY <1>2, <1>3 DEF Alone
<1>4. CASE WorkerStep
  <2>1. CASE ArmTimer
    <3>1. \A k \in Callback : pc'[k] = pc[k] /\ job'[k] = job[k]
      BY <1>1, <2>1, ArmEffect DEF TypeInv
    <3> QED BY <1>2, <3>1
  <2>2. CASE ~ArmTimer
    <3>1. Alone(Worker)
      BY <1>1, <1>4, <2>2, TakeEffect, LookupEffect, UpsertEffect, RouteEffect, FindEffect,
         RestoreEffect, DispatchEffect, StartEffect, ThinkEffect, ConnectEffect, CreateEffect,
         AwaitEffect, SendEffect, FinishRunEffect, ResetEffect, EndEffect
      DEF WorkerStep, WelcomeFails, Notify, Asks, Reply
    <3> QED BY <1>3, <3>1
  <2> QED BY <2>1, <2>2
<1>5. ASSUME NEW p \in Proc, CloseStep(p)
      PROVE  Clickers'
  <2>1. /\ Alone(p)
        /\ Checked(p) \/ GaveUp(p) \/ Won(p) \/ Reread(p) \/ WroteIdle(p) \/ ClosedOut(p)
    BY <1>1, <1>5, CloseEffect
  <2>2. pc'[p] \in Asking => pc[p] \in Asking /\ job'[p].c = job[p].c /\ job'[p].op = job[p].op
    BY <2>1 DEF Checked, GaveUp, Won, Reread, WroteIdle, ClosedOut, Asking
  <2> QED BY <1>2, <2>1, <2>2 DEF Alone
<1>6. ASSUME NEW k \in Callback, ExecuteConfirmedTool(k)
      PROVE  Clickers'
  BY <1>1, <1>2, <1>6, ExecuteEffect DEF Alone, Asking
<1>7. ASSUME NEW k \in Callback, NEW c \in Corr, NEW u \in User,
             NEW op \in {"approved", "user_cancelled"}, CardCallback(k, c, u, op)
      PROVE  Clickers'
  BY <1>1, <1>7, PressEffect DEF Clickers, Clicked, Alone, Asking
<1>8. ASSUME NEW c \in Corr, TimerFires(c)
      PROVE  Clickers'
  BY <1>1, <1>2, <1>8, TimerEffect DEF Alone
<1>9. CASE (\E m \in MsgId, u \in User, k \in Kinds : Arrive(m, u, k)) \/ Tick \/ UNCHANGED vars
  BY <1>2, <1>9 DEF Arrive, Tick, vars, tasks
<1>10. CASE Crash
  BY <1>2, <1>10 DEF Crash, Asking
<1>11. CASE Recover
  BY <1>2, <1>11 DEF Recover, Asking
<1> QED
  BY <1>4, <1>5, <1>6, <1>7, <1>8, <1>9, <1>10, <1>11 DEF Next, Step, Environment, Rest

(* Another task keeps Unseen unless it closes the secret otherwise than by *)
(* a click, or starts its timer.                                           *)
LEMMA OthersKeepUnseen ==
  ASSUME SecretInv, NEW p \in Proc \ {Worker}, Alone(p), cards' = cards,
         Secret => LET c == job[Worker].c IN
                   /\ row'[c] = row[c] \/ (row[c].status = "pending" /\ ByClick(c)')
                   /\ p = c => pc'[p] = "off"
  PROVE  Unseen'
<1>1. pc'[Worker] = pc[Worker] /\ job'[Worker] = job[Worker]
  BY Tasks DEF Alone
<1>2. Secret' <=> Secret
  BY <1>1 DEF Secret
<1>3. Secret => job[Worker].c \in Proc
  BY Tasks DEF Secret, SecretInv, TimerInv, ClosureInv, TypeInv, JobNamed, Engaged, Opening, Asking
<1> DEFINE c == job[Worker].c
<1>4. ASSUME Secret
      PROVE  /\ pc'[c] = "off" /\ (pc'[Worker] \in Opening => c \notin cards')
             /\ row'[c].status = "pending" \/ ByClick(c)'
  <2>1. /\ pc[c] = "off" /\ (pc[Worker] \in Opening => c \notin cards)
        /\ row[c].status = "pending" \/ ByClick(c)
    BY <1>4 DEF SecretInv, Unseen
  <2>2. /\ row'[c] = row[c] \/ (row[c].status = "pending" /\ ByClick(c)')
        /\ p = c => pc'[p] = "off"
    BY <1>4
  <2>3. pc'[c] = "off"
    BY <1>3, <1>4, <2>1, <2>2 DEF Alone
  <2>4. row'[c].status = "pending" \/ ByClick(c)'
    BY <1>1, <2>1, <2>2 DEF ByClick
  <2> QED BY <1>1, <2>1, <2>3, <2>4
<1> QED BY <1>1, <1>2, <1>4 DEF Unseen

(* The worker keeps its secret while it works on it.                       *)
LEMMA WorkerKeepsUnseen ==
  ASSUME SecretInv, Alone(Worker), Secret' => Secret, row' = row, cards \subseteq cards',
         job'[Worker].c = job[Worker].c,
         pc'[Worker] \in Opening => pc[Worker] \in Opening /\ cards' = cards
  PROVE  Unseen'
<1>1. Secret => job[Worker].c \in Corr
  BY Tasks DEF Secret, SecretInv, TimerInv, ClosureInv, TypeInv, JobNamed, Engaged, Opening, Asking
<1>2. \A c \in Corr : pc'[c] = pc[c]
  BY Tasks, TasksDiffer DEF Alone
<1> QED BY <1>1, <1>2 DEF SecretInv, Unseen, ByClick

(* Every action keeps Unseen.                                              *)
LEMMA UnseenStep == SecretInv /\ [Next]_vars => Unseen'
<1> SUFFICES ASSUME SecretInv, [Next]_vars PROVE Unseen'
  OBVIOUS
<1> USE Tasks, TasksDiffer
<1>1. TypeInv /\ TypeOK /\ JobNamed /\ \A p \in Proc : TaskOK(p)
  BY DEF SecretInv, TimerInv, ClosureInv, TypeInv, Closure
<1>2. ASSUME pc'[Worker] \notin Opening \cup Asking
      PROVE  Unseen'
  BY <1>2 DEF Unseen, Secret
<1>3. ASSUME pc'[Worker] \notin {"await", "sendCard", "check", "update"}
      PROVE  Unseen'
  BY <1>2, <1>3 DEF Opening, Asking
<1>4. ASSUME NEW result, EndMessage(result)
      PROVE  Unseen'
  BY <1>1, <1>3, <1>4, EndEffect
<1>5. CASE \E m \in MsgId, u \in User, k \in Kinds : Arrive(m, u, k)
  BY <1>5 DEF Arrive, rows, tasks, SecretInv, Unseen, Secret, ByClick
<1>6. CASE Take \/ LookupSession \/ UpsertSession \/ Restore \/ Reset
  BY <1>1, <1>3, <1>6, TakeEffect, LookupEffect, UpsertEffect, RestoreEffect, ResetEffect
<1>7. CASE WelcomeFails
  BY <1>4, <1>7 DEF WelcomeFails
<1>8. CASE Route
  BY <1>1, <1>3, <1>8, RouteEffect
<1>9. CASE FindPending
  <2>1. ~Announcing
    BY <1>1, <1>9, FindEffect, AnnouncingSteps DEF SecretInv, TimerInv, Timers
  <2>2. job'[Worker].op # "card_send_failed" /\ pc'[Worker] \in {"check", "reply", "free"}
    BY <1>1, <1>9, <2>1, FindEffect DEF Announcing, NoJob
  <2> QED BY <2>2 DEF Unseen, Secret, Opening
<1>10. CASE Notify
  BY <1>1, <1>3, <1>4, <1>10, DispatchEffect DEF Notify
<1>11. CASE StartRun
  BY <1>1, <1>3, <1>11, StartEffect
<1>12. CASE Connect \/ \E t \in Turns : Think(t)
  BY <1>1, <1>3, <1>12, ThinkEffect, ConnectEffect DEF Asks
<1>13. ASSUME NEW c \in Corr, CreateInteraction(c)
       PROVE  Unseen'
  <2>1. /\ pc'[Worker] = "await" /\ Alone(Worker) /\ cards' = cards /\ job'[Worker].c = c
        /\ row[c].status = "absent" /\ row'[c].status = "pending"
    BY <1>1, <1>13, CreateEffect
  <2>2. c \notin cards /\ pc'[c] = "off"
    BY <2>1 DEF SecretInv, Fresh, Alone
  <2> QED BY <2>1, <2>2 DEF Unseen
<1>14. CASE AwaitInteraction
  BY <1>1, <1>14, AwaitEffect, WorkerKeepsUnseen DEF Secret, Opening
<1>15. CASE SendCard
  <2>1. /\ pc[Worker] = "sendCard" /\ Alone(Worker) /\ job'[Worker].c = job[Worker].c
        /\ row' = row /\ cards \subseteq cards' /\ pc'[Worker] \in {"arm", "check"}
    BY <1>1, <1>15, SendEffect
  <2>2. Secret /\ pc'[Worker] \notin Opening
    BY <2>1 DEF Secret, Opening
  <2> QED BY <2>1, <2>2, WorkerKeepsUnseen
<1>16. CASE ArmTimer
  BY <1>1, <1>3, <1>16, ArmEffect
<1>17. CASE FinishRun
  BY <1>1, <1>3, <1>17, FinishRunEffect
<1>18. ASSUME NEW r \in {"processed", "faulted"}, Reply(r)
       PROVE  Unseen'
  BY <1>4, <1>18 DEF Reply
<1>19. ASSUME NEW p \in Proc, CloseStep(p)
       PROVE  Unseen'
  <2>1. /\ Alone(p) /\ cards' = cards /\ \A d \in Corr \ {job[p].c} : row'[d] = row[d]
        /\ \A d \in Corr : row'[d].responder = row[d].responder
        /\ Checked(p) \/ GaveUp(p) \/ Won(p) \/ Reread(p) \/ WroteIdle(p) \/ ClosedOut(p)
    BY <1>1, <1>19, CloseEffect
  <2>2. CASE p = Worker
    <3>1. CASE Checked(p)
      BY <2>1, <2>2, <3>1, WorkerKeepsUnseen DEF Checked, Secret, Opening, Asking
    <3>2. CASE ~Checked(p)
      BY <1>3, <2>1, <2>2, <3>2 DEF GaveUp, Won, Reread, WroteIdle, ClosedOut
    <3> QED BY <3>1, <3>2
  <2>3. CASE p # Worker
    <3>1. pc[p] # "off"
      BY <2>1 DEF Checked, GaveUp, Won, Reread, WroteIdle, ClosedOut, Asking
    <3>2. ASSUME Secret
          PROVE  /\ \/ row'[job[Worker].c] = row[job[Worker].c]
                    \/ row[job[Worker].c].status = "pending" /\ ByClick(job[Worker].c)'
                 /\ p # job[Worker].c
      <4>1. job[Worker].c \in Corr /\ p # job[Worker].c
        BY <1>1, <3>1, <3>2 DEF Secret, JobNamed, Engaged, Opening, Asking, SecretInv, Unseen
      <4>2. CASE Won(p) /\ job[p].c = job[Worker].c
        <5>1. p \in Callback /\ pc[p] = "update"
          BY <2>3, <4>1, <4>2 DEF Won, Proc, SecretInv, TimerInv, Timers, TimerOwn
        <5>2. job[p].c \in cards /\ job[p].op \in Clicked
          BY <5>1 DEF SecretInv, Clickers, Asking
        <5>3. job[p].by = row[job[p].c].responder
          BY <1>1, <5>1, <5>2 DEF TaskOK, Clicked, Strict
        <5>4. job'[Worker] = job[Worker]
          BY <2>1, <2>3 DEF Alone
        <5> QED BY <2>1, <4>1, <4>2, <5>2, <5>3, <5>4 DEF Won, ByClick
      <4>3. CASE ~(Won(p) /\ job[p].c = job[Worker].c)
        BY <2>1, <4>1, <4>3 DEF Checked, GaveUp, Reread, WroteIdle, ClosedOut
      <4> QED BY <4>1, <4>2, <4>3
    <3> QED BY <2>1, <2>3, <3>2, OthersKeepUnseen
  <2> QED BY <2>2, <2>3
<1>20. ASSUME NEW k \in Callback, ExecuteConfirmedTool(k)
       PROVE  Unseen'
  <2>1. /\ Alone(k) /\ k \in Proc \ {Worker} /\ UNCHANGED <<row, cards>>
    BY <1>1, <1>20, ExecuteEffect
  <2>2. Secret => job[Worker].c \in Corr
    BY <1>1 DEF Secret, JobNamed, Engaged, Opening, Asking
  <2> QED BY <2>1, <2>2, OthersKeepUnseen
<1>21. ASSUME NEW k \in Callback, NEW c \in Corr, NEW u \in User,
              NEW op \in {"approved", "user_cancelled"}, CardCallback(k, c, u, op)
       PROVE  Unseen'
  <2>1. /\ Alone(k) /\ k \in Proc \ {Worker} /\ UNCHANGED <<row, cards>>
    BY <1>1, <1>21, PressEffect
  <2>2. Secret => job[Worker].c \in Corr
    BY <1>1 DEF Secret, JobNamed, Engaged, Opening, Asking
  <2> QED BY <2>1, <2>2, OthersKeepUnseen
<1>22. ASSUME NEW c \in Corr, TimerFires(c)
       PROVE  Unseen'
  <2>1. /\ Alone(c) /\ c \in Proc \ {Worker} /\ UNCHANGED <<row, cards>> /\ pc[c] = "armed"
    BY <1>1, <1>22, TimerEffect
  <2>2. Secret => c # job[Worker].c
    BY <2>1 DEF SecretInv, Unseen
  <2> QED BY <2>1, <2>2, OthersKeepUnseen
<1>23. CASE Tick \/ UNCHANGED vars
  BY <1>23 DEF Tick, vars, rows, tasks, SecretInv, Unseen, Secret, ByClick
<1>24. CASE Crash
  BY <1>3, <1>24 DEF Crash
<1>25. CASE Recover
  <2>1. pc'[Worker] = "free"
    BY <1>25 DEF Recover, SecretInv, Down, Pending
  <2> QED BY <1>3, <2>1
<1> QED
  BY <1>5, <1>6, <1>7, <1>8, <1>9, <1>10, <1>11, <1>12, <1>13, <1>14, <1>15, <1>16, <1>17, <1>18,
     <1>19, <1>20, <1>21, <1>22, <1>23, <1>24, <1>25
  DEF Next, Step, WorkerStep, Environment, Rest

-----------------------------------------------------------------------------
(* Unless a callback was overtaken: one interaction at a time, and no turn *)
(* beside it.  An interaction holds its Session until the task that closed *)
(* it has written the Session back.                                        *)

GivingBack == {"readSession", "writeIdle"}

Holding(c) ==
  \/ row[c].status = "pending"
  \/ \E p \in Proc : pc[p] \in GivingBack /\ job[p].c = c

Unheld == \A c \in Corr : ~Holding(c)

(* The worker's steps at which nothing may hold the Session.               *)
Clear == {"closeOut", "restored", "notify", "run", "think", "connect", "create", "finish",
          "abort", "reset"}

(* One interaction holds the Session; the row says so, except just after   *)
(* it was created; and a lookup that read another state read it in time.   *)
Open ==
  /\ \A c, d \in Corr : Holding(c) /\ Holding(d) => c = d
  /\ up => \A c \in Corr : Holding(c) =>
             \/ session.state = "AwaitingInteraction"
             \/ pc[Worker] = "await" /\ job[Worker].c = c
  /\ pc[Worker] \in Clear => Unheld
  /\ pc[Worker] = "upsert" /\ snap[Worker].state # "AwaitingInteraction" => Unheld

(* What the worker announces, or withdraws, is the one that holds it.      *)
Sole == Secret => \A c \in Corr : Holding(c) => c = job[Worker].c

OpenInv == SecretInv /\ Open /\ Sole

(* A step of one task lets nothing hold the Session that did not.          *)
LEMMA HoldsLess ==
  ASSUME NEW p \in Proc, Alone(p),
         \A c \in Corr : row'[c].status = "pending" => row[c].status = "pending",
         pc'[p] \in GivingBack => /\ job'[p].c = job[p].c
                                  /\ pc[p] \in GivingBack \/ row[job[p].c].status = "pending"
  PROVE  \A c \in Corr : Holding(c)' => Holding(c)
<1> SUFFICES ASSUME NEW c \in Corr, Holding(c)' PROVE Holding(c)
  OBVIOUS
<1>1. CASE row'[c].status = "pending"
  BY <1>1 DEF Holding
<1>2. CASE \E q \in Proc : pc'[q] \in GivingBack /\ job'[q].c = c
  <2>1. PICK q \in Proc : pc'[q] \in GivingBack /\ job'[q].c = c
    BY <1>2
  <2>2. CASE q = p
    BY <2>1, <2>2 DEF Holding
  <2>3. CASE q # p
    BY <2>1, <2>3 DEF Holding, Alone
  <2> QED BY <2>2, <2>3
<1> QED BY <1>1, <1>2 DEF Holding

(* Open is kept when nothing new holds the Session, and what the worker    *)
(* and the row say is still true of what does.                             *)
LEMMA OpenKept ==
  ASSUME Open, \A c \in Corr : Holding(c)' => Holding(c),
         up' => up,
         \/ Unheld' \/ session'.state = "AwaitingInteraction"
         \/ session' = session /\ (pc[Worker] = "await" =>
                                     pc'[Worker] = "await" /\ job'[Worker] = job[Worker]),
         pc'[Worker] \in Clear => pc[Worker] \in Clear \/ Unheld',
         pc'[Worker] = "upsert" /\ snap'[Worker].state # "AwaitingInteraction" =>
           Unheld' \/ (pc[Worker] = "upsert" /\ snap'[Worker] = snap[Worker])
  PROVE  Open'
<1>1. Unheld => Unheld'
  BY DEF Unheld
<1>2. \A c, d \in Corr : Holding(c)' /\ Holding(d)' => c = d
  BY DEF Open
<1>3. up' => \A c \in Corr : Holding(c)' =>
               \/ session'.state = "AwaitingInteraction"
               \/ pc'[Worker] = "await" /\ job'[Worker].c = c
  <2> SUFFICES ASSUME up', NEW c \in Corr, Holding(c)'
               PROVE  \/ session'.state = "AwaitingInteraction"
                      \/ pc'[Worker] = "await" /\ job'[Worker].c = c
    OBVIOUS
  <2>1. ~(Unheld')
    BY DEF Unheld
  <2>2. session.state = "AwaitingInteraction" \/ (pc[Worker] = "await" /\ job[Worker].c = c)
    BY DEF Open
  <2> QED BY <2>1, <2>2
<1>4. pc'[Worker] \in Clear => Unheld'
  BY <1>1 DEF Open
<1>5. pc'[Worker] = "upsert" /\ snap'[Worker].state # "AwaitingInteraction" => Unheld'
  BY <1>1 DEF Open
<1> QED BY <1>2, <1>3, <1>4, <1>5 DEF Open

(* Another task that leaves the Session alone keeps Open.                  *)
LEMMA OthersKeepOpen ==
  ASSUME Open, NEW p \in Proc \ {Worker}, Alone(p), UNCHANGED <<session, up>>,
         \A c \in Corr : row'[c].status = "pending" => row[c].status = "pending",
         pc'[p] \in GivingBack => /\ job'[p].c = job[p].c
                                  /\ pc[p] \in GivingBack \/ row[job[p].c].status = "pending"
  PROVE  Open'
<1>1. pc'[Worker] = pc[Worker] /\ job'[Worker] = job[Worker] /\ snap'[Worker] = snap[Worker]
  BY Tasks DEF Alone
<1>2. \A c \in Corr : Holding(c)' => Holding(c)
  BY HoldsLess
<1> QED BY <1>1, <1>2, OpenKept

(* The worker keeps Open at the steps that neither read nor close.         *)
LEMMA WorkerKeepsOpen ==
  ASSUME Open, Alone(Worker), UNCHANGED <<row, up>>,
         pc'[Worker] \notin GivingBack \cup {"upsert"},
         pc[Worker] \in Clear \/ Unheld \/ session'.state = "AwaitingInteraction"
           \/ (session' = session /\ pc[Worker] # "await"),
         pc'[Worker] \in Clear => pc[Worker] \in Clear \/ Unheld
  PROVE  Open'
<1>1. \A c \in Corr : Holding(c)' => Holding(c)
  BY HoldsLess, Tasks
<1>2. Unheld => Unheld'
  BY <1>1 DEF Unheld
<1>3. pc[Worker] \in Clear => Unheld'
  BY <1>2 DEF Open
<1> QED BY <1>1, <1>2, <1>3, OpenKept

(* When the task that closed an interaction has written the Session back,  *)
(* nothing holds it.                                                       *)
LEMMA GivenBack ==
  ASSUME OpenInv, NEW p \in Proc, CloseStep(p), WroteIdle(p)
  PROVE  Holding(job[p].c) /\ job[p].c \in Corr /\ Unheld' /\ \A c \in Corr : Holding(c)' => Holding(c)
<1> DEFINE c == job[p].c
<1>1. TypeInv /\ TaskOK(p) /\ Exclusive /\ Open
  BY DEF OpenInv, SecretInv, TimerInv, ClosureInv, Closure
<1>2. Alone(p) /\ row' = row /\ pc[p] = "writeIdle" /\ pc'[p] \notin GivingBack
  BY <1>1, CloseEffect DEF WroteIdle, GivingBack
<1>3. c \in Corr /\ Holding(c)
  BY <1>1, <1>2 DEF TypeInv, JobNamed, Engaged, Holding, GivingBack
<1>4. row[c].status # "pending" /\ \A q \in Proc \ {p} : pc[q] \in GivingBack => job[q].c # c
  BY <1>1, <1>2 DEF TaskOK, Closing, TerminalStatus, Exclusive, GivingBack
<1>5. \A d \in Corr : Holding(d)' => Holding(d)
  BY <1>2, HoldsLess
<1>6. ASSUME NEW d \in Corr, d = c
      PROVE  ~Holding(d)'
  <2>1. \A q \in Proc : pc'[q] \in GivingBack => q # p /\ pc[q] \in GivingBack /\ job'[q] = job[q]
    BY <1>2 DEF Alone
  <2>2. \A q \in Proc : pc'[q] \in GivingBack => job'[q].c # d
    BY <1>4, <1>6, <2>1
  <2> QED BY <1>2, <1>4, <1>6, <2>2 DEF Holding
<1>7. Unheld'
  <2> SUFFICES ASSUME NEW d \in Corr, Holding(d)' PROVE FALSE
    BY DEF Unheld
  <2>1. d = c
    BY <1>1, <1>3, <1>5 DEF Open
  <2> QED BY <1>6, <2>1
<1> QED BY <1>3, <1>5, <1>7

(* Before the first message nothing is held.                               *)
LEMMA NothingHeld == Init => Fresh /\ Down /\ Clickers /\ Unseen /\ Open /\ Sole
<1> SUFFICES ASSUME Init PROVE Fresh /\ Down /\ Clickers /\ Unseen /\ Open /\ Sole
  OBVIOUS
<1>1. pc[Worker] = "free" /\ \A p \in Proc : pc[p] \in {"free", "off"}
  BY Tasks DEF Init
<1>2. Unheld
  BY <1>1 DEF Init, Unheld, Holding, NoRow, GivingBack
<1>3. Fresh
  BY <1>1, Tasks, TasksDiffer DEF Init, Fresh
<1>4. Unseen /\ Sole
  BY <1>1 DEF Unseen, Sole, Secret, Opening, Asking
<1>5. Clickers
  BY <1>1, Tasks DEF Clickers, Asking
<1>6. Open
  BY <1>1, <1>2 DEF Open, Unheld, Clear
<1> QED BY <1>3, <1>4, <1>5, <1>6 DEF Init, Down

(* Only a new interaction holds the Session that did not.                  *)
LEMMA HoldsNoMore ==
  ASSUME TypeInv, [Next]_vars, \A c \in Corr : ~CreateInteraction(c)
  PROVE  \A c \in Corr : Holding(c)' => Holding(c)
<1> USE Tasks, TasksDiffer
<1>1. TypeOK /\ JobNamed
  BY DEF TypeInv
<1>2. ASSUME row' = row, \A p \in Proc : pc'[p] \in GivingBack =>
                                           pc[p] \in GivingBack /\ job'[p].c = job[p].c
      PROVE  \A c \in Corr : Holding(c)' => Holding(c)
  BY <1>2 DEF Holding
<1>3. CASE WorkerStep
  <2>1. row' = row
    BY <1>1, <1>3, TakeEffect, LookupEffect, UpsertEffect, RouteEffect, FindEffect, RestoreEffect,
       DispatchEffect, StartEffect, ThinkEffect, ConnectEffect, AwaitEffect,
       SendEffect, FinishRunEffect, ResetEffect
    DEF WorkerStep, WelcomeFails, Notify, Asks, ArmTimer, Reply, rows
  <2>2. CASE ArmTimer
    BY <1>1, <1>2, <2>1, <2>2, ArmEffect DEF GivingBack
  <2>3. CASE ~ArmTimer
    <3>1. Alone(Worker) /\ pc'[Worker] \notin GivingBack
      BY <1>1, <1>3, <2>3, TakeEffect, LookupEffect, UpsertEffect, RouteEffect, FindEffect,
         RestoreEffect, DispatchEffect, StartEffect, ThinkEffect, ConnectEffect, AwaitEffect,
         SendEffect, FinishRunEffect, ResetEffect, EndEffect
      DEF WorkerStep, WelcomeFails, Notify, Asks, Reply, GivingBack
    <3> QED BY <1>2, <2>1, <3>1 DEF Alone
  <2> QED BY <2>2, <2>3
<1>4. ASSUME NEW p \in Proc, CloseStep(p)
      PROVE  \A c \in Corr : Holding(c)' => Holding(c)
  <2>1. /\ Alone(p) /\ \A d \in Corr \ {job[p].c} : row'[d] = row[d]
        /\ Checked(p) \/ GaveUp(p) \/ Won(p) \/ Reread(p) \/ WroteIdle(p) \/ ClosedOut(p)
    BY <1>4, CloseEffect
  <2>2. \A c \in Corr : row'[c].status = "pending" => row[c].status = "pending"
    BY <2>1 DEF Checked, GaveUp, Won, Reread, WroteIdle, ClosedOut
  <2>3. pc'[p] \in GivingBack => /\ job'[p].c = job[p].c
                                 /\ pc[p] \in GivingBack \/ row[job[p].c].status = "pending"
    BY <2>1 DEF Checked, GaveUp, Won, Reread, WroteIdle, ClosedOut, GivingBack
  <2> QED BY <2>1, <2>2, <2>3, HoldsLess
<1>5. ASSUME NEW k \in Callback, ExecuteConfirmedTool(k)
      PROVE  \A c \in Corr : Holding(c)' => Holding(c)
  BY <1>1, <1>2, <1>5, ExecuteEffect DEF Alone, GivingBack
<1>6. ASSUME NEW k \in Callback, NEW c \in Corr, NEW u \in User,
             NEW op \in {"approved", "user_cancelled"}, CardCallback(k, c, u, op)
      PROVE  \A d \in Corr : Holding(d)' => Holding(d)
  BY <1>1, <1>2, <1>6, PressEffect DEF Alone, GivingBack
<1>7. ASSUME NEW c \in Corr, TimerFires(c)
      PROVE  \A d \in Corr : Holding(d)' => Holding(d)
  BY <1>1, <1>2, <1>7, TimerEffect DEF Alone, GivingBack
<1>8. CASE (\E m \in MsgId, u \in User, k \in Kinds : Arrive(m, u, k)) \/ Tick \/ UNCHANGED vars
  BY <1>2, <1>8 DEF Arrive, Tick, vars, tasks, rows
<1>9. CASE Crash
  BY <1>2, <1>9 DEF Crash, rows, GivingBack
<1>10. CASE Recover
  BY <1>2, <1>10 DEF Recover, GivingBack
<1> QED
  BY <1>3, <1>4, <1>5, <1>6, <1>7, <1>8, <1>9, <1>10 DEF Next, Step, Environment, Rest

(* The worker's secret stays the same until it is given up or out.         *)
LEMMA SecretStays ==
  ASSUME TimerInv, [Next]_vars, \A c \in Corr : ~CreateInteraction(c), Secret'
  PROVE  Secret /\ job'[Worker].c = job[Worker].c
<1> USE Tasks, TasksDiffer
<1>1. TypeInv /\ TypeOK /\ JobNamed /\ Announced
  BY DEF TimerInv, Timers, ClosureInv, TypeInv
<1>2. pc'[Worker] \in {"await", "sendCard", "check", "update"}
  BY DEF Secret, Opening, Asking
<1>3. ASSUME pc'[Worker] = pc[Worker], job'[Worker] = job[Worker]
      PROVE  Secret /\ job'[Worker].c = job[Worker].c
  BY <1>3 DEF Secret
<1>4. CASE WorkerStep
  <2>1. CASE AwaitInteraction
    BY <1>1, <2>1, AwaitEffect DEF Secret, Opening
  <2>2. CASE SendCard
    BY <1>1, <2>2, SendEffect DEF Secret, Opening
  <2>3. CASE FindPending
    <3>1. pc[Worker] = "find" /\ ~Announcing
      BY <1>1, <2>3, FindEffect, AnnouncingSteps
    <3>2. job'[Worker].op # "card_send_failed" /\ pc'[Worker] \in {"check", "reply", "free"}
      BY <1>1, <2>3, <3>1, FindEffect DEF Announcing, NoJob
    <3> QED BY <3>2 DEF Secret, Opening
  <2>4. CASE ~(AwaitInteraction \/ SendCard \/ FindPending)
    <3>1. pc'[Worker] \notin {"await", "sendCard", "check", "update"}
      BY <1>1, <1>4, <2>4, TakeEffect, LookupEffect, UpsertEffect, RouteEffect, RestoreEffect,
         DispatchEffect, StartEffect, ThinkEffect, ConnectEffect, ArmEffect,
         FinishRunEffect, ResetEffect, EndEffect
      DEF WorkerStep, WelcomeFails, Notify, Asks, Reply
    <3> QED BY <1>2, <3>1
  <2> QED BY <2>1, <2>2, <2>3, <2>4
<1>5. ASSUME NEW p \in Proc, CloseStep(p)
      PROVE  Secret /\ job'[Worker].c = job[Worker].c
  <2>1. /\ Alone(p)
        /\ Checked(p) \/ GaveUp(p) \/ Won(p) \/ Reread(p) \/ WroteIdle(p) \/ ClosedOut(p)
    BY <1>1, <1>5, CloseEffect
  <2>2. CASE p = Worker
    <3>1. Checked(Worker)
      BY <1>2, <2>1, <2>2 DEF GaveUp, Won, Reread, WroteIdle, ClosedOut
    <3> QED BY <3>1 DEF Checked, Secret, Opening, Asking
  <2>3. CASE p # Worker
    BY <1>3, <2>1, <2>3 DEF Alone
  <2> QED BY <2>2, <2>3
<1>6. ASSUME NEW k \in Callback, ExecuteConfirmedTool(k)
      PROVE  Secret /\ job'[Worker].c = job[Worker].c
  BY <1>1, <1>3, <1>6, ExecuteEffect DEF Alone
<1>7. ASSUME NEW k \in Callback, NEW c \in Corr, NEW u \in User,
             NEW op \in {"approved", "user_cancelled"}, CardCallback(k, c, u, op)
      PROVE  Secret /\ job'[Worker].c = job[Worker].c
  BY <1>1, <1>3, <1>7, PressEffect DEF Alone
<1>8. ASSUME NEW c \in Corr, TimerFires(c)
      PROVE  Secret /\ job'[Worker].c = job[Worker].c
  BY <1>1, <1>3, <1>8, TimerEffect DEF Alone
<1>9. CASE (\E m \in MsgId, u \in User, k \in Kinds : Arrive(m, u, k)) \/ Tick \/ UNCHANGED vars
  BY <1>3, <1>9 DEF Arrive, Tick, vars, tasks
<1>10. CASE Crash
  BY <1>2, <1>10 DEF Crash
<1>11. CASE Recover
  BY <1>3, <1>11 DEF Recover, Pending
<1> QED
  BY <1>4, <1>5, <1>6, <1>7, <1>8, <1>9, <1>10, <1>11 DEF Next, Step, Environment, Rest

(* Every action keeps Sole.                                                *)
LEMMA SoleStep == OpenInv /\ [Next]_vars => Sole'
<1> SUFFICES ASSUME OpenInv, [Next]_vars PROVE Sole'
  OBVIOUS
<1>1. TypeInv /\ TypeOK /\ TimerInv /\ Open /\ Sole
  BY DEF OpenInv, SecretInv, TimerInv, ClosureInv, TypeInv
<1>2. ASSUME NEW c \in Corr, CreateInteraction(c)
      PROVE  Sole'
  <2>1. /\ pc[Worker] = "create" /\ pc'[Worker] = "await" /\ Alone(Worker)
        /\ (\A d \in Corr \ {c} : row'[d] = row[d]) /\ job'[Worker].c = c
    BY <1>1, <1>2, CreateEffect
  <2>2. Unheld
    BY <1>1, <2>1 DEF Open, Clear
  <2>3. \A q \in Proc : pc'[q] \in GivingBack => pc[q] \in GivingBack /\ job'[q] = job[q]
    BY <2>1 DEF Alone, GivingBack
  <2>4. \A d \in Corr : Holding(d)' => d = c
    BY <2>1, <2>2, <2>3 DEF Unheld, Holding
  <2> QED BY <2>1, <2>4 DEF Sole
<1>3. CASE \A c \in Corr : ~CreateInteraction(c)
  BY <1>1, <1>3, HoldsNoMore, SecretStays DEF Sole
<1> QED BY <1>2, <1>3

(* Every action keeps Open, unless it overtakes a callback.                *)
LEMMA OpenStep == OpenInv /\ [Next]_vars /\ overtaken' = {} => Open'
<1> SUFFICES ASSUME OpenInv, [Next]_vars, overtaken' = {} PROVE Open'
  OBVIOUS
<1> USE Tasks, TasksDiffer
<1>1. TypeInv /\ TypeOK /\ JobNamed /\ Open /\ Sole /\ SecretInv
  BY DEF OpenInv, SecretInv, TimerInv, ClosureInv, TypeInv
<1>2. pc[Worker] # "free" => up
  BY <1>1 DEF SecretInv, Down
<1>3. up /\ pc[Worker] # "await" /\ session.state # "AwaitingInteraction" => Unheld
  BY <1>1 DEF Open, Unheld
<1>4. ASSUME NEW result, EndMessage(result), UNCHANGED <<row, up>>,
             pc[Worker] \in Clear \/ (session' = session /\ pc[Worker] # "await")
      PROVE  Open'
  <2>1. pc'[Worker] = "free" /\ Alone(Worker)
    BY <1>1, <1>4, EndEffect
  <2> QED BY <1>1, <1>4, <2>1, WorkerKeepsOpen DEF Clear, GivingBack
<1>5. CASE \E m \in MsgId, u \in User, k \in Kinds : Arrive(m, u, k)
  BY <1>1, <1>5 DEF Arrive, rows, tasks, clock, Open, Unheld, Holding
<1>6. CASE Take
  BY <1>1, <1>6, TakeEffect, WorkerKeepsOpen DEF Clear, GivingBack
<1>7. CASE LookupSession
  <2>1. /\ pc[Worker] = "lookup" /\ pc'[Worker] = "upsert" /\ Alone(Worker)
        /\ snap'[Worker] = session /\ UNCHANGED <<session, row, up>>
    BY <1>1, <1>7, LookupEffect
  <2>2. \A c \in Corr : Holding(c)' => Holding(c)
    BY <2>1, HoldsLess DEF GivingBack
  <2>3. session.state # "AwaitingInteraction" => Unheld'
    BY <1>2, <1>3, <2>1, <2>2 DEF Unheld
  <2> QED BY <1>1, <2>1, <2>2, <2>3, OpenKept DEF Clear
<1>8. CASE UpsertSession
  <2>1. /\ pc[Worker] = "upsert" /\ pc'[Worker] = "reload" /\ Alone(Worker)
        /\ session'.state = IF snap[Worker].state = "Absent" THEN "Idle" ELSE snap[Worker].state
        /\ UNCHANGED <<row, up>>
    BY <1>1, <1>8, UpsertEffect
  <2>2. session'.state = "AwaitingInteraction" \/ Unheld
    BY <1>1, <2>1 DEF Open
  <2> QED BY <1>1, <2>1, <2>2, WorkerKeepsOpen DEF Clear, GivingBack
<1>9. CASE WelcomeFails
  BY <1>4, <1>9 DEF WelcomeFails, rows, clock
<1>10. CASE Route
  BY <1>1, <1>2, <1>3, <1>10, RouteEffect, WorkerKeepsOpen DEF Clear, GivingBack
<1>11. CASE FindPending
  BY <1>1, <1>11, FindEffect, WorkerKeepsOpen DEF Clear, GivingBack
<1>12. CASE Restore
  BY <1>1, <1>12, RestoreEffect, WorkerKeepsOpen DEF Clear, GivingBack
<1>13. CASE Notify
  <2>1. pc[Worker] \in Clear
    BY <1>13 DEF Notify, Clear
  <2>2. CASE Dispatch(view)
    BY <1>1, <2>1, <2>2, DispatchEffect, WorkerKeepsOpen DEF Clear, GivingBack
  <2>3. CASE EndMessage("faulted") /\ UNCHANGED <<rows, cards, inbox, history, clock>>
    BY <1>4, <2>1, <2>3 DEF rows, clock
  <2> QED BY <1>13, <2>2, <2>3 DEF Notify
<1>14. CASE StartRun
  BY <1>1, <1>14, StartEffect, WorkerKeepsOpen DEF Clear, GivingBack
<1>15. CASE Connect \/ \E t \in Turns : Think(t)
  <2>1. \E from \in {"think", "connect"} : Asks(from)
    BY <1>1, <1>15, ThinkEffect, ConnectEffect
  <2> QED BY <1>1, <2>1, WorkerKeepsOpen DEF Asks, Clear, GivingBack
<1>16. ASSUME NEW c \in Corr, CreateInteraction(c)
       PROVE  Open'
  <2>1. /\ pc[Worker] = "create" /\ pc'[Worker] = "await" /\ Alone(Worker)
        /\ \A d \in Corr \ {c} : row'[d] = row[d]
        /\ job'[Worker].c = c
    BY <1>1, <1>16, CreateEffect
  <2>2. Unheld
    BY <1>1, <2>1 DEF Open, Clear
  <2>3. \A q \in Proc : pc'[q] \in GivingBack => pc[q] \in GivingBack /\ job'[q] = job[q]
    BY <2>1 DEF Alone, GivingBack
  <2>4. \A d \in Corr : Holding(d)' => d = c
    BY <2>1, <2>2, <2>3 DEF Unheld, Holding
  <2> QED BY <2>1, <2>4 DEF Open, Clear
<1>17. CASE AwaitInteraction
  BY <1>1, <1>17, AwaitEffect, WorkerKeepsOpen DEF Clear, GivingBack
<1>18. CASE SendCard
  BY <1>1, <1>18, SendEffect, WorkerKeepsOpen DEF Clear, GivingBack
<1>19. CASE ArmTimer
  <2> DEFINE c == job[Worker].c
  <2>1. /\ pc[Worker] = "arm" /\ pc'[Worker] = "reply" /\ pc'[c] = "armed"
        /\ \A q \in Proc \ {Worker, c} : pc'[q] = pc[q]
        /\ \A q \in Proc \ {Worker} : job'[q] = job[q]
        /\ UNCHANGED <<session, row, up>>
    BY <1>1, <1>19, ArmEffect
  <2> HIDE DEF c
  <2>2. \A q \in Proc : pc'[q] \in GivingBack => pc[q] \in GivingBack /\ job'[q] = job[q]
    BY <2>1 DEF GivingBack
  <2>3. \A d \in Corr : Holding(d)' => Holding(d)
    BY <2>1, <2>2 DEF Holding
  <2> QED BY <1>1, <2>1, <2>3, OpenKept DEF Clear
<1>20. CASE FinishRun
  BY <1>1, <1>20, FinishRunEffect, WorkerKeepsOpen DEF Clear, GivingBack
<1>21. CASE Reset
  BY <1>1, <1>21, ResetEffect, WorkerKeepsOpen DEF Clear, GivingBack
<1>22. ASSUME NEW r \in {"processed", "faulted"}, Reply(r)
       PROVE  Open'
  BY <1>4, <1>22 DEF Reply, rows, clock
<1>23. ASSUME NEW p \in Proc, CloseStep(p)
       PROVE  Open'
  <2>1. /\ Alone(p) /\ up' = up /\ \A d \in Corr \ {job[p].c} : row'[d] = row[d]
        /\ Checked(p) \/ GaveUp(p) \/ Won(p) \/ Reread(p) \/ WroteIdle(p) \/ ClosedOut(p)
    BY <1>1, <1>23, CloseEffect
  <2>2. CASE WroteIdle(p)
    <3>1. Unheld' /\ \A c \in Corr : Holding(c)' => Holding(c)
      BY <1>23, <2>2, GivenBack
    <3> QED BY <1>1, <2>1, <3>1, OpenKept
  <2>3. CASE ~WroteIdle(p)
    <3>1. session' = session
      BY <2>1, <2>3 DEF Checked, GaveUp, Won, Reread, ClosedOut
    <3>2. \A c \in Corr : row'[c].status = "pending" => row[c].status = "pending"
      BY <2>1, <2>3 DEF Checked, GaveUp, Won, Reread, ClosedOut
    <3>3. pc'[p] \in GivingBack => /\ job'[p].c = job[p].c
                                   /\ pc[p] \in GivingBack \/ row[job[p].c].status = "pending"
      BY <2>1, <2>3, TasksDiffer DEF Checked, GaveUp, Won, Reread, ClosedOut, GivingBack
    <3>4. CASE p # Worker
      BY <1>1, <2>1, <3>1, <3>2, <3>3, <3>4, OthersKeepOpen
    <3>5. CASE p = Worker
      <4>1. \A c \in Corr : Holding(c)' => Holding(c)
        BY <2>1, <3>2, <3>3, HoldsLess
      <4>2. pc[Worker] # "await" /\ pc'[Worker] # "upsert"
        BY <2>1, <2>3, <3>5 DEF Checked, GaveUp, Won, Reread, ClosedOut, Asking
      <4>3. pc'[Worker] \in Clear => pc[Worker] \in Clear \/ Unheld'
        <5>1. CASE GaveUp(p) /\ pc'[p] = "abort"
          <6>1. ~Holding(job[p].c) /\ Secret
            BY <1>1, <3>5, <5>1, Withdrawn DEF Holding, Returning, GivingBack
          <6>2. Unheld
            BY <1>1, <3>5, <6>1 DEF Sole, Unheld
          <6> QED BY <4>1, <6>2 DEF Unheld
        <5>2. CASE ~(GaveUp(p) /\ pc'[p] = "abort")
          BY <2>1, <2>3, <3>5, <5>2 DEF Checked, GaveUp, Won, Reread, ClosedOut, Clear
        <5> QED BY <5>1, <5>2
      <4> QED BY <1>1, <2>1, <3>1, <4>1, <4>2, <4>3, OpenKept
    <3> QED BY <3>4, <3>5
  <2> QED BY <2>2, <2>3
<1>24. ASSUME NEW k \in Callback, ExecuteConfirmedTool(k)
       PROVE  Open'
  BY <1>1, <1>24, ExecuteEffect, OthersKeepOpen DEF GivingBack
<1>25. ASSUME NEW k \in Callback, NEW c \in Corr, NEW u \in User,
              NEW op \in {"approved", "user_cancelled"}, CardCallback(k, c, u, op)
       PROVE  Open'
  BY <1>1, <1>25, PressEffect, OthersKeepOpen DEF GivingBack
<1>26. ASSUME NEW c \in Corr, TimerFires(c)
       PROVE  Open'
  BY <1>1, <1>26, TimerEffect, OthersKeepOpen DEF GivingBack
<1>27. CASE Tick \/ UNCHANGED vars
  BY <1>1, <1>27 DEF Tick, vars, rows, tasks, clock, Open, Unheld, Holding
<1>28. CASE Crash
  <2>1. \A p \in Proc : pc'[p] \in {"free", "off", "done"}
    BY <1>28 DEF Crash
  <2>2. \A c \in Corr : Holding(c)' => Holding(c)
    BY <1>28, <2>1 DEF Crash, rows, Holding, GivingBack
  <2>3. /\ up' = FALSE /\ session' = session
        /\ pc'[Worker] \notin Clear /\ pc'[Worker] # "upsert"
    BY <1>28 DEF Crash, rows, Clear
  <2>4. \A c, d \in Corr : Holding(c)' /\ Holding(d)' => c = d
    BY <1>1, <2>2 DEF Open
  <2> QED BY <2>3, <2>4 DEF Open
<1>29. CASE Recover
  <2>1. /\ ~up /\ UNCHANGED <<row, job>> /\ session' = RecoveredSession
        /\ \A p \in Proc : pc'[p] = IF p \in Pending THEN "armed" ELSE pc[p]
    BY <1>29 DEF Recover
  <2>2. pc'[Worker] = "free" /\ \A p \in Proc : pc'[p] \in {"free", "off", "done", "armed"}
    BY <1>1, <2>1 DEF SecretInv, Down, Pending
  <2>3. \A c \in Corr : Holding(c)' => row[c].status = "pending"
    BY <2>1, <2>2 DEF Holding, GivingBack
  <2>4. \A c, d \in Corr : Holding(c)' /\ Holding(d)' => c = d
    BY <1>1, <2>3 DEF Open, Holding
  <2>5. Pending # {} => session'.state = "AwaitingInteraction"
    <3> SUFFICES ASSUME Pending # {} PROVE session'.state = "AwaitingInteraction"
      OBVIOUS
    <3>1. session.state # "Absent"
      BY <1>1 DEF SecretInv, Met, Pending
    <3> QED BY <1>1, <2>1, <3>1 DEF RecoveredSession, TypeOK, SessionRow
  <2>6. \A c \in Corr : Holding(c)' => session'.state = "AwaitingInteraction"
    BY <2>3, <2>5 DEF Pending
  <2> QED BY <2>2, <2>4, <2>6 DEF Open, Clear
<1> QED
  BY <1>5, <1>6, <1>7, <1>8, <1>9, <1>10, <1>11, <1>12, <1>13, <1>14, <1>15, <1>16, <1>17, <1>18,
     <1>19, <1>20, <1>21, <1>22, <1>23, <1>24, <1>25, <1>26, <1>27, <1>28, <1>29
  DEF Next, Step, WorkerStep, Environment, Rest

-----------------------------------------------------------------------------
(* Unless a callback was overtaken: a turn runs as the sender of its       *)
(* message.                                                                *)

(* The worker holds the sender's Session, or will read it.                 *)
Mine == job[Worker].op # "card_send_failed"

Sender ==
  /\ pc[Worker] \in {"reload", "find", "check", "update"} /\ Mine /\ Pending # {} =>
       session.actor = msg.from
  /\ pc[Worker] = "readSession" /\ Mine => session.actor = msg.from
  /\ pc[Worker] = "writeIdle" /\ Mine => snap[Worker].actor = msg.from
  /\ pc[Worker] \in {"closeOut", "restored"} => session.actor = msg.from
  /\ pc[Worker] \in {"notify", "run", "think", "connect", "create"} => view.actor = msg.from

(* Other tasks keep Sender: the one that writes the Session back was the   *)
(* only one that held it.                                                  *)
LEMMA OthersKeepSender ==
  ASSUME Sender, NEW p \in Proc \ {Worker}, Alone(p), UNCHANGED <<msg, view>>,
         \A c \in Corr : row'[c].status = "pending" => row[c].status = "pending",
         \/ session' = session
         \/ Pending' = {} /\ pc[Worker] \notin {"readSession", "closeOut", "restored"}
  PROVE  Sender'
<1>1. pc'[Worker] = pc[Worker] /\ job'[Worker] = job[Worker] /\ snap'[Worker] = snap[Worker]
  BY Tasks DEF Alone
<1>2. Pending' \subseteq Pending
  BY DEF Pending
<1>3. Mine' <=> Mine
  BY <1>1 DEF Mine
<1>4. CASE session' = session
  BY <1>1, <1>2, <1>3, <1>4 DEF Sender
<1>5. CASE Pending' = {} /\ pc[Worker] \notin {"readSession", "closeOut", "restored"}
  BY <1>1, <1>3, <1>5 DEF Sender
<1> QED BY <1>4, <1>5

(* Every action keeps Sender.                                              *)
LEMMA SenderStep == OpenInv /\ Sender /\ [Next]_vars => Sender'
<1> SUFFICES ASSUME OpenInv, Sender, [Next]_vars PROVE Sender'
  OBVIOUS
<1> USE Tasks, TasksDiffer
<1>1. TypeInv /\ TypeOK /\ JobNamed /\ Open /\ Announced /\ SecretInv
  BY DEF OpenInv, SecretInv, TimerInv, Timers, ClosureInv, TypeInv
<1>2. pc[Worker] \in Clear => Pending = {}
  BY <1>1 DEF Open, Unheld, Holding, Pending
<1>3. pc[Worker] \notin {"await", "sendCard", "arm", "check", "update", "readSession",
                         "writeIdle"} => Mine
  BY <1>1, AnnouncingSteps DEF Mine, Announcing
<1>4. ASSUME pc'[Worker] \in {"free", "lookup", "upsert", "reply", "reset", "await", "sendCard",
                              "arm", "finish", "abort", "execute", "done"}
      PROVE  Sender'
  BY <1>4 DEF Sender
<1>5. ASSUME NEW result, EndMessage(result)
      PROVE  Sender'
  BY <1>1, <1>4, <1>5, EndEffect
<1>6. CASE \E m \in MsgId, u \in User, k \in Kinds : Arrive(m, u, k)
  BY <1>6 DEF Arrive, rows, worker, tasks, Sender, Mine, Pending
<1>7. CASE Take \/ LookupSession
  BY <1>1, <1>4, <1>7, TakeEffect, LookupEffect
<1>8. CASE UpsertSession
  BY <1>1, <1>8, UpsertEffect DEF Sender
<1>9. CASE WelcomeFails
  BY <1>5, <1>9 DEF WelcomeFails
<1>10. CASE Route
  <2>1. /\ pc[Worker] = "reload" /\ view'.actor = msg.from
        /\ UNCHANGED <<session, row, msg>>
        /\ pc'[Worker] \in {"find", "reply", "connect", "reset", "run"}
    BY <1>1, <1>10, RouteEffect
  <2>2. Pending' = Pending
    BY <2>1 DEF Pending
  <2> QED BY <1>3, <2>1, <2>2 DEF Sender
<1>11. CASE FindPending
  <2>1. /\ pc[Worker] = "find" /\ UNCHANGED <<session, row>>
        /\ (pc'[Worker] = "check" /\ msg' = msg) \/ pc'[Worker] \in {"reply", "free"}
    BY <1>1, <1>11, FindEffect
  <2>2. Pending' = Pending
    BY <2>1 DEF Pending
  <2> QED BY <1>3, <1>4, <2>1, <2>2 DEF Sender
<1>12. CASE Restore
  BY <1>1, <1>4, <1>12, RestoreEffect DEF Sender
<1>13. CASE Notify
  <2>1. pc[Worker] = "notify" /\ Pending = {}
    BY <1>2, <1>13 DEF Notify, Clear
  <2>2. CASE Dispatch(view)
    <3>1. /\ view' = view /\ UNCHANGED <<row, msg>>
          /\ pc'[Worker] \in {"reply", "connect", "reset", "run", "find"}
      BY <1>1, <2>2, DispatchEffect
    <3>2. Pending' = {}
      BY <2>1, <3>1 DEF Pending
    <3> QED BY <2>1, <3>1, <3>2 DEF Sender
  <2>3. CASE EndMessage("faulted")
    BY <1>5, <2>3
  <2> QED BY <1>13, <2>2, <2>3 DEF Notify
<1>14. CASE StartRun
  BY <1>1, <1>4, <1>14, StartEffect DEF Sender
<1>15. CASE Connect \/ \E t \in Turns : Think(t)
  <2>1. \E from \in {"think", "connect"} : Asks(from)
    BY <1>1, <1>15, ThinkEffect, ConnectEffect
  <2> QED BY <1>4, <2>1 DEF Asks, Sender
<1>16. CASE \E c \in Corr : CreateInteraction(c)
  BY <1>1, <1>4, <1>16, CreateEffect
<1>17. CASE AwaitInteraction
  BY <1>1, <1>4, <1>17, AwaitEffect
<1>18. CASE SendCard
  BY <1>1, <1>4, <1>18, SendEffect DEF Sender, Mine
<1>19. CASE ArmTimer
  BY <1>1, <1>4, <1>19, ArmEffect
<1>20. CASE FinishRun
  BY <1>1, <1>4, <1>20, FinishRunEffect
<1>21. CASE Reset
  BY <1>1, <1>4, <1>21, ResetEffect
<1>22. ASSUME NEW r \in {"processed", "faulted"}, Reply(r)
       PROVE  Sender'
  BY <1>5, <1>22 DEF Reply
<1>23. ASSUME NEW p \in Proc, CloseStep(p)
       PROVE  Sender'
  <2>1. /\ Alone(p) /\ \A d \in Corr \ {job[p].c} : row'[d] = row[d]
        /\ Checked(p) \/ GaveUp(p) \/ Won(p) \/ Reread(p) \/ WroteIdle(p) \/ ClosedOut(p)
    BY <1>1, <1>23, CloseEffect
  <2>2. \A c \in Corr : row'[c].status = "pending" => row[c].status = "pending"
    BY <2>1 DEF Checked, GaveUp, Won, Reread, WroteIdle, ClosedOut
  <2>3. CASE p # Worker
    <3>1. UNCHANGED <<msg, view>>
      BY <2>1, <2>3 DEF Checked, GaveUp, Won, Reread, WroteIdle, ClosedOut
    <3>2. CASE WroteIdle(p)
      <4>1. Holding(job[p].c) /\ job[p].c \in Corr /\ Unheld'
        BY <1>23, <3>2, GivenBack
      <4>2. Pending' = {}
        BY <4>1 DEF Unheld, Holding, Pending
      <4>3. pc[Worker] # "readSession"
        <5> SUFFICES ASSUME pc[Worker] = "readSession" PROVE FALSE
          OBVIOUS
        <5>1. pc'[Worker] = "readSession" /\ job'[Worker] = job[Worker]
          BY <2>1, <2>3 DEF Alone
        <5>2. job[Worker].c \in Corr
          BY <1>1 DEF JobNamed, Engaged
        <5>3. PICK d \in Corr : d = job'[Worker].c
          BY <5>1, <5>2
        <5>4. Holding(d)'
          BY <5>1, <5>3 DEF Holding, GivingBack
        <5> QED BY <4>1, <5>4 DEF Unheld
      <4>4. pc[Worker] \notin Clear
        BY <1>1, <4>1 DEF Open, Unheld
      <4> QED BY <2>1, <2>2, <2>3, <3>1, <4>2, <4>3, <4>4, OthersKeepSender DEF Clear
    <3>3. CASE ~WroteIdle(p)
      <4>1. session' = session
        BY <2>1, <3>3 DEF Checked, GaveUp, Won, Reread, ClosedOut
      <4> QED BY <2>1, <2>2, <2>3, <3>1, <4>1, OthersKeepSender
    <3> QED BY <3>2, <3>3
  <2>4. CASE p = Worker
    <3>1. CASE Checked(p)
      BY <2>4, <3>1 DEF Checked, Sender, Mine, Pending
    <3>2. CASE GaveUp(p)
      BY <1>4, <2>4, <3>2 DEF GaveUp
    <3>3. CASE Won(p)
      <4>1. job[p].c \in Pending
        BY <1>1, <3>3 DEF Won, JobNamed, Engaged, Pending
      <4> QED BY <2>4, <3>3, <4>1 DEF Won, Sender, Mine
    <3>4. CASE Reread(p)
      BY <2>4, <3>4 DEF Reread, Sender, Mine
    <3>5. CASE WroteIdle(p)
      <4>1. CASE pc'[p] = "closeOut"
        <5>1. session'.actor = msg.from /\ msg' = msg
          BY <2>4, <3>5, <4>1 DEF WroteIdle, Sender, Mine
        <5> QED BY <2>4, <4>1, <5>1 DEF Sender
      <4>2. CASE pc'[p] # "closeOut"
        BY <1>4, <2>4, <3>5, <4>2 DEF WroteIdle
      <4> QED BY <4>1, <4>2
    <3>6. CASE ClosedOut(p)
      BY <2>4, <3>6 DEF ClosedOut, Sender
    <3> QED BY <2>1, <3>1, <3>2, <3>3, <3>4, <3>5, <3>6
  <2> QED BY <2>3, <2>4
<1>24. ASSUME NEW k \in Callback, ExecuteConfirmedTool(k)
       PROVE  Sender'
  BY <1>1, <1>24, ExecuteEffect, OthersKeepSender
<1>25. ASSUME NEW k \in Callback, NEW c \in Corr, NEW u \in User,
              NEW op \in {"approved", "user_cancelled"}, CardCallback(k, c, u, op)
       PROVE  Sender'
  BY <1>1, <1>25, PressEffect, OthersKeepSender
<1>26. ASSUME NEW c \in Corr, TimerFires(c)
       PROVE  Sender'
  BY <1>1, <1>26, TimerEffect, OthersKeepSender
<1>27. CASE Tick \/ UNCHANGED vars
  BY <1>27 DEF Tick, vars, rows, worker, tasks, Sender, Mine, Pending
<1>28. CASE Crash
  BY <1>4, <1>28 DEF Crash
<1>29. CASE Recover
  <2>1. pc'[Worker] = "free"
    BY <1>1, <1>29 DEF Recover, SecretInv, Down, Pending
  <2> QED BY <1>4, <2>1
<1> QED
  BY <1>6, <1>7, <1>8, <1>9, <1>10, <1>11, <1>12, <1>13, <1>14, <1>15, <1>16, <1>17, <1>18,
     <1>19, <1>20, <1>21, <1>22, <1>23, <1>24, <1>25, <1>26, <1>27, <1>28, <1>29
  DEF Next, Step, WorkerStep, Environment, Rest

-----------------------------------------------------------------------------
(* Whom the worker overtakes, and what holds until it does.                *)

(* Only a failed withdrawal overtakes anybody.                             *)
LEMMA Overtaking ==
  ASSUME TypeInv, [Next]_vars
  PROVE  overtaken' = overtaken \/ (GaveUp(Worker) /\ pc'[Worker] = "abort")
<1> USE Tasks DEF history
<1>1. CASE WorkerStep
  <2>1. ASSUME NEW s, Dispatch(s) PROVE overtaken' = overtaken
    BY <2>1 DEF Dispatch
  <2>2. CASE Route
    BY <2>1, <2>2 DEF Route
  <2>3. CASE FindPending \/ StartRun \/ Notify
    BY <2>1, <2>3 DEF FindPending, StartRun, Notify
  <2>4. CASE ~(Route \/ FindPending \/ StartRun \/ Notify)
    BY <1>1, <2>4 DEF WorkerStep, Take, LookupSession, UpsertSession, WelcomeFails, Restore, Think,
       Connect, CreateInteraction, AwaitInteraction, SendCard, ArmTimer, FinishRun, Reset, Reply
  <2> QED BY <2>2, <2>3, <2>4
<1>2. ASSUME NEW p \in Proc, CloseStep(p)
      PROVE  overtaken' = overtaken \/ (GaveUp(Worker) /\ pc'[Worker] = "abort")
  <2>1. CASE Checked(p) \/ Won(p) \/ Reread(p) \/ WroteIdle(p) \/ ClosedOut(p)
    <3>1. ~GiveUp(p) \/ overtaken' = overtaken
      <4>1. CASE GiveUp(p) /\ p = Worker /\ Finish(p, "abort")
        <5>1. pc'[p] = "abort" /\ job'[p] = NoJob
          BY <4>1, FinishEffect DEF TypeInv
        <5>2. pc[p] = "writeIdle"
          BY <2>1, <5>1 DEF Checked, Won, Reread, WroteIdle, ClosedOut
        <5> QED BY <1>2, <5>2 DEF CloseStep, Check, Update, ReadSession, WriteIdle, CloseOut
      <4> QED BY <4>1 DEF GiveUp
    <3> QED BY <1>2, <3>1 DEF CloseStep, Check, Update, ReadSession, WriteIdle, CloseOut
  <2>2. CASE GaveUp(p)
    BY <2>2 DEF GaveUp
  <2> QED BY <1>2, <2>1, <2>2, CloseEffect
<1>3. CASE \E k \in Callback : ExecuteConfirmedTool(k)
  BY <1>3 DEF ExecuteConfirmedTool
<1>4. CASE \E c \in Corr : TimerFires(c)
  BY <1>4 DEF TimerFires
<1>5. CASE Environment
  BY <1>5 DEF Environment, Arrive, CardCallback, Tick, Crash, Recover
<1>6. CASE UNCHANGED vars
  BY <1>6 DEF vars
<1> QED BY <1>1, <1>2, <1>3, <1>4, <1>5, <1>6 DEF Next, Step, Rest

(* Everybody overtaken closed by a click.                                  *)
Overtook == \A c \in overtaken : ByClick(c)

LEMMA OvertookStep ==
  ASSUME SecretInv, Overtook, [Next]_vars
  PROVE  Overtook' /\ overtaken \subseteq overtaken'
<1>1. TypeInv /\ overtaken \subseteq Corr
  BY DEF SecretInv, TimerInv, ClosureInv, TypeInv, TypeOK
<1>2. \A c \in Corr : ByClick(c) => ByClick(c)'
  BY <1>1, ClosedStays DEF ByClick
<1>3. CASE overtaken' = overtaken
  BY <1>1, <1>2, <1>3 DEF Overtook
<1>4. CASE GaveUp(Worker) /\ pc'[Worker] = "abort"
  <2> DEFINE c == job[Worker].c
  <2>1. /\ Secret /\ c \in Corr /\ row[c].status # "pending"
        /\ overtaken' = overtaken \cup {d \in {c} : Returning(d)}
    BY <1>4, Withdrawn
  <2>2. ByClick(c)
    BY <2>1 DEF SecretInv, Unseen
  <2> HIDE DEF c
  <2> QED BY <1>1, <1>2, <2>1, <2>2 DEF Overtook
<1> QED BY <1>1, <1>3, <1>4, Overtaking

(* All of this always holds.                                               *)
Told == SecretInv /\ Overtook /\ (overtaken = {} => Open /\ Sole /\ Sender)

LEMMA ToldInit == Init => Fresh /\ Down /\ Clickers /\ Unseen /\ Overtook /\ Open /\ Sole /\ Sender
<1> SUFFICES ASSUME Init PROVE Overtook /\ Sender
  BY NothingHeld
<1>1. pc[Worker] = "free" /\ overtaken = {}
  BY Tasks DEF Init
<1> QED BY <1>1 DEF Sender, Overtook

LEMMA ToldStep ==
  ASSUME Told, TimerInv', Met', [Next]_vars
  PROVE  Told'
<1>1. SecretInv /\ Overtook /\ TimerInv
  BY DEF Told, SecretInv
<1>2. SecretInv'
  BY <1>1, FreshStep, DownStep, ClickersStep, UnseenStep DEF SecretInv
<1>3. Overtook' /\ overtaken \subseteq overtaken'
  BY <1>1, OvertookStep
<1>4. ASSUME overtaken' = {}
      PROVE  (Open /\ Sole /\ Sender)'
  <2>1. OpenInv /\ Sender
    BY <1>3, <1>4 DEF Told, OpenInv
  <2> QED BY <1>4, <2>1, OpenStep, SoleStep, SenderStep
<1> QED BY <1>2, <1>3, <1>4 DEF Told

LEMMA ToldInvariant == Spec => []Told
<1>1. Init /\ TimerInv /\ Met => Told
  BY ToldInit DEF Told, SecretInv
<1>2. Told /\ TimerInv' /\ Met' /\ [Next]_vars => Told'
  BY ToldStep
<1> QED BY <1>1, <1>2, MetInvariant, PTL DEF Spec

(* The worker overtakes a callback only after the responder pressed a      *)
(* button of a card that DingTalk shows although sending it raised; no     *)
(* timer, no message and no expiry gets it there, however many             *)
(* interactions, clicks, timers and crashes there are.                     *)
THEOREM OvertakesClicks == Spec => []OvertookAClick
<1>1. Told => OvertookAClick
  BY DEF Told, Overtook, ByClick, Clicked, OvertookAClick
<1> QED BY <1>1, ToldInvariant, PTL

(* Until it has overtaken one, the agent never works on a turn while an    *)
(* interaction of its Session waits for an answer ...                      *)
THEOREM NoTurnBeside == Spec => []NoTurnWhilePending
<1>1. Told => NoTurnWhilePending
  BY DEF Told, Open, Clear, Unheld, Holding, NoTurnWhilePending, Pending
<1> QED BY <1>1, ToldInvariant, PTL

(* ... and every turn runs in the name of the sender of its message, also  *)
(* when the message superseded somebody else's interaction.                *)
THEOREM TurnIsSenders == Spec => []TurnRunsAsSender
<1>1. Told => TurnRunsAsSender
  BY DEF Told, Sender, TurnRunsAsSender
<1> QED BY <1>1, ToldInvariant, PTL

=============================================================================
