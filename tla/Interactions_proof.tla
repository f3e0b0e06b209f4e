------------------------- MODULE Interactions_proof -------------------------
EXTENDS Interactions, WellFoundedInduction, TLAPS

(* When something is pending, FindPending picks a pending interaction.     *)
LEMMA NewestIsPending ==
  ASSUME Pending # {}
  PROVE  NewestPending \in Pending
<1> DEFINE Less == {ss \in Nat \X Nat : ss[1] < ss[2]}
           Age == {n \in Nat : MaxInteractions - n \in Pending}
<1>1. IsWellFoundedOn(Less, Nat)
  BY NatLessThanWellFounded DEF OpToRel
<1>2. Pending \subseteq Corr
  BY DEF Pending
<1>3. \A c \in Corr : c \in Nat /\ MaxInteractions - c \in Nat /\ MaxInteractions - (MaxInteractions - c) = c
  BY BoundsAssumption DEF Corr
<1>4. Age # {}
  <2>1. PICK c \in Corr : c \in Pending
    BY <1>2
  <2>2. MaxInteractions - c \in Age
    BY <2>1, <1>3
  <2> QED BY <2>2
<1>5. PICK n \in Age : \A i \in Age : ~ (<<i, n>> \in Less)
  <2> HIDE DEF Less, Age
  <2>1. Age \subseteq Nat BY DEF Age
  <2> QED BY <1>1, <1>4, <2>1, WFMin
<1>6. \A d \in Pending : d <= MaxInteractions - n
  <2> SUFFICES ASSUME NEW d \in Pending PROVE d <= MaxInteractions - n
    OBVIOUS
  <2>1. MaxInteractions - d \in Age
    BY <1>2, <1>3
  <2>2. ~(MaxInteractions - d < n)
    BY <2>1, <1>5
  <2> QED BY <2>2, <1>2, BoundsAssumption DEF Corr
<1>7. \E c \in Pending : \A d \in Pending : d <= c
  BY <1>6
<1> QED BY <1>7 DEF NewestPending

-----------------------------------------------------------------------------
(* Type correctness.  Several steps index a table with the interaction of  *)
(* a task's job: at those steps the job names one.                         *)

Engaged == {"check", "update", "readSession", "writeIdle", "closeOut", "execute",
            "await", "sendCard", "arm"}
Plain == Steps \ Engaged

JobNamed == \A p \in Proc : pc[p] \in Engaged => job[p].c \in Corr

TypeInv == TypeOK /\ JobNamed

(* The step names, and which of them need no interaction in the job.       *)
LEMMA StepNames ==
  /\ Engaged \subseteq Steps
  /\ "free" \in Plain /\ "lookup" \in Plain /\ "upsert" \in Plain /\ "reload" \in Plain
  /\ "find" \in Plain /\ "restored" \in Plain /\ "notify" \in Plain /\ "run" \in Plain
  /\ "think" \in Plain /\ "connect" \in Plain /\ "create" \in Plain /\ "finish" \in Plain
  /\ "abort" \in Plain /\ "reset" \in Plain /\ "reply" \in Plain
  /\ "off" \in Plain /\ "armed" \in Plain /\ "early" \in Plain /\ "done" \in Plain
BY DEF Plain, Steps, Engaged

(* The worker, the callbacks and the timers are all tasks.                 *)
LEMMA Tasks ==
  Worker \in Proc /\ Corr \subseteq Proc /\ Callback \subseteq Proc
BY DEF Proc

(* The values a task starts from have their types.                         *)
LEMMA EmptyValues ==
  NoMsg \in Message /\ NoSession \in SessionRow /\ NoJob \in Job /\ NoRow \in Row
BY DEF NoMsg, NoSession, NoJob, NoRow, Message, SessionRow, Job, Row, AllKinds, States, Ops,
   Status, NoCorr

(* Moving one task on keeps the types when its job names what it needs.    *)
LEMMA GotoTyped ==
  ASSUME TypeInv, NEW p \in Proc, NEW step \in Steps, Goto(p, step),
         \A q \in Proc \ {p} : job'[q] = job[q],
         step \in Engaged => job'[p].c \in Corr
  PROVE  pc' \in [Proc -> Steps] /\ JobNamed'
BY DEF TypeInv, TypeOK, JobNamed, Goto

(* ... in particular when its next step needs no interaction.              *)
LEMMA PlainGoto ==
  ASSUME TypeInv, NEW p \in Proc, NEW step \in Plain, Goto(p, step), UNCHANGED job
  PROVE  pc' \in [Proc -> Steps] /\ JobNamed'
BY GotoTyped DEF Plain

(* A task that ends leaves well-typed tables.                              *)
LEMMA FinishTyped ==
  ASSUME TypeInv, NEW p \in Proc, NEW step \in Plain, Finish(p, step)
  PROVE  /\ pc' \in [Proc -> Steps] /\ job' \in [Proc -> Job] /\ snap' \in [Proc -> SessionRow]
         /\ JobNamed'
<1>1. job' \in [Proc -> Job] /\ snap' \in [Proc -> SessionRow]
  BY EmptyValues DEF Finish, TypeInv, TypeOK
<1>2. \A q \in Proc \ {p} : job'[q] = job[q]
  BY DEF Finish, TypeInv, TypeOK
<1> QED BY <1>1, <1>2, GotoTyped DEF Finish, Plain

(* So does the end of a message.                                           *)
LEMMA EndMessageTyped ==
  ASSUME TypeInv, NEW result \in Outcomes, EndMessage(result)
  PROVE  /\ outcome' \in [MsgId -> Outcomes] /\ msg' \in Message /\ view' \in SessionRow
         /\ pc' \in [Proc -> Steps] /\ job' \in [Proc -> Job] /\ snap' \in [Proc -> SessionRow]
         /\ JobNamed'
<1>1. Finish(Worker, "free")
  BY DEF EndMessage
<1>2. outcome' \in [MsgId -> Outcomes] /\ msg' \in Message /\ view' \in SessionRow
  BY EmptyValues DEF EndMessage, TypeInv, TypeOK
<1> QED BY <1>1, <1>2, Tasks, StepNames, FinishTyped

(* The program starts in well-typed tables.                                *)
LEMMA TypeInit == Init => TypeInv
BY EmptyValues, StepNames DEF Init, TypeInv, TypeOK, JobNamed, Plain, Engaged, Outcomes

(* A request to cancel names the sender of the message.                    *)
LEMMA RequestTyped ==
  ASSUME TypeInv, NEW reason \in Ops
  PROVE  CancelRequest(reason) \in Job
<1>1. msg.from \in User \cup {None}
  BY DEF TypeInv, TypeOK, Message
<1> QED BY <1>1, EmptyValues DEF CancelRequest, Job

(* Dispatching a message keeps the types.                                  *)
LEMMA DispatchTyped ==
  ASSUME TypeInv, NEW s \in SessionRow, Dispatch(s)
  PROVE  TypeInv'
<1> USE Tasks, StepNames DEF Dispatch, rows, effects, history, clock, tasks
<1>1. /\ UNCHANGED <<session, row, cards, inbox, outcome, msg, noticed, runs, ranAs, overtaken>>
      /\ UNCHANGED <<now, up, crashes>>
      /\ view' = s
      /\ snap' = [snap EXCEPT ![Worker] = NoSession]
  OBVIOUS
<1>2. view' \in SessionRow /\ snap' \in [Proc -> SessionRow]
  BY <1>1, EmptyValues DEF TypeInv, TypeOK
<1>3. job' \in [Proc -> Job] /\ \A q \in Proc \ {Worker} : job'[q] = job[q]
  <2>1. CASE UNCHANGED job
    BY <2>1 DEF TypeInv, TypeOK
  <2>2. CASE job' = [job EXCEPT ![Worker] = CancelRequest("command_cancelled")]
    <3>1. CancelRequest("command_cancelled") \in Job
      BY RequestTyped DEF Ops
    <3> QED BY <2>2, <3>1 DEF TypeInv, TypeOK
  <2> QED BY <2>1, <2>2
<1>4. \E step \in Plain : Goto(Worker, step)
  OBVIOUS
<1>5. pc' \in [Proc -> Steps] /\ JobNamed'
  BY <1>3, <1>4, GotoTyped DEF Plain
<1> QED BY <1>1, <1>2, <1>3, <1>5 DEF TypeInv, TypeOK

(* Giving up keeps the types, whoever gives up.                            *)
LEMMA GiveUpTyped ==
  ASSUME TypeInv, NEW p \in Proc, GiveUp(p)
  PROVE  /\ outcome' \in [MsgId -> Outcomes] /\ msg' \in Message /\ view' \in SessionRow
         /\ pc' \in [Proc -> Steps] /\ job' \in [Proc -> Job] /\ snap' \in [Proc -> SessionRow]
         /\ JobNamed' /\ overtaken' \in SUBSET Corr
<1>1. overtaken' \in SUBSET Corr
  <2>1. p = Worker /\ overtaken' # overtaken => overtaken' \subseteq overtaken \cup Corr
    <3>1. (\E q \in Proc : pc[q] \in Engaged /\ job[q].c = job[p].c) => job[p].c \in Corr
      BY DEF TypeInv, JobNamed
    <3> QED BY <3>1 DEF GiveUp, Returning, Engaged
  <2> QED BY <2>1 DEF GiveUp, TypeInv, TypeOK
<1>2. CASE \E step \in Plain : Finish(p, step) /\ UNCHANGED <<outcome, worker>>
  BY <1>1, <1>2, FinishTyped DEF worker, TypeInv, TypeOK
<1>3. CASE EndMessage("rejected")
  BY <1>1, <1>3, EndMessageTyped DEF Outcomes
<1> QED BY <1>2, <1>3, StepNames DEF GiveUp

(* Every action keeps TypeInv: first the next step of the acting task and  *)
(* its job, then the other tables it writes.                               *)
LEMMA TypeStep == TypeInv /\ [Next]_vars => TypeInv'
<1> SUFFICES ASSUME TypeInv, [Next]_vars PROVE TypeInv'
  OBVIOUS
<1> USE Tasks, StepNames DEF rows, effects, history, clock, worker, tasks
<1>1. ASSUME NEW m \in MsgId, NEW u \in User, NEW k \in Kinds, Arrive(m, u, k)
      PROVE  TypeInv'
  <2>1. [id |-> m, from |-> u, kind |-> k] \in Message
    BY InputAssumption DEF Message
  <2>2. inbox' \in Seq(Message) /\ outcome' \in [MsgId -> Outcomes]
    BY <1>1, <2>1 DEF Arrive, TypeInv, TypeOK, Outcomes
  <2> QED BY <1>1, <2>2 DEF Arrive, TypeInv, TypeOK, JobNamed
<1>2. CASE Take
  <2>1. pc' \in [Proc -> Steps] /\ JobNamed'
    BY <1>2, PlainGoto DEF Take
  <2>2. inbox \in Seq(Message) /\ inbox # << >>
    BY <1>2 DEF Take, TypeInv, TypeOK
  <2>3. Head(inbox) \in Message /\ Tail(inbox) \in Seq(Message)
    BY <2>2
  <2>4. msg' \in Message /\ inbox' \in Seq(Message)
    BY <1>2, <2>3 DEF Take
  <2>5. outcome' \in [MsgId -> Outcomes]
    BY <1>2 DEF Take, TypeInv, TypeOK, Outcomes
  <2> QED BY <1>2, <2>1, <2>4, <2>5 DEF Take, TypeInv, TypeOK
<1>3. CASE LookupSession
  <2>1. pc' \in [Proc -> Steps] /\ JobNamed'
    BY <1>3, PlainGoto DEF LookupSession
  <2> QED BY <1>3, <2>1 DEF LookupSession, TypeInv, TypeOK
<1>4. CASE UpsertSession
  <2>1. pc' \in [Proc -> Steps] /\ JobNamed'
    BY <1>4, PlainGoto DEF UpsertSession
  <2>2. session' \in SessionRow
    BY <1>4 DEF UpsertSession, TypeInv, TypeOK, SessionRow, States, Message
  <2> QED BY <1>4, <2>1, <2>2 DEF UpsertSession, TypeInv, TypeOK
<1>5. CASE WelcomeFails
  BY <1>5, EndMessageTyped DEF WelcomeFails, Outcomes, TypeInv, TypeOK
<1>6. CASE Route
  <2> DEFINE s == [session EXCEPT !.actor = msg.from]
  <2>1. s \in SessionRow
    BY DEF TypeInv, TypeOK, SessionRow, Message
  <2>2. CASE s.state = "AwaitingInteraction"
    <3> DEFINE request == CancelRequest(IF msg.kind = "cancel" THEN "command_cancelled"
                                        ELSE "superseded_by_new_message")
    <3>1. request \in Job
      BY RequestTyped DEF Ops
    <3>2. /\ job' = [job EXCEPT ![Worker] = request] /\ view' = s
          /\ Goto(Worker, "find") /\ snap' = [snap EXCEPT ![Worker] = NoSession]
          /\ UNCHANGED <<session, row, cards, inbox, outcome, msg, noticed, runs, ranAs, overtaken>>
          /\ UNCHANGED <<now, up, crashes>>
      BY <1>6, <2>2 DEF Route
    <3> HIDE DEF s, request
    <3>3. job' \in [Proc -> Job] /\ \A q \in Proc \ {Worker} : job'[q] = job[q]
      BY <3>1, <3>2 DEF TypeInv, TypeOK
    <3>4. pc' \in [Proc -> Steps] /\ JobNamed'
      BY <3>2, <3>3, GotoTyped DEF Plain
    <3>5. view' \in SessionRow /\ snap' \in [Proc -> SessionRow]
      BY <2>1, <3>2, EmptyValues DEF TypeInv, TypeOK
    <3> QED BY <3>2, <3>3, <3>4, <3>5 DEF TypeInv, TypeOK
  <2>3. CASE s.state # "AwaitingInteraction"
    BY <1>6, <2>1, <2>3, DispatchTyped DEF Route
  <2> QED BY <2>2, <2>3
<1>7. CASE FindPending
  <2>1. CASE Pending # {}
    <3>1. NewestPending \in Corr
      BY <2>1, NewestIsPending DEF Pending
    <3> DEFINE j == [job[Worker] EXCEPT
                       !.c = NewestPending,
                       !.op = IF now > row[NewestPending].expires THEN "timeout"
                              ELSE job[Worker].op]
    <3>2. /\ job' = [job EXCEPT ![Worker] = j] /\ Goto(Worker, "check")
          /\ UNCHANGED <<session, row, cards, inbox, outcome, msg, view, snap>>
          /\ UNCHANGED <<noticed, runs, ranAs, overtaken, now, up, crashes>>
      <4>1. job' = [job EXCEPT ![Worker] = j]
        BY <1>7, <2>1 DEF FindPending
      <4>2. Goto(Worker, "check") /\ UNCHANGED <<outcome, worker, snap>>
        BY <1>7, <2>1 DEF FindPending
      <4>3. UNCHANGED <<rows, cards, inbox, history, clock>>
        BY <1>7 DEF FindPending
      <4> QED BY <4>1, <4>2, <4>3
    <3>3. j \in Job /\ j.c \in Corr
      <4>1. job[Worker] \in Job
        BY DEF TypeInv, TypeOK
      <4> QED BY <3>1, <4>1 DEF Job, Ops
    <3> HIDE DEF j
    <3>4. job' \in [Proc -> Job] /\ job'[Worker].c \in Corr
      BY <3>2, <3>3 DEF TypeInv, TypeOK
    <3>5. \A q \in Proc \ {Worker} : job'[q] = job[q]
      BY <3>2 DEF TypeInv, TypeOK
    <3>6. "check" \in Steps
      BY DEF Steps
    <3>7. pc' \in [Proc -> Steps] /\ JobNamed'
      BY <3>2, <3>4, <3>5, <3>6, GotoTyped
    <3> QED BY <3>2, <3>4, <3>7 DEF TypeInv, TypeOK
  <2>2. CASE Pending = {} /\ job[Worker].op = "command_cancelled"
    BY <1>7, <2>2, FinishTyped DEF FindPending, TypeInv, TypeOK
  <2>3. CASE Pending = {} /\ job[Worker].op # "command_cancelled"
    BY <1>7, <2>3, EndMessageTyped DEF FindPending, Outcomes, TypeInv, TypeOK
  <2> QED BY <2>1, <2>2, <2>3
<1>8. CASE Restore
  <2>1. pc' \in [Proc -> Steps] /\ JobNamed'
    BY <1>8, PlainGoto DEF Restore
  <2> QED BY <1>8, <2>1 DEF Restore, TypeInv, TypeOK
<1>9. CASE Notify
  <2>1. CASE Dispatch(view)
    BY <2>1, DispatchTyped DEF TypeInv, TypeOK
  <2>2. CASE EndMessage("faulted") /\ UNCHANGED <<rows, cards, inbox, history, clock>>
    BY <2>2, EndMessageTyped DEF Outcomes, TypeInv, TypeOK
  <2> QED BY <1>9, <2>1, <2>2 DEF Notify
<1>10. CASE StartRun
  <2>1. CASE view.state = "Idle"
    <3>1. pc' \in [Proc -> Steps] /\ JobNamed'
      BY <1>10, <2>1, PlainGoto DEF StartRun
    <3>2. session' \in SessionRow
      BY <1>10, <2>1 DEF StartRun, TypeInv, TypeOK, SessionRow, States
    <3> QED BY <1>10, <2>1, <3>1, <3>2 DEF StartRun, TypeInv, TypeOK
  <2>2. CASE view.state # "Idle"
    BY <1>10, <2>2, EndMessageTyped DEF StartRun, Outcomes, TypeInv, TypeOK
  <2> QED BY <2>1, <2>2
<1>11. ASSUME NEW op \in {"confirm", "consent"}, Goto(Worker, "create"),
              job' = [job EXCEPT ![Worker].op = op],
              UNCHANGED <<rows, cards, inbox, outcome, worker, snap, history, clock>>
       PROVE  TypeInv'
  <2>1. job' \in [Proc -> Job] /\ \A q \in Proc \ {Worker} : job'[q] = job[q]
    BY <1>11 DEF TypeInv, TypeOK, Job, Ops
  <2>2. pc' \in [Proc -> Steps] /\ JobNamed'
    BY <1>11, <2>1, GotoTyped DEF Plain
  <2> QED BY <1>11, <2>1, <2>2 DEF TypeInv, TypeOK
<1>12. ASSUME NEW step \in Plain, Goto(Worker, step),
              UNCHANGED <<rows, cards, inbox, outcome, worker, job, snap, history, clock>>
       PROVE  TypeInv'
  <2>1. pc' \in [Proc -> Steps] /\ JobNamed'
    BY <1>12, PlainGoto
  <2> QED BY <1>12, <2>1 DEF TypeInv, TypeOK
<1>13. ASSUME NEW t \in Turns, Think(t)
       PROVE  TypeInv'
  BY <1>11, <1>12, <1>13 DEF Think
<1>14. CASE Connect
  BY <1>11, <1>12, <1>14 DEF Connect
<1>15. ASSUME NEW c \in Corr, CreateInteraction(c)
       PROVE  TypeInv'
  <2>1. row' \in [Corr -> Row]
    <3>1. [NoRow EXCEPT !.status = "pending", !.kind = job[Worker].op,
                        !.responder = view.actor, !.expires = now + TTL] \in Row
      <4>1. job[Worker].op \in Ops /\ view.actor \in User \cup {None}
        BY DEF TypeInv, TypeOK, Job, SessionRow
      <4>2. now + TTL \in Nat /\ "pending" \in Status
        BY BoundsAssumption DEF TypeInv, TypeOK, Status
      <4> QED BY <4>1, <4>2, EmptyValues DEF Row
    <3> QED BY <1>15, <3>1 DEF CreateInteraction, TypeInv, TypeOK
  <2>2. job' \in [Proc -> Job] /\ job'[Worker].c \in Corr
    <3> DEFINE j == [job[Worker] EXCEPT !.c = c]
    <3>1. j \in Job /\ j.c \in Corr
      BY DEF TypeInv, TypeOK, Job
    <3>2. job' = [job EXCEPT ![Worker] = j]
      BY <1>15 DEF CreateInteraction
    <3> HIDE DEF j
    <3> QED BY <3>1, <3>2 DEF TypeInv, TypeOK
  <2>3. \A q \in Proc \ {Worker} : job'[q] = job[q]
    BY <1>15 DEF CreateInteraction, TypeInv, TypeOK
  <2>4. "await" \in Steps
    BY DEF Steps
  <2>5. pc' \in [Proc -> Steps] /\ JobNamed'
    BY <1>15, <2>2, <2>3, <2>4, GotoTyped DEF CreateInteraction
  <2> QED BY <1>15, <2>1, <2>2, <2>5 DEF CreateInteraction, TypeInv, TypeOK
<1>16. CASE AwaitInteraction
  <2>1. session' \in SessionRow
    BY <1>16 DEF AwaitInteraction, TypeInv, TypeOK, SessionRow, States, Job
  <2>2. job[Worker].c \in Corr
    BY <1>16 DEF AwaitInteraction, TypeInv, JobNamed, Engaged
  <2>3. pc' \in [Proc -> Steps] /\ JobNamed'
    <3>1. "sendCard" \in Steps /\ "arm" \in Steps
      BY DEF Steps
    <3> QED BY <1>16, <2>2, <3>1, GotoTyped DEF AwaitInteraction
  <2> QED BY <1>16, <2>1, <2>3 DEF AwaitInteraction, TypeInv, TypeOK
<1>17. CASE SendCard
  <2>1. job[Worker].c \in Corr
    BY <1>17 DEF SendCard, TypeInv, JobNamed, Engaged
  <2>2. cards' \in SUBSET Corr
    BY <1>17, <2>1 DEF SendCard, TypeInv, TypeOK
  <2>3. CASE Goto(Worker, "arm") /\ UNCHANGED job
    <3>1. "arm" \in Steps
      BY DEF Steps
    <3>2. pc' \in [Proc -> Steps] /\ JobNamed'
      BY <2>1, <2>3, <3>1, GotoTyped
    <3> QED BY <1>17, <2>2, <2>3, <3>2 DEF SendCard, TypeInv, TypeOK
  <2>4. CASE /\ Goto(Worker, "check")
             /\ job' = [job EXCEPT ![Worker] =
                          [@ EXCEPT !.op = "card_send_failed", !.by = view.actor]]
    <3>1. job' \in [Proc -> Job] /\ job'[Worker].c \in Corr
      <4> DEFINE j == [job[Worker] EXCEPT !.op = "card_send_failed", !.by = view.actor]
      <4>1. j \in Job /\ j.c \in Corr
        <5>1. job[Worker] \in Job /\ view.actor \in User \cup {None}
          BY DEF TypeInv, TypeOK, SessionRow
        <5> QED BY <2>1, <5>1 DEF Job, Ops
      <4>2. job' = [job EXCEPT ![Worker] = j]
        BY <2>4
      <4> HIDE DEF j
      <4> QED BY <4>1, <4>2 DEF TypeInv, TypeOK
    <3>2. \A q \in Proc \ {Worker} : job'[q] = job[q]
      BY <2>4 DEF TypeInv, TypeOK
    <3>3. "check" \in Steps
      BY DEF Steps
    <3>4. pc' \in [Proc -> Steps] /\ JobNamed'
      BY <2>4, <3>1, <3>2, <3>3, GotoTyped
    <3> QED BY <1>17, <2>2, <3>1, <3>4 DEF SendCard, TypeInv, TypeOK
  <2> QED BY <1>17, <2>3, <2>4 DEF SendCard
<1>18. CASE ArmTimer
  <2>1. job' \in [Proc -> Job]
    BY <1>18, EmptyValues DEF ArmTimer, TypeInv, TypeOK
  <2>2. pc' \in [Proc -> Steps]
    BY <1>18 DEF ArmTimer, TypeInv, TypeOK, Plain
  <2>3. \A p \in Proc : pc'[p] \in Engaged => pc'[p] = pc[p] /\ job'[p] = job[p]
    BY <1>18 DEF ArmTimer, TypeInv, TypeOK, Plain
  <2>4. JobNamed'
    BY <2>3 DEF TypeInv, JobNamed
  <2> QED BY <1>18, <2>1, <2>2, <2>4 DEF ArmTimer, TypeInv, TypeOK
<1>19. CASE FinishRun
  <2>1. session' \in SessionRow
    BY <1>19 DEF FinishRun, TypeInv, TypeOK, SessionRow, States
  <2>2. CASE Goto(Worker, "reply") /\ UNCHANGED <<outcome, worker, job, snap>>
    <3>1. pc' \in [Proc -> Steps] /\ JobNamed'
      BY <2>2, PlainGoto
    <3> QED BY <1>19, <2>1, <2>2, <3>1 DEF FinishRun, TypeInv, TypeOK
  <2>3. CASE EndMessage("faulted")
    BY <1>19, <2>1, <2>3, EndMessageTyped DEF FinishRun, Outcomes, TypeInv, TypeOK
  <2> QED BY <1>19, <2>2, <2>3 DEF FinishRun
<1>20. CASE Reset
  <2>1. session' \in SessionRow
    BY <1>20 DEF Reset, TypeInv, TypeOK, SessionRow, States
  <2>2. pc' \in [Proc -> Steps] /\ JobNamed'
    BY <1>20, PlainGoto DEF Reset
  <2> QED BY <1>20, <2>1, <2>2 DEF Reset, TypeInv, TypeOK
<1>21. ASSUME NEW r \in {"processed", "faulted"}, Reply(r)
       PROVE  TypeInv'
  <2>1. r \in Outcomes
    BY DEF Outcomes
  <2> QED BY <1>21, <2>1, EndMessageTyped DEF Reply, TypeInv, TypeOK
<1>22. ASSUME NEW p \in Proc, Check(p)
       PROVE  TypeInv'
  <2>1. CASE Goto(p, "update") /\ UNCHANGED <<outcome, worker, job, snap, overtaken>>
    <3>1. job[p].c \in Corr /\ "update" \in Steps
      BY <1>22 DEF Check, TypeInv, JobNamed, Engaged, Steps
    <3>2. pc' \in [Proc -> Steps] /\ JobNamed'
      BY <2>1, <3>1, GotoTyped
    <3> QED BY <1>22, <2>1, <3>2 DEF Check, TypeInv, TypeOK
  <2>2. CASE GiveUp(p)
    BY <1>22, <2>2, GiveUpTyped DEF Check, TypeInv, TypeOK
  <2> QED BY <1>22, <2>1, <2>2 DEF Check
<1>23. ASSUME NEW p \in Proc, Update(p)
       PROVE  TypeInv'
  <2>1. job[p].c \in Corr
    BY <1>23 DEF Update, TypeInv, JobNamed, Engaged
  <2>2. CASE StillPending(job[p].c)
    <3>1. pc' \in [Proc -> Steps] /\ JobNamed'
      <4>1. "readSession" \in Steps
        BY DEF Steps
      <4> QED BY <1>23, <2>1, <2>2, <4>1, GotoTyped DEF Update
    <3>2. row' \in [Corr -> Row]
      <4> DEFINE j == job[p]
                 r == [row[j.c] EXCEPT !.status = TerminalStatus(j.op),
                                       !.op = j.op, !.by = j.by, !.at = now]
      <4>1. r \in Row
        <5>1. j \in Job /\ row[j.c] \in Row /\ now \in Nat
          BY <2>1 DEF TypeInv, TypeOK
        <5>2. TerminalStatus(j.op) \in Status
          BY DEF TerminalStatus, Status
        <5> QED BY <5>1, <5>2 DEF Row, Job
      <4>2. row' = [row EXCEPT ![j.c] = r]
        BY <1>23, <2>2 DEF Update
      <4> HIDE DEF r
      <4> QED BY <4>1, <4>2 DEF TypeInv, TypeOK
    <3> QED BY <1>23, <2>2, <3>1, <3>2 DEF Update, TypeInv, TypeOK
  <2>3. CASE ~StillPending(job[p].c)
    BY <1>23, <2>3, GiveUpTyped DEF Update, TypeInv, TypeOK
  <2> QED BY <2>2, <2>3
<1>24. ASSUME NEW p \in Proc, ReadSession(p)
       PROVE  TypeInv'
  <2>1. job[p].c \in Corr /\ "writeIdle" \in Steps
    BY <1>24 DEF ReadSession, TypeInv, JobNamed, Engaged, Steps
  <2>2. pc' \in [Proc -> Steps] /\ JobNamed'
    BY <1>24, <2>1, GotoTyped DEF ReadSession
  <2> QED BY <1>24, <2>2 DEF ReadSession, TypeInv, TypeOK
<1>25. ASSUME NEW p \in Proc, WriteIdle(p)
       PROVE  TypeInv'
  <2>1. job[p].c \in Corr /\ "closeOut" \in Steps /\ "execute" \in Steps
    BY <1>25 DEF WriteIdle, TypeInv, JobNamed, Engaged, Steps
  <2>2. session' \in SessionRow /\ snap' \in [Proc -> SessionRow] /\ job' \in [Proc -> Job]
    BY <1>25, EmptyValues DEF WriteIdle, TypeInv, TypeOK, SessionRow, States
  <2>3. CASE job[p].op \in {"user_cancelled", "card_send_failed"}
    <3>1. \E step \in Plain : Goto(p, step)
      BY <1>25, <2>3 DEF WriteIdle
    <3>2. \A q \in Proc \ {p} : job'[q] = job[q]
      BY <1>25 DEF WriteIdle, TypeInv, TypeOK
    <3>3. pc' \in [Proc -> Steps] /\ JobNamed'
      BY <3>1, <3>2, GotoTyped DEF Plain
    <3> QED BY <1>25, <2>2, <3>3 DEF WriteIdle, TypeInv, TypeOK
  <2>4. CASE job[p].op \notin {"user_cancelled", "card_send_failed"}
    <3>1. UNCHANGED job /\ \E step \in {"execute", "closeOut"} : Goto(p, step)
      BY <1>25, <2>4 DEF WriteIdle
    <3>2. pc' \in [Proc -> Steps] /\ JobNamed'
      BY <2>1, <3>1, GotoTyped
    <3> QED BY <1>25, <2>2, <3>2 DEF WriteIdle, TypeInv, TypeOK
  <2> QED BY <2>3, <2>4
<1>26. ASSUME NEW p \in Proc, CloseOut(p)
       PROVE  TypeInv'
  <2>1. job[p].c \in Corr
    BY <1>26 DEF CloseOut, TypeInv, JobNamed, Engaged
  <2> QED BY <1>26, <2>1, FinishTyped DEF CloseOut, TypeInv, TypeOK
<1>27. ASSUME NEW k \in Callback, NEW c \in Corr, NEW u \in User,
              NEW op \in {"approved", "user_cancelled"}, CardCallback(k, c, u, op)
       PROVE  TypeInv'
  <2>1. CASE Goto(k, "done") /\ UNCHANGED job
    BY <1>27, <2>1, PlainGoto DEF CardCallback, TypeInv, TypeOK
  <2>2. CASE /\ Goto(k, "check")
             /\ job' = [job EXCEPT ![k] = [c |-> c, op |-> op, by |-> u]]
    <3>1. job' \in [Proc -> Job] /\ job'[k].c \in Corr
      BY <2>2 DEF TypeInv, TypeOK, Job, Ops
    <3>2. \A q \in Proc \ {k} : job'[q] = job[q]
      BY <2>2 DEF TypeInv, TypeOK
    <3>3. "check" \in Steps
      BY DEF Steps
    <3>4. pc' \in [Proc -> Steps] /\ JobNamed'
      BY <2>2, <3>1, <3>2, <3>3, GotoTyped
    <3> QED BY <1>27, <3>1, <3>4 DEF CardCallback, TypeInv, TypeOK
  <2> QED BY <1>27, <2>1, <2>2 DEF CardCallback
<1>28. ASSUME NEW k \in Callback, ExecuteConfirmedTool(k)
       PROVE  TypeInv'
  <2>1. runs' \in [Corr -> Nat] /\ ranAs' \in [Corr -> User \cup {None}]
    <3>1. session.actor \in User \cup {None} /\ runs \in [Corr -> Nat]
      BY DEF TypeInv, TypeOK, SessionRow
    <3>2. ranAs' \in [Corr -> User \cup {None}]
      BY <1>28, <3>1 DEF ExecuteConfirmedTool, TypeInv, TypeOK
    <3>3. runs' = runs \/ runs' = [runs EXCEPT ![job[k].c] = runs[job[k].c] + 1]
      BY <1>28 DEF ExecuteConfirmedTool
    <3> QED BY <3>1, <3>2, <3>3
  <2> QED BY <1>28, <2>1, FinishTyped DEF ExecuteConfirmedTool, TypeInv, TypeOK
<1>29. ASSUME NEW c \in Corr, TimerFires(c)
       PROVE  TypeInv'
  <2>1. CASE (Goto(c, "off") \/ Goto(c, "early")) /\ UNCHANGED job
    BY <1>29, <2>1, PlainGoto DEF TimerFires, TypeInv, TypeOK
  <2>2. CASE /\ Goto(c, "check")
             /\ job' = [job EXCEPT ![c] = [NoJob EXCEPT !.c = c, !.op = "timeout"]]
    <3>1. job' \in [Proc -> Job] /\ job'[c].c \in Corr
      BY <2>2 DEF TypeInv, TypeOK, Job, NoJob, Ops
    <3>2. \A q \in Proc \ {c} : job'[q] = job[q]
      BY <2>2 DEF TypeInv, TypeOK
    <3>3. "check" \in Steps
      BY DEF Steps
    <3>4. pc' \in [Proc -> Steps] /\ JobNamed'
      BY <2>2, <3>1, <3>2, <3>3, GotoTyped
    <3> QED BY <1>29, <3>1, <3>4 DEF TimerFires, TypeInv, TypeOK
  <2> QED BY <1>29, <2>1, <2>2 DEF TimerFires
<1>30. CASE Tick
  BY <1>30 DEF Tick, TypeInv, TypeOK, JobNamed
<1>31. CASE Crash
  <2>1. \A p \in Proc : pc'[p] \in Plain
    BY <1>31 DEF Crash
  <2>2. pc' \in [Proc -> Steps] /\ JobNamed'
    BY <1>31, <2>1 DEF Crash, JobNamed, Plain
  <2>3. outcome' \in [MsgId -> Outcomes]
    BY <1>31 DEF Crash, TypeInv, TypeOK, Outcomes
  <2>4. /\ inbox' \in Seq(Message) /\ msg' \in Message /\ view' \in SessionRow
        /\ job' \in [Proc -> Job] /\ snap' \in [Proc -> SessionRow]
    BY <1>31, EmptyValues DEF Crash
  <2>5. up' \in BOOLEAN /\ crashes' \in Nat
    <3>1. crashes \in Nat
      BY DEF TypeInv, TypeOK
    <3>2. up' = FALSE
      BY <1>31 DEF Crash
    <3>3. crashes' = crashes + 1
      BY <1>31 DEF Crash
    <3>4. crashes' \in Nat
      BY <3>1, <3>3
    <3> QED BY <3>2, <3>4, Zenon
  <2> QED BY <1>31, <2>2, <2>3, <2>4, <2>5 DEF Crash, TypeInv, TypeOK
<1>32. CASE Recover
  <2>1. Pending # {} => NewestPending \in Corr
    BY NewestIsPending DEF Pending
  <2>2. RecoveredSession \in SessionRow
    BY <2>1 DEF RecoveredSession, TypeInv, TypeOK, SessionRow, States, NoCorr
  <2>3. \A p \in Proc : pc'[p] \in Plain \cup {pc[p]}
    BY <1>32 DEF Recover
  <2>4. pc' \in [Proc -> Steps] /\ JobNamed'
    BY <1>32, <2>3 DEF Recover, TypeInv, TypeOK, JobNamed, Plain
  <2> QED BY <1>32, <2>2, <2>4 DEF Recover, TypeInv, TypeOK
<1>33. CASE UNCHANGED vars
  BY <1>33 DEF vars, TypeInv, TypeOK, JobNamed
<1> QED
  BY <1>1, <1>2, <1>3, <1>4, <1>5, <1>6, <1>7, <1>8, <1>9, <1>10, <1>13, <1>14, <1>15, <1>16,
     <1>17, <1>18, <1>19, <1>20, <1>21, <1>22, <1>23, <1>24, <1>25, <1>26, <1>27, <1>28, <1>29,
     <1>30, <1>31, <1>32, <1>33
  DEF Next, Step, WorkerStep, CloseStep, Environment, Rest

(* Every variable keeps its type, however many users, messages, clicks,    *)
(* interactions and crashes there are.                                     *)
THEOREM TypeCorrect == Spec => []TypeOK
<1>1. TypeInv => TypeOK
  BY DEF TypeInv
<1> QED BY <1>1, TypeInit, TypeStep, PTL DEF Spec

-----------------------------------------------------------------------------
(* The safety of closing.  Between the UPDATE that wins an interaction and *)
(* the end of the closing task, the interaction belongs to that task.      *)

Closing == {"readSession", "writeIdle", "closeOut", "execute"}
Opening == {"await", "sendCard"}
Asking == {"check", "update"}
Watched == Closing \cup Opening \cup Asking \cup {"find"}

(* What a task may rely on at its next step.                               *)
TaskOK(p) ==
  LET j == job[p]  r == row[job[p].c] IN
  /\ pc[p] = "find" => j.op # "timeout"
  /\ pc[p] \in Opening \cup Asking => r.status # "absent"
  /\ pc[p] \in Asking /\ j.op = "timeout" => now >= r.expires
  /\ pc[p] = "update" /\ j.op \in Strict => j.by = r.responder
  /\ pc[p] \in Closing => r.status = TerminalStatus(j.op)
  /\ pc[p] = "execute" => j.op = "approved"
  /\ pc[p] = "closeOut" => j.op # "approved"

(* What a row and its history say about each other.                        *)
RowOK(c) ==
  /\ row[c].status = "resolved" => row[c].by = row[c].responder
  /\ row[c].op = "timeout" => row[c].at >= row[c].expires
  /\ runs[c] > 0 => runs[c] = 1 /\ row[c].status = "resolved"
  /\ c \in noticed => row[c].status = "cancelled"

(* Nobody else closes an interaction that is being closed, and nobody      *)
(* closes one whose tool has run.                                          *)
Exclusive ==
  \A p \in Proc : pc[p] \in Closing =>
    /\ runs[job[p].c] = 0
    /\ \A q \in Proc \ {p} : pc[q] \in Closing => job[q].c # job[p].c

Closure == (\A p \in Proc : TaskOK(p)) /\ (\A c \in Corr : RowOK(c)) /\ Exclusive

ClosureInv == TypeInv /\ Closure

(* A step that starts, stops or moves no watched task.                     *)
Calm == \A q \in Proc : pc'[q] \in Watched => pc'[q] = pc[q] /\ job'[q] = job[q]

(* A task that moves to an unwatched step is calm ...                      *)
LEMMA CalmGoto ==
  ASSUME TypeOK, NEW p \in Proc, NEW step, step \notin Watched, Goto(p, step),
         \A q \in Proc \ {p} : job'[q] = job[q]
  PROVE  Calm
BY DEF TypeOK, Goto, Calm

(* ... as is a task that ends,                                             *)
LEMMA CalmFinish ==
  ASSUME TypeOK, NEW p \in Proc, NEW step, step \notin Watched, Finish(p, step)
  PROVE  Calm
<1>1. \A q \in Proc \ {p} : job'[q] = job[q]
  BY DEF Finish, TypeOK
<1> QED BY <1>1, CalmGoto DEF Finish

(* the end of a message,                                                   *)
LEMMA CalmEndMessage ==
  ASSUME TypeOK, NEW result, EndMessage(result)
  PROVE  Calm
<1>1. "free" \notin Watched
  BY DEF Watched, Closing, Opening, Asking
<1> QED BY <1>1, CalmFinish, Tasks DEF EndMessage

(* and giving up.                                                          *)
LEMMA CalmGiveUp ==
  ASSUME TypeOK, NEW p \in Proc, GiveUp(p)
  PROVE  Calm
<1>1. {"off", "done", "abort"} \cap Watched = {}
  BY DEF Watched, Closing, Opening, Asking
<1> QED BY <1>1, CalmFinish, CalmEndMessage DEF GiveUp

(* A calm step that leaves the rows and their history alone keeps Closure; *)
(* the clock may advance.                                                  *)
LEMMA Undisturbed ==
  ASSUME ClosureInv, Calm, UNCHANGED <<row, runs, noticed>>, now' \in Nat, now' >= now
  PROVE  Closure'
<1>1. \A p \in Proc : TaskOK(p)'
  <2> SUFFICES ASSUME NEW p \in Proc PROVE TaskOK(p)'
    OBVIOUS
  <2>1. CASE pc'[p] \in Watched
    <3>1. pc'[p] = pc[p] /\ job'[p] = job[p] /\ TaskOK(p)
      BY <2>1 DEF Calm, ClosureInv, Closure
    <3>2. pc[p] \in Asking => row[job[p].c].expires \in Nat /\ now \in Nat
      BY DEF ClosureInv, TypeInv, TypeOK, JobNamed, Asking, Engaged, Row
    <3> QED BY <3>1, <3>2 DEF TaskOK
  <2>2. CASE pc'[p] \notin Watched
    BY <2>2 DEF TaskOK, Watched, Closing, Opening, Asking
  <2> QED BY <2>1, <2>2
<1>2. \A c \in Corr : RowOK(c)'
  BY DEF ClosureInv, Closure, RowOK
<1>3. Exclusive'
  BY DEF ClosureInv, Closure, Exclusive, Calm, Watched
<1> QED BY <1>1, <1>2, <1>3 DEF Closure

(* A step of one task keeps Closure when the task may rely on what TaskOK  *)
(* promises and starts closing nothing it was not closing.                 *)
LEMMA OneTask ==
  ASSUME ClosureInv, NEW p \in Proc, UNCHANGED <<row, runs, noticed, now>>,
         \A q \in Proc \ {p} : pc'[q] = pc[q] /\ job'[q] = job[q],
         TaskOK(p)',
         pc'[p] \in Closing => pc[p] \in Closing /\ job'[p].c = job[p].c
  PROVE  Closure'
<1>1. \A q \in Proc : TaskOK(q)'
  BY DEF ClosureInv, Closure, TaskOK
<1>2. \A c \in Corr : RowOK(c)'
  BY DEF ClosureInv, Closure, RowOK
<1>3. \A q \in Proc : pc'[q] \in Closing => pc[q] \in Closing /\ job'[q].c = job[q].c
  OBVIOUS
<1>4. Exclusive'
  BY <1>3 DEF ClosureInv, Closure, Exclusive
<1> QED BY <1>1, <1>2, <1>4 DEF Closure

(* No interaction exists and nothing is being closed initially.            *)
LEMMA ClosureInit == Init => Closure
BY BoundsAssumption DEF Init, Closure, TaskOK, RowOK, Exclusive, NoRow, Opening, Asking, Closing

(* The worker asks for a cancellation that is not a timeout.               *)
LEMMA Request ==
  ASSUME ClosureInv, NEW reason, reason # "timeout", Goto(Worker, "find"),
         job' = [job EXCEPT ![Worker] = CancelRequest(reason)],
         UNCHANGED <<row, runs, noticed, now>>
  PROVE  Closure'
<1>1. pc'[Worker] = "find" /\ job'[Worker].op = reason
  BY Tasks DEF Goto, CancelRequest, NoJob, ClosureInv, TypeInv, TypeOK
<1>2. \A q \in Proc \ {Worker} : pc'[q] = pc[q] /\ job'[q] = job[q]
  BY DEF Goto, ClosureInv, TypeInv, TypeOK
<1>3. TaskOK(Worker)'
  BY <1>1 DEF TaskOK, Opening, Asking, Closing
<1>4. pc'[Worker] \notin Closing
  BY <1>1 DEF Closing
<1> QED BY <1>2, <1>3, <1>4, OneTask, Tasks

(* Dispatching a message keeps Closure: it only asks for a cancellation.   *)
LEMMA ClosureDispatch ==
  ASSUME ClosureInv, NEW s, Dispatch(s)
  PROVE  Closure'
<1> USE Tasks DEF rows, effects, history, clock
<1>1. TypeOK /\ UNCHANGED <<row, runs, noticed, now>>
  BY DEF Dispatch, ClosureInv, TypeInv
<1>2. CASE UNCHANGED job /\ \E step \in {"reply", "connect", "reset", "run"} : Goto(Worker, step)
  <2>1. \E step : step \notin Watched /\ Goto(Worker, step)
    BY <1>2 DEF Watched, Closing, Opening, Asking
  <2>2. Calm
    BY <1>1, <1>2, <2>1, CalmGoto
  <2> QED BY <1>1, <2>2, Undisturbed DEF TypeOK
<1>3. CASE Goto(Worker, "find") /\ job' = [job EXCEPT ![Worker] = CancelRequest("command_cancelled")]
  BY <1>1, <1>3, Request
<1> QED BY <1>2, <1>3 DEF Dispatch

(* Every action keeps Closure; Update and ExecuteConfirmedTool are where   *)
(* it is needed.                                                           *)
LEMMA ClosureStep == ClosureInv /\ [Next]_vars => Closure'
<1> SUFFICES ASSUME ClosureInv, [Next]_vars PROVE Closure'
  OBVIOUS
<1> USE Tasks DEF rows, effects, history, clock, worker, tasks
<1>1. TypeInv /\ TypeOK /\ JobNamed
  BY DEF ClosureInv, TypeInv
<1>2. TypeOK'
  BY <1>1, TypeStep DEF TypeInv
<1>3. ASSUME Calm, UNCHANGED <<row, runs, noticed, now>>
      PROVE  Closure'
  BY <1>1, <1>3, Undisturbed DEF TypeOK
<1>4. ASSUME NEW p \in Proc, NEW step \in Plain \ {"find"}, Goto(p, step), UNCHANGED job
      PROVE  Calm
  <2>1. step \notin Watched
    BY DEF Plain, Engaged, Watched, Closing, Opening, Asking
  <2> QED BY <1>1, <1>4, <2>1, CalmGoto
<1>5. ASSUME NEW p \in Proc, NEW step \in Plain \ {"find"}, Finish(p, step)
      PROVE  Calm
  <2>1. step \notin Watched
    BY DEF Plain, Engaged, Watched, Closing, Opening, Asking
  <2> QED BY <1>1, <1>5, <2>1, CalmFinish
<1> USE StepNames
<1>6. ASSUME NEW m \in MsgId, NEW u \in User, NEW k \in Kinds, Arrive(m, u, k)
      PROVE  Closure'
  BY <1>3, <1>6 DEF Arrive, Calm
<1>7. CASE Take
  BY <1>3, <1>4, <1>7 DEF Take
<1>8. CASE LookupSession
  BY <1>3, <1>4, <1>8 DEF LookupSession
<1>9. CASE UpsertSession
  BY <1>3, <1>4, <1>9 DEF UpsertSession
<1>10. CASE WelcomeFails
  BY <1>1, <1>3, <1>10, CalmEndMessage DEF WelcomeFails
<1>11. CASE Route
  <2> DEFINE s == [session EXCEPT !.actor = msg.from]
  <2>1. CASE s.state = "AwaitingInteraction"
    <3> DEFINE reason == IF msg.kind = "cancel" THEN "command_cancelled"
                         ELSE "superseded_by_new_message"
    <3>1. /\ Goto(Worker, "find") /\ job' = [job EXCEPT ![Worker] = CancelRequest(reason)]
          /\ UNCHANGED <<row, runs, noticed, now>>
      BY <1>11, <2>1 DEF Route
    <3>2. reason # "timeout"
      OBVIOUS
    <3> HIDE DEF reason
    <3> QED BY <3>1, <3>2, Request
  <2>2. CASE s.state # "AwaitingInteraction"
    BY <1>11, <2>2, ClosureDispatch DEF Route
  <2> QED BY <2>1, <2>2
<1>12. CASE FindPending
  <2>1. CASE Pending # {}
    <3>1. NewestPending \in Pending /\ NewestPending \in Corr
      BY <2>1, NewestIsPending DEF Pending
    <3> DEFINE j == [job[Worker] EXCEPT
                       !.c = NewestPending,
                       !.op = IF now > row[NewestPending].expires THEN "timeout"
                              ELSE job[Worker].op]
    <3>2. job' = [job EXCEPT ![Worker] = j] /\ Goto(Worker, "check")
      BY <1>12, <2>1 DEF FindPending
    <3>3. UNCHANGED <<row, runs, noticed, now>>
      BY <1>12 DEF FindPending
    <3>4. /\ j.c = NewestPending
          /\ j.op = "timeout" => now > row[NewestPending].expires
      <4>1. job[Worker].op # "timeout"
        BY <1>12 DEF FindPending, ClosureInv, Closure, TaskOK
      <4>2. job[Worker] \in Job
        BY <1>1 DEF TypeOK
      <4> QED BY <4>1, <4>2 DEF Job
    <3> HIDE DEF j
    <3>5. pc'[Worker] = "check" /\ job'[Worker] = j
      BY <1>1, <3>2 DEF TypeOK, Goto
    <3>6. \A q \in Proc \ {Worker} : pc'[q] = pc[q] /\ job'[q] = job[q]
      BY <1>1, <3>2 DEF TypeOK, Goto
    <3>7. TaskOK(Worker)'
      <4>1. row[NewestPending].status = "pending" /\ row[NewestPending].expires \in Nat /\ now \in Nat
        BY <1>1, <3>1 DEF Pending, TypeOK, Row
      <4> QED BY <3>3, <3>4, <3>5, <4>1 DEF TaskOK, Opening, Asking, Closing
    <3>8. pc'[Worker] \notin Closing
      BY <3>5 DEF Closing
    <3> QED BY <3>3, <3>6, <3>7, <3>8, OneTask
  <2>2. CASE Pending = {} /\ job[Worker].op = "command_cancelled"
    BY <1>3, <1>5, <1>12, <2>2 DEF FindPending
  <2>3. CASE Pending = {} /\ job[Worker].op # "command_cancelled"
    BY <1>1, <1>3, <1>12, <2>3, CalmEndMessage DEF FindPending
  <2> QED BY <2>1, <2>2, <2>3
<1>13. CASE Restore
  BY <1>3, <1>4, <1>13 DEF Restore
<1>14. CASE Notify
  <2>1. CASE EndMessage("faulted") /\ UNCHANGED <<rows, cards, inbox, history, clock>>
    BY <1>1, <1>3, <2>1, CalmEndMessage
  <2> QED BY <1>14, <2>1, ClosureDispatch DEF Notify
<1>15. CASE StartRun
  <2>1. Calm
    BY <1>1, <1>4, <1>15, CalmEndMessage DEF StartRun
  <2> QED BY <1>3, <1>15, <2>1 DEF StartRun
<1>16. ASSUME NEW op, Goto(Worker, "create"), job' = [job EXCEPT ![Worker].op = op],
              UNCHANGED <<row, runs, noticed, now>>
       PROVE  Closure'
  <2>1. \A q \in Proc \ {Worker} : job'[q] = job[q]
    BY <1>1, <1>16 DEF TypeOK
  <2>2. "create" \notin Watched
    BY DEF Watched, Closing, Opening, Asking
  <2> QED BY <1>1, <1>3, <1>16, <2>1, <2>2, CalmGoto
<1>17. ASSUME NEW t \in Turns, Think(t)
       PROVE  Closure'
  BY <1>3, <1>4, <1>16, <1>17 DEF Think
<1>18. CASE Connect
  BY <1>3, <1>4, <1>16, <1>18 DEF Connect
<1>19. ASSUME NEW c \in Corr, CreateInteraction(c)
       PROVE  Closure'
  <2> DEFINE r == [NoRow EXCEPT !.status = "pending", !.kind = job[Worker].op,
                                !.responder = view.actor, !.expires = now + TTL]
  <2>1. row' = [row EXCEPT ![c] = r] /\ r.status = "pending" /\ r.op = "none"
    BY <1>19 DEF CreateInteraction, NoRow
  <2> HIDE DEF r
  <2>2. row[c].status = "absent" /\ UNCHANGED <<runs, noticed, now>>
    BY <1>19 DEF CreateInteraction
  <2>3. pc'[Worker] = "await" /\ job'[Worker].c = c
    BY <1>1, <1>19 DEF CreateInteraction, Goto, TypeOK, Job
  <2>4. \A q \in Proc \ {Worker} : pc'[q] = pc[q] /\ job'[q] = job[q]
    BY <1>1, <1>19 DEF CreateInteraction, Goto, TypeOK
  <2>5. row' \in [Corr -> Row] /\ \A d \in Corr : row'[d] = IF d = c THEN r ELSE row[d]
    BY <1>1, <1>2, <2>1 DEF TypeOK
  <2>6. TaskOK(Worker)'
    BY <2>1, <2>3, <2>5 DEF TaskOK, Closing, Opening, Asking
  <2>7. ASSUME NEW q \in Proc \ {Worker}
        PROVE  TaskOK(q)'
    <3>1. TaskOK(q)
      BY DEF ClosureInv, Closure
    <3>2. CASE pc[q] \in Watched \ {"find"}
      <4>1. job[q].c \in Corr
        BY <1>1, <3>2 DEF JobNamed, Watched, Closing, Opening, Asking, Engaged
      <4>2. row[job[q].c].status # "absent"
        BY <3>1, <3>2 DEF TaskOK, TerminalStatus, Watched, Closing, Opening, Asking
      <4> QED BY <2>2, <2>4, <2>5, <3>1, <4>1, <4>2 DEF TaskOK
    <3>3. CASE pc[q] \notin Watched \ {"find"}
      BY <2>4, <3>1, <3>3 DEF TaskOK, Watched, Closing, Opening, Asking
    <3> QED BY <3>2, <3>3
  <2>8. ASSUME NEW d \in Corr
        PROVE  RowOK(d)'
    <3>1. RowOK(d)
      BY DEF ClosureInv, Closure
    <3> QED BY <2>1, <2>2, <2>5, <3>1 DEF RowOK
  <2>9. \A q \in Proc : pc'[q] \in Closing => pc[q] \in Closing /\ job'[q] = job[q]
    BY <2>3, <2>4 DEF Closing
  <2>10. Exclusive'
    BY <2>2, <2>9 DEF ClosureInv, Closure, Exclusive
  <2> QED BY <2>6, <2>7, <2>8, <2>10 DEF Closure
<1>20. CASE AwaitInteraction
  <2>1. /\ pc[Worker] = "await" /\ pc'[Worker] \in {"sendCard", "arm"}
        /\ job' = job /\ UNCHANGED <<row, runs, noticed, now>>
        /\ \A q \in Proc \ {Worker} : pc'[q] = pc[q]
    BY <1>1, <1>20 DEF AwaitInteraction, Goto, TypeOK
  <2>2. TaskOK(Worker)
    BY DEF ClosureInv, Closure
  <2>3. TaskOK(Worker)'
    BY <2>1, <2>2 DEF TaskOK, Opening, Asking, Closing
  <2>4. pc'[Worker] \notin Closing
    BY <2>1 DEF Closing
  <2> QED BY <2>1, <2>3, <2>4, OneTask
<1>21. CASE SendCard
  <2>1. UNCHANGED <<row, runs, noticed, now>>
    BY <1>21 DEF SendCard
  <2>2. CASE Goto(Worker, "arm") /\ UNCHANGED job
    <3>1. "arm" \notin Watched
      BY DEF Watched, Closing, Opening, Asking
    <3> QED BY <1>1, <1>3, <2>1, <2>2, <3>1, CalmGoto
  <2>3. CASE /\ Goto(Worker, "check")
             /\ job' = [job EXCEPT ![Worker] =
                          [@ EXCEPT !.op = "card_send_failed", !.by = view.actor]]
    <3>1. /\ pc'[Worker] = "check" /\ job'[Worker].c = job[Worker].c
          /\ job'[Worker].op = "card_send_failed"
      BY <1>1, <2>3 DEF Goto, TypeOK, Job
    <3>2. \A q \in Proc \ {Worker} : pc'[q] = pc[q] /\ job'[q] = job[q]
      BY <1>1, <2>3 DEF Goto, TypeOK
    <3>3. row[job[Worker].c].status # "absent"
      BY <1>21 DEF SendCard, ClosureInv, Closure, TaskOK, Opening
    <3>4. TaskOK(Worker)'
      BY <2>1, <3>1, <3>3 DEF TaskOK, Opening, Asking, Closing
    <3>5. pc'[Worker] \notin Closing
      BY <3>1 DEF Closing
    <3> QED BY <2>1, <3>2, <3>4, <3>5, OneTask
  <2> QED BY <1>21, <2>2, <2>3 DEF SendCard
<1>22. CASE ArmTimer
  <2>1. Calm
    BY <1>1, <1>22 DEF ArmTimer, Calm, TypeOK, Watched, Closing, Opening, Asking
  <2> QED BY <1>3, <1>22, <2>1 DEF ArmTimer
<1>23. CASE FinishRun
  <2>1. Calm
    BY <1>1, <1>4, <1>23, CalmEndMessage DEF FinishRun
  <2> QED BY <1>3, <1>23, <2>1 DEF FinishRun
<1>24. CASE Reset
  BY <1>3, <1>4, <1>24 DEF Reset
<1>25. ASSUME NEW res \in {"processed", "faulted"}, Reply(res)
       PROVE  Closure'
  BY <1>1, <1>3, <1>25, CalmEndMessage DEF Reply
<1>26. ASSUME NEW p \in Proc, Check(p)
       PROVE  Closure'
  <2>1. UNCHANGED <<row, runs, noticed, now>>
    BY <1>26 DEF Check
  <2>2. CASE MayClose(p)
    <3>1. pc[p] = "check" /\ pc'[p] = "update"
      BY <1>1, <1>26, <2>2 DEF Check, Goto, GiveUp, TypeOK
    <3>2. job' = job /\ \A q \in Proc \ {p} : pc'[q] = pc[q] /\ job'[q] = job[q]
      BY <1>1, <1>26, <2>2 DEF Check, Goto, TypeOK
    <3>3. TaskOK(p)
      BY DEF ClosureInv, Closure
    <3>4. TaskOK(p)'
      BY <2>1, <2>2, <3>1, <3>2, <3>3 DEF TaskOK, MayClose, Opening, Asking, Closing
    <3>5. pc'[p] \notin Closing
      BY <3>1 DEF Closing
    <3> QED BY <2>1, <3>2, <3>4, <3>5, OneTask
  <2>3. CASE ~MayClose(p)
    BY <1>1, <1>3, <1>26, <2>1, <2>3, CalmGiveUp DEF Check
  <2> QED BY <2>2, <2>3
<1>27. ASSUME NEW p \in Proc, Update(p)
       PROVE  Closure'
  <2> DEFINE j == job[p]
             c == j.c
             r == [row[c] EXCEPT !.status = TerminalStatus(j.op),
                                 !.op = j.op, !.by = j.by, !.at = now]
  <2>1. pc[p] = "update" /\ UNCHANGED <<runs, noticed, now>>
    BY <1>27 DEF Update
  <2>2. c \in Corr /\ TaskOK(p)
    BY <1>1, <2>1 DEF JobNamed, Engaged, ClosureInv, Closure
  <2>3. CASE StillPending(c)
    <3>1. row' = [row EXCEPT ![c] = r] /\ Goto(p, "readSession") /\ job' = job
      BY <1>27, <2>3 DEF Update
    <3>2. row[c].status = "pending" /\ row[c] \in Row
      BY <1>1, <2>2, <2>3 DEF StillPending, TypeOK
    <3>3. /\ r.status = TerminalStatus(j.op) /\ r.op = j.op /\ r.by = j.by /\ r.at = now
          /\ r.responder = row[c].responder /\ r.expires = row[c].expires
      BY <3>2 DEF Row
    <3>4. pc'[p] = "readSession" /\ \A q \in Proc \ {p} : pc'[q] = pc[q]
      BY <1>1, <3>1 DEF Goto, TypeOK
    <3> HIDE DEF r, j, c
    <3>5. \A d \in Corr : row'[d] = IF d = c THEN r ELSE row[d]
      BY <1>1, <3>1 DEF TypeOK
    <3>6. r.status \in {"resolved", "cancelled"} /\ (r.status = "resolved" => j.op = "approved")
      BY <3>3 DEF TerminalStatus
    <3>7. TaskOK(p)'
      BY <2>2, <3>1, <3>3, <3>4, <3>5 DEF TaskOK, Opening, Asking, Closing, c, j
    <3>8. ASSUME NEW q \in Proc \ {p}
          PROVE  TaskOK(q)'
      <4>1. TaskOK(q)
        BY DEF ClosureInv, Closure
      <4>2. CASE pc[q] \in Watched \ {"find"}
        <5>1. job[q].c \in Corr
          BY <1>1, <4>2 DEF JobNamed, Watched, Closing, Opening, Asking, Engaged
        <5>2. pc[q] \in Closing => job[q].c # c
          BY <3>2, <4>1 DEF TaskOK, TerminalStatus
        <5> QED BY <2>1, <3>1, <3>3, <3>4, <3>5, <3>6, <4>1, <5>1, <5>2
                DEF TaskOK, Opening, Asking, Closing
      <4>3. CASE pc[q] \notin Watched \ {"find"}
        BY <3>1, <3>4, <4>1, <4>3 DEF TaskOK, Watched, Closing, Opening, Asking
      <4> QED BY <4>2, <4>3
    <3>9. ASSUME NEW d \in Corr
          PROVE  RowOK(d)'
      <4>1. RowOK(d)
        BY DEF ClosureInv, Closure
      <4>2. CASE d = c
        <5>1. runs[d] = 0 /\ d \notin noticed
          BY <1>1, <3>2, <4>1, <4>2 DEF RowOK, TypeOK
        <5>2. /\ j.op \in Strict => j.by = row[c].responder
              /\ j.op = "timeout" => now >= row[c].expires
          BY <2>1, <2>2 DEF TaskOK, Asking, c, j
        <5>3. j.op = "approved" => j.op \in Strict
          BY DEF Strict
        <5> QED BY <2>1, <3>3, <3>5, <3>6, <4>2, <5>1, <5>2, <5>3 DEF RowOK
      <4>3. CASE d # c
        BY <2>1, <3>5, <4>1, <4>3 DEF RowOK
      <4> QED BY <4>2, <4>3
    <3>10. runs[c] = 0 /\ \A q \in Proc : pc[q] \in Closing => job[q].c # c
      <4>1. RowOK(c) /\ runs[c] \in Nat
        BY <1>1, <2>2 DEF ClosureInv, Closure, TypeOK
      <4>2. runs[c] = 0
        BY <3>2, <4>1 DEF RowOK
      <4>3. \A q \in Proc : pc[q] \in Closing => job[q].c # c
        BY <3>2 DEF ClosureInv, Closure, TaskOK, TerminalStatus
      <4> QED BY <4>2, <4>3
    <3>11. Exclusive'
      BY <2>1, <3>1, <3>4, <3>10 DEF ClosureInv, Closure, Exclusive, c, j
    <3> QED BY <3>7, <3>8, <3>9, <3>11 DEF Closure
  <2>4. CASE ~StillPending(c)
    <3>1. GiveUp(p) /\ UNCHANGED row
      BY <1>27, <2>4 DEF Update
    <3> QED BY <1>1, <1>3, <2>1, <3>1, CalmGiveUp
  <2> QED BY <2>3, <2>4
<1>28. ASSUME NEW p \in Proc, ReadSession(p)
       PROVE  Closure'
  <2>1. /\ pc[p] = "readSession" /\ pc'[p] = "writeIdle" /\ job' = job
        /\ UNCHANGED <<row, runs, noticed, now>>
        /\ \A q \in Proc \ {p} : pc'[q] = pc[q]
    BY <1>1, <1>28 DEF ReadSession, Goto, TypeOK
  <2>2. TaskOK(p)
    BY DEF ClosureInv, Closure
  <2>3. TaskOK(p)' /\ pc[p] \in Closing
    BY <2>1, <2>2 DEF TaskOK, Opening, Asking, Closing
  <2> QED BY <2>1, <2>3, OneTask
<1>29. ASSUME NEW p \in Proc, WriteIdle(p)
       PROVE  Closure'
  <2>1. pc[p] = "writeIdle" /\ UNCHANGED <<row, runs, noticed, now>>
    BY <1>29 DEF WriteIdle
  <2>2. \A q \in Proc \ {p} : pc'[q] = pc[q] /\ job'[q] = job[q]
    BY <1>1, <1>29 DEF WriteIdle, Goto, TypeOK
  <2>3. TaskOK(p)
    BY DEF ClosureInv, Closure
  <2>4. CASE job[p].op \in {"user_cancelled", "card_send_failed"}
    <3>1. pc'[p] \in {"done", "abort"}
      BY <1>1, <1>29, <2>4 DEF WriteIdle, Goto, TypeOK
    <3>2. Calm
      BY <2>2, <3>1 DEF Calm, Watched, Closing, Opening, Asking
    <3> QED BY <1>3, <2>1, <3>2
  <2>5. CASE job[p].op \notin {"user_cancelled", "card_send_failed"}
    <3>1. job' = job /\ pc'[p] = IF job[p].op = "approved" THEN "execute" ELSE "closeOut"
      BY <1>1, <1>29, <2>5 DEF WriteIdle, Goto, TypeOK
    <3>2. TaskOK(p)' /\ pc[p] \in Closing
      BY <2>1, <2>3, <3>1 DEF TaskOK, Opening, Asking, Closing
    <3> QED BY <2>1, <2>2, <3>1, <3>2, OneTask
  <2> QED BY <2>4, <2>5
<1>30. ASSUME NEW p \in Proc, CloseOut(p)
       PROVE  Closure'
  <2>1. pc[p] = "closeOut" /\ UNCHANGED <<row, runs, now>> /\ noticed' = noticed \cup {job[p].c}
    BY <1>30 DEF CloseOut
  <2>2. Calm
    BY <1>5, <1>30 DEF CloseOut
  <2>3. row[job[p].c].status = "cancelled"
    BY <2>1 DEF ClosureInv, Closure, TaskOK, TerminalStatus, Closing
  <2>4. \A q \in Proc : TaskOK(q)'
    BY <2>1, <2>2 DEF ClosureInv, Closure, TaskOK, Calm, Watched, Closing, Opening, Asking
  <2>5. \A c \in Corr : RowOK(c)'
    BY <2>1, <2>3 DEF ClosureInv, Closure, RowOK
  <2>6. Exclusive'
    BY <2>1, <2>2 DEF ClosureInv, Closure, Exclusive, Calm, Watched
  <2> QED BY <2>4, <2>5, <2>6 DEF Closure
<1>31. ASSUME NEW k \in Callback, ExecuteConfirmedTool(k)
       PROVE  Closure'
  <2> DEFINE c == job[k].c
  <2>1. pc[k] = "execute" /\ UNCHANGED <<row, noticed, now>> /\ Finish(k, "done")
    BY <1>31 DEF ExecuteConfirmedTool
  <2>2. Calm /\ pc'[k] = "done" /\ c \in Corr
    BY <1>1, <1>5, <2>1 DEF Finish, Goto, TypeOK, JobNamed, Engaged
  <2>3. runs[c] = 0 /\ row[c].status = "resolved"
    BY <2>1 DEF ClosureInv, Closure, TaskOK, Exclusive, TerminalStatus, Closing
  <2>4. runs' \in {runs, [runs EXCEPT ![c] = 1]}
    BY <1>31, <2>3 DEF ExecuteConfirmedTool
  <2>5. \A q \in Proc : TaskOK(q)'
    BY <2>1, <2>2 DEF ClosureInv, Closure, TaskOK, Calm, Watched, Closing, Opening, Asking
  <2>6. \A d \in Corr : RowOK(d)'
    BY <1>1, <2>1, <2>3, <2>4 DEF ClosureInv, Closure, RowOK, TypeOK
  <2>7. \A q \in Proc : pc'[q] \in Closing =>
           q # k /\ pc[q] \in Closing /\ job'[q].c = job[q].c /\ job[q].c # c
    BY <2>1, <2>2 DEF ClosureInv, Closure, Exclusive, Calm, Watched, Closing
  <2>8. Exclusive'
    <3>1. \A d \in Corr : d # c => runs'[d] = runs[d]
      BY <1>1, <2>4 DEF TypeOK
    <3>2. \A q \in Proc : pc[q] \in Closing => job[q].c \in Corr
      BY <1>1 DEF JobNamed, Closing, Engaged
    <3> HIDE DEF c
    <3> QED BY <2>7, <3>1, <3>2 DEF ClosureInv, Closure, Exclusive
  <2> QED BY <2>5, <2>6, <2>8 DEF Closure
<1>32. ASSUME NEW k \in Callback, NEW c \in Corr, NEW u \in User,
              NEW op \in {"approved", "user_cancelled"}, CardCallback(k, c, u, op)
       PROVE  Closure'
  <2>1. UNCHANGED <<row, runs, noticed, now>>
    BY <1>32 DEF CardCallback
  <2>2. CASE row[c].status = "pending" /\ row[c].kind = "confirm"
    <3>1. /\ Goto(k, "check")
          /\ job' = [job EXCEPT ![k] = [c |-> c, op |-> op, by |-> u]]
      BY <1>32, <2>2 DEF CardCallback
    <3>2. pc'[k] = "check" /\ job'[k].c = c /\ job'[k].op = op
      BY <1>1, <3>1 DEF Goto, TypeOK
    <3>3. \A q \in Proc \ {k} : pc'[q] = pc[q] /\ job'[q] = job[q]
      BY <1>1, <3>1 DEF Goto, TypeOK
    <3>4. TaskOK(k)' /\ pc'[k] \notin Closing
      BY <2>1, <2>2, <3>2 DEF TaskOK, Opening, Asking, Closing
    <3> QED BY <2>1, <3>3, <3>4, OneTask
  <2>3. CASE ~(row[c].status = "pending" /\ row[c].kind = "confirm")
    BY <1>3, <1>4, <1>32, <2>1, <2>3 DEF CardCallback
  <2> QED BY <2>2, <2>3
<1>33. ASSUME NEW c \in Corr, TimerFires(c)
       PROVE  Closure'
  <2>1. UNCHANGED <<row, runs, noticed, now>>
    BY <1>33 DEF TimerFires
  <2>2. CASE row[c].status = "pending" /\ ~TooEarly(c)
    <3>1. /\ Goto(c, "check")
          /\ job' = [job EXCEPT ![c] = [NoJob EXCEPT !.c = c, !.op = "timeout"]]
      BY <1>33, <2>2 DEF TimerFires
    <3>2. pc'[c] = "check" /\ job'[c].c = c /\ job'[c].op = "timeout"
      BY <1>1, <3>1 DEF Goto, TypeOK, NoJob
    <3>3. \A q \in Proc \ {c} : pc'[q] = pc[q] /\ job'[q] = job[q]
      BY <1>1, <3>1 DEF Goto, TypeOK
    <3>4. now >= row[c].expires
      BY <1>1, <2>2 DEF TooEarly, TypeOK, Row
    <3>5. TaskOK(c)' /\ pc'[c] \notin Closing
      BY <2>1, <2>2, <3>2, <3>4 DEF TaskOK, Opening, Asking, Closing
    <3> QED BY <2>1, <3>3, <3>5, OneTask
  <2>3. CASE ~(row[c].status = "pending" /\ ~TooEarly(c))
    BY <1>3, <1>4, <1>33, <2>1, <2>3 DEF TimerFires
  <2> QED BY <2>2, <2>3
<1>34. CASE Tick
  <2>1. now \in Nat /\ now' = now + 1
    BY <1>1, <1>34 DEF Tick, TypeOK
  <2>2. Calm /\ UNCHANGED <<row, runs, noticed>> /\ now' \in Nat /\ now' >= now
    BY <1>34, <2>1 DEF Tick, Calm
  <2> QED BY <2>2, Undisturbed
<1>35. CASE Crash
  <2>1. Calm
    BY <1>35 DEF Crash, Calm, Watched, Closing, Opening, Asking
  <2> QED BY <1>3, <1>35, <2>1 DEF Crash
<1>36. CASE Recover
  <2>1. Calm
    BY <1>36 DEF Recover, Calm, Watched, Closing, Opening, Asking
  <2> QED BY <1>3, <1>36, <2>1 DEF Recover
<1>37. CASE UNCHANGED vars
  BY <1>3, <1>37 DEF vars, Calm
<1> QED
  BY <1>6, <1>7, <1>8, <1>9, <1>10, <1>11, <1>12, <1>13, <1>14, <1>15, <1>17, <1>18, <1>19,
     <1>20, <1>21, <1>22, <1>23, <1>24, <1>25, <1>26, <1>27, <1>28, <1>29, <1>30, <1>31, <1>32,
     <1>33, <1>34, <1>35, <1>36, <1>37
  DEF Next, Step, WorkerStep, CloseStep, Environment, Rest

(* ClosureInv is inductive, so it always holds.                            *)
LEMMA ClosureInvariant == Spec => []ClosureInv
<1>1. Init => ClosureInv
  BY TypeInit, ClosureInit DEF ClosureInv
<1>2. ClosureInv /\ [Next]_vars => ClosureInv'
  BY TypeStep, ClosureStep DEF ClosureInv
<1> QED BY <1>1, <1>2, PTL DEF Spec

(* For any number of users, messages, clicks, interactions and crashes:    *)
(* a deferred tool runs only after its responder approved it.              *)
THEOREM OnlyApproved == Spec => []ApprovedByResponder
<1>1. ClosureInv => ApprovedByResponder
  BY DEF ClosureInv, Closure, RowOK, ApprovedByResponder
<1> QED BY <1>1, ClosureInvariant, PTL

(* ... and it runs at most once, however clicks, timeouts and messages     *)
(* race.                                                                   *)
THEOREM AtMostOnce == Spec => []RunsAtMostOnce
<1>1. ClosureInv => RunsAtMostOnce
  <2> SUFFICES ASSUME ClosureInv, NEW c \in Corr PROVE runs[c] <= 1
    BY DEF RunsAtMostOnce
  <2>1. runs[c] \in Nat /\ RowOK(c)
    BY DEF ClosureInv, TypeInv, TypeOK, Closure
  <2> QED BY <2>1 DEF RowOK
<1> QED BY <1>1, ClosureInvariant, PTL

(* ... an action announced as not executed never ran;                      *)
THEOREM NoticeIsTrue == Spec => []NoticeExcludesRun
<1>1. ClosureInv => NoticeExcludesRun
  <2> SUFFICES ASSUME ClosureInv, NEW c \in noticed
               PROVE  runs[c] = 0 /\ row[c].status = "cancelled"
    BY DEF NoticeExcludesRun
  <2>1. runs[c] \in Nat /\ RowOK(c)
    BY DEF ClosureInv, TypeInv, TypeOK, Closure
  <2> QED BY <2>1 DEF RowOK
<1> QED BY <1>1, ClosureInvariant, PTL

(* ... and nothing is closed as timed out before it expires, whenever the  *)
(* timers wake and however late the UPDATE follows the check.              *)
THEOREM InTime == Spec => []TimedOutInTime
<1>1. ClosureInv => TimedOutInTime
  BY DEF ClosureInv, Closure, RowOK, TimedOutInTime
<1> QED BY <1>1, ClosureInvariant, PTL

-----------------------------------------------------------------------------
(* Refinement: Update is Close, CreateInteraction is Open, CloseOut is     *)
(* Tell, ExecuteConfirmedTool is Run; every other step is a stutter.       *)

(* Initially no interaction was opened.                                    *)
LEMMA OnceInit == Init => Once!Init
BY DEF Init, Once!Init, NoRow

(* Every step is a step of ConfirmOnce or changes none of its variables.   *)
LEMMA OnceStep == ClosureInv /\ [Next]_vars => [Once!Next]_(Once!onceVars)
<1> SUFFICES ASSUME ClosureInv, [Next]_vars PROVE [Once!Next]_(Once!onceVars)
  OBVIOUS
<1> USE Tasks DEF rows, effects, history, clock, worker, tasks
<1>1. TypeOK /\ JobNamed /\ row' \in [Corr -> Row]
  BY TypeStep DEF ClosureInv, TypeInv, TypeOK
<1>2. ASSUME UNCHANGED <<row, runs, noticed>>
      PROVE  UNCHANGED Once!onceVars
  BY <1>2 DEF Once!onceVars
<1>3. ASSUME NEW c \in Corr, CreateInteraction(c)
      PROVE  Once!Open(c)
  BY <1>1, <1>3 DEF CreateInteraction, Once!Open, TypeOK, NoRow
<1>4. ASSUME NEW p \in Proc, Update(p), UNCHANGED row
      PROVE  UNCHANGED Once!onceVars
  BY <1>2, <1>4 DEF Update
<1>5. ASSUME NEW p \in Proc, Update(p), row' # row
      PROVE  \E verdict \in {"resolved", "cancelled"} : Once!Close(job[p].c, verdict)
  <2> DEFINE c == job[p].c
             final == TerminalStatus(job[p].op)
             r == [row[c] EXCEPT !.status = final,
                                 !.op = job[p].op, !.by = job[p].by, !.at = now]
  <2>1. row' = [row EXCEPT ![c] = r] /\ row[c].status = "pending" /\ UNCHANGED <<runs, noticed>>
    BY <1>5 DEF Update, StillPending
  <2>2. c \in Corr /\ row[c] \in Row
    BY <1>1, <1>5 DEF Update, JobNamed, Engaged, TypeOK
  <2>3. r.status = final /\ final \in {"resolved", "cancelled"}
    BY <2>2 DEF Row, TerminalStatus
  <2> HIDE DEF r, final, c
  <2>4. [d \in Corr |-> row'[d].status] = [[d \in Corr |-> row[d].status] EXCEPT ![c] = final]
    BY <1>1, <2>1, <2>2, <2>3 DEF TypeOK
  <2>5. PICK v \in {"resolved", "cancelled"} : v = final
    BY <2>3
  <2>6. Once!Close(job[p].c, v)
    BY <2>1, <2>2, <2>4, <2>5 DEF Once!Close, c
  <2> QED BY <2>6
<1>6. ASSUME NEW p \in Proc, CloseOut(p)
      PROVE  Once!Tell(job[p].c)
  <2>1. job[p].c \in Corr /\ row[job[p].c].status = "cancelled"
    BY <1>1, <1>6 DEF CloseOut, JobNamed, Engaged, ClosureInv, Closure, TaskOK, TerminalStatus,
                      Closing
  <2> QED BY <1>6, <2>1 DEF CloseOut, Once!Tell
<1>7. ASSUME NEW k \in Callback, ExecuteConfirmedTool(k)
      PROVE  Once!Run(job[k].c) \/ UNCHANGED Once!onceVars
  <2>1. /\ job[k].c \in Corr /\ runs[job[k].c] = 0
        /\ row[job[k].c].status = "resolved"
    BY <1>1, <1>7 DEF ExecuteConfirmedTool, JobNamed, Engaged, ClosureInv, Closure, TaskOK,
                      Exclusive, TerminalStatus, Closing
  <2>2. UNCHANGED <<row, noticed>> /\ runs' \in {runs, [runs EXCEPT ![job[k].c] = 1]}
    BY <1>7, <2>1 DEF ExecuteConfirmedTool
  <2> QED BY <1>2, <2>1, <2>2 DEF Once!Run
<1>8. ASSUME NEW p \in Proc, CloseStep(p)
      PROVE  [Once!Next]_(Once!onceVars)
  <2>1. CASE Check(p) \/ ReadSession(p) \/ WriteIdle(p)
    BY <1>2, <2>1 DEF Check, ReadSession, WriteIdle
  <2>2. CASE Update(p)
    <3>1. job[p].c \in Corr
      BY <1>1, <2>2 DEF Update, JobNamed, Engaged
    <3> QED BY <1>4, <1>5, <2>2, <3>1 DEF Once!Next
  <2>3. CASE CloseOut(p)
    <3>1. job[p].c \in Corr
      BY <1>1, <2>3 DEF CloseOut, JobNamed, Engaged
    <3> QED BY <1>6, <2>3, <3>1 DEF Once!Next
  <2> QED BY <1>8, <2>1, <2>2, <2>3 DEF CloseStep
<1>9. CASE WorkerStep
  <2>1. CASE \E c \in Corr : CreateInteraction(c)
    BY <1>3, <2>1 DEF Once!Next
  <2>2. CASE Take \/ LookupSession \/ UpsertSession \/ WelcomeFails \/ FindPending \/ Restore
    BY <1>2, <2>2 DEF Take, LookupSession, UpsertSession, WelcomeFails, FindPending, Restore
  <2>3. CASE Route \/ Notify
    BY <1>2, <2>3 DEF Route, Notify, Dispatch
  <2>4. CASE StartRun \/ (\E t \in Turns : Think(t)) \/ Connect
    BY <1>2, <2>4 DEF StartRun, Think, Connect
  <2>5. CASE AwaitInteraction \/ SendCard \/ ArmTimer \/ FinishRun
    BY <1>2, <2>5 DEF AwaitInteraction, SendCard, ArmTimer, FinishRun
  <2>6. CASE Reset \/ \E res \in {"processed", "faulted"} : Reply(res)
    BY <1>2, <2>6 DEF Reset, Reply
  <2> QED BY <1>9, <2>1, <2>2, <2>3, <2>4, <2>5, <2>6 DEF WorkerStep
<1>10. CASE \E k \in Callback : ExecuteConfirmedTool(k)
  <2> PICK k \in Callback : ExecuteConfirmedTool(k)
    BY <1>10
  <2>1. job[k].c \in Corr
    BY <1>1 DEF ExecuteConfirmedTool, JobNamed, Engaged
  <2> QED BY <1>7, <2>1 DEF Once!Next
<1>11. CASE \E c \in Corr : TimerFires(c)
  BY <1>2, <1>11 DEF TimerFires
<1>12. CASE Environment
  BY <1>2, <1>12 DEF Environment, Arrive, CardCallback, Tick, Crash, Recover
<1>13. CASE UNCHANGED vars
  BY <1>2, <1>13 DEF vars
<1> QED
  BY <1>8, <1>9, <1>10, <1>11, <1>12, <1>13 DEF Next, Step, Rest

(* The interactions implement ConfirmOnce: opened once, closed once, the   *)
(* tool run at most once and only when approved, the notice only when not. *)
THEOREM Refinement == Spec => ImplementsConfirmOnce
<1>1. Init => Once!Init
  BY OnceInit
<1>2. ClosureInv /\ [Next]_vars => [Once!Next]_(Once!onceVars)
  BY OnceStep
<1> QED BY <1>1, <1>2, ClosureInvariant, PTL DEF Spec, ImplementsConfirmOnce, Once!Spec
=============================================================================
