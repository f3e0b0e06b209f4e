----------------------------- MODULE Turn_proof -----------------------------
(***************************************************************************)
(* Theorems about Turn, for any capabilities, users, arguments and bounds. *)
(*                                                                         *)
(* A call runs in one of two ways only (CallSteps): in its turn, where it  *)
(* was let through without a question, or after an approval, of which      *)
(* there is one run.  An interaction that was decided stays decided        *)
(* (AskSteps), so the approval a call ran with stays what it was.          *)
(***************************************************************************)
EXTENDS Turn, TLAPS

(* A turn is at its tool calls as long as there are any.                    *)
CallsLeft == pc = "calling" => calls # <<>>

(* A capability of a shared tier, or of the user of a one-to-one chat.      *)
Shared == Over(Base, System)
Findable(cap) == cap \in Shared \/ (mode = "dm" /\ cap.origin = "user")

(* What a turn offers the model may be used by the actor it runs for.       *)
OfferedAllowed ==
  /\ pc = "idle" => offered = {}
  /\ \A cap \in offered : CanUse(cap, mode, actor, Enabled) /\ Findable(cap)

(* A card is for a call of the capability that asked.                       *)
AskedByName == \A i \in Ask : question[i] # NoQuestion /\ question[i].kind = "confirm" =>
  Findable(question[i].asked) /\ question[i].asked.name = question[i].use.name

(* Only what is asked by a card is approved.                                *)
ApprovedByCard == \A i \in Ask : status[i] = "approved" => question[i].kind = "confirm"

CancelledStays == \A i \in cancelled : status[i] = "cancelled"

IInv == /\ TypeOK /\ CallsLeft /\ OfferedAllowed /\ AskedByName /\ ApprovedByCard
        /\ CancelledStays /\ RanAsApproved /\ RanWhereAllowed /\ RunsAreFinal

-----------------------------------------------------------------------------
(* The registry and the gate.                                              *)

(* A session's registry has capabilities only.                             *)
LEMMA RegisteredType ==
  ASSUME TypeOK, NEW u \in User
  PROVE  Registered(System, Base, own, mode, u) \subseteq Capability
<1>1. own[u] \subseteq Capability
  BY TurnAssumption DEF TypeOK
<1>2. \A cap \in Capability : ForTier(cap, u) \in Capability
  BY DEF ForTier, Capability
<1> QED
  BY <1>1, <1>2, TurnAssumption DEF Registered, Over

(* The shared tiers have one capability of each name.                      *)
LEMMA SharedNames == OneOfEachName(Shared)
  BY TiersAssumption DEF OneOfEachName, Shared, Over

(* What a session sees passed the gate.                                     *)
LEMMA VisibleAllowed ==
  ASSUME TypeOK, NEW u \in User
  PROVE  /\ Visible(u) \subseteq Capability
         /\ \A cap \in Visible(u) : CanUse(cap, mode, u, Enabled) /\ Findable(cap)
<1>1. \A cap \in Registered(System, Base, own, mode, u) : Findable(cap)
  <2>1. ASSUME NEW cap \in own[u] PROVE ForTier(cap, u).origin = "user"
    <3>1. cap \in Capability /\ cap.origin = "user"
      BY TurnAssumption DEF TypeOK
    <3> QED
      BY <3>1 DEF ForTier, Capability
  <2> QED
    BY <2>1 DEF Registered, Over, Findable, Shared
<1> QED
  BY <1>1, RegisteredType DEF Visible

(* What credentials of a capability come to.                                *)
LEMMA OutcomeKinds == \A resolved : \A o \in Outcomes(resolved) :
  o \in {"granted", "needs consent", "denied", "error"}
  BY DEF Outcomes

(* What a handler asks about, and what it runs with if it has an effect.    *)
LEMMA Ends ==
  ASSUME NEW cap, NEW confirmation, NEW ended \in HandlerEnds(cap, confirmation)
  PROVE  /\ ended.effect \in BOOLEAN /\ ended.details \in Details \cup {NoDetails}
         /\ ended.end = "asks" => ~ended.effect
         /\ ended.effect =>
              IF cap.asks THEN Confirms(confirmation, ended.details)
              ELSE ended.details = NoDetails
<1> DEFINE Asked == IF cap.asks THEN Details ELSE {NoDetails}
           Passed == {d \in Asked : cap.asks => Confirms(confirmation, d)}
<1>1. CASE ended = [end |-> "ended", effect |-> FALSE, details |-> NoDetails]
  BY <1>1
<1>2. CASE ended \in [end : {"ended"}, effect : {TRUE}, details : Passed]
  BY <1>2
<1>3. CASE ended \in [end : {"asks"}, effect : {FALSE}, details : Details]
  BY <1>3
<1> QED
  BY <1>1, <1>2, <1>3 DEF HandlerEnds

-----------------------------------------------------------------------------
(* The two ways a call runs.                                               *)

(* In its turn: the capability was offered, nothing had to be asked.        *)
RunsDirectly == \E cap \in offered :
  /\ pc = "calling" /\ ~cap.high
  /\ ran' = [cap |-> cap, args |-> Head(calls).args, details |-> NoDetails,
             actor |-> actor, via |-> 0]
  /\ UNCHANGED <<times, running>>

(* After the approval of interaction i, which is used up.                   *)
RunsApproved(i) == \E cap \in Visible(actor) : \E d \in Details \cup {NoDetails} :
  /\ i \in running /\ running' = running \ {i}
  /\ cap.name = question[i].use.name
  /\ question[i].source = "handler" /\ d # NoDetails => d = question[i].details
  /\ ran' = [cap |-> cap, args |-> question[i].use.args, details |-> d,
             actor |-> actor, via |-> i]
  /\ times' = [j \in Ask |-> times[j] + IF j = i THEN 1 ELSE 0]

RunsNothing == UNCHANGED ranVars

(* A handler has its effect or leaves the history of runs alone.            *)
LEMMA EffectRuns ==
  ASSUME TypeOK, NEW ended, NEW cap, NEW args, NEW u, NEW via,
         ended.effect \in BOOLEAN, Effect(ended, cap, args, u, via)
  PROVE  IF ended.effect
         THEN /\ ran' = [cap |-> cap, args |-> args, details |-> ended.details,
                         actor |-> u, via |-> via]
              /\ times' = [j \in Ask |-> times[j] + IF j = via THEN 1 ELSE 0]
         ELSE RunsNothing
  BY DEF Effect, RunsNothing, ranVars, TypeOK

(* A call of the turn has an effect only without an approval.               *)
LEMMA CallRuns ==
  ASSUME IInv, Call(AnyToken)
  PROVE  RunsNothing \/ RunsDirectly
<1>1. CASE UNCHANGED ranVars
  BY <1>1 DEF RunsNothing
<1>2. ASSUME NEW cap \in offered, NEW outcome \in AnyToken[cap],
             Execute(cap, outcome), pc = "calling"
      PROVE  RunsNothing \/ RunsDirectly
  <2>1. outcome \in {"granted", "needs consent", "denied", "error"}
    BY OutcomeKinds DEF AnyToken
  <2>2. CASE UNCHANGED ranVars
    BY <2>2 DEF RunsNothing
  <2>3. ASSUME ~RequiresConfirm(cap), UNCHANGED askVars,
               NEW ended \in HandlerEnds(cap, Requesting), ended.end # "asks",
               Effect(ended, cap, Head(calls).args, actor, 0)
        PROVE  RunsNothing \/ RunsDirectly
    <3>1. ended.effect => ended.details = NoDetails
      BY Ends DEF Confirms
    <3>2. CASE ~ended.effect
      BY <2>3, <3>2, Ends, EffectRuns DEF IInv
    <3>3. CASE ended.effect
      <4>1. /\ ran' = [cap |-> cap, args |-> Head(calls).args, details |-> NoDetails,
                       actor |-> actor, via |-> 0]
            /\ times' = [j \in Ask |-> times[j] + IF j = 0 THEN 1 ELSE 0]
        BY <2>3, <3>1, <3>3, Ends, EffectRuns DEF IInv
      <4>2. times' = times
        <5>1. times \in [Ask -> Nat] /\ 0 \notin Ask
          BY TurnAssumption DEF IInv, TypeOK, Ask
        <5> QED
          BY <4>1, <5>1
      <4> QED
        BY <1>2, <2>3, <4>1, <4>2 DEF RunsDirectly, RequiresConfirm, askVars
    <3> QED
      BY <3>2, <3>3, Ends
  <2> QED
    BY <1>2, <2>1, <2>2, <2>3 DEF Execute, Suspend
<1> QED
  BY <1>1, <1>2 DEF Call

(* An approved call has an effect only under its interaction.               *)
LEMMA ApprovedRuns ==
  ASSUME IInv, NEW i \in Ask, RunApproved(i, AnyToken)
  PROVE  RunsNothing \/ RunsApproved(i)
<1>1. CASE UNCHANGED ranVars
  BY <1>1 DEF RunsNothing
<1>2. ASSUME NEW cap \in AfterApproval(actor), cap.name = question[i].use.name,
             NEW ended \in HandlerEnds(cap, question[i]),
             Effect(ended, cap, question[i].use.args, actor, i)
      PROVE  RunsNothing \/ RunsApproved(i)
  <2>1. i \in running /\ running' = running \ {i}
    BY DEF RunApproved
  <2>2. CASE ~ended.effect
    BY <1>2, <2>2, Ends, EffectRuns DEF IInv
  <2>3. CASE ended.effect
    <3>1. ended.details # NoDetails /\ question[i].source = "handler" =>
            ended.details = question[i].details
      <4>1. question[i].source # "runtime" /\ cap.asks /\ question[i].source = "handler" =>
              ended.details = question[i].details
        BY <2>3, Ends DEF Confirms
      <4> QED
        BY <2>3, <4>1, Ends
    <3> QED
      BY <1>2, <2>1, <2>3, <3>1, Ends, EffectRuns DEF RunsApproved, AfterApproval, IInv
  <2> QED
    BY <2>2, <2>3, Ends
<1> QED
  BY <1>1, <1>2 DEF RunApproved

(* All the ways in which a step can have an effect.                         *)
LEMMA CallSteps ==
  ASSUME IInv, [Next]_vars
  PROVE  \/ RunsNothing
         \/ RunsDirectly
         \/ \E i \in Ask : RunsApproved(i)
<1>1. CASE UNCHANGED ranVars
  BY <1>1 DEF RunsNothing
<1> QED
  BY <1>1, CallRuns, ApprovedRuns
     DEF Next, TurnStep, Message, Aside, Connect, Publish, Reply, UseTools, Send,
         Click, Consent, Cancel, vars

-----------------------------------------------------------------------------
(* What happens to interactions.                                           *)

AskStep(i) ==
  \/ status'[i] = status[i] /\ (status[i] = "none" \/ question'[i] = question[i])
  \/ status[i] = "none" /\ status'[i] = "pending"
  \/ /\ status[i] = "pending" /\ question'[i] = question[i]
     /\ \/ status'[i] \in {"unsent", "consented", "cancelled", "rejected"}
        \/ status'[i] = "approved" /\ question[i].kind = "confirm"

(* An interaction is called cancelled, or its run begins, only as it is.    *)
MarkStep(i) ==
  /\ i \in cancelled' => \/ i \in cancelled
                         \/ status[i] = "pending" /\ status'[i] = "cancelled"
  /\ i \in running' => \/ i \in running
                       \/ status[i] = "pending" /\ status'[i] = "approved"

(* A new interaction touches no other that is decided.                      *)
LEMMA CreateSteps ==
  ASSUME TypeOK, NEW i \in Ask, NEW before, NEW asked, Create(i, before, asked),
         NEW cancels \in SUBSET Pending,
         before = [j \in Ask |-> IF j \in cancels THEN "cancelled" ELSE status[j]]
  PROVE  \A j \in Ask : AskStep(j)
<1>1. ASSUME NEW j \in Ask PROVE AskStep(j)
  <2>1. CASE j = i
    BY <2>1 DEF Create, TypeOK, AskStep
  <2>2. CASE j # i
    <3>1. question'[j] = question[j] /\ status'[j] = before[j]
      BY <2>2 DEF Create, TypeOK
    <3> QED
      BY <3>1 DEF AskStep, Pending
  <2> QED
    BY <2>1, <2>2
<1> QED
  BY <1>1

(* Suspending a turn opens one interaction and decides none.                *)
LEMMA SuspendSteps ==
  ASSUME TypeOK, NEW cap, NEW kind, NEW source, NEW details, Suspend(cap, kind, source, details)
  PROVE  (\A j \in Ask : AskStep(j)) /\ UNCHANGED <<running, cancelled, ranVars>>
<1>1. PICK i \in Ask : Create(i, status, [kind |-> kind, use |-> Head(calls), source |-> source,
                     details |-> details, responder |-> actor, asked |-> cap])
  BY DEF Suspend
<1>2. {} \in SUBSET Pending
  OBVIOUS
<1>3. status = [j \in Ask |-> IF j \in {} THEN "cancelled" ELSE status[j]]
  BY DEF TypeOK
<1> QED
  BY <1>1, <1>2, <1>3, CreateSteps DEF Suspend

(* All the ways in which a step can move an interaction.                    *)
LEMMA AskSteps ==
  ASSUME TypeOK, [Next]_vars
  PROVE  /\ \A i \in Ask : AskStep(i) /\ MarkStep(i)
         /\ running' \subseteq running \cup {i \in Ask : status'[i] = "approved"}
         /\ mode' = mode
<1> USE DEF AskStep, MarkStep
<1>1. ASSUME NEW u \in User, Message(u) \/ Aside(u)
      PROVE  (\A i \in Ask : AskStep(i) /\ MarkStep(i)) /\ UNCHANGED <<running, mode>>
  BY <1>1 DEF Message, Aside, CancelAll, Pending, TypeOK
<1>2. ASSUME NEW u \in User, Connect(u)
      PROVE  (\A i \in Ask : AskStep(i) /\ MarkStep(i)) /\ UNCHANGED <<running, mode>>
  <2>1. PICK i \in Ask : Create(i,
             [j \in Ask |-> IF j \in Pending THEN "cancelled" ELSE status[j]],
             [kind |-> "connect", responder |-> u])
    BY <1>2 DEF Connect
  <2>2. \A j \in Ask : AskStep(j)
    BY <2>1, CreateSteps
  <2>3. \A j \in Pending : status'[j] = "cancelled" /\ status[j] = "pending"
    BY <2>1 DEF Create, Pending
  <2> QED
    BY <1>2, <2>2, <2>3 DEF Connect
<1>3. ASSUME Call(AnyToken)
      PROVE  (\A i \in Ask : AskStep(i) /\ MarkStep(i)) /\ UNCHANGED <<running, mode>>
  <2>1. CASE UNCHANGED askVars
    BY <1>3, <2>1 DEF Call, askVars
  <2>2. ASSUME NEW cap, NEW kind, NEW source, NEW details, Suspend(cap, kind, source, details)
        PROVE  (\A i \in Ask : AskStep(i) /\ MarkStep(i)) /\ UNCHANGED running
    BY <2>2, SuspendSteps
  <2> QED
    BY <1>3, <2>1, <2>2 DEF Call, Execute
<1>4. ASSUME NEW i \in Ask, NEW approved \in BOOLEAN, Click(i, approved)
      PROVE  /\ \A j \in Ask : AskStep(j) /\ MarkStep(j)
             /\ running' \subseteq running \cup {j \in Ask : status'[j] = "approved"}
             /\ mode' = mode
  BY <1>4 DEF Click, TypeOK
<1>5. ASSUME NEW i \in Ask, Consent(i) \/ Cancel(i)
      PROVE  (\A j \in Ask : AskStep(j) /\ MarkStep(j)) /\ UNCHANGED <<running, mode>>
  BY <1>5 DEF Consent, Cancel, CancelAll, StillPending, TypeOK
<1>6. ASSUME NEW i \in Ask, RunApproved(i, AnyToken)
      PROVE  /\ \A j \in Ask : AskStep(j) /\ MarkStep(j)
             /\ running' \subseteq running /\ mode' = mode
  BY <1>6 DEF RunApproved
<1>7. CASE Send
  BY <1>7 DEF Send, TypeOK
<1>8. CASE UNCHANGED <<mode, askVars>>
  BY <1>8 DEF askVars
<1>9. ASSUME NEW u \in User, Publish(u) PROVE UNCHANGED <<mode, askVars>>
  BY <1>9 DEF Publish
<1> QED
  BY <1>1, <1>2, <1>3, <1>4, <1>5, <1>6, <1>7, <1>8, <1>9
     DEF Next, TurnStep, Reply, UseTools, vars

-----------------------------------------------------------------------------
(* Types.                                                                  *)

LEMMA NextCall ==
  ASSUME TypeOK, CallsLeft, pc = "calling"
  PROVE  /\ Head(calls) \in ToolUse /\ Tail(calls) \in Seq(ToolUse)
         /\ Len(calls) > 1 => Tail(calls) # <<>>
         /\ Head(calls).name \in Name /\ Head(calls).args \in Args
<1>1. calls \in Seq(ToolUse) /\ calls # <<>>
  BY DEF TypeOK, CallsLeft
<1>2. Head(calls) \in ToolUse /\ Tail(calls) \in Seq(ToolUse)
  BY <1>1
<1>3. Len(Tail(calls)) = Len(calls) - 1
  BY <1>1
<1>4. Len(calls) > 1 => Tail(calls) # <<>>
  <2>1. Len(<<>>) = 0
    OBVIOUS
  <2> QED
    BY <1>1, <1>3, <2>1
<1> QED
  BY <1>2, <1>4 DEF ToolUse

(* What was approved is the call of a tool.                                 *)
LEMMA ApprovedQuestion ==
  ASSUME IInv, NEW i \in Ask, status[i] = "approved"
  PROVE  /\ question[i].use \in ToolUse
         /\ question[i].use = [name |-> question[i].use.name, args |-> question[i].use.args]
         /\ question[i].use.args \in Args
<1>1. question[i] \in Question
  BY DEF IInv, TypeOK, Ask
<1>2. question[i].use \in ToolUse
  BY <1>1 DEF Question, IInv, ApprovedByCard
<1> QED
  BY <1>2 DEF ToolUse

(* The history of runs keeps its type.                                      *)
LEMMA RanType ==
  ASSUME IInv, [Next]_vars
  PROVE  times' \in [Ask -> Nat] /\ (ran' = NoRun \/ ran' \in Run)
<1>1. CASE RunsNothing
  BY <1>1 DEF RunsNothing, ranVars, IInv, TypeOK
<1>2. CASE RunsDirectly
  BY <1>2, NextCall, TurnAssumption DEF RunsDirectly, IInv, TypeOK, Run
<1>3. ASSUME NEW i \in Ask, RunsApproved(i)
      PROVE  times' \in [Ask -> Nat] /\ ran' \in Run
  <2>1. question[i].use.args \in Args /\ i \in 0..MaxAsks
    <3>1. status[i] = "approved"
      <4>1. i \in running
        BY <1>3 DEF RunsApproved
      <4> QED
        BY <4>1 DEF IInv, RunsAreFinal
    <3>2. question[i].use.args \in Args
      BY <3>1, ApprovedQuestion
    <3>3. i \in 0..MaxAsks
      BY TurnAssumption DEF Ask
    <3> QED
      BY <3>2, <3>3
  <2>2. Visible(actor) \subseteq Capability /\ actor \in User
    BY VisibleAllowed DEF IInv, TypeOK
  <2>3. times' \in [Ask -> Nat]
    BY <1>3 DEF RunsApproved, IInv, TypeOK
  <2> QED
    BY <1>3, <2>1, <2>2, <2>3 DEF RunsApproved, Run
<1> QED
  BY <1>1, <1>2, <1>3, CallSteps

(* The variables of a turn, and the history of its calls, keep their types. *)
TurnTypes ==
  /\ pc \in {"idle", "thinking", "calling", "sending"}
  /\ offered \subseteq Capability /\ iteration \in 0..(MaxIterations - 1)
  /\ calls \in Seq(ToolUse) /\ (calls # <<>> => pc = "calling")

AskTypes ==
  /\ status \in [Ask -> Statuses]
  /\ question \in [Ask -> Question \cup {NoQuestion}]
  /\ \A i \in Ask : question[i] = NoQuestion => status[i] = "none"
  /\ running \subseteq Ask /\ cancelled \subseteq Ask

(* A turn that ends has its types.                                          *)
LEMMA EndTurnTypes == EndTurn => TurnTypes' /\ CallsLeft'
  BY TurnAssumption DEF EndTurn, TurnTypes, CallsLeft

(* Going on with a turn keeps its types.                                    *)
LEMMA ContinueTypes ==
  ASSUME TypeOK, CallsLeft, pc = "calling", Continue
  PROVE  TurnTypes' /\ CallsLeft'
<1>1. CASE Len(calls) > 1
  BY <1>1, NextCall DEF Continue, TypeOK, TurnTypes, CallsLeft
<1>2. CASE Len(calls) <= 1 /\ LastIteration
  BY <1>2, EndTurnTypes DEF Continue, TypeOK
<1>3. CASE Len(calls) <= 1 /\ ~LastIteration
  <2>1. iteration' \in 0..(MaxIterations - 1)
    BY <1>3, TurnAssumption DEF Continue, TypeOK, LastIteration, NextIteration
  <2>2. pc' = "thinking" /\ calls' = <<>> /\ offered' = offered
    BY <1>3 DEF Continue
  <2>3. <<>> \in Seq(ToolUse)
    OBVIOUS
  <2> QED
    BY <2>1, <2>2, <2>3 DEF TypeOK, TurnTypes, CallsLeft
<1>4. Len(calls) \in Nat
  BY DEF TypeOK
<1> QED
  BY <1>1, <1>2, <1>3, <1>4

(* Suspending a turn keeps the types.                                       *)
LEMMA SuspendTypes ==
  ASSUME TypeOK, CallsLeft, pc = "calling", NEW cap \in Capability,
         NEW kind \in {"confirm", "consent"},
         NEW source \in {"handler", "runtime"}, NEW details \in Details \cup {NoDetails},
         Suspend(cap, kind, source, details)
  PROVE  TurnTypes' /\ CallsLeft' /\ AskTypes'
<1>1. PICK i \in Ask : Create(i, status, [kind |-> kind, use |-> Head(calls), source |-> source,
                     details |-> details, responder |-> actor, asked |-> cap])
  BY DEF Suspend
<1>2. [kind |-> kind, use |-> Head(calls), source |-> source, details |-> details,
       responder |-> actor, asked |-> cap] \in Question
  BY NextCall DEF Question, TypeOK
<1>3. \A q \in Question : q # NoQuestion
  BY DEF Question, NoQuestion
<1>4. AskTypes'
  <2>1. status' \in [Ask -> Statuses] /\ question' \in [Ask -> Question \cup {NoQuestion}]
    BY <1>1, <1>2 DEF Create, TypeOK, Statuses
  <2>2. \A j \in Ask : question'[j] = NoQuestion => status'[j] = "none"
    BY <1>1, <1>2, <1>3 DEF Create, TypeOK
  <2> QED
    BY <2>1, <2>2 DEF Suspend, AskTypes, TypeOK
<1>5. CASE kind = "confirm"
  BY <1>4, <1>5 DEF Suspend, TypeOK, TurnTypes, CallsLeft
<1>6. CASE kind = "consent"
  BY <1>4, <1>6, EndTurnTypes DEF Suspend
<1> QED
  BY <1>5, <1>6

(* A call keeps the types.                                                  *)
LEMMA CallTypes ==
  ASSUME TypeOK, CallsLeft, Call(AnyToken)
  PROVE  TurnTypes' /\ CallsLeft' /\ AskTypes'
<1>1. pc = "calling" /\ AskTypes
  BY DEF Call, TypeOK, AskTypes
<1>2. CASE Continue /\ UNCHANGED askVars
  <2>1. AskTypes'
    BY <1>1, <1>2 DEF AskTypes, askVars
  <2> QED
    BY <1>1, <1>2, <2>1, ContinueTypes
<1>3. ASSUME NEW cap \in offered, NEW outcome \in AnyToken[cap], Execute(cap, outcome)
      PROVE  TurnTypes' /\ CallsLeft' /\ AskTypes'
  <2>1. CASE \E kind \in {"confirm", "consent"} : \E source \in {"handler", "runtime"} :
               Suspend(cap, kind, source, NoDetails)
    BY <1>1, <1>3, <2>1, SuspendTypes DEF TypeOK
  <2>2. ASSUME NEW ended \in HandlerEnds(cap, Requesting),
               Suspend(cap, "confirm", "handler", ended.details)
        PROVE  TurnTypes' /\ CallsLeft' /\ AskTypes'
    BY <1>1, <1>3, <2>2, Ends, SuspendTypes DEF TypeOK
  <2>3. outcome \in {"granted", "needs consent", "denied", "error"}
    BY <1>3, OutcomeKinds DEF AnyToken
  <2> QED
    BY <1>2, <1>3, <2>1, <2>2, <2>3 DEF Execute
<1> QED
  BY <1>1, <1>2, <1>3 DEF Call

(* Every variable of a turn and of its interactions keeps its type.         *)
LEMMA TypeStep == IInv /\ [Next]_vars => TypeOK' /\ CallsLeft'
<1> SUFFICES ASSUME IInv, [Next]_vars
             PROVE  TurnTypes' /\ CallsLeft' /\ AskTypes'
                    /\ mode' \in Mode /\ actor' \in User
                    /\ DOMAIN own' = User /\ \A u \in User : own'[u] \in OwnVersions[u]
    BY RanType DEF TypeOK, TurnTypes, AskTypes
<1>0. TypeOK /\ CallsLeft /\ TurnTypes /\ AskTypes /\ mode \in Mode /\ actor \in User
      /\ DOMAIN own = User /\ \A u \in User : own[u] \in OwnVersions[u]
  BY DEF IInv, TypeOK, TurnTypes, AskTypes
<1>1. CASE UNCHANGED <<mode, own, actor, turnVars, askVars>>
  BY <1>0, <1>1 DEF turnVars, askVars, TurnTypes, CallsLeft, AskTypes
<1>2. ASSUME NEW u \in User, Message(u)
      PROVE  TurnTypes' /\ CallsLeft' /\ AskTypes' /\ actor' \in User /\ UNCHANGED <<mode, own>>
  <2>1. Visible(u) \subseteq Capability
    BY <1>0, VisibleAllowed
  <2>2. AskTypes'
    BY <1>0, <1>2 DEF Message, CancelAll, Pending, AskTypes, Statuses
  <2> QED
    BY <1>2, <2>1, <2>2, TurnAssumption DEF Message, Arrives, TurnTypes, CallsLeft
<1>3. ASSUME NEW u \in User, Aside(u)
      PROVE  TurnTypes' /\ CallsLeft' /\ AskTypes' /\ actor' \in User /\ UNCHANGED <<mode, own>>
  BY <1>0, <1>3 DEF Aside, Arrives, CancelAll, Pending, AskTypes, Statuses, turnVars,
                    TurnTypes, CallsLeft
<1>4. ASSUME NEW u \in User, Connect(u)
      PROVE  TurnTypes' /\ CallsLeft' /\ AskTypes' /\ actor' \in User /\ UNCHANGED <<mode, own>>
  <2>1. AskTypes'
    <3>1. [kind |-> "connect", responder |-> u] \in Question
      BY DEF Question
    <3>2. PICK i \in Ask : Create(i,
             [j \in Ask |-> IF j \in Pending THEN "cancelled" ELSE status[j]],
             [kind |-> "connect", responder |-> u])
      BY <1>4 DEF Connect
    <3>3. status' \in [Ask -> Statuses]
      BY <1>0, <3>2 DEF Create, AskTypes, Statuses
    <3>4. question' \in [Ask -> Question \cup {NoQuestion}]
      BY <1>0, <3>1, <3>2 DEF Create, AskTypes
    <3>5. \A j \in Ask : question'[j] = NoQuestion => status'[j] = "none"
      BY <1>0, <3>1, <3>2 DEF Create, AskTypes, Pending, NoQuestion, Question
    <3> QED
      BY <1>0, <1>4, <3>3, <3>4, <3>5 DEF Connect, AskTypes, Pending
  <2> QED
    BY <1>0, <1>4, <2>1 DEF Connect, Arrives, turnVars, TurnTypes, CallsLeft
<1>5. ASSUME NEW u \in User, Publish(u)
      PROVE  /\ UNCHANGED <<mode, actor, turnVars, askVars>>
             /\ DOMAIN own' = User /\ \A w \in User : own'[w] \in OwnVersions[w]
  BY <1>0, <1>5 DEF Publish
<1>6. CASE Reply
  BY <1>0, <1>6, EndTurnTypes DEF Reply, askVars, AskTypes
<1>7. CASE UseTools
  <2>1. PICK n \in 1..MaxBatch : calls' \in [1..n -> ToolUse]
    BY <1>7 DEF UseTools
  <2>2. n \in Nat /\ n > 0
    BY <2>1, TurnAssumption
  <2>3. calls' \in Seq(ToolUse) /\ calls' # <<>>
    BY <2>1, <2>2
  <2> QED
    BY <1>0, <1>7, <2>3 DEF UseTools, TurnTypes, CallsLeft, askVars, AskTypes
<1>8. CASE Call(AnyToken)
  BY <1>0, <1>8, CallTypes DEF Call
<1>9. CASE Send
  BY <1>0, <1>9, EndTurnTypes DEF Send, AskTypes, Statuses
<1>10. ASSUME NEW i \in Ask, NEW approved \in BOOLEAN, Click(i, approved)
       PROVE  AskTypes' /\ UNCHANGED <<mode, own, actor, turnVars>>
  BY <1>0, <1>10 DEF Click, AskTypes, Statuses
<1>11. ASSUME NEW i \in Ask, Consent(i) \/ Cancel(i)
       PROVE  AskTypes' /\ UNCHANGED <<mode, own, actor, turnVars>>
  BY <1>0, <1>11 DEF Consent, Cancel, CancelAll, StillPending, AskTypes, Statuses
<1>12. ASSUME NEW i \in Ask, RunApproved(i, AnyToken)
       PROVE  AskTypes' /\ UNCHANGED <<mode, own, actor, turnVars>>
  BY <1>0, <1>12 DEF RunApproved, AskTypes
<1>13. UNCHANGED turnVars => TurnTypes' /\ CallsLeft'
  BY <1>0 DEF turnVars, TurnTypes, CallsLeft
<1>14. UNCHANGED askVars => AskTypes'
  BY <1>0 DEF askVars, AskTypes
<1> QED
  BY <1>0, <1>1, <1>2, <1>3, <1>4, <1>5, <1>6, <1>7, <1>8, <1>9, <1>10, <1>11, <1>12,
     <1>13, <1>14 DEF Next, TurnStep, Reply, UseTools, Send, vars

-----------------------------------------------------------------------------
(* The invariant.                                                          *)

LEMMA InvInit == Init => IInv
<1> SUFFICES ASSUME Init PROVE IInv
    OBVIOUS
<1>1. TypeOK
  <2>1. <<>> \in Seq(ToolUse) /\ NoQuestion = [kind |-> "none"]
    BY DEF NoQuestion
  <2> QED
    BY <2>1, TurnAssumption DEF Init, TypeOK, Statuses, Ask
<1>2. ran = NoRun /\ status = [i \in Ask |-> "none"] /\ running = {} /\ cancelled = {}
      /\ times = [i \in Ask |-> 0] /\ offered = {} /\ pc = "idle"
  BY DEF Init
<1>3. AskedByName
  BY DEF Init, AskedByName
<1>4. OfferedAllowed
  BY <1>2 DEF OfferedAllowed
<1> QED
  BY <1>1, <1>2, <1>3, <1>4 DEF IInv, CallsLeft, ApprovedByCard, CancelledStays,
                                 RanAsApproved, RanWhereAllowed, RunsAreFinal

(* What a turn was offered stays allowed where the session is.              *)
LEMMA OfferedStep == IInv /\ [Next]_vars => OfferedAllowed'
<1> SUFFICES ASSUME IInv, [Next]_vars PROVE OfferedAllowed'
    OBVIOUS
<1>0. mode' = mode
  BY AskSteps DEF IInv
<1>1. ASSUME NEW u \in User, Message(u) PROVE OfferedAllowed'
  BY <1>0, <1>1, VisibleAllowed DEF Message, Arrives, OfferedAllowed, Findable, IInv
<1>2. ASSUME NEW u \in User, Aside(u) \/ Connect(u) PROVE OfferedAllowed'
  BY <1>2 DEF Aside, Connect, Arrives, OfferedAllowed, turnVars, IInv
<1>3. CASE EndTurn
  BY <1>3 DEF EndTurn, OfferedAllowed
<1>4. CASE offered' = offered /\ actor' = actor /\ (pc' # "idle" \/ pc' = pc)
  BY <1>0, <1>4 DEF OfferedAllowed, Findable, IInv
<1>5. CASE Call(AnyToken)
  <2>1. actor' = actor
    BY <1>5 DEF Call
  <2>2. Continue => EndTurn \/ (offered' = offered /\ (pc' # "idle" \/ pc' = pc))
    BY DEF Continue
  <2>3. ASSUME NEW cap, NEW kind, NEW source, NEW details, Suspend(cap, kind, source, details)
        PROVE  EndTurn \/ (offered' = offered /\ (pc' # "idle" \/ pc' = pc))
    BY <2>3 DEF Suspend
  <2> QED
    BY <1>3, <1>4, <1>5, <2>1, <2>2, <2>3 DEF Call, Execute
<1> QED
  BY <1>1, <1>2, <1>3, <1>4, <1>5
     DEF Next, TurnStep, Reply, UseTools, Send, Publish, Click, Consent, Cancel,
         RunApproved, turnVars, vars

(* Only a suspended call asks with a card.                                  *)
LEMMA AskedStep == IInv /\ [Next]_vars => AskedByName'
<1> SUFFICES ASSUME IInv, [Next]_vars PROVE AskedByName'
    OBVIOUS
<1>0. mode' = mode /\ AskedByName /\ TypeOK /\ CallsLeft
  BY AskSteps DEF IInv
<1>1. CASE UNCHANGED question
  BY <1>0, <1>1 DEF AskedByName, Findable
<1>2. ASSUME NEW i \in Ask, NEW before, NEW asked, Create(i, before, asked),
             asked.kind = "confirm" =>
               Findable(asked.asked) /\ asked.asked.name = asked.use.name
      PROVE  AskedByName'
  <2>1. question' = [question EXCEPT ![i] = asked]
    BY <1>2 DEF Create
  <2>2. question'[i] = asked /\ \A j \in Ask \ {i} : question'[j] = question[j]
    BY <1>0, <2>1 DEF TypeOK
  <2> QED
    BY <1>0, <1>2, <2>2 DEF AskedByName, Findable
<1>3. ASSUME NEW u \in User, Connect(u) PROVE AskedByName'
  <2> DEFINE asked == [kind |-> "connect", responder |-> u]
  <2>1. PICK i \in Ask : Create(i,
           [j \in Ask |-> IF j \in Pending THEN "cancelled" ELSE status[j]], asked)
    BY <1>3 DEF Connect
  <2>2. asked.kind # "confirm"
    OBVIOUS
  <2> HIDE DEF asked
  <2> QED
    BY <1>2, <2>1, <2>2
<1>4. ASSUME NEW cap \in offered, cap.name = Head(calls).name,
             NEW kind, NEW source, NEW details, Suspend(cap, kind, source, details)
      PROVE  AskedByName'
  <2> DEFINE asked == [kind |-> kind, use |-> Head(calls), source |-> source,
                       details |-> details, responder |-> actor, asked |-> cap]
  <2>1. PICK i \in Ask : Create(i, status, asked)
    BY <1>4 DEF Suspend
  <2>2. Findable(asked.asked) /\ asked.asked.name = asked.use.name
    BY <1>4 DEF IInv, OfferedAllowed
  <2> HIDE DEF asked
  <2> QED
    BY <1>2, <2>1, <2>2
<1>5. CASE Call(AnyToken)
  BY <1>1, <1>4, <1>5 DEF Call, Execute, askVars
<1> QED
  BY <1>1, <1>3, <1>5
     DEF Next, TurnStep, Message, Aside, Reply, UseTools, Send, Publish, Click, Consent, Cancel,
         RunApproved, askVars, vars

(* What is decided stays decided, and the question it was about.           *)
LEMMA DecidedStep ==
  ASSUME IInv, [Next]_vars, NEW i \in Ask, status[i] = "approved"
  PROVE  status'[i] = "approved" /\ question'[i] = question[i]
  BY AskSteps DEF AskStep, IInv

(* Approvals come from cards, and what was cancelled stays so.              *)
LEMMA AskInvStep == IInv /\ [Next]_vars => ApprovedByCard' /\ CancelledStays'
<1> SUFFICES ASSUME IInv, [Next]_vars PROVE ApprovedByCard' /\ CancelledStays'
    OBVIOUS
<1>1. \A i \in Ask : AskStep(i) /\ MarkStep(i)
  BY AskSteps DEF IInv
<1>2. ApprovedByCard'
  BY <1>1 DEF AskStep, IInv, ApprovedByCard
<1>3. cancelled' \subseteq Ask
  BY TypeStep DEF TypeOK
<1>4. CancelledStays'
  BY <1>1, <1>3 DEF AskStep, MarkStep, IInv, CancelledStays
<1> QED
  BY <1>2, <1>4

(* An approved call is taken up once and nothing cancels it after.          *)
LEMMA FinalStep == IInv /\ [Next]_vars => RunsAreFinal'
<1> SUFFICES ASSUME IInv, [Next]_vars, NEW i \in Ask
             PROVE  /\ times'[i] <= 1 /\ (i \in running' => times'[i] = 0)
                    /\ i \in running' \/ times'[i] = 1 =>
                         status'[i] = "approved" /\ i \notin cancelled'
    BY DEF RunsAreFinal
<1>1. AskStep(i) /\ MarkStep(i)
      /\ running' \subseteq running \cup {j \in Ask : status'[j] = "approved"}
  BY AskSteps DEF IInv
<1>2. status[i] = "approved" => status'[i] = "approved"
  BY DecidedStep
<1>3. /\ times[i] \in Nat /\ times[i] <= 1 /\ (i \in running => times[i] = 0)
      /\ i \in running \/ times[i] = 1 => status[i] = "approved" /\ i \notin cancelled
  BY DEF IInv, TypeOK, RunsAreFinal
<1>4. i \in cancelled' => status'[i] = "cancelled"
  BY AskInvStep DEF CancelledStays
<1>5. CASE times'[i] = times[i]
  BY <1>1, <1>2, <1>3, <1>4, <1>5 DEF MarkStep
<1>6. CASE i \in running /\ i \notin running' /\ times'[i] = times[i] + 1
  BY <1>2, <1>3, <1>4, <1>6
<1>7. ASSUME NEW j \in Ask, RunsApproved(j)
      PROVE  times'[i] = times[i] \/ (i \in running /\ i \notin running' /\ times'[i] = times[i] + 1)
  <2>1. j \in running /\ running' = running \ {j}
        /\ times'[i] = times[i] + IF i = j THEN 1 ELSE 0
    BY <1>7 DEF RunsApproved
  <2> QED
    BY <1>3, <2>1
<1> QED
  BY <1>5, <1>6, <1>7, CallSteps DEF RunsNothing, RunsDirectly, ranVars

(* What has an effect is approved.                                          *)
LEMMA ApprovedStep == IInv /\ [Next]_vars => RanAsApproved'
<1> SUFFICES ASSUME IInv, [Next]_vars, ran' # NoRun PROVE RanAsApproved'
    BY DEF RanAsApproved
<1>0. mode' = mode
  BY AskSteps DEF IInv
<1>1. CASE RunsNothing
  <2>1. ran' = ran /\ ran \in Run /\ ran # NoRun
    BY <1>1 DEF RunsNothing, ranVars, IInv, TypeOK
  <2>2. CASE ran.via = 0
    BY <2>1, <2>2 DEF IInv, RanAsApproved
  <2>3. CASE ran.via # 0
    <3>1. ran.via \in Ask
      BY <2>1, <2>3, TurnAssumption DEF Run, Ask
    <3>2. status[ran.via] = "approved"
      BY <2>1, <2>3 DEF IInv, RanAsApproved
    <3> QED
      BY <1>0, <2>1, <2>3, <3>1, <3>2, DecidedStep DEF IInv, RanAsApproved
  <2> QED
    BY <2>2, <2>3
<1>2. CASE RunsDirectly
  BY <1>2 DEF RunsDirectly, RanAsApproved
<1>3. ASSUME NEW i \in Ask, RunsApproved(i) PROVE RanAsApproved'
  <2>1. i \in running
    BY <1>3 DEF RunsApproved
  <2>2. status[i] = "approved"
    BY <2>1 DEF IInv, RunsAreFinal
  <2>3. status'[i] = "approved" /\ question'[i] = question[i] /\ question[i].kind = "confirm"
    BY <2>2, DecidedStep DEF IInv, ApprovedByCard
  <2>4. question[i].use = [name |-> question[i].use.name, args |-> question[i].use.args]
    BY <2>2, ApprovedQuestion
  <2>5. i # 0
    BY TurnAssumption DEF Ask
  <2>6. question[i] # NoQuestion
    BY <2>2 DEF IInv, TypeOK
  <2>7. PICK cap \in Visible(actor), d \in Details \cup {NoDetails} :
          /\ cap.name = question[i].use.name
          /\ question[i].source = "handler" /\ d # NoDetails => d = question[i].details
          /\ ran' = [cap |-> cap, args |-> question[i].use.args, details |-> d,
                     actor |-> actor, via |-> i]
    BY <1>3 DEF RunsApproved
  <2>8. cap = question[i].asked \/ (mode = "dm" /\ "user" \in {cap.origin, question[i].asked.origin})
    <3>1. Findable(cap)
      BY VisibleAllowed DEF IInv, TypeOK
    <3>2. Findable(question[i].asked) /\ question[i].asked.name = cap.name
      BY <2>3, <2>6, <2>7 DEF IInv, AskedByName
    <3> QED
      BY <3>1, <3>2, SharedNames DEF Findable, OneOfEachName
  <2> QED
    BY <1>0, <2>3, <2>4, <2>5, <2>7, <2>8 DEF RanAsApproved
<1> QED
  BY <1>1, <1>2, <1>3, CallSteps

(* What has an effect is allowed.                                           *)
LEMMA AllowedStep == IInv /\ [Next]_vars => RanWhereAllowed'
<1> SUFFICES ASSUME IInv, [Next]_vars, ran' # NoRun PROVE RanWhereAllowed'
    BY DEF RanWhereAllowed
<1>0. mode' = mode /\ mode \in {"dm", "group"}
  BY AskSteps DEF IInv, TypeOK, Mode
<1>1. CASE RunsNothing
  BY <1>0, <1>1 DEF RunsNothing, ranVars, IInv, RanWhereAllowed
<1>2. ASSUME NEW cap, CanUse(cap, mode, actor, Enabled), ran'.cap = cap, ran'.actor = actor
      PROVE  RanWhereAllowed'
  BY <1>0, <1>2 DEF CanUse, RanWhereAllowed, RequiresUserAuthority
<1>3. CASE RunsDirectly
  BY <1>2, <1>3 DEF RunsDirectly, IInv, OfferedAllowed
<1>4. ASSUME NEW i \in Ask, RunsApproved(i) PROVE RanWhereAllowed'
  <2>1. \A cap \in Visible(actor) : CanUse(cap, mode, actor, Enabled)
    BY VisibleAllowed DEF IInv, TypeOK
  <2> QED
    BY <1>2, <1>4, <2>1 DEF RunsApproved
<1> QED
  BY <1>1, <1>3, <1>4, CallSteps

(* The invariant is inductive.                                              *)
LEMMA InvStep == IInv /\ [Next]_vars => IInv'
  BY TypeStep, OfferedStep, AskedStep, AskInvStep, FinalStep, ApprovedStep, AllowedStep DEF IInv

(* The invariant holds of every session, for any capabilities and bounds.   *)
THEOREM TurnInvariant == Spec => []IInv
  BY InvInit, InvStep, PTL DEF Spec

(* Every call that has an effect needed no approval, or has one that showed *)
(* its name, its arguments and the details it runs with; and it is the call *)
(* of the capability that asked, unless a file of the user's own directory  *)
(* took or gave up that name between the card and the click.                *)
THEOREM CallsAreApproved == Spec => []RanAsApproved
<1>1. IInv => RanAsApproved
  BY DEF IInv
<1> QED
  BY <1>1, TurnInvariant, PTL

(* Every call that has an effect has it where its capability may be used,  *)
(* whatever the files of the users became between question and answer.      *)
THEOREM CallsAreAllowed == Spec => []RanWhereAllowed
<1>1. IInv => RanWhereAllowed
  BY DEF IInv
<1> QED
  BY <1>1, TurnInvariant, PTL

(* An approval is used at most once, and never after a cancellation.        *)
THEOREM ApprovalsRunOnce == Spec => []RunsAreFinal
<1>1. IInv => RunsAreFinal
  BY DEF IInv
<1> QED
  BY <1>1, TurnInvariant, PTL

=============================================================================
