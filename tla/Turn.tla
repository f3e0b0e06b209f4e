-------------------------------- MODULE Turn --------------------------------
(***************************************************************************)
(* One session's turns: the model is asked, the tools it calls pass the    *)
(* gate, the Authorizer and the confirmation, and run; a turn suspends to  *)
(* ask for consent or confirmation; an approved call runs later, in the    *)
(* task of the callback, beside the next turn.                             *)
(*                                                                         *)
(* Interactions models the pending row, its timer and the session row      *)
(* under crashes; here resolving a pending row is one step, and the model  *)
(* is about what runs, for whom, and with what approval.                   *)
(***************************************************************************)
EXTENDS Gate

CONSTANTS
  System, Base,   \* the capabilities of the two shared tiers
  OwnVersions,    \* what the directory of each user may hold
  Enabled,        \* the names switched on for the group
  Partner,        \* the user of the one-to-one chat
  Args,           \* arguments of a tool call
  Details,        \* what a handler asks to have confirmed
  NoDetails,
  MaxIterations,  \* max_tool_iterations
  MaxBatch,       \* tool calls in one answer of the model
  MaxAsks         \* bound: interactions that are created

ASSUME TurnAssumption ==
  /\ System \cup Base \subseteq Capability
  /\ OwnVersions \in [User -> SUBSET SUBSET Capability]
  /\ \A u \in User : \A own \in OwnVersions[u] : \A cap \in own : cap.origin = "user"
  /\ \A cap \in System \cup Base : cap.origin # "user"
  /\ Enabled \subseteq Name /\ Partner \in User
  /\ NoDetails \notin Details
  /\ MaxIterations \in Nat \ {0} /\ MaxBatch \in Nat \ {0} /\ MaxAsks \in Nat

ASSUME TiersAssumption ==
  /\ OneOfEachName(System) /\ OneOfEachName(Base)
  /\ \A u \in User : \A own \in OwnVersions[u] : OneOfEachName(own)

Ask == 1..MaxAsks
ToolUse == [name : Name, args : Args]
(* asked is the capability that suspended; the row stores its name in use  *)
(* only, so no action reads asked.                                          *)
Question ==
  [kind : {"confirm", "consent"}, use : ToolUse, source : {"handler", "runtime"},
   details : Details \cup {NoDetails}, responder : User, asked : Capability]
    \cup [kind : {"connect"}, responder : User]
NoQuestion == [kind |-> "none"]
NoRun == [via |-> MaxAsks + 1]

VARIABLES
  mode,       \* the kind of the session
  own,        \* what the directories of the users hold
  actor,      \* the actor of the session row: who sent the last message
  pc,         \* "idle", "thinking", "calling" or "sending" a card
  offered,    \* capabilities_by_name of the turn
  iteration,  \* how often the model has answered
  calls,      \* the tool calls of its last answer that are left
  status,     \* of an interaction
  question,   \* its payload and responder
  running,    \* approved interactions whose call is under way
  cancelled,  \* interactions that the history says were cancelled
  times,      \* history: how often the call of an interaction had an effect
  ran         \* history: the last call that had an effect

turnVars == <<pc, offered, iteration, calls>>
askVars == <<status, question, running, cancelled>>
ranVars == <<times, ran>>
vars == <<mode, own, actor, turnVars, askVars, ranVars>>

Statuses == {"none", "pending", "approved", "rejected", "cancelled", "unsent",
             "consented"}
Run == [cap : Capability, args : Args, details : Details \cup {NoDetails},
        actor : User, via : 0..MaxAsks]

TypeOK ==
  /\ mode \in Mode /\ actor \in User
  /\ DOMAIN own = User /\ \A u \in User : own[u] \in OwnVersions[u]
  /\ pc \in {"idle", "thinking", "calling", "sending"}
  /\ offered \subseteq Capability /\ iteration \in 0..(MaxIterations - 1)
  /\ calls \in Seq(ToolUse) /\ (calls # <<>> => pc = "calling")
  /\ status \in [Ask -> Statuses]
  /\ question \in [Ask -> Question \cup {NoQuestion}]
  /\ \A i \in Ask : question[i] = NoQuestion => status[i] = "none"
  /\ running \subseteq Ask /\ cancelled \subseteq Ask
  /\ times \in [Ask -> Nat] /\ (ran = NoRun \/ ran \in Run)

Init ==
  /\ mode \in Mode /\ own \in [User -> UNION {OwnVersions[u] : u \in User}]
  /\ \A u \in User : own[u] \in OwnVersions[u]
  /\ actor = Partner
  /\ pc = "idle" /\ offered = {} /\ iteration = 0 /\ calls = <<>>
  /\ status = [i \in Ask |-> "none"] /\ question = [i \in Ask |-> NoQuestion]
  /\ running = {} /\ cancelled = {}
  /\ times = [i \in Ask |-> 0] /\ ran = NoRun

-----------------------------------------------------------------------------
(* What the session may use now: the registry is read from disk each time. *)
Visible(u) ==
  {cap \in Registered(System, Base, own, mode, u) : CanUse(cap, mode, u, Enabled)}

(* Mutant of RequiresConfirm: nothing is sensitive.                         *)
RequiresConfirmNever(cap) == FALSE

RequiresConfirm(cap) == cap.high

Requesting == NoQuestion

(* Mutant of Confirms: what was approved is not compared.                   *)
ConfirmsAll(confirmation, d) == confirmation # Requesting

(* ctx.confirm: it suspends a first call; after an approval it demands the *)
(* details that were shown, unless the user was shown the arguments.        *)
Confirms(confirmation, d) ==
  /\ confirmation # Requesting
  /\ confirmation.source = "runtime" \/ confirmation.details = d

(* How a handler can end: it has had its effect, and returns or raises all  *)
(* the same; it has raised before; it asks, which suspends it.              *)
HandlerEnds(cap, confirmation) ==
  LET Asked  == IF cap.asks THEN Details ELSE {NoDetails}
      Passed == {d \in Asked : cap.asks => Confirms(confirmation, d)}
  IN  {[end |-> "ended", effect |-> FALSE, details |-> NoDetails]}
      \cup [end : {"ended"}, effect : {TRUE}, details : Passed]
      \cup (IF cap.asks /\ confirmation = Requesting
            THEN [end : {"asks"}, effect : {FALSE}, details : Details] ELSE {})

Effect(ended, cap, args, u, via) ==
  /\ ran' = IF ended.effect
            THEN [cap |-> cap, args |-> args, details |-> ended.details,
                  actor |-> u, via |-> via]
            ELSE ran
  /\ times' = [i \in Ask |-> times[i] + IF ended.effect /\ i = via THEN 1 ELSE 0]

-----------------------------------------------------------------------------
(* A turn                                                                  *)

(* Mutant of StillPending: an interaction that was resolved is cancelled.   *)
StillPendingEver(i) == status[i] \in {"pending", "approved"}

StillPending(i) == status[i] = "pending"

(* cancel_pending_interaction and what it writes into the history.          *)
CancelAll(asks) ==
  /\ status' = [i \in Ask |-> IF i \in asks THEN "cancelled" ELSE status[i]]
  /\ cancelled' = cancelled \cup asks

Pending == {i \in Ask : status[i] = "pending"}

(* A message of u reaches the session, whose row names its sender then.     *)
Arrives(u) ==
  /\ pc = "idle" /\ (mode = "dm" => u = Partner)
  /\ actor' = u

(* What is pending is superseded, then the turn starts.                     *)
Message(u) ==
  /\ Arrives(u)
  /\ \E i \in Ask : status[i] = "none"
  /\ CancelAll(Pending)
  /\ pc' = "thinking" /\ offered' = Visible(u) /\ iteration' = 0 /\ calls' = <<>>
  /\ UNCHANGED <<mode, own, question, running, ranVars>>

(* A command, or a message that is not a text: the model never sees it.     *)
Aside(u) ==
  /\ Arrives(u)
  /\ CancelAll(Pending)
  /\ UNCHANGED <<mode, own, turnVars, question, running, ranVars>>

EndTurn ==
  /\ pc' = "idle" /\ offered' = {} /\ iteration' = 0 /\ calls' = <<>>

(* The model answers with a text, which ends the turn, or not at all or    *)
(* with no text, which fails it; both leave the session idle.               *)
Reply ==
  /\ pc = "thinking"
  /\ EndTurn
  /\ UNCHANGED <<mode, own, actor, askVars, ranVars>>

(* It answers with tool calls, whose names it may have made up; it is not  *)
(* given tools if there are none.                                          *)
UseTools ==
  /\ pc = "thinking" /\ offered # {}
  /\ \E n \in 1..MaxBatch : calls' \in [1..n -> ToolUse]
  /\ pc' = "calling"
  /\ UNCHANGED <<mode, own, actor, offered, iteration, askVars, ranVars>>

(* Mutant of NextIteration: the loop has no end.                            *)
NextIterationSame == iteration

NextIteration == iteration + 1

(* Mutant of LastIteration: the model is asked once too often.              *)
LastIterationLate == iteration = MaxIterations

LastIteration == iteration + 1 = MaxIterations

(* A call has its result, an error too: the next one follows, or the model *)
(* is asked again, up to MaxIterations times.                               *)
Continue ==
  IF Len(calls) > 1 THEN calls' = Tail(calls) /\ UNCHANGED <<pc, offered, iteration>>
  ELSE IF LastIteration THEN EndTurn
  ELSE /\ pc' = "thinking" /\ calls' = <<>> /\ iteration' = NextIteration
       /\ UNCHANGED offered

(* The row of the next interaction is created, for the actor of the session.*)
Create(i, before, asked) ==
  /\ before[i] = "none" /\ \A j \in 1..(i - 1) : before[j] # "none"
  /\ status' = [before EXCEPT ![i] = "pending"]
  /\ question' = [question EXCEPT ![i] = asked]

(* A call suspends the turn; a confirm card is sent next.                   *)
Suspend(cap, kind, source, details) ==
  \E i \in Ask :
    /\ Create(i, status, [kind |-> kind, use |-> Head(calls), source |-> source,
                         details |-> details, responder |-> actor, asked |-> cap])
    /\ IF kind = "confirm"
       THEN pc' = "sending" /\ calls' = <<>> /\ UNCHANGED <<offered, iteration>>
       ELSE EndTurn
    /\ UNCHANGED <<running, cancelled, ranVars>>

(* /connect of a service that its user has to consent to.                   *)
Connect(u) ==
  /\ Arrives(u) /\ mode = "dm"
  /\ \E i \in Ask :
       Create(i, [j \in Ask |-> IF j \in Pending THEN "cancelled" ELSE status[j]],
              [kind |-> "connect", responder |-> u])
  /\ cancelled' = cancelled \cup Pending
  /\ UNCHANGED <<mode, own, turnVars, running, ranVars>>

(* _execute_tool_call for a capability that was offered: credentials first, *)
(* then the confirmation that a sensitive one requires, then the handler.   *)
Execute(cap, outcome) ==
  CASE outcome = "needs consent" -> Suspend(cap, "consent", "handler", NoDetails)
    [] outcome \in {"denied", "error"} -> Continue /\ UNCHANGED <<askVars, ranVars>>
    [] outcome = "granted" /\ RequiresConfirm(cap) ->
         Suspend(cap, "confirm", "runtime", NoDetails)
    [] OTHER -> \E ended \in HandlerEnds(cap, Requesting) :
         IF ended.end = "asks" THEN Suspend(cap, "confirm", "handler", ended.details)
         ELSE /\ Effect(ended, cap, Head(calls).args, actor, 0)
              /\ Continue /\ UNCHANGED askVars

(* The next call of the model; may[cap] is what credentials can come to.    *)
Call(may) ==
  /\ pc = "calling"
  /\ \/ /\ \A cap \in offered : cap.name # Head(calls).name
        /\ Continue /\ UNCHANGED <<askVars, ranVars>>
     \/ \E cap \in offered : cap.name = Head(calls).name
          /\ \E outcome \in may[cap] : Execute(cap, outcome)
  /\ UNCHANGED <<mode, own, actor>>

(* The card was sent and the turn is over, or sending failed: then the     *)
(* interaction is withdrawn if nobody has answered the card all the same.   *)
Send == \E sent \in BOOLEAN :
  /\ pc = "sending"
  /\ status' = [i \in Ask |->
       IF ~sent /\ status[i] = "pending" THEN "unsent" ELSE status[i]]
  /\ EndTurn
  /\ UNCHANGED <<mode, own, actor, question, running, cancelled, ranVars>>

-----------------------------------------------------------------------------
(* Answers to questions                                                    *)

(* The responder presses a button of the card.                              *)
Click(i, approved) ==
  /\ status[i] = "pending" /\ question[i].kind = "confirm"
  /\ status' = [status EXCEPT ![i] = IF approved THEN "approved" ELSE "rejected"]
  /\ running' = IF approved THEN running \cup {i} ELSE running
  /\ UNCHANGED <<mode, own, actor, turnVars, question, cancelled, ranVars>>

(* resume_interaction: the consent that was asked for has been given.       *)
Consent(i) ==
  /\ status[i] = "pending" /\ question[i].kind \in {"consent", "connect"}
  /\ status' = [status EXCEPT ![i] = "consented"]
  /\ UNCHANGED <<mode, own, actor, turnVars, question, running, cancelled, ranVars>>

(* Its time runs out, or the user sends /cancel.                            *)
Cancel(i) ==
  /\ StillPending(i)
  /\ pc # "sending"
  /\ CancelAll({i})
  /\ UNCHANGED <<mode, own, actor, turnVars, question, running, ranVars>>

(* Mutant of AfterApproval: the gate is not asked again.                    *)
AfterApprovalAny(u) == Registered(System, Base, own, mode, u)

(* What an approved call can still find by its name.                        *)
AfterApproval(u) == Visible(u)

(* _execute_confirmed_tool: for the actor the session row has by now, the  *)
(* capability of that name is looked up again, its credentials are         *)
(* resolved again, and its handler runs from its start.                    *)
RunApproved(i, may) ==
  LET q == question[i]
      found == {cap \in AfterApproval(actor) : cap.name = q.use.name}
  IN  /\ i \in running
      /\ running' = running \ {i}
      /\ \/ /\ \A cap \in found : may[cap] # {"granted"}
           /\ UNCHANGED ranVars
         \/ \E cap \in found : \E ended \in HandlerEnds(cap, q) :
              /\ "granted" \in may[cap]
              /\ Effect(ended, cap, q.use.args, actor, i)
      /\ UNCHANGED <<mode, own, actor, turnVars, status, question, cancelled>>

(* The capability files of a user change.                                   *)
Publish(u) ==
  /\ \E version \in OwnVersions[u] : own' = [own EXCEPT ![u] = version]
  /\ UNCHANGED <<mode, actor, turnVars, askVars, ranVars>>

(* Credentials, the tokens of the user left open.                           *)
AnyToken == [cap \in offered \cup AfterApproval(actor) |->
  Outcomes([i \in DOMAIN cap.requires |-> Resolutions(cap.requires[i], mode)])]

TurnStep == Reply \/ UseTools \/ Call(AnyToken) \/ Send

Next ==
  \/ \E u \in User : Message(u) \/ Aside(u) \/ Connect(u) \/ Publish(u)
  \/ TurnStep
  \/ \E i \in Ask : \/ \E approved \in BOOLEAN : Click(i, approved)
                    \/ Consent(i) \/ Cancel(i) \/ RunApproved(i, AnyToken)

Spec == Init /\ [][Next]_vars

(* The model and the tools answer or time out.                              *)
FairSpec == Spec /\ WF_vars(TurnStep)

-----------------------------------------------------------------------------
(* Properties                                                              *)

(* A call that had an effect in its turn needed no approval.  One that had *)
(* it after a click has the approval of a card that showed its name, its   *)
(* arguments and the details its handler asks about.  It is the call of    *)
(* the very capability that asked, unless, in a one-to-one chat, the files *)
(* of the user's own directory changed which one has that name: neither    *)
(* the identity nor the sensitivity is compared after the click.           *)
(* (_execute_tool_call, _execute_confirmed_tool)                           *)
RanAsApproved == ran # NoRun =>
  IF ran.via = 0 THEN ~ran.cap.high /\ ran.details = NoDetails
  ELSE LET q == question[ran.via] IN
       /\ status[ran.via] = "approved" /\ q.kind = "confirm"
       /\ q.use = [name |-> ran.cap.name, args |-> ran.args]
       /\ q.source = "handler" /\ ran.details # NoDetails => ran.details = q.details
       /\ \/ ran.cap = q.asked
          \/ mode = "dm" /\ "user" \in {ran.cap.origin, q.asked.origin}

(* Whatever files change and whoever writes between the question and the   *)
(* answer, no call has an effect in a place its capability is not for: on  *)
(* behalf of a user only in a one-to-one chat, another user's own tool and *)
(* a tool that is switched off for the group never.                         *)
RanWhereAllowed == ran # NoRun =>
  /\ RequiresUserAuthority(ran.cap) => mode = "dm"
  /\ "global" \notin ran.cap.in =>
       /\ mode \in ran.cap.in
       /\ mode = "group" => ran.cap.name \in Enabled
       /\ mode = "dm" /\ ran.cap.origin = "user" => ran.cap.owner = ran.actor

(* The call of an interaction has an effect at most once, and only if it   *)
(* was approved; what the history calls cancelled neither runs nor ran.     *)
(* (resolve_confirm_callback, cancel_pending_interaction)                   *)
RunsAreFinal == \A i \in Ask :
  /\ times[i] <= 1 /\ (i \in running => times[i] = 0)
  /\ i \in running \/ times[i] = 1 => status[i] = "approved" /\ i \notin cancelled

(* Every turn ends, whatever the model keeps asking for.                    *)
TurnsEnd == []<>(pc = "idle")

=============================================================================
