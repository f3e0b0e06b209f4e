--------------------------- MODULE Dispatch_proof ---------------------------
(***************************************************************************)
(* Theorems about Dispatch.  With real tokens a call comes to nothing that *)
(* Turn does not leave open, so all that is proved of Turn holds of a      *)
(* session with commands, cards and consent links.  And a card is decided  *)
(* as it was pressed, a service that was connected covers what it is for.  *)
(***************************************************************************)
EXTENDS Dispatch, Turn_proof

-----------------------------------------------------------------------------
(* Cards.                                                                  *)

(* Fields override those with the same keys, and nothing adds nothing.      *)
LEMMA Overrides ==
  ASSUME NEW c, NEW d, NEW i, NEW w, NEW j, NEW v
  PROVE  /\ Merged(Fields(c, d, i, w), Fields(c, d, j, v)) = Fields(c, d, i, w)
         /\ Merged(Fields(c, d, i, w), Nothing) = Fields(c, d, i, w)
         /\ Merged(Nothing, Fields(c, d, i, w)) = Fields(c, d, i, w)
         /\ Merged(Nothing, Nothing) = Nothing
<1>1. DOMAIN Nothing = {} /\ Nothing = [x \in {} |-> x]
  BY DEF Nothing
<1> QED
  BY <1>1 DEF Merged, Fields

Data(frame) == Merged(frame.content,
                 Merged(frame.value, Merged(frame.extension, frame.top)))

(* Wherever its fields are, those are the ones that count.                  *)
LEMMA WrappedData ==
  ASSUME NEW c, NEW d, NEW i, NEW w, NEW j, NEW v, NEW track, NEW rest,
         rest = Nothing \/ rest = Fields(c, d, j, v),
         NEW frame \in Wrapped(track, Fields(c, d, i, w), rest)
  PROVE  Data(frame) = Fields(c, d, i, w)
<1> DEFINE press == Fields(c, d, i, w)
<1>1. /\ Merged(press, rest) = press /\ Merged(rest, rest) = rest
      /\ Merged(Nothing, press) = press /\ Merged(press, Nothing) = press
      /\ Merged(Nothing, Nothing) = Nothing
  BY Overrides
<1> HIDE DEF press
<1>2. frame \in {Card(track, press, Nothing, Nothing, Nothing),
                 Card(track, rest, press, Nothing, Nothing),
                 Card(track, rest, rest, press, Nothing), Card(track, rest, rest, rest, press)}
  BY DEF Wrapped, press
<1>3. Data(frame) = press
  BY <1>1, <1>2 DEF Data, Card
<1> QED
  BY <1>3 DEF press

(* The first of the keys that is there; the keys are tried in their order.  *)
LEMMA FirstOfFields ==
  ASSUME NEW n \in 1..2, NEW k \in 1..4, NEW i, NEW w, NEW other
  PROVE  LET data == Fields(CorrelationKeys[n], DecisionKeys[k], i, w)
         IN  FirstOf(data, CorrelationKeys, other) = i /\ FirstOf(data, DecisionKeys, other) = w
<1> DEFINE c == CorrelationKeys[n]
           d == DecisionKeys[k]
           data == Fields(c, d, i, w)
<1>1. DOMAIN CorrelationKeys = 1..2 /\ DOMAIN DecisionKeys = 1..4
  BY DEF CorrelationKeys, DecisionKeys
<1>2. \A m \in 1..2 : CorrelationKeys[m] = c <=> m = n
  BY DEF CorrelationKeys
<1>3. \A m \in 1..4 : DecisionKeys[m] = d <=> m = k
  BY DEF DecisionKeys
<1>4. \A m \in 1..2, l \in 1..4 : CorrelationKeys[m] # DecisionKeys[l]
  BY DEF CorrelationKeys, DecisionKeys
<1>5. DOMAIN data = {c, d} /\ data[c] = i /\ data[d] = w
  BY <1>4 DEF Fields
<1>6. {m \in DOMAIN CorrelationKeys : CorrelationKeys[m] \in DOMAIN data} = {n}
  BY <1>1, <1>2, <1>4, <1>5
<1>7. {m \in DOMAIN DecisionKeys : DecisionKeys[m] \in DOMAIN data} = {k}
  BY <1>1, <1>3, <1>4, <1>5
<1>8. (CHOOSE m \in {n} : \A l \in {n} : m <= l) = n
      /\ (CHOOSE m \in {k} : \A l \in {k} : m <= l) = k
  OBVIOUS
<1> HIDE DEF data, c, d
<1>9. FirstOf(data, CorrelationKeys, other) = i
  BY <1>5, <1>6, <1>8 DEF FirstOf, c
<1>10. FirstOf(data, DecisionKeys, other) = w
  BY <1>5, <1>7, <1>8 DEF FirstOf, d
<1> QED
  BY <1>9, <1>10 DEF data, c, d

(* However DingTalk wraps it, a press is read as the press it is.           *)
LEMMA CardReads ==
  ASSUME NEW i \in Ask, NEW text \in {"yes", "no"}, NEW read \in Readings[i][text]
  PROVE  /\ read.correlation = i
         /\ read.decision = IF text = "yes" THEN "confirm" ELSE "cancel"
<1> DEFINE word == Button(text)
<1>1. word \in {"confirm", "cancel"} /\ (word = "confirm" <=> text = "yes")
  BY DEF Button
<1>2. PICK track \in Ask : \E frame \in CardFrames(i, track, word) : read = CardRead(frame)
  BY DEF Readings
<1>3. PICK frame \in CardFrames(i, track, word) : read = CardRead(frame)
  BY <1>2
<1>4. CASE frame = Card(i, Nothing, Nothing, [value |-> word], Nothing)
  <2>1. frame.track = i /\ DOMAIN Data(frame) = {"value"} /\ Data(frame)["value"] = word
    BY <1>4 DEF Card, Data, Merged, Nothing
  <2>2. FirstOf(Data(frame), CorrelationKeys, frame.track) = i
    <3>1. {m \in DOMAIN CorrelationKeys : CorrelationKeys[m] \in DOMAIN Data(frame)} = {}
      BY <2>1 DEF CorrelationKeys
    <3> QED
      BY <2>1, <3>1 DEF FirstOf
  <2>3. FirstOf(Data(frame), DecisionKeys, "nothing") = word
    <3>1. {m \in DOMAIN DecisionKeys : DecisionKeys[m] \in DOMAIN Data(frame)} = {4}
          /\ DecisionKeys[4] = "value"
      BY <2>1 DEF DecisionKeys
    <3>2. (CHOOSE m \in {4} : \A l \in {4} : m <= l) = 4
      OBVIOUS
    <3> QED
      BY <2>1, <3>1, <3>2 DEF FirstOf
  <2> QED
    BY <1>1, <1>3, <2>2, <2>3 DEF CardRead, CardDecision, Data
<1>5. CASE frame # Card(i, Nothing, Nothing, [value |-> word], Nothing)
  <2> DEFINE other == CHOOSE w \in {"confirm", "cancel"} : w # word
  <2>1. PICK n \in 1..2, k \in 1..4 : \E rest :
          /\ rest = Nothing \/ rest = Fields(CorrelationKeys[n], DecisionKeys[k], track, other)
          /\ frame \in Wrapped(track, Fields(CorrelationKeys[n], DecisionKeys[k], i, word), rest)
    <3> DEFINE either(c, d) == Wrapped(track, Fields(c, d, i, word), Nothing)
                 \cup Wrapped(track, Fields(c, d, i, word), Fields(c, d, track, other))
    <3>1. frame \in UNION {either(CorrelationKeys[n], DecisionKeys[k]) : n \in 1..2, k \in 1..4}
      BY <1>5 DEF CardFrames
    <3> HIDE DEF either
    <3>2. PICK n \in 1..2, k \in 1..4 : frame \in either(CorrelationKeys[n], DecisionKeys[k])
      BY <3>1
    <3> USE DEF either
    <3>3. \/ frame \in Wrapped(track, Fields(CorrelationKeys[n], DecisionKeys[k], i, word),
                              Nothing)
          \/ frame \in Wrapped(track, Fields(CorrelationKeys[n], DecisionKeys[k], i, word),
                              Fields(CorrelationKeys[n], DecisionKeys[k], track, other))
      BY <3>2
    <3> QED
      BY <3>3
  <2>2. Data(frame) = Fields(CorrelationKeys[n], DecisionKeys[k], i, word)
    BY <2>1, WrappedData
  <2>3. FirstOf(Data(frame), CorrelationKeys, frame.track) = i
        /\ FirstOf(Data(frame), DecisionKeys, "nothing") = word
    BY <2>2, FirstOfFields
  <2> QED
    BY <1>1, <1>3, <2>3 DEF CardRead, CardDecision, Data
<1> QED
  BY <1>4, <1>5

-----------------------------------------------------------------------------
(* Dispatch takes steps of Turn.                                           *)

(* A token or its lack rules out one of the ways to resolve.               *)
LEMMA ResolvedLess == \A req : Resolved(req) \subseteq Resolutions(req, mode)
  BY DEF Resolved

(* The more a requirement can resolve to, the more its capability can.      *)
LEMMA OutcomesGrow ==
  ASSUME NEW n \in Nat, NEW less, NEW more, DOMAIN less = 1..n, DOMAIN more = 1..n,
         \A i \in 1..n : less[i] \subseteq more[i]
  PROVE  Outcomes(less) \subseteq Outcomes(more)
<1>1. \A i \in 1..n : \A j \in 1..(i - 1) : j \in 1..n
  OBVIOUS
<1>2. ASSUME NEW o \in {"needs consent", "denied", "error"}, NEW i \in 1..n,
             o \in less[i], \A j \in 1..(i - 1) : "granted" \in less[j]
      PROVE  o \in Outcomes(more)
  BY <1>1, <1>2 DEF Outcomes
<1>3. ASSUME \A i \in 1..n : "granted" \in less[i] PROVE "granted" \in Outcomes(more)
  BY <1>3 DEF Outcomes
<1> QED
  BY <1>2, <1>3 DEF Outcomes

(* Where nothing can be asked of the user, every requirement is granted.    *)
LEMMA NothingAsked ==
  ASSUME NEW n \in Nat, NEW resolved, DOMAIN resolved = 1..n,
         Outcomes(resolved) = {"granted"}
  PROVE  \A i \in 1..n : "granted" \in resolved[i] /\ "needs consent" \notin resolved[i]
<1>1. "granted" \in Outcomes(resolved) /\ "needs consent" \notin Outcomes(resolved)
  OBVIOUS
<1>2. \A i \in 1..n : "granted" \in resolved[i]
  BY <1>1 DEF Outcomes
<1>3. \A i \in 1..n : \A j \in 1..(i - 1) : j \in 1..n
  OBVIOUS
<1>4. ASSUME NEW i \in 1..n, "needs consent" \in resolved[i]
      PROVE  "needs consent" \in Outcomes(resolved)
  BY <1>2, <1>3, <1>4 DEF Outcomes
<1> QED
  BY <1>1, <1>2, <1>4

(* A capability is granted for certain if each of its requirements is.      *)
LEMMA AllGranted ==
  ASSUME NEW n \in Nat, NEW resolved, DOMAIN resolved = 1..n,
         \A i \in 1..n : resolved[i] = {"granted"}
  PROVE  Outcomes(resolved) = {"granted"}
<1>1. \A o \in {"needs consent", "denied", "error"} : \A i \in 1..n : o \notin resolved[i]
  OBVIOUS
<1>2. \A i \in 1..n : "granted" \in resolved[i]
  OBVIOUS
<1> QED
  BY <1>1, <1>2 DEF Outcomes

(* Then the tokens make no difference.                                      *)
LEMMA OutcomesGranted ==
  ASSUME NEW cap \in Capability, mode \in Mode,
         Outcomes([i \in DOMAIN cap.requires |-> Resolutions(cap.requires[i], mode)]) = {"granted"}
  PROVE  Outcomes([i \in DOMAIN cap.requires |-> Resolved(cap.requires[i])]) = {"granted"}
<1>1. cap.requires \in Seq(Requirement)
  BY DEF Capability
<1> PICK n \in Nat : DOMAIN cap.requires = 1..n
  BY <1>1
<1>2. \A i \in 1..n : cap.requires[i] \in Requirement
  BY <1>1
<1>3. \A i \in 1..n : /\ "granted" \in Resolutions(cap.requires[i], mode)
                      /\ "needs consent" \notin Resolutions(cap.requires[i], mode)
  <2> DEFINE open == [i \in DOMAIN cap.requires |-> Resolutions(cap.requires[i], mode)]
  <2>1. DOMAIN open = 1..n /\ Outcomes(open) = {"granted"}
    OBVIOUS
  <2> HIDE DEF open
  <2>2. \A i \in 1..n : "granted" \in open[i] /\ "needs consent" \notin open[i]
    BY <2>1, NothingAsked
  <2> QED
    BY <2>2 DEF open
<1>4. \A i \in 1..n : cap.requires[i].behalf = "nobody"
  BY <1>2, <1>3 DEF Resolutions
<1>5. \A i \in 1..n : Resolved(cap.requires[i]) = {"granted"}
  BY <1>4 DEF Resolved, Resolutions, OnBehalf
<1> DEFINE resolved == [i \in DOMAIN cap.requires |-> Resolved(cap.requires[i])]
<1>6. DOMAIN resolved = 1..n /\ \A i \in 1..n : resolved[i] = {"granted"}
  BY <1>5
<1> HIDE DEF resolved
<1>7. Outcomes(resolved) = {"granted"}
  BY <1>6, AllGranted
<1> QED
  BY <1>7 DEF resolved

(* Knowing the tokens only narrows down what credentials come to.           *)
LEMMA TokensMatter ==
  ASSUME TypeOK, NEW cap \in offered \cup AfterApproval(actor)
  PROVE  /\ ByToken[cap] \subseteq AnyToken[cap]
         /\ AnyToken[cap] = {"granted"} => ByToken[cap] = {"granted"}
<1>1. cap \in Capability /\ mode \in Mode
  BY VisibleAllowed DEF TypeOK, AfterApproval
<1>2. cap.requires \in Seq(Requirement)
  BY <1>1 DEF Capability
<1>3. Len(cap.requires) \in Nat /\ DOMAIN cap.requires = 1..Len(cap.requires)
  BY <1>2
<1>4. ByToken[cap] \subseteq AnyToken[cap]
  BY <1>3, ResolvedLess, OutcomesGrow DEF ByToken, AnyToken
<1>5. AnyToken[cap] = {"granted"} => ByToken[cap] = {"granted"}
  BY <1>1, OutcomesGranted DEF ByToken, AnyToken
<1> QED
  BY <1>4, <1>5

(* So a call that looks at the tokens is one of Turn.                       *)
LEMMA CallByToken ==
  ASSUME TypeOK, Call(ByToken)
  PROVE  Call(AnyToken)
<1>1. \A cap \in offered : ByToken[cap] \subseteq AnyToken[cap]
  BY TokensMatter
<1> QED
  BY <1>1 DEF Call

(* And so is an approved call.                                              *)
LEMMA RunByToken ==
  ASSUME TypeOK, NEW i \in Ask, RunApproved(i, ByToken)
  PROVE  RunApproved(i, AnyToken)
<1>1. \A cap \in AfterApproval(actor) :
        /\ ByToken[cap] \subseteq AnyToken[cap]
        /\ AnyToken[cap] = {"granted"} => ByToken[cap] = {"granted"}
  BY TokensMatter
<1> QED
  BY <1>1 DEF RunApproved

(* A message, whatever it says, is one of three things for the session.     *)
LEMMA ChatSteps ==
  ASSUME NEW u \in User, NEW frame, Chat(u, frame)
  PROVE  Message(u) \/ Aside(u) \/ Connect(u)
  BY DEF Chat, HandleCommand, ConnectTo

(* All that happens but clicks.                                             *)
Unclicked ==
  \/ \E u \in User : Message(u) \/ Aside(u) \/ Connect(u) \/ Publish(u)
  \/ TurnStep
  \/ \E i \in Ask : Consent(i) \/ Cancel(i) \/ RunApproved(i, AnyToken)
  \/ UNCHANGED vars

(* Every step is a press of a button or leaves the buttons alone.           *)
LEMMA OtherSteps ==
  ASSUME TypeOK, [DispatchNext]_all
  PROVE  \/ Unclicked /\ UNCHANGED pressed
         \/ \E u \in User : \E i \in Ask : \E text \in {"yes", "no"} : Press(i, u, text)
<1> USE DEF Unclicked
<1>1. CASE Serve
  BY <1>1, CallByToken DEF Serve, TurnStep
<1>2. ASSUME NEW u \in User, NEW frame \in Texts, Chat(u, frame)
      PROVE  Unclicked /\ UNCHANGED pressed
  <2>1. UNCHANGED pressed
    BY <1>2 DEF Chat
  <2> QED
    BY <1>2, <2>1, ChatSteps
<1>3. ASSUME NEW u \in User, Publish(u) PROVE Unclicked
  BY <1>3
<1>4. ASSUME NEW i \in Ask, Authorize(i) PROVE Unclicked /\ UNCHANGED pressed
  BY <1>4 DEF Authorize
<1>5. ASSUME NEW i \in Ask, Cancel(i) \/ RunApproved(i, ByToken) PROVE Unclicked
  BY <1>5, RunByToken
<1>6. ASSUME NEW s \in Service, Refused(s) PROVE Unclicked /\ UNCHANGED pressed
  BY <1>6 DEF Refused
<1> QED
  BY <1>1, <1>2, <1>3, <1>4, <1>5, <1>6 DEF DispatchNext, all

(* A press that is not refused is the click it is meant to be.              *)
LEMMA PressClicks ==
  ASSUME NEW i \in Ask, NEW u \in User, NEW text \in {"yes", "no"}, Press(i, u, text)
  PROVE  \/ UNCHANGED vars
         \/ question[i].responder = u /\ Click(i, text = "yes")
<1>1. PICK read \in Readings[i][text] :
        IF /\ read.decision # "invalid" /\ status[read.correlation] = "pending"
           /\ question[read.correlation].kind = "confirm"
           /\ question[read.correlation].responder = u
        THEN Click(read.correlation, read.decision = "confirm")
        ELSE UNCHANGED vars
  BY DEF Press
<1>2. read.correlation = i
      /\ read.decision = IF text = "yes" THEN "confirm" ELSE "cancel"
  BY CardReads
<1>3. (read.decision = "confirm") = (text = "yes")
  BY <1>2
<1> QED
  BY <1>1, <1>2, <1>3

(* Every step is a step of Turn.                                            *)
LEMMA DispatchSteps == TypeOK /\ [DispatchNext]_all => [Next]_vars
<1> SUFFICES ASSUME TypeOK, [DispatchNext]_all PROVE [Next]_vars
    OBVIOUS
<1>1. Unclicked => [Next]_vars
  BY DEF Unclicked, Next
<1>2. ASSUME NEW u \in User, NEW i \in Ask, NEW text \in {"yes", "no"}, Press(i, u, text)
      PROVE  [Next]_vars
  BY <1>2, PressClicks DEF Next
<1> QED
  BY <1>1, <1>2, OtherSteps

(* Commands, cards and tokens leave the turns of a session those of Turn.   *)
THEOREM DispatchTurns == DispatchSpec => Spec
<1>1. DispatchInit => Init
  BY DEF DispatchInit
<1>2. IInv /\ [DispatchNext]_all => [Next]_vars
  BY DispatchSteps DEF IInv
<1> QED
  BY <1>1, <1>2, InvInit, InvStep, PTL DEF DispatchSpec, Spec

-----------------------------------------------------------------------------
(* Cards are decided as they are pressed.                                  *)

Decided == {"approved", "rejected"}

(* Creating an interaction decides none.                                    *)
LEMMA CreateDecides ==
  ASSUME TypeOK, NEW i \in Ask, NEW before, NEW asked, Create(i, before, asked),
         before \in [Ask -> Statuses],
         NEW j \in Ask, before[j] \in Decided => before[j] = status[j]
  PROVE  status'[j] \in Decided => status'[j] = status[j]
  BY DEF Create, Decided

(* Nothing but a click approves or rejects.                                 *)
LEMMA OnlyClicks ==
  ASSUME TypeOK, Unclicked, NEW j \in Ask
  PROVE  status'[j] \in Decided => status'[j] = status[j]
<1> USE DEF Decided
<1>1. ASSUME NEW u \in User, Message(u) \/ Aside(u)
      PROVE  status'[j] \in Decided => status'[j] = status[j]
  BY <1>1 DEF Message, Aside, CancelAll
<1>2. ASSUME NEW u \in User, Connect(u)
      PROVE  status'[j] \in Decided => status'[j] = status[j]
  <2> DEFINE before == [k \in Ask |-> IF k \in Pending THEN "cancelled" ELSE status[k]]
  <2>1. PICK i \in Ask : Create(i, before, [kind |-> "connect", responder |-> u])
    BY <1>2 DEF Connect
  <2>2. before \in [Ask -> Statuses] /\ (before[j] \in Decided => before[j] = status[j])
    BY DEF TypeOK, Statuses
  <2> HIDE DEF before
  <2> QED
    BY <2>1, <2>2, CreateDecides
<1>3. ASSUME NEW cap, NEW kind, NEW source, NEW details, Suspend(cap, kind, source, details)
      PROVE  status'[j] \in Decided => status'[j] = status[j]
  <2>1. PICK i \in Ask : Create(i, status, [kind |-> kind, use |-> Head(calls), asked |-> cap,
                       source |-> source, details |-> details, responder |-> actor])
    BY <1>3 DEF Suspend
  <2> QED
    BY <2>1, CreateDecides DEF TypeOK
<1>4. CASE Call(AnyToken)
  BY <1>3, <1>4 DEF Call, Execute, askVars
<1>5. CASE Send
  BY <1>5 DEF Send
<1>6. ASSUME NEW i \in Ask, Consent(i) \/ Cancel(i)
      PROVE  status'[j] \in Decided => status'[j] = status[j]
  BY <1>6 DEF Consent, Cancel, CancelAll, TypeOK
<1>7. CASE UNCHANGED status
  BY <1>7
<1> QED
  BY <1>1, <1>2, <1>4, <1>5, <1>6, <1>7
     DEF Unclicked, TurnStep, Publish, Reply, UseTools, RunApproved, askVars, vars

PressedType == pressed \in [Ask -> SUBSET {"yes", "no"}]

DecidedInv == PressedType /\ DecidedAsPressed

(* A press decides its card as it was pressed.                              *)
LEMMA PressStep ==
  ASSUME TypeOK, DecidedInv, NEW i \in Ask, NEW u \in User, NEW text \in {"yes", "no"},
         Press(i, u, text)
  PROVE  DecidedInv'
<1>1. PressedType' /\ \A j \in Ask : pressed[j] \subseteq pressed'[j]
  BY DEF Press, DecidedInv, PressedType
<1>2. CASE UNCHANGED vars
  BY <1>1, <1>2 DEF DecidedInv, DecidedAsPressed, vars, askVars
<1>3. CASE question[i].responder = u /\ Click(i, text = "yes")
  <2>1. text \in pressed'[i]
    BY <1>3 DEF Press, DecidedInv, PressedType
  <2>2. status' = [status EXCEPT ![i] = IF text = "yes" THEN "approved" ELSE "rejected"]
    BY <1>3 DEF Click
  <2> QED
    BY <1>1, <2>1, <2>2 DEF DecidedInv, DecidedAsPressed, TypeOK
<1> QED
  BY <1>2, <1>3, PressClicks

(* No step decides a card otherwise.                                        *)
LEMMA DecidedInvStep == TypeOK /\ DecidedInv /\ [DispatchNext]_all => DecidedInv'
<1> SUFFICES ASSUME TypeOK, DecidedInv, [DispatchNext]_all PROVE DecidedInv'
    OBVIOUS
<1>1. ASSUME NEW u \in User, NEW i \in Ask, NEW text \in {"yes", "no"}, Press(i, u, text)
      PROVE  DecidedInv'
  BY <1>1, PressStep
<1>2. CASE Unclicked /\ UNCHANGED pressed
  BY <1>2, OnlyClicks DEF DecidedInv, PressedType, DecidedAsPressed, Decided
<1> QED
  BY <1>1, <1>2, OtherSteps

(* At first no card is decided.                                             *)
LEMMA DecidedInvInit == DispatchInit => DecidedInv
  BY DEF DispatchInit, Init, DecidedInv, PressedType, DecidedAsPressed

(* A card is approved only after its responder pressed its yes, rejected   *)
(* only after the no, however DingTalk wraps the presses.                   *)
THEOREM CardsAreReadRight == DispatchSpec => []DecidedAsPressed
<1>1. DispatchInit => Init
  BY DEF DispatchInit
<1>2. IInv /\ DecidedInv /\ [DispatchNext]_all => IInv' /\ DecidedInv'
  BY InvStep, DispatchSteps, DecidedInvStep DEF IInv
<1>3. DecidedInv => DecidedAsPressed
  BY DEF DecidedInv
<1> QED
  BY <1>1, <1>2, <1>3, InvInit, DecidedInvInit, PTL DEF DispatchSpec

-----------------------------------------------------------------------------
(* What /connect connects.                                                 *)

Needed(cap, s) == UNION {cap.requires[i].scopes : i \in
  {j \in DOMAIN cap.requires : cap.requires[j].service = s /\ cap.requires[j].behalf = "actor"}}

(* The token of s, once it has these scopes, covers what caps need of s.    *)
Suffices(scopes, caps, s) ==
  scopes # NoToken /\ \A cap \in caps : Needed(cap, s) \subseteq scopes

ConnectInv ==
  /\ DOMAIN granted = Service /\ DOMAIN connected = Service /\ DOMAIN link = Ask
  /\ \A s \in Service : connected[s] # {} => Suffices(granted[s], connected[s], s)
  /\ \A i \in Ask : link[i] # NoLink /\ link[i].for # {} =>
       Suffices(link[i].scopes, link[i].for, link[i].service)

(* At first nothing is connected.                                           *)
LEMMA ConnectInvInit == DispatchInit => ConnectInv
  BY DEF DispatchInit, ConnectInv, NoLink

(* What /connect asks for is enough for every capability of the service.    *)
LEMMA ServingScopes ==
  ASSUME TypeOK, NEW u \in User, NEW s \in Service
  PROVE  /\ ScopesOf(Serving(u, s), s) \in SUBSET Scope
         /\ Suffices(ScopesOf(Serving(u, s), s), Serving(u, s), s)
<1>1. Serving(u, s) \subseteq Capability
  BY VisibleAllowed DEF Serving
<1>2. \A cap \in Capability : \A i \in DOMAIN cap.requires : cap.requires[i] \in Requirement
  BY DEF Capability
<1>3. ScopesOf(Serving(u, s), s) = UNION {Needed(cap, s) : cap \in Serving(u, s)}
  BY DEF ScopesOf, Needed
<1>4. \A cap \in Capability : Needed(cap, s) \subseteq Scope
  BY <1>2 DEF Needed, Requirement
<1> QED
  BY <1>1, <1>3, <1>4, DispatchAssumption DEF Suffices

(* A token that is gone is promised to nobody.                              *)
LEMMA ForgetStep ==
  ASSUME ConnectInv, NEW s \in Service, Forget(s)
  PROVE  ConnectInv'
  BY DEF Forget, ConnectInv

(* What /connect says or sends is enough.                                   *)
LEMMA ConnectToStep ==
  ASSUME TypeOK, ConnectInv, NEW u \in User, NEW s \in Service, ConnectTo(u, s)
  PROVE  ConnectInv'
<1> DEFINE caps == Serving(u, s)
           scopes == ScopesOf(caps, s)
<1>1. scopes \in SUBSET Scope /\ Suffices(scopes, caps, s)
  BY ServingScopes
<1> HIDE DEF caps, scopes
<1>2. CASE UNCHANGED vault
  BY <1>2 DEF vault, ConnectInv
<1>3. CASE Covers(s, scopes) /\ connected' = [connected EXCEPT ![s] = caps] /\ UNCHANGED <<granted, link>>
  <2>1. Suffices(granted[s], caps, s)
    BY <1>1, <1>3 DEF Covers, Suffices
  <2> QED
    BY <1>3, <2>1 DEF ConnectInv
<1>4. CASE LinkCreated([service |-> s, scopes |-> scopes, for |-> caps])
           /\ UNCHANGED <<granted, connected>>
  BY <1>1, <1>4 DEF LinkCreated, ConnectInv
<1> QED
  BY <1>2, <1>3, <1>4 DEF ConnectTo, caps, scopes

(* A link brings the token that it was sent for.                            *)
LEMMA AuthorizeStep ==
  ASSUME ConnectInv, NEW i \in Ask, Authorize(i)
  PROVE  ConnectInv'
<1>1. link[i] # NoLink /\ link' = [link EXCEPT ![i] = NoLink]
      /\ granted' = [granted EXCEPT ![link[i].service] = link[i].scopes]
      /\ connected' = [connected EXCEPT ![link[i].service] = link[i].for]
  BY DEF Authorize
<1>2. \A s \in Service : connected'[s] # {} => Suffices(granted'[s], connected'[s], s)
  BY <1>1 DEF ConnectInv
<1> QED
  BY <1>1, <1>2 DEF ConnectInv

(* The link of a single call promises nothing.                              *)
LEMMA ServeStep ==
  ASSUME ConnectInv, Serve
  PROVE  ConnectInv'
<1>1. \A cap : ConsentLink(cap).for = {}
  BY DEF ConsentLink
<1>2. DOMAIN link' = Ask /\ \A i \in Ask : link'[i] = link[i] \/ link'[i].for = {}
  <2>1. CASE UNCHANGED link
    BY <2>1 DEF ConnectInv
  <2>2. CASE Call(ByToken)
    BY <1>1, <2>1, <2>2 DEF Serve
  <2> QED
    BY <2>1, <2>2 DEF Serve
<1> QED
  BY <1>2 DEF Serve, ConnectInv

(* No step takes scopes from what is connected.                             *)
LEMMA ConnectInvStep == TypeOK /\ ConnectInv /\ [DispatchNext]_all => ConnectInv'
<1> SUFFICES ASSUME TypeOK, ConnectInv, [DispatchNext]_all PROVE ConnectInv'
    OBVIOUS
<1>1. ASSUME NEW u \in User, NEW frame \in Texts, Chat(u, frame) PROVE ConnectInv'
  <2>1. CASE UNCHANGED vault
    BY <2>1 DEF vault, ConnectInv
  <2> QED
    BY <1>1, <2>1, ConnectToStep, ForgetStep DEF Chat, HandleCommand
<1>2. ASSUME NEW s \in Service, Refused(s) PROVE ConnectInv'
  BY <1>2, ForgetStep DEF Refused
<1>3. CASE UNCHANGED vault
  BY <1>3 DEF vault, ConnectInv
<1> QED
  BY <1>1, <1>2, <1>3, ServeStep, AuthorizeStep DEF DispatchNext, Press, all

(* What /connect has connected needs no further consent, until the token   *)
(* is given up or replaced.                                                 *)
THEOREM ConnectingSuffices == DispatchSpec => []ConnectCovers
<1>1. DispatchInit => Init
  BY DEF DispatchInit
<1>2. IInv /\ ConnectInv /\ [DispatchNext]_all => IInv' /\ ConnectInv'
  BY InvStep, DispatchSteps, ConnectInvStep DEF IInv
<1>3. ConnectInv => ConnectCovers
  <2> SUFFICES ASSUME ConnectInv, NEW s \in Service, NEW cap \in connected[s],
                      NEW i \in DOMAIN cap.requires, OnBehalf(cap.requires[i]),
                      cap.requires[i].service = s
               PROVE  Covers(s, cap.requires[i].scopes)
      BY DEF ConnectCovers
  <2>1. Suffices(granted[s], connected[s], s)
    BY DEF ConnectInv
  <2>2. cap.requires[i].scopes \subseteq Needed(cap, s)
    BY DEF Needed, OnBehalf
  <2> QED
    BY <2>1, <2>2 DEF Suffices, Covers
<1> QED
  BY <1>1, <1>2, <1>3, InvInit, ConnectInvInit, PTL DEF DispatchSpec

(* And so do the theorems about turns.                                      *)
THEOREM DispatchedCalls ==
  DispatchSpec => []RanAsApproved /\ []RanWhereAllowed /\ []RunsAreFinal
  BY DispatchTurns, CallsAreApproved, CallsAreAllowed, ApprovalsRunOnce, PTL

-----------------------------------------------------------------------------
(* Types.  A link belongs to the requirement that made the turn suspend,   *)
(* which is found again by the name of the call: the tools of a turn have  *)
(* one capability of each name.                                            *)

(* Registering over a tier keeps one of each name.                          *)
LEMMA OverByName ==
  ASSUME NEW tier, NEW below, OneOfEachName(tier), OneOfEachName(below)
  PROVE  OneOfEachName(Over(tier, below))
  BY DEF OneOfEachName, Over

(* So a session sees one capability of each name.                           *)
LEMMA VisibleByName ==
  ASSUME TypeOK, NEW u \in User
  PROVE  OneOfEachName(Visible(u))
<1> DEFINE tier == IF mode = "dm" THEN {ForTier(cap, u) : cap \in own[u]} ELSE {}
<1>1. OneOfEachName(own[u]) /\ own[u] \subseteq Capability
  BY TiersAssumption, TurnAssumption DEF TypeOK
<1>2. \A cap \in own[u] : ForTier(cap, u).name = cap.name
  BY <1>1 DEF ForTier, Capability
<1>3. OneOfEachName(tier)
  BY <1>1, <1>2 DEF OneOfEachName
<1> HIDE DEF tier
<1>4. OneOfEachName(Over(tier, Over(Base, System)))
  BY <1>3, OverByName, TiersAssumption
<1>5. Visible(u) \subseteq Over(tier, Over(Base, System))
  BY DEF Visible, Registered, tier
<1> QED
  BY <1>4, <1>5 DEF OneOfEachName

OfferedByName == OneOfEachName(offered)

(* What a turn is offered is what the session saw when it began.            *)
LEMMA OfferedByNameStep == TypeOK /\ OfferedByName /\ [Next]_vars => OfferedByName'
<1> SUFFICES ASSUME TypeOK, OfferedByName, [Next]_vars PROVE OfferedByName'
    OBVIOUS
<1>1. EndTurn => OfferedByName'
  BY DEF EndTurn, OfferedByName, OneOfEachName
<1>2. offered' = offered => OfferedByName'
  BY DEF OfferedByName
<1>3. ASSUME NEW u \in User, Message(u) PROVE OfferedByName'
  BY <1>3, VisibleByName DEF Message, OfferedByName
<1>4. CASE Call(AnyToken)
  <2>1. Continue => EndTurn \/ offered' = offered
    BY DEF Continue
  <2>2. \A cap, kind, source, details :
          Suspend(cap, kind, source, details) => EndTurn \/ offered' = offered
    BY DEF Suspend
  <2> QED
    BY <1>1, <1>2, <1>4, <2>1, <2>2 DEF Call, Execute
<1> QED
  BY <1>1, <1>2, <1>3, <1>4
     DEF Next, TurnStep, Aside, Connect, Publish, Reply, UseTools, Send, Click, Consent,
         Cancel, RunApproved, turnVars, vars

(* A call that suspends to ask for consent is one of a capability that has  *)
(* a requirement without a token.                                           *)
LEMMA ConsentIsNeeded ==
  ASSUME TypeOK, Call(ByToken), NEW i \in Ask, status[i] = "none",
         status'[i] = "pending", question'[i].kind = "consent"
  PROVE  \E cap \in offered : cap.name = Head(calls).name /\ "needs consent" \in ByToken[cap]
<1> USE DEF askVars
<1>1. status' # status
  BY DEF TypeOK
<1>2. PICK cap \in offered : cap.name = Head(calls).name
                             /\ \E outcome \in ByToken[cap] : Execute(cap, outcome)
  BY <1>1 DEF Call
<1>3. PICK outcome \in ByToken[cap] : Execute(cap, outcome)
  BY <1>2
<1>4. ASSUME NEW source, NEW details, Suspend(cap, "confirm", source, details) PROVE FALSE
  <2>1. PICK j \in Ask : Create(j, status, [kind |-> "confirm", use |-> Head(calls), asked |-> cap,
                       source |-> source, details |-> details, responder |-> actor])
    BY <1>4 DEF Suspend
  <2>2. i = j
    BY <2>1 DEF Create, TypeOK
  <2> QED
    BY <2>1, <2>2 DEF Create, TypeOK
<1> QED
  BY <1>1, <1>2, <1>3, <1>4 DEF Execute

(* With the tokens there are, a requirement is granted or asks for consent. *)
LEMMA TokenDecides ==
  ASSUME NEW req, "needs consent" \in Resolved(req)
  PROVE  "granted" \notin Resolved(req)
  BY DEF Resolved, Resolutions, OnBehalf

(* The elements of a sequence.                                              *)
LEMMA Elements ==
  ASSUME NEW S, NEW q \in Seq(S)
  PROVE  \A k \in DOMAIN q : k \in Nat \ {0} /\ q[k] \in S
  OBVIOUS

(* What does not come after n or at n comes before it.                      *)
LEMMA Earlier == \A n \in Nat : \A j \in Nat \ {0} : ~(n <= j) => j \in 1..(n - 1)
  OBVIOUS

(* The link is for a service, and for scopes of it.                         *)
LEMMA LinkOfRequirement ==
  ASSUME TypeOK, NEW cap \in offered, "needs consent" \in ByToken[cap]
  PROVE  ConsentLink(cap).service \in Service /\ ConsentLink(cap).scopes \subseteq Scope
<1>1. cap.requires \in Seq(Requirement)
  BY DEF TypeOK, Capability
<1>2. \A k \in DOMAIN cap.requires : k \in Nat \ {0} /\ cap.requires[k] \in Requirement
  BY <1>1, Elements
<1> DEFINE open == {k \in DOMAIN cap.requires : "needs consent" \in Resolved(cap.requires[k])}
           resolved == [k \in DOMAIN cap.requires |-> Resolved(cap.requires[k])]
<1>3. "needs consent" \in Outcomes(resolved)
  BY DEF ByToken
<1>4. PICK n \in DOMAIN cap.requires :
        "needs consent" \in resolved[n] /\ \A j \in 1..(n - 1) : "granted" \in resolved[j]
  BY <1>3 DEF Outcomes
<1>5. n \in open
  BY <1>4
<1>6. \A j \in open : n <= j
  <2> SUFFICES ASSUME NEW j \in open, ~(n <= j) PROVE FALSE
      OBVIOUS
  <2>1. j \in DOMAIN cap.requires
    OBVIOUS
  <2>2. "granted" \in Resolved(cap.requires[j])
    <3>1. j \in 1..(n - 1)
      BY <1>2, <2>1, Earlier
    <3> QED
      BY <1>4, <2>1, <3>1
  <2>3. "needs consent" \in Resolved(cap.requires[j])
    OBVIOUS
  <2> QED
    BY <2>2, <2>3, TokenDecides
<1> HIDE DEF open
<1>7. (CHOOSE k \in open : \A j \in open : k <= j) \in open
  BY <1>5, <1>6
<1>8. \A k \in open : cap.requires[k] \in Requirement
  BY <1>2 DEF open
<1> QED
  BY <1>7, <1>8 DEF ConsentLink, Requirement, open

LinkTypes == \A i \in Ask : link[i] = NoLink \/
  (link[i].service \in Service /\ link[i].scopes \subseteq Scope /\ link[i].for \subseteq Capability)

TokenTypes ==
  /\ DOMAIN granted = Service /\ DOMAIN connected = Service /\ DOMAIN link = Ask
  /\ \A s \in Service : granted[s] = NoToken \/ granted[s] \subseteq Scope
  /\ \A s \in Service : connected[s] \subseteq Capability
  /\ LinkTypes

(* At first there are no tokens and no links.                               *)
LEMMA TokenTypesInit == DispatchInit => TokenTypes
  BY DEF DispatchInit, TokenTypes, LinkTypes

(* A token that is gone has no scopes.                                      *)
LEMMA ForgetTypes ==
  ASSUME TokenTypes, NEW s \in Service, Forget(s)
  PROVE  TokenTypes'
  BY DEF Forget, TokenTypes, LinkTypes

(* What /connect promises is of capabilities, what it asks for of scopes.   *)
LEMMA ConnectToTypes ==
  ASSUME TypeOK, TokenTypes, NEW u \in User, NEW s \in Service, ConnectTo(u, s)
  PROVE  TokenTypes'
<1> DEFINE caps == Serving(u, s)
           scopes == ScopesOf(caps, s)
<1>1. scopes \subseteq Scope /\ caps \subseteq Capability
  BY ServingScopes, VisibleAllowed DEF Serving
<1> HIDE DEF caps, scopes
<1>2. CASE UNCHANGED vault
  BY <1>2 DEF vault, TokenTypes, LinkTypes
<1>3. CASE connected' = [connected EXCEPT ![s] = caps] /\ UNCHANGED <<granted, link>>
  BY <1>1, <1>3 DEF TokenTypes, LinkTypes
<1>4. CASE LinkCreated([service |-> s, scopes |-> scopes, for |-> caps])
           /\ UNCHANGED <<granted, connected>>
  BY <1>1, <1>4 DEF LinkCreated, TokenTypes, LinkTypes
<1> QED
  BY <1>2, <1>3, <1>4 DEF ConnectTo, caps, scopes

(* A link that is used brings a token of its service and its scopes.        *)
LEMMA AuthorizeTypes ==
  ASSUME TokenTypes, NEW i \in Ask, Authorize(i)
  PROVE  TokenTypes'
<1>1. link[i] # NoLink /\ link' = [link EXCEPT ![i] = NoLink]
      /\ granted' = [granted EXCEPT ![link[i].service] = link[i].scopes]
      /\ connected' = [connected EXCEPT ![link[i].service] = link[i].for]
  BY DEF Authorize
<1> QED
  BY <1>1 DEF TokenTypes, LinkTypes

(* The link of a call is for the requirement that the call has to ask for.  *)
LEMMA ServeTypes ==
  ASSUME TypeOK, OfferedByName, TokenTypes, Serve
  PROVE  TokenTypes'
<1>1. UNCHANGED <<granted, connected>>
  BY DEF Serve
<1>2. CASE UNCHANGED link
  BY <1>1, <1>2 DEF TokenTypes, LinkTypes
<1>3. CASE Call(ByToken) /\ ~UNCHANGED link
  <2> DEFINE new == ConsentLink(CHOOSE cap \in offered : cap.name = Head(calls).name)
  <2>1. link' = [i \in Ask |->
          IF status[i] = "none" /\ status'[i] = "pending" /\ question'[i].kind = "consent"
          THEN new ELSE link[i]]
    BY <1>3 DEF Serve
  <2>2. ASSUME NEW i \in Ask, status[i] = "none", status'[i] = "pending",
               question'[i].kind = "consent"
        PROVE  new.service \in Service /\ new.scopes \subseteq Scope /\ new.for = {}
    <3>1. PICK cap \in offered : cap.name = Head(calls).name /\ "needs consent" \in ByToken[cap]
      BY <1>3, <2>2, ConsentIsNeeded
    <3>2. (CHOOSE other \in offered : other.name = Head(calls).name) = cap
      BY <3>1 DEF OfferedByName, OneOfEachName
    <3>3. new = ConsentLink(cap)
      BY <3>2
    <3> QED
      BY <3>1, <3>3, LinkOfRequirement DEF ConsentLink
  <2> HIDE DEF new
  <2> QED
    BY <1>1, <2>1, <2>2 DEF TokenTypes, LinkTypes
<1> QED
  BY <1>2, <1>3 DEF Serve

(* Every step keeps the types of tokens and links.                          *)
LEMMA TokenTypesStep ==
  TypeOK /\ OfferedByName /\ TokenTypes /\ [DispatchNext]_all => TokenTypes'
<1> SUFFICES ASSUME TypeOK, OfferedByName, TokenTypes, [DispatchNext]_all PROVE TokenTypes'
    OBVIOUS
<1>1. ASSUME NEW u \in User, NEW frame \in Texts, Chat(u, frame) PROVE TokenTypes'
  <2>1. CASE UNCHANGED vault
    BY <2>1 DEF vault, TokenTypes, LinkTypes
  <2> QED
    BY <1>1, <2>1, ConnectToTypes, ForgetTypes DEF Chat, HandleCommand
<1>2. ASSUME NEW s \in Service, Refused(s) PROVE TokenTypes'
  BY <1>2, ForgetTypes DEF Refused
<1>3. CASE UNCHANGED vault
  BY <1>3 DEF vault, TokenTypes, LinkTypes
<1> QED
  BY <1>1, <1>2, <1>3, ServeTypes, AuthorizeTypes DEF DispatchNext, Press, all

(* Every variable of a session with commands, cards and tokens keeps its    *)
(* type: tokens and links speak of known services and scopes.               *)
THEOREM DispatchTypes == DispatchSpec => []DispatchTypeOK
<1> DEFINE Inv == IInv /\ OfferedByName /\ TokenTypes /\ DecidedInv
<1>1. DispatchInit => Inv
  BY InvInit, TokenTypesInit, DecidedInvInit
     DEF DispatchInit, Init, OfferedByName, OneOfEachName
<1>2. Inv /\ [DispatchNext]_all => Inv'
  BY InvStep, DispatchSteps, OfferedByNameStep, TokenTypesStep, DecidedInvStep DEF IInv
<1>3. Inv => DispatchTypeOK
  BY DEF IInv, TokenTypes, LinkTypes, DecidedInv, PressedType, DispatchTypeOK
<1> QED
  BY <1>1, <1>2, <1>3, PTL DEF DispatchSpec
=============================================================================
