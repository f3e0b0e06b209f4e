------------------------------ MODULE Dispatch ------------------------------
(***************************************************************************)
(* Inbound frames, slash commands and turns over one session, with the     *)
(* user tokens that /connect and consent links obtain: Turn, where what a  *)
(* requirement comes to is left open, composed with Inbound and with a     *)
(* vault that decides it.                                                  *)
(*                                                                         *)
(* A frame that cannot be read is refused and changes nothing.  The inbox  *)
(* (Delivery) makes the handling of a message one step here.  Grants       *)
(* models refresh and nonces step by step; here a link works until it is   *)
(* used, and a token can be lost at any time.                              *)
(***************************************************************************)
EXTENDS Turn, Inbound

CONSTANTS
  Texts,     \* the messages that are sent
  Held,      \* roles that the context of the session gives a user
  NoToken

ASSUME DispatchAssumption ==
  /\ Texts \subseteq Frame /\ Held \in [User -> SUBSET Role]
  /\ \A scopes \in SUBSET Scope : scopes # NoToken
  /\ Service \subseteq Word

VARIABLES
  granted,    \* the scopes of the token that the partner has of a service
  link,       \* the consent link of an interaction, while it works
  connected,  \* history: capabilities that /connect said are covered
  pressed     \* history: buttons that responders have pressed on a card

vault == <<granted, link, connected>>
all == <<vars, vault, pressed>>

NoLink == [for |-> {}, service |-> NoToken]

DispatchInit ==
  /\ Init
  /\ granted = [s \in Service |-> NoToken]
  /\ link = [i \in Ask |-> NoLink]
  /\ connected = [s \in Service |-> {}]
  /\ pressed = [i \in Ask |-> {}]

-----------------------------------------------------------------------------
(* Tokens                                                                  *)

OnBehalf(req) == req.behalf = "actor" /\ mode = "dm"

Covers(s, scopes) == granted[s] # NoToken /\ scopes \subseteq granted[s]

(* Authorizer.resolve with the token there is.                              *)
Resolved(req) == Resolutions(req, mode) \
  (IF ~OnBehalf(req) THEN {}
   ELSE IF Covers(req.service, req.scopes) THEN {"needs consent"} ELSE {"granted"})

ByToken == [cap \in offered \cup AfterApproval(actor) |->
  Outcomes([i \in DOMAIN cap.requires |-> Resolved(cap.requires[i])])]

(* The link of the requirement that is the first without a token.           *)
ConsentLink(cap) ==
  LET open  == {i \in DOMAIN cap.requires : "needs consent" \in Resolved(cap.requires[i])}
      first == cap.requires[CHOOSE i \in open : \A j \in open : i <= j]
  IN  [service |-> first.service, scopes |-> first.scopes, for |-> {}]

(* An interaction that asks for consent comes with its link.                *)
LinkCreated(new) == link' =
  [i \in Ask |-> IF status[i] = "none" /\ status'[i] = "pending" THEN new ELSE link[i]]

-----------------------------------------------------------------------------
(* Messages                                                                *)

Serving(u, s) == {cap \in Visible(u) : \E i \in DOMAIN cap.requires :
  cap.requires[i].behalf = "actor" /\ cap.requires[i].service = s}

(* Mutant of ScopesOf: what one of the capabilities requires is asked for.  *)
ScopesOfOne(caps, s) ==
  IF caps = {} THEN {}
  ELSE LET cap == CHOOSE cap \in caps : TRUE
       IN  UNION {cap.requires[i].scopes : i \in
                    {j \in DOMAIN cap.requires : cap.requires[j].service = s}}

(* _obo_requirement_for_service                                             *)
ScopesOf(caps, s) == UNION {UNION {cap.requires[i].scopes : i \in
  {j \in DOMAIN cap.requires : /\ cap.requires[j].service = s
                               /\ cap.requires[j].behalf = "actor"}} : cap \in caps}

(* /connect: it knows no such service, or fails; it is covered; or a link   *)
(* for what all capabilities of the service require is sent.                *)
ConnectTo(u, s) ==
  LET caps == Serving(u, s) scopes == ScopesOf(caps, s) IN
  \/ Aside(u) /\ UNCHANGED vault
  \/ /\ scopes # {} /\ Covers(s, scopes)
     /\ Aside(u)
     /\ connected' = [connected EXCEPT ![s] = caps]
     /\ UNCHANGED <<granted, link>>
  \/ /\ scopes # {} /\ ~Covers(s, scopes)
     /\ Connect(u)
     /\ LinkCreated([service |-> s, scopes |-> scopes, for |-> caps])
     /\ UNCHANGED <<granted, connected>>

(* The token is gone, and with it what /connect said of it.                 *)
Forget(s) ==
  /\ granted' = [granted EXCEPT ![s] = NoToken]
  /\ connected' = [connected EXCEPT ![s] = {}]
  /\ UNCHANGED link

(* A command whose handler runs; one that fails may have done nothing.      *)
HandleCommand(u, name, args) ==
  \/ name = "/connect" /\ args[1] \in Service /\ ConnectTo(u, args[1])
  \/ name = "/disconnect" /\ args[1] \in Service /\ Aside(u) /\ Forget(args[1])
  \/ Aside(u) /\ UNCHANGED vault

Chat(u, frame) ==
  LET words == CommandText(frame.words, mode) IN
  /\ UNCHANGED pressed
  /\ \/ Normalized(frame) = "other" /\ Aside(u) /\ UNCHANGED vault
     \/ Normalized(frame) = "text" /\ words = <<>> /\ Message(u) /\ UNCHANGED vault
     \/ /\ Normalized(frame) = "text" /\ words # <<>>
        /\ IF Verdict(words, mode, Held[u]) = "runs"
           THEN HandleCommand(u, Lower[words[1]], [n \in 1..(Len(words) - 1) |-> Lower[words[n + 1]]])
           ELSE Aside(u) /\ UNCHANGED vault

(* The turn of a message; a call that has to ask for consent sends a link.  *)
Serve ==
  /\ \/ (Reply \/ UseTools \/ Send) /\ UNCHANGED link
     \/ /\ Call(ByToken)
        /\ link' = [i \in Ask |->
             IF status[i] = "none" /\ status'[i] = "pending" /\ question'[i].kind = "consent"
             THEN ConsentLink(CHOOSE cap \in offered : cap.name = Head(calls).name)
             ELSE link[i]]
  /\ UNCHANGED <<granted, connected, pressed>>

-----------------------------------------------------------------------------
(* Answers                                                                 *)

(* What a press of a button of a card may be read as.                       *)
Readings == [i \in Ask |-> [text \in {"yes", "no"} |->
  {CardRead(frame) : frame \in UNION {CardFrames(i, track, Button(text)) : track \in Ask}}]]

(* u presses a button of card i: the frame is read, and it decides the     *)
(* interaction it names if that waits for u; else it is refused.            *)
Press(i, u, text) ==
  /\ status[i] # "none" /\ question[i].kind = "confirm"
  /\ pressed' = IF u = question[i].responder
                THEN [pressed EXCEPT ![i] = @ \cup {text}] ELSE pressed
  /\ \E read \in Readings[i][text] : LET j == read.correlation IN
       IF /\ read.decision # "invalid"
          /\ status[j] = "pending" /\ question[j].kind = "confirm"
          /\ question[j].responder = u
       THEN Click(j, read.decision = "confirm")
       ELSE UNCHANGED vars
  /\ UNCHANGED vault

(* The partner consents at link i: the token of the service is replaced by *)
(* one for the scopes of the link, whatever became of the interaction,     *)
(* which an on_authorized hook may resume.                                  *)
Authorize(i) ==
  /\ link[i] # NoLink
  /\ granted' = [granted EXCEPT ![link[i].service] = link[i].scopes]
  /\ connected' = [connected EXCEPT ![link[i].service] = link[i].for]
  /\ link' = [link EXCEPT ![i] = NoLink]
  /\ Consent(i) \/ UNCHANGED vars
  /\ UNCHANGED pressed

(* DingTalk refuses to refresh the token.                                   *)
Refused(s) ==
  /\ granted[s] # NoToken
  /\ Forget(s)
  /\ UNCHANGED <<vars, pressed>>

DispatchNext ==
  \/ Serve
  \/ \E u \in User : \/ \E frame \in Texts : Chat(u, frame)
                     \/ \E i \in Ask, text \in {"yes", "no"} : Press(i, u, text)
                     \/ Publish(u) /\ UNCHANGED <<vault, pressed>>
  \/ \E i \in Ask : \/ Authorize(i)
                    \/ Cancel(i) /\ UNCHANGED <<vault, pressed>>
                    \/ RunApproved(i, ByToken) /\ UNCHANGED <<vault, pressed>>
  \/ \E s \in Service : Refused(s)

DispatchSpec == DispatchInit /\ [][DispatchNext]_all

(* The model and the tools answer or time out.                              *)
FairDispatch == DispatchSpec /\ WF_all(Serve)

-----------------------------------------------------------------------------
(* Properties                                                              *)

DispatchTypeOK ==
  /\ TypeOK
  /\ DOMAIN granted = Service
  /\ \A s \in Service : granted[s] = NoToken \/ granted[s] \subseteq Scope
  /\ \A i \in Ask : link[i] = NoLink \/
       (link[i].service \in Service /\ link[i].scopes \subseteq Scope)
  /\ \A s \in Service : connected[s] \subseteq Capability
  /\ pressed \in [Ask -> SUBSET {"yes", "no"}]

(* Once /connect has said that a service is connected, or the link it sent *)
(* was used, no capability that the user had then asks for consent, until  *)
(* the token is given up, refused or replaced through another link.         *)
(* (_obo_requirement_for_service, Authorizer.resolve)                       *)
ConnectCovers == \A s \in Service : \A cap \in connected[s] :
  \A i \in DOMAIN cap.requires :
    LET req == cap.requires[i] IN
    OnBehalf(req) /\ req.service = s => Covers(s, req.scopes)

(* A card is decided as its responder has pressed it, however DingTalk     *)
(* wraps the press.  (_confirm_card_button, normalize_card_callback)        *)
DecidedAsPressed == \A i \in Ask :
  /\ status[i] = "approved" => "yes" \in pressed[i]
  /\ status[i] = "rejected" => "no" \in pressed[i]

=============================================================================
