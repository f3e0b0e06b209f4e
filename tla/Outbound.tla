------------------------------ MODULE Outbound ------------------------------
(***************************************************************************)
(* Replies to a conversation, which pass the outbound rate limiter one at  *)
(* a time and go out through the session webhook while it is valid and     *)
(* through the DingTalk client when it is not, beside the other operations *)
(* of that client (cards, contacts, calendars), which no limiter delays.   *)
(***************************************************************************)
EXTENDS Client, Integers

CONSTANTS
  Reply,      \* the operations that are replies; the others go straight out
  Odd,        \* replies whose conversation type is neither 1 nor 2
  Webhook,    \* how long the session webhook of a reply is valid, 0: none
  Interval    \* min_interval_seconds, positive

ASSUME OutboundAssumption ==
  /\ Reply \subseteq Op /\ Odd \subseteq Reply
  /\ Webhook \in [Reply -> Nat]
  /\ Interval \in Nat \ {0}

VARIABLES
  stage,     \* where a reply is: "new", "waiting", "sleeping", "through"
  line,      \* the limiter's lock: its holder, then who waits for it
  cool,      \* _next_allowed_at minus the clock, not below -Interval
  since,     \* history: time since a reply was let through, up to Interval
  webhook    \* time the session webhook of a reply is still valid

limiterVars == <<stage, line, cool, since, webhook>>
vars == <<clientVars, limiterVars>>

LimiterTypeOK ==
  /\ stage \in [Reply -> {"new", "waiting", "sleeping", "through"}]
  /\ line \in Seq(Reply) /\ cool \in (-Interval)..Interval
  /\ since \in 0..Interval /\ webhook \in [Reply -> Nat]

OutboundTypeOK == TypeOK /\ LimiterTypeOK

OutboundInit ==
  /\ Init
  /\ stage = [r \in Reply |-> "new"] /\ line = <<>>
  /\ cool = -Interval /\ since = Interval /\ webhook = Webhook

(* reply(): the webhook if it is valid now, else the API for a one-to-one  *)
(* or group chat, else ValueError.                                         *)
Dispatched(r) ==
  IF webhook[r] > 0 THEN BeginBare(r)
  ELSE IF r \in Odd THEN Invalid(r) ELSE Begin(r)

(* Mutant of NextAllowed: the clock is not read again after the sleep.      *)
NextAllowedStale(rest) == cool + Interval

(* _next_allowed_at once a reply is let through, read from a clock that is *)
(* read again after the sleep.                                             *)
NextAllowed(rest) == (IF cool > 0 THEN cool ELSE 0) + Interval

(* The end of OutboundRateLimiter.wait, which the reply follows at once;   *)
(* rest is the lock as it is left.                                         *)
LetThrough(r, rest) ==
  /\ stage' = [stage EXCEPT ![r] = "through"]
  /\ cool' = NextAllowed(rest)
  /\ line' = rest
  /\ since' = 0
  /\ Dispatched(r)
  /\ UNCHANGED webhook

Hold(r, what, rest) ==
  /\ stage' = [stage EXCEPT ![r] = what]
  /\ line' = rest
  /\ UNCHANGED <<cool, since, webhook, clientVars>>

(* A reply comes to the limiter.                                            *)
Arrive(r) ==
  /\ stage[r] = "new"
  /\ IF line # <<>> THEN Hold(r, "waiting", Append(line, r))
     ELSE IF cool > 0 THEN Hold(r, "sleeping", <<r>>)
     ELSE LetThrough(r, <<>>)

(* It gets the lock it waited for.                                          *)
Turn(r) ==
  /\ stage[r] = "waiting" /\ Head(line) = r
  /\ IF cool > 0 THEN Hold(r, "sleeping", line) ELSE LetThrough(r, Tail(line))

(* The sleep ends, when it is over or later.                                *)
Wake(r) ==
  /\ stage[r] = "sleeping" /\ cool <= 0
  /\ LetThrough(r, Tail(line))

OutboundTick ==
  /\ Tick
  /\ cool' = IF cool > -Interval THEN cool - 1 ELSE cool
  /\ since' = IF since < Interval THEN since + 1 ELSE since
  /\ webhook' = [r \in Reply |-> Less(webhook[r])]
  /\ UNCHANGED <<stage, line>>

ReplyStep(r) == Arrive(r) \/ Turn(r) \/ Wake(r)

(* The other operations carry the application token or a user's own.        *)
Start(c) == Begin(c) \/ BeginBare(c)

OutboundNext ==
  \/ \E r \in Reply : ReplyStep(r)
  \/ \E c \in Op \ Reply : Start(c) /\ UNCHANGED limiterVars
  \/ \E c \in Op : Step(c) /\ UNCHANGED limiterVars
  \/ OutboundTick
  \/ \E t \in Token : Revoke(t) /\ UNCHANGED limiterVars

OutboundSpec == OutboundInit /\ [][OutboundNext]_vars

(* HTTP requests end by their timeout, the event loop runs every task that *)
(* is ready, and time passes.                                              *)
FairSpec ==
  /\ OutboundSpec
  /\ WF_vars(OutboundTick)
  /\ WF_vars(\E c \in Op : Step(c) /\ UNCHANGED limiterVars)
  /\ WF_vars(\E r \in Reply : Turn(r) \/ Wake(r))

-----------------------------------------------------------------------------
(* Properties                                                              *)

(* The limiter lets replies through at least Interval apart, also when a   *)
(* sleep ends late.  A reply through a webhook goes out at that moment.    *)
Spaced == [][\A r \in Reply :
  stage[r] # "through" /\ stage'[r] = "through" => since >= Interval]_vars

(* Every reply and every other operation that is under way ends, whatever  *)
(* other operations have failed while they held the token lock.            *)
UnderWay(c) ==
  /\ pc[c] \notin {"done", "failed"}
  /\ pc[c] # "idle" \/ (c \in Reply /\ stage[c] # "new")
OperationsEnd == []<>(\A c \in Op : ~UnderWay(c))

=============================================================================
