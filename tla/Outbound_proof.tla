--------------------------- MODULE Outbound_proof ---------------------------
(***************************************************************************)
(* Proofs about replies: the limiter spaces them, and with the limiter in  *)
(* front of it the client is still the client of module Client.            *)
(***************************************************************************)
EXTENDS Outbound, Client_proof

(* The time since the last reply makes up for what is left to wait.         *)
Cooling ==
  /\ cool \in -Interval..Interval /\ since \in 0..Interval
  /\ since = Interval \/ since + cool >= Interval

(* At first nothing is left to wait.                                        *)
LEMMA CoolingInit == OutboundInit => Cooling
  BY OutboundAssumption DEF OutboundInit, Cooling

(* Only a reply that has nothing left to wait for is let through.           *)
LEMMA LetThroughCool ==
  ASSUME Cooling, NEW r \in Reply, ReplyStep(r)
  PROVE  \/ cool <= 0 /\ \E rest \in {<<>>, Tail(line)} : LetThrough(r, rest)
         \/ \E what \in {"waiting", "sleeping"}, rest \in {line, <<r>>, Append(line, r)} :
              Hold(r, what, rest)
<1> USE OutboundAssumption
<1>0. cool > 0 \/ cool <= 0
  BY DEF Cooling
<1>1. CASE Arrive(r)
  BY <1>0, <1>1 DEF Arrive
<1>2. CASE Turn(r)
  BY <1>0, <1>2 DEF Turn
<1>3. CASE Wake(r)
  BY <1>3 DEF Wake
<1> QED
  BY <1>1, <1>2, <1>3 DEF ReplyStep

(* Late sleeps and other operations keep the balance.                       *)
LEMMA CoolingStep == Cooling /\ [OutboundNext]_vars => Cooling'
<1> SUFFICES ASSUME Cooling, [OutboundNext]_vars PROVE Cooling'
    OBVIOUS
<1> USE OutboundAssumption DEF Cooling
<1>1. ASSUME NEW r \in Reply, ReplyStep(r) PROVE Cooling'
  BY <1>1, LetThroughCool DEF LetThrough, NextAllowed, Hold
<1>2. CASE OutboundTick
  BY <1>2 DEF OutboundTick
<1>3. CASE UNCHANGED <<cool, since>>
  BY <1>3
<1> QED
  BY <1>1, <1>2, <1>3 DEF OutboundNext, limiterVars, vars

(* Replies are let through at least Interval apart, also when a sleep ends *)
(* late, whatever the replies and their webhooks.                           *)
THEOREM RepliesAreSpaced == OutboundSpec => Spaced
<1>1. Cooling /\ [OutboundNext]_vars =>
        \A r \in Reply : stage[r] # "through" /\ stage'[r] = "through" => since >= Interval
  <2> SUFFICES ASSUME Cooling, [OutboundNext]_vars, NEW r \in Reply,
                      stage[r] # "through", stage'[r] = "through"
               PROVE  since >= Interval
      OBVIOUS
  <2>1. ~OutboundTick /\ stage' # stage
    BY DEF OutboundTick
  <2> PICK q \in Reply : ReplyStep(q)
    BY <2>1 DEF OutboundNext, limiterVars, vars
  <2>2. CASE cool <= 0
    BY <2>2, OutboundAssumption DEF Cooling
  <2>3. CASE \E what \in {"waiting", "sleeping"} : stage' = [stage EXCEPT ![q] = what]
    BY <2>3
  <2> QED
    BY <2>2, <2>3, LetThroughCool DEF Hold
<1> QED
  BY <1>1, CoolingInit, CoolingStep, PTL DEF OutboundSpec, Spaced

(* Behind the limiter the client takes only steps of its own, so all that  *)
(* is proved of it holds of every reply.                                    *)
THEOREM ClientBehindLimiter == OutboundSpec => Spec
<1>1. OutboundInit => Init
  BY DEF OutboundInit
<1>2. Cooling /\ [OutboundNext]_vars => [Next]_clientVars
  <2> SUFFICES ASSUME Cooling, [OutboundNext]_vars PROVE [Next]_clientVars
      OBVIOUS
  <2>1. ASSUME NEW r \in Reply, ReplyStep(r) PROVE [Next]_clientVars
    <3>1. r \in Op
      BY OutboundAssumption
    <3>2. ASSUME NEW rest, LetThrough(r, rest) PROVE Next
      BY <3>1, <3>2 DEF LetThrough, Dispatched, Next
    <3> QED
      BY <2>1, <3>2, LetThroughCool DEF Hold
  <2>2. CASE \E c \in Op \ Reply : Start(c)
    BY <2>2 DEF Start, Next
  <2>3. CASE \E c \in Op : Step(c)
    BY <2>3 DEF Next
  <2>4. CASE OutboundTick \/ (\E t \in Token : Revoke(t)) \/ UNCHANGED vars
    BY <2>4 DEF OutboundTick, Next, vars
  <2> QED
    BY <2>1, <2>2, <2>3, <2>4 DEF OutboundNext
<1> QED
  BY <1>1, <1>2, CoolingInit, CoolingStep, PTL DEF OutboundSpec, Spec

(* So what the client promises it promises to replies too.                  *)
THEOREM RepliesKeepTokens ==
  OutboundSpec => []RetryFresh /\ []AppliedOnce /\ FreshKept /\ SendsLive
  BY ClientBehindLimiter, RetriesAreFresh, CallsApplyOnce, FreshTokensStay,
     SendsAreLive, PTL

-----------------------------------------------------------------------------
(* The types, and the line before the limiter.                              *)

(* Who sleeps is the first of the line, who waits is in it.                 *)
LinedUp ==
  /\ \A r \in Reply : stage[r] = "sleeping" => line # <<>> /\ line[1] = r
  /\ \A r \in Reply : stage[r] = "waiting" => \E n \in DOMAIN line : line[n] = r

LimiterInv == Cooling /\ LimiterTypeOK /\ LinedUp

(* At first nobody is in the line.                                          *)
LEMMA LimiterInit == OutboundInit => LimiterInv
  BY CoolingInit, OutboundAssumption
     DEF OutboundInit, LimiterInv, Cooling, LimiterTypeOK, LinedUp

(* A line that loses its first member keeps the others.                     *)
LEMMA TailLine ==
  ASSUME NEW s \in Seq(Reply), s # <<>>
  PROVE  /\ Head(s) = s[1] /\ Tail(s) \in Seq(Reply)
         /\ \A n \in DOMAIN s : s[n] # s[1] => \E m \in DOMAIN Tail(s) : Tail(s)[m] = s[n]
<1>1. Head(s) = s[1] /\ Tail(s) \in Seq(Reply)
  OBVIOUS
<1>2. ASSUME NEW n \in DOMAIN s, s[n] # s[1]
      PROVE  n - 1 \in DOMAIN Tail(s) /\ Tail(s)[n - 1] = s[n]
  BY <1>2
<1> QED
  BY <1>1, <1>2

(* Who joins a line is its last member.                                     *)
LEMMA AppendLine ==
  ASSUME NEW s \in Seq(Reply), NEW r \in Reply
  PROVE  /\ Append(s, r) \in Seq(Reply) /\ Append(s, r) # <<>>
         /\ \E n \in DOMAIN Append(s, r) : Append(s, r)[n] = r
         /\ \A n \in DOMAIN s : n \in DOMAIN Append(s, r) /\ Append(s, r)[n] = s[n]
         /\ s # <<>> => Append(s, r)[1] = s[1]
<1>1. Len(s) + 1 \in DOMAIN Append(s, r) /\ Append(s, r)[Len(s) + 1] = r
  OBVIOUS
<1> QED
  BY <1>1

(* The first of the line leaves it, or somebody who found it empty passes.  *)
LEMMA LeaveStep ==
  ASSUME LimiterInv, NEW r \in Reply, NEW rest, LetThrough(r, rest), cool <= 0,
         \/ line = <<>> /\ rest = <<>>
         \/ line # <<>> /\ line[1] = r /\ rest = Tail(line)
  PROVE  LimiterTypeOK' /\ LinedUp'
<1> USE DEF LimiterInv, LimiterTypeOK
<1>1. /\ stage' = [stage EXCEPT ![r] = "through"] /\ line' = rest /\ UNCHANGED webhook
      /\ since' = 0 /\ cool' = Interval
  BY OutboundAssumption DEF LetThrough, NextAllowed
<1>2. line' \in Seq(Reply) /\ cool' \in (-Interval)..Interval /\ since' \in 0..Interval
  <2>1. line' \in Seq(Reply)
    BY <1>1, TailLine
  <2>2. Interval \in (-Interval)..Interval /\ 0 \in 0..Interval
    BY OutboundAssumption
  <2> QED
    BY <1>1, <2>1, <2>2
<1>3. stage'[r] = "through" /\ \A q \in Reply : q # r => stage'[q] = stage[q]
  BY <1>1
<1>4. \A q \in Reply : stage'[q] # "sleeping"
  BY <1>3 DEF LinedUp
<1>5. ASSUME NEW q \in Reply, stage'[q] = "waiting" PROVE \E n \in DOMAIN line' : line'[n] = q
  <2>1. q # r /\ stage[q] = "waiting"
    BY <1>3, <1>5
  <2>2. PICK n \in DOMAIN line : line[n] = q
    BY <2>1 DEF LinedUp
  <2>3. line # <<>> /\ line[1] # line[n]
    BY <2>1, <2>2
  <2>4. line' = Tail(line) /\ line \in Seq(Reply)
    BY <1>1, <2>3
  <2> QED
    BY <2>2, <2>3, <2>4, TailLine
<1> QED
  BY <1>1, <1>2, <1>4, <1>5 DEF LinedUp

(* The line stays in order.                                                 *)
LEMMA LimiterStep == LimiterInv /\ [OutboundNext]_vars => LimiterInv'
<1> SUFFICES ASSUME LimiterInv, [OutboundNext]_vars
             PROVE  LimiterTypeOK' /\ LinedUp'
    BY CoolingStep DEF LimiterInv
<1> USE DEF LimiterInv
<1>0. cool > 0 \/ cool <= 0
  BY OutboundAssumption DEF Cooling
<1>1. ASSUME NEW r \in Reply, Arrive(r) PROVE LimiterTypeOK' /\ LinedUp'
  <2>1. CASE line # <<>>
    <3>1. /\ stage' = [stage EXCEPT ![r] = "waiting"] /\ line' = Append(line, r)
          /\ UNCHANGED <<cool, since, webhook>>
      BY <1>1, <2>1 DEF Arrive, Hold
    <3>2. line \in Seq(Reply)
      BY DEF LimiterTypeOK
    <3>3. LimiterTypeOK'
      BY <3>1, <3>2, AppendLine DEF LimiterTypeOK
    <3>4. stage'[r] = "waiting" /\ \A q \in Reply : q # r => stage'[q] = stage[q]
      BY <3>1 DEF LimiterTypeOK
    <3>5. line' # <<>> /\ line'[1] = line[1]
      BY <2>1, <3>1, <3>2, AppendLine
    <3> QED
      BY <3>1, <3>2, <3>3, <3>4, <3>5, AppendLine DEF LinedUp
  <2>2. CASE line = <<>> /\ cool > 0
    <3>1. /\ stage' = [stage EXCEPT ![r] = "sleeping"] /\ line' = <<r>>
          /\ UNCHANGED <<cool, since, webhook>>
      BY <1>1, <2>2 DEF Arrive, Hold
    <3>2. \A q \in Reply : q # r => stage'[q] = stage[q] /\ stage[q] \notin {"sleeping", "waiting"}
      BY <2>2, <3>1 DEF LimiterTypeOK, LinedUp
    <3>3. line' \in Seq(Reply) /\ line' # <<>> /\ line'[1] = r
      BY <3>1
    <3>4. stage'[r] = "sleeping"
      BY <3>1 DEF LimiterTypeOK
    <3> QED
      BY <3>1, <3>2, <3>3, <3>4 DEF LimiterTypeOK, LinedUp
  <2>3. CASE line = <<>> /\ cool <= 0
    BY <1>1, <2>3, LeaveStep DEF Arrive, Cooling
  <2> QED
    BY <1>0, <2>1, <2>2, <2>3
<1>2. ASSUME NEW r \in Reply, Turn(r) PROVE LimiterTypeOK' /\ LinedUp'
  <2>1. stage[r] = "waiting" /\ line # <<>> /\ line[1] = r
    <3>1. stage[r] = "waiting" /\ Head(line) = r
      BY <1>2 DEF Turn
    <3>2. line # <<>> /\ line \in Seq(Reply)
      BY <3>1 DEF LinedUp, LimiterTypeOK
    <3> QED
      BY <3>1, <3>2, TailLine
  <2>2. CASE cool > 0
    <3>1. stage' = [stage EXCEPT ![r] = "sleeping"] /\ UNCHANGED <<line, cool, since, webhook>>
      BY <1>2, <2>2 DEF Turn, Hold
    <3> QED
      BY <2>1, <3>1 DEF LimiterTypeOK, LinedUp
  <2>3. CASE cool <= 0
    <3>1. LetThrough(r, Tail(line))
      BY <1>2, <2>3 DEF Turn, Cooling
    <3> QED
      BY <2>1, <2>3, <3>1, LeaveStep
  <2> QED
    BY <1>0, <2>2, <2>3
<1>3. ASSUME NEW r \in Reply, Wake(r) PROVE LimiterTypeOK' /\ LinedUp'
  <2>1. line # <<>> /\ line[1] = r
    BY <1>3 DEF Wake, LinedUp
  <2> QED
    BY <1>3, <2>1, LeaveStep DEF Wake
<1>4. CASE OutboundTick
  <2>1. UNCHANGED <<stage, line>> /\ webhook' = [r \in Reply |-> Less(webhook[r])]
    BY <1>4 DEF OutboundTick
  <2>2. webhook' \in [Reply -> Nat]
    BY <2>1 DEF Less, LimiterTypeOK
  <2>3. Cooling'
    BY CoolingStep
  <2> QED
    BY <2>1, <2>2, <2>3 DEF LimiterTypeOK, LinedUp, Cooling
<1>5. CASE UNCHANGED limiterVars
  BY <1>5 DEF limiterVars, LimiterTypeOK, LinedUp
<1> QED
  BY <1>1, <1>2, <1>3, <1>4, <1>5 DEF OutboundNext, ReplyStep, vars

(* Every variable of client and limiter has its type; whoever waits for    *)
(* the limiter is in its line.                                              *)
THEOREM OutboundTypes == OutboundSpec => []OutboundTypeOK
<1>1. LimiterInv => LimiterTypeOK
  BY DEF LimiterInv
<1>2. TypeOK /\ LimiterTypeOK => OutboundTypeOK
  BY DEF OutboundTypeOK
<1>3. OutboundSpec => []TypeOK
  BY ClientBehindLimiter, ClientTypes, PTL
<1>4. OutboundSpec => []LimiterInv
  BY LimiterInit, LimiterStep, PTL DEF OutboundSpec
<1> QED
  BY <1>1, <1>2, <1>3, <1>4, PTL
=============================================================================
