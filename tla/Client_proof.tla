---------------------------- MODULE Client_proof ----------------------------
(***************************************************************************)
(* Theorems about Client, for any operations, calls, tokens and times.     *)
(*                                                                         *)
(* The token lock carries the argument: an answer is on its way only while *)
(* the operation that asked for it holds the lock and the cache is not     *)
(* fresh, so neither can a fetch overwrite a fresh token nor can a token   *)
(* be dropped while an answer might bring it back.                         *)
(***************************************************************************)
EXTENDS Client, TLAPS

(* A fetch is under way only under the lock and only if it is needed.      *)
FetchHolds == \A c \in Op : pc[c] \in {"asking", "answered"} =>
  owner = c /\ ~Fresh(cached)

(* An answer on its way is the lock holder's.                               *)
AnswerHeld == answer # NoToken => owner # Nobody /\ pc[owner] = "answered"
AnswerThere == \A c \in Op : pc[c] = "answered" => answer # NoToken

(* An operation that waits to drop its token was refused with it.           *)
ClearsRefused == \A c \in Op : pc[c] = "clearing" =>
  refused[c] = token[c] /\ token[c] \in Token

Underway == {"queued", "asking", "answered", "sent"}
OnceMore == \A c \in Op : attempt[c] = 1 => pc[c] \in Underway
Retries(c) == pc[c] \in Underway /\ attempt[c] = 1

(* Neither the cache nor an answer gives a token back that was refused.     *)
Stale(c, t) == t = refused[c] /\ t \notin again[c]
NotBack == \A c \in Op : Retries(c) =>
  /\ refused[c] \in Token
  /\ ~Stale(c, cached)
  /\ answer # NoToken => ~Stale(c, answer.token)
  /\ pc[c] = "sent" => ~Stale(c, token[c])

(* What the client believes a token has left is no more than it has left.   *)
Counted ==
  /\ cached # NoToken => refreshIn <= life[cached] \/ cached \in revoked
  /\ answer # NoToken =>
       answer.expireIn <= life[answer.token] + answer.age \/ answer.token \in revoked

(* What is under way carries a token or is meant to carry none.             *)
Sends == \A c \in Op : pc[c] = "sent" => token[c] \in Token \cup {Bare}

(* An operation that is not over has calls left.                            *)
CallsLeft == \A c \in Op : pc[c] \notin {"done", "failed"} => left[c] > 0

Shape == FetchHolds /\ AnswerHeld /\ AnswerThere /\ ClearsRefused /\ OnceMore
         /\ Sends /\ CallsLeft
IInv == TypeOK /\ Shape /\ NotBack /\ Counted /\ AppliedOnce

Lock == (Op \cup {Nobody}) \X Seq(Op)

(* The token lock has a holder and a queue.                                 *)
LEMMA LockType == TypeOK => TokenLock \in Lock
  BY DEF TypeOK, TokenLock, Lock

(* Releasing and entering a lock leaves a lock.                             *)
LEMMA ReleasedType == \A lock \in Lock : Released(lock) \in Lock
<1> SUFFICES ASSUME NEW h \in Op \cup {Nobody}, NEW q \in Seq(Op)
             PROVE  Released(<<h, q>>) \in Lock
    BY DEF Lock
<1>1. <<>> \in Seq(Op)
  OBVIOUS
<1>2. q # <<>> => Head(q) \in Op /\ Tail(q) \in Seq(Op)
  OBVIOUS
<1> QED
  BY <1>1, <1>2 DEF Lock, Released, Free

(* Whoever enters a lock holds it or waits for it.                          *)
LEMMA EnteredType == \A lock \in Lock, c \in Op : Entered(lock, c) \in Lock
<1> SUFFICES ASSUME NEW h \in Op \cup {Nobody}, NEW q \in Seq(Op), NEW c \in Op
             PROVE  Entered(<<h, q>>, c) \in Lock
    BY DEF Lock
<1>1. Append(q, c) \in Seq(Op)
  OBVIOUS
<1> QED
  BY <1>1 DEF Lock, Entered

(* What taking a token from the cache does, whichever way it goes.          *)
LEMMA SeekEffect ==
  ASSUME TypeOK, NEW c \in Op, NEW t \in Token \cup {NoToken},
         NEW lock \in Lock, Seek(c, t, lock)
  PROVE  /\ owner' \in Op \cup {Nobody} /\ waiters' \in Seq(Op)
         /\ pc' \in [Op -> Phases] /\ token' \in [Op -> Token \cup {Bare, NoToken}]
         /\ \A d \in Op \ {c} : pc'[d] = pc[d] /\ token'[d] = token[d]
         /\ pc'[c] \in {"sent", "asking", "queued"}
         /\ pc'[c] = "sent" => token'[c] = t /\ Fresh(t)
         /\ pc'[c] = "asking" => owner' = c /\ ~Fresh(t)
         /\ lock[1] # Nobody => owner' = lock[1]
<1>1. Entered(lock, c) \in Lock
  BY EnteredType
<1>2. CASE Fresh(t)
  <2>1. t \in Token /\ lock[1] \in Op \cup {Nobody} /\ lock[2] \in Seq(Op)
    BY <1>2 DEF Fresh, Lock
  <2> QED
    BY <1>2, <2>1 DEF Seek, SendWith, SetLock, TypeOK, Phases
<1>3. CASE ~Fresh(t)
  <2>1. /\ owner' = Entered(lock, c)[1] /\ waiters' = Entered(lock, c)[2]
        /\ pc' = [pc EXCEPT ![c] = IF lock[1] = Nobody THEN "asking" ELSE "queued"]
        /\ token' = token
    BY <1>3 DEF Seek, SetLock
  <2>2. owner' \in Op \cup {Nobody} /\ waiters' \in Seq(Op)
    BY <1>1, <2>1 DEF Lock
  <2>3. owner' = IF lock[1] = Nobody THEN c ELSE lock[1]
    BY <2>1 DEF Entered
  <2> QED
    BY <1>3, <2>1, <2>2, <2>3 DEF TypeOK, Phases
<1> QED
  BY <1>2, <1>3

(* Dropping a token and taking the next one.                                *)
LEMMA ClearEffect ==
  ASSUME TypeOK, NEW c \in Op, NEW lock \in Lock, ClearAndRetry(c, lock),
         token[c] \in Token
  PROVE  \E t \in Token \cup {NoToken} :
           /\ t # token[c] /\ t \in {cached, NoToken}
           /\ t = NoToken => cached = token[c] \/ cached = NoToken
           /\ cached' = t
           /\ refreshIn' = IF t = cached THEN refreshIn ELSE 0
           /\ attempt' = [attempt EXCEPT ![c] = 1]
           /\ Seek(c, t, lock)
  BY ClientAssumption DEF ClearAndRetry, StillCached, TypeOK

(* Dropping a token keeps the types of what it changes.                     *)
LEMMA ClearTypes ==
  ASSUME TypeOK, NEW c \in Op, NEW lock \in Lock, ClearAndRetry(c, lock),
         token[c] \in Token
  PROVE  /\ cached' \in Token \cup {NoToken} /\ refreshIn' \in 0..Life
         /\ attempt' \in [Op -> {0, 1}]
         /\ owner' \in Op \cup {Nobody} /\ waiters' \in Seq(Op)
         /\ pc' \in [Op -> Phases] /\ token' \in [Op -> Token \cup {Bare, NoToken}]
<1> PICK t \in Token \cup {NoToken} :
       /\ cached' = t
       /\ refreshIn' = IF t = cached THEN refreshIn ELSE 0
       /\ attempt' = [attempt EXCEPT ![c] = 1]
       /\ Seek(c, t, lock)
    BY ClearEffect
<1>1. refreshIn' \in 0..Life /\ attempt' \in [Op -> {0, 1}]
  BY ClientAssumption DEF TypeOK
<1> QED
  BY <1>1, SeekEffect

(* The invariant holds initially.                                           *)
LEMMA InitHolds == Init => IInv
<1> SUFFICES ASSUME Init PROVE IInv
    OBVIOUS
<1> USE ClientAssumption
<1>1. TypeOK
  BY DEF Init, TypeOK, Phases
<1>2. Shape
  BY DEF Init, Shape, FetchHolds, AnswerHeld, AnswerThere, ClearsRefused,
         OnceMore, Sends, CallsLeft
<1>3. NotBack /\ Counted /\ AppliedOnce
  BY DEF Init, NotBack, Retries, Counted, AppliedOnce, Underway
<1> QED
  BY <1>1, <1>2, <1>3 DEF IInv

(* Every step keeps the types.                                             *)
LEMMA TypeStep == TypeOK /\ Shape /\ [Next]_clientVars => TypeOK'
<1> SUFFICES ASSUME TypeOK, Shape, [Next]_clientVars PROVE TypeOK'
    OBVIOUS
<1> USE ClientAssumption
<1>0. TokenLock \in Lock /\ Released(TokenLock) \in Lock
  BY LockType, ReleasedType
<1>1. ASSUME NEW c \in Op, Invalid(c) PROVE TypeOK'
  BY <1>1 DEF Invalid, End, TypeOK, cache, server, Phases
<1>2. ASSUME NEW c \in Op, Begin(c) PROVE TypeOK'
  <2>1. Seek(c, cached, TokenLock) /\ cached \in Token \cup {NoToken}
    BY <1>2 DEF Begin, TypeOK
  <2>2. /\ owner' \in Op \cup {Nobody} /\ waiters' \in Seq(Op)
        /\ pc' \in [Op -> Phases] /\ token' \in [Op -> Token \cup {Bare, NoToken}]
    BY <1>0, <2>1, SeekEffect
  <2> QED
    BY <1>2, <2>2 DEF Begin, TypeOK, server
<1>3. ASSUME NEW c \in Op, BeginBare(c) PROVE TypeOK'
  BY <1>3 DEF BeginBare, SendWith, TypeOK, cache, server, Phases
<1>4. ASSUME NEW c \in Op, Locked(c) PROVE TypeOK'
  <2>1. /\ owner' \in Op \cup {Nobody} /\ waiters' \in Seq(Op)
        /\ pc' \in [Op -> Phases] /\ token' \in [Op -> Token \cup {Bare, NoToken}]
    <3>1. CASE SendWith(c, cached) /\ SetLock(Released(TokenLock))
      <4>1. owner' \in Op \cup {Nobody} /\ waiters' \in Seq(Op)
        BY <1>0, <3>1 DEF SetLock, Lock
      <4> QED
        BY <3>1, <4>1 DEF SendWith, TypeOK, Phases
    <3>2. CASE /\ pc' = [pc EXCEPT ![c] = "asking"]
               /\ UNCHANGED <<token, owner, waiters>>
      BY <3>2 DEF TypeOK, Phases
    <3> QED
      BY <1>4, <3>1, <3>2 DEF Locked
  <2> QED
    BY <1>4, <2>1 DEF Locked, TypeOK, server
<1>5. ASSUME NEW c \in Op, Issue(c) PROVE TypeOK'
  <2> PICK t \in Token :
        /\ life' = [life EXCEPT ![t] = IF t \in issued THEN life[t] ELSE Life]
        /\ answer' = [token |-> t, expireIn |-> life'[t], age |-> 0]
        /\ issued' = issued \cup {t}
        /\ again' = [d \in Op |-> IF refused[d] = NoToken THEN {} ELSE again[d] \cup {t}]
    BY <1>5 DEF Issue
  <2>1. life' \in [Token -> 0..Life] /\ issued' \subseteq Token
    BY DEF TypeOK
  <2>2. answer' \in Answer
    <3>1. life'[t] \in 0..Life /\ 0 \in 0..Latency
      BY <2>1
    <3> QED
      BY <3>1 DEF Answer
  <2>3. again' \in [Op -> SUBSET Token]
    BY DEF TypeOK
  <2> QED
    BY <1>5, <2>1, <2>2, <2>3 DEF Issue, TypeOK, Phases
<1>6. ASSUME NEW c \in Op, Answered(c) PROVE TypeOK'
  <2>1. answer.token \in Token /\ answer.expireIn \in 0..Life
    BY <1>6 DEF Shape, AnswerThere, Answered, TypeOK, Answer
  <2>2. refreshIn' \in 0..Life
    BY <1>6, <2>1 DEF Answered, RefreshAfter
  <2>3. owner' \in Op \cup {Nobody} /\ waiters' \in Seq(Op)
    BY <1>0, <1>6 DEF Answered, SetLock, Lock
  <2> QED
    BY <1>6, <2>1, <2>2, <2>3 DEF Answered, SendWith, TypeOK, server, Phases
<1>7. ASSUME NEW c \in Op, FetchFails(c) PROVE TypeOK'
  <2>1. owner' \in Op \cup {Nobody} /\ waiters' \in Seq(Op)
    BY <1>0, <1>7 DEF FetchFails, SetLock, Lock
  <2> QED
    BY <1>7, <2>1 DEF FetchFails, Forget, End, TypeOK, server, Phases
<1>8. ASSUME NEW c \in Op, Accepted(c) PROVE TypeOK'
  <2>1. left[c] \in Nat /\ left[c] > 0
    BY <1>8 DEF Accepted, Shape, CallsLeft, TypeOK
  <2>2. left' \in [Op -> Nat]
    BY <1>8, <2>1 DEF Accepted, TypeOK
  <2>3. /\ owner' \in Op \cup {Nobody} /\ waiters' \in Seq(Op)
        /\ pc' \in [Op -> Phases] /\ token' \in [Op -> Token \cup {Bare, NoToken}]
    <3>1. CASE Seek(c, cached, TokenLock)
      BY <1>0, <3>1, SeekEffect DEF TypeOK
    <3>2. CASE End(c, "done") /\ UNCHANGED <<owner, waiters>>
      BY <3>2 DEF End, TypeOK, Phases
    <3>3. CASE SendWith(c, Bare) /\ UNCHANGED <<owner, waiters>>
      BY <3>3 DEF SendWith, TypeOK, Phases
    <3> QED
      BY <1>8, <2>1, <3>1, <3>2, <3>3 DEF Accepted
  <2> QED
    BY <1>8, <2>2, <2>3 DEF Accepted, Forget, TypeOK, server
<1>9. ASSUME NEW c \in Op, Failed(c) PROVE TypeOK'
  <2> PICK failure \in Failure :
        /\ \E done \in {0, 1} : carried' = [carried EXCEPT ![c] = @ + done]
        /\ IF TriesAgain(c, failure)
           THEN /\ refused' = [refused EXCEPT ![c] = token[c]]
                /\ IF MustWait(c)
                   THEN /\ pc' = [pc EXCEPT ![c] = "clearing"]
                        /\ SetLock(Entered(TokenLock, c))
                        /\ UNCHANGED <<cached, refreshIn, token, attempt>>
                   ELSE ClearAndRetry(c, TokenLock)
                /\ UNCHANGED again
           ELSE /\ Forget(c) /\ End(c, "failed")
                /\ UNCHANGED <<cached, refreshIn, owner, waiters>>
    BY <1>9 DEF Failed
  <2>1. UNCHANGED <<answer, server, left>> /\ pc[c] = "sent"
    BY <1>9 DEF Failed
  <2>2. carried' \in [Op -> Nat]
    BY DEF TypeOK
  <2>3. CASE ~TriesAgain(c, failure)
    BY <2>1, <2>2, <2>3 DEF Forget, End, TypeOK, server, Phases
  <2>4. CASE TriesAgain(c, failure) /\ MustWait(c)
    <3>1. Entered(TokenLock, c) \in Lock
      BY <1>0, EnteredType
    <3>2. owner' \in Op \cup {Nobody} /\ waiters' \in Seq(Op)
      BY <2>4, <3>1 DEF SetLock, Lock
    <3>3. refused' \in [Op -> Token \cup {NoToken}]
      BY <2>1, <2>4 DEF TriesAgain, Shape, Sends, TypeOK
    <3> QED
      BY <2>1, <2>2, <2>4, <3>2, <3>3 DEF TypeOK, server, Phases
  <2>5. CASE TriesAgain(c, failure) /\ ~MustWait(c)
    <3>1. token[c] \in Token
      BY <2>1, <2>5 DEF TriesAgain, Shape, TypeOK, Sends
    <3>2. refused' \in [Op -> Token \cup {NoToken}]
      BY <2>5, <3>1 DEF TypeOK
    <3> QED
      BY <1>0, <2>1, <2>2, <2>5, <3>1, <3>2, ClearTypes DEF TypeOK, server
  <2> QED
    BY <2>3, <2>4, <2>5
<1>10. ASSUME NEW c \in Op, Clear(c) PROVE TypeOK'
  <2>1. token[c] \in Token /\ ClearAndRetry(c, Released(TokenLock))
    BY <1>10 DEF Clear, Shape, ClearsRefused
  <2> QED
    BY <1>0, <1>10, <2>1, ClearTypes DEF Clear, TypeOK, server
<1>11. CASE Tick
  <2>1. refreshIn' \in 0..Life /\ life' \in [Token -> 0..Life]
    BY <1>11 DEF Tick, TypeOK, Less
  <2>2. answer' \in Answer \cup {NoToken}
    <3>1. CASE answer = NoToken
      BY <1>11, <3>1 DEF Tick
    <3>2. CASE answer # NoToken
      <4>1. answer \in Answer /\ answer' = [answer EXCEPT !.age = @ + 1]
        BY <1>11, <3>2 DEF Tick, TypeOK
      <4>2. answer.age + 1 \in 0..Latency
        BY <1>11, <3>2, <4>1 DEF Tick, Answer
      <4> QED
        BY <4>1, <4>2 DEF Answer
    <3> QED
      BY <3>1, <3>2
  <2> QED
    BY <1>11, <2>1, <2>2 DEF Tick, TypeOK
<1>12. ASSUME NEW t \in Token, Revoke(t) PROVE TypeOK'
  BY <1>12 DEF Revoke, TypeOK, cache
<1>13. CASE UNCHANGED clientVars
  BY <1>13 DEF clientVars, TypeOK
<1> QED
  BY <1>1, <1>2, <1>3, <1>4, <1>5, <1>6, <1>7, <1>8, <1>9, <1>10, <1>11, <1>12,
     <1>13 DEF Next, Step

(* Taking a token from a cache that keeps its content or is empty keeps the *)
(* rest of the invariant, if the lock is what a fetch under way holds, and *)
(* a second attempt finds no answer and not its own token.                 *)
LEMMA SeekKeeps ==
  ASSUME TypeOK, Shape, NotBack, NEW c \in Op, NEW t \in Token \cup {NoToken},
         NEW lock \in Lock, Seek(c, t, lock),
         pc[c] \notin {"asking", "answered"},
         \A d \in Op : pc[d] \in {"asking", "answered"} => lock[1] = d,
         cached' = t, t # NoToken => t = cached /\ refreshIn' = refreshIn,
         answer' = answer,
         \A d \in Op \ {c} : /\ attempt'[d] = attempt[d] /\ refused'[d] = refused[d]
                             /\ again'[d] = again[d] /\ left'[d] = left[d],
         left'[c] > 0,
         attempt'[c] = 1 =>
           refused'[c] \in Token /\ t # refused'[c] /\ answer = NoToken
  PROVE  Shape' /\ NotBack'
<1>1. /\ \A d \in Op \ {c} : pc'[d] = pc[d] /\ token'[d] = token[d]
      /\ pc'[c] \in {"sent", "asking", "queued"}
      /\ pc'[c] = "sent" => token'[c] = t /\ Fresh(t)
      /\ pc'[c] = "asking" => owner' = c /\ ~Fresh(t)
      /\ lock[1] # Nobody => owner' = lock[1]
  BY SeekEffect
<1>2. Fresh(cached)' <=> Fresh(t)
  BY DEF Fresh
<1>3. Fresh(t) => Fresh(cached)
  BY DEF Fresh
<1>4. FetchHolds'
  BY <1>1, <1>2, <1>3, ClientAssumption DEF FetchHolds, Shape
<1>5. AnswerHeld' /\ AnswerThere'
  BY <1>1, ClientAssumption DEF AnswerHeld, AnswerThere, Shape, TypeOK
<1>6. ClearsRefused' /\ OnceMore' /\ CallsLeft'
  BY <1>1 DEF ClearsRefused, OnceMore, CallsLeft, Shape, Underway
<1>7. Sends'
  BY <1>1 DEF Sends, Shape, Fresh
<1>8. NotBack'
  <2> SUFFICES ASSUME NEW d \in Op, Retries(d)'
               PROVE  /\ refused'[d] \in Token
                      /\ ~Stale(d, cached)'
                      /\ answer' # NoToken => ~Stale(d, answer.token)'
                      /\ pc'[d] = "sent" => ~Stale(d, token[d])'
      BY DEF NotBack
  <2>1. CASE d = c
    BY <1>1, <2>1 DEF Retries, Stale
  <2>2. CASE d # c
    <3>1. Retries(d)
      BY <1>1, <2>2 DEF Retries
    <3>2. cached' = cached \/ cached' = NoToken
      OBVIOUS
    <3> QED
      BY <1>1, <2>2, <3>1, <3>2, ClientAssumption DEF NotBack, Stale
  <2> QED
    BY <2>1, <2>2
<1> QED
  BY <1>4, <1>5, <1>6, <1>7, <1>8 DEF Shape

(* Every step keeps the shape of the lock and what second attempts need.    *)
LEMMA ShapeStep ==
  TypeOK /\ Shape /\ NotBack /\ [Next]_clientVars => Shape' /\ NotBack'
<1> SUFFICES ASSUME TypeOK, Shape, NotBack, [Next]_clientVars PROVE Shape' /\ NotBack'
    OBVIOUS
<1> DEFINE Goal == Shape' /\ NotBack'
<1> USE ClientAssumption
<1>0. TokenLock \in Lock /\ Released(TokenLock) \in Lock
  BY LockType, ReleasedType
<1>a. \A d \in Op : pc[d] \in {"asking", "answered"} => TokenLock[1] = d
  BY DEF Shape, FetchHolds, TokenLock
<1>1. ASSUME NEW c \in Op, Invalid(c) PROVE Goal
  BY <1>1 DEF Invalid, End, cache, server, TypeOK, Shape, FetchHolds, AnswerHeld,
       AnswerThere, ClearsRefused, OnceMore, Sends, CallsLeft, Underway, NotBack,
       Retries, Stale, Fresh
<1>2. ASSUME NEW c \in Op, Begin(c) PROVE Goal
  <2>1. /\ Seek(c, cached, TokenLock) /\ pc[c] = "idle"
        /\ UNCHANGED <<cached, refreshIn, answer, attempt, left, refused, again>>
    BY <1>2 DEF Begin
  <2>2. cached \in Token \cup {NoToken} /\ left[c] > 0 /\ attempt[c] # 1
    BY <2>1 DEF TypeOK, Shape, CallsLeft, OnceMore, Underway
  <2> QED
    BY <1>0, <1>a, <2>1, <2>2, SeekKeeps
<1>3. ASSUME NEW c \in Op, BeginBare(c) PROVE Goal
  BY <1>3 DEF BeginBare, SendWith, cache, server, TypeOK, Shape, FetchHolds,
       AnswerHeld, AnswerThere, ClearsRefused, OnceMore, Sends, CallsLeft, Underway,
       NotBack, Retries, Stale, Fresh
<1>4. ASSUME NEW c \in Op, Locked(c) PROVE Goal
  <2>1. /\ pc[c] = "queued" /\ owner = c
        /\ UNCHANGED <<cached, refreshIn, answer, attempt, left, refused, again>>
    BY <1>4 DEF Locked
  <2>2. answer = NoToken /\ \A d \in Op : pc[d] \notin {"asking", "answered"}
    BY <2>1 DEF Shape, FetchHolds, AnswerHeld
  <2>3. CASE Fresh(cached)
    <3>1. SendWith(c, cached) /\ cached \in Token
      BY <1>4, <2>3 DEF Locked, FoundUnderLock, Fresh, TypeOK
    <3> QED
      BY <2>1, <2>2, <3>1 DEF SendWith, TypeOK, Shape, FetchHolds, AnswerHeld,
         AnswerThere, ClearsRefused, OnceMore, Sends, CallsLeft, Underway, NotBack,
         Retries, Stale
  <2>4. CASE ~Fresh(cached)
    <3>1. pc' = [pc EXCEPT ![c] = "asking"] /\ UNCHANGED <<token, owner, waiters>>
      BY <1>4, <2>4 DEF Locked, FoundUnderLock
    <3> QED
      BY <2>1, <2>2, <2>4, <3>1 DEF TypeOK, Shape, FetchHolds, AnswerHeld,
         AnswerThere, ClearsRefused, OnceMore, Sends, CallsLeft, Underway, NotBack,
         Retries, Stale, Fresh
  <2> QED
    BY <2>3, <2>4
<1>5. ASSUME NEW c \in Op, Issue(c) PROVE Goal
  <2> PICK t \in Token :
        /\ answer' = [token |-> t, expireIn |-> life'[t], age |-> 0]
        /\ again' = [d \in Op |-> IF refused[d] = NoToken THEN {} ELSE again[d] \cup {t}]
    BY <1>5 DEF Issue
  <2>1. /\ pc[c] = "asking" /\ pc' = [pc EXCEPT ![c] = "answered"]
        /\ UNCHANGED <<cached, refreshIn, owner, waiters, token, attempt, left, refused>>
    BY <1>5 DEF Issue
  <2>2. owner = c /\ answer'.token = t
    BY <2>1 DEF Shape, FetchHolds
  <2>3. answer' # NoToken
    <3>1. TypeOK'
      BY TypeStep
    <3>2. life'[t] \in 0..Life /\ 0 \in 0..Latency
      BY <3>1 DEF TypeOK
    <3>3. answer' \in Answer
      BY <3>2 DEF Answer
    <3> QED
      BY <3>3
  <2>4. Shape'
    BY <2>1, <2>2, <2>3 DEF TypeOK, Shape, FetchHolds, AnswerHeld, AnswerThere,
       ClearsRefused, OnceMore, Sends, CallsLeft, Underway, Fresh
  <2>5. NotBack'
    BY <2>1, <2>2 DEF TypeOK, NotBack, Retries, Stale, Underway
  <2> QED
    BY <2>4, <2>5
<1>6. ASSUME NEW c \in Op, Answered(c) PROVE Goal
  <2>1. /\ pc[c] = "answered" /\ cached' = answer.token /\ answer' = NoToken
        /\ SendWith(c, answer.token)
        /\ UNCHANGED <<attempt, left, refused, again>>
    BY <1>6 DEF Answered
  <2>2. /\ owner = c /\ answer \in Answer /\ answer # NoToken
        /\ answer.token \in Token
        /\ \A d \in Op \ {c} : pc[d] \notin {"asking", "answered"}
    BY <2>1 DEF TypeOK, Shape, FetchHolds, AnswerThere, Answer
  <2>3. Shape'
    BY <2>1, <2>2 DEF SendWith, TypeOK, Shape, FetchHolds, AnswerHeld, AnswerThere,
       ClearsRefused, OnceMore, Sends, CallsLeft, Underway
  <2>4. NotBack'
    BY <2>1, <2>2 DEF SendWith, TypeOK, NotBack, Retries, Stale, Underway
  <2> QED
    BY <2>3, <2>4
<1>7. ASSUME NEW c \in Op, FetchFails(c) PROVE Goal
  <2>1. /\ pc[c] \in {"asking", "answered"} /\ answer' = NoToken
        /\ Forget(c) /\ End(c, "failed") /\ UNCHANGED <<cached, refreshIn, left>>
    BY <1>7 DEF FetchFails
  <2>2. /\ owner = c
        /\ \A d \in Op \ {c} : pc[d] \notin {"asking", "answered"}
    BY <2>1 DEF Shape, FetchHolds
  <2> QED
    BY <2>1, <2>2 DEF Forget, End, TypeOK, Shape, FetchHolds, AnswerHeld, AnswerThere,
       ClearsRefused, OnceMore, Sends, CallsLeft, Underway, NotBack, Retries, Stale
<1>8. ASSUME NEW c \in Op, Accepted(c) PROVE Goal
  <2>1. /\ pc[c] = "sent" /\ left' = [left EXCEPT ![c] = @ - 1] /\ Forget(c)
        /\ UNCHANGED <<cached, refreshIn, answer>>
    BY <1>8 DEF Accepted
  <2>2. left[c] \in Nat /\ left[c] > 0 /\ cached \in Token \cup {NoToken}
    BY <2>1 DEF TypeOK, Shape, CallsLeft
  <2>3. /\ attempt'[c] = 0
        /\ \A d \in Op \ {c} : /\ attempt'[d] = attempt[d] /\ refused'[d] = refused[d]
                               /\ again'[d] = again[d] /\ left'[d] = left[d]
    BY <2>1 DEF Forget, TypeOK
  <2>4. CASE left[c] = 1
    <3>1. End(c, "done") /\ UNCHANGED <<owner, waiters>>
      BY <1>8, <2>4 DEF Accepted
    <3>2. /\ pc'[c] = "done" /\ owner' = owner
          /\ \A d \in Op \ {c} : pc'[d] = pc[d] /\ token'[d] = token[d]
      BY <3>1 DEF End, TypeOK
    <3>3. FetchHolds' /\ AnswerHeld' /\ AnswerThere'
      BY <2>1, <3>2 DEF TypeOK, Shape, FetchHolds, AnswerHeld, AnswerThere, Fresh
    <3>4. ClearsRefused' /\ OnceMore' /\ Sends' /\ CallsLeft'
      BY <2>3, <3>2 DEF Shape, ClearsRefused, OnceMore, Sends, CallsLeft, Underway
    <3>5. NotBack'
      BY <2>1, <2>3, <3>2 DEF NotBack, Retries, Stale, Underway
    <3> QED
      BY <3>3, <3>4, <3>5 DEF Shape
  <2>5. CASE left[c] > 1 /\ token[c] = Bare
    <3>1. SendWith(c, Bare) /\ UNCHANGED <<owner, waiters>> /\ left'[c] > 0
      BY <1>8, <2>1, <2>2, <2>5 DEF Accepted, TypeOK
    <3> QED
      BY <2>1, <2>3, <3>1 DEF SendWith, TypeOK, Shape, FetchHolds, AnswerHeld, AnswerThere,
         ClearsRefused, OnceMore, Sends, CallsLeft, Underway, NotBack, Retries, Stale, Fresh
  <2>6. CASE left[c] > 1 /\ token[c] # Bare
    <3>1. Seek(c, cached, TokenLock) /\ left'[c] > 0
      BY <1>8, <2>1, <2>2, <2>6 DEF Accepted, TypeOK
    <3> QED
      BY <1>0, <1>a, <2>1, <2>2, <2>3, <3>1, SeekKeeps
  <2> QED
    BY <2>2, <2>4, <2>5, <2>6
<1>9. ASSUME NEW c \in Op, Failed(c) PROVE Goal
  <2> PICK failure \in Failure :
        IF TriesAgain(c, failure)
        THEN /\ refused' = [refused EXCEPT ![c] = token[c]]
             /\ IF MustWait(c)
                THEN /\ pc' = [pc EXCEPT ![c] = "clearing"]
                     /\ SetLock(Entered(TokenLock, c))
                     /\ UNCHANGED <<cached, refreshIn, token, attempt>>
                ELSE ClearAndRetry(c, TokenLock)
             /\ UNCHANGED again
        ELSE /\ Forget(c) /\ End(c, "failed")
             /\ UNCHANGED <<cached, refreshIn, owner, waiters>>
    BY <1>9 DEF Failed
  <2>1. UNCHANGED <<answer, left>> /\ pc[c] = "sent"
    BY <1>9 DEF Failed
  <2>2. CASE ~TriesAgain(c, failure)
    <3>1. /\ Forget(c) /\ End(c, "failed")
          /\ UNCHANGED <<cached, refreshIn, owner, waiters>>
      BY <2>2
    <3> QED
      BY <2>1, <3>1 DEF Forget, End, TypeOK, Shape, FetchHolds, AnswerHeld, AnswerThere,
         ClearsRefused, OnceMore, Sends, CallsLeft, Underway, NotBack, Retries, Stale, Fresh
  <2>3. CASE TriesAgain(c, failure) /\ MustWait(c)
    <3>1. /\ pc' = [pc EXCEPT ![c] = "clearing"] /\ owner' = owner
          /\ refused' = [refused EXCEPT ![c] = token[c]]
          /\ UNCHANGED <<cached, refreshIn, token, attempt, again>>
      BY <2>3 DEF MustWait, SetLock, Entered, TokenLock
    <3>2. attempt[c] = 0 /\ token[c] \in Token
      BY <2>1, <2>3 DEF TriesAgain, Shape, Sends
    <3>3. /\ pc'[c] = "clearing" /\ refused'[c] = token[c]
          /\ \A d \in Op \ {c} : pc'[d] = pc[d] /\ refused'[d] = refused[d]
      BY <3>1 DEF TypeOK
    <3>4. FetchHolds' /\ AnswerHeld' /\ AnswerThere'
      BY <2>1, <3>1, <3>3 DEF TypeOK, Shape, FetchHolds, AnswerHeld, AnswerThere, Fresh
    <3>5. ClearsRefused' /\ OnceMore' /\ Sends' /\ CallsLeft'
      BY <2>1, <3>1, <3>2, <3>3 DEF Shape, ClearsRefused, OnceMore, Sends, CallsLeft,
         Underway
    <3>6. NotBack'
      BY <2>1, <3>1, <3>2, <3>3 DEF NotBack, Retries, Stale, Underway
    <3> QED
      BY <3>4, <3>5, <3>6 DEF Shape
  <2>4. CASE TriesAgain(c, failure) /\ ~MustWait(c)
    <3>1. /\ ClearAndRetry(c, TokenLock) /\ owner = Nobody
          /\ refused' = [refused EXCEPT ![c] = token[c]] /\ UNCHANGED again
      BY <2>4 DEF MustWait
    <3>2. token[c] \in Token /\ answer = NoToken /\ left'[c] > 0
      BY <2>1, <2>4, <3>1 DEF TriesAgain, Shape, Sends, AnswerHeld, CallsLeft
    <3> PICK t \in Token \cup {NoToken} :
          /\ t # token[c] /\ t \in {cached, NoToken}
          /\ cached' = t
          /\ refreshIn' = IF t = cached THEN refreshIn ELSE 0
          /\ attempt' = [attempt EXCEPT ![c] = 1]
          /\ Seek(c, t, TokenLock)
      BY <1>0, <3>1, <3>2, ClearEffect
    <3>3. /\ refused'[c] = token[c]
          /\ \A d \in Op \ {c} : /\ attempt'[d] = attempt[d] /\ refused'[d] = refused[d]
                                 /\ again'[d] = again[d] /\ left'[d] = left[d]
      BY <2>1, <3>1 DEF TypeOK
    <3> QED
      BY <1>0, <1>a, <2>1, <3>1, <3>2, <3>3, SeekKeeps
  <2> QED
    BY <2>2, <2>3, <2>4
<1>10. ASSUME NEW c \in Op, Clear(c) PROVE Goal
  <2>1. /\ pc[c] = "clearing" /\ owner = c /\ token[c] \in Token
        /\ refused[c] = token[c]
        /\ ClearAndRetry(c, Released(TokenLock))
        /\ UNCHANGED <<answer, left, refused, again>>
    BY <1>10 DEF Clear, Shape, ClearsRefused
  <2>2. answer = NoToken /\ \A d \in Op : pc[d] \notin {"asking", "answered"}
    BY <2>1 DEF Shape, FetchHolds, AnswerHeld
  <2> PICK t \in Token \cup {NoToken} :
        /\ t # token[c] /\ t \in {cached, NoToken}
        /\ cached' = t
        /\ refreshIn' = IF t = cached THEN refreshIn ELSE 0
        /\ attempt' = [attempt EXCEPT ![c] = 1]
        /\ Seek(c, t, Released(TokenLock))
    BY <1>0, <2>1, ClearEffect
  <2>3. left'[c] > 0
    BY <2>1 DEF Shape, CallsLeft
  <2>4. \A d \in Op \ {c} : attempt'[d] = attempt[d]
    BY DEF TypeOK
  <2> QED
    BY <1>0, <2>1, <2>2, <2>3, <2>4, SeekKeeps
<1>11. CASE Tick
  <2>1. /\ UNCHANGED <<cached, owner, pc, attempt, left, token, refused, again>>
        /\ Fresh(cached)' => Fresh(cached)
    BY <1>11 DEF Tick, Less, Fresh, TypeOK
  <2>2. /\ answer = NoToken <=> answer' = NoToken
        /\ answer # NoToken => answer'.token = answer.token
    <3>1. CASE answer = NoToken
      BY <1>11, <3>1 DEF Tick
    <3>2. CASE answer # NoToken
      <4>1. answer \in Answer /\ answer' = [answer EXCEPT !.age = @ + 1]
        BY <1>11, <3>2 DEF Tick, TypeOK
      <4>2. answer.age + 1 \in 0..Latency
        BY <1>11, <3>2, <4>1 DEF Tick, Answer
      <4>3. answer' \in Answer /\ answer'.token = answer.token
        BY <4>1, <4>2 DEF Answer
      <4> QED
        BY <3>2, <4>3
    <3> QED
      BY <3>1, <3>2
  <2> QED
    BY <2>1, <2>2 DEF Shape, FetchHolds, AnswerHeld, AnswerThere, ClearsRefused,
       OnceMore, Sends, CallsLeft, NotBack, Retries, Stale
<1>12. ASSUME NEW t \in Token, Revoke(t) PROVE Goal
  BY <1>12 DEF Revoke, cache, Shape, FetchHolds, AnswerHeld, AnswerThere, ClearsRefused,
     OnceMore, Sends, CallsLeft, NotBack, Retries, Stale, Fresh
<1>13. CASE UNCHANGED clientVars
  BY <1>13 DEF clientVars, Shape, FetchHolds, AnswerHeld, AnswerThere, ClearsRefused,
     OnceMore, Sends, CallsLeft, NotBack, Retries, Stale, Fresh
<1> QED
  BY <1>1, <1>2, <1>3, <1>4, <1>5, <1>6, <1>7, <1>8, <1>9, <1>10, <1>11, <1>12,
     <1>13 DEF Next, Step

(* Every step keeps the count of what tokens have left.                    *)
LEMMA CountedStep ==
  TypeOK /\ Shape /\ Counted /\ [Next]_clientVars => Counted'
<1> SUFFICES ASSUME TypeOK, Shape, Counted, [Next]_clientVars PROVE Counted'
    OBVIOUS
<1> USE ClientAssumption
<1>0. TokenLock \in Lock /\ Released(TokenLock) \in Lock
  BY LockType, ReleasedType
<1>1. ASSUME \/ UNCHANGED <<cached, refreshIn>>
             \/ cached' = NoToken,
             answer' \in {answer, NoToken}, UNCHANGED <<life, revoked>>
      PROVE  Counted'
  BY <1>1 DEF Counted
<1>2. ASSUME NEW c \in Op, Invalid(c) \/ Begin(c) \/ BeginBare(c) \/ Locked(c)
                           \/ FetchFails(c) \/ Accepted(c)
      PROVE  Counted'
  BY <1>1, <1>2 DEF Invalid, Begin, BeginBare, Locked, FetchFails, Accepted, cache, server
<1>3. ASSUME NEW c \in Op, Issue(c) PROVE Counted'
  <2> PICK t \in Token :
        /\ t \in issued => life[t] > 0
        /\ life' = [life EXCEPT ![t] = IF t \in issued THEN life[t] ELSE Life]
        /\ answer' = [token |-> t, expireIn |-> life'[t], age |-> 0]
    BY <1>3 DEF Issue
  <2>1. UNCHANGED <<cached, refreshIn, revoked>>
    BY <1>3 DEF Issue
  <2>2. \A u \in Token : life[u] \in 0..Life /\ life'[u] \in 0..Life /\ life[u] <= life'[u]
    BY DEF TypeOK
  <2>3. answer'.token = t /\ answer'.expireIn = life'[t] /\ answer'.age = 0
    OBVIOUS
  <2> QED
    BY <2>1, <2>2, <2>3 DEF Counted, TypeOK
<1>4. ASSUME NEW c \in Op, Answered(c) PROVE Counted'
  <2>1. /\ cached' = answer.token /\ refreshIn' = RefreshAfter(answer.expireIn)
        /\ answer' = NoToken /\ UNCHANGED <<life, revoked>>
    BY <1>4 DEF Answered, server
  <2>2. answer \in Answer /\ answer # NoToken
    BY <1>4 DEF Answered, Shape, AnswerThere, TypeOK
  <2>3. /\ answer.token \in Token /\ answer.expireIn \in 0..Life
        /\ answer.age \in 0..Latency
        /\ answer.expireIn <= life[answer.token] + answer.age \/ answer.token \in revoked
    BY <2>2 DEF Counted, Answer
  <2>4. life[answer.token] \in 0..Life
    BY <2>3 DEF TypeOK
  <2> QED
    BY <2>1, <2>3, <2>4 DEF Counted, RefreshAfter
<1>5. ASSUME NEW c \in Op, Failed(c) \/ Clear(c) PROVE Counted'
  <2>1. answer' = answer /\ UNCHANGED <<life, revoked>>
    BY <1>5 DEF Failed, Clear, server
  <2>2. UNCHANGED <<cached, refreshIn>> \/ cached' = NoToken
    BY <1>5 DEF Failed, Clear, ClearAndRetry
  <2> QED
    BY <1>1, <2>1, <2>2
<1>6. CASE Tick
  <2>1. /\ refreshIn' = Less(refreshIn) /\ life' = [t \in Token |-> Less(life[t])]
        /\ answer' = IF answer = NoToken THEN NoToken ELSE [answer EXCEPT !.age = @ + 1]
        /\ UNCHANGED <<cached, revoked>>
    BY <1>6 DEF Tick
  <2>2. cached' # NoToken => refreshIn' <= life'[cached'] \/ cached' \in revoked'
    BY <2>1 DEF Counted, TypeOK, Less
  <2>3. ASSUME answer # NoToken
        PROVE  answer'.expireIn <= life'[answer'.token] + answer'.age
                 \/ answer'.token \in revoked'
    <3>1. answer \in Answer
      BY <2>3 DEF TypeOK
    <3>2. /\ answer'.expireIn = answer.expireIn /\ answer'.token = answer.token
          /\ answer'.age = answer.age + 1
      BY <2>1, <2>3, <3>1 DEF Answer
    <3>3. /\ answer.token \in Token /\ answer.expireIn \in 0..Life
          /\ answer.age \in 0..Latency /\ life[answer.token] \in 0..Life
          /\ life'[answer.token] = Less(life[answer.token])
      BY <2>1, <3>1 DEF Answer, TypeOK
    <3> QED
      BY <2>1, <2>3, <3>2, <3>3 DEF Counted, Less
  <2> QED
    BY <2>1, <2>2, <2>3 DEF Counted
<1>7. ASSUME NEW t \in Token, Revoke(t) PROVE Counted'
  <2>1. /\ life' = [life EXCEPT ![t] = 0] /\ revoked' = revoked \cup {t}
        /\ UNCHANGED <<cached, refreshIn, answer>>
    BY <1>7 DEF Revoke, cache
  <2>2. \A u \in Token : u \in revoked' \/ life'[u] = life[u]
    BY <2>1 DEF TypeOK
  <2>3. answer # NoToken => answer.token \in Token
    BY DEF TypeOK, Answer
  <2> QED
    BY <2>1, <2>2, <2>3 DEF Counted, TypeOK
<1>8. CASE UNCHANGED clientVars
  BY <1>8 DEF clientVars, Counted
<1> QED
  BY <1>2, <1>3, <1>4, <1>5, <1>6, <1>7, <1>8 DEF Next, Step

(* No step sends a call again that may have been carried out.               *)
LEMMA AppliedStep ==
  TypeOK /\ Shape /\ AppliedOnce /\ [Next]_clientVars => AppliedOnce'
<1> SUFFICES ASSUME TypeOK, Shape, AppliedOnce, [Next]_clientVars
             PROVE  AppliedOnce'
    OBVIOUS
<1>0. TokenLock \in Lock /\ Released(TokenLock) \in Lock
  BY LockType, ReleasedType
<1>1. ASSUME NEW c \in Op, UNCHANGED carried, pc[c] # "failed",
             \A d \in Op \ {c} : pc'[d] = pc[d]
      PROVE  AppliedOnce'
  BY <1>1 DEF AppliedOnce, TypeOK
<1>2. ASSUME NEW c \in Op, NEW t \in Token \cup {NoToken}, NEW lock \in Lock,
             Seek(c, t, lock)
      PROVE  \A d \in Op \ {c} : pc'[d] = pc[d]
  BY <1>2, SeekEffect
<1>3. ASSUME NEW c \in Op, Invalid(c) \/ BeginBare(c) \/ Locked(c) \/ Issue(c)
                           \/ Answered(c) \/ FetchFails(c)
      PROVE  AppliedOnce'
  <2>1. UNCHANGED carried /\ pc[c] # "failed"
    BY <1>3 DEF Invalid, BeginBare, Locked, Issue, Answered, FetchFails
  <2>2. \A d \in Op \ {c} : pc'[d] = pc[d]
    BY <1>3 DEF Invalid, BeginBare, Locked, Issue, Answered, FetchFails, End, SendWith,
       TypeOK
  <2> QED
    BY <1>1, <2>1, <2>2
<1>4. ASSUME NEW c \in Op, Begin(c) PROVE AppliedOnce'
  BY <1>0, <1>1, <1>2, <1>4 DEF Begin, TypeOK
<1>5. ASSUME NEW c \in Op, Accepted(c) PROVE AppliedOnce'
  <2>1. UNCHANGED carried /\ pc[c] = "sent"
    BY <1>5 DEF Accepted
  <2>2. \A d \in Op \ {c} : pc'[d] = pc[d]
    <3>1. \/ Seek(c, cached, TokenLock) \/ End(c, "done") \/ SendWith(c, Bare)
      BY <1>5 DEF Accepted
    <3>2. cached \in Token \cup {NoToken}
      BY DEF TypeOK
    <3> QED
      BY <1>0, <1>2, <3>1, <3>2 DEF End, SendWith, TypeOK
  <2> QED
    BY <1>1, <2>1, <2>2
<1>6. ASSUME NEW c \in Op, Clear(c) PROVE AppliedOnce'
  <2>1. /\ pc[c] = "clearing" /\ UNCHANGED carried /\ token[c] \in Token
        /\ ClearAndRetry(c, Released(TokenLock))
    BY <1>6 DEF Clear, Shape, ClearsRefused
  <2>2. \E t \in Token \cup {NoToken} : Seek(c, t, Released(TokenLock))
    BY <1>0, <2>1, ClearEffect
  <2> QED
    BY <1>0, <1>1, <1>2, <2>1, <2>2
<1>7. ASSUME NEW c \in Op, Failed(c) PROVE AppliedOnce'
  <2> PICK failure \in Failure :
        /\ pc[c] = "sent"
        /\ \E done \in (IF failure = "lost" /\ Valid(token[c]) THEN {0, 1} ELSE {0}) :
             carried' = [carried EXCEPT ![c] = @ + done]
        /\ TriesAgain(c, failure) =>
             \/ MustWait(c) /\ pc' = [pc EXCEPT ![c] = "clearing"]
             \/ ClearAndRetry(c, TokenLock)
        /\ ~TriesAgain(c, failure) => End(c, "failed")
    BY <1>7 DEF Failed
  <2> PICK done \in {0, 1} :
        /\ carried' = [carried EXCEPT ![c] = @ + done]
        /\ failure # "lost" => done = 0
    OBVIOUS
  <2>1. pc[c] = "sent" /\ carried[c] = 0
    BY <1>7 DEF Failed, AppliedOnce
  <2>2. CASE TriesAgain(c, failure)
    <3>1. UNCHANGED carried
      <4>1. failure # "lost"
        BY <2>2 DEF TriesAgain
      <4>2. carried' = [carried EXCEPT ![c] = carried[c]]
        BY <2>1, <4>1
      <4> QED
        BY <4>2 DEF TypeOK
    <3>2. token[c] \in Token
      BY <2>1, <2>2 DEF TriesAgain, Shape, Sends
    <3>3. CASE pc' = [pc EXCEPT ![c] = "clearing"]
      BY <1>1, <2>1, <3>1, <3>3 DEF TypeOK
    <3>4. CASE ClearAndRetry(c, TokenLock)
      <4>1. \E t \in Token \cup {NoToken} : Seek(c, t, TokenLock)
        BY <1>0, <3>2, <3>4, ClearEffect
      <4> QED
        BY <1>0, <1>1, <1>2, <2>1, <3>1, <4>1
    <3> QED
      BY <2>2, <3>3, <3>4
  <2>3. CASE ~TriesAgain(c, failure)
    <3>1. /\ pc' = [pc EXCEPT ![c] = "failed"]
          /\ carried'[c] \in {0, 1} /\ \A d \in Op \ {c} : carried'[d] = carried[d]
      BY <2>1, <2>3 DEF End, TypeOK
    <3> QED
      BY <3>1 DEF AppliedOnce, TypeOK
  <2> QED
    BY <2>2, <2>3
<1>8. ASSUME UNCHANGED <<carried, pc>> PROVE AppliedOnce'
  BY <1>8 DEF AppliedOnce
<1> QED
  BY <1>3, <1>4, <1>5, <1>6, <1>7, <1>8 DEF Next, Step, Tick, Revoke, clientVars

(* The invariant of the client.                                             *)
THEOREM ClientInvariant == Spec => []IInv
<1>1. IInv /\ [Next]_clientVars => IInv'
  BY TypeStep, ShapeStep, CountedStep, AppliedStep DEF IInv
<1> QED
  BY <1>1, InitHolds, PTL DEF Spec

(* The state of the client keeps its types, whatever operations share the  *)
(* cache and the lock.                                                     *)
THEOREM ClientTypes == Spec => []TypeOK
<1>1. IInv => TypeOK
  BY DEF IInv
<1> QED
  BY <1>1, ClientInvariant, PTL

(* A call is never tried a second time with the token it was refused with, *)
(* unless the server has handed that token out again.                      *)
THEOREM RetriesAreFresh == Spec => []RetryFresh
<1>1. IInv => RetryFresh
  BY DEF IInv, NotBack, Retries, Stale, Underway, RetryFresh
<1> QED
  BY <1>1, ClientInvariant, PTL

(* No API call is carried out twice.                                        *)
THEOREM CallsApplyOnce == Spec => []AppliedOnce
<1>1. IInv => AppliedOnce
  BY DEF IInv
<1> QED
  BY <1>1, ClientInvariant, PTL

(* A fresh token stays cached until some request is refused with it.        *)
THEOREM FreshTokensStay == Spec => FreshKept
<1> DEFINE A == cached' # cached =>
     ~Fresh(cached) \/ (cached' = NoToken /\ \E c \in Op : refused'[c] = cached)
<1>1. IInv /\ [Next]_clientVars => A
  <2> SUFFICES ASSUME IInv, [Next]_clientVars, cached' # cached
               PROVE  ~Fresh(cached) \/ (cached' = NoToken /\ \E c \in Op : refused'[c] = cached)
      OBVIOUS
  <2> USE DEF IInv
  <2>1. ASSUME NEW c \in Op, Answered(c) PROVE ~Fresh(cached)
    BY <2>1 DEF Answered, Shape, FetchHolds
  <2>2. ASSUME NEW c \in Op, Clear(c) PROVE cached' = NoToken /\ refused'[c] = cached
    BY <2>2 DEF Clear, ClearAndRetry, StillCached, Shape, ClearsRefused
  <2>3. ASSUME NEW c \in Op, Failed(c) PROVE cached' = NoToken /\ refused'[c] = cached
    <3> PICK failure \in Failure :
          /\ refused' = [refused EXCEPT ![c] = token[c]]
          /\ ClearAndRetry(c, TokenLock)
      BY <2>3 DEF Failed
    <3> QED
      BY DEF ClearAndRetry, StillCached, TypeOK
  <2> QED
    BY <2>1, <2>2, <2>3 DEF Next, Step, Invalid, Begin, BeginBare, Locked, Issue,
       FetchFails, Accepted, Tick, Revoke, cache, server, clientVars
<1> QED
  BY <1>1, ClientInvariant, PTL DEF Spec, FreshKept

(* A fresh token of the cache is alive, or the server has revoked it.       *)
LEMMA FreshIsLive ==
  ASSUME IInv, NEW t \in {cached, NoToken}, Fresh(t)
  PROVE  t \in Token /\ (life[t] > 0 \/ t \in revoked)
  BY ClientAssumption DEF IInv, Counted, Fresh, TypeOK

(* No request that takes its token from the cache carries one that has run *)
(* out: all of them take it through the one check of the cache.             *)
THEOREM SendsAreLive == Spec => SendsLive
<1>1. IInv /\ [Next]_clientVars => \A c \in Op : SentLive(c)
  <2> DEFINE A == \A d \in Op : SentLive(d)
  <2> USE DEF SentLive
  <2> SUFFICES ASSUME IInv, [Next]_clientVars PROVE A
      OBVIOUS
  <2>0. TypeOK /\ Shape /\ TokenLock \in Lock /\ Released(TokenLock) \in Lock
    BY LockType, ReleasedType DEF IInv
  <2>1. ASSUME NEW c \in Op, NEW t \in {cached, NoToken}, NEW lock \in Lock,
               Seek(c, t, lock)
        PROVE  SentLive(c)
    <3>1. t \in Token \cup {NoToken}
      BY <2>0 DEF TypeOK
    <3> QED
      BY <2>0, <2>1, <3>1, SeekEffect, FreshIsLive
  <2>2. ASSUME NEW c \in Op, SentLive(c),
               \A d \in Op \ {c} : /\ pc'[d] = pc[d] /\ attempt'[d] = attempt[d]
                                    /\ left'[d] = left[d]
        PROVE  A
    BY <2>2
  <2>3. ASSUME NEW c \in Op, pc[c] # pc'[c] => pc'[c] # "sent" \/ token'[c] \notin Token,
               \A d \in Op : attempt'[d] = attempt[d] /\ left'[d] = left[d],
               \A d \in Op \ {c} : pc'[d] = pc[d]
        PROVE  A
    BY <2>3
  <2>4. ASSUME UNCHANGED <<pc, attempt, left>> PROVE A
    BY <2>4
  <2>5. ASSUME NEW c \in Op, Begin(c) PROVE A
    <3>1. SentLive(c)
      BY <2>0, <2>1, <2>5 DEF Begin
    <3>2. \A d \in Op \ {c} : pc'[d] = pc[d]
      BY <2>0, <2>5, SeekEffect DEF Begin, TypeOK
    <3> QED
      BY <2>2, <2>5, <3>1, <3>2 DEF Begin
  <2>6. ASSUME NEW c \in Op, Locked(c) PROVE A
    <3>1. CASE Fresh(cached)
      <4>1. SentLive(c)
        BY <2>0, <2>6, <3>1, FreshIsLive DEF Locked, FoundUnderLock, SendWith, TypeOK
      <4>2. \A d \in Op \ {c} : pc'[d] = pc[d]
        BY <2>0, <2>6, <3>1 DEF Locked, FoundUnderLock, SendWith, TypeOK
      <4> QED
        BY <2>2, <2>6, <4>1, <4>2 DEF Locked
    <3>2. CASE ~Fresh(cached)
      BY <2>0, <2>3, <2>6, <3>2 DEF Locked, FoundUnderLock, TypeOK
    <3> QED
      BY <3>1, <3>2
  <2>7. ASSUME NEW c \in Op, Accepted(c) PROVE A
    <3>1. SentLive(c)
      <4>1. CASE Seek(c, cached, TokenLock)
        BY <2>0, <2>1, <4>1
      <4>2. CASE End(c, "done")
        BY <2>0, <4>2 DEF End, TypeOK
      <4>3. CASE SendWith(c, Bare)
        BY <2>0, <4>3, ClientAssumption DEF SendWith, TypeOK
      <4> QED
        BY <2>7, <4>1, <4>2, <4>3 DEF Accepted
    <3>2. \A d \in Op \ {c} : pc'[d] = pc[d]
      <4>1. CASE Seek(c, cached, TokenLock)
        BY <2>0, <4>1, SeekEffect DEF TypeOK
      <4>2. CASE End(c, "done") \/ SendWith(c, Bare)
        BY <2>0, <4>2 DEF End, SendWith, TypeOK
      <4> QED
        BY <2>7, <4>1, <4>2 DEF Accepted
    <3>3. \A d \in Op \ {c} : attempt'[d] = attempt[d] /\ left'[d] = left[d]
      BY <2>0, <2>7 DEF Accepted, Forget, TypeOK
    <3> QED
      BY <2>2, <3>1, <3>2, <3>3
  <2>8. ASSUME NEW c \in Op, NEW lock \in Lock, ClearAndRetry(c, lock),
               token[c] \in Token, UNCHANGED left
        PROVE  A
    <3> PICK t \in {cached, NoToken} :
          attempt' = [attempt EXCEPT ![c] = 1] /\ Seek(c, t, lock)
      BY <2>0, <2>8, ClearEffect
    <3>1. SentLive(c)
      BY <2>1
    <3>2. \A d \in Op \ {c} : pc'[d] = pc[d] /\ attempt'[d] = attempt[d]
      BY <2>0, SeekEffect DEF TypeOK
    <3> QED
      BY <2>2, <2>8, <3>1, <3>2
  <2>9. ASSUME NEW c \in Op, Failed(c) PROVE A
    <3> PICK failure \in Failure :
          /\ pc[c] = "sent" /\ UNCHANGED left
          /\ TriesAgain(c, failure) =>
               \/ /\ pc' = [pc EXCEPT ![c] = "clearing"]
                  /\ UNCHANGED attempt
               \/ ClearAndRetry(c, TokenLock)
          /\ ~TriesAgain(c, failure) => Forget(c) /\ End(c, "failed")
      BY <2>9 DEF Failed
    <3>1. CASE TriesAgain(c, failure)
      <4>1. token[c] \in Token
        BY <2>0, <3>1 DEF TriesAgain, Shape, Sends
      <4>2. CASE pc' = [pc EXCEPT ![c] = "clearing"] /\ UNCHANGED attempt
        BY <2>0, <2>3, <4>2 DEF TypeOK
      <4> QED
        BY <2>0, <2>8, <3>1, <4>1, <4>2
    <3>2. CASE ~TriesAgain(c, failure)
      <4>1. pc'[c] = "failed" /\ \A d \in Op \ {c} : pc'[d] = pc[d] /\ attempt'[d] = attempt[d]
        BY <2>0, <3>2 DEF Forget, End, TypeOK
      <4> QED
        BY <2>2, <4>1
    <3> QED
      BY <3>1, <3>2
  <2>10. ASSUME NEW c \in Op, Clear(c) PROVE A
    BY <2>0, <2>8, <2>10 DEF Clear, Shape, ClearsRefused
  <2>11. ASSUME NEW c \in Op, Invalid(c) \/ BeginBare(c) PROVE A
    BY <2>0, <2>3, <2>11, ClientAssumption DEF Invalid, BeginBare, End, SendWith, TypeOK
  <2>12. ASSUME NEW c \in Op, Issue(c) PROVE A
    BY <2>0, <2>3, <2>12 DEF Issue, TypeOK
  <2>13. ASSUME NEW c \in Op, Answered(c) PROVE A
    <3>1. pc[c] = "answered" /\ \A d \in Op \ {c} : pc'[d] = pc[d]
      BY <2>0, <2>13 DEF Answered, SendWith, TypeOK
    <3> QED
      BY <2>2, <2>13, <3>1 DEF Answered
  <2>14. ASSUME NEW c \in Op, FetchFails(c) PROVE A
    <3>1. pc'[c] = "failed" /\ \A d \in Op \ {c} : pc'[d] = pc[d] /\ attempt'[d] = attempt[d]
      BY <2>0, <2>14 DEF FetchFails, Forget, End, TypeOK
    <3> QED
      BY <2>2, <2>14, <3>1 DEF FetchFails
  <2>15. CASE Tick \/ (\E t \in Token : Revoke(t)) \/ UNCHANGED clientVars
    BY <2>4, <2>15 DEF Tick, Revoke, clientVars
  <2> QED
    BY <2>5, <2>6, <2>7, <2>9, <2>10, <2>11, <2>12, <2>13, <2>14, <2>15 DEF Next, Step
<1> QED
  BY <1>1, ClientInvariant, PTL DEF Spec, SendsLive
=============================================================================
