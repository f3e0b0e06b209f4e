------------------------------- MODULE Client -------------------------------
(***************************************************************************)
(* The DingTalk OpenAPI client: one cached application access token, one   *)
(* asyncio lock around fetching and dropping it, and operations that each  *)
(* make one or more API calls with it.                                     *)
(*                                                                         *)
(* An operation runs without interruption between two awaits: waiting for  *)
(* the lock, a token fetch, an API call.  Time is kept as the time that is *)
(* LEFT: refreshIn is _refresh_after minus the clock, life what a token    *)
(* has left at the server.                                                 *)
(***************************************************************************)
EXTENDS Naturals, Sequences

CONSTANTS
  Op,        \* operations of the client that are under way
  Calls,     \* API calls an operation makes: a card 2, a list one per page
  Token,     \* application tokens the server can hand out; bounds renewals
  Life,      \* lifetime of a new token
  Skew,      \* TOKEN_REFRESH_SKEW_SECONDS
  Latency,   \* how long the answer of a token fetch can take
  NoToken,
  Bare,      \* what a request carries that has no application token
  Nobody

(* The answer of a token fetch, and how long ago the server gave it.        *)
Answer == [token : Token, expireIn : 0..Life, age : 0..Latency]

ASSUME ClientAssumption ==
  /\ Calls \in [Op -> Nat \ {0}]
  /\ Life \in Nat \ {0} /\ Skew \in Nat /\ Latency \in Nat
  /\ Latency <= Skew
  /\ NoToken \notin Token \cup {Bare} \cup Answer /\ Bare \notin Token
  /\ Nobody \notin Op

VARIABLES
  cached,     \* _cached_token
  refreshIn,  \* _refresh_after minus the clock, 0 when that has passed
  owner,      \* who holds _token_lock
  waiters,    \* who waits for it, first come first served
  pc,         \* what an operation is waiting for
  attempt,    \* 0 or 1: attempt of the current call
  left,       \* calls an operation has still to complete
  token,      \* what its request carries
  answer,     \* the answer of a token fetch on its way, or NoToken
  life,       \* time a token has left at the server
  issued,     \* tokens the server has handed out
  revoked,    \* tokens the server gave up before their time
  refused,    \* history: the token the first attempt was refused with
  again,      \* history: tokens handed out since then
  carried     \* history: how often the server carried out the current call

cache  == <<cached, refreshIn, owner, waiters, answer>>
server == <<life, issued, revoked>>
clientVars == <<cached, refreshIn, owner, waiters, pc, attempt, left, token,
                answer, life, issued, revoked, refused, again, carried>>

Phases == {"idle", "queued", "asking", "answered", "sent", "clearing",
           "done", "failed"}

TypeOK ==
  /\ cached \in Token \cup {NoToken} /\ refreshIn \in 0..Life
  /\ owner \in Op \cup {Nobody} /\ waiters \in Seq(Op)
  /\ pc \in [Op -> Phases] /\ attempt \in [Op -> {0, 1}]
  /\ left \in [Op -> Nat]
  /\ token \in [Op -> Token \cup {Bare, NoToken}]
  /\ answer \in Answer \cup {NoToken}
  /\ life \in [Token -> 0..Life] /\ issued \subseteq Token /\ revoked \subseteq Token
  /\ refused \in [Op -> Token \cup {NoToken}] /\ again \in [Op -> SUBSET Token]
  /\ carried \in [Op -> Nat]

Init ==
  /\ cached = NoToken /\ refreshIn = 0
  /\ owner = Nobody /\ waiters = <<>>
  /\ pc = [c \in Op |-> "idle"] /\ attempt = [c \in Op |-> 0]
  /\ left = Calls /\ token = [c \in Op |-> NoToken]
  /\ answer = NoToken
  /\ life = [t \in Token |-> 0] /\ issued = {} /\ revoked = {}
  /\ refused = [c \in Op |-> NoToken] /\ again = [c \in Op |-> {}]
  /\ carried = [c \in Op |-> 0]

-----------------------------------------------------------------------------
(* The token lock, as the pair <<holder, waiters>>.                         *)

TokenLock == <<owner, waiters>>
Free == <<Nobody, <<>>>>

(* Mutant of Released: nobody is woken.                                     *)
ReleasedToNobody(lock) == <<Nobody, lock[2]>>

(* Leaving `async with self._token_lock` lets the first waiter in.          *)
Released(lock) ==
  IF lock[2] = <<>> THEN Free ELSE <<Head(lock[2]), Tail(lock[2])>>

(* Entering it: at once if nobody holds it or waits for it.                 *)
Entered(lock, c) ==
  IF lock[1] = Nobody THEN <<c, lock[2]>> ELSE <<lock[1], Append(lock[2], c)>>

SetLock(lock) == owner' = lock[1] /\ waiters' = lock[2]

(* _is_cached_token_fresh, for the content t of the cache                   *)
Fresh(t) == t # NoToken /\ refreshIn > 0

(* Mutants of RefreshAfter: the skew added, no skew.                        *)
RefreshAfterLate(expireIn) == expireIn + Skew
RefreshAfterNoSkew(expireIn) == expireIn

RefreshAfter(expireIn) == IF expireIn > Skew THEN expireIn - Skew ELSE 0

SendWith(c, t) ==
  /\ pc' = [pc EXCEPT ![c] = "sent"]
  /\ token' = [token EXCEPT ![c] = t]

(* get_access_token from content t of the cache: the fast path goes on     *)
(* with the cached token, else the lock is taken, and who gets it at once  *)
(* starts the fetch.                                                       *)
Seek(c, t, lock) ==
  IF Fresh(t) THEN SendWith(c, t) /\ SetLock(lock)
  ELSE /\ SetLock(Entered(lock, c))
       /\ pc' = [pc EXCEPT ![c] = IF lock[1] = Nobody THEN "asking" ELSE "queued"]
       /\ UNCHANGED token

(* A call is over.                                                          *)
Forget(c) ==
  /\ attempt' = [attempt EXCEPT ![c] = 0]
  /\ refused' = [refused EXCEPT ![c] = NoToken]
  /\ again' = [again EXCEPT ![c] = {}]

(* An operation is over.                                                    *)
End(c, how) ==
  /\ pc' = [pc EXCEPT ![c] = how]
  /\ token' = [token EXCEPT ![c] = NoToken]

-----------------------------------------------------------------------------
(* Operations                                                              *)

(* The arguments of an operation are checked before any request.            *)
Invalid(c) ==
  /\ pc[c] = "idle"
  /\ End(c, "failed")
  /\ UNCHANGED <<cache, server, attempt, left, refused, again, carried>>

(* The first API call of an operation, with the application token.          *)
Begin(c) ==
  /\ pc[c] = "idle"
  /\ Seek(c, cached, TokenLock)
  /\ UNCHANGED <<cached, refreshIn, answer, server, attempt, left, refused,
                 again, carried>>

(* An API call with a user's token, or a reply through a session webhook.   *)
BeginBare(c) ==
  /\ pc[c] = "idle"
  /\ SendWith(c, Bare)
  /\ UNCHANGED <<cache, server, attempt, left, refused, again, carried>>

(* Mutant of FoundUnderLock: it fetches without looking again.              *)
FoundBlindly == NoToken

(* The token that an operation finds once it has the lock: the cache is    *)
(* checked a second time.                                                  *)
FoundUnderLock == cached

(* An operation that waited for the lock in get_access_token has it.        *)
Locked(c) ==
  /\ pc[c] = "queued" /\ owner = c
  /\ IF Fresh(FoundUnderLock)
     THEN SendWith(c, cached) /\ SetLock(Released(TokenLock))
     ELSE pc' = [pc EXCEPT ![c] = "asking"] /\ UNCHANGED <<token, owner, waiters>>
  /\ UNCHANGED <<cached, refreshIn, answer, server, attempt, left, refused,
                 again, carried>>

(* The server answers a fetch with the token that is still valid, if there *)
(* is one, or with a new one.                                              *)
Issue(c) ==
  /\ pc[c] = "asking"
  /\ \E t \in Token :
       /\ t \in issued => life[t] > 0
       /\ life' = [life EXCEPT ![t] = IF t \in issued THEN life[t] ELSE Life]
       /\ answer' = [token |-> t, expireIn |-> life'[t], age |-> 0]
       /\ issued' = issued \cup {t}
       /\ again' = [d \in Op |-> IF refused[d] = NoToken THEN {} ELSE again[d] \cup {t}]
  /\ pc' = [pc EXCEPT ![c] = "answered"]
  /\ UNCHANGED <<cached, refreshIn, owner, waiters, token, revoked, attempt,
                 left, refused, carried>>

(* The answer arrives: it is cached, the lock released, the request sent.   *)
Answered(c) ==
  /\ pc[c] = "answered"
  /\ cached' = answer.token
  /\ refreshIn' = RefreshAfter(answer.expireIn)
  /\ answer' = NoToken
  /\ SetLock(Released(TokenLock))
  /\ SendWith(c, answer.token)
  /\ UNCHANGED <<server, attempt, left, refused, again, carried>>

(* The fetch fails, or its answer is invalid: the operation fails with it.  *)
FetchFails(c) ==
  /\ pc[c] \in {"asking", "answered"}
  /\ answer' = NoToken
  /\ SetLock(Released(TokenLock))
  /\ Forget(c) /\ End(c, "failed")
  /\ UNCHANGED <<cached, refreshIn, server, left, carried>>

(* The server accepts a request that carries no application token or one    *)
(* that is still alive.                                                     *)
Valid(t) == t \in Token => life[t] > 0

(* A call succeeds: the next one follows, or the operation is complete.     *)
Accepted(c) ==
  /\ pc[c] = "sent" /\ Valid(token[c])
  /\ left' = [left EXCEPT ![c] = @ - 1]
  /\ Forget(c)
  /\ CASE left[c] = 1 ->
            End(c, "done") /\ UNCHANGED <<owner, waiters>>
       [] left[c] > 1 /\ token[c] = Bare ->
            SendWith(c, Bare) /\ UNCHANGED <<owner, waiters>>
       [] OTHER -> Seek(c, cached, TokenLock)
  /\ UNCHANGED <<cached, refreshIn, answer, server, carried>>

(* How a call fails: an answer that says the access token is invalid, an   *)
(* answer that is any other error, or no answer, in which case the call    *)
(* may have been carried out.                                              *)
Failure == {"token invalid", "error", "lost"}

(* Mutant of TriesAgain: it retries on every failure.                       *)
TriesAgainOnLoss(c, failure) == attempt[c] = 0 /\ token[c] # Bare

(* _api_request tries again only after the first of these, and only once.   *)
TriesAgain(c, failure) ==
  failure = "token invalid" /\ attempt[c] = 0 /\ token[c] # Bare

(* Mutant of StillCached: whatever is cached goes.                          *)
StillCachedAny(t) == TRUE

(* Emptying the cache requires that it still has the refused token.         *)
StillCached(t) == cached = t

(* _invalidate_cached_access_token under the lock, then the second attempt *)
(* starts: lock is the lock as this leaves it.                             *)
ClearAndRetry(c, lock) ==
  LET kept == IF StillCached(token[c]) THEN NoToken ELSE cached
  IN  /\ cached' = kept
      /\ refreshIn' = IF kept = cached THEN refreshIn ELSE 0
      /\ attempt' = [attempt EXCEPT ![c] = 1]
      /\ Seek(c, kept, lock)

(* Mutant of MustWait: the cache is emptied without the lock.               *)
MustWaitNever(c) == FALSE

(* Dropping a token waits for the lock, so never overlaps a fetch.          *)
MustWait(c) == owner # Nobody

Failed(c) == \E failure \in Failure :
  /\ pc[c] = "sent"
  /\ \E done \in (IF failure = "lost" /\ Valid(token[c]) THEN {0, 1} ELSE {0}) :
       carried' = [carried EXCEPT ![c] = @ + done]
  /\ IF TriesAgain(c, failure)
     THEN /\ refused' = [refused EXCEPT ![c] = token[c]]
          /\ IF MustWait(c)
             THEN /\ pc' = [pc EXCEPT ![c] = "clearing"]
                  /\ SetLock(Entered(TokenLock, c))
                  /\ UNCHANGED <<cached, refreshIn, token, attempt>>
             ELSE ClearAndRetry(c, TokenLock)
          /\ UNCHANGED again
     ELSE /\ Forget(c) /\ End(c, "failed")
          /\ UNCHANGED <<cached, refreshIn, owner, waiters>>
  /\ UNCHANGED <<answer, server, left>>

(* An operation that waited for the lock to drop its token has it.          *)
Clear(c) ==
  /\ pc[c] = "clearing" /\ owner = c
  /\ ClearAndRetry(c, Released(TokenLock))
  /\ UNCHANGED <<answer, server, left, refused, again, carried>>

Step(c) == \/ Locked(c) \/ Issue(c) \/ Answered(c) \/ FetchFails(c)
           \/ Accepted(c) \/ Failed(c) \/ Clear(c)

-----------------------------------------------------------------------------
(* Time passes; no answer of a fetch is later than Latency.                 *)
Less(n) == IF n > 0 THEN n - 1 ELSE 0

Tick ==
  /\ answer # NoToken => answer.age < Latency
  /\ refreshIn' = Less(refreshIn)
  /\ life' = [t \in Token |-> Less(life[t])]
  /\ answer' = IF answer = NoToken THEN NoToken ELSE [answer EXCEPT !.age = @ + 1]
  /\ UNCHANGED <<cached, owner, waiters, pc, attempt, left, token, issued,
                 revoked, refused, again, carried>>

(* The server gives a token up before its time.                             *)
Revoke(t) ==
  /\ life[t] > 0
  /\ life' = [life EXCEPT ![t] = 0]
  /\ revoked' = revoked \cup {t}
  /\ UNCHANGED <<cache, pc, attempt, left, token, issued, refused, again,
                 carried>>

Next ==
  \/ \E c \in Op : Invalid(c) \/ Begin(c) \/ BeginBare(c) \/ Step(c)
  \/ Tick
  \/ \E t \in Token : Revoke(t)

Spec == Init /\ [][Next]_clientVars

-----------------------------------------------------------------------------
(* Properties                                                              *)

(* The second attempt of a call never goes out with the token its first    *)
(* attempt was refused with, unless the server has handed that very token  *)
(* out again since: a fetch that another operation has under way must not  *)
(* bring the refused token back (_invalidate_cached_access_token).         *)
RetryFresh ==
  \A c \in Op : pc[c] = "sent" /\ attempt[c] = 1 =>
    token[c] # refused[c] \/ token[c] \in again[c]

(* A cached token that is fresh is never replaced by another one, however  *)
(* many operations wait to fetch (get_access_token looks twice), and is    *)
(* dropped only if it is the token that some request was refused with.     *)
FreshKept == [][cached' # cached =>
  \/ ~Fresh(cached)
  \/ cached' = NoToken /\ \E c \in Op : refused'[c] = cached]_clientVars

(* No request goes out with a token from the cache that has run out at the *)
(* server, although the cache counts from the arrival of an answer that    *)
(* took up to Latency; only a token the server revoked can be dead.        *)
SentLive(c) ==
  /\ pc'[c] = "sent" /\ token'[c] \in Token /\ pc[c] # "answered"
  /\ <<pc[c], attempt[c], left[c]>> # <<pc'[c], attempt'[c], left'[c]>>
  => life[token'[c]] > 0 \/ token'[c] \in revoked
SendsLive == [][\A c \in Op : SentLive(c)]_clientVars

(* Whatever is retried, the server carries out no API call twice: a call   *)
(* is on its way only while it has not been carried out, and one of which  *)
(* the answer was lost is not sent again (_api_request).                   *)
AppliedOnce == \A c \in Op :
  carried[c] = 0 \/ (pc[c] = "failed" /\ carried[c] = 1)

=============================================================================
