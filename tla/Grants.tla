------------------------------- MODULE Grants -------------------------------
(***************************************************************************)
(* How a user's delegated (OBO) token is asked for, stored, used and given *)
(* up.                                                                     *)
(*                                                                         *)
(* A tool that acts on behalf of its user in a DM goes through             *)
(* Authorizer.resolve: the grant in the token vault is used, refreshed, or *)
(* a nonce is stored and its link sent to the user.  The browser opens the *)
(* link (/oauth/start) and comes back with a code (/oauth/callback), which *)
(* consumes the nonce, checks who authorized, and stores the grant.        *)
(* /disconnect deletes it.                                                 *)
(*                                                                         *)
(* All of this shares ONE SQLite connection: a statement is one step, the  *)
(* transaction belongs to the connection, and whoever commits or rolls     *)
(* back does so for every task.  auths and vault are what the connection   *)
(* sees, disk is what a crash leaves.                                      *)
(***************************************************************************)
EXTENDS Naturals, FiniteSets

CONSTANTS
  User,          \* DingTalk users; each has a DM and is its principal
  Strand,        \* what runs tools: session workers and card callbacks
  Worker,        \* the strands that are session workers, which run commands
  Of,            \* the user a strand works for
  Request,       \* HTTP requests that can be under way at a time
  Nonce,         \* nonces of consent links; bounds the number of links
  Requirement,   \* the sets of scopes that tools require
  NoGrant, NoNonce,
  MaxFailures    \* bound on failing statements and crashes

(* A user token, by the user it speaks for and the scopes and the nonce of *)
(* the consent it goes back to; refreshing it changes none of these.       *)
Grant == [owner : User, scopes : Requirement, consent : Nonce]
Asked == [user : User, scopes : Requirement]

ASSUME GrantsAssumption ==
  /\ Worker \subseteq Strand
  /\ Of \in [Strand -> User]
  /\ NoNonce \notin Nonce
  /\ NoGrant \notin Grant \cup Asked
  /\ MaxFailures \in Nat

VARIABLES
  tx,        \* is a transaction open on the connection?
  auths,     \* the nonces in pending_auths
  vault,     \* the rows of token_vault
  disk,      \* what is committed of both tables
  asked,     \* the user and the scopes of each nonce
  expired,   \* nonces past their expiry
  links,     \* nonces whose link the user was sent
  at,        \* the next step of a strand
  needs,     \* the scopes a strand's tool requires
  seen,      \* the grant a strand has read
  asks,      \* the nonce a strand has created
  rpc,       \* the next step of a request
  state,     \* the nonce in the URL of a request
  got,       \* the grant a request obtained
  removed,   \* nonces for which a request ran its DELETE
  consumed,  \* how many requests a nonce was consumed for
  revoked,   \* consents whose grant /disconnect reported removed
  failures   \* failing statements and crashes so far

tables == <<tx, auths, vault, disk>>
consents == <<asked, expired, links>>
strands == <<at, needs, seen, asks>>
requests == <<rpc, state, got>>
history == <<removed, consumed, revoked>>
vars == <<tables, consents, strands, requests, history, failures>>

Init ==
  /\ tx = FALSE
  /\ auths = {}
  /\ vault = [u \in User |-> NoGrant]
  /\ disk = [auths |-> {}, vault |-> [u \in User |-> NoGrant]]
  /\ asked = [n \in Nonce |-> NoGrant]
  /\ expired = {} /\ links = {}
  /\ at = [s \in Strand |-> "idle"]
  /\ needs = [s \in Strand |-> {}]
  /\ seen = [s \in Strand |-> NoGrant]
  /\ asks = [s \in Strand |-> NoNonce]
  /\ rpc = [r \in Request |-> "idle"]
  /\ state = [r \in Request |-> NoNonce]
  /\ got = [r \in Request |-> NoGrant]
  /\ removed = {} /\ consumed = [n \in Nonce |-> 0] /\ revoked = {}
  /\ failures = 0

-----------------------------------------------------------------------------
(* The connection.                                                         *)

(* A data-changing statement opens a transaction if none is open.          *)
Write(newAuths, newVault) ==
  /\ tx' = TRUE
  /\ auths' = newAuths
  /\ vault' = newVault
  /\ UNCHANGED disk

Commit ==
  /\ tx' = FALSE
  /\ disk' = [auths |-> auths, vault |-> vault]
  /\ UNCHANGED <<auths, vault>>

Rollback ==
  /\ tx' = FALSE
  /\ auths' = disk.auths
  /\ vault' = disk.vault
  /\ UNCHANGED disk

-----------------------------------------------------------------------------
(* A strand: Authorizer.resolve for a tool, or /disconnect.                *)

Goto(s, step) == at' = [at EXCEPT ![s] = step]
Row(s) == vault[Of[s]]

(* The strand is through with its tool or command.                         *)
Done(s) ==
  /\ Goto(s, "idle")
  /\ needs' = [needs EXCEPT ![s] = {}]
  /\ seen' = [seen EXCEPT ![s] = NoGrant]
  /\ asks' = [asks EXCEPT ![s] = NoNonce]

(* Mutant: any usable token will do.                                       *)
CoversAlways(g, q) == g # NoGrant
Covers(g, q) == g # NoGrant /\ q \subseteq g.scopes

(* A tool asks for a credential: TokenVault.get, and the first returns of  *)
(* get_valid.  Time is not modelled: any grant may be within the refresh   *)
(* skew of its expiry.                                                     *)
Resolve(s) ==
  /\ at[s] = "idle"
  /\ \E q \in Requirement :
       /\ needs' = [needs EXCEPT ![s] = q]
       /\ \/ Goto(s, IF Covers(Row(s), q) THEN "granted" ELSE "consent")
          \/ Row(s) # NoGrant /\ Goto(s, "refresh")
  /\ seen' = [seen EXCEPT ![s] = Row(s)]
  /\ UNCHANGED <<tables, consents, asks, requests, history, failures>>

(* refresh_user_access_token: a new token, a refused refresh token, or an  *)
(* error that leaves the grant alone.  Every stored grant has a refresh    *)
(* token, so get_valid's other reason to revoke does not occur.            *)
Refresh(s) ==
  /\ at[s] = "refresh"
  /\ \/ /\ Goto(s, "put") \/ Goto(s, "revoke")
        /\ UNCHANGED <<needs, seen, asks>>
     \/ Done(s)
  /\ UNCHANGED <<tables, consents, requests, history, failures>>

(* TokenVault.put of the new token, with the scopes that were read before: *)
(* upsert, commit, and read the row back.                                  *)
PutToken(s) ==
  /\ at[s] = "put"
  /\ Write(auths, [vault EXCEPT ![Of[s]] = seen[s]])
  /\ Goto(s, "commitPut")
  /\ UNCHANGED <<consents, needs, seen, asks, requests, history, failures>>

CommitPut(s) ==
  /\ at[s] = "commitPut"
  /\ Commit
  /\ Goto(s, "reread")
  /\ UNCHANGED <<consents, needs, seen, asks, requests, history, failures>>

RereadToken(s) ==
  /\ at[s] = "reread"
  /\ \/ /\ Row(s) # NoGrant
        /\ seen' = [seen EXCEPT ![s] = Row(s)]
        /\ Goto(s, IF Covers(Row(s), needs[s]) THEN "granted" ELSE "consent")
        /\ UNCHANGED <<needs, asks>>
     \/ Row(s) = NoGrant /\ Done(s)
  /\ UNCHANGED <<tables, consents, requests, history, failures>>

(* Mutant: revoke empties the grant and keeps the row.                     *)
DeletedKept(g) == IF g = NoGrant THEN g ELSE [g EXCEPT !.scopes = {}]
Deleted(g) == NoGrant

(* TokenVault.revoke, of a refused refresh token.                          *)
Revoke(s) ==
  /\ at[s] = "revoke"
  /\ Write(auths, [vault EXCEPT ![Of[s]] = Deleted(@)])
  /\ Goto(s, "commitRevoke")
  /\ UNCHANGED <<consents, needs, seen, asks, requests, history, failures>>

CommitRevoke(s) ==
  /\ at[s] = "commitRevoke"
  /\ Commit
  /\ Goto(s, "consent")
  /\ UNCHANGED <<consents, needs, seen, asks, requests, history, failures>>

(* SQLitePendingAuthStore.create: a fresh nonce is never found by get, so  *)
(* the row is inserted, committed and read back.                           *)
CreateNonce(s) ==
  /\ at[s] = "consent"
  /\ \E n \in Nonce :
       /\ asked[n] = NoGrant
       /\ asked' = [asked EXCEPT ![n] = [user |-> Of[s], scopes |-> needs[s]]]
       /\ asks' = [asks EXCEPT ![s] = n]
       /\ Write(auths \cup {n}, vault)
  /\ Goto(s, "commitNonce")
  /\ UNCHANGED <<expired, links, needs, seen, requests, history, failures>>

(* The lookup of the actor's union id fails, and with it the tool.         *)
LookupFails(s) ==
  /\ at[s] = "consent"
  /\ Done(s)
  /\ UNCHANGED <<tables, consents, requests, history, failures>>

(* Mutant: the insert waits for somebody else's commit.                    *)
CommitNonceLater(s) ==
  /\ at[s] = "commitNonce"
  /\ UNCHANGED tables
  /\ Goto(s, "rereadNonce")
  /\ UNCHANGED <<consents, needs, seen, asks, requests, history, failures>>

CommitNonce(s) ==
  /\ at[s] = "commitNonce"
  /\ Commit
  /\ Goto(s, "rereadNonce")
  /\ UNCHANGED <<consents, needs, seen, asks, requests, history, failures>>

(* Only a nonce that was read back is put into a link; the reply with the  *)
(* link may fail, and a card callback has no reply to put it into.         *)
SendLink(s) ==
  /\ at[s] = "rereadNonce"
  /\ \/ s \in Worker /\ asks[s] \in auths /\ links' = links \cup {asks[s]}
     \/ UNCHANGED links
  /\ Done(s)
  /\ UNCHANGED <<tables, asked, expired, requests, history, failures>>

(* /disconnect, a command of the session's worker.                         *)
Disconnect(s) ==
  /\ s \in Worker
  /\ at[s] = "idle"
  /\ seen' = [seen EXCEPT ![s] = Row(s)]
  /\ Write(auths, [vault EXCEPT ![Of[s]] = Deleted(@)])
  /\ Goto(s, "commitDisconnect")
  /\ UNCHANGED <<consents, needs, asks, requests, history, failures>>

CommitDisconnect(s) ==
  /\ at[s] = "commitDisconnect"
  /\ Commit
  /\ revoked' = IF seen[s] = NoGrant THEN revoked ELSE revoked \cup {seen[s].consent}
  /\ Done(s)
  /\ UNCHANGED <<consents, requests, removed, consumed, failures>>

(* The tool runs with the credential.                                      *)
Finish(s) ==
  /\ at[s] = "granted"
  /\ Done(s)
  /\ UNCHANGED <<tables, consents, requests, history, failures>>

-----------------------------------------------------------------------------
(* A request: /oauth/start or /oauth/callback.                             *)

Proceed(r, step) == rpc' = [rpc EXCEPT ![r] = step]

(* The answer; the request is over.                                        *)
Answer(r) ==
  /\ Proceed(r, "idle")
  /\ state' = [state EXCEPT ![r] = NoNonce]
  /\ got' = [got EXCEPT ![r] = NoGrant]

(* OAuthRequestHandler.start redirects to DingTalk or answers 404; what    *)
(* changes is that an expired nonce is deleted.                            *)
Start(r, n) ==
  /\ rpc[r] = "idle"
  /\ n \in links \cap auths \cap expired
  /\ state' = [state EXCEPT ![r] = n]
  /\ Proceed(r, "purge")
  /\ UNCHANGED <<tables, consents, strands, got, history, failures>>

PurgeExpired(r) ==
  /\ rpc[r] = "purge"
  /\ Write(auths \ {state[r]}, vault)
  /\ removed' = removed \cup {state[r]}
  /\ Proceed(r, "commitPurge")
  /\ UNCHANGED <<consents, strands, state, got, consumed, revoked, failures>>

CommitPurge(r) ==
  /\ rpc[r] = "commitPurge"
  /\ Commit
  /\ Answer(r)
  /\ UNCHANGED <<consents, strands, history, failures>>

(* DingTalk sends a browser back to the callback, once or again.  BEGIN    *)
(* IMMEDIATE fails while any task has a transaction open.                  *)
Callback(r, n) ==
  /\ rpc[r] = "idle"
  /\ n \in links
  /\ ~tx
  /\ tx' = TRUE
  /\ state' = [state EXCEPT ![r] = n]
  /\ Proceed(r, "select")
  /\ UNCHANGED <<auths, vault, disk, consents, strands, got, history, failures>>

SelectNonce(r) ==
  /\ rpc[r] = "select"
  /\ Proceed(r, IF state[r] \in auths THEN "delete" ELSE "commitUnknown")
  /\ UNCHANGED <<tables, consents, strands, state, got, history, failures>>

CommitUnknown(r) ==
  /\ rpc[r] = "commitUnknown"
  /\ Commit
  /\ Answer(r)
  /\ UNCHANGED <<consents, strands, history, failures>>

(* The DELETE does not look at how many rows it removed.                   *)
DeleteNonce(r) ==
  /\ rpc[r] = "delete"
  /\ Write(auths \ {state[r]}, vault)
  /\ removed' = removed \cup {state[r]}
  /\ Proceed(r, "commitConsume")
  /\ UNCHANGED <<consents, strands, state, got, consumed, revoked, failures>>

(* A statement or the commit fails: rollback, and the answer is 500.       *)
ConsumeFails(r) ==
  /\ rpc[r] \in {"select", "commitUnknown", "delete", "commitConsume"}
  /\ failures < MaxFailures
  /\ failures' = failures + 1
  /\ Rollback
  /\ Answer(r)
  /\ UNCHANGED <<consents, strands, history>>

CommitConsume(r) ==
  /\ rpc[r] = "commitConsume"
  /\ Commit
  /\ consumed' = [consumed EXCEPT ![state[r]] = @ + 1]
  /\ IF state[r] \in expired
     THEN Answer(r)
     ELSE Proceed(r, "exchange") /\ UNCHANGED <<state, got>>
  /\ UNCHANGED <<consents, strands, removed, revoked, failures>>

(* Mutant: whoever authorized is taken for the user who was asked.         *)
MayStoreAnyone(r, u) == u \in User
MayStore(r, u) == u = asked[state[r]].user

(* The code is exchanged for a token of the user in front of the browser,  *)
(* whoever that is; the token's user is looked up and compared.  Either    *)
(* call may fail.                                                          *)
ExchangeCode(r) ==
  /\ rpc[r] = "exchange"
  /\ \/ \E u \in User :
          /\ MayStore(r, u)
          /\ got' = [got EXCEPT ![r] =
               [owner |-> u, scopes |-> asked[state[r]].scopes, consent |-> state[r]]]
          /\ Proceed(r, "store")
          /\ UNCHANGED state
     \/ Answer(r)
  /\ UNCHANGED <<tables, consents, strands, history, failures>>

StoreGrant(r) ==
  /\ rpc[r] = "store"
  /\ Write(auths, [vault EXCEPT ![asked[state[r]].user] = got[r]])
  /\ Proceed(r, "commitStore")
  /\ UNCHANGED <<consents, strands, state, got, history, failures>>

CommitStore(r) ==
  /\ rpc[r] = "commitStore"
  /\ Commit
  /\ Answer(r)
  /\ UNCHANGED <<consents, strands, history, failures>>

-----------------------------------------------------------------------------
(* The other tasks, the clock and the process.                             *)

(* The other tables share the connection: sessions, messages, claims and   *)
(* audit records are written and committed at any time.                    *)
Elsewhere ==
  /\ Commit \/ Write(auths, vault)
  /\ UNCHANGED <<consents, strands, requests, history, failures>>

LinkExpires(n) ==
  /\ n \in links \ expired
  /\ expired' = expired \cup {n}
  /\ UNCHANGED <<tables, asked, links, strands, requests, history, failures>>

(* What was not committed is gone, and so is every task.                   *)
Crash ==
  /\ failures < MaxFailures
  /\ failures' = failures + 1
  /\ Rollback
  /\ at' = [s \in Strand |-> "idle"]
  /\ needs' = [s \in Strand |-> {}]
  /\ seen' = [s \in Strand |-> NoGrant]
  /\ asks' = [s \in Strand |-> NoNonce]
  /\ rpc' = [r \in Request |-> "idle"]
  /\ state' = [r \in Request |-> NoNonce]
  /\ got' = [r \in Request |-> NoGrant]
  /\ UNCHANGED <<consents, history>>

-----------------------------------------------------------------------------
StrandStep(s) ==
  \/ Resolve(s) \/ Refresh(s)
  \/ PutToken(s) \/ CommitPut(s) \/ RereadToken(s)
  \/ Revoke(s) \/ CommitRevoke(s)
  \/ LookupFails(s) \/ CreateNonce(s) \/ CommitNonce(s) \/ SendLink(s)
  \/ Disconnect(s) \/ CommitDisconnect(s) \/ Finish(s)

RequestStep(r) ==
  \/ \E n \in Nonce : Start(r, n) \/ Callback(r, n)
  \/ PurgeExpired(r) \/ CommitPurge(r)
  \/ SelectNonce(r) \/ CommitUnknown(r) \/ DeleteNonce(r) \/ ConsumeFails(r)
  \/ CommitConsume(r) \/ ExchangeCode(r) \/ StoreGrant(r) \/ CommitStore(r)

Next ==
  \/ \E s \in Strand : StrandStep(s)
  \/ \E r \in Request : RequestStep(r)
  \/ Elsewhere
  \/ \E n \in Nonce : LinkExpires(n)
  \/ Crash

Spec == Init /\ [][Next]_vars

-----------------------------------------------------------------------------
StrandSteps ==
  {"idle", "refresh", "put", "commitPut", "reread", "revoke", "commitRevoke",
   "consent", "commitNonce", "rereadNonce", "commitDisconnect", "granted"}
RequestSteps ==
  {"idle", "purge", "commitPurge", "select", "commitUnknown", "delete", "commitConsume",
   "exchange", "store", "commitStore"}

(* Every variable has its type.                                            *)
TypeOK ==
  /\ tx \in BOOLEAN
  /\ auths \subseteq Nonce
  /\ vault \in [User -> Grant \cup {NoGrant}]
  /\ disk \in [auths : SUBSET Nonce, vault : [User -> Grant \cup {NoGrant}]]
  /\ asked \in [Nonce -> Asked \cup {NoGrant}]
  /\ expired \subseteq Nonce /\ links \subseteq Nonce
  /\ at \in [Strand -> StrandSteps]
  /\ needs \in [Strand -> Requirement \cup {{}}]
  /\ seen \in [Strand -> Grant \cup {NoGrant}]
  /\ asks \in [Strand -> Nonce \cup {NoNonce}]
  /\ rpc \in [Request -> RequestSteps]
  /\ state \in [Request -> Nonce \cup {NoNonce}]
  /\ got \in [Request -> Grant \cup {NoGrant}]
  /\ removed \subseteq Nonce /\ revoked \subseteq Nonce
  /\ consumed \in [Nonce -> Nat]
  /\ failures \in 0..MaxFailures

-----------------------------------------------------------------------------
(* Properties.                                                             *)

(* A grant that the connection sees, or that a crash leaves, is the        *)
(* principal's own, and carries exactly the scopes of a link that was sent *)
(* to this principal: not those of somebody else who opened the link, and  *)
(* not more after a refresh. (OAuthRequestHandler.callback, get_valid)     *)
Traces(g, u) ==
  g # NoGrant =>
    /\ g.owner = u
    /\ asked[g.consent] = [user |-> u, scopes |-> g.scopes]
    /\ g.consent \in links
GrantTraces == \A u \in User : Traces(vault[u], u) /\ Traces(disk.vault[u], u)

(* A tool gets a credential only of its own user and only if the consent   *)
(* covers what it requires, although the row is read, refreshed and read   *)
(* again while others replace or delete it. (Authorizer.resolve)           *)
CredentialFits ==
  \A s \in Strand : at[s] = "granted" =>
    /\ Traces(seen[s], Of[s])
    /\ needs[s] \subseteq seen[s].scopes

(* A link that was sent is valid after a crash, until a request deletes    *)
(* its nonce: neither somebody else's rollback nor a missing commit takes  *)
(* it back. (create_pending_auth; README: links survive a restart)         *)
LinksSurvive == \A n \in links \ removed : n \in auths \cap disk.auths

(* A nonce is consumed once (README: "validates and consumes that state    *)
(* once"; consume_pending_auth: "Atomically consume").                     *)
SingleUse == \A n \in Nonce : consumed[n] <= 1

(* What /disconnect reported as removed stays removed (README:             *)
(* "`/disconnect <service>` revokes a TokenVault grant").                  *)
DisconnectHolds ==
  \A u \in User : disk.vault[u] # NoGrant => disk.vault[u].consent \notin revoked
=============================================================================
