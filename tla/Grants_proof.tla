---------------------------- MODULE Grants_proof ----------------------------
(***************************************************************************)
(* Theorems about Grants, for any users, strands, requests and nonces.     *)
(*                                                                         *)
(* What a task carries from one await to the next is the heart of the      *)
(* argument: a grant that a strand has read, or a request has obtained,    *)
(* stays a grant its user consented to whatever happens to the tables in   *)
(* the meantime, because a nonce is asked for once and links are never     *)
(* taken back.  So it does not matter which task writes, commits or rolls  *)
(* back last.                                                              *)
(***************************************************************************)
EXTENDS Grants, TLAPS

(* What the step of a task says about its local state and the links.       *)
Shape ==
  /\ \A s \in Strand :
       /\ at[s] \notin {"idle", "commitDisconnect"} => needs[s] \in Requirement
       /\ at[s] \in {"refresh", "put", "granted"} => seen[s] # NoGrant
       /\ at[s] = "granted" => needs[s] \subseteq seen[s].scopes
       /\ at[s] \in {"commitNonce", "rereadNonce"} =>
            asks[s] \in Nonce /\ asked[asks[s]] # NoGrant
  /\ \A r \in Request :
       /\ rpc[r] # "idle" => state[r] \in links
       /\ rpc[r] = "store" => got[r] # NoGrant
       /\ rpc[r] \notin {"store", "commitStore"} => got[r] = NoGrant
  /\ \A n \in links : asked[n] # NoGrant

(* Traces, with the links and what they asked for as parameters, so that   *)
(* a step can be seen not to matter to it.                                 *)
TracesIn(g, u, a, l) ==
  g # NoGrant =>
    /\ g.owner = u
    /\ a[g.consent] = [user |-> u, scopes |-> g.scopes]
    /\ g.consent \in l

(* Stored grants and grants in the hands of a task trace to a consent.     *)
Traced ==
  /\ \A u \in User : TracesIn(vault[u], u, asked, links)
  /\ \A u \in User : TracesIn(disk.vault[u], u, asked, links)
  /\ \A s \in Strand : TracesIn(seen[s], Of[s], asked, links)
  /\ \A r \in Request :
       got[r] # NoGrant => TracesIn(got[r], asked[state[r]].user, asked, links)

(* No grant needs no consent.                                              *)
LEMMA NothingTraces == \A u, a, l : TracesIn(NoGrant, u, a, l)
  BY DEF TracesIn

(* A grant goes on tracing while nonces are asked for and links are sent.  *)
LEMMA TracesStay ==
  ASSUME NEW a, NEW b, NEW l, NEW m, l \subseteq m,
         \A n \in l : b[n] = a[n]
  PROVE  \A g, u : TracesIn(g, u, a, l) => TracesIn(g, u, b, m)
  BY DEF TracesIn

(* Initially there are no grants and no tasks.                             *)
LEMMA InitHolds == Init => TypeOK /\ Shape /\ Traced
<1> SUFFICES ASSUME Init PROVE TypeOK /\ Shape /\ Traced
    OBVIOUS
<1>1. TypeOK
  <2>1. failures \in 0..MaxFailures /\ consumed \in [Nonce -> Nat]
    BY GrantsAssumption DEF Init
  <2>2. disk \in [auths : SUBSET Nonce, vault : [User -> Grant \cup {NoGrant}]]
    BY DEF Init
  <2> QED
    BY <2>1, <2>2 DEF Init, TypeOK, StrandSteps, RequestSteps
<1>2. Shape
  BY DEF Init, Shape
<1>3. Traced
  BY NothingTraces DEF Init, Traced
<1> QED
  BY <1>1, <1>2, <1>3

(* Every step keeps the types.                                             *)
LEMMA TypeStep == TypeOK /\ Shape /\ [Next]_vars => TypeOK'
<1> SUFFICES ASSUME TypeOK, Shape, [Next]_vars PROVE TypeOK'
    OBVIOUS
<1> USE GrantsAssumption
    DEF TypeOK, StrandSteps, RequestSteps, Shape, Grant, Asked, tables, consents,
         strands, requests, history
<1>1. ASSUME NEW s \in Strand, Resolve(s) PROVE TypeOK'
  BY <1>1 DEF Resolve, Goto, Row, Covers
<1>2. ASSUME NEW s \in Strand, Refresh(s) PROVE TypeOK'
  BY <1>2 DEF Refresh, Goto, Done
<1>3. ASSUME NEW s \in Strand, PutToken(s) PROVE TypeOK'
  BY <1>3 DEF PutToken, Goto, Write
<1>4. ASSUME NEW s \in Strand, CommitPut(s) PROVE TypeOK'
  BY <1>4 DEF CommitPut, Goto, Commit
<1>5. ASSUME NEW s \in Strand, RereadToken(s) PROVE TypeOK'
  <2>1. vault[Of[s]] \in Grant \cup {NoGrant}
    OBVIOUS
  <2>2. /\ at' \in [Strand -> StrandSteps]
        /\ seen' \in [Strand -> Grant \cup {NoGrant}]
    BY <1>5, <2>1 DEF RereadToken, Goto, Done, Row, Covers
  <2>3. /\ needs' \in [Strand -> Requirement \cup {{}}]
        /\ asks' \in [Strand -> Nonce \cup {NoNonce}]
    BY <1>5 DEF RereadToken, Done
  <2> QED
    BY <1>5, <2>2, <2>3 DEF RereadToken
<1>6. ASSUME NEW s \in Strand, Revoke(s) PROVE TypeOK'
  BY <1>6 DEF Revoke, Goto, Write, Deleted
<1>7. ASSUME NEW s \in Strand, CommitRevoke(s) PROVE TypeOK'
  BY <1>7 DEF CommitRevoke, Goto, Commit
<1>8. ASSUME NEW s \in Strand, LookupFails(s) PROVE TypeOK'
  BY <1>8 DEF LookupFails, Goto, Done
<1>9. ASSUME NEW s \in Strand, CreateNonce(s) PROVE TypeOK'
  BY <1>9 DEF CreateNonce, Goto, Write
<1>10. ASSUME NEW s \in Strand, CommitNonce(s) PROVE TypeOK'
  BY <1>10 DEF CommitNonce, Goto, Commit
<1>11. ASSUME NEW s \in Strand, SendLink(s) PROVE TypeOK'
  BY <1>11 DEF SendLink, Goto, Done
<1>12. ASSUME NEW s \in Strand, Disconnect(s) PROVE TypeOK'
  BY <1>12 DEF Disconnect, Goto, Write, Row, Deleted
<1>13. ASSUME NEW s \in Strand, CommitDisconnect(s) PROVE TypeOK'
  BY <1>13 DEF CommitDisconnect, Goto, Done, Commit
<1>14. ASSUME NEW s \in Strand, Finish(s) PROVE TypeOK'
  BY <1>14 DEF Finish, Goto, Done
<1>15. ASSUME NEW r \in Request, NEW n \in Nonce, Start(r, n) PROVE TypeOK'
  BY <1>15 DEF Start, Proceed
<1>16. ASSUME NEW r \in Request, NEW n \in Nonce, Callback(r, n) PROVE TypeOK'
  BY <1>16 DEF Callback, Proceed
<1>17. ASSUME NEW r \in Request, PurgeExpired(r) PROVE TypeOK'
  BY <1>17 DEF PurgeExpired, Proceed, Write
<1>18. ASSUME NEW r \in Request, CommitPurge(r) PROVE TypeOK'
  BY <1>18 DEF CommitPurge, Proceed, Answer, Commit
<1>19. ASSUME NEW r \in Request, SelectNonce(r) PROVE TypeOK'
  BY <1>19 DEF SelectNonce, Proceed
<1>20. ASSUME NEW r \in Request, CommitUnknown(r) PROVE TypeOK'
  BY <1>20 DEF CommitUnknown, Proceed, Answer, Commit
<1>21. ASSUME NEW r \in Request, DeleteNonce(r) PROVE TypeOK'
  BY <1>21 DEF DeleteNonce, Proceed, Write
<1>22. ASSUME NEW r \in Request, ConsumeFails(r) PROVE TypeOK'
  <2>1. disk.auths \subseteq Nonce /\ disk.vault \in [User -> Grant \cup {NoGrant}]
    OBVIOUS
  <2>2. failures + 1 \in 0..MaxFailures
    BY <1>22 DEF ConsumeFails
  <2> QED
    BY <1>22, <2>1, <2>2 DEF ConsumeFails, Proceed, Answer, Rollback
<1>23. ASSUME NEW r \in Request, CommitConsume(r) PROVE TypeOK'
  <2>1. consumed' \in [Nonce -> Nat]
    BY <1>23 DEF CommitConsume
  <2>2. disk' \in [auths : SUBSET Nonce, vault : [User -> Grant \cup {NoGrant}]]
    BY <1>23 DEF CommitConsume, Commit
  <2>3. /\ rpc' \in [Request -> RequestSteps]
        /\ state' \in [Request -> Nonce \cup {NoNonce}]
        /\ got' \in [Request -> Grant \cup {NoGrant}]
    BY <1>23 DEF CommitConsume, Answer, Proceed
  <2>4. /\ tx' = FALSE
        /\ UNCHANGED <<auths, vault, consents, strands, removed, revoked, failures>>
    BY <1>23 DEF CommitConsume, Commit
  <2> QED
    BY <2>1, <2>2, <2>3, <2>4
<1>24. ASSUME NEW r \in Request, ExchangeCode(r) PROVE TypeOK'
  BY <1>24 DEF ExchangeCode, Proceed, Answer, MayStore
<1>25. ASSUME NEW r \in Request, StoreGrant(r) PROVE TypeOK'
  BY <1>25 DEF StoreGrant, Proceed, Write
<1>26. ASSUME NEW r \in Request, CommitStore(r) PROVE TypeOK'
  BY <1>26 DEF CommitStore, Proceed, Answer, Commit
<1>27. ASSUME Elsewhere PROVE TypeOK'
  <2>1. CASE Commit
    BY <1>27, <2>1 DEF Elsewhere, Commit
  <2>2. CASE Write(auths, vault)
    BY <1>27, <2>2 DEF Elsewhere, Write
  <2> QED
    BY <1>27, <2>1, <2>2 DEF Elsewhere
<1>28. ASSUME NEW n \in Nonce, LinkExpires(n) PROVE TypeOK'
  BY <1>28 DEF LinkExpires
<1>29. ASSUME Crash PROVE TypeOK'
  <2>1. disk.auths \subseteq Nonce /\ disk.vault \in [User -> Grant \cup {NoGrant}]
    OBVIOUS
  <2>2. failures + 1 \in 0..MaxFailures
    BY <1>29 DEF Crash
  <2> QED
    BY <1>29, <2>1, <2>2 DEF Crash, Rollback
<1>30. CASE UNCHANGED vars
  BY <1>30 DEF vars
<1> QED
  BY <1>1, <1>2, <1>3, <1>4, <1>5, <1>6, <1>7, <1>8, <1>9, <1>10, <1>11, <1>12,
     <1>13, <1>14, <1>15, <1>16, <1>17, <1>18, <1>19, <1>20, <1>21, <1>22,
     <1>23, <1>24, <1>25, <1>26, <1>27, <1>28, <1>29, <1>30
  DEF Next, StrandStep, RequestStep

(* Every step keeps Shape: tasks change only their own local state.        *)
LEMMA ShapeStep == TypeOK /\ Shape /\ [Next]_vars => Shape'
<1> SUFFICES ASSUME TypeOK, Shape, [Next]_vars PROVE Shape'
    OBVIOUS
<1> USE GrantsAssumption
    DEF TypeOK, Shape, tables, consents, strands, requests, history
<1>1. ASSUME NEW s \in Strand, Resolve(s) PROVE Shape'
  BY <1>1 DEF Resolve, Goto, Row, Covers
<1>2. ASSUME NEW s \in Strand, Refresh(s) PROVE Shape'
  <2>1. seen[s] \in Grant
    BY <1>2 DEF Refresh
  <2>2. [seen[s] EXCEPT !.scopes = seen[s].scopes] = seen[s]
    BY <2>1 DEF Grant
  <2>3. seen' = seen \/ seen' = [seen EXCEPT ![s] = NoGrant]
    BY <1>2, <2>2 DEF Refresh, Goto, Done
  <2>4. at'[s] \in {"put", "revoke"} => needs' = needs /\ asks' = asks /\ seen'[s] # NoGrant
    BY <1>2, <2>1, <2>2 DEF Refresh, Goto, Done
  <2>5. at'[s] \in {"put", "revoke", "idle"}
    BY <1>2 DEF Refresh, Goto, Done
  <2>6. \A t \in Strand \ {s} : at'[t] = at[t] /\ needs'[t] = needs[t]
                                /\ seen'[t] = seen[t] /\ asks'[t] = asks[t]
    BY <1>2, <2>3 DEF Refresh, Goto, Done
  <2> QED
    BY <1>2, <2>4, <2>5, <2>6 DEF Refresh
<1>3. ASSUME NEW s \in Strand, PutToken(s) PROVE Shape'
  BY <1>3 DEF PutToken, Goto, Write
<1>4. ASSUME NEW s \in Strand, CommitPut(s) PROVE Shape'
  BY <1>4 DEF CommitPut, Goto, Commit
<1>5. ASSUME NEW s \in Strand, RereadToken(s) PROVE Shape'
  BY <1>5 DEF RereadToken, Goto, Done, Row, Covers
<1>6. ASSUME NEW s \in Strand, Revoke(s) PROVE Shape'
  BY <1>6 DEF Revoke, Goto, Write, Deleted
<1>7. ASSUME NEW s \in Strand, CommitRevoke(s) PROVE Shape'
  BY <1>7 DEF CommitRevoke, Goto, Commit
<1>8. ASSUME NEW s \in Strand, LookupFails(s) PROVE Shape'
  BY <1>8 DEF LookupFails, Goto, Done
<1>9. ASSUME NEW s \in Strand, CreateNonce(s) PROVE Shape'
  <2>1. PICK n \in Nonce :
          /\ asked[n] = NoGrant
          /\ asked' = [asked EXCEPT ![n] = [user |-> Of[s], scopes |-> needs[s]]]
          /\ asks' = [asks EXCEPT ![s] = n]
    BY <1>9 DEF CreateNonce
  <2>2. [user |-> Of[s], scopes |-> needs[s]] \in Asked
    BY <1>9 DEF CreateNonce, Asked
  <2>3. \A k \in Nonce : asked[k] # NoGrant => asked'[k] # NoGrant
    BY <2>1, <2>2
  <2>4. asked'[n] # NoGrant
    BY <2>1, <2>2
  <2> QED
    BY <1>9, <2>1, <2>3, <2>4 DEF CreateNonce, Goto
<1>10. ASSUME NEW s \in Strand, CommitNonce(s) PROVE Shape'
  BY <1>10 DEF CommitNonce, Goto, Commit
<1>11. ASSUME NEW s \in Strand, SendLink(s) PROVE Shape'
  BY <1>11 DEF SendLink, Goto, Done
<1>12. ASSUME NEW s \in Strand, Disconnect(s) PROVE Shape'
  BY <1>12 DEF Disconnect, Goto, Write, Row, Deleted
<1>13. ASSUME NEW s \in Strand, CommitDisconnect(s) PROVE Shape'
  BY <1>13 DEF CommitDisconnect, Goto, Done, Commit
<1>14. ASSUME NEW s \in Strand, Finish(s) PROVE Shape'
  BY <1>14 DEF Finish, Goto, Done
<1>15. ASSUME NEW r \in Request, NEW n \in Nonce, Start(r, n) PROVE Shape'
  BY <1>15 DEF Start, Proceed
<1>16. ASSUME NEW r \in Request, NEW n \in Nonce, Callback(r, n) PROVE Shape'
  BY <1>16 DEF Callback, Proceed
<1>17. ASSUME NEW r \in Request, PurgeExpired(r) PROVE Shape'
  BY <1>17 DEF PurgeExpired, Proceed, Write
<1>18. ASSUME NEW r \in Request, CommitPurge(r) PROVE Shape'
  BY <1>18 DEF CommitPurge, Proceed, Answer, Commit
<1>19. ASSUME NEW r \in Request, SelectNonce(r) PROVE Shape'
  BY <1>19 DEF SelectNonce, Proceed
<1>20. ASSUME NEW r \in Request, CommitUnknown(r) PROVE Shape'
  BY <1>20 DEF CommitUnknown, Proceed, Answer, Commit
<1>21. ASSUME NEW r \in Request, DeleteNonce(r) PROVE Shape'
  BY <1>21 DEF DeleteNonce, Proceed, Write
<1>22. ASSUME NEW r \in Request, ConsumeFails(r) PROVE Shape'
  BY <1>22 DEF ConsumeFails, Proceed, Answer, Rollback
<1>23. ASSUME NEW r \in Request, CommitConsume(r) PROVE Shape'
  BY <1>23 DEF CommitConsume, Proceed, Answer, Commit
<1>24. ASSUME NEW r \in Request, ExchangeCode(r) PROVE Shape'
  <2>1. CASE Answer(r)
    BY <1>24, <2>1 DEF ExchangeCode, Answer, Proceed
  <2>2. ASSUME NEW u \in User,
               got' = [got EXCEPT ![r] = [owner |-> u, scopes |-> asked[state[r]].scopes,
                                          consent |-> state[r]]],
               Proceed(r, "store"), UNCHANGED state
        PROVE  Shape'
    <3>1. [owner |-> u, scopes |-> asked[state[r]].scopes, consent |-> state[r]] \in Grant
      BY <1>24 DEF ExchangeCode, Grant, Asked
    <3> QED
      BY <1>24, <2>2, <3>1 DEF ExchangeCode, Proceed
  <2> QED
    BY <1>24, <2>1, <2>2 DEF ExchangeCode
<1>25. ASSUME NEW r \in Request, StoreGrant(r) PROVE Shape'
  BY <1>25 DEF StoreGrant, Proceed, Write
<1>26. ASSUME NEW r \in Request, CommitStore(r) PROVE Shape'
  BY <1>26 DEF CommitStore, Proceed, Answer, Commit
<1>27. ASSUME Elsewhere PROVE Shape'
  BY <1>27 DEF Elsewhere, Commit, Write
<1>28. ASSUME NEW n \in Nonce, LinkExpires(n) PROVE Shape'
  BY <1>28 DEF LinkExpires
<1>29. ASSUME Crash PROVE Shape'
  BY <1>29 DEF Crash, Rollback
<1>30. CASE UNCHANGED vars
  BY <1>30 DEF vars
<1> QED
  BY <1>1, <1>2, <1>3, <1>4, <1>5, <1>6, <1>7, <1>8, <1>9, <1>10, <1>11, <1>12,
     <1>13, <1>14, <1>15, <1>16, <1>17, <1>18, <1>19, <1>20, <1>21, <1>22,
     <1>23, <1>24, <1>25, <1>26, <1>27, <1>28, <1>29, <1>30
  DEF Next, StrandStep, RequestStep

(* No step makes up a grant, gives one to another user or widens it.       *)
LEMMA TracedStep == TypeOK /\ Shape /\ Traced /\ [Next]_vars => Traced'
<1> SUFFICES ASSUME TypeOK, Shape, Traced, [Next]_vars PROVE Traced'
    OBVIOUS
<1> USE GrantsAssumption, NothingTraces, TracesStay
    DEF TypeOK, Shape, Traced, tables, consents, strands, requests, history
<1>1. ASSUME NEW s \in Strand, Resolve(s) PROVE Traced'
  BY <1>1 DEF Resolve, Goto, Row, Covers
<1>2. ASSUME NEW s \in Strand, Refresh(s) PROVE Traced'
  <2>1. seen[s] \in Grant
    BY <1>2 DEF Refresh
  <2>2. [seen[s] EXCEPT !.scopes = seen[s].scopes] = seen[s]
    BY <2>1 DEF Grant
  <2>3. seen' = seen \/ seen' = [seen EXCEPT ![s] = NoGrant]
    BY <1>2, <2>2 DEF Refresh, Goto, Done
  <2> QED
    BY <1>2, <2>3 DEF Refresh, Goto, Done
<1>3. ASSUME NEW s \in Strand, PutToken(s) PROVE Traced'
  BY <1>3 DEF PutToken, Goto, Write
<1>4. ASSUME NEW s \in Strand, CommitPut(s) PROVE Traced'
  BY <1>4 DEF CommitPut, Goto, Commit
<1>5. ASSUME NEW s \in Strand, RereadToken(s) PROVE Traced'
  BY <1>5 DEF RereadToken, Goto, Done, Row, Covers
<1>6. ASSUME NEW s \in Strand, Revoke(s) PROVE Traced'
  BY <1>6 DEF Revoke, Goto, Write, Deleted
<1>7. ASSUME NEW s \in Strand, CommitRevoke(s) PROVE Traced'
  BY <1>7 DEF CommitRevoke, Goto, Commit
<1>8. ASSUME NEW s \in Strand, LookupFails(s) PROVE Traced'
  BY <1>8 DEF LookupFails, Goto, Done
<1>9. ASSUME NEW s \in Strand, CreateNonce(s) PROVE Traced'
  <2>1. PICK n \in Nonce :
          /\ asked[n] = NoGrant
          /\ asked' = [asked EXCEPT ![n] = [user |-> Of[s], scopes |-> needs[s]]]
    BY <1>9 DEF CreateNonce
  <2>2. \A k \in links : asked'[k] = asked[k]
    BY <2>1
  <2>3. \A g, u : TracesIn(g, u, asked, links) => TracesIn(g, u, asked', links)
    BY <2>2, TracesStay
  <2>4. \A p \in Request : got[p] # NoGrant => asked'[state[p]] = asked[state[p]]
    BY <2>2
  <2> QED
    BY <1>9, <2>3, <2>4 DEF CreateNonce, Goto, Write
<1>10. ASSUME NEW s \in Strand, CommitNonce(s) PROVE Traced'
  BY <1>10 DEF CommitNonce, Goto, Commit
<1>11. ASSUME NEW s \in Strand, SendLink(s) PROVE Traced'
  BY <1>11 DEF SendLink, Goto, Done
<1>12. ASSUME NEW s \in Strand, Disconnect(s) PROVE Traced'
  BY <1>12 DEF Disconnect, Goto, Write, Row, Deleted
<1>13. ASSUME NEW s \in Strand, CommitDisconnect(s) PROVE Traced'
  BY <1>13 DEF CommitDisconnect, Goto, Done, Commit
<1>14. ASSUME NEW s \in Strand, Finish(s) PROVE Traced'
  BY <1>14 DEF Finish, Goto, Done
<1>15. ASSUME NEW r \in Request, NEW n \in Nonce, Start(r, n) PROVE Traced'
  BY <1>15 DEF Start, Proceed
<1>16. ASSUME NEW r \in Request, NEW n \in Nonce, Callback(r, n) PROVE Traced'
  BY <1>16 DEF Callback, Proceed
<1>17. ASSUME NEW r \in Request, PurgeExpired(r) PROVE Traced'
  BY <1>17 DEF PurgeExpired, Proceed, Write
<1>18. ASSUME NEW r \in Request, CommitPurge(r) PROVE Traced'
  BY <1>18 DEF CommitPurge, Proceed, Answer, Commit
<1>19. ASSUME NEW r \in Request, SelectNonce(r) PROVE Traced'
  BY <1>19 DEF SelectNonce, Proceed
<1>20. ASSUME NEW r \in Request, CommitUnknown(r) PROVE Traced'
  BY <1>20 DEF CommitUnknown, Proceed, Answer, Commit
<1>21. ASSUME NEW r \in Request, DeleteNonce(r) PROVE Traced'
  BY <1>21 DEF DeleteNonce, Proceed, Write
<1>22. ASSUME NEW r \in Request, ConsumeFails(r) PROVE Traced'
  BY <1>22 DEF ConsumeFails, Proceed, Answer, Rollback
<1>23. ASSUME NEW r \in Request, CommitConsume(r) PROVE Traced'
  BY <1>23 DEF CommitConsume, Proceed, Answer, Commit
<1>24. ASSUME NEW r \in Request, ExchangeCode(r) PROVE Traced'
  <2>1. CASE Answer(r)
    BY <1>24, <2>1 DEF ExchangeCode, Answer, Proceed
  <2>2. ASSUME NEW u \in User, MayStore(r, u),
               got' = [got EXCEPT ![r] = [owner |-> u, scopes |-> asked[state[r]].scopes,
                                          consent |-> state[r]]],
               UNCHANGED state
        PROVE  Traced'
    <3>1. asked[state[r]] \in Asked /\ asked[state[r]].user = u
      BY <1>24, <2>2 DEF ExchangeCode, MayStore
    <3>2. asked[state[r]] = [user |-> u, scopes |-> asked[state[r]].scopes]
      BY <3>1 DEF Asked
    <3>3. TracesIn([owner |-> u, scopes |-> asked[state[r]].scopes, consent |-> state[r]],
                   asked[state[r]].user, asked, links)
      BY <1>24, <3>1, <3>2 DEF ExchangeCode, TracesIn
    <3> QED
      BY <1>24, <2>2, <3>3 DEF ExchangeCode
  <2> QED
    BY <1>24, <2>1, <2>2 DEF ExchangeCode
<1>25. ASSUME NEW r \in Request, StoreGrant(r) PROVE Traced'
  BY <1>25 DEF StoreGrant, Proceed, Write
<1>26. ASSUME NEW r \in Request, CommitStore(r) PROVE Traced'
  BY <1>26 DEF CommitStore, Proceed, Answer, Commit
<1>27. ASSUME Elsewhere PROVE Traced'
  BY <1>27 DEF Elsewhere, Commit, Write
<1>28. ASSUME NEW n \in Nonce, LinkExpires(n) PROVE Traced'
  BY <1>28 DEF LinkExpires
<1>29. ASSUME Crash PROVE Traced'
  BY <1>29 DEF Crash, Rollback
<1>30. CASE UNCHANGED vars
  BY <1>30 DEF vars
<1> QED
  BY <1>1, <1>2, <1>3, <1>4, <1>5, <1>6, <1>7, <1>8, <1>9, <1>10, <1>11, <1>12,
     <1>13, <1>14, <1>15, <1>16, <1>17, <1>18, <1>19, <1>20, <1>21, <1>22,
     <1>23, <1>24, <1>25, <1>26, <1>27, <1>28, <1>29, <1>30
  DEF Next, StrandStep, RequestStep

(* The inductive invariant.                                                *)
LEMMA Invariant == Spec => [](TypeOK /\ Shape /\ Traced)
<1>1. TypeOK /\ Shape /\ Traced /\ [Next]_vars => (TypeOK /\ Shape /\ Traced)'
  BY TypeStep, ShapeStep, TracedStep
<1> QED
  BY <1>1, InitHolds, PTL DEF Spec

(* Every variable keeps its type.                                          *)
THEOREM TypesHold == Spec => []TypeOK
  BY Invariant, PTL

(* Whatever is stored, in the transaction or on disk, is the principal's   *)
(* own consent, with no more scopes than she was asked for.                *)
THEOREM GrantsTrace == Spec => []GrantTraces
<1>1. Traced => GrantTraces
  BY DEF Traced, GrantTraces, Traces, TracesIn
<1> QED
  BY <1>1, Invariant, PTL

(* A tool gets only its user's credential, and one that covers its needs.  *)
THEOREM CredentialsFit == Spec => []CredentialFits
<1>1. Shape /\ Traced => CredentialFits
  BY DEF Shape, Traced, CredentialFits, Traces, TracesIn
<1> QED
  BY <1>1, Invariant, PTL

-----------------------------------------------------------------------------
(* Links survive.  A strand that is about to send its link has committed   *)
(* the nonce, or somebody's rollback has taken it back: it never sees a    *)
(* nonce that only the open transaction holds.                             *)
Written ==
  \A s \in Strand : at[s] = "rereadNonce" /\ asks[s] \in auths => asks[s] \in disk.auths

(* What a step may do to the pending nonces: keep them, add one that       *)
(* nobody asked with, delete the nonce of a request, commit, roll back.    *)
Kept == UNCHANGED <<auths, removed>> /\ disk'.auths = disk.auths
Added(n) == auths' = auths \cup {n} /\ removed' = removed /\ disk'.auths = disk.auths
Cut(n) == auths' = auths \ {n} /\ removed' = removed \cup {n} /\ disk'.auths = disk.auths
Saved == auths' = auths /\ removed' = removed /\ disk'.auths = auths
Undone == auths' = disk.auths /\ removed' = removed /\ disk'.auths = disk.auths
Moves == Kept \/ Saved \/ Undone \/ (\E n \in Nonce : Cut(n))

(* Whatever happens to the tables, a link that was sent keeps its row.     *)
LEMMA LinksStay ==
  ASSUME LinksSurvive, Moves, UNCHANGED links
  PROVE  LinksSurvive'
  BY DEF LinksSurvive, Moves, Kept, Cut, Saved, Undone

(* And a strand with a nonce in hand finds it only where it is saved.      *)
LEMMA WrittenStays ==
  ASSUME Written, Moves,
         \A s \in Strand :
           at'[s] = "rereadNonce" => at[s] = "rereadNonce" /\ asks'[s] = asks[s]
  PROVE  Written'
  BY DEF Written, Moves, Kept, Cut, Saved, Undone

(* The step of a strand that touches neither nonces nor links.             *)
Aside(s) ==
  /\ Kept \/ Saved
  /\ UNCHANGED links
  /\ \A t \in Strand :
       at'[t] = "rereadNonce" => at[t] = "rereadNonce" /\ asks'[t] = asks[t]

(* Most steps of a strand are of this kind.                                *)
LEMMA StrandAside ==
  ASSUME TypeOK, NEW s \in Strand,
         \/ Resolve(s) \/ Refresh(s) \/ PutToken(s) \/ CommitPut(s) \/ RereadToken(s)
         \/ Revoke(s) \/ CommitRevoke(s) \/ LookupFails(s)
         \/ Disconnect(s) \/ CommitDisconnect(s) \/ Finish(s)
  PROVE  Aside(s)
<1> USE DEF TypeOK, Aside, Kept, Saved, Goto, Done, Write, Commit,
         tables, consents, strands, requests, history
<1>1. CASE Resolve(s)
  BY <1>1 DEF Resolve
<1>2. CASE Refresh(s)
  BY <1>2 DEF Refresh
<1>3. CASE PutToken(s)
  BY <1>3 DEF PutToken
<1>4. CASE CommitPut(s)
  BY <1>4 DEF CommitPut
<1>5. CASE RereadToken(s)
  BY <1>5 DEF RereadToken
<1>6. CASE Revoke(s)
  BY <1>6 DEF Revoke
<1>7. CASE CommitRevoke(s)
  BY <1>7 DEF CommitRevoke
<1>8. CASE LookupFails(s)
  BY <1>8 DEF LookupFails
<1>9. CASE Disconnect(s)
  BY <1>9 DEF Disconnect
<1>10. CASE CommitDisconnect(s)
  BY <1>10 DEF CommitDisconnect
<1>11. CASE Finish(s)
  BY <1>11 DEF Finish
<1> QED
  BY <1>1, <1>2, <1>3, <1>4, <1>5, <1>6, <1>7, <1>8, <1>9, <1>10, <1>11

(* A request moves the tables, never a strand or a link.                   *)
LEMMA RequestMoves ==
  ASSUME TypeOK, Shape, NEW r \in Request, RequestStep(r)
  PROVE  Moves /\ UNCHANGED <<links, at, asks>>
<1> USE DEF TypeOK, Shape, Moves, Kept, Cut, Saved, Undone, Write, Commit, Rollback,
         tables, consents, strands, requests, history
<1>1. ASSUME NEW n \in Nonce, Start(r, n) \/ Callback(r, n)
      PROVE  Moves /\ UNCHANGED <<links, at, asks>>
  BY <1>1 DEF Start, Callback
<1>2. CASE PurgeExpired(r) \/ DeleteNonce(r)
  BY <1>2 DEF PurgeExpired, DeleteNonce
<1>3. CASE CommitPurge(r) \/ CommitUnknown(r) \/ CommitConsume(r) \/ CommitStore(r)
  BY <1>3 DEF CommitPurge, CommitUnknown, CommitConsume, CommitStore
<1>4. CASE SelectNonce(r) \/ ExchangeCode(r) \/ StoreGrant(r)
  BY <1>4 DEF SelectNonce, ExchangeCode, StoreGrant
<1>5. CASE ConsumeFails(r)
  BY <1>5 DEF ConsumeFails
<1> QED
  BY <1>1, <1>2, <1>3, <1>4, <1>5 DEF RequestStep

(* A link is sent only for a nonce that is on disk, and nothing but a      *)
(* request takes it away.                                                  *)
LEMMA LinksStep ==
  TypeOK /\ Shape /\ Written /\ LinksSurvive /\ [Next]_vars => (Written /\ LinksSurvive)'
<1> SUFFICES ASSUME TypeOK, Shape, Written, LinksSurvive, [Next]_vars
             PROVE  (Written /\ LinksSurvive)'
    OBVIOUS
<1>1. ASSUME NEW s \in Strand, Aside(s) PROVE (Written /\ LinksSurvive)'
  BY <1>1, LinksStay, WrittenStays DEF Aside, Moves
<1>2. ASSUME NEW s \in Strand, CreateNonce(s) PROVE (Written /\ LinksSurvive)'
  <2>1. PICK n \in Nonce : asked[n] = NoGrant /\ Added(n)
    BY <1>2 DEF CreateNonce, Write, Added, history
  <2>2. \A t \in Strand :
          at'[t] = "rereadNonce" => at[t] = "rereadNonce" /\ asks'[t] = asks[t]
    BY <1>2 DEF CreateNonce, Goto, TypeOK
  <2>3. \A t \in Strand : at[t] = "rereadNonce" => asks[t] # n
    BY <2>1 DEF Shape
  <2>4. Written'
    BY <2>1, <2>2, <2>3 DEF Written, Added
  <2> QED
    BY <1>2, <2>1, <2>4 DEF CreateNonce, LinksSurvive, Added
<1>3. ASSUME NEW s \in Strand, CommitNonce(s) PROVE (Written /\ LinksSurvive)'
  <2>1. Saved /\ UNCHANGED links
    BY <1>3 DEF CommitNonce, Commit, Saved, consents, history
  <2> QED
    BY <2>1, LinksStay DEF Saved, Moves, Written
<1>4. ASSUME NEW s \in Strand, SendLink(s) PROVE (Written /\ LinksSurvive)'
  <2>1. Kept
    BY <1>4 DEF SendLink, Kept, tables, history
  <2>2. \A t \in Strand :
          at'[t] = "rereadNonce" => at[t] = "rereadNonce" /\ asks'[t] = asks[t]
    BY <1>4 DEF SendLink, Goto, Done, TypeOK
  <2>3. \A n \in links' : n \in links \/ n \in auths \cap disk.auths
    BY <1>4 DEF SendLink, Written
  <2>4. LinksSurvive'
    BY <2>1, <2>3 DEF LinksSurvive, Kept
  <2> QED
    BY <2>1, <2>2, <2>4, WrittenStays DEF Moves
<1>5. ASSUME NEW r \in Request, RequestStep(r) PROVE (Written /\ LinksSurvive)'
  BY <1>5, RequestMoves, LinksStay, WrittenStays
<1>6. CASE Elsewhere
  <2>1. Moves /\ UNCHANGED <<links, at, asks>>
    BY <1>6 DEF Elsewhere, Commit, Write, Moves, Kept, Saved, consents, strands, history
  <2> QED
    BY <2>1, LinksStay, WrittenStays
<1>7. ASSUME NEW n \in Nonce, LinkExpires(n) PROVE (Written /\ LinksSurvive)'
  BY <1>7 DEF LinkExpires, Written, LinksSurvive, tables, strands, history
<1>8. CASE Crash
  <2>1. Undone /\ UNCHANGED links /\ at' = [s \in Strand |-> "idle"]
    BY <1>8 DEF Crash, Rollback, Undone, consents, history
  <2> QED
    BY <2>1, LinksStay DEF Undone, Moves, Written
<1>9. CASE UNCHANGED vars
  BY <1>9 DEF vars, tables, consents, strands, history, Written, LinksSurvive
<1> QED
  BY <1>1, <1>2, <1>3, <1>4, <1>5, <1>6, <1>7, <1>8, <1>9, StrandAside
  DEF Next, StrandStep

(* A link that was sent is valid after a crash until a request deletes its *)
(* nonce: the row is committed before it is read back for the link, and a  *)
(* rollback, whoever's it is, goes back to a state that has the row.       *)
THEOREM LinksHold == Spec => []LinksSurvive
<1>1. Init => Written /\ LinksSurvive
  BY DEF Init, Written, LinksSurvive
<1> QED
  BY <1>1, LinksStep, Invariant, PTL DEF Spec
=============================================================================
