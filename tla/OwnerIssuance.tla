---------------------------- MODULE OwnerIssuance ----------------------------
(* Issuing and revoking grants (owner.py and the routes of status.py, main.py *)
(* and cli.py that call it).                                                  *)
(*                                                                            *)
(* A request to issue builds its credential, waits for _ISSUANCE_LOCK, checks *)
(* the store for an equivalent active grant, asks ACA-Py to mint the          *)
(* credential and records the grant.  The asyncio lock is held over the await *)
(* of ACA-Py but belongs to one process, while the status app, the gateway    *)
(* app and the CLI are processes of their own on one store.                   *)
(*                                                                            *)
(* A request stops waiting for ACA-Py when httpx times out or its process     *)
(* dies.  ACA-Py does not stop: the credential may come later, beside what    *)
(* other requests have recorded since.                                        *)
EXTENDS CredentialStore

CONSTANTS
  Processes,  \* processes that can issue: status app, gateway app, CLI
  Requests,   \* concurrent requests to issue
  Unlocked    \* _ISSUANCE_LOCK is free

ASSUME UnlockedAssumption == Unlocked \notin Requests

VARIABLES
  pc,      \* where each request is: "idle" when there is none
  req,     \* process, connection and credential of each request
  credEx,  \* the cred_ex_id ACA-Py answered each request with
  lock,    \* holder of each process's _ISSUANCE_LOCK
  minted,  \* credentials ACA-Py has minted: exchange, connection and payload
  late     \* those it is still to mint, for requests that have ended

issueVars == <<pc, req, credEx, lock, minted, late>>
vars == <<storeVars, issueVars>>

PCs == {"idle", "waiting", "minting", "accepted"}
Request == [proc : Processes, conn : Connections, vc : Credential]
Issued == [exch : Exchanges, conn : Connections, vc : Credential]

RequestsOK ==
  /\ pc \in [Requests -> PCs]
  /\ DOMAIN req = {r \in Requests : pc[r] # "idle"}
  /\ req \in [DOMAIN req -> Request]
  /\ DOMAIN credEx = {r \in Requests : pc[r] = "accepted"}
  /\ credEx \in [DOMAIN credEx -> Exchanges]
  /\ lock \in [Processes -> Requests \cup {Unlocked}]

TypeOK ==
  /\ StoreTypeOK
  /\ RequestsOK
  /\ minted \subseteq Issued /\ late \subseteq Issued

Init ==
  /\ StoreInit
  /\ pc = [r \in Requests |-> "idle"]
  /\ req = [r \in {} |-> {}]
  /\ credEx = [r \in {} |-> {}]
  /\ lock = [p \in Processes |-> Unlocked]
  /\ minted = {} /\ late = {}

------------------------------------------------------------------------------
Without(f, S) == [i \in DOMAIN f \ S |-> f[i]]

(* The store knows an equivalent active grant: the check of the request.      *)
Equivalent(r) == FindEquivalentActiveGrant(req[r].conn, req[r].vc.scope)

Locked(r) == lock[req[r].proc] = r
LockFree(r) == lock[req[r].proc] = Unlocked

(* The requests in R end, with an answer or an error, and leave the lock.     *)
End(R) ==
  /\ pc' = [r \in Requests |-> IF r \in R THEN "idle" ELSE pc[r]]
  /\ req' = Without(req, R)
  /\ credEx' = Without(credEx, R)
  /\ lock' = [p \in Processes |-> IF lock[p] \in R THEN Unlocked ELSE lock[p]]

(* The request arrives: its credential, dates and home included, is built     *)
(* before the lock is awaited.                                                *)
BeginIssue(r, p, c, s, lifetime) ==
  /\ pc[r] = "idle"
  /\ pc' = [pc EXCEPT ![r] = "waiting"]
  /\ req' = [i \in DOMAIN req \cup {r} |->
               IF i = r
               THEN [proc |-> p, conn |-> c, vc |-> BuildCredential(s, lifetime)]
               ELSE req[i]]
  /\ UNCHANGED <<storeVars, credEx, lock, minted, late>>

(* EquivalentActiveGrantError: the caller gets a 409.                         *)
RejectDuplicate(r) ==
  /\ pc[r] = "waiting" /\ LockFree(r)
  /\ Equivalent(r) # {}
  /\ End({r})
  /\ UNCHANGED <<storeVars, minted, late>>

(* Mutant: the check is made without the lock.                                *)
PostUnlocked(r) ==
  /\ pc[r] = "waiting"
  /\ Equivalent(r) = {}
  /\ pc' = [pc EXCEPT ![r] = "minting"]
  /\ lock' = [lock EXCEPT ![req[r].proc] = r]
  /\ UNCHANGED <<storeVars, req, credEx, minted, late>>

(* The scope is free: the request keeps the lock and calls ACA-Py.            *)
PostToAcapy(r) ==
  /\ pc[r] = "waiting" /\ LockFree(r)
  /\ Equivalent(r) = {}
  /\ pc' = [pc EXCEPT ![r] = "minting"]
  /\ lock' = [lock EXCEPT ![req[r].proc] = r]
  /\ UNCHANGED <<storeVars, req, credEx, minted, late>>

(* ACA-Py draws an exchange id for each request it gets.                      *)
Unused == Exchanges \ {m.exch : m \in minted \cup late}
Mint(r, x) == [exch |-> x, conn |-> req[r].conn, vc |-> req[r].vc]

(* ACA-Py mints the credential and answers with its exchange id.              *)
AcapyAccepts(r, x) ==
  /\ pc[r] = "minting"
  /\ x \in Unused
  /\ minted' = minted \cup {Mint(r, x)}
  /\ pc' = [pc EXCEPT ![r] = "accepted"]
  /\ credEx' = [i \in DOMAIN credEx \cup {r} |-> IF i = r THEN x ELSE credEx[i]]
  /\ UNCHANGED <<storeVars, req, lock, late>>

(* Mutant: an exception of the await leaves the lock held.                    *)
RefusesLocked(r) ==
  /\ pc[r] = "minting"
  /\ pc' = [pc EXCEPT ![r] = "idle"]
  /\ req' = Without(req, {r})
  /\ UNCHANGED <<storeVars, credEx, lock, minted, late>>

(* Mutant: an exception of the await leaves the request half open.            *)
RefusesHalfOpen(r) ==
  /\ pc[r] = "minting"
  /\ pc' = [pc EXCEPT ![r] = "idle"]
  /\ lock' = [lock EXCEPT ![req[r].proc] = Unlocked]
  /\ UNCHANGED <<storeVars, req, credEx, minted, late>>

(* ACA-Py refuses, or never gets the request: an HTTPError, a 503.            *)
AcapyRefuses(r) ==
  /\ pc[r] = "minting"
  /\ End({r})
  /\ UNCHANGED <<storeVars, minted, late>>

(* The answer is lost, has no cred_ex_id or does not come before httpx times  *)
(* out: the request fails, and the credential is minted all the same.         *)
AnswerLost(r, x) ==
  /\ pc[r] = "minting"
  /\ x \in Unused
  /\ late' = late \cup {Mint(r, x)}
  /\ End({r})
  /\ UNCHANGED <<storeVars, minted>>

(* ACA-Py mints, at once or much later, what nobody waits for any more.       *)
MintsLate(m) ==
  /\ minted' = minted \cup {m}
  /\ late' = late \ {m}
  /\ UNCHANGED <<storeVars, pc, req, credEx, lock>>

(* Mutant: the record is dated when it is written, not as it was minted.      *)
RememberRedated(r) ==
  /\ pc[r] = "accepted"
  /\ RememberIssuedSuperseding(credEx[r], req[r].conn,
                               [req[r].vc EXCEPT !.issued = now])
  /\ End({r})
  /\ UNCHANGED <<now, home, minted, late>>

(* The grant is recorded and the caller gets the exchange id.                 *)
Remember(r) ==
  /\ pc[r] = "accepted"
  /\ RememberIssuedSuperseding(credEx[r], req[r].conn, req[r].vc)
  /\ End({r})
  /\ UNCHANGED <<now, home, minted, late>>

(* SQLite stays locked for the 5 s of busy_timeout, in the check or in the    *)
(* record: the exception releases the lock and fails the request.             *)
StoreBusy(r) ==
  /\ \/ pc[r] = "waiting" /\ LockFree(r)
     \/ pc[r] = "accepted"
  /\ End({r})
  /\ UNCHANGED <<storeVars, minted, late>>

OwnerRevokesCredential(x) ==
  /\ RevokeCredential(x)
  /\ UNCHANGED <<now, home, issueVars>>

OwnerRevokesConnection(c) ==
  /\ RevokeConnection(c)
  /\ UNCHANGED <<now, home, issueVars>>

(* A process dies with its requests and its lock.  The store stays, and       *)
(* ACA-Py may go on with what it was asked.                                   *)
Crash(p) ==
  LET dead == {r \in DOMAIN req : req[r].proc = p} IN
  /\ dead # {}
  /\ End(dead)
  /\ \/ late' = late
     \/ \E r \in dead, x \in Unused :
          pc[r] = "minting" /\ late' = late \cup {Mint(r, x)}
  /\ UNCHANGED <<storeVars, minted>>

(* The add-on is stopped and started with another home id or issuer.          *)
Reconfigure(h) ==
  /\ DOMAIN req = {}
  /\ home # h
  /\ home' = h
  /\ UNCHANGED <<grants, now, issueVars>>

Clock == Tick /\ UNCHANGED <<grants, home, issueVars>>

Next ==
  \/ \E r \in Requests, p \in Processes, c \in Connections, s \in Scopes,
        l \in Lifetimes : BeginIssue(r, p, c, s, l)
  \/ \E r \in Requests :
       RejectDuplicate(r) \/ PostToAcapy(r) \/ AcapyRefuses(r)
         \/ Remember(r) \/ StoreBusy(r)
  \/ \E r \in Requests, x \in Exchanges : AcapyAccepts(r, x) \/ AnswerLost(r, x)
  \/ \E x \in Exchanges : OwnerRevokesCredential(x)
  \/ \E c \in Connections : OwnerRevokesConnection(c)
  \/ \E m \in late : MintsLate(m)
  \/ \E p \in Processes : Crash(p)
  \/ \E h \in Homes : Reconfigure(h)
  \/ Clock

Spec == Init /\ [][Next]_vars

------------------------------------------------------------------------------
(* Fairness.  asyncio.Lock wakes its waiters in order, so a waiter that is    *)
(* again and again able to take the lock takes it (SF).  httpx gives every    *)
(* call to ACA-Py a timeout, and the event loop runs what is ready (WF).      *)
TakeLock(r) == RejectDuplicate(r) \/ PostToAcapy(r)
AcapyReturns(r) ==
  AcapyRefuses(r) \/ \E x \in Exchanges : AcapyAccepts(r, x) \/ AnswerLost(r, x)

Fairness ==
  \A r \in Requests :
    /\ SF_vars(TakeLock(r))
    /\ WF_vars(AcapyReturns(r))
    /\ WF_vars(Remember(r))

FairSpec == Spec /\ Fairness

------------------------------------------------------------------------------
(* Properties.                                                                *)

(* A request between its check and its record holds its process's lock, and   *)
(* its scope is still free.                                                   *)
ScopeHeld ==
  \A r \in Requests : pc[r] \in {"minting", "accepted"} =>
    Locked(r) /\ Equivalent(r) = {}

(* A request that has its answer can record what ACA-Py minted for it.         *)
AcceptedWasMinted ==
  \A r \in Requests : pc[r] = "accepted" =>
    [exch |-> credEx[r], conn |-> req[r].conn, vc |-> req[r].vc] \in minted

(* A process's _ISSUANCE_LOCK is held by exactly its request that is between  *)
(* check and record: one at a time, and no refusal, error or crash leaves the *)
(* lock with a request that is gone.                                          *)
LockIsOwned ==
  \A p \in Processes, r \in Requests :
    lock[p] = r <=> pc[r] \in {"minting", "accepted"} /\ req[r].proc = p

(* A grant is on file only if ACA-Py minted that very credential, for that    *)
(* connection and under that exchange id: no failed, crashed or repeated      *)
(* request leaves a row behind (owner.py records after the await).            *)
RecordedWasMinted ==
  \A x \in DOMAIN grants :
    [exch |-> x, conn |-> grants[x].conn, vc |-> grants[x].vc] \in minted

(* A grant that was revoked or has expired never comes back, whatever later   *)
(* issuance, revocation, reconfiguration or restart does (COALESCE).          *)
NoResurrection ==
  [][\A x \in DOMAIN grants :
       ~Live(x) => x \in DOMAIN grants' /\ ~Live(x)']_vars

(* Recording a grant that is still good takes access away from nobody: what   *)
(* remember_issued_superseding revokes, the new grant replaces.               *)
IssuingKeepsAccess ==
  [][\A x \in DOMAIN grants' \ DOMAIN grants :
       ~IsExpired(grants'[x].vc) =>
         \A c \in Connections, e \in Entities :
           IsAuthorised(c, e) => IsAuthorised(c, e)']_vars

(* ACA-Py mints no credential for a scope that has an active grant, as the    *)
(* changelog has it (CHANGELOG 0.0.11).                                       *)
MintsOnlyFreeScope ==
  [][\A m \in minted' \ minted :
       FindEquivalentActiveGrant(m.conn, m.vc.scope) = {}]_vars

(* The check made before the await still holds after it: when ACA-Py answers  *)
(* in time its credential is for a scope that is free, and its record takes   *)
(* the place of no other grant.  A late mint alone comes beside a grant.      *)
CheckOutlivesAwait ==
  [][/\ \A m \in (minted' \ minted) \ late :
          FindEquivalentActiveGrant(m.conn, m.vc.scope) = {}
     /\ \A x \in DOMAIN grants' \ DOMAIN grants :
          FindEquivalentActiveGrant(grants'[x].conn, grants'[x].vc.scope) = {}]_vars

(* Of all the credentials minted for one connection and scope, late ones and  *)
(* those of retries and racing processes included, the gate accepts one       *)
(* payload only (is_presented_authorised takes none that is not on file).     *)
OneCredentialCounts ==
  \A m, n \in minted :
    /\ m.conn = n.conn /\ m.vc.scope = n.vc.scope
    /\ \E e \in Entities : IsPresentedAuthorised(m.conn, e, m.vc)
    /\ \E e \in Entities : IsPresentedAuthorised(n.conn, e, n.vc)
    => m.vc = n.vc

(* Every request to issue is answered: nobody is left waiting for the lock,   *)
(* whatever the requests before it ran into.                                  *)
EveryRequestEnds ==
  \A r \in Requests : pc[r] = "waiting" ~> pc[r] = "idle"

==============================================================================
