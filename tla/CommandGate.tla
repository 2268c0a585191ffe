----------------------------- MODULE CommandGate -----------------------------
(* A command on its way from a webhook to Home Assistant: _handle_basic_message *)
(* and _execute_proven_command of main.py, request_proof and the command table *)
(* of proofs.py, over the credential store.                                   *)
(*                                                                            *)
(* Every webhook delivery is a handler, an asyncio task of the gateway app.   *)
(* Between two awaits a handler runs alone in its process (running), but      *)
(* every SQLite transaction is a step of its own: the status app and the CLI  *)
(* change grants between any two of them.  A crash ends every handler; the    *)
(* SQLite file, ACA-Py and Home Assistant go on.                              *)
(*                                                                            *)
(* Abstractions.  The random challenge of a proof request is the handler that *)
(* asked.  An exchange no handler will read again (its send failed, or its    *)
(* handler is gone) is left out.  A crashed gateway is up again at once.      *)
EXTENDS CredentialStore

CONSTANTS
  Handlers,       \* webhook deliveries
  RequestIds,     \* JSON-RPC ids a controller uses
  Subjects,       \* holder did:keys
  SubjectOf,      \* the subject of each scope
  ProofTimeout,   \* PROOF_TIMEOUT
  Retention,      \* COMMAND_RETENTION
  MaxPending,     \* MAX_PENDING
  BadRequest,     \* stands for the content parse_request refuses
  Nobody,         \* no handler is between two awaits
  None            \* no message, claim, presentation or credential

ASSUME GateAssumption ==
  /\ SubjectOf \in [Scopes -> Subjects]
  /\ ProofTimeout \in Nat /\ Retention \in Nat /\ MaxPending \in Nat
  /\ Nobody \notin Handlers
  /\ BadRequest \notin Entities

VARIABLES
  claims,     \* proof_commands: the row of each connection and request id
  running,    \* the handler between two awaits
  pc,         \* where each handler is
  msg,        \* the basic message each handler was started with
  claimed,    \* created_at of the row each handler inserted
  proof,      \* each handler's presentation exchange at ACA-Py
  presented,  \* the presentation whose credential request_proof returned
  basis,      \* history: the grants the presented payload was found in
  call,       \* each handler's service call, on the wire or in Home Assistant
  outcome     \* the answer each handler sends

gateVars ==
  <<claims, running, pc, msg, claimed, proof, presented, basis, call, outcome>>
vars == <<storeVars, gateVars>>

Before == {"authorise", "claim"}
AfterClaim ==
  {"build", "send", "poll", "delete", "recheck", "call", "ha", "finish"}
PCs == {"idle", "done", "lost", "reply"} \cup Before \cup AfterClaim

Message ==
  [conn : Connections, id : RequestIds, entity : Entities \cup {BadRequest}]
Presentation ==
  [vc : Credential, signer : Subjects, challenge : Handlers, verified : BOOLEAN]
ClaimRow == [created : Nat, pending : BOOLEAN]
Exchange ==
  [state : {"none", "sent", "done", "left"}, deadline : Nat,
   vp : Presentation \cup {None}]
Outcomes == {"none", "rejected", "unauthorised", "unproven", "failed", "ok"}

ASSUME NoneAssumption ==
  None \notin Nat \cup Message \cup ClaimRow \cup Presentation

TypeOK ==
  /\ StoreTypeOK
  /\ claims \in [Connections \X RequestIds -> ClaimRow \cup {None}]
  /\ running \in Handlers \cup {Nobody}
  /\ pc \in [Handlers -> PCs]
  /\ msg \in [Handlers -> Message \cup {None}]
  /\ claimed \in [Handlers -> Nat \cup {None}]
  /\ proof \in [Handlers -> Exchange]
  /\ presented \in [Handlers -> Presentation \cup {None}]
  /\ basis \in [Handlers -> SUBSET Exchanges]
  /\ call \in [Handlers -> {"none", "sent", "executed"}]
  /\ outcome \in [Handlers -> Outcomes]
  /\ \A h \in Handlers :
       /\ pc[h] # "idle" => msg[h] # None
       /\ pc[h] \in AfterClaim => claimed[h] # None

ExchangeIn(state, deadline, vp) ==
  [state |-> state, deadline |-> deadline, vp |-> vp]
NoExchange == ExchangeIn("none", 0, None)
Unread == ExchangeIn("left", 0, None)

Init ==
  /\ StoreInit
  /\ claims = [k \in Connections \X RequestIds |-> None]
  /\ running = Nobody
  /\ pc = [h \in Handlers |-> "idle"]
  /\ msg = [h \in Handlers |-> None]
  /\ claimed = [h \in Handlers |-> None]
  /\ proof = [h \in Handlers |-> NoExchange]
  /\ presented = [h \in Handlers |-> None]
  /\ basis = [h \in Handlers |-> {}]
  /\ call = [h \in Handlers |-> "none"]
  /\ outcome = [h \in Handlers |-> "none"]

Key(h) == <<msg[h].conn, msg[h].id>>
Go(h, label) == pc' = [pc EXCEPT ![h] = label]

(* The handlers in H end, and what they held between their awaits is gone.    *)
Forget(H) ==
  /\ proof' = [h \in Handlers |-> IF h \in H THEN NoExchange ELSE proof[h]]
  /\ presented' = [h \in Handlers |-> IF h \in H THEN None ELSE presented[h]]
  /\ basis' = [h \in Handlers |-> IF h \in H THEN {} ELSE basis[h]]

(* Handler h goes on, from an await at label or inside its stretch of code.   *)
Resumes(h, label) == running = Nobody /\ pc[h] = label
Continues(h, label) == running = h /\ pc[h] = label
Awaits == running' = Nobody

------------------------------------------------------------------------------
(* Authorise, claim, ask: one stretch of code without an await.               *)

(* A webhook delivery: a new message or one ACA-Py has delivered before.      *)
Receive(h, m) ==
  /\ Resumes(h, "idle")
  /\ msg' = [msg EXCEPT ![h] = m]
  /\ IF m.entity = BadRequest
     THEN /\ Go(h, "reply")
          /\ outcome' = [outcome EXCEPT ![h] = "rejected"]
          /\ UNCHANGED running
     ELSE /\ Go(h, "authorise")
          /\ running' = h
          /\ UNCHANGED outcome
  /\ UNCHANGED <<storeVars, claims, claimed, proof, presented, basis, call>>

(* No usable grant: a denial that leaves the request id unclaimed.            *)
Authorise(h) ==
  /\ Continues(h, "authorise")
  /\ IF IsAuthorised(msg[h].conn, msg[h].entity)
     THEN /\ Go(h, "claim")
          /\ UNCHANGED <<running, outcome>>
     ELSE /\ Go(h, "reply")
          /\ outcome' = [outcome EXCEPT ![h] = "unauthorised"]
          /\ Awaits
  /\ UNCHANGED <<storeVars, claims, msg, claimed, proof, presented, basis, call>>

(* Mutant: the purge deletes finished rows as well.                           *)
PurgedFinished ==
  [k \in DOMAIN claims |->
     IF claims[k] # None /\ ~claims[k].pending THEN None ELSE claims[k]]

(* The rows left when those older than the retention are deleted.             *)
Purged ==
  [k \in DOMAIN claims |->
     IF claims[k] # None /\ claims[k].created < now - Retention
     THEN None ELSE claims[k]]

(* The rows that count as open proofs.                                        *)
FreshPending(table) ==
  {k \in DOMAIN table :
     /\ table[k] # None
     /\ table[k].pending
     /\ table[k].created > now - ProofTimeout}

(* Mutant: the finally block covers the claim, a refused one included.        *)
ClaimInsideTry(h) ==
  /\ Continues(h, "claim")
  /\ IF Cardinality(FreshPending(Purged)) < MaxPending /\ Purged[Key(h)] = None
     THEN /\ claims' = [Purged EXCEPT ![Key(h)] = [created |-> now, pending |-> TRUE]]
          /\ claimed' = [claimed EXCEPT ![h] = now]
          /\ Go(h, "build")
          /\ UNCHANGED running
     ELSE /\ claims' = Purged
          /\ Go(h, "finish")
          /\ Awaits
          /\ UNCHANGED claimed
  /\ UNCHANGED <<storeVars, msg, proof, presented, basis, call, outcome>>

(* claim_command, one BEGIN IMMEDIATE transaction.  The purge is kept when    *)
(* the claim is refused, for a full queue or for a known id; a refused        *)
(* command ends without an answer.                                            *)
ClaimCommand(h) ==
  /\ Continues(h, "claim")
  /\ IF Cardinality(FreshPending(Purged)) < MaxPending /\ Purged[Key(h)] = None
     THEN /\ claims' = [Purged EXCEPT ![Key(h)] = [created |-> now, pending |-> TRUE]]
          /\ claimed' = [claimed EXCEPT ![h] = now]
          /\ Go(h, "build")
          /\ UNCHANGED running
     ELSE /\ claims' = Purged
          /\ Go(h, "done")
          /\ Awaits
          /\ UNCHANGED claimed
  /\ UNCHANGED <<storeVars, msg, proof, presented, basis, call, outcome>>

(* build_request draws the challenge; asyncio.timeout starts.                 *)
BuildRequest(h) ==
  /\ Continues(h, "build")
  /\ proof' = [proof EXCEPT ![h] = ExchangeIn("none", now + ProofTimeout, None)]
  /\ Go(h, "send")
  /\ Awaits
  /\ UNCHANGED <<storeVars, claims, msg, claimed, presented, basis, call, outcome>>

------------------------------------------------------------------------------
(* request_proof: the exchange with ACA-Py and the holder's wallet.           *)

SendProofRequest(h) ==
  /\ Resumes(h, "send")
  /\ proof' = [proof EXCEPT ![h] = ExchangeIn("sent", proof[h].deadline, None)]
  /\ Go(h, "poll")
  /\ UNCHANGED <<storeVars, claims, running, msg, claimed, presented, basis, call, outcome>>

(* HTTPError, bad JSON or no pres_ex_id: no proof, nothing to delete.         *)
SendFails(h) ==
  /\ Resumes(h, "send")
  /\ Go(h, "recheck")
  /\ UNCHANGED <<storeVars, claims, running, msg, claimed, proof, presented, basis, call, outcome>>

(* What wallets may hold: a credential on file for any connection, revoked or *)
(* not, or one that was minted and never recorded.                            *)
Presentable ==
  {grants[x].vc : x \in DOMAIN grants} \cup {BuildCredential(s, Never) : s \in Scopes}

(* The wallet answers, perhaps with another credential, another's key, or a   *)
(* presentation it made for an earlier challenge; ACA-Py verifies or not.     *)
(* What it answers once polling has ended nobody reads.                       *)
HolderPresents(h, vp) ==
  /\ pc[h] = "poll"
  /\ proof[h].state = "sent"
  /\ vp.vc \in Presentable
  /\ pc[vp.challenge] \notin {"idle", "authorise", "claim", "build"}
  /\ proof' = [proof EXCEPT ![h] = ExchangeIn("done", proof[h].deadline, vp)]
  /\ UNCHANGED <<storeVars, claims, running, pc, msg, claimed, presented, basis, call, outcome>>

(* Mutant: the challenge the presentation was made for is not compared.       *)
ValidForAnyChallenge(h) ==
  LET vp == proof[h].vp
  IN  vp.verified /\ vp.signer = SubjectOf[vp.vc.scope]

(* The presentation must be verified, made for this request's challenge and   *)
(* signed with the key of the credential's own subject.                       *)
ValidPresentedCredential(h) ==
  LET vp == proof[h].vp
  IN  vp.verified /\ vp.challenge = h /\ vp.signer = SubjectOf[vp.vc.scope]

(* Polling is over: the record stays at ACA-Py until it is deleted.           *)
StopPolling(h) ==
  /\ pc[h] = "poll"
  /\ proof' = [proof EXCEPT ![h] = Unread]
  /\ Go(h, "delete")

PollDone(h) ==
  /\ running = Nobody
  /\ proof[h].state = "done"
  /\ StopPolling(h)
  /\ presented' = [presented EXCEPT ![h] =
                     IF ValidPresentedCredential(h) THEN proof[h].vp ELSE None]
  /\ UNCHANGED <<storeVars, claims, running, msg, claimed, basis, call, outcome>>

(* The exchange is abandoned, or reading it fails.                            *)
PollFails(h) ==
  /\ running = Nobody
  /\ StopPolling(h)
  /\ UNCHANGED <<storeVars, claims, running, msg, claimed, presented, basis, call, outcome>>

(* The clock of the model stops at MaxTime, which stands for any later time.  *)
Due(deadline) == now >= deadline \/ now = MaxTime

(* Mutant: the timeout covers the request to ACA-Py and not the polling.      *)
SendTimesOut(h) ==
  /\ running = Nobody
  /\ Due(proof[h].deadline)
  /\ pc[h] = "send" /\ Go(h, "recheck")
  /\ UNCHANGED <<storeVars, claims, running, msg, claimed, proof, presented, basis, call, outcome>>

ProofTimesOut(h) ==
  /\ running = Nobody
  /\ Due(proof[h].deadline)
  /\ \/ pc[h] = "send" /\ Go(h, "recheck") /\ UNCHANGED proof
     \/ StopPolling(h)
  /\ UNCHANGED <<storeVars, claims, running, msg, claimed, presented, basis, call, outcome>>

(* The finally block: an error or the 3 s timeout leaves the record behind.   *)
DeleteProofRecord(h) ==
  /\ Resumes(h, "delete")
  /\ \/ proof' = [proof EXCEPT ![h] = NoExchange]
     \/ UNCHANGED proof
  /\ Go(h, "recheck")
  /\ UNCHANGED <<storeVars, claims, running, msg, claimed, presented, basis, call, outcome>>

------------------------------------------------------------------------------
(* Decide, call Home Assistant, answer, finish.                               *)

(* The store is read again: a grant revoked during the exchange is gone.      *)
Recheck(h) ==
  /\ Resumes(h, "recheck")
  /\ LET vp == presented[h] IN
     IF vp # None /\ IsPresentedAuthorised(msg[h].conn, msg[h].entity, vp.vc)
     THEN /\ Go(h, "call")
          /\ basis' = [basis EXCEPT ![h] =
                         {x \in DOMAIN grants :
                            Live(x) /\ grants[x].conn = msg[h].conn
                                    /\ grants[x].vc = vp.vc}]
          /\ UNCHANGED outcome
     ELSE /\ Go(h, "reply")
          /\ outcome' = [outcome EXCEPT ![h] = "unproven"]
          /\ UNCHANGED basis
  /\ UNCHANGED <<storeVars, claims, running, msg, claimed, proof, presented, call>>

(* The POST to Home Assistant leaves, some time after the check.              *)
Dispatch(h) ==
  /\ Resumes(h, "call")
  /\ call' = [call EXCEPT ![h] = "sent"]
  /\ Go(h, "ha")
  /\ UNCHANGED <<storeVars, claims, running, msg, claimed, proof, presented, basis, outcome>>

(* Home Assistant acts on a request it has, wanted or not by then.            *)
HomeAssistantExecutes(h) ==
  /\ call[h] = "sent"
  /\ call' = [call EXCEPT ![h] = "executed"]
  /\ UNCHANGED <<storeVars, claims, running, pc, msg, claimed, proof, presented, basis, outcome>>

CallSucceeds(h) ==
  /\ Resumes(h, "ha")
  /\ call[h] = "executed"
  /\ Go(h, "reply")
  /\ outcome' = [outcome EXCEPT ![h] = "ok"]
  /\ UNCHANGED <<storeVars, claims, running, msg, claimed, proof, presented, basis, call>>

(* Mutant: a call that failed is made again.                                  *)
CallRetried(h) ==
  /\ running = Nobody
  /\ pc[h] \in {"call", "ha"}
  /\ Go(h, "call")
  /\ UNCHANGED <<storeVars, claims, running, msg, claimed, proof, presented, basis, call, outcome>>

(* HTTPError before the request left, on its way or on the answer's.  Other   *)
(* exceptions (InvalidURL, from a malformed HA_BASE_URL) end the handler with *)
(* no call and no answer and are left out.                                    *)
CallFails(h) ==
  /\ running = Nobody
  /\ pc[h] \in {"call", "ha"}
  /\ Go(h, "reply")
  /\ outcome' = [outcome EXCEPT ![h] = "failed"]
  /\ UNCHANGED <<storeVars, claims, running, msg, claimed, proof, presented, basis, call>>

(* The answer is sent, or lost: _send_rpc_response swallows the error.        *)
SendReply(h) ==
  /\ Resumes(h, "reply")
  /\ Go(h, IF outcome[h] \in {"rejected", "unauthorised"} THEN "done" ELSE "finish")
  /\ UNCHANGED <<storeVars, claims, running, msg, claimed, proof, presented, basis, call, outcome>>

(* Mutant: a finished command gives its request id back with its slot.        *)
FinishDeletes(h) ==
  /\ Resumes(h, "finish")
  /\ claims' = [claims EXCEPT ![Key(h)] = None]
  /\ Go(h, "done")
  /\ Forget({h})
  /\ UNCHANGED <<storeVars, running, msg, claimed, call, outcome>>

(* finish_command: the row stays, its slot in the queue is given back.        *)
FinishCommand(h) ==
  /\ Resumes(h, "finish")
  /\ claims' = [k \in DOMAIN claims |->
                  IF k = Key(h) /\ claims[k] # None
                  THEN [created |-> claims[k].created, pending |-> FALSE]
                  ELSE claims[k]]
  /\ Go(h, "done")
  /\ Forget({h})
  /\ UNCHANGED <<storeVars, running, msg, claimed, call, outcome>>

(* Mutant: the finally block runs whatever was reached.                       *)
BusyAlwaysFinishes(h) ==
  /\ running \in {h, Nobody}
  /\ pc[h] \in Before \cup {"build", "recheck"}
  /\ Go(h, "finish")
  /\ Awaits
  /\ Forget({h})
  /\ UNCHANGED <<storeVars, claims, msg, claimed, call, outcome>>

(* SQLite stays locked for 5 s: the exception ends the handler, through the   *)
(* finally block once the command is claimed.                                 *)
StoreBusy(h) ==
  /\ running \in {h, Nobody}
  /\ \/ pc[h] \in Before \cup {"finish"} /\ Go(h, "done")
     \/ pc[h] \in {"build", "recheck"} /\ Go(h, "finish")
  /\ Awaits
  /\ Forget({h})
  /\ UNCHANGED <<storeVars, claims, msg, claimed, call, outcome>>

------------------------------------------------------------------------------
(* The world around the handlers.                                             *)

Crash ==
  /\ \E h \in Handlers : pc[h] \notin {"idle", "done", "lost"}
  /\ pc' = [h \in Handlers |-> IF pc[h] \in {"idle", "done"} THEN pc[h] ELSE "lost"]
  /\ Awaits
  /\ Forget({h \in Handlers : pc[h] # "idle"})
  /\ UNCHANGED <<storeVars, claims, msg, claimed, call, outcome>>

(* A grant is recorded or revoked (OwnerIssuance), by any process.            *)
OwnerIssues(x, c, s, lifetime) ==
  /\ RememberIssuedSuperseding(x, c, BuildCredential(s, lifetime))
  /\ UNCHANGED <<now, home, gateVars>>

OwnerRevokes(x) ==
  /\ RevokeCredential(x)
  /\ UNCHANGED <<now, home, gateVars>>

OwnerRevokesAll(c) ==
  /\ RevokeConnection(c)
  /\ UNCHANGED <<now, home, gateVars>>

Clock == Tick /\ UNCHANGED <<grants, home, gateVars>>

Handle(h) ==
  \/ Authorise(h) \/ ClaimCommand(h) \/ BuildRequest(h)
  \/ SendProofRequest(h) \/ SendFails(h)
  \/ PollDone(h) \/ PollFails(h) \/ ProofTimesOut(h) \/ DeleteProofRecord(h)
  \/ Recheck(h) \/ Dispatch(h) \/ CallSucceeds(h) \/ CallFails(h)
  \/ SendReply(h) \/ FinishCommand(h) \/ StoreBusy(h)

Next ==
  \/ \E h \in Handlers, m \in Message : Receive(h, m)
  \/ \E h \in Handlers : Handle(h)
  \/ \E h, g \in Handlers, p \in Subjects, v \in BOOLEAN : \E vc \in Presentable :
       HolderPresents(h, [vc |-> vc, signer |-> p, challenge |-> g, verified |-> v])
  \/ \E h \in Handlers : HomeAssistantExecutes(h)
  \/ Crash
  \/ \E x \in Exchanges, c \in Connections, s \in Scopes, l \in Lifetimes :
       OwnerIssues(x, c, s, l)
  \/ \E x \in Exchanges : OwnerRevokes(x)
  \/ \E c \in Connections : OwnerRevokesAll(c)
  \/ Clock

Spec == Init /\ [][Next]_vars

(* What the proofs of the safety properties rest on.                          *)

(* Where a handler is tells what it has claimed, called and answered.         *)
PhaseOK ==
  \A h \in Handlers :
    /\ claimed[h] # None => pc[h] # "idle"
    /\ call[h] # "none" =>
         claimed[h] # None /\ pc[h] \in {"ha", "reply", "finish", "done", "lost"}
    /\ outcome[h] # "none" => pc[h] \in {"reply", "finish", "done", "lost"}
    /\ pc[h] = "reply" =>
         outcome[h] \in {"rejected", "unauthorised"} \/ claimed[h] # None
    /\ outcome[h] = "unproven" => claimed[h] # None /\ call[h] = "none"
    /\ outcome[h] = "ok" => call[h] = "executed"
    /\ outcome[h] = "failed" => claimed[h] # None

MoreThanRetention(a, b) == a > b + Retention \/ b > a + Retention

(* The command table remembers every claim of the last retention: the row of  *)
(* a claimed key is the claim's own, or one younger by more than the          *)
(* retention, or that much time has passed.                                   *)
ClaimsRemembered ==
  \A h \in Handlers : claimed[h] # None =>
    /\ msg[h] # None
    /\ claimed[h] <= now
    /\ \/ now > claimed[h] + Retention
       \/ claims[Key(h)] # None /\ claims[Key(h)].created = claimed[h]

ClaimsApart ==
  \A h, g \in Handlers :
    /\ h # g
    /\ claimed[h] # None /\ claimed[g] # None
    /\ Key(h) = Key(g)
    => MoreThanRetention(claimed[h], claimed[g])

PresentedIsValid ==
  \A h \in Handlers : presented[h] # None =>
    /\ presented[h].verified
    /\ presented[h].challenge = h
    /\ presented[h].signer = SubjectOf[presented[h].vc.scope]

(* Fairness.  Every await of a handler has a timeout: asyncio's on the proof, *)
(* httpx's on the calls.  The event loop runs what is ready and the clock     *)
(* moves.  Nothing is assumed of wallets, ACA-Py or Home Assistant.           *)
HttpReturns(h) ==
  \/ SendProofRequest(h) \/ SendFails(h) \/ PollDone(h) \/ DeleteProofRecord(h)
  \/ CallSucceeds(h) \/ CallFails(h) \/ SendReply(h)

Runs(h) ==
  Authorise(h) \/ ClaimCommand(h) \/ BuildRequest(h) \/ Recheck(h) \/ FinishCommand(h)

Fairness ==
  /\ WF_vars(Clock)
  /\ \A h \in Handlers :
       WF_vars(HttpReturns(h)) /\ WF_vars(Runs(h)) /\ WF_vars(ProofTimesOut(h))

FairSpec == Spec /\ Fairness

------------------------------------------------------------------------------
(* Properties.                                                                *)

(* Two commands that reach Home Assistant under one connection and request id *)
(* were claimed more than the retention apart: a redelivered message runs     *)
(* once, through crashes, restarts, failed calls and lost answers             *)
(* (ROADMAP: replay suppression for 24 hours, no second dispatch).            *)
AtMostOnce ==
  \A h, g \in Handlers :
    /\ h # g
    /\ call[h] # "none" /\ call[g] # "none"
    /\ Key(h) = Key(g)
    => MoreThanRetention(claimed[h], claimed[g])

(* A command is on its way to Home Assistant only if, when the store was last *)
(* read for it, a live grant of its own connection had exactly the presented  *)
(* payload and covered the entity.  A grant revoked while the proof was under *)
(* way, one of another connection or a broader one is no help.                *)
DispatchWasAuthorised ==
  \A h \in Handlers : pc[h] \in {"call", "ha"} =>
    /\ basis[h] # {}
    /\ \A x \in basis[h] :
         /\ x \in DOMAIN grants
         /\ grants[x].conn = msg[h].conn
         /\ grants[x].vc = presented[h].vc
         /\ msg[h].entity \in Permits[grants[x].vc.scope]

(* A command is on its way to Home Assistant only on a verified presentation, *)
(* made for this very request with the key of the credential's subject: an    *)
(* old proof, or somebody else's key, moves nothing.                          *)
DispatchHadFreshProof ==
  \A h \in Handlers : pc[h] \in {"call", "ha"} =>
    /\ presented[h] # None
    /\ presented[h].verified
    /\ presented[h].challenge = h
    /\ presented[h].signer = SubjectOf[presented[h].vc.scope]

(* "ok" is answered only when Home Assistant acted; a command refused for     *)
(* want of a proof is not run by a redelivery of it within the retention.     *)
AnswerIsTruthful ==
  \A h \in Handlers :
    /\ outcome[h] = "ok" => call[h] = "executed"
    /\ outcome[h] = "unproven" =>
         \A g \in Handlers :
           /\ call[g] # "none"
           /\ Key(g) = Key(h)
           => MoreThanRetention(claimed[h], claimed[g])

(* The answers to a command that was claimed.                                 *)
Verdicts == {"unproven", "failed", "ok"}

(* Two deliveries that come to a verdict under one connection and request id  *)
(* claimed it more than the retention apart: the controller, which files      *)
(* answers by request id, gets no second verdict out of a redelivery.  Only   *)
(* an answer given before the claim (a bad request, no grant) can still take  *)
(* the place of a verdict there.                                              *)
OneVerdict ==
  \A h, g \in Handlers :
    /\ h # g
    /\ outcome[h] \in Verdicts /\ outcome[g] \in Verdicts
    /\ Key(h) = Key(g)
    => MoreThanRetention(claimed[h], claimed[g])

(* Handlers at work on a command claimed within the proof timeout.            *)
OpenProofs ==
  {h \in Handlers :
     /\ pc[h] \in AfterClaim \cup {"reply"}
     /\ claimed[h] # None
     /\ claimed[h] > now - ProofTimeout}

(* No more than MaxPending commands are at work at a time, counted over the   *)
(* proof timeout: no order of finishes, failures and redeliveries gives a     *)
(* slot back that is in use (claim_command, finish_command).                  *)
OpenProofsBounded == Cardinality(OpenProofs) <= MaxPending

(* Every delivery is dealt with: its handler answers or gives up, whatever    *)
(* the wallet, ACA-Py or Home Assistant do, and however often the gateway     *)
(* crashes.                                                                   *)
EveryCommandEnds ==
  \A h \in Handlers : pc[h] # "idle" ~> pc[h] \in {"done", "lost"}

(* The gate as a ledger: what a handler has claimed is a command taken on.    *)
StageOf(h) ==
  CASE pc[h] \in {"build", "send", "poll", "delete", "recheck"} -> "open"
    [] pc[h] = "call" -> "permitted"
    [] pc[h] = "ha" -> "sent"
    [] OTHER -> "closed"

EntryOf(h) ==
  [conn |-> msg[h].conn, id |-> msg[h].id, entity |-> msg[h].entity,
   at |-> claimed[h], stage |-> StageOf(h)]

Claimed == {h \in Handlers : claimed[h] # None}
Taken == {EntryOf(h) : h \in Claimed}
Permitted == {p \in Connections \X Entities : IsAuthorised(p[1], p[2])}

Ledger == INSTANCE CommandLedger WITH permitted <- Permitted, ledger <- Taken

(* The gate keeps the promises of CommandLedger: handlers, proofs, timeouts,  *)
(* failures, crashes and the purge of the command table are steps of a ledger *)
(* in which a command is taken on once per retention and sent at most once,   *)
(* and only from a moment at which a live grant permitted it.                 *)
KeepsLedger == Ledger!LedgerSpec

==============================================================================
