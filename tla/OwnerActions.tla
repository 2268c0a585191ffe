----------------------------- MODULE OwnerActions -----------------------------
(* The owner's actions in Home Assistant (services.py and api.py of the       *)
(* integration) and the owner routes of the status app (status.py), over      *)
(* OwnerIssuance.                                                             *)
(*                                                                            *)
(* A call is an HTTP request with a timeout of 10 s on Home Assistant's side. *)
(* The status app does not notice a client that has gone: a request goes on   *)
(* at the gateway, and one that is still on the wire may yet arrive.  Its      *)
(* answer has a way of its own, and after that the service waits for a        *)
(* refresh.  What the owner sees, and what has happened, are two things.      *)
(*                                                                            *)
(* Abstractions.  A call takes one of the Requests of OwnerIssuance, and the  *)
(* owner may call again when the gateway has done with it.  An invitation     *)
(* changes nothing of the gateway.  Here the integration is the only front    *)
(* end that issues; every front end revokes.                                  *)
EXTENDS OwnerIssuance

CONSTANTS
  StatusApp,  \* the process the integration talks to
  NoCall      \* nothing asked, nothing on the wire, no answer

Operation ==
  [op : {"issue"}, conn : Connections, scope : Scopes,
   lifetime : Lifetimes \ {0, Never, Malformed}]
    \cup [op : {"revoke"}, exch : Exchanges]
    \cup [op : {"revokeAll"}, conn : Connections]

ASSUME ActionsAssumption == StatusApp \in Processes /\ NoCall \notin Operation

Answers == {"ok", "refused", "failed"}

ASSUME AnswersAssumption == NoCall \notin Answers

VARIABLES
  asked,  \* what the owner last asked for in each call
  wire,   \* the request on its way to the gateway
  reply,  \* the answer on its way back, or held up by the refresh
  seen,   \* what Home Assistant has told the owner of it
  due,    \* history: the rows a revocation was about when it was asked for
  did     \* history: the grants the call has minted, recorded or revoked

callVars == <<asked, wire, reply, seen, due, did>>
allVars == <<vars, callVars>>

CallsOK ==
  /\ asked \in [Requests -> Operation \cup {NoCall}]
  /\ wire \in [Requests -> Operation \cup {NoCall}]
  /\ reply \in [Requests -> Answers \cup {NoCall}]
  /\ seen \in [Requests -> Answers \cup {"none", "waiting"}]
  /\ due \in [Requests -> SUBSET Exchanges]
  /\ did \in [Requests -> SUBSET Exchanges]
  /\ \A r \in Requests :
       /\ seen[r] # "none" \/ pc[r] # "idle" => asked[r] # NoCall
       /\ wire[r] # NoCall => pc[r] = "idle" /\ wire[r] = asked[r]
       /\ reply[r] # NoCall =>
            seen[r] = "waiting" /\ wire[r] = NoCall /\ pc[r] = "idle"
       /\ pc[r] # "idle" =>
            asked[r].op = "issue" /\ asked[r].conn = req[r].conn
              /\ asked[r].scope = req[r].vc.scope /\ req[r].proc = StatusApp

ActionsInit ==
  /\ Init
  /\ asked = [r \in Requests |-> NoCall]
  /\ wire = [r \in Requests |-> NoCall]
  /\ reply = [r \in Requests |-> NoCall]
  /\ seen = [r \in Requests |-> "none"]
  /\ due = [r \in Requests |-> {}]
  /\ did = [r \in Requests |-> {}]

------------------------------------------------------------------------------
(* The rows a revocation is about.                                            *)
Targets(op) ==
  {x \in DOMAIN grants :
     \/ op.op = "revoke" /\ x = op.exch
     \/ op.op = "revokeAll" /\ grants[x].conn = op.conn}

(* Home Assistant's side.                                                     *)

(* The action passes the checks of services.py and the POST leaves.           *)
CallService(r, op) ==
  /\ seen[r] # "waiting" /\ wire[r] = NoCall /\ pc[r] = "idle"
  /\ asked' = [asked EXCEPT ![r] = op]
  /\ wire' = [wire EXCEPT ![r] = op]
  /\ seen' = [seen EXCEPT ![r] = "waiting"]
  /\ due' = [due EXCEPT ![r] = Targets(op)]
  /\ did' = [did EXCEPT ![r] = {}]
  /\ UNCHANGED <<vars, reply>>

(* ClientError or the 10 s timeout: owner_operation_failed.  The request is   *)
(* lost, still on its way or at the gateway, or its answer was too late.      *)
CallFails(r) ==
  /\ seen[r] = "waiting"
  /\ seen' = [seen EXCEPT ![r] = "failed"]
  /\ reply' = [reply EXCEPT ![r] = NoCall]
  /\ wire' \in {wire, [wire EXCEPT ![r] = NoCall]}
  /\ UNCHANGED <<vars, asked, due, did>>

(* The answer has come and, for a success, the refresh is over: the service   *)
(* returns, or raises what the status code says.                              *)
ServiceReturns(r) ==
  /\ reply[r] # NoCall
  /\ seen' = [seen EXCEPT ![r] = reply[r]]
  /\ reply' = [reply EXCEPT ![r] = NoCall]
  /\ UNCHANGED <<vars, asked, wire, due, did>>

(* The gateway answers; Home Assistant may have stopped listening.            *)
Answer(r, a) ==
  reply' = [reply EXCEPT ![r] = IF seen[r] = "waiting" THEN a ELSE NoCall]

(* Mutant: a request that was sent is sent again.                             *)
ArrivesAgain(r) == wire[r] # NoCall /\ wire' = wire

Arrives(r) == wire[r] # NoCall /\ wire' = [wire EXCEPT ![r] = NoCall]
Does(r, S) == did' = [did EXCEPT ![r] = did[r] \cup S]

------------------------------------------------------------------------------
(* The routes of the status app.                                              *)

(* require_owner: 401, or 503 while no owner token is configured.             *)
RequireOwnerFails(r) ==
  /\ Arrives(r) /\ Answer(r, "refused")
  /\ UNCHANGED <<vars, asked, seen, due, did>>

IssueArrives(r) ==
  /\ Arrives(r)
  /\ wire[r].op = "issue"
  /\ BeginIssue(r, StatusApp, wire[r].conn, wire[r].scope, wire[r].lifetime)
  /\ UNCHANGED <<asked, reply, seen, due, did>>

(* 409 active_grant_exists.                                                   *)
IssueConflicts(r) ==
  /\ RejectDuplicate(r) /\ Answer(r, "refused")
  /\ UNCHANGED <<asked, wire, seen, due, did>>

IssuePosts(r) == PostToAcapy(r) /\ UNCHANGED callVars

(* Mutant: the answer is given when ACA-Py has minted, before the record.     *)
AnswersOnMint(r, x) ==
  /\ AcapyAccepts(r, x) /\ Does(r, {x}) /\ Answer(r, "ok")
  /\ UNCHANGED <<asked, wire, seen, due>>

IssueMints(r, x) ==
  /\ AcapyAccepts(r, x) /\ Does(r, {x})
  /\ UNCHANGED <<asked, wire, reply, seen, due>>

(* 200, with the exchange id and the expiry.                                  *)
IssueRecords(r) ==
  /\ Remember(r) /\ Answer(r, "ok")
  /\ UNCHANGED <<asked, wire, seen, due, did>>

(* Mutant: any failure after the check is reported as a conflict.             *)
FailsAsConflict(r) ==
  /\ \/ (AcapyRefuses(r) \/ StoreBusy(r)) /\ UNCHANGED did
     \/ \E x \in Exchanges : AnswerLost(r, x) /\ Does(r, {x})
  /\ Answer(r, IF pc[r] = "waiting" THEN "failed" ELSE "refused")
  /\ UNCHANGED <<asked, wire, seen, due>>

(* 503 from ACA-Py's errors, 500 from SQLite's: owner_operation_failed.       *)
IssueFails(r) ==
  /\ \/ (AcapyRefuses(r) \/ StoreBusy(r)) /\ UNCHANGED did
     \/ \E x \in Exchanges : AnswerLost(r, x) /\ Does(r, {x})
  /\ Answer(r, "failed")
  /\ UNCHANGED <<asked, wire, seen, due>>

(* A revocation is one transaction; 404 when there is no such row.            *)
RevokeArrives(r) ==
  LET op == wire[r] IN
  /\ Arrives(r)
  /\ op.op \in {"revoke", "revokeAll"}
  /\ \/ /\ \/ op.op = "revoke" /\ OwnerRevokesCredential(op.exch)
           \/ op.op = "revokeAll" /\ OwnerRevokesConnection(op.conn)
        /\ Answer(r, "ok") /\ Does(r, Targets(op))
     \/ /\ Targets(op) = {}
        /\ Answer(r, "refused")
        /\ UNCHANGED <<vars, did>>
  /\ UNCHANGED <<asked, seen, due>>

(* SQLite stays locked: a 500.                                                *)
RevokeBusy(r) ==
  /\ Arrives(r)
  /\ wire[r].op \in {"revoke", "revokeAll"}
  /\ Answer(r, "failed")
  /\ UNCHANGED <<vars, asked, seen, due, did>>

------------------------------------------------------------------------------
(* The CLI, the clock and what ACA-Py still mints; a crash of the status app, *)
(* whose calls get no answer.                                                 *)
Elsewhere ==
  /\ \/ \E x \in Exchanges : OwnerRevokesCredential(x)
     \/ \E c \in Connections : OwnerRevokesConnection(c)
     \/ \E m \in late : MintsLate(m)
     \/ \E p \in Processes : Crash(p)
     \/ Clock
  /\ UNCHANGED callVars

ActionsNext ==
  \/ \E r \in Requests, op \in Operation : CallService(r, op)
  \/ \E r \in Requests :
       CallFails(r) \/ ServiceReturns(r) \/ RequireOwnerFails(r)
         \/ IssueArrives(r) \/ IssueConflicts(r) \/ IssuePosts(r) \/ IssueRecords(r)
         \/ IssueFails(r) \/ RevokeArrives(r) \/ RevokeBusy(r)
  \/ \E r \in Requests, x \in Exchanges : IssueMints(r, x)
  \/ Elsewhere

ActionsSpec == ActionsInit /\ [][ActionsNext]_allVars

(* Fairness, as in OwnerIssuance: the lock is first come, first served, each  *)
(* call to ACA-Py has a timeout, the event loop runs what is ready.           *)
ActionsFairness ==
  \A r \in Requests :
    /\ SF_allVars(IssueConflicts(r) \/ IssuePosts(r))
    /\ WF_allVars(pc[r] = "minting" /\ (IssueFails(r) \/ \E x \in Exchanges : IssueMints(r, x)))
    /\ WF_allVars(IssueRecords(r))

FairActions == ActionsSpec /\ ActionsFairness

------------------------------------------------------------------------------
(* Properties.                                                                *)

(* What the owner has been told was a success, is one when it is told and     *)
(* stays one: the grant asked for is on file, minted by this call; the row,   *)
(* or every row the connection had when the owner asked and when the          *)
(* revocation ran, is revoked.  A grant recorded after that is not covered.   *)
OkIsTrue ==
  \A r \in Requests : seen[r] = "ok" =>
    LET op == asked[r] IN
    CASE op.op = "issue" ->
           \E x \in did[r] \cap DOMAIN grants :
             grants[x].conn = op.conn /\ grants[x].vc.scope = op.scope
      [] op.op # "issue" ->
           did[r] # {} /\ \A x \in due[r] \cup did[r] : grants[x].revoked

(* A refusal (wrong token, 404, 409) is told only of a call that did nothing: *)
(* it minted no credential and touched no row.  A failure tells nothing.      *)
RefusedDidNothing == \A r \in Requests : seen[r] = "refused" => did[r] = {}

==============================================================================
