-------------------------- MODULE OwnerActionsProofs --------------------------
(* What the owner is told of a call is true, for every number of calls,       *)
(* connections and grants, and whatever is lost, late or refused; and the     *)
(* integration's issuing is issuing as OwnerIssuance has it.                  *)
EXTENDS OwnerActions, OwnerIssuanceProofs

LEMMA OperationParts ==
  ASSUME NEW op \in Operation
  PROVE  /\ op # NoCall
         /\ op.op = "issue" =>
              op.conn \in Connections /\ op.scope \in Scopes /\ op.lifetime \in Lifetimes
         /\ op.op = "revoke" => op.exch \in Exchanges
         /\ op.op = "revokeAll" => op.conn \in Connections
BY ActionsAssumption DEF Operation

(* What a call has done.  One that was told off, is on the wire or has not    *)
(* got past ACA-Py has done nothing; one whose credential is minted has       *)
(* minted that one; one that was answered is over.                            *)
DidOK(r) ==
  /\ seen[r] \in {"ok", "refused"} => wire[r] = NoCall /\ pc[r] = "idle"
  /\ "refused" \in {seen[r], reply[r]} \/ wire[r] # NoCall
       \/ pc[r] \in {"waiting", "minting"} => did[r] = {}
  /\ pc[r] = "accepted" => credEx[r] \in did[r]

(* CallsOK, of one call.                                                      *)
CallOK(r) ==
  /\ seen[r] # "none" \/ pc[r] # "idle" => asked[r] # NoCall
  /\ wire[r] # NoCall => pc[r] = "idle" /\ wire[r] = asked[r]
  /\ reply[r] # NoCall => seen[r] = "waiting" /\ wire[r] = NoCall /\ pc[r] = "idle"
  /\ pc[r] # "idle" =>
       asked[r].op = "issue" /\ asked[r].conn = req[r].conn
         /\ asked[r].scope = req[r].vc.scope /\ req[r].proc = StatusApp

CallTypes ==
  /\ asked \in [Requests -> Operation \cup {NoCall}]
  /\ wire \in [Requests -> Operation \cup {NoCall}]
  /\ reply \in [Requests -> Answers \cup {NoCall}]
  /\ seen \in [Requests -> Answers \cup {"none", "waiting"}]
  /\ due \in [Requests -> SUBSET Exchanges]
  /\ did \in [Requests -> SUBSET Exchanges]

CallInv == CallTypes /\ \A r \in Requests : CallOK(r) /\ DidOK(r)

LEMMA CallInvSuffices == CallInv => CallsOK /\ RefusedDidNothing
BY DEF CallInv, CallTypes, CallOK, DidOK, CallsOK, RefusedDidNothing

(* A request that is in hand stays as it is, or ends.                         *)
InHand(q) ==
  \/ pc'[q] = "idle"
  \/ pc'[q] = pc[q] /\ req'[q] = req[q] /\ credEx'[q] = credEx[q]
  \/ pc'[q] = pc[q] /\ req'[q] = req[q] /\ pc[q] # "accepted"

(* What a step that is about another call leaves of this one.                 *)
Kept(q) ==
  UNCHANGED <<asked[q], wire[q], reply[q], seen[q], due[q], did[q]>> /\ InHand(q)

LEMMA KeptIsOK ==
  ASSUME NEW q, CallOK(q), DidOK(q), Kept(q)
  PROVE  CallOK(q)' /\ DidOK(q)'
BY DEF CallOK, DidOK, Kept, InHand

LEMMA EndKeepsOthers ==
  ASSUME RequestsOK, NEW R, End(R), NEW q \in Requests
  PROVE  InHand(q) /\ (q \in R => pc'[q] = "idle")
<1>1. CASE q \in R \/ pc[q] = "idle"
  BY <1>1 DEF End, InHand
<1>2. CASE q \notin R /\ pc[q] # "idle"
  BY <1>2 DEF RequestsOK, End, Without, InHand
<1>3. QED
  BY <1>1, <1>2

(* A step on the calls that leaves the requests alone.                        *)
LEMMA StillInHand ==
  ASSUME UNCHANGED issueVars, NEW q
  PROVE  pc'[q] = pc[q] /\ InHand(q)
BY DEF issueVars, InHand

LEMMA ParamsType ==
  ASSUME TypeOK, CallInv, NEW r \in Requests, wire[r] # NoCall
  PROVE  wire[r] \in Operation /\ wire[r] = asked[r] /\ pc[r] = "idle" /\ did[r] = {}
BY DEF CallInv, CallTypes, CallOK, DidOK

(* Every step of a call is a step of OwnerIssuance, or leaves it alone.       *)
LEMMA ActionsStep ==
  ASSUME TypeOK, CallInv, [ActionsNext]_allVars
  PROVE  [Next]_vars
<1>1. ASSUME NEW r \in Requests, IssueArrives(r)
      PROVE  Next
  <2>1. wire[r] \in Operation /\ wire[r].op = "issue"
    BY <1>1, ParamsType DEF IssueArrives, Arrives
  <2>2. BeginIssue(r, StatusApp, wire[r].conn, wire[r].scope, wire[r].lifetime)
    BY <1>1 DEF IssueArrives
  <2>3. QED
    BY <2>1, <2>2, OperationParts, ActionsAssumption DEF Next
<1>2. ASSUME NEW r \in Requests, IssueConflicts(r) \/ IssuePosts(r) \/ IssueRecords(r)
      PROVE  Next
  BY <1>2 DEF IssueConflicts, IssuePosts, IssueRecords, Next
<1>3. ASSUME NEW r \in Requests, IssueFails(r)
      PROVE  Next
  BY <1>3 DEF IssueFails, Next
<1>4. ASSUME NEW r \in Requests, NEW x \in Exchanges, IssueMints(r, x)
      PROVE  Next
  BY <1>4 DEF IssueMints, Next
<1>5. ASSUME NEW r \in Requests, RevokeArrives(r)
      PROVE  Next \/ UNCHANGED vars
  <2>1. wire[r] \in Operation
    BY <1>5, ParamsType DEF RevokeArrives, Arrives
  <2>2. \/ wire[r].op = "revoke" /\ OwnerRevokesCredential(wire[r].exch)
        \/ wire[r].op = "revokeAll" /\ OwnerRevokesConnection(wire[r].conn)
        \/ UNCHANGED vars
    BY <1>5 DEF RevokeArrives
  <2>3. QED
    BY <2>1, <2>2, OperationParts DEF Next
<1>6. CASE Elsewhere
  BY <1>6 DEF Elsewhere, Next
<1>7. ASSUME NEW r \in Requests,
             CallFails(r) \/ ServiceReturns(r) \/ RequireOwnerFails(r) \/ RevokeBusy(r)
      PROVE  UNCHANGED vars
  BY <1>7 DEF CallFails, ServiceReturns, RequireOwnerFails, RevokeBusy
<1>8. ASSUME NEW r \in Requests, NEW op \in Operation, CallService(r, op)
      PROVE  UNCHANGED vars
  BY <1>8 DEF CallService
<1>9. CASE UNCHANGED allVars
  BY <1>9 DEF allVars
<1>10. QED
  BY <1>1, <1>2, <1>3, <1>4, <1>5, <1>6, <1>7, <1>8, <1>9 DEF ActionsNext

------------------------------------------------------------------------------
(* The invariant.                                                             *)

(* A step that is about call r: the others keep what they have.               *)
LEMMA OneCall ==
  ASSUME CallInv, CallTypes', NEW r \in Requests, CallOK(r)', DidOK(r)',
         \A q \in Requests : q # r => Kept(q)
  PROVE  CallInv'
<1>1. \A q \in Requests : CallOK(q)' /\ DidOK(q)'
  BY KeptIsOK DEF CallInv
<1>2. QED
  BY <1>1 DEF CallInv

LEMMA CallInductive ==
  ASSUME TypeOK, CallInv, [ActionsNext]_allVars
  PROVE  CallInv'
<1>1. /\ CallTypes /\ RequestsOK /\ DOMAIN grants \subseteq Exchanges
      /\ \A r \in Requests : CallOK(r) /\ DidOK(r)
  BY DEF CallInv, TypeOK, StoreTypeOK
<1>2. ASSUME NEW r \in Requests, NEW op \in Operation, CallService(r, op)
      PROVE  CallInv'
  <2>1. /\ UNCHANGED issueVars
        /\ asked'[r] = op /\ wire'[r] = op /\ seen'[r] = "waiting" /\ did'[r] = {}
        /\ reply' = reply /\ seen[r] # "waiting" /\ pc[r] = "idle"
        /\ \A q \in Requests :
             q # r => UNCHANGED <<asked[q], wire[q], seen[q], due[q], did[q]>>
    BY <1>1, <1>2 DEF CallService, CallTypes, vars
  <2>2. CallTypes'
    <3>1. Targets(op) \in SUBSET Exchanges
      BY <1>1 DEF Targets
    <3>2. QED
      BY <1>1, <1>2, <3>1 DEF CallService, CallTypes
  <2>3. CallOK(r)' /\ DidOK(r)'
    BY <1>1, <2>1, StillInHand, OperationParts DEF CallOK, DidOK
  <2>4. QED
    BY <2>1, <2>2, <2>3, StillInHand, OneCall DEF Kept
<1>3. ASSUME NEW r \in Requests, CallFails(r)
      PROVE  CallInv'
  <2>1. /\ UNCHANGED issueVars /\ UNCHANGED <<asked, due, did>>
        /\ seen[r] = "waiting" /\ seen'[r] = "failed" /\ reply'[r] = NoCall
        /\ wire'[r] \in {wire[r], NoCall}
        /\ \A q \in Requests : q # r => UNCHANGED <<wire[q], reply[q], seen[q]>>
    BY <1>1, <1>3 DEF CallFails, CallTypes, vars
  <2>2. CallTypes'
    BY <1>1, <1>3 DEF CallFails, CallTypes, Answers
  <2>3. CallOK(r)' /\ DidOK(r)'
    BY <1>1, <2>1, AnswersAssumption DEF CallOK, DidOK, issueVars, Answers
  <2>4. QED
    BY <2>1, <2>2, <2>3, StillInHand, OneCall DEF Kept
<1>4. ASSUME NEW r \in Requests, NEW a \in Answers, NEW S \in SUBSET Exchanges,
             Arrives(r), Answer(r, a), UNCHANGED <<issueVars, asked, seen, due>>,
             \/ did' = did
             \/ a # "refused" /\ Does(r, S)
      PROVE  CallInv'
  <2>1. /\ wire[r] # NoCall /\ wire'[r] = NoCall /\ pc[r] = "idle" /\ did[r] = {}
        /\ reply'[r] = (IF seen[r] = "waiting" THEN a ELSE NoCall)
        /\ seen[r] \notin {"ok", "refused"}
        /\ \A q \in Requests : q # r => UNCHANGED <<wire[q], reply[q], did[q]>>
    BY <1>1, <1>4, ParamsType DEF Arrives, Answer, Does, CallTypes, DidOK
  <2>2. CallTypes'
    BY <1>1, <1>4 DEF Arrives, Answer, Does, CallTypes
  <2>3. did'[r] = {} \/ a # "refused"
    BY <1>4, <2>1 DEF Does
  <2>4. CallOK(r)' /\ DidOK(r)'
    BY <1>1, <1>4, <2>1, <2>3, StillInHand, AnswersAssumption DEF CallOK, DidOK, Answers
  <2>5. QED
    BY <1>4, <2>1, <2>2, <2>4, StillInHand, OneCall DEF Kept
<1>5. ASSUME NEW r \in Requests, RequireOwnerFails(r) \/ RevokeBusy(r)
      PROVE  CallInv'
  <2>1. {} \in SUBSET Exchanges /\ "refused" \in Answers /\ "failed" \in Answers
    BY DEF Answers
  <2>2. Arrives(r) /\ UNCHANGED <<issueVars, asked, seen, due>> /\ did' = did
    BY <1>5 DEF RequireOwnerFails, RevokeBusy, vars
  <2>3. CASE Answer(r, "refused")
    BY <1>4, <2>1, <2>2, <2>3
  <2>4. CASE Answer(r, "failed")
    BY <1>4, <2>1, <2>2, <2>4
  <2>5. QED
    BY <1>5, <2>3, <2>4 DEF RequireOwnerFails, RevokeBusy
<1>6. ASSUME NEW r \in Requests, RevokeArrives(r)
      PROVE  CallInv'
  <2>1. Targets(wire[r]) \in SUBSET Exchanges
    BY <1>1 DEF Targets
  <2> DEFINE T == Targets(wire[r])
  <2> HIDE DEF T
  <2>2. Arrives(r) /\ UNCHANGED <<issueVars, asked, seen, due>>
    BY <1>6 DEF RevokeArrives, OwnerRevokesCredential, OwnerRevokesConnection, vars
  <2>3. \/ Answer(r, "ok") /\ Does(r, T)
        \/ Answer(r, "refused") /\ did' = did
    BY <1>6 DEF RevokeArrives, T
  <2>4. T \in SUBSET Exchanges /\ "refused" \in Answers /\ "ok" \in Answers
    BY <2>1 DEF Answers, T
  <2>5. CASE Answer(r, "ok") /\ Does(r, T)
    BY <1>4, <2>2, <2>4, <2>5
  <2>6. CASE Answer(r, "refused") /\ did' = did
    BY <1>4, <2>2, <2>4, <2>6
  <2>7. QED
    BY <2>3, <2>5, <2>6
<1>7. ASSUME NEW r \in Requests, IssueArrives(r)
      PROVE  CallInv'
  <2>1. /\ wire[r] # NoCall /\ wire[r] = asked[r] /\ wire[r].op = "issue"
        /\ pc[r] = "idle" /\ did[r] = {} /\ seen[r] \notin {"ok", "refused"}
    BY <1>1, <1>7, ParamsType DEF IssueArrives, Arrives, DidOK
  <2>2. /\ wire' = [wire EXCEPT ![r] = NoCall] /\ UNCHANGED <<asked, reply, seen, due, did>>
        /\ BeginIssue(r, StatusApp, wire[r].conn, wire[r].scope, wire[r].lifetime)
    BY <1>7 DEF IssueArrives, Arrives
  <2>3. /\ pc' = [pc EXCEPT ![r] = "waiting"] /\ credEx' = credEx
        /\ req'[r].conn = wire[r].conn /\ req'[r].vc.scope = wire[r].scope
        /\ req'[r].proc = StatusApp
        /\ \A q \in Requests : q # r /\ pc[q] # "idle" => req'[q] = req[q]
    BY <1>1, <2>2 DEF BeginIssue, BuildCredential, RequestsOK
  <2>4. \A q \in Requests : q # r => InHand(q)
    BY <1>1, <2>3 DEF InHand, RequestsOK
  <2>5. CallTypes'
    BY <1>1, <2>2 DEF CallTypes
  <2>6. wire'[r] = NoCall /\ pc'[r] = "waiting" /\ \A q \in Requests : q # r => wire'[q] = wire[q]
    BY <1>1, <2>2, <2>3 DEF CallTypes, RequestsOK
  <2>7. CallOK(r)' /\ DidOK(r)'
    BY <1>1, <2>1, <2>2, <2>3, <2>6 DEF CallOK, DidOK
  <2>8. QED
    BY <2>2, <2>4, <2>5, <2>6, <2>7, OneCall DEF Kept
<1>8. ASSUME NEW r \in Requests, NEW a \in Answers, NEW S \in SUBSET Exchanges,
             pc[r] # "idle", a = "refused" => pc[r] = "waiting" /\ S = {},
             End({r}), Answer(r, a), UNCHANGED <<asked, wire, seen, due>>, Does(r, S)
      PROVE  CallInv'
  <2>1. /\ pc'[r] = "idle" /\ wire[r] = NoCall
        /\ reply'[r] = (IF seen[r] = "waiting" THEN a ELSE NoCall)
        /\ did'[r] = did[r] \cup S
        /\ seen[r] \notin {"ok", "refused"} /\ asked[r] # NoCall
        /\ \A q \in Requests : q # r => UNCHANGED <<reply[q], did[q]>>
    BY <1>1, <1>8, EndKeepsOthers DEF Answer, Does, CallTypes, CallOK, DidOK
  <2>2. CallTypes'
    BY <1>1, <1>8 DEF Answer, Does, CallTypes
  <2>3. a = "refused" => did'[r] = {}
    BY <1>1, <1>8, <2>1 DEF DidOK
  <2>4. CallOK(r)' /\ DidOK(r)'
    BY <1>1, <1>8, <2>1, <2>3, AnswersAssumption DEF CallOK, DidOK, Answers
  <2>5. \A q \in Requests : InHand(q)
    BY <1>1, <1>8, EndKeepsOthers
  <2>6. QED
    BY <1>8, <2>1, <2>2, <2>4, <2>5, OneCall DEF Kept
<1>9. ASSUME NEW r \in Requests, did' = did
      PROVE  Does(r, {})
  BY <1>1, <1>9 DEF Does, CallTypes
<1>10. ASSUME NEW r \in Requests, IssueConflicts(r) \/ IssueRecords(r)
       PROVE  CallInv'
  <2>1. pc[r] # "idle" /\ End({r}) /\ UNCHANGED <<asked, wire, seen, due>> /\ Does(r, {})
    BY <1>9, <1>10 DEF IssueConflicts, IssueRecords, RejectDuplicate, Remember
  <2>2. \/ pc[r] = "waiting" /\ Answer(r, "refused")
        \/ Answer(r, "ok")
    BY <1>10 DEF IssueConflicts, IssueRecords, RejectDuplicate
  <2>3. QED
    BY <1>8, <2>1, <2>2 DEF Answers
<1>11. ASSUME NEW r \in Requests, IssueFails(r)
       PROVE  CallInv'
  <2>1. /\ pc[r] # "idle" /\ End({r}) /\ UNCHANGED <<asked, wire, seen, due>>
        /\ Answer(r, "failed")
    BY <1>11 DEF IssueFails, AcapyRefuses, StoreBusy, AnswerLost
  <2>2. \E S \in SUBSET Exchanges : Does(r, S)
    <3>1. CASE did' = did
      BY <1>9, <3>1
    <3>2. ASSUME NEW x \in Exchanges, Does(r, {x})
          PROVE  \E S \in SUBSET Exchanges : Does(r, S)
      BY <3>2
    <3>3. QED
      BY <1>11, <3>1, <3>2 DEF IssueFails
  <2>3. QED
    BY <1>8, <2>1, <2>2 DEF Answers
<1>12. ASSUME NEW r \in Requests, IssuePosts(r)
       PROVE  CallInv'
  <2>1. /\ pc[r] = "waiting" /\ pc' = [pc EXCEPT ![r] = "minting"]
        /\ UNCHANGED <<req, credEx, asked, wire, reply, seen, due, did>>
    BY <1>12 DEF IssuePosts, PostToAcapy, callVars
  <2>2. pc'[r] = "minting" /\ \A q \in Requests : q # r => pc'[q] = pc[q]
    BY <1>1, <2>1 DEF RequestsOK
  <2>3. CallOK(r)' /\ DidOK(r)' /\ CallTypes'
    BY <1>1, <2>1, <2>2 DEF CallOK, DidOK, CallTypes
  <2>4. QED
    BY <2>1, <2>2, <2>3, OneCall DEF Kept, InHand
<1>13. ASSUME NEW r \in Requests, NEW x \in Exchanges, IssueMints(r, x)
       PROVE  CallInv'
  <2>1. /\ pc[r] = "minting" /\ pc' = [pc EXCEPT ![r] = "accepted"]
        /\ credEx' = [i \in DOMAIN credEx \cup {r} |-> IF i = r THEN x ELSE credEx[i]]
        /\ UNCHANGED <<req, asked, wire, reply, seen, due>> /\ did' = [did EXCEPT ![r] = did[r] \cup {x}]
    BY <1>13 DEF IssueMints, AcapyAccepts, Does
  <2>2. /\ pc'[r] = "accepted" /\ x \in did'[r] /\ credEx'[r] = x
        /\ \A q \in Requests : q # r => pc'[q] = pc[q] /\ did'[q] = did[q]
    BY <1>1, <2>1 DEF RequestsOK, CallTypes
  <2>3. \A q \in Requests : q # r => InHand(q)
    BY <1>1, <2>1, <2>2 DEF RequestsOK, InHand
  <2>4. CallTypes'
    BY <1>1, <2>1 DEF CallTypes
  <2>5. CallOK(r)' /\ DidOK(r)'
    BY <1>1, <2>1, <2>2, AnswersAssumption DEF CallOK, DidOK, Answers
  <2>6. QED
    BY <2>1, <2>2, <2>3, <2>4, <2>5, OneCall DEF Kept
<1>14. ASSUME UNCHANGED callVars, \A q \in Requests : InHand(q)
       PROVE  CallInv'
  <2>1. CallTypes' /\ \A q \in Requests : Kept(q)
    BY <1>1, <1>14 DEF callVars, CallTypes, Kept
  <2>2. QED
    BY <1>1, <2>1, KeptIsOK DEF CallInv
<1>15. ASSUME UNCHANGED <<issueVars, callVars>>
       PROVE  CallInv'
  BY <1>14, <1>15, StillInHand
<1>16. CASE Elsewhere
  <2>1. ASSUME NEW p \in Processes, Crash(p)
        PROVE  \A q \in Requests : InHand(q)
    BY <1>1, <2>1, EndKeepsOthers DEF Crash
  <2>2. ASSUME NEW m \in late, MintsLate(m)
        PROVE  \A q \in Requests : InHand(q)
    BY <2>2 DEF MintsLate, InHand
  <2>3. QED
    BY <1>14, <1>15, <1>16, <2>1, <2>2
       DEF Elsewhere, OwnerRevokesCredential, OwnerRevokesConnection, Clock
<1>17. CASE UNCHANGED allVars
  BY <1>15, <1>17 DEF allVars, vars
<1>18. ASSUME NEW r \in Requests, ServiceReturns(r)
       PROVE  CallInv'
  <2>1. /\ UNCHANGED issueVars /\ UNCHANGED <<asked, wire, due, did>>
        /\ reply[r] # NoCall /\ seen'[r] = reply[r] /\ reply'[r] = NoCall
        /\ \A q \in Requests : q # r => UNCHANGED <<reply[q], seen[q]>>
    BY <1>1, <1>18 DEF ServiceReturns, CallTypes, vars
  <2>2. CallTypes'
    BY <1>1, <1>18 DEF ServiceReturns, CallTypes
  <2>3. CallOK(r)' /\ DidOK(r)'
    BY <1>1, <2>1, AnswersAssumption DEF CallOK, DidOK, issueVars, Answers
  <2>4. QED
    BY <2>1, <2>2, <2>3, StillInHand, OneCall DEF Kept
<1>19. QED
  BY <1>2, <1>3, <1>5, <1>6, <1>7, <1>10, <1>11, <1>12, <1>13, <1>16, <1>17, <1>18
     DEF ActionsNext

------------------------------------------------------------------------------
(* What the owner is told.                                                    *)

(* Rows stay, with their connection and scope, and revoked ones stay revoked. *)
LEMMA RowsStay ==
  ASSUME TypeOK, [Next]_vars, NEW x \in DOMAIN grants
  PROVE  /\ x \in DOMAIN grants'
         /\ grants'[x].conn = grants[x].conn /\ grants'[x].vc = grants[x].vc
         /\ grants[x].revoked => grants'[x].revoked
<1>1. ASSUME NEW y \in Exchanges, NEW c \in Connections, NEW vc \in Credential,
             RememberIssuedSuperseding(y, c, vc)
      PROVE  x \in DOMAIN grants' /\ grants'[x] \in {grants[x], Revoked(grants[x])}
  BY <1>1 DEF RememberIssuedSuperseding
<1>2. ASSUME NEW rows \in SUBSET Exchanges, RevokeRows(rows)
      PROVE  x \in DOMAIN grants' /\ grants'[x] \in {grants[x], Revoked(grants[x])}
  BY <1>2 DEF RevokeRows
<1>3. x \in DOMAIN grants' /\ grants'[x] \in {grants[x], Revoked(grants[x])}
  BY <1>1, <1>2, StepsOfTheStore DEF StoreStep
<1>4. QED
  BY <1>3 DEF Revoked

(* What an "ok" to call r says of the store.                                  *)
SaidTrue(r) ==
  LET op == asked[r] IN
  CASE op.op = "issue" ->
         \E x \in did[r] \cap DOMAIN grants :
           grants[x].conn = op.conn /\ grants[x].vc.scope = op.scope
    [] op.op # "issue" ->
         did[r] # {} /\ \A x \in due[r] \cup did[r] : grants[x].revoked

(* What the revocation was about when it was asked for it is about still, and *)
(* an "ok" on its way, or told, is true.                                      *)
ToldOK(r) ==
  /\ asked[r] # NoCall => due[r] \subseteq Targets(asked[r])
  /\ "ok" \in {seen[r], reply[r]} =>
       /\ asked[r] # NoCall /\ SaidTrue(r)
       /\ asked[r].op # "issue" => did[r] \subseteq DOMAIN grants

ToldInv == \A r \in Requests : ToldOK(r)

(* The truth of an answer outlasts every step that is not the call's own.     *)
LEMMA TruthLasts ==
  ASSUME TypeOK, [Next]_vars, NEW r \in Requests, ToldOK(r),
         UNCHANGED <<asked[r], due[r]>>,
         "ok" \in {seen'[r], reply'[r]} =>
           "ok" \in {seen[r], reply[r]} /\ did'[r] = did[r]
  PROVE  ToldOK(r)'
<1>1. asked[r] # NoCall => due'[r] \subseteq Targets(asked[r])'
  BY RowsStay DEF ToldOK, Targets
<1>2. ASSUME "ok" \in {seen[r], reply[r]}, did'[r] = did[r]
      PROVE  SaidTrue(r)' /\ (asked[r].op # "issue" => did'[r] \subseteq DOMAIN grants')
  <2>1. asked[r] # NoCall /\ SaidTrue(r) /\ due[r] \subseteq DOMAIN grants
        /\ (asked[r].op # "issue" => did[r] \subseteq DOMAIN grants)
    BY <1>2 DEF ToldOK, Targets
  <2>2. CASE asked[r].op = "issue"
    BY <1>2, <2>1, <2>2, RowsStay DEF SaidTrue
  <2>3. CASE asked[r].op # "issue"
    BY <1>2, <2>1, <2>3, RowsStay DEF SaidTrue
  <2>4. QED
    BY <2>2, <2>3
<1>3. QED
  BY <1>1, <1>2 DEF ToldOK

LEMMA ToldInductive ==
  ASSUME TypeOK, CallInv, ToldInv, [ActionsNext]_allVars
  PROVE  ToldInv'
<1> SUFFICES ASSUME NEW q \in Requests
             PROVE  ToldOK(q)'
  BY DEF ToldInv
<1>1. /\ CallTypes /\ CallOK(q) /\ DidOK(q) /\ ToldOK(q) /\ [Next]_vars
  BY ActionsStep DEF CallInv, ToldInv
<1>2. ASSUME NEW op \in Operation, CallService(q, op)
      PROVE  ToldOK(q)'
  <2>1. /\ asked'[q] = op /\ seen'[q] = "waiting" /\ reply'[q] = NoCall
        /\ due'[q] = Targets(op) /\ UNCHANGED grants
    BY <1>1, <1>2 DEF CallService, CallTypes, CallOK, vars, storeVars
  <2>2. Targets(asked[q])' = Targets(op)
    BY <2>1 DEF Targets
  <2>3. QED
    BY <2>1, <2>2, AnswersAssumption DEF ToldOK, Answers
<1>3. CASE IssueRecords(q)
  <2>1. /\ UNCHANGED <<asked, due, did>> /\ asked[q] # NoCall
        /\ RememberIssuedSuperseding(credEx[q], req[q].conn, req[q].vc)
        /\ asked[q].op = "issue" /\ asked[q].conn = req[q].conn
        /\ asked[q].scope = req[q].vc.scope /\ credEx[q] \in did[q]
    BY <1>1, <1>3 DEF IssueRecords, Remember, CallOK, DidOK
  <2>2. credEx[q] \in did'[q] \cap DOMAIN grants'
        /\ grants'[credEx[q]] = [conn |-> req[q].conn, vc |-> req[q].vc, revoked |-> FALSE]
    BY <2>1 DEF RememberIssuedSuperseding
  <2>3. SaidTrue(q)'
    BY <2>1, <2>2 DEF SaidTrue
  <2>4. due'[q] \subseteq Targets(asked[q])'
    BY <1>1, <2>1, RowsStay DEF ToldOK, Targets
  <2>5. QED
    BY <2>1, <2>3, <2>4 DEF ToldOK
<1>4. ASSUME UNCHANGED <<asked[q], due[q]>>,
             "ok" \in {seen'[q], reply'[q]} =>
               "ok" \in {seen[q], reply[q]} /\ did'[q] = did[q]
      PROVE  ToldOK(q)'
  BY <1>1, <1>4, TruthLasts
<1>5. ASSUME NEW a \in {"refused", "failed"}, Answer(q, a), seen[q] # "ok",
             UNCHANGED <<asked, seen, due>>
      PROVE  ToldOK(q)'
  BY <1>1, <1>4, <1>5, AnswersAssumption DEF Answer, CallTypes, Answers
<1>6. CASE RevokeArrives(q)
  <2>1. /\ wire[q] = asked[q] /\ asked[q] # NoCall /\ UNCHANGED <<asked, seen, due>>
        /\ asked[q].op \in {"revoke", "revokeAll"} /\ did[q] = {} /\ seen[q] # "ok"
    BY <1>1, <1>6, ParamsType, OperationParts DEF RevokeArrives, Arrives, DidOK, CallTypes
  <2>2. CASE Answer(q, "refused")
    BY <1>5, <2>1, <2>2
  <2>3. ASSUME Does(q, Targets(asked[q])),
               \/ asked[q].op = "revoke" /\ OwnerRevokesCredential(asked[q].exch)
               \/ asked[q].op = "revokeAll" /\ OwnerRevokesConnection(asked[q].conn)
        PROVE  ToldOK(q)'
    <3>1. did'[q] = Targets(asked[q]) /\ due'[q] \subseteq Targets(asked[q])
      BY <1>1, <2>1, <2>3 DEF Does, CallTypes, ToldOK
    <3>2. \/ asked[q].op = "revoke" /\ RevokeCredential(asked[q].exch)
          \/ asked[q].op = "revokeAll" /\ RevokeConnection(asked[q].conn)
      BY <2>3 DEF OwnerRevokesCredential, OwnerRevokesConnection
    <3>3. Targets(asked[q]) # {}
      BY <3>2 DEF Targets, RevokeCredential, RevokeConnection
    <3>4. DOMAIN grants' = DOMAIN grants
          /\ \A x \in Targets(asked[q]) : x \in DOMAIN grants /\ grants'[x].revoked
      BY <3>2 DEF Targets, RevokeCredential, RevokeConnection, RevokeRows, Revoked
    <3>5. SaidTrue(q)' /\ did'[q] \subseteq DOMAIN grants'
      BY <2>1, <3>1, <3>3, <3>4 DEF SaidTrue
    <3>6. due'[q] \subseteq Targets(asked[q])'
      BY <1>1, <2>1, RowsStay DEF ToldOK, Targets
    <3>7. QED
      BY <2>1, <3>5, <3>6 DEF ToldOK
  <2>4. QED
    BY <1>6, <2>1, <2>2, <2>3 DEF RevokeArrives
<1>7. ASSUME NEW r \in Requests, r # q,
             \/ \E op \in Operation : CallService(r, op)
             \/ CallFails(r) \/ ServiceReturns(r) \/ RequireOwnerFails(r)
             \/ IssueConflicts(r) \/ IssueRecords(r) \/ IssueFails(r)
             \/ RevokeArrives(r) \/ RevokeBusy(r)
             \/ \E x \in Exchanges : IssueMints(r, x)
      PROVE  ToldOK(q)'
  <2>1. UNCHANGED <<asked[q], due[q], seen[q], reply[q], did[q]>>
    BY <1>1, <1>7 DEF CallService, CallFails, ServiceReturns, RequireOwnerFails, IssueConflicts,
       IssueRecords, IssueFails, RevokeArrives, RevokeBusy, IssueMints, Answer, Does, CallTypes
  <2>2. QED
    BY <1>4, <2>1
<1>8. CASE CallFails(q) \/ ServiceReturns(q)
  BY <1>1, <1>4, <1>8, AnswersAssumption DEF CallFails, ServiceReturns, CallTypes, Answers
<1>9. CASE RequireOwnerFails(q) \/ RevokeBusy(q)
  <2>1. UNCHANGED <<asked, seen, due>> /\ seen[q] # "ok"
    BY <1>1, <1>9 DEF RequireOwnerFails, RevokeBusy, Arrives, DidOK
  <2>2. QED
    BY <1>5, <1>9, <2>1 DEF RequireOwnerFails, RevokeBusy
<1>10. CASE IssueConflicts(q) \/ IssueFails(q)
  <2>1. UNCHANGED <<asked, seen, due>> /\ seen[q] # "ok"
    BY <1>1, <1>10 DEF IssueConflicts, IssueFails, RejectDuplicate, AcapyRefuses, StoreBusy,
       AnswerLost, DidOK
  <2>2. QED
    BY <1>5, <1>10, <2>1 DEF IssueConflicts, IssueFails
<1>11. ASSUME NEW x \in Exchanges, IssueMints(q, x)
       PROVE  ToldOK(q)'
  <2>1. UNCHANGED <<asked, due, seen, reply>> /\ pc[q] = "minting"
    BY <1>11 DEF IssueMints, AcapyAccepts
  <2>2. "ok" \notin {seen[q], reply[q]}
    BY <1>1, <2>1, AnswersAssumption DEF CallOK, DidOK, Answers
  <2>3. QED
    BY <1>4, <2>1, <2>2
<1>12. CASE \/ Elsewhere \/ UNCHANGED allVars
            \/ \E r \in Requests : IssueArrives(r) \/ IssuePosts(r)
  BY <1>4, <1>12 DEF Elsewhere, allVars, callVars, IssueArrives, IssuePosts
<1>13. QED
  <2>1. ASSUME NEW r \in Requests, NEW op \in Operation, CallService(r, op)
        PROVE  ToldOK(q)'
    BY <1>2, <1>7, <2>1
  <2>2. ASSUME NEW r \in Requests, NEW x \in Exchanges, IssueMints(r, x)
        PROVE  ToldOK(q)'
    BY <1>7, <1>11, <2>2
  <2>3. ASSUME NEW r \in Requests,
               \/ CallFails(r) \/ ServiceReturns(r) \/ RequireOwnerFails(r)
               \/ IssueConflicts(r) \/ IssueRecords(r) \/ IssueFails(r)
               \/ RevokeArrives(r) \/ RevokeBusy(r)
        PROVE  ToldOK(q)'
    BY <1>3, <1>6, <1>7, <1>8, <1>9, <1>10, <2>3
  <2>4. QED
    BY <1>12, <2>1, <2>2, <2>3 DEF ActionsNext

------------------------------------------------------------------------------
LEMMA ActionsInvariant == ActionsSpec => [](TypeOK /\ CallInv /\ ToldInv)
<1>1. ActionsInit => TypeOK /\ CallInv /\ ToldInv
  <2>1. ActionsInit => TypeOK /\ CallInv
    BY DEF ActionsInit, Init, StoreInit, TypeOK, StoreTypeOK, RequestsOK, PCs,
           CallInv, CallTypes, CallOK, DidOK
  <2>2. ActionsInit => ToldInv
    BY AnswersAssumption DEF ActionsInit, ToldInv, ToldOK, Answers
  <2>3. QED
    BY <2>1, <2>2
<1>2. TypeOK /\ CallInv /\ ToldInv /\ [ActionsNext]_allVars => (TypeOK /\ CallInv /\ ToldInv)'
  BY ActionsStep, TypeInductive, CallInductive, ToldInductive
<1>3. QED
  BY <1>1, <1>2, PTL DEF ActionsSpec

(* The actions of the integration and the routes of the status app issue and  *)
(* revoke as owner.py does whoever calls it: all that is proved of            *)
(* OwnerIssuance!Spec holds with Home Assistant in front.                     *)
THEOREM ActionsImplementIssuance == ActionsSpec => Spec
<1>1. ActionsInit => Init
  BY DEF ActionsInit
<1>2. TypeOK /\ CallInv /\ [ActionsNext]_allVars => [Next]_vars
  BY ActionsStep
<1>3. QED
  BY <1>1, <1>2, ActionsInvariant, PTL DEF ActionsSpec, Spec

(* A call is at one place only, on the wire or in the gateway, and what the   *)
(* gateway is doing for it is what the owner asked for (services.py, api.py). *)
THEOREM CallsTypeCorrect == ActionsSpec => []CallsOK
<1>1. CallInv => CallsOK
  BY CallInvSuffices
<1>2. QED
  BY <1>1, ActionsInvariant, PTL

(* A 401, 404 or 409 is told only of a call that minted nothing and touched   *)
(* no row (status.py).                                                        *)
THEOREM RefusedDidNothingCorrect == ActionsSpec => []RefusedDidNothing
<1>1. CallInv => RefusedDidNothing
  BY CallInvSuffices
<1>2. QED
  BY <1>1, ActionsInvariant, PTL

(* What Home Assistant reports as a success has happened and is still so:     *)
(* however long the answer, the refresh or other calls take (services.py      *)
(* awaits async_request_refresh before it returns), the grant stays on file,  *)
(* and every row that was there when the owner asked stays revoked.           *)
THEOREM OkIsTrueCorrect == ActionsSpec => []OkIsTrue
<1>1. CallInv /\ ToldInv => OkIsTrue
  BY DEF CallInv, ToldInv, ToldOK, SaidTrue, OkIsTrue
<1>2. QED
  BY <1>1, ActionsInvariant, PTL

(* The integration issues through the status app alone: what its lock checks  *)
(* before the await of ACA-Py still holds after it, in a home with any number *)
(* of other processes that revoke and die, and with late mints beside it.     *)
THEOREM ActionsCheckOutlivesAwait == ActionsSpec => CheckOutlivesAwait
<1>1. ActionsInit => ScopeHeld
  BY DEF ActionsInit, Init, ScopeHeld
<1>2. CallInv => OneIssuer
  BY DEF CallInv, CallOK, OneIssuer
<1>3. TypeOK /\ CallInv /\ ScopeHeld /\ [ActionsNext]_allVars => ScopeHeld'
  BY <1>2, ActionsStep, ScopeHeldInductive
<1>4. TypeOK /\ CallInv /\ ScopeHeld /\ [ActionsNext]_allVars =>
        [/\ \A m \in (minted' \ minted) \ late :
              FindEquivalentActiveGrant(m.conn, m.vc.scope) = {}
         /\ \A x \in DOMAIN grants' \ DOMAIN grants :
              FindEquivalentActiveGrant(grants'[x].conn, grants'[x].vc.scope) = {}]_vars
  BY ActionsStep, CheckHoldsStep
<1>5. QED
  BY <1>1, <1>3, <1>4, ActionsInvariant, PTL DEF ActionsSpec, CheckOutlivesAwait

(* An owner who retries what failed may have several credentials minted; the  *)
(* gate accepts one of them (is_presented_authorised).                        *)
THEOREM ActionsOneCredential == ActionsSpec => []OneCredentialCounts
BY ActionsImplementIssuance, OneCredentialCountsCorrect

(* What Home Assistant makes of lost, late and repeated calls are steps of    *)
(* the ledger of grants.                                                      *)
THEOREM ActionsKeepGrants == ActionsSpec => KeepsGrants
BY ActionsImplementIssuance, KeepsGrantsCorrect

=============================================================================
