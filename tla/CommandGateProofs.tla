-------------------------- MODULE CommandGateProofs --------------------------
(* Safety of the command gate, for every number of handlers, connections and  *)
(* request ids, every store and every timeout, retention and queue length.    *)
EXTENDS CommandGate, CredentialStoreProofs, FiniteSetTheorems

------------------------------------------------------------------------------
(* Types.                                                                     *)

LEMMA ExchangeType ==
  ASSUME NEW state \in {"none", "sent", "done", "left"}, NEW deadline \in Nat,
         NEW vp \in Presentation \cup {None}
  PROVE  ExchangeIn(state, deadline, vp) \in Exchange
BY DEF ExchangeIn, Exchange

LEMMA EmptyExchanges ==
  NoExchange \in Exchange /\ Unread \in Exchange
<1>1. None \in Presentation \cup {None} /\ 0 \in Nat
  OBVIOUS
<1>2. QED
  BY <1>1, ExchangeType DEF NoExchange, Unread

LEMMA PendingRowType ==
  ASSUME NEW created \in Nat
  PROVE  /\ [created |-> created, pending |-> TRUE] \in ClaimRow
         /\ [created |-> created, pending |-> FALSE] \in ClaimRow
<1>1. [created |-> created, pending |-> TRUE] \in ClaimRow
  BY Zenon DEF ClaimRow
<1>2. [created |-> created, pending |-> FALSE] \in ClaimRow
  BY Zenon DEF ClaimRow
<1>3. QED
  BY <1>1, <1>2

(* The part of the state a handler loses when it ends stays well typed.       *)
LEMMA ForgetType ==
  ASSUME TypeOK, NEW H, Forget(H)
  PROVE  /\ proof' \in [Handlers -> Exchange]
         /\ presented' \in [Handlers -> Presentation \cup {None}]
         /\ basis' \in [Handlers -> SUBSET Exchanges]
<1>1. NoExchange \in Exchange
  BY EmptyExchanges
<1>2. QED
  BY <1>1 DEF TypeOK, Forget

LEMMA KeyType ==
  ASSUME TypeOK, NEW h \in Handlers, msg[h] # None
  PROVE  msg[h] \in Message /\ Key(h) \in Connections \X RequestIds
<1>1. msg[h] \in Message
  BY DEF TypeOK
<1>2. msg[h].conn \in Connections /\ msg[h].id \in RequestIds
  BY <1>1 DEF Message
<1>3. QED
  BY <1>1, <1>2 DEF Key

(* What a wallet presents is a presentation.                                  *)
LEMMA PresentableType ==
  ASSUME TypeOK, NEW vc \in Presentable
  PROVE  vc \in Credential
<1>1. CASE \E x \in DOMAIN grants : vc = grants[x].vc
  BY <1>1 DEF TypeOK, StoreTypeOK, Grant
<1>2. CASE \E s \in Scopes : vc = BuildCredential(s, Never)
  BY <1>2 DEF TypeOK, StoreTypeOK, BuildCredential, Credential
<1>3. QED
  BY <1>1, <1>2 DEF Presentable

(* The steps the proofs below go through.                                     *)
LEMMA Steps ==
  ASSUME TypeOK, [Next]_vars
  PROVE  \/ \E h \in Handlers, m \in Message : Receive(h, m)
         \/ \E h \in Handlers : Handle(h)
         \/ \E h \in Handlers, vp \in Presentation : HolderPresents(h, vp)
         \/ \E h \in Handlers : HomeAssistantExecutes(h)
         \/ Crash
         \/ \E x \in Exchanges, c \in Connections, s \in Scopes, l \in Lifetimes :
              OwnerIssues(x, c, s, l)
         \/ \E rows : RevokeRows(rows) /\ UNCHANGED <<now, home, gateVars>>
         \/ Clock
         \/ UNCHANGED vars
<1>1. ASSUME NEW h \in Handlers, NEW g \in Handlers, NEW p \in Subjects,
             NEW v \in BOOLEAN, NEW vc \in Presentable,
             HolderPresents(h, [vc |-> vc, signer |-> p, challenge |-> g,
                                verified |-> v])
      PROVE  \E vp \in Presentation : HolderPresents(h, vp)
  <2>1. vc \in Credential
    BY PresentableType
  <2>2. [vc |-> vc, signer |-> p, challenge |-> g, verified |-> v]
          \in Presentation
    BY <2>1, Zenon DEF Presentation
  <2>3. QED
    BY <1>1, <2>2, Zenon
<1>2. ASSUME NEW x \in Exchanges, OwnerRevokes(x)
      PROVE  \E rows : RevokeRows(rows) /\ UNCHANGED <<now, home, gateVars>>
  BY <1>2 DEF OwnerRevokes, RevokeCredential
<1>3. ASSUME NEW c \in Connections, OwnerRevokesAll(c)
      PROVE  \E rows : RevokeRows(rows) /\ UNCHANGED <<now, home, gateVars>>
  BY <1>3 DEF OwnerRevokesAll, RevokeConnection
<1>4. QED
  BY <1>1, <1>2, <1>3, Zenon DEF Next

(* TypeOK is inductive, given where a handler can be: no step leaves a        *)
(* handler at work without its message, or past its claim without one.        *)
LEMMA TypeInductive ==
  ASSUME TypeOK, PhaseOK, [Next]_vars
  PROVE  TypeOK'
<1> USE DEF TypeOK, Go, PCs, Before, AfterClaim, Resumes, Continues, Awaits
<1>0. ASSUME UNCHANGED storeVars
      PROVE  StoreTypeOK'
  BY <1>0 DEF storeVars, StoreTypeOK
<1>1. ASSUME NEW h \in Handlers, NEW m \in Message, Receive(h, m)
      PROVE  TypeOK'
  <2>1. StoreTypeOK'
    BY <1>0, <1>1 DEF Receive
  <2>2. m # None
    BY NoneAssumption
  <2>3. QED
    BY <1>1, <2>1, <2>2 DEF Receive, Outcomes
<1>2. ASSUME NEW h \in Handlers, Authorise(h)
      PROVE  TypeOK'
  BY <1>0, <1>2 DEF Authorise, Outcomes
<1>3. ASSUME NEW h \in Handlers, ClaimCommand(h)
      PROVE  TypeOK'
  <2>1. now \in Nat /\ StoreTypeOK'
    BY <1>0, <1>3 DEF ClaimCommand, StoreTypeOK
  <2>2. None # now
    BY <2>1, NoneAssumption
  <2>3. Purged \in [Connections \X RequestIds -> ClaimRow \cup {None}]
    BY DEF Purged
  <2>4. claims' \in {Purged, [Purged EXCEPT ![Key(h)] = [created |-> now, pending |-> TRUE]]}
    BY <1>3 DEF ClaimCommand
  <2>5. claims' \in [Connections \X RequestIds -> ClaimRow \cup {None}]
    BY <2>1, <2>3, <2>4, PendingRowType
  <2>6. claimed' \in [Handlers -> Nat \cup {None}]
    BY <1>3, <2>1 DEF ClaimCommand
  <2>7. \A g \in Handlers : /\ pc'[g] # "idle" => msg'[g] # None
                            /\ pc'[g] \in AfterClaim => claimed'[g] # None
    BY <1>3, <2>2 DEF ClaimCommand
  <2>8. QED
    BY <1>3, <2>1, <2>5, <2>6, <2>7 DEF ClaimCommand
<1>4. ASSUME NEW h \in Handlers, BuildRequest(h)
      PROVE  TypeOK'
  <2>1. now + ProofTimeout \in Nat /\ StoreTypeOK'
    BY <1>0, <1>4, GateAssumption DEF BuildRequest, StoreTypeOK
  <2>2. ExchangeIn("none", now + ProofTimeout, None) \in Exchange
    BY <2>1, ExchangeType
  <2>3. QED
    BY <1>4, <2>1, <2>2 DEF BuildRequest
<1>5. ASSUME NEW h \in Handlers, SendProofRequest(h)
      PROVE  TypeOK'
  <2>1. ExchangeIn("sent", proof[h].deadline, None) \in Exchange
    BY ExchangeType DEF Exchange
  <2>2. QED
    BY <1>0, <1>5, <2>1 DEF SendProofRequest
<1>6. ASSUME NEW h \in Handlers, SendFails(h)
      PROVE  TypeOK'
  BY <1>0, <1>6 DEF SendFails
<1>7. ASSUME NEW h \in Handlers, NEW vp \in Presentation, HolderPresents(h, vp)
      PROVE  TypeOK'
  <2>1. ExchangeIn("done", proof[h].deadline, vp) \in Exchange
    BY ExchangeType DEF Exchange
  <2>2. QED
    BY <1>0, <1>7, <2>1 DEF HolderPresents
<1>8. ASSUME NEW h \in Handlers, PollDone(h)
      PROVE  TypeOK'
  <2>1. proof[h].vp \in Presentation \cup {None}
    BY DEF Exchange
  <2>2. presented' \in [Handlers -> Presentation \cup {None}]
    BY <1>8, <2>1 DEF PollDone
  <2>3. QED
    BY <1>0, <1>8, <2>2, EmptyExchanges DEF PollDone, StopPolling
<1>9. ASSUME NEW h \in Handlers, PollFails(h)
      PROVE  TypeOK'
  BY <1>0, <1>9, EmptyExchanges DEF PollFails, StopPolling
<1>10. ASSUME NEW h \in Handlers, ProofTimesOut(h)
       PROVE  TypeOK'
  BY <1>0, <1>10, EmptyExchanges DEF ProofTimesOut, StopPolling
<1>11. ASSUME NEW h \in Handlers, DeleteProofRecord(h)
       PROVE  TypeOK'
  BY <1>0, <1>11, EmptyExchanges DEF DeleteProofRecord
<1>12. ASSUME NEW h \in Handlers, Recheck(h)
       PROVE  TypeOK'
  <2>1. DOMAIN grants \subseteq Exchanges
    BY DEF StoreTypeOK
  <2>2. basis' \in [Handlers -> SUBSET Exchanges]
    BY <1>12, <2>1 DEF Recheck
  <2>3. QED
    BY <1>0, <1>12, <2>2 DEF Recheck, Outcomes
<1>13. ASSUME NEW h \in Handlers, Dispatch(h)
       PROVE  TypeOK'
  BY <1>0, <1>13 DEF Dispatch
<1>14. ASSUME NEW h \in Handlers, HomeAssistantExecutes(h)
       PROVE  TypeOK'
  BY <1>0, <1>14 DEF HomeAssistantExecutes
<1>15. ASSUME NEW h \in Handlers, CallSucceeds(h) \/ CallFails(h)
       PROVE  TypeOK'
  BY <1>0, <1>15 DEF CallSucceeds, CallFails, Outcomes
<1>16. ASSUME NEW h \in Handlers, SendReply(h)
       PROVE  TypeOK'
  BY <1>0, <1>16 DEF SendReply, PhaseOK
<1>17. ASSUME NEW h \in Handlers, FinishCommand(h)
       PROVE  TypeOK'
  <2>1. claims' \in [Connections \X RequestIds -> ClaimRow \cup {None}]
    <3>1. ASSUME NEW k \in Connections \X RequestIds, claims[k] # None
          PROVE  [created |-> claims[k].created, pending |-> FALSE] \in ClaimRow
      <4>1. claims[k].created \in Nat
        BY <3>1 DEF ClaimRow
      <4>2. QED
        BY <4>1, PendingRowType
    <3>2. QED
      BY <1>17, <3>1 DEF FinishCommand
  <2>2. QED
    BY <1>0, <1>17, <2>1, ForgetType DEF FinishCommand
<1>18. ASSUME NEW h \in Handlers, StoreBusy(h)
       PROVE  TypeOK'
  BY <1>0, <1>18, ForgetType DEF StoreBusy
<1>19. CASE Crash
  BY <1>0, <1>19, ForgetType DEF Crash
<1>20. ASSUME StoreTypeOK', UNCHANGED gateVars
       PROVE  TypeOK'
  BY <1>20 DEF gateVars
<1>21. ASSUME NEW x \in Exchanges, NEW c \in Connections, NEW s \in Scopes,
              NEW l \in Lifetimes, OwnerIssues(x, c, s, l)
       PROVE  TypeOK'
  <2>1. BuildCredential(s, l) \in Credential
    BY BuildCredentialType
  <2>2. StoreTypeOK'
    BY <1>21, <2>1, RememberType DEF OwnerIssues
  <2>3. QED
    BY <1>20, <1>21, <2>2 DEF OwnerIssues
<1>22. ASSUME NEW rows, RevokeRows(rows), UNCHANGED <<now, home, gateVars>>
       PROVE  TypeOK'
  BY <1>20, <1>22, RevokeType
<1>23. CASE Clock
  BY <1>20, <1>23 DEF Clock, Tick, StoreTypeOK
<1>24. CASE UNCHANGED vars
  BY <1>0, <1>20, <1>24 DEF vars
<1> HIDE DEF TypeOK
<1>25. ASSUME NEW h \in Handlers, Handle(h)
       PROVE  TypeOK'
  BY <1>2, <1>3, <1>4, <1>5, <1>6, <1>8, <1>9, <1>10, <1>11, <1>12, <1>13,
     <1>15, <1>16, <1>17, <1>18, <1>25, Zenon
     DEF Handle
<1>26. QED
  BY Steps, <1>1, <1>7, <1>14, <1>19, <1>21, <1>22, <1>23, <1>24, <1>25, Zenon
------------------------------------------------------------------------------
(* Where a handler is tells what it has done so far.                          *)

LEMMA PhaseInductive ==
  ASSUME TypeOK, PhaseOK, [Next]_vars
  PROVE  PhaseOK'
<1> USE DEF Go, PCs, Before, AfterClaim, Resumes, Continues
<1>1. /\ pc \in [Handlers -> PCs]
      /\ claimed \in [Handlers -> Nat \cup {None}]
      /\ call \in [Handlers -> {"none", "sent", "executed"}]
      /\ outcome \in [Handlers -> Outcomes]
      /\ \A h \in Handlers : pc[h] \in AfterClaim => claimed[h] # None
  BY DEF TypeOK
<1>2. ASSUME NEW h \in Handlers, NEW m \in Message, Receive(h, m)
      PROVE  PhaseOK'
  BY <1>1, <1>2 DEF Receive, PhaseOK
<1>3. ASSUME NEW h \in Handlers, Authorise(h)
      PROVE  PhaseOK'
  BY <1>1, <1>3 DEF Authorise, PhaseOK
<1>4. ASSUME NEW h \in Handlers, ClaimCommand(h)
      PROVE  PhaseOK'
  <2>1. now # None
    BY NoneAssumption DEF TypeOK, StoreTypeOK
  <2>2. QED
    BY <1>1, <1>4, <2>1 DEF ClaimCommand, PhaseOK
<1>5. ASSUME NEW h \in Handlers,
             \/ BuildRequest(h) \/ SendProofRequest(h) \/ SendFails(h)
             \/ PollDone(h) \/ PollFails(h) \/ ProofTimesOut(h)
             \/ DeleteProofRecord(h)
      PROVE  PhaseOK'
  BY <1>1, <1>5
     DEF PhaseOK, BuildRequest, SendProofRequest, SendFails, PollDone,
         PollFails, ProofTimesOut, StopPolling, DeleteProofRecord
<1>6. ASSUME NEW h \in Handlers, Recheck(h)
      PROVE  PhaseOK'
  BY <1>1, <1>6 DEF Recheck, PhaseOK
<1>7. ASSUME NEW h \in Handlers, Dispatch(h)
      PROVE  PhaseOK'
  BY <1>1, <1>7 DEF Dispatch, PhaseOK
<1>8. ASSUME NEW h \in Handlers, HomeAssistantExecutes(h)
      PROVE  PhaseOK'
  BY <1>1, <1>8 DEF HomeAssistantExecutes, PhaseOK
<1>9. ASSUME NEW h \in Handlers, CallSucceeds(h) \/ CallFails(h)
      PROVE  PhaseOK'
  BY <1>1, <1>9 DEF CallSucceeds, CallFails, PhaseOK
<1>10. ASSUME NEW h \in Handlers, SendReply(h)
       PROVE  PhaseOK'
  BY <1>1, <1>10 DEF SendReply, PhaseOK
<1>11. ASSUME NEW h \in Handlers, FinishCommand(h) \/ StoreBusy(h)
       PROVE  PhaseOK'
  BY <1>1, <1>11 DEF FinishCommand, StoreBusy, PhaseOK
<1>12. CASE Crash
  BY <1>1, <1>12 DEF Crash, PhaseOK
<1>13. ASSUME UNCHANGED <<pc, claimed, call, outcome>>
       PROVE  PhaseOK'
  BY <1>13 DEF PhaseOK
<1>14. ASSUME NEW h \in Handlers, NEW vp \in Presentation, HolderPresents(h, vp)
       PROVE  PhaseOK'
  BY <1>13, <1>14 DEF HolderPresents
<1>15. ASSUME UNCHANGED gateVars
       PROVE  PhaseOK'
  BY <1>13, <1>15 DEF gateVars
<1>16. ASSUME NEW h \in Handlers, Handle(h)
       PROVE  PhaseOK'
  BY <1>3, <1>4, <1>5, <1>6, <1>7, <1>9, <1>10, <1>11, <1>16, Zenon DEF Handle
<1>17. QED
  BY Steps, <1>2, <1>8, <1>12, <1>14, <1>15, <1>16
     DEF OwnerIssues, Clock, vars

------------------------------------------------------------------------------
(* The command table and the claims it remembers.                             *)

(* A row the purge takes, and a row of the same key a claim does not find,    *)
(* are older than the retention.                                              *)
LEMMA PurgedIsOld ==
  ASSUME TypeOK, ClaimsRemembered, NEW h \in Handlers, claimed[h] # None
  PROVE  /\ claimed[h] \in Nat /\ now \in Nat
         /\ \/ now > claimed[h] + Retention
            \/ /\ Purged[Key(h)] # None
               /\ Purged[Key(h)].created = claimed[h]
<1>1. claimed[h] \in Nat /\ now \in Nat /\ Retention \in Nat
  BY GateAssumption DEF TypeOK, StoreTypeOK
<1>2. msg[h] # None /\ Key(h) \in DOMAIN claims
  BY KeyType DEF ClaimsRemembered, TypeOK
<1>3. \/ now > claimed[h] + Retention
      \/ claims[Key(h)] # None /\ claims[Key(h)].created = claimed[h]
  BY DEF ClaimsRemembered
<1>4. QED
  BY <1>1, <1>2, <1>3 DEF Purged

LEMMA ClaimsInductive ==
  ASSUME TypeOK, PhaseOK, ClaimsRemembered, ClaimsApart, [Next]_vars
  PROVE  ClaimsRemembered' /\ ClaimsApart'
<1> DEFINE Goal == ClaimsRemembered /\ ClaimsApart
<1>1. /\ now \in Nat /\ Retention \in Nat
      /\ claims \in [Connections \X RequestIds -> ClaimRow \cup {None}]
      /\ msg \in [Handlers -> Message \cup {None}]
      /\ claimed \in [Handlers -> Nat \cup {None}]
  BY GateAssumption DEF TypeOK, StoreTypeOK
<1>2. ASSUME UNCHANGED <<claims, claimed, msg>>, now' \in {now, now + 1}
      PROVE  Goal'
  BY <1>1, <1>2 DEF ClaimsRemembered, ClaimsApart, Key, MoreThanRetention
<1>3. ASSUME NEW h \in Handlers, NEW m \in Message, Receive(h, m)
      PROVE  Goal'
  <2>1. /\ claimed[h] = None
        /\ claimed' = claimed /\ claims' = claims /\ now' = now
        /\ \A g \in Handlers : g # h => msg'[g] = msg[g]
    BY <1>1, <1>3 DEF Receive, Resumes, PhaseOK, storeVars
  <2>2. ASSUME NEW g \in Handlers, claimed'[g] # None
        PROVE  g # h /\ claimed[g] # None /\ Key(g)' = Key(g)
    BY <2>1, <2>2 DEF Key
  <2>3. ClaimsRemembered'
    BY <2>1, <2>2 DEF ClaimsRemembered
  <2>4. ClaimsApart'
    BY <2>1, <2>2 DEF ClaimsApart, MoreThanRetention
  <2>5. QED
    BY <2>3, <2>4
<1>4. ASSUME NEW h \in Handlers, ClaimCommand(h)
      PROVE  Goal'
  <2>1. /\ msg' = msg /\ now' = now
        /\ \A g \in Handlers : Key(g)' = Key(g)
    BY <1>4 DEF ClaimCommand, storeVars, Key
  <2>2. msg[h] # None /\ Key(h) \in Connections \X RequestIds
    BY <1>4, KeyType DEF ClaimCommand, Continues, TypeOK
  <2>3. CASE claims' = Purged /\ claimed' = claimed
    <3>1. ClaimsRemembered'
      BY <2>1, <2>3, PurgedIsOld DEF ClaimsRemembered
    <3>2. ClaimsApart'
      BY <2>1, <2>3 DEF ClaimsApart, MoreThanRetention
    <3>3. QED
      BY <3>1, <3>2
  <2>4. CASE /\ Purged[Key(h)] = None
             /\ claims' = [Purged EXCEPT ![Key(h)] =
                             [created |-> now, pending |-> TRUE]]
             /\ claimed' = [claimed EXCEPT ![h] = now]
    <3>1. ASSUME NEW g \in Handlers, claimed[g] # None, Key(g) = Key(h)
          PROVE  now > claimed[g] + Retention
      BY <2>4, <3>1, PurgedIsOld
    <3>2. [created |-> now, pending |-> TRUE] # None
      BY <1>1, PendingRowType, NoneAssumption
    <3>3. DOMAIN Purged = Connections \X RequestIds
      BY <1>1 DEF Purged
    <3>4. ASSUME NEW g \in Handlers, claimed'[g] # None
          PROVE  /\ msg'[g] # None
                 /\ claimed'[g] <= now'
                 /\ \/ now' > claimed'[g] + Retention
                    \/ /\ claims'[Key(g)'] # None
                       /\ claims'[Key(g)'].created = claimed'[g]
      <4>1. CASE g = h
        BY <1>1, <2>1, <2>2, <2>4, <3>2, <3>3, <4>1
      <4>2. CASE g # h
        <5>1. /\ claimed'[g] = claimed[g] /\ claimed[g] # None
              /\ msg[g] # None /\ claimed[g] <= now
          BY <1>1, <2>4, <3>4, <4>2 DEF ClaimsRemembered
        <5>2. Key(g) \in Connections \X RequestIds
          BY <5>1, KeyType
        <5>3. CASE Key(g) = Key(h)
          BY <2>1, <3>1, <5>1, <5>3
        <5>4. CASE Key(g) # Key(h)
          <6>1. claims'[Key(g)] = Purged[Key(g)]
            BY <2>4, <3>3, <5>2, <5>4
          <6>2. QED
            BY <2>1, <5>1, <6>1, PurgedIsOld
        <5>5. QED
          BY <5>3, <5>4
      <4>3. QED
        BY <4>1, <4>2
    <3>5. ClaimsRemembered'
      BY <3>4 DEF ClaimsRemembered
    <3>6. ASSUME NEW f \in Handlers, NEW g \in Handlers, f # g,
                 claimed'[f] # None, claimed'[g] # None, Key(f) = Key(g)
          PROVE  MoreThanRetention(claimed'[f], claimed'[g])
      <4>1. CASE f = h
        BY <1>1, <2>4, <3>1, <3>6, <4>1 DEF MoreThanRetention
      <4>2. CASE g = h
        BY <1>1, <2>4, <3>1, <3>6, <4>2 DEF MoreThanRetention
      <4>3. CASE f # h /\ g # h
        BY <1>1, <2>4, <3>6, <4>3 DEF ClaimsApart
      <4>4. QED
        BY <4>1, <4>2, <4>3
    <3>7. ClaimsApart'
      BY <2>1, <3>6 DEF ClaimsApart, MoreThanRetention
    <3>8. QED
      BY <3>5, <3>7
  <2>5. QED
    BY <1>4, <2>3, <2>4 DEF ClaimCommand
<1>5. ASSUME NEW h \in Handlers, FinishCommand(h)
      PROVE  Goal'
  <2>1. /\ msg' = msg /\ claimed' = claimed /\ now' = now
        /\ \A g \in Handlers : Key(g)' = Key(g)
    BY <1>5 DEF FinishCommand, storeVars, Key
  <2>2. ASSUME NEW k \in Connections \X RequestIds, claims[k] # None
        PROVE  claims'[k] # None /\ claims'[k].created = claims[k].created
    <3> DEFINE row == [created |-> claims[k].created, pending |-> FALSE]
    <3>1. claims[k].created \in Nat
      BY <1>1, <2>2 DEF ClaimRow
    <3>2. row # None /\ row.created = claims[k].created
      BY <3>1, PendingRowType, NoneAssumption
    <3>3. claims'[k] \in {claims[k], row}
      BY <1>1, <1>5, <2>2 DEF FinishCommand
    <3>4. QED
      BY <2>2, <3>2, <3>3
  <2>3. ClaimsRemembered'
    BY <1>1, <2>1, <2>2, KeyType DEF ClaimsRemembered
  <2>4. ClaimsApart'
    BY <2>1 DEF ClaimsApart, MoreThanRetention
  <2>5. QED
    BY <2>3, <2>4
<1>6. ASSUME NEW h \in Handlers,
             \/ Authorise(h) \/ BuildRequest(h) \/ SendProofRequest(h)
             \/ SendFails(h) \/ PollDone(h) \/ PollFails(h) \/ ProofTimesOut(h)
             \/ DeleteProofRecord(h) \/ Recheck(h) \/ Dispatch(h)
             \/ CallSucceeds(h) \/ CallFails(h) \/ SendReply(h) \/ StoreBusy(h)
             \/ HomeAssistantExecutes(h)
             \/ \E vp \in Presentation : HolderPresents(h, vp)
      PROVE  UNCHANGED <<claims, claimed, msg>> /\ now' = now
  BY <1>6
     DEF Authorise, BuildRequest, SendProofRequest, SendFails, PollDone,
         PollFails, ProofTimesOut, DeleteProofRecord, Recheck, Dispatch,
         CallSucceeds, CallFails, SendReply, StoreBusy, HomeAssistantExecutes,
         HolderPresents, storeVars
<1>7. ASSUME NEW h \in Handlers, Handle(h)
      PROVE  Goal'
  BY <1>2, <1>4, <1>5, <1>6, <1>7 DEF Handle
<1>8. ASSUME NEW x \in Exchanges, NEW c \in Connections, NEW s \in Scopes,
             NEW l \in Lifetimes, OwnerIssues(x, c, s, l)
      PROVE  Goal'
  BY <1>2, <1>8 DEF OwnerIssues, gateVars
<1>9. ASSUME Crash \/ Clock \/ UNCHANGED vars
      PROVE  Goal'
  BY <1>2, <1>9 DEF Crash, Clock, Tick, vars, storeVars, gateVars
<1>10. ASSUME NEW rows, RevokeRows(rows), UNCHANGED <<now, home, gateVars>>
       PROVE  Goal'
  BY <1>2, <1>10 DEF gateVars
<1>11. ASSUME NEW h \in Handlers,
             HomeAssistantExecutes(h) \/ \E vp \in Presentation : HolderPresents(h, vp)
       PROVE  Goal'
  BY <1>2, <1>6, <1>11
<1> HIDE DEF Goal
<1>12. Goal'
  BY Steps, <1>3, <1>7, <1>8, <1>9, <1>10, <1>11, Zenon
<1>13. QED
  BY <1>12 DEF Goal

------------------------------------------------------------------------------
(* What a command on its way to Home Assistant rests on.                      *)

(* Only Recheck sends a handler towards Home Assistant, and on the way the    *)
(* handler keeps its message, its presentation and the grants it was found in. *)
LEMMA OnTheWay ==
  ASSUME TypeOK, [Next]_vars, NEW h \in Handlers, pc'[h] \in {"call", "ha"}
  PROVE  \/ Recheck(h)
         \/ /\ pc[h] \in {"call", "ha"}
            /\ msg'[h] = msg[h] /\ presented'[h] = presented[h]
            /\ basis'[h] = basis[h]
<1> DEFINE Goal == \/ Recheck(h)
                   \/ /\ pc[h] \in {"call", "ha"}
                      /\ msg'[h] = msg[h] /\ presented'[h] = presented[h]
                      /\ basis'[h] = basis[h]
<1> USE DEF Go, PCs, Before, AfterClaim, Resumes, Continues
<1>1. /\ pc \in [Handlers -> PCs]
      /\ msg \in [Handlers -> Message \cup {None}]
      /\ presented \in [Handlers -> Presentation \cup {None}]
      /\ basis \in [Handlers -> SUBSET Exchanges]
  BY DEF TypeOK
<1>2. ASSUME NEW g \in Handlers, NEW m \in Message, Receive(g, m)
      PROVE  Goal
  BY <1>1, <1>2 DEF Receive
<1>3. ASSUME NEW g \in Handlers,
             \/ Authorise(g) \/ ClaimCommand(g) \/ BuildRequest(g)
             \/ SendProofRequest(g) \/ SendFails(g)
      PROVE  Goal
  BY <1>1, <1>3
     DEF Authorise, ClaimCommand, BuildRequest, SendProofRequest, SendFails
<1>4. ASSUME NEW g \in Handlers,
             \/ PollDone(g) \/ PollFails(g) \/ ProofTimesOut(g)
             \/ DeleteProofRecord(g)
      PROVE  Goal
  BY <1>1, <1>4
     DEF PollDone, PollFails, ProofTimesOut, StopPolling, DeleteProofRecord
<1>5. ASSUME NEW g \in Handlers, Recheck(g)
      PROVE  Goal
  BY <1>1, <1>5 DEF Recheck
<1>6. ASSUME NEW g \in Handlers,
             Dispatch(g) \/ CallSucceeds(g) \/ CallFails(g) \/ SendReply(g)
      PROVE  Goal
  BY <1>1, <1>6 DEF Dispatch, CallSucceeds, CallFails, SendReply
<1>7. ASSUME NEW g \in Handlers, FinishCommand(g) \/ StoreBusy(g)
      PROVE  Goal
  BY <1>1, <1>7 DEF FinishCommand, StoreBusy, Forget
<1>8. ASSUME Crash
      PROVE  Goal
  BY <1>1, <1>8 DEF Crash
<1>9. ASSUME UNCHANGED <<pc, msg, presented, basis>>
      PROVE  Goal
  BY <1>9
<1>10. ASSUME NEW g \in Handlers, Handle(g)
       PROVE  Goal
  BY <1>3, <1>4, <1>5, <1>6, <1>7, <1>10 DEF Handle
<1>11. ASSUME \/ \E g \in Handlers : HomeAssistantExecutes(g)
              \/ \E g \in Handlers, vp \in Presentation : HolderPresents(g, vp)
       PROVE  Goal
  BY <1>9, <1>11 DEF HomeAssistantExecutes, HolderPresents
<1>12. ASSUME UNCHANGED gateVars
       PROVE  Goal
  BY <1>9, <1>12 DEF gateVars
<1>13. ASSUME \/ \E x \in Exchanges, c \in Connections, s \in Scopes, l \in Lifetimes :
                   OwnerIssues(x, c, s, l)
              \/ \E rows : RevokeRows(rows) /\ UNCHANGED <<now, home, gateVars>>
              \/ Clock \/ UNCHANGED vars
       PROVE  Goal
  BY <1>12, <1>13 DEF OwnerIssues, Clock, vars
<1> HIDE DEF Goal, Go, Resumes, Continues
<1>14. Goal
  BY Steps, <1>2, <1>8, <1>10, <1>11, <1>13, Zenon
<1>15. QED
  BY <1>14 DEF Goal

(* A presentation request_proof returned was checked, and none replaces it.   *)
LEMMA PresentedInductive ==
  ASSUME TypeOK, PresentedIsValid, [Next]_vars
  PROVE  PresentedIsValid'
<1>1. presented \in [Handlers -> Presentation \cup {None}]
  BY DEF TypeOK
<1>2. ASSUME NEW h \in Handlers, PollDone(h)
      PROVE  PresentedIsValid'
  BY <1>1, <1>2 DEF PollDone, ValidPresentedCredential, PresentedIsValid
<1>3. ASSUME NEW H, Forget(H)
      PROVE  PresentedIsValid'
  BY <1>3 DEF Forget, PresentedIsValid
<1>4. ASSUME UNCHANGED presented
      PROVE  PresentedIsValid'
  BY <1>4 DEF PresentedIsValid
<1>5. ASSUME NEW h \in Handlers, Handle(h)
      PROVE  PresentedIsValid'
  BY <1>2, <1>3, <1>4, <1>5
     DEF Handle, Authorise, ClaimCommand, BuildRequest, SendProofRequest,
         SendFails, PollFails, ProofTimesOut, DeleteProofRecord, Recheck,
         Dispatch, CallSucceeds, CallFails, SendReply, FinishCommand, StoreBusy
<1>6. ASSUME \/ \E h \in Handlers, m \in Message : Receive(h, m)
             \/ \E h \in Handlers, vp \in Presentation : HolderPresents(h, vp)
             \/ \E h \in Handlers : HomeAssistantExecutes(h)
             \/ UNCHANGED gateVars
      PROVE  PresentedIsValid'
  BY <1>4, <1>6 DEF Receive, HolderPresents, HomeAssistantExecutes, gateVars
<1>7. CASE Crash
  BY <1>3, <1>7 DEF Crash
<1>8. QED
  BY Steps, <1>5, <1>6, <1>7 DEF OwnerIssues, Clock, vars

LEMMA FreshProofInductive ==
  ASSUME TypeOK, PresentedIsValid, DispatchHadFreshProof, [Next]_vars
  PROVE  DispatchHadFreshProof'
<1>1. SUFFICES ASSUME NEW h \in Handlers, pc'[h] \in {"call", "ha"}
               PROVE  /\ presented'[h] # None
                      /\ presented'[h].verified
                      /\ presented'[h].challenge = h
                      /\ presented'[h].signer =
                           SubjectOf[presented'[h].vc.scope]
  BY DEF DispatchHadFreshProof
<1>2. CASE Recheck(h)
  <2>1. presented' = presented /\ presented[h] # None
    BY <1>1, <1>2 DEF Recheck, Go, Resumes, TypeOK
  <2>2. QED
    BY <2>1 DEF PresentedIsValid
<1>3. CASE pc[h] \in {"call", "ha"} /\ presented'[h] = presented[h]
  BY <1>3 DEF DispatchHadFreshProof
<1>4. QED
  BY <1>1, <1>2, <1>3, OnTheWay

(* No step takes a row away or changes its connection or its payload.         *)
LEMMA RowsStay ==
  ASSUME TypeOK, [Next]_vars, NEW x \in DOMAIN grants
  PROVE  /\ x \in DOMAIN grants'
         /\ grants'[x].conn = grants[x].conn
         /\ grants'[x].vc = grants[x].vc
<1>1. ASSUME NEW rows, RevokeRows(rows)
      PROVE  /\ x \in DOMAIN grants'
             /\ grants'[x].conn = grants[x].conn
             /\ grants'[x].vc = grants[x].vc
  BY <1>1 DEF RevokeRows, Revoked
<1>2. ASSUME NEW y \in Exchanges, NEW c \in Connections, NEW s \in Scopes,
             NEW l \in Lifetimes, OwnerIssues(y, c, s, l)
      PROVE  /\ x \in DOMAIN grants'
             /\ grants'[x].conn = grants[x].conn
             /\ grants'[x].vc = grants[x].vc
  BY <1>2 DEF OwnerIssues, RememberIssuedSuperseding, Revoked
<1>3. ASSUME NEW h \in Handlers, Handle(h)
      PROVE  grants' = grants
  BY <1>3
     DEF Handle, Authorise, ClaimCommand, BuildRequest, SendProofRequest,
         SendFails, PollDone, PollFails, ProofTimesOut, DeleteProofRecord,
         Recheck, Dispatch, CallSucceeds, CallFails, SendReply, FinishCommand,
         StoreBusy, storeVars
<1>4. ASSUME \/ \E h \in Handlers, m \in Message : Receive(h, m)
             \/ \E h \in Handlers, vp \in Presentation : HolderPresents(h, vp)
             \/ \E h \in Handlers : HomeAssistantExecutes(h)
             \/ Crash \/ Clock \/ UNCHANGED vars
      PROVE  grants' = grants
  BY <1>4 DEF Receive, HolderPresents, HomeAssistantExecutes, Crash, Clock,
              vars, storeVars
<1>5. QED
  BY Steps, <1>1, <1>2, <1>3, <1>4

LEMMA AuthorisedInductive ==
  ASSUME TypeOK, DispatchWasAuthorised, [Next]_vars
  PROVE  DispatchWasAuthorised'
<1> DEFINE Backed(h, x) ==
      /\ x \in DOMAIN grants
      /\ grants[x].conn = msg[h].conn
      /\ grants[x].vc = presented[h].vc
      /\ msg[h].entity \in Permits[grants[x].vc.scope]
<1>1. SUFFICES ASSUME NEW h \in Handlers, pc'[h] \in {"call", "ha"}
               PROVE  basis'[h] # {} /\ \A x \in basis'[h] : Backed(h, x)'
  BY DEF DispatchWasAuthorised
<1>2. CASE Recheck(h)
  <2>1. /\ presented[h] # None
        /\ IsPresentedAuthorised(msg[h].conn, msg[h].entity, presented[h].vc)
        /\ basis'[h] = {x \in DOMAIN grants :
                          /\ Live(x) /\ grants[x].conn = msg[h].conn
                          /\ grants[x].vc = presented[h].vc}
        /\ UNCHANGED <<grants, msg, presented>>
    BY <1>1, <1>2 DEF Recheck, Go, Resumes, TypeOK, storeVars
  <2>2. basis'[h] # {}
    BY <2>1 DEF IsPresentedAuthorised, IssuedForConnection, Live
  <2>3. ASSUME NEW x \in basis'[h] PROVE Backed(h, x)'
    BY <2>1 DEF IsPresentedAuthorised
  <2>4. QED
    BY <2>2, <2>3
<1>3. CASE /\ pc[h] \in {"call", "ha"}
           /\ msg'[h] = msg[h] /\ presented'[h] = presented[h]
           /\ basis'[h] = basis[h]
  <2>1. basis[h] # {} /\ \A x \in basis[h] : Backed(h, x)
    BY <1>3 DEF DispatchWasAuthorised
  <2>2. ASSUME NEW x \in basis[h] PROVE Backed(h, x)'
    BY <1>3, <2>1, RowsStay
  <2>3. QED
    BY <1>3, <2>1, <2>2
<1>4. QED
  BY <1>1, <1>2, <1>3, OnTheWay

------------------------------------------------------------------------------
(* The inductive invariant and what follows from it.                          *)

IInv ==
  /\ TypeOK
  /\ PhaseOK
  /\ ClaimsRemembered
  /\ ClaimsApart
  /\ PresentedIsValid
  /\ DispatchHadFreshProof
  /\ DispatchWasAuthorised

LEMMA InitInv == Init => IInv
<1> SUFFICES ASSUME Init PROVE IInv
  OBVIOUS
<1>1. StoreTypeOK
  BY DEF Init, StoreInit, StoreTypeOK
<1>2. TypeOK
  BY <1>1, EmptyExchanges DEF Init, TypeOK, PCs, AfterClaim, Outcomes
<1>3. PhaseOK /\ ClaimsRemembered /\ ClaimsApart /\ PresentedIsValid
  BY DEF Init, PhaseOK, ClaimsRemembered, ClaimsApart, PresentedIsValid
<1>4. DispatchHadFreshProof /\ DispatchWasAuthorised
  BY DEF Init, DispatchHadFreshProof, DispatchWasAuthorised
<1>5. QED
  BY <1>2, <1>3, <1>4 DEF IInv

LEMMA NextInv == IInv /\ [Next]_vars => IInv'
BY TypeInductive, PhaseInductive, ClaimsInductive, PresentedInductive,
   FreshProofInductive, AuthorisedInductive
   DEF IInv

LEMMA Invariance == Spec => []IInv
BY InitInv, NextInv, PTL DEF Spec

(* In every state each handler is where its message, its claim and its        *)
(* exchange allow it to be, and the command table is well formed.             *)
THEOREM GateTypeCorrect == Spec => []TypeOK
<1>1. IInv => TypeOK
  BY DEF IInv
<1>2. QED
  BY <1>1, Invariance, PTL

(* However often a command is delivered, and whatever crashes, fails or is    *)
(* revoked in between, two calls under one connection and request id were     *)
(* claimed more than the retention apart.                                     *)
THEOREM AtMostOnceCorrect == Spec => []AtMostOnce
<1>1. IInv => AtMostOnce
  BY DEF IInv, PhaseOK, ClaimsApart, AtMostOnce
<1>2. QED
  BY <1>1, Invariance, PTL

(* "ok" is the truth, and a command refused for want of a proof stays refused *)
(* for the retention.                                                         *)
THEOREM AnswerIsTruthfulCorrect == Spec => []AnswerIsTruthful
<1>1. ASSUME IInv, NEW h \in Handlers, outcome[h] = "unproven",
             NEW g \in Handlers, call[g] # "none", Key(g) = Key(h)
      PROVE  MoreThanRetention(claimed[h], claimed[g])
  BY <1>1 DEF IInv, PhaseOK, ClaimsApart
<1>2. IInv => AnswerIsTruthful
  BY <1>1 DEF IInv, PhaseOK, AnswerIsTruthful
<1>3. QED
  BY <1>2, Invariance, PTL

(* A command goes to Home Assistant on a verified presentation made for it    *)
(* with the key of the credential's subject, and on no other.                 *)
THEOREM DispatchHadFreshProofCorrect == Spec => []DispatchHadFreshProof
<1>1. IInv => DispatchHadFreshProof
  BY DEF IInv
<1>2. QED
  BY <1>1, Invariance, PTL

(* A command goes to Home Assistant only if the presented payload was, when   *)
(* the store was last read for it, that of a live grant of its own connection *)
(* that covers the entity.                                                    *)
THEOREM DispatchWasAuthorisedCorrect == Spec => []DispatchWasAuthorised
<1>1. IInv => DispatchWasAuthorised
  BY DEF IInv
<1>2. QED
  BY <1>1, Invariance, PTL

(* Of two deliveries of a command one comes to a verdict, the retention       *)
(* through: what was answered "unproven", "failed" or "ok" had been claimed.  *)
THEOREM OneVerdictCorrect == Spec => []OneVerdict
<1>1. ASSUME IInv, NEW h \in Handlers, outcome[h] \in Verdicts
      PROVE  claimed[h] # None
  BY <1>1 DEF IInv, PhaseOK, Verdicts
<1>2. IInv => OneVerdict
  BY <1>1 DEF IInv, ClaimsApart, OneVerdict
<1>3. QED
  BY <1>2, Invariance, PTL

------------------------------------------------------------------------------
(* What the owner and the clock do between two steps of the handlers keeps    *)
(* the store a ledger of grants, and the handlers only read it.               *)

LEMMA ActsOnTheStore ==
  ASSUME TypeOK, [Next]_vars
  PROVE  StoreActs
<1>1. ASSUME NEW x \in Exchanges, NEW c \in Connections, NEW s \in Scopes,
             NEW l \in Lifetimes, OwnerIssues(x, c, s, l)
      PROVE  StoreActs
  <2>1. BuildCredential(s, l) \in Credential
    BY BuildCredentialType DEF TypeOK
  <2>2. QED
    BY <1>1, <2>1 DEF OwnerIssues, StoreActs
<1>2. ASSUME NEW x \in Exchanges, OwnerRevokes(x)
      PROVE  StoreActs
  BY <1>2 DEF OwnerRevokes, StoreActs
<1>3. ASSUME NEW c \in Connections, OwnerRevokesAll(c)
      PROVE  StoreActs
  BY <1>3 DEF OwnerRevokesAll, StoreActs
<1>4. CASE Clock
  BY <1>4 DEF Clock, StoreActs
<1>5. ASSUME UNCHANGED storeVars
      PROVE  StoreActs
  BY <1>5 DEF storeVars, StoreActs
<1>6. ASSUME NEW h \in Handlers, Handle(h)
      PROVE  UNCHANGED storeVars
  BY <1>6
     DEF Handle, Authorise, ClaimCommand, BuildRequest, SendProofRequest,
         SendFails, PollDone, PollFails, ProofTimesOut, DeleteProofRecord,
         Recheck, Dispatch, CallSucceeds, CallFails, SendReply, FinishCommand,
         StoreBusy
<1>7. ASSUME NEW h \in Handlers, NEW m \in Message, Receive(h, m)
      PROVE  UNCHANGED storeVars
  BY <1>7 DEF Receive
<1>8. ASSUME NEW h \in Handlers, NEW vp, HolderPresents(h, vp)
      PROVE  UNCHANGED storeVars
  BY <1>8 DEF HolderPresents
<1>9. ASSUME NEW h \in Handlers, HomeAssistantExecutes(h)
      PROVE  UNCHANGED storeVars
  BY <1>9 DEF HomeAssistantExecutes
<1>10. CASE Crash \/ UNCHANGED vars
  BY <1>5, <1>10 DEF Crash, vars
<1>11. QED
  BY <1>1, <1>2, <1>3, <1>4, <1>5, <1>6, <1>7, <1>8, <1>9, <1>10, Zenon DEF Next

(* Commands, proofs, timeouts and crashes touch no grant: with the gate at    *)
(* work the store keeps the promises of GrantLedger.                          *)
THEOREM GateKeepsGrants == Spec => KeepsGrants
<1>1. Init => Grants!GrantInit
  BY InitInLedger DEF Init
<1>2. TypeOK /\ [Next]_vars => [Grants!GrantNext]_(Grants!grantVars)
  BY ActsOnTheStore, ActsInLedger DEF TypeOK
<1>3. QED
  BY <1>1, <1>2, GateTypeCorrect, PTL DEF Spec, KeepsGrants, Grants!GrantSpec

------------------------------------------------------------------------------
(* The queue.  A handler's own timeouts end it long before the retention does *)
(* (30 s for the proof, a few more for each call, against 24 h); without that *)
(* one that is late could finish a younger command under its id.              *)

(* A handler before its claim has claimed nothing and was sent a command that *)
(* parse_request accepts.                                                     *)
BeforeClaim ==
  \A h \in Handlers : pc[h] \in Before =>
    claimed[h] = None /\ msg[h].entity # BadRequest

LEMMA BeforeClaimInductive ==
  ASSUME TypeOK, PhaseOK, BeforeClaim, [Next]_vars
  PROVE  BeforeClaim'
<1> USE DEF Go, Before, AfterClaim, Resumes, Continues, BeforeClaim
<1>1. /\ pc \in [Handlers -> PCs]
      /\ msg \in [Handlers -> Message \cup {None}]
      /\ claimed \in [Handlers -> Nat \cup {None}]
  BY DEF TypeOK
<1>2. ASSUME NEW h \in Handlers, NEW m \in Message, Receive(h, m)
      PROVE  BeforeClaim'
  BY <1>1, <1>2 DEF Receive, PhaseOK
<1>3. ASSUME NEW h \in Handlers,
             \/ Authorise(h) \/ ClaimCommand(h) \/ BuildRequest(h)
             \/ SendProofRequest(h) \/ SendFails(h)
      PROVE  BeforeClaim'
  BY <1>1, <1>3
     DEF Authorise, ClaimCommand, BuildRequest, SendProofRequest, SendFails
<1>4. ASSUME NEW h \in Handlers,
             \/ PollDone(h) \/ PollFails(h) \/ ProofTimesOut(h)
             \/ DeleteProofRecord(h) \/ Recheck(h) \/ Dispatch(h)
      PROVE  BeforeClaim'
  BY <1>1, <1>4
     DEF PollDone, PollFails, ProofTimesOut, StopPolling, DeleteProofRecord,
         Recheck, Dispatch
<1>5. ASSUME NEW h \in Handlers,
             \/ CallSucceeds(h) \/ CallFails(h) \/ SendReply(h)
             \/ FinishCommand(h) \/ StoreBusy(h)
      PROVE  BeforeClaim'
  BY <1>1, <1>5 DEF CallSucceeds, CallFails, SendReply, FinishCommand, StoreBusy
<1>6. ASSUME Crash
      PROVE  BeforeClaim'
  BY <1>1, <1>6 DEF Crash
<1>7. ASSUME UNCHANGED <<pc, msg, claimed>>
      PROVE  BeforeClaim'
  BY <1>7
<1>8. ASSUME NEW h \in Handlers, Handle(h)
      PROVE  BeforeClaim'
  BY <1>3, <1>4, <1>5, <1>8 DEF Handle
<1>9. ASSUME \/ \E h \in Handlers : HomeAssistantExecutes(h)
             \/ \E h \in Handlers, vp \in Presentation : HolderPresents(h, vp)
             \/ UNCHANGED gateVars
      PROVE  BeforeClaim'
  BY <1>7, <1>9 DEF HomeAssistantExecutes, HolderPresents, gateVars
<1>10. ASSUME \/ \E x \in Exchanges, c \in Connections, s \in Scopes, l \in Lifetimes :
                   OwnerIssues(x, c, s, l)
              \/ \E rows : RevokeRows(rows) /\ UNCHANGED <<now, home, gateVars>>
              \/ Clock \/ UNCHANGED vars
       PROVE  BeforeClaim'
  BY <1>9, <1>10 DEF OwnerIssues, Clock, vars
<1> HIDE DEF Go, Before, AfterClaim, Resumes, Continues, BeforeClaim
<1>11. QED
  BY Steps, <1>2, <1>6, <1>8, <1>9, <1>10, Zenon

Working(h) == pc[h] \in AfterClaim \cup {"reply"} /\ claimed[h] # None

NobodyOutlivesRetention ==
  \A h \in Handlers : Working(h) => now <= claimed[h] + Retention

(* A command at work within the proof timeout has its slot.                   *)
SlotsHeld == \A h \in OpenProofs : Key(h) \in FreshPending(claims)

QueueBounded ==
  /\ IsFiniteSet(FreshPending(claims))
  /\ Cardinality(FreshPending(claims)) <= MaxPending

(* A step that claims and finishes nothing puts nobody to work.               *)
Idles ==
  /\ claims' = claims /\ now' \in {now, now + 1}
  /\ \A h \in Handlers : Working(h)' =>
       Working(h) /\ claimed'[h] = claimed[h] /\ Key(h)' = Key(h)

LEMMA ClaimsWritten ==
  ASSUME TypeOK, PhaseOK, BeforeClaim, [Next]_vars
  PROVE  (\E h \in Handlers : ClaimCommand(h) \/ FinishCommand(h)) \/ Idles
<1>1. /\ pc \in [Handlers -> PCs] /\ msg \in [Handlers -> Message \cup {None}]
      /\ \A h \in Handlers : claimed[h] # None => pc[h] \notin Before \cup {"idle"}
  BY DEF TypeOK, PhaseOK, BeforeClaim
<1>2. ASSUME NEW h \in Handlers, UNCHANGED <<claims, now, claimed, msg>>,
             \A g \in Handlers : g # h => pc'[g] = pc[g],
             \/ claimed[h] = None
             \/ pc[h] \in AfterClaim \cup {"reply"}
             \/ pc'[h] \notin AfterClaim \cup {"reply"}
      PROVE  Idles
  <2>1. ASSUME NEW g \in Handlers, Working(g)'
        PROVE  Working(g) /\ claimed'[g] = claimed[g] /\ Key(g)' = Key(g)
    BY <1>2, <2>1 DEF Working, Key
  <2>2. QED
    BY <1>2, <2>1 DEF Idles
<1>3. ASSUME NEW h \in Handlers, NEW m \in Message, Receive(h, m)
      PROVE  Idles
  <2>1. /\ UNCHANGED <<claims, now, claimed>> /\ claimed[h] = None
        /\ \A g \in Handlers : g # h => msg'[g] = msg[g] /\ pc'[g] = pc[g]
    BY <1>1, <1>3 DEF Receive, Resumes, Go, storeVars
  <2>2. QED
    BY <2>1 DEF Idles, Working, Key
<1>4. ASSUME NEW h \in Handlers, Authorise(h)
      PROVE  Idles
  BY <1>1, <1>2, <1>4 DEF Authorise, Continues, Before, Go, storeVars
<1>5. ASSUME NEW h \in Handlers,
             \/ BuildRequest(h) \/ SendProofRequest(h) \/ SendFails(h)
             \/ PollDone(h) \/ PollFails(h) \/ ProofTimesOut(h)
             \/ DeleteProofRecord(h)
      PROVE  Idles
  <2>1. /\ UNCHANGED <<claims, now, claimed, msg>> /\ pc[h] \in AfterClaim
        /\ \A g \in Handlers : g # h => pc'[g] = pc[g]
    BY <1>1, <1>5
       DEF BuildRequest, SendProofRequest, SendFails, PollDone, PollFails,
           ProofTimesOut, StopPolling, DeleteProofRecord, Go, Resumes, Continues,
           AfterClaim, storeVars
  <2>2. QED
    BY <1>2, <2>1
<1>6. ASSUME NEW h \in Handlers,
             \/ Recheck(h) \/ Dispatch(h) \/ CallSucceeds(h) \/ CallFails(h)
             \/ SendReply(h)
      PROVE  Idles
  <2>1. /\ UNCHANGED <<claims, now, claimed, msg>>
        /\ pc[h] \in AfterClaim \cup {"reply"}
        /\ \A g \in Handlers : g # h => pc'[g] = pc[g]
    BY <1>1, <1>6
       DEF Recheck, Dispatch, CallSucceeds, CallFails, SendReply, Go, Resumes,
           AfterClaim, storeVars
  <2>2. QED
    BY <1>2, <2>1
<1>7. ASSUME NEW h \in Handlers, StoreBusy(h)
      PROVE  Idles
  <2>1. /\ UNCHANGED <<claims, now, claimed, msg>>
        /\ \/ pc[h] \in AfterClaim
           \/ pc'[h] \notin AfterClaim \cup {"reply"}
        /\ \A g \in Handlers : g # h => pc'[g] = pc[g]
    BY <1>1, <1>7 DEF StoreBusy, Go, AfterClaim, storeVars
  <2>2. QED
    BY <1>2, <2>1
<1>8. ASSUME Crash
      PROVE  Idles
  <2>1. /\ UNCHANGED <<claims, now, claimed, msg>>
        /\ \A g \in Handlers : pc'[g] \notin AfterClaim \cup {"reply"}
    BY <1>1, <1>8 DEF Crash, AfterClaim, storeVars
  <2>2. QED
    BY <2>1 DEF Idles, Working
<1>9. ASSUME UNCHANGED <<claims, pc, msg, claimed>>, now' \in {now, now + 1}
      PROVE  Idles
  BY <1>9 DEF Idles, Working, Key
<1>10. ASSUME \/ \E h \in Handlers : HomeAssistantExecutes(h)
              \/ \E h \in Handlers, vp \in Presentation : HolderPresents(h, vp)
              \/ \E x \in Exchanges, c \in Connections, s \in Scopes, l \in Lifetimes :
                   OwnerIssues(x, c, s, l)
              \/ \E rows : RevokeRows(rows) /\ UNCHANGED <<now, home, gateVars>>
              \/ Clock \/ UNCHANGED vars
       PROVE  Idles
  BY <1>9, <1>10
     DEF HomeAssistantExecutes, HolderPresents, OwnerIssues, Clock, Tick, vars,
         gateVars, storeVars
<1>11. ASSUME NEW h \in Handlers, Handle(h)
       PROVE  ClaimCommand(h) \/ FinishCommand(h) \/ Idles
  BY <1>4, <1>5, <1>6, <1>7, <1>11, Zenon DEF Handle
<1>12. QED
  BY Steps, <1>3, <1>8, <1>10, <1>11, Zenon

(* A handler at work has, in the table, the row of its own claim: nobody      *)
(* outlives the retention.  Two of them never share a key.                    *)
LEMMA OwnRow ==
  ASSUME IInv, NobodyOutlivesRetention, NEW h \in Handlers, Working(h)
  PROVE  /\ claimed[h] \in Nat /\ now \in Nat /\ Key(h) \in Connections \X RequestIds
         /\ claims[Key(h)] # None /\ claims[Key(h)].created = claimed[h]
         /\ Purged[Key(h)] = claims[Key(h)]
         /\ \A g \in Handlers : Working(g) /\ Key(g) = Key(h) => g = h
<1> USE DEF IInv
<1>1. /\ claimed \in [Handlers -> Nat \cup {None}] /\ now \in Nat /\ Retention \in Nat
      /\ claims \in [Connections \X RequestIds -> ClaimRow \cup {None}]
  BY GateAssumption DEF TypeOK, StoreTypeOK
<1>2. claimed[h] # None /\ claimed[h] \in Nat /\ now <= claimed[h] + Retention
  BY <1>1 DEF Working, NobodyOutlivesRetention
<1>3. /\ msg[h] # None
      /\ claims[Key(h)] # None /\ claims[Key(h)].created = claimed[h]
  BY <1>1, <1>2 DEF ClaimsRemembered
<1>4. Key(h) \in Connections \X RequestIds
  BY <1>3, KeyType
<1>5. Purged[Key(h)] = claims[Key(h)]
  BY <1>1, <1>2, <1>3, <1>4 DEF Purged
<1>6. ASSUME NEW g \in Handlers, Working(g), Key(g) = Key(h), g # h
      PROVE  FALSE
  <2>1. /\ claimed[g] \in Nat /\ claimed[g] # None /\ now <= claimed[g] + Retention
        /\ claimed[g] <= now /\ claimed[h] <= now
    BY <1>1, <1>2, <1>6 DEF Working, NobodyOutlivesRetention, ClaimsRemembered
  <2>2. MoreThanRetention(claimed[h], claimed[g])
    BY <1>2, <1>6, <2>1 DEF ClaimsApart
  <2>3. QED
    BY <1>1, <1>2, <2>1, <2>2 DEF MoreThanRetention
<1>7. QED
  BY <1>1, <1>2, <1>3, <1>4, <1>5, <1>6

(* The purge and time give no slot to anybody.                                *)
LEMMA FreshShrinks ==
  ASSUME TypeOK, NEW table, NEW t \in Nat, t >= now, DOMAIN table = DOMAIN claims,
         \A k \in DOMAIN claims : table[k] = claims[k] \/ table[k] = None
                                   \/ ~table[k].pending
  PROVE  {k \in DOMAIN table :
            table[k] # None /\ table[k].pending /\ table[k].created > t - ProofTimeout}
           \subseteq FreshPending(claims)
<1>1. /\ claims \in [Connections \X RequestIds -> ClaimRow \cup {None}]
      /\ now \in Nat /\ ProofTimeout \in Nat
  BY GateAssumption DEF TypeOK, StoreTypeOK
<1>2. ASSUME NEW k \in DOMAIN claims, claims[k] # None
      PROVE  claims[k].created \in Nat
  BY <1>1, <1>2 DEF ClaimRow
<1>3. QED
  BY <1>1, <1>2 DEF FreshPending

LEMMA SmallerQueue ==
  ASSUME QueueBounded, NEW S, S \subseteq FreshPending(claims)
  PROVE  IsFiniteSet(S) /\ Cardinality(S) <= MaxPending /\ Cardinality(S) \in Nat
<1>1. /\ IsFiniteSet(S) /\ Cardinality(S) <= Cardinality(FreshPending(claims))
  BY FS_Subset DEF QueueBounded
<1>2. Cardinality(S) \in Nat /\ Cardinality(FreshPending(claims)) \in Nat
  BY <1>1, FS_CardinalityType DEF QueueBounded
<1>3. QED
  BY <1>1, <1>2, GateAssumption DEF QueueBounded

(* The table alone, however late a handler is: a claim is the only step that  *)
(* takes a slot, and takes one of those that are free after the purge.        *)
LEMMA TableInductive ==
  ASSUME TypeOK, PhaseOK, BeforeClaim, QueueBounded, [Next]_vars
  PROVE  QueueBounded'
<1>1. /\ now \in Nat /\ ProofTimeout \in Nat /\ MaxPending \in Nat
      /\ claims \in [Connections \X RequestIds -> ClaimRow \cup {None}]
      /\ pc \in [Handlers -> PCs]
  BY GateAssumption DEF TypeOK, StoreTypeOK
<1>2. ASSUME FreshPending(claims)' \subseteq FreshPending(claims)
      PROVE  QueueBounded'
  BY <1>2, SmallerQueue DEF QueueBounded
<1>3. CASE Idles
  <2>1. claims' = claims /\ now' \in Nat /\ now' >= now
    BY <1>1, <1>3 DEF Idles
  <2>2. QED
    BY <1>1, <1>2, <2>1, FreshShrinks DEF FreshPending
<1>4. ASSUME NEW h \in Handlers, FinishCommand(h)
      PROVE  QueueBounded'
  <2>1. /\ now' = now /\ DOMAIN claims' = DOMAIN claims
        /\ \A k \in DOMAIN claims :
             claims'[k] = claims[k] \/ claims'[k] = None \/ ~claims'[k].pending
    BY <1>4 DEF FinishCommand, storeVars
  <2>2. QED
    BY <1>1, <1>2, <2>1, FreshShrinks DEF FreshPending
<1>5. ASSUME NEW h \in Handlers, ClaimCommand(h)
      PROVE  QueueBounded'
  <2>1. /\ now' = now /\ msg[h] # None /\ Key(h) \in Connections \X RequestIds
    BY <1>1, <1>5, KeyType DEF ClaimCommand, Continues, TypeOK, storeVars
  <2>2. DOMAIN Purged = DOMAIN claims
        /\ \A k \in DOMAIN claims : Purged[k] = claims[k] \/ Purged[k] = None
    BY DEF Purged
  <2>3. FreshPending(Purged) \subseteq FreshPending(claims)
    BY <1>1, <2>2, FreshShrinks DEF FreshPending
  <2>4. CASE claims' = Purged
    <3>1. FreshPending(claims)' = FreshPending(Purged)
      BY <2>1, <2>4 DEF FreshPending
    <3>2. QED
      BY <1>2, <2>3, <3>1
  <2>5. CASE /\ Cardinality(FreshPending(Purged)) < MaxPending
             /\ claims' = [Purged EXCEPT ![Key(h)] = [created |-> now, pending |-> TRUE]]
    <3>1. FreshPending(claims)' \subseteq FreshPending(Purged) \cup {Key(h)}
      BY <2>1, <2>2, <2>5 DEF FreshPending
    <3>2. IsFiniteSet(FreshPending(Purged)) /\ Cardinality(FreshPending(Purged)) \in Nat
      BY <2>3, SmallerQueue
    <3>3. /\ IsFiniteSet(FreshPending(Purged) \cup {Key(h)})
          /\ Cardinality(FreshPending(Purged) \cup {Key(h)})
               \in {Cardinality(FreshPending(Purged)),
                    Cardinality(FreshPending(Purged)) + 1}
      BY <3>2, FS_AddElement
    <3>4. /\ IsFiniteSet(FreshPending(claims)')
          /\ Cardinality(FreshPending(claims)')
               <= Cardinality(FreshPending(Purged) \cup {Key(h)})
      BY <3>1, <3>3, FS_Subset
    <3>5. Cardinality(FreshPending(claims)') \in Nat
      BY <3>4, FS_CardinalityType
    <3>6. QED
      BY <1>1, <2>5, <3>2, <3>3, <3>4, <3>5 DEF QueueBounded
  <2>6. QED
    BY <1>5, <2>4, <2>5 DEF ClaimCommand
<1>6. QED
  BY <1>3, <1>4, <1>5, ClaimsWritten

(* While nobody outlives the retention, a finish takes no slot but its own.   *)
LEMMA SlotsInductive ==
  ASSUME IInv, BeforeClaim, SlotsHeld, NobodyOutlivesRetention, [Next]_vars
  PROVE  SlotsHeld'
<1>1. /\ TypeOK /\ PhaseOK /\ now \in Nat
      /\ ProofTimeout \in Nat /\ MaxPending \in Nat
      /\ claims \in [Connections \X RequestIds -> ClaimRow \cup {None}]
      /\ claimed \in [Handlers -> Nat \cup {None}] /\ pc \in [Handlers -> PCs]
  BY GateAssumption DEF IInv, TypeOK, StoreTypeOK
<1>2. \A h \in Handlers : h \in OpenProofs <=> Working(h) /\ claimed[h] > now - ProofTimeout
  BY DEF OpenProofs, Working
<1>3. \A h \in Handlers :
        (h \in OpenProofs)' <=> Working(h)' /\ claimed'[h] > now' - ProofTimeout
  BY DEF OpenProofs, Working
<1>4. \A k : k \in FreshPending(claims) <=>
               /\ k \in DOMAIN claims /\ claims[k] # None /\ claims[k].pending
               /\ claims[k].created > now - ProofTimeout
  BY DEF FreshPending
<1>5. \A k : k \in FreshPending(claims)' <=>
               /\ k \in DOMAIN claims' /\ claims'[k] # None /\ claims'[k].pending
               /\ claims'[k].created > now' - ProofTimeout
  BY DEF FreshPending
<1>7. CASE Idles
  <2>1. claims' = claims /\ now' \in Nat /\ now' >= now
    BY <1>1, <1>7 DEF Idles
  <2>3. ASSUME NEW h \in Handlers, (h \in OpenProofs)'
        PROVE  (Key(h) \in FreshPending(claims))'
    <3>1. /\ Working(h) /\ claimed'[h] = claimed[h] /\ Key(h)' = Key(h)
          /\ claimed[h] > now' - ProofTimeout
      BY <1>3, <1>7, <2>3 DEF Idles
    <3>2. h \in OpenProofs
      BY <1>1, <1>2, <2>1, <3>1 DEF Working
    <3>3. Key(h) \in FreshPending(claims) /\ claims[Key(h)].created = claimed[h]
      BY <3>1, <3>2, OwnRow DEF SlotsHeld
    <3>4. QED
      BY <1>4, <1>5, <2>1, <3>1, <3>3
  <2>4. QED
    BY <2>3 DEF SlotsHeld, OpenProofs
<1>8. ASSUME NEW h \in Handlers, ClaimCommand(h)
      PROVE  SlotsHeld'
  <2>1. /\ pc[h] = "claim" /\ now' = now /\ msg' = msg /\ claimed[h] = None
        /\ msg[h] # None /\ Key(h) \in Connections \X RequestIds
        /\ \A g \in Handlers : Key(g)' = Key(g) /\ (g # h => pc'[g] = pc[g])
    BY <1>1, <1>8, KeyType
       DEF ClaimCommand, Continues, Go, BeforeClaim, Before, TypeOK, Key, storeVars
  <2>2. DOMAIN Purged = DOMAIN claims
        /\ \A k \in DOMAIN claims : Purged[k] = claims[k] \/ Purged[k] = None
    BY DEF Purged
  <2>4. CASE claims' = Purged /\ claimed' = claimed /\ pc'[h] = "done"
    <3>2. ASSUME NEW g \in Handlers, (g \in OpenProofs)'
          PROVE  (Key(g) \in FreshPending(claims))'
      <4>1. g # h /\ Working(g) /\ g \in OpenProofs
        BY <1>2, <1>3, <2>1, <2>4, <3>2 DEF Working, AfterClaim
      <4>2. Key(g) \in FreshPending(claims) /\ Purged[Key(g)] = claims[Key(g)]
        BY <4>1, OwnRow DEF SlotsHeld
      <4>3. QED
        BY <1>4, <1>5, <2>1, <2>2, <2>4, <4>2
    <3>3. QED
      BY <3>2 DEF SlotsHeld, OpenProofs
  <2>5. CASE /\ Purged[Key(h)] = None
             /\ claims' = [Purged EXCEPT ![Key(h)] = [created |-> now, pending |-> TRUE]]
             /\ claimed' = [claimed EXCEPT ![h] = now]
    <3> DEFINE row == [created |-> now, pending |-> TRUE]
    <3>1. /\ row # None /\ row.created = now /\ row.pending = TRUE
          /\ DOMAIN claims' = DOMAIN claims /\ claims'[Key(h)] = row
          /\ \A k \in DOMAIN claims : k # Key(h) => claims'[k] = Purged[k]
      BY <1>1, <2>1, <2>2, <2>5, PendingRowType, NoneAssumption
    <3> HIDE DEF row
    <3>6. ASSUME NEW g \in Handlers, (g \in OpenProofs)'
          PROVE  (Key(g) \in FreshPending(claims))'
      <4>1. CASE g = h
        <5>1. claimed'[h] = now /\ now > now - ProofTimeout
          BY <1>1, <1>3, <2>1, <2>5, <3>6, <4>1
        <5>2. Key(h) \in DOMAIN claims' /\ Key(h)' = Key(h)
          BY <1>1, <2>1, <3>1
        <5>3. QED
          BY <1>5, <2>1, <3>1, <4>1, <5>1, <5>2
      <4>2. CASE g # h
        <5>1. Working(g) /\ g \in OpenProofs /\ claimed'[g] = claimed[g]
          BY <1>1, <1>2, <1>3, <2>1, <2>5, <3>6, <4>2 DEF Working
        <5>2. Key(g) \in FreshPending(claims) /\ Purged[Key(g)] = claims[Key(g)]
              /\ Key(g) # Key(h)
          BY <2>5, <5>1, OwnRow DEF SlotsHeld
        <5>3. QED
          BY <1>4, <1>5, <2>1, <3>1, <5>2
      <4>3. QED
        BY <4>1, <4>2
    <3>7. QED
      BY <3>6 DEF SlotsHeld, OpenProofs
  <2>6. QED
    BY <1>1, <1>8, <2>4, <2>5 DEF ClaimCommand, Go
<1>9. ASSUME NEW h \in Handlers, FinishCommand(h)
      PROVE  SlotsHeld'
  <2>1. /\ now' = now /\ UNCHANGED <<msg, claimed>> /\ pc'[h] = "done" /\ Working(h)
        /\ DOMAIN claims' = DOMAIN claims
        /\ \A g \in Handlers : Key(g)' = Key(g) /\ (g # h => pc'[g] = pc[g])
        /\ \A k \in DOMAIN claims : k # Key(h) => claims'[k] = claims[k]
    BY <1>1, <1>9
       DEF FinishCommand, Resumes, Go, TypeOK, Working, AfterClaim, Key, storeVars
  <2>4. ASSUME NEW g \in Handlers, (g \in OpenProofs)'
        PROVE  (Key(g) \in FreshPending(claims))'
    <3>1. g # h /\ Working(g) /\ g \in OpenProofs
      BY <1>2, <1>3, <2>1, <2>4 DEF Working, AfterClaim
    <3>2. Key(g) \in FreshPending(claims) /\ Key(g) # Key(h)
      BY <2>1, <3>1, OwnRow DEF SlotsHeld
    <3>3. QED
      BY <1>4, <1>5, <2>1, <3>2
  <2>5. QED
    BY <2>4 DEF SlotsHeld, OpenProofs
<1>10. QED
  BY <1>1, <1>7, <1>8, <1>9, ClaimsWritten

(* Handlers at work have slots, each its own.                                 *)
LEMMA QueueSuffices ==
  ASSUME IInv, SlotsHeld, QueueBounded, NobodyOutlivesRetention
  PROVE  OpenProofsBounded
<1> DEFINE slot == [h \in OpenProofs |-> Key(h)]
<1>1. \A h \in OpenProofs : h \in Handlers /\ Working(h)
  BY DEF OpenProofs, Working
<1>2. slot \in [OpenProofs -> FreshPending(claims)]
  BY DEF SlotsHeld
<1>3. \A h, g \in OpenProofs : slot[h] = slot[g] => h = g
  BY <1>1, OwnRow
<1> HIDE DEF slot
<1>4. slot \in Injection(OpenProofs, FreshPending(claims))
  BY <1>2, <1>3 DEF Injection, IsInjective
<1>5. /\ IsFiniteSet(OpenProofs)
      /\ Cardinality(OpenProofs) <= Cardinality(FreshPending(claims))
  BY <1>4, FS_Injection DEF QueueBounded
<1>6. /\ Cardinality(OpenProofs) \in Nat /\ Cardinality(FreshPending(claims)) \in Nat
      /\ MaxPending \in Nat
  BY <1>5, FS_CardinalityType, GateAssumption DEF QueueBounded
<1>7. QED
  BY <1>5, <1>6 DEF QueueBounded, OpenProofsBounded

(* Whatever is finished, purged, redelivered or late, claim_command never     *)
(* leaves more than MaxPending rows that count as open proofs.                *)
THEOREM TableBounded == Spec => []QueueBounded
<1> DEFINE TInv == IInv /\ BeforeClaim /\ QueueBounded
<1>1. Init => TInv
  <2> SUFFICES ASSUME Init PROVE TInv
    OBVIOUS
  <2>1. FreshPending(claims) = {}
    BY DEF Init, FreshPending
  <2>2. BeforeClaim
    BY DEF Init, BeforeClaim, Before
  <2>3. QED
    BY <2>1, <2>2, InitInv, FS_EmptySet, GateAssumption DEF QueueBounded
<1>2. TInv /\ [Next]_vars => TInv'
  BY NextInv, BeforeClaimInductive, TableInductive DEF IInv
<1>3. QED
  BY <1>1, <1>2, PTL DEF Spec

(* While no handler outlives the retention, no more than MaxPending commands  *)
(* are at work within the proof timeout, whatever finishes, fails, is         *)
(* refused, redelivered or crashes (claim_command, finish_command).           *)
THEOREM OpenProofsBoundedCorrect ==
  Spec /\ []NobodyOutlivesRetention => []OpenProofsBounded
<1> DEFINE QInv == IInv /\ BeforeClaim /\ SlotsHeld /\ QueueBounded
<1>1. Init => QInv
  <2> SUFFICES ASSUME Init PROVE QInv
    OBVIOUS
  <2>1. OpenProofs = {} /\ FreshPending(claims) = {}
    BY DEF Init, OpenProofs, FreshPending
  <2>2. BeforeClaim
    BY DEF Init, BeforeClaim, Before
  <2>3. QED
    BY <2>1, <2>2, InitInv, FS_EmptySet, GateAssumption DEF SlotsHeld, QueueBounded
<1>2. QInv /\ NobodyOutlivesRetention /\ [Next]_vars => QInv'
  BY NextInv, BeforeClaimInductive, TableInductive, SlotsInductive DEF IInv
<1>3. QInv /\ NobodyOutlivesRetention => OpenProofsBounded
  BY QueueSuffices
<1>4. QED
  BY <1>1, <1>2, <1>3, PTL DEF Spec

=============================================================================
