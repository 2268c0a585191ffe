------------------------- MODULE CommandLedgerProofs -------------------------
(* The command gate implements the ledger of commands: every step of every    *)
(* handler, crash, grant and tick is a step of CommandLedger or none.         *)
EXTENDS CommandGateProofs

------------------------------------------------------------------------------
(* The ledger the gate keeps.                                                 *)

(* Two commands taken on differ: their ids, or the times of their claims.     *)
LEMMA EntriesDiffer ==
  ASSUME TypeOK, ClaimsApart, NEW h \in Claimed, NEW g \in Claimed, h # g
  PROVE  EntryOf(h) # EntryOf(g)
<1>1. claimed[h] \in Nat /\ claimed[g] \in Nat /\ Retention \in Nat
  BY GateAssumption DEF TypeOK, Claimed
<1>2. CASE Key(h) = Key(g)
  <2>1. MoreThanRetention(claimed[h], claimed[g])
    BY <1>2 DEF ClaimsApart, Claimed
  <2>2. claimed[h] # claimed[g]
    BY <1>1, <2>1 DEF MoreThanRetention
  <2>3. EntryOf(h).at # EntryOf(g).at
    BY <2>2 DEF EntryOf
  <2>4. QED
    BY <2>3
<1>3. CASE Key(h) # Key(g)
  <2>1. EntryOf(h).conn # EntryOf(g).conn \/ EntryOf(h).id # EntryOf(g).id
    BY <1>3 DEF Key, EntryOf
  <2>2. QED
    BY <2>1
<1>4. QED
  BY <1>2, <1>3

(* Handlers that stay in their stage keep the ledger as it is.                *)
LEMMA NoneMoves ==
  ASSUME claimed' = claimed,
         \A h \in Claimed : msg'[h] = msg[h] /\ StageOf(h)' = StageOf(h)
  PROVE  Taken' = Taken
<1>1. Claimed' = Claimed
  BY DEF Claimed
<1>2. \A h \in Claimed : EntryOf(h)' = EntryOf(h)
  BY DEF EntryOf
<1>3. QED
  BY <1>1, <1>2 DEF Taken

(* When one handler goes on, its command moves to the handler's new stage.    *)
LEMMA OneMoves ==
  ASSUME TypeOK, ClaimsApart, NEW h \in Claimed, UNCHANGED <<msg, claimed>>,
         \A g \in Handlers : g # h => pc'[g] = pc[g]
  PROVE  Taken' = Ledger!MovedTo({EntryOf(h)}, StageOf(h)')
<1> DEFINE t == EntryOf(h)
           moved == [conn |-> t.conn, id |-> t.id, entity |-> t.entity,
                     at |-> t.at, stage |-> StageOf(h)']
<1>1. Claimed' = Claimed
  BY DEF Claimed
<1>2. ASSUME NEW g \in Claimed, g # h
      PROVE  EntryOf(g)' = EntryOf(g) /\ EntryOf(g) # t
  <2>1. StageOf(g)' = StageOf(g)
    BY <1>2 DEF StageOf, Claimed
  <2>2. QED
    BY <1>2, <2>1, EntriesDiffer DEF EntryOf
<1>3. EntryOf(h)' = moved
  BY DEF EntryOf
<1>4. Ledger!MovedTo({t}, StageOf(h)') = (Taken \ {t}) \cup {moved}
  BY DEF Ledger!MovedTo
<1>5. Taken' = {EntryOf(g)' : g \in Claimed}
  BY <1>1 DEF Taken
<1>6. Taken \ {t} = {EntryOf(g) : g \in Claimed \ {h}}
  BY <1>2 DEF Taken
<1> HIDE DEF t, moved
<1>7. Taken' = {EntryOf(g) : g \in Claimed \ {h}} \cup {moved}
  BY <1>2, <1>3, <1>5
<1>8. QED
  BY <1>4, <1>6, <1>7 DEF t

(* A crash closes every command that was taken on.                            *)
LEMMA AllClose ==
  ASSUME UNCHANGED <<msg, claimed>>, \A h \in Claimed : StageOf(h)' = "closed"
  PROVE  Taken' = Ledger!MovedTo(Taken, "closed")
<1>1. Claimed' = Claimed
  BY DEF Claimed
<1>2. \A h \in Claimed :
        EntryOf(h)' = [conn |-> EntryOf(h).conn, id |-> EntryOf(h).id,
                       entity |-> EntryOf(h).entity, at |-> EntryOf(h).at,
                       stage |-> "closed"]
  BY DEF EntryOf
<1>3. QED
  BY <1>1, <1>2 DEF Taken, Ledger!MovedTo

------------------------------------------------------------------------------
(* The steps.                                                                 *)

(* A presented credential that is authorised makes its command a permitted one. *)
LEMMA PresentedIsPermitted ==
  ASSUME TypeOK, NEW h \in Handlers, msg[h] # None, presented[h] # None,
         IsPresentedAuthorised(msg[h].conn, msg[h].entity, presented[h].vc)
  PROVE  <<msg[h].conn, msg[h].entity>> \in Permitted
<1> DEFINE c == msg[h].conn
           e == msg[h].entity
           vc == presented[h].vc
<1>1. c \in Connections
  BY DEF TypeOK, Message
<1>2. vc \in Credential
  BY DEF TypeOK, Presentation
<1>3. e \in Permits[vc.scope] /\ vc.scope \in Scopes
  BY <1>2 DEF IsPresentedAuthorised, Credential
<1>4. e \in Entities
  BY <1>3, PermitsAssumption
<1>5. IsAuthorised(c, e)
  BY DEF IsPresentedAuthorised, IsAuthorised
<1>6. QED
  BY <1>1, <1>4, <1>5 DEF Permitted

(* A claim takes the command on: its id is not remembered.                    *)
LEMMA ClaimTakesOn ==
  ASSUME TypeOK, ClaimsRemembered, ClaimsApart, BeforeClaim,
         NEW h \in Handlers, ClaimCommand(h)
  PROVE  Taken' = Taken \/ Ledger!TakeOn(msg[h].conn, msg[h].id, msg[h].entity)
<1> USE DEF Go, Resumes, Continues, Awaits
<1>1. /\ pc \in [Handlers -> PCs]
      /\ claimed \in [Handlers -> Nat \cup {None}]
      /\ now \in Nat /\ None \notin Nat
      /\ pc[h] = "claim" /\ claimed[h] = None
      /\ msg' = msg /\ UNCHANGED storeVars
  BY NoneAssumption DEF TypeOK, StoreTypeOK, ClaimCommand, BeforeClaim, Before
<1>2. ASSUME NEW g \in Handlers, g # h
      PROVE  pc'[g] = pc[g] /\ StageOf(g)' = StageOf(g)
  BY <1>1, <1>2 DEF ClaimCommand, StageOf
<1>3. CASE claimed' = claimed
  <2>1. h \notin Claimed
    BY <1>1 DEF Claimed
  <2>2. QED
    BY <1>1, <1>2, <1>3, <2>1, NoneMoves DEF Claimed
<1>4. CASE /\ Purged[Key(h)] = None
           /\ claimed' = [claimed EXCEPT ![h] = now]
           /\ pc' = [pc EXCEPT ![h] = "build"]
  <2>1. Claimed' = Claimed \cup {h} /\ h \notin Claimed
    BY <1>1, <1>4 DEF Claimed
  <2>2. ASSUME NEW g \in Claimed
        PROVE  EntryOf(g)' = EntryOf(g)
    <3>1. g # h /\ g \in Handlers
      BY <2>1 DEF Claimed
    <3>2. claimed'[g] = claimed[g]
      BY <1>1, <1>4, <3>1
    <3>3. QED
      BY <1>1, <1>2, <3>1, <3>2 DEF EntryOf
  <2> DEFINE new == [conn |-> msg[h].conn, id |-> msg[h].id,
                     entity |-> msg[h].entity, at |-> now, stage |-> "open"]
  <2>3. EntryOf(h)' = new
    <3>1. StageOf(h)' = "open" /\ claimed'[h] = now
      BY <1>1, <1>4 DEF StageOf
    <3>2. QED
      BY <1>1, <3>1 DEF EntryOf
  <2>4. Taken' = Taken \cup {new}
    BY <2>1, <2>2, <2>3 DEF Taken
  <2>5. ASSUME NEW u \in Taken, u.conn = msg[h].conn, u.id = msg[h].id
        PROVE  now > u.at + Retention
    <3>1. PICK g \in Claimed : u = EntryOf(g)
      BY DEF Taken
    <3>2. g \in Handlers /\ claimed[g] # None /\ Key(g) = Key(h) /\ u.at = claimed[g]
      BY <2>5, <3>1 DEF EntryOf, Key, Claimed
    <3>3. QED
      BY <1>4, <3>2, PurgedIsOld
  <2>6. UNCHANGED <<now, Permitted>>
    BY <1>1 DEF storeVars, Permitted, IsAuthorised, IssuedForConnection,
                HasExpectedScope, IsExpired
  <2>7. QED
    BY <2>4, <2>5, <2>6 DEF Ledger!TakeOn
<1>5. QED
  BY <1>3, <1>4 DEF ClaimCommand

(* A handler's step is one of its command's, or time stands still.            *)
LEMMA HandlerStep ==
  ASSUME IInv, BeforeClaim, NEW h \in Handlers, Handle(h)
  PROVE  Ledger!LedgerNext
<1> USE DEF Go, Resumes, Continues, Awaits
<1> DEFINE t == EntryOf(h)
<1>1. /\ TypeOK /\ PhaseOK /\ ClaimsRemembered /\ ClaimsApart
      /\ pc \in [Handlers -> PCs]
      /\ pc[h] \in AfterClaim => claimed[h] # None
      /\ pc[h] # "idle" => msg[h] # None
  BY DEF IInv, TypeOK
<1>2. UNCHANGED storeVars /\ msg' = msg
  BY DEF Handle, Authorise, ClaimCommand, BuildRequest, SendProofRequest,
         SendFails, PollDone, PollFails, ProofTimesOut, DeleteProofRecord,
         Recheck, Dispatch, CallSucceeds, CallFails, SendReply, FinishCommand,
         StoreBusy
<1>3. UNCHANGED <<now, Permitted>>
  BY <1>2 DEF storeVars, Permitted, IsAuthorised, IssuedForConnection,
              HasExpectedScope, IsExpired
<1>4. ASSUME Taken' = Taken
      PROVE  Ledger!LedgerNext
  BY <1>3, <1>4 DEF Ledger!LedgerNext, Ledger!World
<1>5. ASSUME claimed' = claimed, \A g \in Handlers : StageOf(g)' = StageOf(g)
      PROVE  Ledger!LedgerNext
  BY <1>2, <1>4, <1>5, NoneMoves DEF Claimed
<1>6. ASSUME h \in Claimed, claimed' = claimed,
             \A g \in Handlers : g # h => pc'[g] = pc[g]
      PROVE  /\ t \in Taken
             /\ Taken' = Ledger!MovedTo({t}, StageOf(h)')
  BY <1>1, <1>2, <1>6, OneMoves DEF Taken
<1>7. ASSUME h \in Claimed, claimed' = claimed, StageOf(h)' = "closed",
             \A g \in Handlers : g # h => pc'[g] = pc[g]
      PROVE  Ledger!LedgerNext
  <2>1. Ledger!Close({t}) /\ {t} \in SUBSET Taken
    BY <1>3, <1>6, <1>7 DEF Ledger!Close
  <2>2. QED
    BY <2>1 DEF Ledger!LedgerNext
<1>8. CASE ClaimCommand(h)
  <2>1. pc[h] = "claim" /\ msg[h] \in Message /\ msg[h].entity # BadRequest
    BY <1>1, <1>8, KeyType DEF ClaimCommand, BeforeClaim, Before
  <2>2. /\ msg[h].conn \in Connections /\ msg[h].id \in RequestIds
        /\ msg[h].entity \in Entities
    BY <2>1 DEF Message
  <2>3. CASE Ledger!TakeOn(msg[h].conn, msg[h].id, msg[h].entity)
    BY <2>2, <2>3 DEF Ledger!LedgerNext
  <2>4. QED
    BY <1>1, <1>4, <1>8, <2>3, ClaimTakesOn
<1>9. CASE Recheck(h)
  <2>1. pc[h] = "recheck" /\ claimed[h] # None /\ h \in Claimed /\ claimed' = claimed
    BY <1>1, <1>9 DEF Recheck, AfterClaim, Claimed
  <2>2. \A g \in Handlers : g # h => pc'[g] = pc[g]
    BY <1>1, <1>9 DEF Recheck
  <2>3. CASE /\ pc'[h] = "call" /\ presented[h] # None
             /\ IsPresentedAuthorised(msg[h].conn, msg[h].entity, presented[h].vc)
    <3>1. StageOf(h) = "open" /\ StageOf(h)' = "permitted"
      BY <2>1, <2>3 DEF StageOf
    <3>2. t.stage = "open" /\ <<t.conn, t.entity>> \in Permitted
      BY <1>1, <2>1, <2>3, <3>1, PresentedIsPermitted DEF EntryOf
    <3>3. Ledger!Permit(t) /\ t \in Taken
      BY <1>3, <1>6, <2>1, <2>2, <3>1, <3>2 DEF Ledger!Permit
    <3>4. QED
      BY <3>3 DEF Ledger!LedgerNext
  <2>4. CASE pc'[h] = "reply"
    <3>1. StageOf(h)' = "closed"
      BY <2>4 DEF StageOf
    <3>2. QED
      BY <1>7, <2>1, <2>2, <3>1
  <2>5. QED
    BY <1>1, <1>9, <2>3, <2>4 DEF Recheck
<1>10. CASE Dispatch(h)
  <2>1. pc[h] = "call" /\ h \in Claimed /\ claimed' = claimed /\ pc'[h] = "ha"
    BY <1>1, <1>10 DEF Dispatch, AfterClaim, Claimed
  <2>2. \A g \in Handlers : g # h => pc'[g] = pc[g]
    BY <1>1, <1>10 DEF Dispatch
  <2>3. t.stage = "permitted" /\ StageOf(h)' = "sent"
    BY <2>1 DEF StageOf, EntryOf
  <2>4. Ledger!Send(t) /\ t \in Taken
    BY <1>3, <1>6, <2>1, <2>2, <2>3 DEF Ledger!Send
  <2>5. QED
    BY <2>4 DEF Ledger!LedgerNext
<1>11. CASE CallSucceeds(h) \/ CallFails(h)
  <2>1. h \in Claimed /\ claimed' = claimed /\ pc'[h] = "reply"
    BY <1>1, <1>11 DEF CallSucceeds, CallFails, AfterClaim, Claimed
  <2>2. \A g \in Handlers : g # h => pc'[g] = pc[g]
    BY <1>1, <1>11 DEF CallSucceeds, CallFails
  <2>3. StageOf(h)' = "closed"
    BY <2>1 DEF StageOf
  <2>4. QED
    BY <1>7, <2>1, <2>2, <2>3
<1>12. CASE StoreBusy(h)
  <2>1. claimed' = claimed /\ \A g \in Handlers : g # h => pc'[g] = pc[g]
    BY <1>1, <1>12 DEF StoreBusy
  <2>2. CASE pc[h] \in Before \cup {"finish"} /\ pc'[h] = "done"
    <3>1. \A g \in Handlers : StageOf(g)' = StageOf(g)
      BY <2>1, <2>2 DEF StageOf, Before
    <3>2. QED
      BY <1>5, <2>1, <3>1
  <2>3. CASE pc[h] \in {"build", "recheck"} /\ pc'[h] = "finish"
    <3>1. h \in Claimed /\ StageOf(h)' = "closed"
      BY <1>1, <2>3 DEF StageOf, AfterClaim, Claimed
    <3>2. QED
      BY <1>7, <2>1, <3>1
  <2>4. QED
    BY <1>1, <1>12, <2>2, <2>3 DEF StoreBusy
<1>13. CASE \/ BuildRequest(h) \/ SendProofRequest(h) \/ SendFails(h)
            \/ PollDone(h) \/ PollFails(h) \/ ProofTimesOut(h)
            \/ DeleteProofRecord(h)
  <2>1. claimed' = claimed /\ \A g \in Handlers : StageOf(g)' = StageOf(g)
    BY <1>1, <1>13
       DEF BuildRequest, SendProofRequest, SendFails, PollDone, PollFails,
           ProofTimesOut, StopPolling, DeleteProofRecord, StageOf
  <2>2. QED
    BY <1>5, <2>1
<1>14. CASE Authorise(h) \/ SendReply(h) \/ FinishCommand(h)
  <2>1. claimed' = claimed /\ \A g \in Handlers : StageOf(g)' = StageOf(g)
    BY <1>1, <1>14 DEF Authorise, SendReply, FinishCommand, StageOf
  <2>2. QED
    BY <1>5, <2>1
<1>15. QED
  BY <1>8, <1>9, <1>10, <1>11, <1>12, <1>13, <1>14 DEF Handle

(* Every step of the gate is one of the ledger.                               *)
LEMMA LedgerStep ==
  ASSUME IInv, BeforeClaim, [Next]_vars
  PROVE  Ledger!LedgerNext
<1>1. /\ TypeOK /\ PhaseOK /\ now \in Nat
      /\ pc \in [Handlers -> PCs]
      /\ claimed \in [Handlers -> Nat \cup {None}]
      /\ msg \in [Handlers -> Message \cup {None}]
  BY DEF IInv, TypeOK, StoreTypeOK
<1>2. ASSUME now' \in {now, now + 1}, claimed' = claimed,
             \A h \in Claimed : msg'[h] = msg[h] /\ StageOf(h)' = StageOf(h)
      PROVE  Ledger!LedgerNext
  <2>1. Taken' = Taken
    BY <1>2, NoneMoves
  <2>2. QED
    BY <1>2, <2>1 DEF Ledger!LedgerNext, Ledger!World
<1>3. ASSUME now' \in {now, now + 1}, UNCHANGED <<pc, msg, claimed>>
      PROVE  Ledger!LedgerNext
  BY <1>2, <1>3 DEF StageOf
<1>4. ASSUME NEW h \in Handlers, NEW m \in Message, Receive(h, m)
      PROVE  Ledger!LedgerNext
  <2>1. /\ now' = now /\ claimed' = claimed /\ h \notin Claimed
        /\ \A g \in Handlers : g # h => msg'[g] = msg[g] /\ pc'[g] = pc[g]
    BY <1>1, <1>4 DEF Receive, Go, Resumes, storeVars, PhaseOK, Claimed
  <2>2. QED
    BY <1>2, <2>1 DEF StageOf, Claimed
<1>5. CASE Crash
  <2>1. UNCHANGED <<storeVars, msg, claimed>>
        /\ \A h \in Claimed : StageOf(h)' = "closed"
    BY <1>1, <1>5 DEF Crash, StageOf, Claimed
  <2>2. UNCHANGED <<now, Permitted>>
    BY <2>1 DEF storeVars, Permitted, IsAuthorised, IssuedForConnection,
                HasExpectedScope, IsExpired
  <2>3. Ledger!Close(Taken) /\ Taken \in SUBSET Taken
    BY <2>1, <2>2, AllClose DEF Ledger!Close
  <2>4. QED
    BY <2>3 DEF Ledger!LedgerNext
<1>6. ASSUME \/ \E h \in Handlers : HomeAssistantExecutes(h)
             \/ \E h \in Handlers, vp \in Presentation : HolderPresents(h, vp)
      PROVE  Ledger!LedgerNext
  BY <1>3, <1>6 DEF HomeAssistantExecutes, HolderPresents, storeVars
<1>7. ASSUME \/ \E x \in Exchanges, c \in Connections, s \in Scopes, l \in Lifetimes :
                  OwnerIssues(x, c, s, l)
             \/ \E rows : RevokeRows(rows) /\ UNCHANGED <<now, home, gateVars>>
             \/ Clock \/ UNCHANGED vars
      PROVE  Ledger!LedgerNext
  BY <1>3, <1>7 DEF OwnerIssues, Clock, Tick, vars, storeVars, gateVars
<1>8. QED
  BY <1>1, Steps, HandlerStep, <1>4, <1>5, <1>6, <1>7, Zenon

(* The gate keeps its ledger: for every number of handlers, every store and   *)
(* every retention, a command is taken on once per retention, permitted only  *)
(* while a live grant covers it, and sent at most once.                       *)
THEOREM KeepsLedgerCorrect == Spec => KeepsLedger
<1>1. Init => BeforeClaim /\ Ledger!LedgerInit
  <2>1. Init => BeforeClaim
    BY DEF Init, BeforeClaim, Before
  <2>2. Init => Taken = {} /\ now = 0
    BY DEF Init, StoreInit, Taken, Claimed
  <2>3. QED
    BY <2>1, <2>2 DEF Ledger!LedgerInit
<1>2. IInv /\ BeforeClaim /\ [Next]_vars => BeforeClaim' /\ Ledger!LedgerNext
  BY BeforeClaimInductive, LedgerStep DEF IInv
<1>3. Spec => []BeforeClaim
  <2>1. IInv /\ BeforeClaim /\ [Next]_vars => BeforeClaim'
    BY <1>2
  <2>2. QED
    BY <1>1, <2>1, Invariance, PTL DEF Spec
<1>4. IInv /\ BeforeClaim /\ [Next]_vars => [Ledger!LedgerNext]_(Ledger!ledgerVars)
  BY <1>2
<1>5. QED
  BY <1>1, <1>3, <1>4, Invariance, PTL DEF Spec, KeepsLedger, Ledger!LedgerSpec

=============================================================================
