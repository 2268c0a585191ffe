------------------------- MODULE OwnerIssuanceProofs -------------------------
(* Safety of issuing and revoking grants, for every number of processes,      *)
(* requests, connections, scopes and homes.                                   *)
EXTENDS OwnerIssuance, CredentialStoreProofs

LEMMA EndKeepsRequests ==
  ASSUME RequestsOK, NEW R \in SUBSET Requests, End(R)
  PROVE  RequestsOK'
<1> USE DEF RequestsOK, End, Without
<1>1. pc' \in [Requests -> PCs]
  BY DEF PCs
<1>2. DOMAIN req' = {r \in Requests : pc'[r] # "idle"}
  OBVIOUS
<1>3. req' \in [DOMAIN req' -> Request]
  OBVIOUS
<1>4. DOMAIN credEx' = {r \in Requests : pc'[r] = "accepted"}
  OBVIOUS
<1>5. credEx' \in [DOMAIN credEx' -> Exchanges]
  OBVIOUS
<1>6. lock' \in [Processes -> Requests \cup {Unlocked}]
  OBVIOUS
<1>7. QED
  BY <1>1, <1>2, <1>3, <1>4, <1>5, <1>6

(* What a request holds, by where it is.                                      *)
LEMMA RequestTypes ==
  ASSUME TypeOK, NEW r \in Requests
  PROVE  /\ pc[r] # "idle" =>
              /\ r \in DOMAIN req /\ req[r].proc \in Processes
              /\ req[r].conn \in Connections /\ req[r].vc \in Credential
         /\ pc[r] = "accepted" => r \in DOMAIN credEx /\ credEx[r] \in Exchanges
BY DEF TypeOK, RequestsOK, Request

LEMMA MintType ==
  ASSUME TypeOK, NEW r \in Requests, pc[r] = "minting", NEW x \in Exchanges
  PROVE  Mint(r, x) \in Issued
BY RequestTypes DEF Mint, Issued

(* TypeOK is inductive: no request is left half open by an answer, an error,  *)
(* a crash or a busy store.                                                   *)
LEMMA TypeInductive ==
  ASSUME TypeOK, [Next]_vars
  PROVE  TypeOK'
<1> USE DEF TypeOK
<1>1. ASSUME NEW r \in Requests, NEW p \in Processes, NEW c \in Connections,
             NEW s \in Scopes, NEW l \in Lifetimes, BeginIssue(r, p, c, s, l)
      PROVE  TypeOK'
  <2>1. BuildCredential(s, l) \in Credential
    BY BuildCredentialType
  <2>2. StoreTypeOK' /\ minted' = minted /\ late' = late
    BY <1>1 DEF BeginIssue, storeVars, StoreTypeOK
  <2>3. RequestsOK'
    <3> DEFINE new == [proc |-> p, conn |-> c, vc |-> BuildCredential(s, l)]
    <3>1. new \in Request
      BY <2>1 DEF Request
    <3> HIDE DEF new
    <3>2. /\ pc[r] = "idle" /\ pc' = [pc EXCEPT ![r] = "waiting"]
          /\ req' = [i \in DOMAIN req \cup {r} |-> IF i = r THEN new ELSE req[i]]
          /\ credEx' = credEx /\ lock' = lock
      BY <1>1 DEF BeginIssue, new
    <3>3. QED
      BY <3>1, <3>2 DEF RequestsOK, PCs
  <2>4. QED
    BY <2>2, <2>3
<1>2. ASSUME NEW r \in Requests, RejectDuplicate(r) \/ AcapyRefuses(r) \/ StoreBusy(r)
      PROVE  TypeOK'
  <2>1. End({r}) /\ UNCHANGED <<storeVars, minted, late>>
    BY <1>2 DEF RejectDuplicate, AcapyRefuses, StoreBusy
  <2>2. QED
    BY <2>1, EndKeepsRequests DEF storeVars, StoreTypeOK
<1>3. ASSUME NEW r \in Requests, PostToAcapy(r)
      PROVE  TypeOK'
  BY <1>3, RequestTypes DEF PostToAcapy, RequestsOK, PCs, storeVars, StoreTypeOK
<1>4. ASSUME NEW r \in Requests, NEW x \in Exchanges, AcapyAccepts(r, x)
      PROVE  TypeOK'
  <2>1. RequestsOK' /\ StoreTypeOK'
    BY <1>4 DEF AcapyAccepts, RequestsOK, PCs, storeVars, StoreTypeOK
  <2>2. minted' \subseteq Issued /\ late' = late
    BY <1>4, MintType DEF AcapyAccepts
  <2>3. QED
    BY <2>1, <2>2
<1>5. ASSUME NEW r \in Requests, NEW x \in Exchanges, AnswerLost(r, x)
      PROVE  TypeOK'
  <2>1. End({r}) /\ StoreTypeOK'
    BY <1>5 DEF AnswerLost, storeVars, StoreTypeOK
  <2>2. minted' = minted /\ late' \subseteq Issued
    BY <1>5, MintType DEF AnswerLost
  <2>3. QED
    BY <2>1, <2>2, EndKeepsRequests
<1>6. ASSUME NEW r \in Requests, Remember(r)
      PROVE  TypeOK'
  <2>1. /\ RememberIssuedSuperseding(credEx[r], req[r].conn, req[r].vc)
        /\ End({r}) /\ UNCHANGED <<now, home, minted, late>>
        /\ credEx[r] \in Exchanges /\ req[r].conn \in Connections
        /\ req[r].vc \in Credential
    BY <1>6, RequestTypes DEF Remember
  <2>2. StoreTypeOK'
    BY <2>1, RememberType
  <2>3. QED
    BY <2>1, <2>2, EndKeepsRequests
<1>7. ASSUME NEW rows, RevokeRows(rows), UNCHANGED <<now, home, issueVars>>
      PROVE  TypeOK'
  BY <1>7, RevokeType DEF issueVars, RequestsOK
<1>8. ASSUME NEW p \in Processes, Crash(p)
      PROVE  TypeOK'
  <2>1. {r \in DOMAIN req : req[r].proc = p} \subseteq Requests
    BY DEF RequestsOK
  <2>2. late' \subseteq Issued
    BY <1>8, <2>1, MintType DEF Crash, Unused
  <2>3. QED
    BY <1>8, <2>1, <2>2, EndKeepsRequests DEF Crash, storeVars, StoreTypeOK
<1>9. ASSUME NEW h \in Homes, Reconfigure(h)
      PROVE  TypeOK'
  BY <1>9 DEF Reconfigure, issueVars, RequestsOK, StoreTypeOK
<1>10. CASE Clock
  BY <1>10 DEF Clock, Tick, issueVars, RequestsOK, StoreTypeOK
<1>11. CASE UNCHANGED vars
  BY <1>11 DEF vars, storeVars, issueVars, RequestsOK, StoreTypeOK
<1>12. ASSUME NEW m \in late, MintsLate(m)
       PROVE  TypeOK'
  BY <1>12 DEF MintsLate, RequestsOK, storeVars, StoreTypeOK
<1>13. QED
  BY <1>1, <1>2, <1>3, <1>4, <1>5, <1>6, <1>7, <1>8, <1>9, <1>10, <1>11, <1>12
     DEF Next, OwnerRevokesCredential, OwnerRevokesConnection,
         RevokeCredential, RevokeConnection

(* Requests, locks and the store keep their types in every reachable state.   *)
THEOREM TypeCorrect == Spec => []TypeOK
<1>1. Init => TypeOK
  BY DEF Init, StoreInit, TypeOK, StoreTypeOK, RequestsOK, PCs
<1>2. TypeOK /\ [Next]_vars => TypeOK'
  BY TypeInductive
<1>3. QED
  BY <1>1, <1>2, PTL DEF Spec

------------------------------------------------------------------------------
(* What a step can do to the store.                                           *)
StoreStep ==
  \/ /\ \E x \in Exchanges, c \in Connections, vc \in Credential :
          RememberIssuedSuperseding(x, c, vc)
     /\ UNCHANGED <<now, home>>
  \/ (\E rows \in SUBSET Exchanges : RevokeRows(rows)) /\ UNCHANGED <<now, home>>
  \/ grants' = grants /\ now' \in {now, now + 1}

LEMMA ActsOnTheStore ==
  ASSUME TypeOK, [Next]_vars
  PROVE  StoreActs
<1>1. ASSUME NEW r \in Requests, Remember(r)
      PROVE  StoreActs
  BY <1>1, RequestTypes DEF Remember, StoreActs
<1>2. ASSUME NEW x \in Exchanges, OwnerRevokesCredential(x)
      PROVE  StoreActs
  BY <1>2 DEF OwnerRevokesCredential, StoreActs
<1>3. ASSUME NEW c \in Connections, OwnerRevokesConnection(c)
      PROVE  StoreActs
  BY <1>3 DEF OwnerRevokesConnection, StoreActs
<1>4. CASE Clock
  BY <1>4 DEF Clock, StoreActs
<1>5. ASSUME NEW r \in Requests,
             RejectDuplicate(r) \/ PostToAcapy(r) \/ AcapyRefuses(r) \/ StoreBusy(r)
      PROVE  StoreActs
  BY <1>5 DEF RejectDuplicate, PostToAcapy, AcapyRefuses, StoreBusy, storeVars, StoreActs
<1>6. ASSUME NEW r \in Requests, NEW x \in Exchanges, AcapyAccepts(r, x) \/ AnswerLost(r, x)
      PROVE  StoreActs
  BY <1>6 DEF AcapyAccepts, AnswerLost, storeVars, StoreActs
<1>7. ASSUME NEW r \in Requests, NEW p \in Processes, NEW c \in Connections,
             NEW s \in Scopes, NEW l \in Lifetimes, BeginIssue(r, p, c, s, l)
      PROVE  StoreActs
  BY <1>7 DEF BeginIssue, storeVars, StoreActs
<1>8. CASE (\E p \in Processes : Crash(p)) \/ (\E h \in Homes : Reconfigure(h))
  BY <1>8 DEF Crash, Reconfigure, storeVars, StoreActs
<1>9. CASE UNCHANGED vars
  BY <1>9 DEF vars, storeVars, StoreActs
<1>10. ASSUME NEW m \in late, MintsLate(m)
       PROVE  StoreActs
  BY <1>10 DEF MintsLate, storeVars, StoreActs
<1>11. QED
  BY <1>1, <1>2, <1>3, <1>4, <1>5, <1>6, <1>7, <1>8, <1>9, <1>10 DEF Next

LEMMA StepsOfTheStore ==
  ASSUME TypeOK, [Next]_vars
  PROVE  StoreStep
<1>1. StoreActs
  BY ActsOnTheStore
<1>2. ASSUME NEW c \in Connections
      PROVE  {x \in DOMAIN grants : grants[x].conn = c} \in SUBSET Exchanges
  BY DEF TypeOK, StoreTypeOK
<1>3. CASE \E x \in Exchanges : RevokeCredential(x)
  BY <1>1, <1>3 DEF StoreActs, RevokeCredential, StoreStep, Tick
<1>4. CASE \E c \in Connections : RevokeConnection(c)
  BY <1>1, <1>2, <1>4 DEF StoreActs, RevokeConnection, StoreStep, Tick
<1>5. QED
  BY <1>1, <1>3, <1>4 DEF StoreActs, StoreStep, Tick

(* One live grant per connection, scope and home, whatever processes issue at *)
(* once, fail, crash or are reconfigured.                                     *)
THEOREM UniqueLiveCorrect == Spec => []UniqueLive
<1>1. Init => UniqueLive
  BY DEF Init, StoreInit, UniqueLive
<1>2. TypeOK /\ UniqueLive /\ [Next]_vars => UniqueLive'
  <2>1. SUFFICES ASSUME TypeOK, UniqueLive, [Next]_vars
                 PROVE  UniqueLive'
    OBVIOUS
  <2>2. StoreTypeOK /\ StoreStep
    BY <2>1, StepsOfTheStore DEF TypeOK
  <2>3. QED
    BY <2>1, <2>2, RememberKeepsUnique, RevokeKeepsUnique, TimeKeepsUnique DEF StoreStep
<1>3. QED
  BY <1>1, <1>2, TypeCorrect, PTL DEF Spec

(* A grant that is revoked or has expired stays so for good.                  *)
THEOREM NoResurrectionCorrect == Spec => NoResurrection
<1>1. TypeOK /\ [Next]_vars =>
        [\A x \in DOMAIN grants :
           ~Live(x) => x \in DOMAIN grants' /\ ~Live(x)']_vars
  <2>1. SUFFICES ASSUME TypeOK, [Next]_vars, NEW x \in DOMAIN grants, ~Live(x)
                 PROVE  x \in DOMAIN grants' /\ ~Live(x)'
    OBVIOUS
  <2>2. StoreTypeOK /\ StoreStep
    BY <2>1, StepsOfTheStore DEF TypeOK
  <2>3. QED
    BY <2>1, <2>2, RememberKeepsDead, RevokeKeepsDead, TimeKeepsDead DEF StoreStep
<1>2. QED
  BY <1>1, TypeCorrect, PTL DEF Spec, NoResurrection

------------------------------------------------------------------------------
(* The store is a ledger of grants, whatever the processes do.                *)

LEMMA LedgerStep ==
  ASSUME TypeOK, [Next]_vars
  PROVE  [Grants!GrantNext]_(Grants!grantVars)
BY ActsOnTheStore, ActsInLedger DEF TypeOK

(* Every step of every process, failed, late and crashed ones included, is a  *)
(* step of GrantLedger or changes none of its grants.                         *)
THEOREM KeepsGrantsCorrect == Spec => KeepsGrants
<1>1. Init => Grants!GrantInit
  BY InitInLedger DEF Init
<1>2. TypeOK /\ [Next]_vars => [Grants!GrantNext]_(Grants!grantVars)
  BY LedgerStep
<1>3. QED
  BY <1>1, <1>2, TypeCorrect, PTL DEF Spec, KeepsGrants, Grants!GrantSpec

------------------------------------------------------------------------------
(* The lock of a process.                                                     *)

(* Ending requests frees the locks they hold, and no other.                   *)
LEMMA EndKeepsLocks ==
  ASSUME TypeOK, LockIsOwned, NEW R \in SUBSET Requests, End(R)
  PROVE  LockIsOwned'
<1> SUFFICES ASSUME NEW p \in Processes, NEW q \in Requests
             PROVE  lock'[p] = q
                      <=> pc'[q] \in {"minting", "accepted"} /\ req'[q].proc = p
  BY DEF LockIsOwned
<1>1. lock[p] = q <=> pc[q] \in {"minting", "accepted"} /\ req[q].proc = p
  BY DEF LockIsOwned
<1>2. CASE q \in R
  <2>1. lock'[p] # q
    BY <1>2, UnlockedAssumption DEF End
  <2>2. QED
    BY <1>2, <2>1 DEF End
<1>3. CASE q \notin R
  <2>1. lock'[p] = q <=> lock[p] = q
    BY <1>3, UnlockedAssumption DEF End
  <2>2. pc'[q] = pc[q]
    BY <1>3 DEF End
  <2>3. pc[q] # "idle" => req'[q] = req[q]
    BY <1>3 DEF TypeOK, RequestsOK, End, Without
  <2>4. QED
    BY <1>1, <2>1, <2>2, <2>3
<1>4. QED
  BY <1>2, <1>3

LEMMA LocksInductive ==
  ASSUME TypeOK, LockIsOwned, [Next]_vars
  PROVE  LockIsOwned'
<1>1. ASSUME NEW r \in Requests,
             RejectDuplicate(r) \/ AcapyRefuses(r) \/ Remember(r) \/ StoreBusy(r)
               \/ \E x \in Exchanges : AnswerLost(r, x)
      PROVE  LockIsOwned'
  BY <1>1, EndKeepsLocks DEF RejectDuplicate, AcapyRefuses, Remember, StoreBusy, AnswerLost
<1>2. ASSUME NEW p \in Processes, Crash(p)
      PROVE  LockIsOwned'
  <2>1. {r \in DOMAIN req : req[r].proc = p} \subseteq Requests
    BY DEF TypeOK, RequestsOK
  <2>2. QED
    BY <1>2, <2>1, EndKeepsLocks DEF Crash
<1>3. ASSUME NEW r \in Requests, NEW p \in Processes, NEW c \in Connections,
             NEW s \in Scopes, NEW l \in Lifetimes, BeginIssue(r, p, c, s, l)
      PROVE  LockIsOwned'
  <2>1. /\ lock' = lock /\ pc'[r] = "waiting" /\ pc[r] = "idle"
        /\ \A q \in Requests : q # r =>
             pc'[q] = pc[q] /\ (pc[q] # "idle" => req'[q] = req[q])
    BY <1>3 DEF BeginIssue, TypeOK, RequestsOK
  <2>2. QED
    BY <2>1 DEF LockIsOwned
<1>4. ASSUME NEW r \in Requests, PostToAcapy(r)
      PROVE  LockIsOwned'
  <2>1. /\ req[r].proc \in Processes /\ lock[req[r].proc] = Unlocked
        /\ req' = req /\ lock' = [lock EXCEPT ![req[r].proc] = r]
        /\ pc' = [pc EXCEPT ![r] = "minting"] /\ pc[r] = "waiting"
    BY <1>4, RequestTypes DEF PostToAcapy, LockFree
  <2>2. ASSUME NEW p \in Processes, NEW q \in Requests
        PROVE  lock'[p] = q
                 <=> pc'[q] \in {"minting", "accepted"} /\ req'[q].proc = p
    <3>1. lock[p] = q <=> pc[q] \in {"minting", "accepted"} /\ req[q].proc = p
      BY DEF LockIsOwned
    <3>2. CASE q = r
      BY <2>1, <3>1, <3>2 DEF TypeOK, RequestsOK
    <3>3. CASE q # r
      BY <2>1, <3>1, <3>3, UnlockedAssumption DEF TypeOK, RequestsOK
    <3>4. QED
      BY <3>2, <3>3
  <2>3. QED
    BY <2>2 DEF LockIsOwned
<1>5. ASSUME NEW r \in Requests, NEW x \in Exchanges, AcapyAccepts(r, x)
      PROVE  LockIsOwned'
  BY <1>5 DEF AcapyAccepts, LockIsOwned, TypeOK, RequestsOK
<1>6. ASSUME UNCHANGED issueVars
      PROVE  LockIsOwned'
  BY <1>6 DEF issueVars, LockIsOwned
<1>7. ASSUME NEW m \in late, MintsLate(m)
      PROVE  LockIsOwned'
  BY <1>7 DEF MintsLate, LockIsOwned
<1>8. QED
  BY <1>1, <1>2, <1>3, <1>4, <1>5, <1>6, <1>7
     DEF Next, OwnerRevokesCredential, OwnerRevokesConnection, Reconfigure, Clock, vars

(* No refusal, error, busy store or crash leaves a lock behind, and each one  *)
(* is held by the one request of its process that is between check and record. *)
THEOREM LockIsOwnedCorrect == Spec => []LockIsOwned
<1>1. Init => LockIsOwned
  BY UnlockedAssumption DEF Init, LockIsOwned
<1>2. TypeOK /\ LockIsOwned /\ [Next]_vars => LockIsOwned'
  BY LocksInductive
<1>3. QED
  BY <1>1, <1>2, TypeCorrect, PTL DEF Spec

------------------------------------------------------------------------------
(* Only what ACA-Py minted is on file.                                        *)

LEMMA MintedInductive ==
  ASSUME TypeOK, RecordedWasMinted, AcceptedWasMinted, [Next]_vars
  PROVE  RecordedWasMinted' /\ AcceptedWasMinted'
<1> USE DEF RecordedWasMinted, AcceptedWasMinted
<1>1. ASSUME NEW R \in SUBSET Requests, End(R), minted \subseteq minted'
      PROVE  AcceptedWasMinted'
  <2>1. ASSUME NEW r \in Requests, pc'[r] = "accepted"
        PROVE  /\ pc[r] = "accepted" /\ credEx'[r] = credEx[r] /\ req'[r] = req[r]
    BY <1>1, <2>1 DEF End, Without, TypeOK, RequestsOK
  <2>2. QED
    BY <1>1, <2>1
<1>2. ASSUME NEW r \in Requests,
             RejectDuplicate(r) \/ AcapyRefuses(r) \/ StoreBusy(r)
      PROVE  RecordedWasMinted' /\ AcceptedWasMinted'
  <2>1. End({r}) /\ UNCHANGED <<storeVars, minted, late>>
    BY <1>2 DEF RejectDuplicate, AcapyRefuses, StoreBusy
  <2>2. QED
    BY <1>1, <2>1 DEF storeVars
<1>3. ASSUME NEW r \in Requests, NEW x \in Exchanges, AcapyAccepts(r, x)
      PROVE  RecordedWasMinted' /\ AcceptedWasMinted'
  BY <1>3 DEF AcapyAccepts, Mint, storeVars, TypeOK, RequestsOK
<1>4. ASSUME NEW r \in Requests, NEW x \in Exchanges, AnswerLost(r, x)
      PROVE  RecordedWasMinted' /\ AcceptedWasMinted'
  <2>1. End({r}) /\ UNCHANGED <<storeVars, minted>>
    BY <1>4 DEF AnswerLost
  <2>2. QED
    BY <1>1, <2>1 DEF storeVars
<1>5. ASSUME NEW r \in Requests, Remember(r)
      PROVE  RecordedWasMinted' /\ AcceptedWasMinted'
  <2>1. /\ pc[r] = "accepted" /\ minted' = minted /\ End({r})
        /\ RememberIssuedSuperseding(credEx[r], req[r].conn, req[r].vc)
    BY <1>5 DEF Remember
  <2>2. ASSUME NEW y \in DOMAIN grants, y # credEx[r]
        PROVE  grants'[y].conn = grants[y].conn /\ grants'[y].vc = grants[y].vc
    BY <2>1, <2>2 DEF RememberIssuedSuperseding, Revoked
  <2>3. DOMAIN grants' = DOMAIN grants \cup {credEx[r]}
        /\ credEx[r] \notin DOMAIN grants
        /\ grants'[credEx[r]].conn = req[r].conn /\ grants'[credEx[r]].vc = req[r].vc
    BY <2>1 DEF RememberIssuedSuperseding
  <2>4. RecordedWasMinted'
    BY <2>1, <2>2, <2>3
  <2>5. QED
    BY <1>1, <2>1, <2>4
<1>6. ASSUME NEW rows, RevokeRows(rows), UNCHANGED <<now, home, issueVars>>
      PROVE  RecordedWasMinted' /\ AcceptedWasMinted'
  BY <1>6 DEF RevokeRows, Revoked, issueVars
<1>7. ASSUME NEW p \in Processes, Crash(p)
      PROVE  RecordedWasMinted' /\ AcceptedWasMinted'
  <2>1. {r \in DOMAIN req : req[r].proc = p} \subseteq Requests
    BY DEF TypeOK, RequestsOK
  <2>2. QED
    BY <1>1, <1>7, <2>1 DEF Crash, storeVars
<1>8. ASSUME NEW r \in Requests, NEW p \in Processes, NEW c \in Connections,
             NEW s \in Scopes, NEW l \in Lifetimes, BeginIssue(r, p, c, s, l)
      PROVE  RecordedWasMinted' /\ AcceptedWasMinted'
  BY <1>8 DEF BeginIssue, storeVars, TypeOK, RequestsOK
<1>9. ASSUME NEW r \in Requests, PostToAcapy(r)
      PROVE  RecordedWasMinted' /\ AcceptedWasMinted'
  BY <1>9 DEF PostToAcapy, storeVars, TypeOK, RequestsOK
<1>10. CASE Clock \/ (\E h \in Homes : Reconfigure(h)) \/ UNCHANGED vars
  BY <1>10 DEF Clock, Reconfigure, vars, storeVars, issueVars
<1>11. ASSUME NEW m \in late, MintsLate(m)
       PROVE  RecordedWasMinted' /\ AcceptedWasMinted'
  BY <1>11 DEF MintsLate, storeVars
<1>12. QED
  BY <1>2, <1>3, <1>4, <1>5, <1>6, <1>7, <1>8, <1>9, <1>10, <1>11
     DEF Next, OwnerRevokesCredential, OwnerRevokesConnection,
         RevokeCredential, RevokeConnection

(* No failed, crashed or repeated request leaves a row ACA-Py did not mint.   *)
THEOREM RecordedWasMintedCorrect == Spec => []RecordedWasMinted
<1>1. Init => RecordedWasMinted /\ AcceptedWasMinted
  BY DEF Init, StoreInit, RecordedWasMinted, AcceptedWasMinted
<1>2. TypeOK /\ RecordedWasMinted /\ AcceptedWasMinted /\ [Next]_vars
        => RecordedWasMinted' /\ AcceptedWasMinted'
  BY MintedInductive
<1>3. QED
  BY <1>1, <1>2, TypeCorrect, PTL DEF Spec

------------------------------------------------------------------------------
(* Issuing takes access away from nobody.                                     *)

THEOREM IssuingKeepsAccessCorrect == Spec => IssuingKeepsAccess
<1>1. TypeOK /\ [Next]_vars =>
        [\A x \in DOMAIN grants' \ DOMAIN grants :
           ~IsExpired(grants'[x].vc) =>
             \A c \in Connections, e \in Entities :
               IsAuthorised(c, e) => IsAuthorised(c, e)']_vars
  <2>1. SUFFICES ASSUME TypeOK, [Next]_vars,
                        NEW x \in DOMAIN grants' \ DOMAIN grants,
                        ~IsExpired(grants'[x].vc),
                        NEW c \in Connections, NEW e \in Entities,
                        IsAuthorised(c, e)
                 PROVE  IsAuthorised(c, e)'
    OBVIOUS
  <2>2. PICK z \in Exchanges, d \in Connections, vc \in Credential :
          RememberIssuedSuperseding(z, d, vc) /\ UNCHANGED <<now, home>>
    BY <2>1, StepsOfTheStore DEF StoreStep, RevokeRows
  <2>3. /\ x = z /\ DOMAIN grants' = DOMAIN grants \cup {x}
        /\ grants'[x] = [conn |-> d, vc |-> vc, revoked |-> FALSE]
        /\ HasExpectedScope(vc)
    BY <2>1, <2>2 DEF RememberIssuedSuperseding
  <2>4. PICK y \in IssuedForConnection(c) :
          /\ HasExpectedScope(grants[y].vc)
          /\ ~IsExpired(grants[y].vc)
          /\ e \in Permits[grants[y].vc.scope]
    BY <2>1 DEF IsAuthorised
  <2>5. CASE y \in Superseded(d, vc)
    <3>1. d = c /\ vc.scope = grants[y].vc.scope
      BY <2>4, <2>5 DEF Superseded, IssuedForConnection
    <3>2. x \in IssuedForConnection(c)'
      BY <2>3, <3>1 DEF IssuedForConnection
    <3>3. HasExpectedScope(vc)' /\ ~IsExpired(vc)'
      BY <2>1, <2>2, <2>3 DEF HasExpectedScope, IsExpired
    <3>4. QED
      BY <2>3, <2>4, <3>1, <3>2, <3>3 DEF IsAuthorised
  <2>6. CASE y \notin Superseded(d, vc)
    <3>1. y \in DOMAIN grants' /\ grants'[y] = grants[y]
      BY <2>1, <2>2, <2>3, <2>4, <2>6 DEF RememberIssuedSuperseding, IssuedForConnection
    <3>2. y \in IssuedForConnection(c)'
      BY <2>4, <3>1 DEF IssuedForConnection
    <3>3. HasExpectedScope(grants[y].vc)' /\ ~IsExpired(grants[y].vc)'
      BY <2>2, <2>4, <3>1 DEF HasExpectedScope, IsExpired
    <3>4. QED
      BY <2>4, <3>1, <3>2, <3>3 DEF IsAuthorised
  <2>7. QED
    BY <2>5, <2>6
<1>2. QED
  BY <1>1, TypeCorrect, PTL DEF Spec, IssuingKeepsAccess

------------------------------------------------------------------------------
(* Within one process the lock makes check, mint and record one.              *)

(* Revoking, ageing and ending requests activate no grant.                    *)
LEMMA NoNewActive ==
  ASSUME TypeOK, home' = home, NEW c, NEW s,
         \/ grants' = grants /\ now' \in {now, now + 1}
         \/ (\E rows : RevokeRows(rows)) /\ now' = now
  PROVE  FindEquivalentActiveGrant(c, s)' \subseteq FindEquivalentActiveGrant(c, s)
<1>1. ASSUME NEW x \in DOMAIN grants', StateOf(x)' = "active"
      PROVE  /\ x \in DOMAIN grants /\ StateOf(x) = "active"
             /\ grants'[x].conn = grants[x].conn /\ grants'[x].vc = grants[x].vc
  <2>1. x \in DOMAIN grants /\ StoreTypeOK
    BY DEF RevokeRows, TypeOK
  <2>2. Live(x)' /\ HasExpectedScope(grants[x].vc)'
        /\ grants'[x].conn = grants[x].conn /\ grants'[x].vc = grants[x].vc
    BY <1>1, <2>1 DEF StateOf, Live, HasExpectedScope, RevokeRows, Revoked
  <2>3. Live(x)
    BY <2>1, <2>2, TimeKeepsDead, RevokeKeepsDead
  <2>4. StateOf(x) = "active"
    BY <2>2, <2>3 DEF StateOf, Live, HasExpectedScope
  <2>5. QED
    BY <2>1, <2>2, <2>4
<1>2. QED
  BY <1>1 DEF FindEquivalentActiveGrant

(* The requests in hand are all of one process, whichever others there are.   *)
OneIssuer ==
  \A r, q \in Requests :
    pc[r] # "idle" /\ pc[q] # "idle" => req[r].proc = req[q].proc

LEMMA ScopeHeldInductive ==
  ASSUME OneIssuer, TypeOK, ScopeHeld, [Next]_vars
  PROVE  ScopeHeld'
<1> USE DEF ScopeHeld, Locked, Equivalent
<1>1. ASSUME NEW R \in SUBSET Requests, End(R), UNCHANGED storeVars
      PROVE  ScopeHeld'
  <2>1. SUFFICES ASSUME NEW q \in Requests, pc'[q] \in {"minting", "accepted"}
                 PROVE  lock'[req'[q].proc] = q
                        /\ FindEquivalentActiveGrant(req[q].conn, req[q].vc.scope)' = {}
                        /\ req'[q] = req[q]
    OBVIOUS
  <2>2. pc'[q] = pc[q] /\ q \notin R /\ req'[q] = req[q]
    BY <1>1, <2>1 DEF End, Without, TypeOK, RequestsOK
  <2>3. lock'[req[q].proc] = q
    BY <1>1, <2>1, <2>2, RequestTypes DEF End
  <2>4. FindEquivalentActiveGrant(req[q].conn, req[q].vc.scope) = {}
    BY <2>1, <2>2
  <2>5. FindEquivalentActiveGrant(req[q].conn, req[q].vc.scope)' = {}
    BY <1>1, <2>2, <2>4
       DEF storeVars, FindEquivalentActiveGrant, StateOf, HasExpectedScope, IsExpired
  <2>6. QED
    BY <2>2, <2>3, <2>5
<1>2. ASSUME NEW r \in Requests,
             RejectDuplicate(r) \/ AcapyRefuses(r) \/ StoreBusy(r)
               \/ \E x \in Exchanges : AnswerLost(r, x)
      PROVE  ScopeHeld'
  BY <1>1, <1>2 DEF RejectDuplicate, AcapyRefuses, StoreBusy, AnswerLost
<1>3. ASSUME NEW p \in Processes, Crash(p)
      PROVE  ScopeHeld'
  <2>1. {r \in DOMAIN req : req[r].proc = p} \subseteq Requests
    BY DEF TypeOK, RequestsOK
  <2>2. QED
    BY <1>1, <1>3, <2>1 DEF Crash
<1>4. ASSUME UNCHANGED storeVars, NEW q \in Requests, req'[q] = req[q],
             Equivalent(q) = {}
      PROVE  Equivalent(q)' = {}
  BY <1>4 DEF storeVars, FindEquivalentActiveGrant, StateOf, HasExpectedScope, IsExpired
<1>5. ASSUME NEW r \in Requests, NEW p \in Processes, NEW c \in Connections,
             NEW s \in Scopes, NEW l \in Lifetimes, BeginIssue(r, p, c, s, l)
      PROVE  ScopeHeld'
  <2>1. ASSUME NEW q \in Requests, pc'[q] \in {"minting", "accepted"}
        PROVE  pc[q] = pc'[q] /\ req'[q] = req[q] /\ lock' = lock
    BY <1>5, <2>1 DEF BeginIssue, TypeOK, RequestsOK
  <2>2. UNCHANGED storeVars
    BY <1>5 DEF BeginIssue
  <2>3. QED
    BY <1>4, <2>1, <2>2
<1>6. ASSUME NEW r \in Requests, PostToAcapy(r)
      PROVE  ScopeHeld'
  <2>1. UNCHANGED storeVars /\ req' = req /\ r \in DOMAIN req
    BY <1>6, RequestTypes DEF PostToAcapy
  <2>2. ASSUME NEW q \in Requests, pc'[q] \in {"minting", "accepted"}
        PROVE  q = r
    <3>1. SUFFICES ASSUME q # r PROVE FALSE
      OBVIOUS
    <3>2. pc[q] \in {"minting", "accepted"}
      BY <1>6, <2>2, <3>1 DEF PostToAcapy, TypeOK, RequestsOK
    <3>3. lock[req[q].proc] = q /\ lock[req[r].proc] = Unlocked
      BY <1>6, <3>2 DEF PostToAcapy, LockFree
    <3>4. req[q].proc = req[r].proc
      BY <1>6, <3>2 DEF PostToAcapy, OneIssuer
    <3>5. QED
      BY <3>3, <3>4, UnlockedAssumption
  <2>3. Locked(r)' /\ Equivalent(r) = {}
    BY <1>6, <2>1, RequestTypes DEF PostToAcapy, TypeOK, RequestsOK
  <2>4. Equivalent(r)' = {}
    BY <1>4, <2>1, <2>3
  <2>5. QED
    BY <2>2, <2>3, <2>4
<1>7. ASSUME NEW r \in Requests, NEW x \in Exchanges, AcapyAccepts(r, x)
      PROVE  ScopeHeld'
  <2>1. UNCHANGED storeVars /\ req' = req /\ lock' = lock
    BY <1>7 DEF AcapyAccepts
  <2>2. ASSUME NEW q \in Requests, pc'[q] \in {"minting", "accepted"}
        PROVE  pc[q] \in {"minting", "accepted"}
    BY <1>7, <2>2 DEF AcapyAccepts, TypeOK, RequestsOK
  <2>3. QED
    BY <1>4, <2>1, <2>2
<1>8. ASSUME NEW r \in Requests, Remember(r)
      PROVE  ScopeHeld'
  <2>1. ASSUME NEW q \in Requests, pc'[q] \in {"minting", "accepted"}
        PROVE  FALSE
    <3>1. q # r /\ pc[q] \in {"minting", "accepted"} /\ pc[r] = "accepted"
      BY <1>8, <2>1 DEF Remember, End, TypeOK, RequestsOK
    <3>2. lock[req[q].proc] = q /\ lock[req[r].proc] = r
      BY <3>1
    <3>3. req[q].proc = req[r].proc
      BY <3>1 DEF OneIssuer
    <3>4. QED
      BY <3>1, <3>2, <3>3
  <2>2. QED
    BY <2>1
<1>9. ASSUME UNCHANGED <<pc, req, lock, home>>,
             \/ grants' = grants /\ now' \in {now, now + 1}
             \/ (\E rows : RevokeRows(rows)) /\ now' = now
      PROVE  ScopeHeld'
  <2>1. SUFFICES ASSUME NEW q \in Requests, pc[q] \in {"minting", "accepted"}
                 PROVE  Equivalent(q)' = {}
    BY <1>9
  <2>2. FindEquivalentActiveGrant(req[q].conn, req[q].vc.scope) = {}
    BY <2>1
  <2>3. ASSUME NEW c, NEW s
        PROVE  FindEquivalentActiveGrant(c, s)' \subseteq FindEquivalentActiveGrant(c, s)
    BY <1>9, NoNewActive
  <2>4. QED
    BY <1>9, <2>2, <2>3 DEF FindEquivalentActiveGrant
<1>10. ASSUME NEW h \in Homes, Reconfigure(h)
       PROVE  ScopeHeld'
  BY <1>10 DEF Reconfigure, issueVars, TypeOK, RequestsOK
<1>11. ASSUME (\E x \in Exchanges : OwnerRevokesCredential(x))
                \/ (\E c \in Connections : OwnerRevokesConnection(c))
       PROVE  ScopeHeld'
  BY <1>9, <1>11 DEF OwnerRevokesCredential, OwnerRevokesConnection,
                     RevokeCredential, RevokeConnection, issueVars
<1>12. CASE Clock \/ UNCHANGED vars \/ (\E m \in late : MintsLate(m))
  BY <1>9, <1>12 DEF Clock, Tick, MintsLate, vars, storeVars, issueVars
<1>13. QED
  BY <1>2, <1>3, <1>5, <1>6, <1>7, <1>8, <1>10, <1>11, <1>12 DEF Next

LEMMA CheckHoldsStep ==
  ASSUME TypeOK, ScopeHeld, [Next]_vars
  PROVE  [/\ \A m \in (minted' \ minted) \ late :
               FindEquivalentActiveGrant(m.conn, m.vc.scope) = {}
          /\ \A x \in DOMAIN grants' \ DOMAIN grants :
               FindEquivalentActiveGrant(grants'[x].conn, grants'[x].vc.scope) = {}]_vars
<1>1. ASSUME Next, NEW m \in (minted' \ minted) \ late
      PROVE  FindEquivalentActiveGrant(m.conn, m.vc.scope) = {}
  <2>1. PICK r \in Requests, x \in Exchanges : AcapyAccepts(r, x)
    BY <1>1 DEF Next, BeginIssue, RejectDuplicate, PostToAcapy, AcapyRefuses, AnswerLost,
                MintsLate, Remember, StoreBusy, OwnerRevokesCredential,
                OwnerRevokesConnection, Crash, Reconfigure, Clock, issueVars
  <2>2. pc[r] = "minting" /\ m.conn = req[r].conn /\ m.vc = req[r].vc
    BY <1>1, <2>1 DEF AcapyAccepts, Mint
  <2>3. QED
    BY <2>2 DEF ScopeHeld, Equivalent
<1>2. ASSUME Next, NEW x \in DOMAIN grants' \ DOMAIN grants
      PROVE  FindEquivalentActiveGrant(grants'[x].conn, grants'[x].vc.scope) = {}
  <2>1. PICK r \in Requests : Remember(r)
    BY <1>2 DEF Next, BeginIssue, RejectDuplicate, PostToAcapy, AcapyAccepts, AcapyRefuses,
                AnswerLost, MintsLate, StoreBusy, OwnerRevokesCredential,
                OwnerRevokesConnection, RevokeCredential, RevokeConnection, RevokeRows,
                Crash, Reconfigure, Clock, storeVars
  <2>2. /\ pc[r] = "accepted" /\ grants'[x].conn = req[r].conn
        /\ grants'[x].vc = req[r].vc
    BY <1>2, <2>1 DEF Remember, RememberIssuedSuperseding
  <2>3. QED
    BY <2>2 DEF ScopeHeld, Equivalent
<1>3. QED
  BY <1>1, <1>2

(* In a home where one process issues, what ACA-Py answers in time is for a   *)
(* free scope, and its record replaces no grant: only credentials of requests *)
(* that were given up, and come late, stand beside a grant (owner.py).        *)
THEOREM CheckOutlivesAwaitCorrect ==
  ASSUME \A p, q \in Processes : p = q
  PROVE  Spec => CheckOutlivesAwait
<1>1. Init => ScopeHeld
  BY DEF Init, ScopeHeld
<1>2. TypeOK => OneIssuer
  BY RequestTypes DEF OneIssuer
<1>3. TypeOK /\ ScopeHeld /\ [Next]_vars => ScopeHeld'
  BY <1>2, ScopeHeldInductive
<1>4. TypeOK /\ ScopeHeld /\ [Next]_vars =>
        [/\ \A m \in (minted' \ minted) \ late :
              FindEquivalentActiveGrant(m.conn, m.vc.scope) = {}
         /\ \A x \in DOMAIN grants' \ DOMAIN grants :
              FindEquivalentActiveGrant(grants'[x].conn, grants'[x].vc.scope) = {}]_vars
  BY CheckHoldsStep
<1>5. QED
  BY <1>1, <1>3, <1>4, TypeCorrect, PTL DEF Spec, CheckOutlivesAwait

------------------------------------------------------------------------------
(* Late, lost and repeated mints at the gate.                                 *)

(* However many credentials exist for a connection and scope, whichever       *)
(* processes asked for them and whenever ACA-Py made them, the gate accepts   *)
(* one of them at most (is_presented_authorised in credentials.py).           *)
THEOREM OneCredentialCountsCorrect == Spec => []OneCredentialCounts
<1>1. UniqueLive => OneCredentialCounts
  <2>1. SUFFICES ASSUME UniqueLive, NEW m \in minted, NEW n \in minted,
                        m.conn = n.conn, m.vc.scope = n.vc.scope,
                        \E e \in Entities : IsPresentedAuthorised(m.conn, e, m.vc),
                        \E e \in Entities : IsPresentedAuthorised(n.conn, e, n.vc)
                 PROVE  m.vc = n.vc
    BY DEF OneCredentialCounts
  <2>2. ASSUME NEW k, \E e \in Entities : IsPresentedAuthorised(k.conn, e, k.vc)
        PROVE  /\ k.vc.home = home
               /\ \E x \in DOMAIN grants :
                    Live(x) /\ grants[x].conn = k.conn /\ grants[x].vc = k.vc
    BY <2>2 DEF IsPresentedAuthorised, IssuedForConnection, HasExpectedScope, Live
  <2>3. PICK x \in DOMAIN grants :
          Live(x) /\ grants[x].conn = m.conn /\ grants[x].vc = m.vc
    BY <2>1, <2>2
  <2>4. PICK y \in DOMAIN grants :
          Live(y) /\ grants[y].conn = n.conn /\ grants[y].vc = n.vc
    BY <2>1, <2>2
  <2>5. m.vc.home = n.vc.home
    BY <2>1, <2>2
  <2>6. x = y
    BY <2>1, <2>3, <2>4, <2>5 DEF UniqueLive
  <2>7. QED
    BY <2>3, <2>4, <2>6
<1>2. QED
  BY <1>1, UniqueLiveCorrect, PTL

=============================================================================
