------------------------- MODULE StatusPollingProofs -------------------------
(* What Home Assistant shows is current, for every number of config entries,  *)
(* flows and grants, and whatever the gateway and the network do.             *)
EXTENDS StatusPolling, CredentialStoreProofs

------------------------------------------------------------------------------
(* Types.                                                                     *)

LEMMA StateOfType ==
  ASSUME StoreTypeOK, NEW x \in DOMAIN grants
  PROVE  StateOf(x) \in States
<1>1. grants[x].revoked \in BOOLEAN
  BY DEF StoreTypeOK, Grant
<1>2. QED
  BY <1>1 DEF StateOf, States

LEMMA DetailedStatusType ==
  ASSUME StoreTypeOK, NEW e
  PROVE  DetailedStatus(e) \in Status
<1> DEFINE C == UNION {[S -> States] : S \in SUBSET Exchanges}
<1>1. home \in Homes /\ DOMAIN grants \in SUBSET Exchanges
  BY DEF StoreTypeOK
<1>2. ListIssued \in [DOMAIN grants -> States]
  BY StateOfType DEF ListIssued
<1>3. ListIssued \in C
  BY <1>1, <1>2
<1>4. [x \in {} |-> {}] \in [{} -> States] /\ {} \in SUBSET Exchanges
  OBVIOUS
<1>5. [x \in {} |-> {}] \in C
  BY <1>4
<1>6. (IF client[e] THEN ListIssued ELSE [x \in {} |-> {}]) \in C
  BY <1>3, <1>5
<1>7. QED
  BY <1>1, <1>6, Zenon DEF DetailedStatus, Status

LEMMA StatusParts ==
  ASSUME NEW s \in Status
  PROVE  /\ s # Nothing /\ s.instance \in Homes
         /\ DOMAIN s.credentials \subseteq Exchanges
<1>1. s.credentials \in UNION {[S -> States] : S \in SUBSET Exchanges}
  BY DEF Status
<1>2. PICK S \in SUBSET Exchanges : s.credentials \in [S -> States]
  BY <1>1
<1>3. QED
  BY <1>2, NothingAssumption DEF Status

LEMMA FetchTypes ==
  ASSUME NEW status \in Status
  PROVE  /\ Idle \in Fetch
         /\ [stage |-> "answered", status |-> status] \in Fetch
         /\ \A f \in Fetch : [f EXCEPT !.stage = "asked"] \in Fetch
BY DEF Idle, Fetch

LEMMA EntryTypes ==
  ASSUME NEW old \in Entry
  PROVE  /\ [old EXCEPT !.owner = TRUE] \in Entry
         /\ [old EXCEPT !.owner = TRUE].state = old.state
         /\ [old EXCEPT !.state = "loaded"] \in Entry
BY DEF Entry

LEMMA FlowTypes ==
  ASSUME NEW e \in Entries \cup {Nothing}, NEW uid \in Homes
  PROVE  /\ NoFlow \in Flow
         /\ [step |-> "owner", entry |-> e, uid |-> uid] \in Flow
BY DEF NoFlow, Flow

(* A step of the store keeps the types of what was polled.                    *)
LEMMA TouchesType ==
  ASSUME TypeOK, StoreTypeOK', Touches
  PROVE  TypeOK'
<1>1. DOMAIN grants' \subseteq Exchanges
  BY DEF StoreTypeOK
<1>2. /\ changing' \in [Entries -> SUBSET Exchanges]
      /\ changed' \in [Entries -> SUBSET Exchanges]
  BY <1>1 DEF TypeOK, Touches
<1>3. UNCHANGED <<entry, client, fetch, data, success, sensors, flow>>
  BY DEF Touches
<1>4. QED
  BY <1>2, <1>3 DEF TypeOK

(* A step of the integration leaves the store as it is.                       *)
LEMMA StoreStays ==
  ASSUME StoreTypeOK, UNCHANGED storeVars
  PROVE  StoreTypeOK' /\ \A x : StateOf(x)' = StateOf(x)
BY DEF storeVars, StoreTypeOK, StateOf, HasExpectedScope, IsExpired

(* The steps the proofs below go through.                                     *)
StoreStep ==
  \/ \E x \in Exchanges, c \in Connections, s \in Scopes, l \in Lifetimes :
       OwnerIssues(x, c, s, l)
  \/ \E x \in Exchanges : OwnerRevokes(x)
  \/ \E c \in Connections : OwnerRevokesAll(c)
  \/ Clock
  \/ \E h \in Homes : NewIssuer(h)

LEMMA StoreStepType ==
  ASSUME TypeOK, StoreStep
  PROVE  StoreTypeOK' /\ Touches
<1>1. StoreTypeOK
  BY DEF TypeOK
<1>2. ASSUME NEW x \in Exchanges, NEW c \in Connections, NEW s \in Scopes,
             NEW l \in Lifetimes, OwnerIssues(x, c, s, l)
      PROVE  StoreTypeOK' /\ Touches
  <2>1. BuildCredential(s, l) \in Credential
    BY <1>1, BuildCredentialType
  <2>2. QED
    BY <1>1, <1>2, <2>1, RememberType DEF OwnerIssues
<1>3. ASSUME NEW rows, RevokeRows(rows), UNCHANGED <<now, home>>
      PROVE  StoreTypeOK'
  BY <1>1, <1>3, RevokeType
<1>4. ASSUME NEW x \in Exchanges, OwnerRevokes(x)
      PROVE  StoreTypeOK' /\ Touches
  BY <1>3, <1>4 DEF OwnerRevokes, RevokeCredential
<1>5. ASSUME NEW c \in Connections, OwnerRevokesAll(c)
      PROVE  StoreTypeOK' /\ Touches
  BY <1>3, <1>5 DEF OwnerRevokesAll, RevokeConnection
<1>6. ASSUME Clock \/ \E h \in Homes : NewIssuer(h)
      PROVE  StoreTypeOK' /\ Touches
  BY <1>1, <1>6 DEF Clock, Tick, NewIssuer, StoreTypeOK
<1>7. QED
  BY <1>2, <1>4, <1>5, <1>6 DEF StoreStep

LEMMA TypeInductive ==
  ASSUME TypeOK, [Next]_vars
  PROVE  TypeOK'
<1> USE DEF TypeOK
<1>1. StoreTypeOK /\ now \in Nat /\ home \in Homes
  BY DEF StoreTypeOK
<1>2. ASSUME UNCHANGED storeVars
      PROVE  StoreTypeOK'
  BY <1>1, <1>2, StoreStays
<1>3. ASSUME NEW e \in Entries, SetupEntry(e)
      PROVE  TypeOK'
  <2>1. entry[e].owner \in BOOLEAN
    BY DEF Entry
  <2>2. client' \in [Entries -> BOOLEAN]
    BY <1>3, <2>1 DEF SetupEntry
  <2>3. fetch' \in [Entries -> Fetch]
        /\ \A d \in Entries : fetch'[d] = fetch[d] \/ fetch'[d].stage = "asked"
    BY <1>3, FetchTypes DEF SetupEntry, Asks, Fetch, Idle
  <2>4. QED
    BY <1>2, <1>3, <2>2, <2>3 DEF SetupEntry, Asks
<1>4. ASSUME NEW e \in Entries, Poll(e)
      PROVE  TypeOK'
  <2>1. fetch' \in [Entries -> Fetch]
        /\ \A d \in Entries : fetch'[d] = fetch[d] \/ fetch'[d].stage = "asked"
    BY <1>4, FetchTypes DEF Poll, Asks, Fetch, Idle
  <2>2. QED
    BY <1>2, <1>4, <2>1 DEF Poll, Asks
<1>5. ASSUME NEW e \in Entries, GatewayAnswers(e)
      PROVE  TypeOK'
  <2>1. DetailedStatus(e) \in Status
    BY <1>1, DetailedStatusType
  <2>2. /\ fetch' \in [Entries -> Fetch]
        /\ \A d \in Entries : fetch'[d] = fetch[d] \/ fetch'[d].status # Nothing
    BY <1>5, <2>1, FetchTypes, StatusParts DEF GatewayAnswers
  <2>3. QED
    BY <1>2, <1>5, <2>2 DEF GatewayAnswers
<1>6. ASSUME NEW e \in Entries, FetchDone(e)
      PROVE  TypeOK'
  <2>1. fetch[e].status \in Status /\ fetch[e].status # Nothing
    BY <1>6 DEF FetchDone, Fetch
  <2>2. entry' \in [Entries -> Entry]
    <3>1. entry' = [entry EXCEPT ![e] = [entry[e] EXCEPT !.state = "loaded"]]
      BY <1>6 DEF FetchDone
    <3>2. QED
      BY <3>1, EntryTypes
  <2>3. NewSensors(e, fetch[e].status) \in SUBSET (Exchanges \X Homes)
    BY <2>1, StatusParts DEF NewSensors
  <2>4. sensors' \in [Entries -> SUBSET (Exchanges \X Homes)]
    BY <1>6, <2>3 DEF FetchDone
  <2>5. /\ fetch' \in [Entries -> Fetch]
        /\ data' \in [Entries -> Status \cup {Nothing}]
        /\ fetch'[e].stage = "idle" /\ data'[e] = fetch[e].status
        /\ \A d \in Entries : d # e =>
             fetch'[d] = fetch[d] /\ data'[d] = data[d] /\ entry'[d] = entry[d]
    BY <1>6, <2>1 DEF FetchDone, Idle, Fetch
  <2>6. QED
    BY <1>2, <1>6, <2>1, <2>2, <2>4, <2>5 DEF FetchDone
<1>7. ASSUME NEW e \in Entries, FetchFails(e)
      PROVE  TypeOK'
  <2>1. /\ fetch' \in [Entries -> Fetch]
        /\ \A d \in Entries : fetch'[d] = fetch[d] \/ fetch'[d].stage = "idle"
    BY <1>7 DEF FetchFails, Idle, Fetch
  <2>2. QED
    BY <1>2, <1>7, <2>1 DEF FetchFails
<1>8. ASSUME NEW e \in Entries, NEW next \in {"unloaded", "absent"},
             UnloadEntry(e, next)
      PROVE  TypeOK'
  <2>1. entry' \in [Entries -> Entry] /\ entry'[e].state # "loaded"
    BY <1>8 DEF UnloadEntry, Absent, Entry
  <2>2. fetch' \in [Entries -> Fetch] /\ fetch'[e].stage = "idle"
    BY <1>8 DEF UnloadEntry, Idle, Fetch
  <2>3. \A d \in Entries : d # e =>
          entry'[d] = entry[d] /\ fetch'[d] = fetch[d] /\ data'[d] = data[d]
    BY <1>8 DEF UnloadEntry
  <2>4. QED
    BY <1>2, <1>8, <2>1, <2>2, <2>3 DEF UnloadEntry
<1>9. ASSUME NEW f \in Flows, NEW e \in Entries \cup {Nothing}, FlowGetsStatus(f, e)
      PROVE  TypeOK'
  <2>1. flow' \in [Flows -> Flow]
    BY <1>1, <1>9, FlowTypes DEF FlowGetsStatus
  <2>2. QED
    BY <1>2, <1>9, <2>1 DEF FlowGetsStatus, entryVars
<1>10. ASSUME NEW f \in Flows, FlowEnds(f)
       PROVE  flow' \in [Flows -> Flow]
  BY <1>10 DEF FlowEnds, NoFlow, Flow
<1>11. ASSUME NEW f \in Flows, FlowFails(f) \/ FlowAborts(f)
       PROVE  TypeOK'
  BY <1>2, <1>10, <1>11 DEF FlowFails, FlowAborts, entryVars
<1>12. ASSUME NEW f \in Flows, NEW e \in Entries, CreateEntry(f, e)
       PROVE  TypeOK'
  <2>1. flow[f].uid \in Homes \cup {Nothing}
    BY DEF Flow
  <2>2. entry' \in [Entries -> Entry] /\ entry'[e].state # "loaded"
    BY <1>12, <2>1 DEF CreateEntry, Entry
  <2>3. QED
    BY <1>2, <1>10, <1>12, <2>2 DEF CreateEntry
<1>13. ASSUME NEW f \in Flows, NEW e \in Entries, ReconfigureEntry(f, e)
       PROVE  TypeOK'
  <2>1. /\ [entry[e] EXCEPT !.owner = TRUE] \in Entry
        /\ [entry[e] EXCEPT !.owner = TRUE].state = entry[e].state
    BY EntryTypes, Zenon
  <2>2. entry' = [entry EXCEPT ![e] = [entry[e] EXCEPT !.owner = TRUE]]
    BY <1>13 DEF ReconfigureEntry
  <2>3. entry' \in [Entries -> Entry]
        /\ \A d \in Entries : entry'[d].state = entry[d].state
    BY <2>1, <2>2
  <2>4. QED
    BY <1>2, <1>10, <1>13, <2>3 DEF ReconfigureEntry
<1>14. CASE StoreStep
  BY <1>14, StoreStepType, TouchesType
<1>15. CASE UNCHANGED vars
  BY <1>2, <1>15 DEF vars, pollVars, entryVars
<1> HIDE DEF TypeOK
<1>16. ASSUME NEW e \in Entries,
              SetupEntry(e) \/ Poll(e) \/ GatewayAnswers(e) \/ FetchDone(e) \/ FetchFails(e)
       PROVE  TypeOK'
  BY <1>3, <1>4, <1>5, <1>6, <1>7, <1>16
<1>17. CASE Next
  BY <1>8, <1>9, <1>11, <1>12, <1>13, <1>14, <1>16, <1>17, Zenon DEF Next, StoreStep
<1>18. QED
  BY <1>15, <1>17

------------------------------------------------------------------------------
(* What is shown is current.                                                  *)

(* What a status says of the records outside S is what the store says.        *)
HoldsBut(status, S) ==
  \A x \in DOMAIN status.credentials \ S :
    x \in DOMAIN grants /\ status.credentials[x] = StateOf(x)

(* An answer on its way is as good as one that has arrived, which the         *)
(* invariant has to say of both, whether or not a record has its sensor.      *)
AnswersHold == \A e \in Entries :
  fetch[e].stage = "answered" => HoldsBut(fetch[e].status, changing[e])
DataHolds == \A e \in Entries :
  Loaded(e) /\ success[e] => HoldsBut(data[e], changed[e])

CurrentInv == TypeOK /\ AnswersHold /\ DataHolds

LEMMA CurrentSuffices == DataHolds => ShownIsCurrent
BY DEF DataHolds, HoldsBut, ShownIsCurrent, Shown

(* No step of the store loses a record.                                       *)
LEMMA RecordsStay ==
  ASSUME StoreTypeOK, StoreStep
  PROVE  DOMAIN grants \subseteq DOMAIN grants'
<1>1. ASSUME NEW rows, RevokeRows(rows), UNCHANGED <<now, home>>
      PROVE  DOMAIN grants \subseteq DOMAIN grants'
  BY <1>1, RevokeType
<1>2. ASSUME NEW x \in Exchanges, NEW c \in Connections, NEW s \in Scopes,
             NEW l \in Lifetimes, OwnerIssues(x, c, s, l)
      PROVE  DOMAIN grants \subseteq DOMAIN grants'
  BY <1>2 DEF OwnerIssues, RememberIssuedSuperseding
<1>3. ASSUME NEW x \in Exchanges, OwnerRevokes(x)
      PROVE  DOMAIN grants \subseteq DOMAIN grants'
  BY <1>1, <1>3 DEF OwnerRevokes, RevokeCredential
<1>4. ASSUME NEW c \in Connections, OwnerRevokesAll(c)
      PROVE  DOMAIN grants \subseteq DOMAIN grants'
  BY <1>1, <1>4 DEF OwnerRevokesAll, RevokeConnection
<1>5. ASSUME Clock \/ \E h \in Homes : NewIssuer(h)
      PROVE  DOMAIN grants \subseteq DOMAIN grants'
  BY <1>5 DEF Clock, NewIssuer
<1>6. QED
  BY <1>2, <1>3, <1>4, <1>5 DEF StoreStep

LEMMA StoreStepKeeps ==
  ASSUME CurrentInv, StoreStep
  PROVE  AnswersHold' /\ DataHolds'
<1> DEFINE C == {x \in DOMAIN grants' : x \in DOMAIN grants => StateOf(x)' # StateOf(x)}
<1>1. Touches /\ DOMAIN grants \subseteq DOMAIN grants'
  BY RecordsStay, StoreStepType DEF CurrentInv, TypeOK
<1>2. \A x \in DOMAIN grants : x \notin C => x \in DOMAIN grants' /\ StateOf(x)' = StateOf(x)
  BY <1>1
<1>3. /\ UNCHANGED <<entry, fetch, data, success>>
      /\ \A e \in Entries : changing'[e] = IF fetch[e] = Idle THEN {} ELSE changing[e] \cup C
      /\ \A e \in Entries : changed'[e] = IF success[e] THEN changed[e] \cup C ELSE {}
  BY <1>1 DEF Touches
<1> HIDE DEF C
<1>4. ASSUME NEW e \in Entries, fetch'[e].stage = "answered"
      PROVE  HoldsBut(fetch[e].status, changing[e])'
  <2>1. fetch[e] # Idle /\ HoldsBut(fetch[e].status, changing[e])
    BY <1>3, <1>4 DEF CurrentInv, AnswersHold, Idle
  <2>2. changing'[e] = changing[e] \cup C
    BY <1>3, <2>1
  <2>3. QED
    BY <1>2, <1>3, <2>1, <2>2 DEF HoldsBut
<1>5. ASSUME NEW e \in Entries, Loaded(e)', success'[e]
      PROVE  HoldsBut(data[e], changed[e])'
  <2>1. HoldsBut(data[e], changed[e])
    BY <1>3, <1>5 DEF CurrentInv, DataHolds, Loaded
  <2>2. changed'[e] = changed[e] \cup C
    BY <1>3, <1>5
  <2>3. QED
    BY <1>2, <1>3, <2>1, <2>2 DEF HoldsBut
<1>6. QED
  BY <1>4, <1>5 DEF AnswersHold, DataHolds

(* A step of the integration that changes neither the store nor what is known *)
(* of an entry keeps what holds of it.                                        *)
LEMMA EntryKeeps ==
  ASSUME CurrentInv, UNCHANGED storeVars, NEW e \in Entries
  PROVE  /\ fetch'[e].stage # "answered" \/ UNCHANGED <<fetch[e], changing[e]>>
              => (fetch'[e].stage = "answered" => HoldsBut(fetch[e].status, changing[e])')
         /\ ~Loaded(e)' \/ ~success'[e] \/ UNCHANGED <<Loaded(e), success[e], data[e], changed[e]>>
              => (Loaded(e)' /\ success'[e] => HoldsBut(data[e], changed[e])')
<1>1. grants' = grants /\ \A x : StateOf(x)' = StateOf(x)
  BY StoreStays DEF CurrentInv, TypeOK, storeVars
<1>2. QED
  BY <1>1 DEF CurrentInv, AnswersHold, DataHolds, HoldsBut

LEMMA CurrentInductive ==
  ASSUME CurrentInv, [Next]_vars
  PROVE  CurrentInv'
<1>1. TypeOK' /\ TypeOK
  BY TypeInductive DEF CurrentInv
<1>2. SUFFICES AnswersHold' /\ DataHolds'
  BY <1>1 DEF CurrentInv
<1>3. ASSUME UNCHANGED storeVars,
             \A e \in Entries :
               /\ fetch'[e].stage # "answered" \/ UNCHANGED <<fetch[e], changing[e]>>
               /\ \/ ~Loaded(e)' \/ ~success'[e]
                  \/ UNCHANGED <<Loaded(e), success[e], data[e], changed[e]>>
      PROVE  AnswersHold' /\ DataHolds'
  BY <1>3, EntryKeeps DEF AnswersHold, DataHolds
<1>4. ASSUME NEW e \in Entries, SetupEntry(e) \/ Poll(e)
      PROVE  AnswersHold' /\ DataHolds'
  <2>1. /\ UNCHANGED <<storeVars, entry, data, success, changed>>
        /\ \A d \in Entries : d # e => fetch'[d] = fetch[d] /\ changing'[d] = changing[d]
    BY <1>1, <1>4 DEF SetupEntry, Poll, Asks, TypeOK
  <2>2. fetch'[e].stage # "answered"
    BY <1>1, <1>4 DEF SetupEntry, Poll, Asks, TypeOK, Fetch
  <2>3. QED
    BY <1>3, <2>1, <2>2 DEF Loaded
<1>5. ASSUME NEW e \in Entries, GatewayAnswers(e)
      PROVE  AnswersHold' /\ DataHolds'
  <2>1. UNCHANGED <<storeVars, entry, data, success, changed, changing>>
        /\ fetch'[e].status = DetailedStatus(e)
        /\ \A d \in Entries : d # e => fetch'[d] = fetch[d]
    BY <1>1, <1>5 DEF GatewayAnswers, TypeOK
  <2>2. HoldsBut(DetailedStatus(e), changing[e])
    BY DEF HoldsBut, DetailedStatus, ListIssued
  <2>3. grants' = grants /\ \A x : StateOf(x)' = StateOf(x)
    BY <1>1, <2>1, StoreStays DEF TypeOK, storeVars
  <2>4. HoldsBut(fetch[e].status, changing[e])'
    BY <2>1, <2>2, <2>3 DEF HoldsBut
  <2>5. QED
    BY <2>1, <2>4, EntryKeeps DEF AnswersHold, DataHolds, Loaded
<1>6. ASSUME NEW e \in Entries, FetchDone(e)
      PROVE  AnswersHold' /\ DataHolds'
  <2>1. /\ UNCHANGED storeVars
        /\ fetch'[e] = Idle
        /\ data'[e] = fetch[e].status /\ changed'[e] = changing[e]
    BY <1>1, <1>6 DEF FetchDone, TypeOK
  <2>2. \A d \in Entries : d # e =>
          UNCHANGED <<fetch[d], changing[d], entry[d], data[d], success[d], changed[d]>>
    BY <1>1, <1>6 DEF FetchDone, TypeOK
  <2>3. grants' = grants /\ \A x : StateOf(x)' = StateOf(x)
    BY <1>1, <2>1, StoreStays DEF TypeOK, storeVars
  <2>4. HoldsBut(fetch[e].status, changing[e])
    BY <1>6 DEF FetchDone, CurrentInv, AnswersHold
  <2>5. HoldsBut(data[e], changed[e])'
    BY <2>1, <2>3, <2>4 DEF HoldsBut
  <2>6. QED
    BY <2>1, <2>2, <2>5, EntryKeeps DEF AnswersHold, DataHolds, Loaded, Idle
<1>7. ASSUME NEW e \in Entries, FetchFails(e)
      PROVE  AnswersHold' /\ DataHolds'
  BY <1>1, <1>3, <1>7 DEF FetchFails, Idle, Loaded, TypeOK
<1>8. ASSUME NEW e \in Entries, NEW next \in {"unloaded", "absent"},
             UnloadEntry(e, next)
      PROVE  AnswersHold' /\ DataHolds'
  BY <1>1, <1>3, <1>8 DEF UnloadEntry, Idle, Absent, Loaded, TypeOK
<1>9. ASSUME NEW f \in Flows, NEW e \in Entries,
             CreateEntry(f, e) \/ ReconfigureEntry(f, e)
      PROVE  AnswersHold' /\ DataHolds'
  <2>1. \A d \in Entries : ~Loaded(d)' \/ UNCHANGED Loaded(d)
    <3>1. CASE CreateEntry(f, e)
      BY <1>1, <3>1 DEF CreateEntry, Loaded, TypeOK
    <3>2. CASE ReconfigureEntry(f, e)
      <4>1. entry' = [entry EXCEPT ![e] = [entry[e] EXCEPT !.owner = TRUE]]
        BY <3>2 DEF ReconfigureEntry
      <4>2. QED
        BY <1>1, <4>1, EntryTypes DEF Loaded, TypeOK
    <3>3. QED
      BY <1>9, <3>1, <3>2
  <2>2. UNCHANGED <<storeVars, fetch, changing, data, success, changed>>
    BY <1>9 DEF CreateEntry, ReconfigureEntry
  <2>3. QED
    BY <1>3, <2>1, <2>2
<1>10. ASSUME UNCHANGED <<storeVars, entryVars>>
       PROVE  AnswersHold' /\ DataHolds'
  BY <1>3, <1>10 DEF entryVars, Loaded
<1>11. ASSUME NEW f \in Flows, NEW e \in Entries \cup {Nothing},
              FlowGetsStatus(f, e) \/ FlowFails(f) \/ FlowAborts(f)
       PROVE  AnswersHold' /\ DataHolds'
  BY <1>10, <1>11 DEF FlowGetsStatus, FlowFails, FlowAborts
<1>12. CASE UNCHANGED vars
  BY <1>10, <1>12 DEF vars, pollVars
<1>13. CASE StoreStep
  BY <1>13, StoreStepKeeps
<1>14. ASSUME NEW e \in Entries,
              SetupEntry(e) \/ Poll(e) \/ GatewayAnswers(e) \/ FetchDone(e) \/ FetchFails(e)
       PROVE  AnswersHold' /\ DataHolds'
  BY <1>4, <1>5, <1>6, <1>7, <1>14
<1>15. ASSUME NEW f \in Flows, FlowFails(f) \/ FlowAborts(f)
       PROVE  AnswersHold' /\ DataHolds'
  BY <1>11, <1>15
<1>16. CASE Next
  BY <1>8, <1>9, <1>11, <1>13, <1>14, <1>15, <1>16, Zenon DEF Next, StoreStep
<1>17. QED
  BY <1>12, <1>16

LEMMA InitCurrent == Init => CurrentInv
<1> SUFFICES ASSUME Init PROVE CurrentInv
  OBVIOUS
<1>1. StoreTypeOK
  BY DEF Init, StoreInit, StoreTypeOK
<1>2. Absent \in Entry /\ Migrated \in Entry /\ Idle \in Fetch /\ NoFlow \in Flow
  BY <1>1 DEF Absent, Migrated, Entry, Idle, Fetch, NoFlow, Flow, StoreTypeOK
<1>3. entry \in [Entries -> Entry] /\ \A e \in Entries : entry[e].state # "loaded"
  <2>1. Absent.state # "loaded" /\ Migrated.state # "loaded"
    BY DEF Absent, Migrated
  <2>2. entry \in [Entries -> {Absent, Migrated}]
    BY DEF Init
  <2>3. QED
    BY <1>2, <2>1, <2>2
<1>4. \A e \in Entries : fetch[e] = Idle /\ fetch[e].stage # "answered"
  BY DEF Init, Idle
<1>5. TypeOK
  <2>1. /\ entry \in [Entries -> Entry] /\ fetch \in [Entries -> Fetch]
        /\ flow \in [Flows -> Flow]
    BY <1>2, <1>3 DEF Init
  <2>2. /\ client \in [Entries -> BOOLEAN] /\ success \in [Entries -> BOOLEAN]
        /\ data \in [Entries -> Status \cup {Nothing}]
        /\ sensors \in [Entries -> SUBSET (Exchanges \X Homes)]
        /\ changing \in [Entries -> SUBSET Exchanges]
        /\ changed \in [Entries -> SUBSET Exchanges]
    BY DEF Init
  <2>3. QED
    BY <1>1, <1>3, <1>4, <2>1, <2>2 DEF TypeOK
<1>6. QED
  BY <1>3, <1>4, <1>5 DEF CurrentInv, AnswersHold, DataHolds, Loaded

LEMMA CurrentInvariant == Spec => []CurrentInv
<1>1. CurrentInv /\ [Next]_vars => CurrentInv'
  BY CurrentInductive
<1>2. QED
  BY InitCurrent, <1>1, PTL DEF Spec

------------------------------------------------------------------------------
(* The store is a ledger of grants, whatever is polled.                       *)

LEMMA ActsOnTheStore ==
  ASSUME TypeOK, [Next]_vars
  PROVE  StoreActs
<1>1. ASSUME NEW x \in Exchanges, NEW c \in Connections, NEW s \in Scopes,
             NEW l \in Lifetimes, OwnerIssues(x, c, s, l)
      PROVE  StoreActs
  <2>1. BuildCredential(s, l) \in Credential
    BY BuildCredentialType DEF TypeOK
  <2>2. QED
    BY <1>1, <2>1 DEF OwnerIssues, StoreActs
<1>2. ASSUME NEW x \in Exchanges, OwnerRevokes(x)
      PROVE  StoreActs
  BY <1>2 DEF OwnerRevokes, StoreActs
<1>3. ASSUME NEW c \in Connections, OwnerRevokesAll(c)
      PROVE  StoreActs
  BY <1>3 DEF OwnerRevokesAll, StoreActs
<1>4. CASE Clock
  BY <1>4 DEF Clock, StoreActs
<1>5. ASSUME NEW h \in Homes, NewIssuer(h)
      PROVE  StoreActs
  BY <1>5 DEF NewIssuer, StoreActs
<1>6. ASSUME UNCHANGED storeVars
      PROVE  StoreActs
  BY <1>6 DEF storeVars, StoreActs
<1>7. ASSUME NEW e \in Entries,
             SetupEntry(e) \/ Poll(e) \/ GatewayAnswers(e) \/ FetchDone(e) \/ FetchFails(e)
      PROVE  UNCHANGED storeVars
  BY <1>7 DEF SetupEntry, Poll, GatewayAnswers, FetchDone, FetchFails
<1>8. ASSUME NEW e \in Entries, NEW next, UnloadEntry(e, next)
      PROVE  UNCHANGED storeVars
  BY <1>8 DEF UnloadEntry
<1>9. ASSUME NEW f \in Flows, NEW e,
             \/ FlowGetsStatus(f, e) \/ FlowFails(f) \/ FlowAborts(f)
             \/ CreateEntry(f, e) \/ ReconfigureEntry(f, e)
      PROVE  UNCHANGED storeVars
  BY <1>9 DEF FlowGetsStatus, FlowFails, FlowAborts, CreateEntry, ReconfigureEntry
<1>10. CASE UNCHANGED vars
  BY <1>6, <1>10 DEF vars
<1>11. QED
  BY <1>1, <1>2, <1>3, <1>4, <1>5, <1>6, <1>7, <1>8, <1>9, <1>10, Zenon DEF Next

(* What a revoked row is, it stays.                                           *)
LEMMA RevokedForGood ==
  ASSUME StoreTypeOK, StoreActs, NEW x \in DOMAIN grants, grants[x].revoked
  PROVE  x \in DOMAIN grants' /\ grants'[x].revoked
<1>1. ASSUME NEW rows, RevokeRows(rows)
      PROVE  x \in DOMAIN grants' /\ grants'[x].revoked
  BY <1>1 DEF RevokeRows, Revoked
<1>2. ASSUME NEW y \in Exchanges, NEW c \in Connections, NEW vc \in Credential,
             RememberIssuedSuperseding(y, c, vc)
      PROVE  x \in DOMAIN grants' /\ grants'[x].revoked
  BY <1>2 DEF RememberIssuedSuperseding, Revoked
<1>3. CASE grants' = grants
  BY <1>3
<1>4. QED
  BY <1>1, <1>2, <1>3 DEF StoreActs, RevokeCredential, RevokeConnection

------------------------------------------------------------------------------
(* A grant seen revoked.                                                      *)

RevokedIn(status) ==
  {x \in DOMAIN status.credentials : status.credentials[x] = "revoked"}

OnFile(status) == \A x \in RevokedIn(status) : x \in DOMAIN grants /\ grants[x].revoked

(* What old shows revoked new does not show good or expired.                  *)
NoneBack(old, new) ==
  \A x \in RevokedIn(old) \cap DOMAIN new.credentials :
    new.credentials[x] \in {"revoked", "invalid"}

(* What is shown or on its way as revoked is revoked on file, and the answer  *)
(* on its way was made after the status shown: a coordinator has one refresh  *)
(* under way at a time.                                                       *)
RevocationsHold ==
  \A e \in Entries :
    /\ data[e] # Nothing => OnFile(data[e])
    /\ fetch[e].stage = "answered" => OnFile(fetch[e].status)
    /\ data[e] # Nothing /\ fetch[e].stage = "answered"
         => NoneBack(data[e], fetch[e].status)

(* What a step does with what is known of an entry: nothing, or it drops it,  *)
(* or it asks, or is answered out of the store, or takes the answer in.       *)
LEMMA FetchMoves ==
  ASSUME TypeOK, [Next]_vars, NEW e \in Entries
  PROVE  \/ UNCHANGED <<fetch[e], data[e]>>
         \/ fetch'[e].stage # "answered" /\ data'[e] \in {data[e], Nothing}
         \/ /\ UNCHANGED <<storeVars, data[e]>>
            /\ fetch'[e].status = DetailedStatus(e)
         \/ /\ UNCHANGED storeVars
            /\ fetch[e].stage = "answered" /\ fetch'[e].stage # "answered"
            /\ data'[e] = fetch[e].status
<1> DEFINE Goal == \/ UNCHANGED <<fetch[e], data[e]>>
                   \/ fetch'[e].stage # "answered" /\ data'[e] \in {data[e], Nothing}
                   \/ /\ UNCHANGED <<storeVars, data[e]>>
                      /\ fetch'[e].status = DetailedStatus(e)
                   \/ /\ UNCHANGED storeVars
                      /\ fetch[e].stage = "answered" /\ fetch'[e].stage # "answered"
                      /\ data'[e] = fetch[e].status
<1> SUFFICES Goal
  OBVIOUS
<1>1. fetch \in [Entries -> Fetch] /\ data \in [Entries -> Status \cup {Nothing}]
  BY DEF TypeOK
<1>2. ASSUME NEW d \in Entries, SetupEntry(d) \/ Poll(d)
      PROVE  Goal
  <2>1. data' = data /\ (d # e => fetch'[e] = fetch[e])
    BY <1>1, <1>2 DEF SetupEntry, Poll, Asks
  <2>2. d = e => fetch'[e].stage # "answered"
    BY <1>1, <1>2 DEF SetupEntry, Poll, Asks, Fetch
  <2>3. QED
    BY <2>1, <2>2
<1>3. ASSUME NEW d \in Entries, GatewayAnswers(d)
      PROVE  Goal
  BY <1>1, <1>3 DEF GatewayAnswers
<1>4. ASSUME NEW d \in Entries, FetchDone(d)
      PROVE  Goal
  BY <1>1, <1>4 DEF FetchDone, Idle
<1>5. ASSUME NEW d \in Entries, FetchFails(d)
      PROVE  Goal
  BY <1>1, <1>5 DEF FetchFails, Idle
<1>6. ASSUME NEW d \in Entries, NEW next, UnloadEntry(d, next)
      PROVE  Goal
  BY <1>1, <1>6 DEF UnloadEntry, Idle
<1>7. ASSUME UNCHANGED <<fetch, data>>
      PROVE  Goal
  BY <1>7
<1>8. ASSUME NEW f \in Flows, NEW d,
             \/ FlowGetsStatus(f, d) \/ FlowFails(f) \/ FlowAborts(f)
             \/ CreateEntry(f, d) \/ ReconfigureEntry(f, d)
      PROVE  Goal
  BY <1>7, <1>8 DEF FlowGetsStatus, FlowFails, FlowAborts, CreateEntry,
                    ReconfigureEntry, entryVars
<1>9. CASE StoreStep
  BY <1>7, <1>9, StoreStepType DEF Touches
<1>10. CASE UNCHANGED vars
  BY <1>7, <1>10 DEF vars, pollVars, entryVars
<1> HIDE DEF Goal
<1>11. ASSUME NEW d \in Entries,
              SetupEntry(d) \/ Poll(d) \/ GatewayAnswers(d) \/ FetchDone(d) \/ FetchFails(d)
       PROVE  Goal
  BY <1>2, <1>3, <1>4, <1>5, <1>11
<1>12. ASSUME NEW f \in Flows, FlowFails(f) \/ FlowAborts(f)
       PROVE  Goal
  BY <1>8, <1>12
<1>13. CASE Next
  BY <1>6, <1>8, <1>9, <1>11, <1>12, <1>13, Zenon DEF Next, StoreStep
<1>14. QED
  BY <1>10, <1>13

LEMMA RevocationsInductive ==
  ASSUME TypeOK, RevocationsHold, [Next]_vars
  PROVE  RevocationsHold'
<1>1. ASSUME NEW status, OnFile(status)
      PROVE  OnFile(status)'
  BY <1>1, ActsOnTheStore, RevokedForGood DEF OnFile, RevokedIn, TypeOK
<1>2. ASSUME NEW e
      PROVE  /\ OnFile(DetailedStatus(e))
             /\ \A status : OnFile(status) => NoneBack(status, DetailedStatus(e))
  <2>1. DOMAIN DetailedStatus(e).credentials \subseteq DOMAIN grants
        /\ \A x \in DOMAIN DetailedStatus(e).credentials :
             DetailedStatus(e).credentials[x] = StateOf(x)
    BY DEF DetailedStatus, ListIssued
  <2>2. \A x \in DOMAIN grants :
          /\ StateOf(x) = "revoked" => grants[x].revoked
          /\ grants[x].revoked => StateOf(x) \in {"revoked", "invalid"}
    BY DEF StateOf
  <2>3. QED
    BY <2>1, <2>2 DEF OnFile, RevokedIn, NoneBack
<1>3. SUFFICES ASSUME NEW e \in Entries
               PROVE  /\ data'[e] # Nothing => OnFile(data[e])'
                      /\ fetch'[e].stage = "answered" => OnFile(fetch[e].status)'
                      /\ data'[e] # Nothing /\ fetch'[e].stage = "answered"
                           => NoneBack(data[e], fetch[e].status)'
  BY DEF RevocationsHold
<1>4. /\ data[e] # Nothing => OnFile(data[e])
      /\ fetch[e].stage = "answered" => OnFile(fetch[e].status)
      /\ data[e] # Nothing /\ fetch[e].stage = "answered"
           => NoneBack(data[e], fetch[e].status)
  BY DEF RevocationsHold
<1>5. CASE UNCHANGED <<fetch[e], data[e]>>
  BY <1>1, <1>4, <1>5 DEF OnFile, NoneBack, RevokedIn
<1>6. CASE fetch'[e].stage # "answered" /\ data'[e] \in {data[e], Nothing}
  BY <1>1, <1>4, <1>6 DEF OnFile, RevokedIn
<1>7. CASE UNCHANGED <<storeVars, data[e]>> /\ fetch'[e].status = DetailedStatus(e)
  BY <1>2, <1>4, <1>7 DEF OnFile, NoneBack, RevokedIn, storeVars
<1>8. CASE /\ UNCHANGED storeVars
           /\ fetch[e].stage = "answered" /\ fetch'[e].stage # "answered"
           /\ data'[e] = fetch[e].status
  BY <1>4, <1>8 DEF OnFile, RevokedIn, storeVars
<1>9. QED
  BY <1>5, <1>6, <1>7, <1>8, FetchMoves

LEMMA RevocationsInvariant == Spec => [](TypeOK /\ RevocationsHold)
<1>1. Init => RevocationsHold
  BY DEF Init, Idle, RevocationsHold
<1>2. Init => TypeOK
  BY InitCurrent DEF CurrentInv
<1>3. TypeOK /\ RevocationsHold /\ [Next]_vars => (TypeOK /\ RevocationsHold)'
  BY TypeInductive, RevocationsInductive
<1>4. QED
  BY <1>1, <1>2, <1>3, PTL DEF Spec

------------------------------------------------------------------------------
(* Whatever is asked, answered, lost or reloaded, and in whatever order, the  *)
(* entries, the coordinators and the flows stay well formed, and a loaded     *)
(* entry has a status to show.                                                *)
THEOREM StatusTypeCorrect == Spec => []TypeOK
<1>1. CurrentInv => TypeOK
  BY DEF CurrentInv
<1>2. QED
  BY CurrentInvariant, <1>1, PTL

(* An available sensor of _GrantStatus shows what list_issued says of its     *)
(* record, but for records that have changed since the refresh it shows began *)
(* (coordinator.py, status.py).                                               *)
THEOREM ShownIsCurrentCorrect == Spec => []ShownIsCurrent
<1>1. CurrentInv => ShownIsCurrent
  BY CurrentSuffices DEF CurrentInv
<1>2. QED
  BY CurrentInvariant, <1>1, PTL

(* While an entry runs a grant it has seen revoked does not come back, however *)
(* requests and answers are delayed, fail or follow each other (coordinator.py, *)
(* list_issued).                                                              *)
THEOREM RevokedStaysRevokedCorrect == Spec => RevokedStaysRevoked
<1> DEFINE Kept ==
      \A e \in Entries : data[e] # Nothing /\ data'[e] # Nothing =>
        \A x \in DOMAIN data[e].credentials \cap DOMAIN data'[e].credentials :
          data[e].credentials[x] = "revoked"
            => data'[e].credentials[x] \in {"revoked", "invalid"}
<1>1. TypeOK /\ RevocationsHold /\ [Next]_vars => [Kept]_vars
  <2>1. SUFFICES ASSUME TypeOK, RevocationsHold, [Next]_vars, NEW e \in Entries,
                        data[e] # Nothing, data'[e] # Nothing
                 PROVE  NoneBack(data[e], data'[e])
    BY DEF NoneBack, RevokedIn
  <2>2. CASE data'[e] = data[e]
    BY <2>2 DEF NoneBack, RevokedIn
  <2>3. CASE fetch[e].stage = "answered" /\ data'[e] = fetch[e].status
    BY <2>1, <2>3 DEF RevocationsHold
  <2>4. QED
    BY <2>1, <2>2, <2>3, FetchMoves
<1>2. QED
  BY <1>1, RevocationsInvariant, PTL DEF Spec, RevokedStaysRevoked

(* Polling reads: with config entries coming, going and asking, and with the  *)
(* gateway's issuer changing, the store keeps the promises of GrantLedger.    *)
THEOREM StatusKeepsGrants == Spec => KeepsGrants
<1>1. Init => Grants!GrantInit
  BY InitInLedger DEF Init
<1>2. TypeOK /\ [Next]_vars => [Grants!GrantNext]_(Grants!grantVars)
  BY ActsOnTheStore, ActsInLedger DEF TypeOK
<1>3. QED
  BY <1>1, <1>2, StatusTypeCorrect, PTL DEF Spec, KeepsGrants, Grants!GrantSpec

=============================================================================
