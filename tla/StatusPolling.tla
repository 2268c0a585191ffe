----------------------------- MODULE StatusPolling -----------------------------
(* What Home Assistant shows of a gateway: the config entries of the          *)
(* integration (config_flow.py, __init__.py), the coordinator that polls the  *)
(* status routes of status.py, and the sensors made from what it has polled,  *)
(* over the credential store.                                                 *)
(*                                                                            *)
(* A poll is a request, an answer made at one moment out of the store, and    *)
(* the arrival of that answer; grants come, go and expire in between.  Home   *)
(* Assistant runs one refresh of a coordinator at a time; a refresh that an   *)
(* action asks for starts at once, later, or is dropped for the one under     *)
(* way.                                                                       *)
(*                                                                            *)
(* Abstractions.  One gateway is behind every address; home is who it says it *)
(* is (instance_id), which changes with its issuer DID.  The sensors of       *)
(* connections take the same way as those of credentials.  A wrong token is   *)
(* one of the errors of a request.                                            *)
EXTENDS CredentialStore

CONSTANTS
  Entries,  \* config entries
  Flows,    \* config flows the owner has open
  Nothing   \* no status, no entry, no identity

VARIABLES
  entry,     \* state, unique_id and owner token of each config entry
  client,    \* the coordinator's client has an owner token
  fetch,     \* the refresh of each coordinator under way, and its answer
  data,      \* coordinator.data
  success,   \* coordinator.last_update_success
  sensors,   \* the sensors of an entry: record id and the home in the unique_id
  flow,      \* where each config flow is, for which entry, what it was told
  changing,  \* history: records changed since the refresh under way began
  changed    \* history: records changed since the refresh shown began

entryVars == <<entry, client, fetch, data, success, sensors, changing, changed>>
pollVars == <<entryVars, flow>>
vars == <<storeVars, pollVars>>

States == {"active", "expired", "revoked", "invalid"}

Entry ==
  [state : {"absent", "unloaded", "loaded"}, uid : Homes \cup {Nothing},
   owner : BOOLEAN]

(* What a status route answers: the identity, the state of each record.       *)
Status ==
  [instance : Homes, credentials : UNION {[S -> States] : S \in SUBSET Exchanges}]
Fetch == [stage : {"idle", "asked", "answered"}, status : Status \cup {Nothing}]
Flow ==
  [step : {"idle", "owner"}, entry : Entries \cup {Nothing},
   uid : Homes \cup {Nothing}]

ASSUME NothingAssumption == Nothing \notin Homes \cup Entries \cup Status

TypeOK ==
  /\ StoreTypeOK
  /\ entry \in [Entries -> Entry]
  /\ client \in [Entries -> BOOLEAN] /\ success \in [Entries -> BOOLEAN]
  /\ fetch \in [Entries -> Fetch]
  /\ data \in [Entries -> Status \cup {Nothing}]
  /\ sensors \in [Entries -> SUBSET (Exchanges \X Homes)]
  /\ flow \in [Flows -> Flow]
  /\ changing \in [Entries -> SUBSET Exchanges]
  /\ changed \in [Entries -> SUBSET Exchanges]
  /\ \A e \in Entries :
       /\ fetch[e].stage = "answered" => fetch[e].status # Nothing
       /\ entry[e].state = "loaded" => data[e] # Nothing

Idle == [stage |-> "idle", status |-> Nothing]
Absent == [state |-> "absent", uid |-> Nothing, owner |-> FALSE]
NoFlow == [step |-> "idle", entry |-> Nothing, uid |-> Nothing]

(* An entry of version one has no owner token (async_migrate_entry).          *)
Migrated == [state |-> "unloaded", uid |-> home, owner |-> FALSE]

Init ==
  /\ StoreInit
  /\ entry \in {f \in [Entries -> {Absent, Migrated}] :
                  \A e, d \in Entries : f[e] = Migrated /\ f[d] = Migrated => e = d}
  /\ client = [e \in Entries |-> FALSE]
  /\ fetch = [e \in Entries |-> Idle]
  /\ data = [e \in Entries |-> Nothing]
  /\ success = [e \in Entries |-> FALSE]
  /\ sensors = [e \in Entries |-> {}]
  /\ flow = [f \in Flows |-> NoFlow]
  /\ changing = [e \in Entries |-> {}]
  /\ changed = [e \in Entries |-> {}]

Loaded(e) == entry[e].state = "loaded"

------------------------------------------------------------------------------
(* The coordinator.                                                           *)

Asks(e) ==
  /\ fetch[e] = Idle
  /\ fetch' = [fetch EXCEPT ![e].stage = "asked"]
  /\ changing' = [changing EXCEPT ![e] = {}]

(* Mutant: the setup is complete before the first refresh is.                 *)
SetupEntryEarly(e) ==
  /\ entry[e].state = "unloaded"
  /\ Asks(e)
  /\ entry' = [entry EXCEPT ![e].state = "loaded"]
  /\ client' = [client EXCEPT ![e] = entry[e].owner]
  /\ UNCHANGED <<storeVars, data, success, sensors, flow, changed>>

(* async_setup_entry: a client with the entry's token, and the first refresh. *)
SetupEntry(e) ==
  /\ entry[e].state = "unloaded"
  /\ Asks(e)
  /\ client' = [client EXCEPT ![e] = entry[e].owner]
  /\ UNCHANGED <<storeVars, entry, data, success, sensors, flow, changed>>

(* The 30 s timer, or the refresh an owner's action has asked for.            *)
Poll(e) ==
  /\ Loaded(e)
  /\ Asks(e)
  /\ UNCHANGED <<storeVars, entry, client, data, success, sensors, flow, changed>>

ListIssued == [x \in DOMAIN grants |-> StateOf(x)]

(* /owner/status, or /status without a token, which names no record.          *)
DetailedStatus(e) ==
  [instance |-> home,
   credentials |-> IF client[e] THEN ListIssued ELSE [x \in {} |-> {}]]

GatewayAnswers(e) ==
  /\ fetch[e].stage = "asked"
  /\ fetch' = [fetch EXCEPT ![e] = [stage |-> "answered", status |-> DetailedStatus(e)]]
  /\ UNCHANGED <<storeVars, entry, client, data, success, sensors, flow, changing, changed>>

(* async_add_new_entities: a sensor for each record not yet known.            *)
Known(e) == {s[1] : s \in sensors[e]}
NewSensors(e, status) ==
  {<<x, status.instance>> : x \in DOMAIN status.credentials \ Known(e)}

(* Mutant: sensors are made by the platform's setup alone.                    *)
FetchDoneOldSensors(e) ==
  /\ fetch[e].stage = "answered"
  /\ entry' = [entry EXCEPT ![e].state = "loaded"]
  /\ data' = [data EXCEPT ![e] = fetch[e].status]
  /\ success' = [success EXCEPT ![e] = TRUE]
  /\ sensors' = IF Loaded(e) THEN sensors
                ELSE [sensors EXCEPT ![e] = NewSensors(e, fetch[e].status)]
  /\ fetch' = [fetch EXCEPT ![e] = Idle]
  /\ changed' = [changed EXCEPT ![e] = changing[e]]
  /\ changing' = [changing EXCEPT ![e] = {}]
  /\ UNCHANGED <<storeVars, client, flow>>

(* Mutant: what is known of a record is not looked at again.                  *)
FetchDoneKeeping(e) ==
  /\ fetch[e].stage = "answered"
  /\ entry' = [entry EXCEPT ![e].state = "loaded"]
  /\ data' = [data EXCEPT ![e] =
       [instance |-> fetch[e].status.instance,
        credentials |-> [x \in DOMAIN fetch[e].status.credentials |->
          IF x \in Known(e) /\ x \in DOMAIN data[e].credentials
          THEN data[e].credentials[x] ELSE fetch[e].status.credentials[x]]]]
  /\ success' = [success EXCEPT ![e] = TRUE]
  /\ sensors' = [sensors EXCEPT ![e] = @ \cup NewSensors(e, fetch[e].status)]
  /\ fetch' = [fetch EXCEPT ![e] = Idle]
  /\ changed' = [changed EXCEPT ![e] = changing[e]]
  /\ changing' = [changing EXCEPT ![e] = {}]
  /\ UNCHANGED <<storeVars, client, flow>>

(* The answer arrives.  The first one completes the setup of the entry.       *)
FetchDone(e) ==
  /\ fetch[e].stage = "answered"
  /\ entry' = [entry EXCEPT ![e].state = "loaded"]
  /\ data' = [data EXCEPT ![e] = fetch[e].status]
  /\ success' = [success EXCEPT ![e] = TRUE]
  /\ sensors' = [sensors EXCEPT ![e] = @ \cup NewSensors(e, fetch[e].status)]
  /\ fetch' = [fetch EXCEPT ![e] = Idle]
  /\ changed' = [changed EXCEPT ![e] = changing[e]]
  /\ changing' = [changing EXCEPT ![e] = {}]
  /\ UNCHANGED <<storeVars, client, flow>>

(* Mutant: an error leaves the last status in place as if it were new.        *)
FetchFailsQuietly(e) ==
  /\ fetch[e].stage # "idle"
  /\ fetch' = [fetch EXCEPT ![e] = Idle]
  /\ changed' = [changed EXCEPT ![e] = changing[e]]
  /\ changing' = [changing EXCEPT ![e] = {}]
  /\ UNCHANGED <<storeVars, entry, client, data, success, sensors, flow>>

(* UpdateFailed: 401, 503, ACA-Py unavailable, a bad payload, the 10 s        *)
(* timeout.  A loaded entry's sensors become unavailable, a setup ends.       *)
FetchFails(e) ==
  /\ fetch[e].stage # "idle"
  /\ fetch' = [fetch EXCEPT ![e] = Idle]
  /\ success' = [success EXCEPT ![e] = FALSE]
  /\ changed' = [changed EXCEPT ![e] = {}]
  /\ changing' = [changing EXCEPT ![e] = {}]
  /\ UNCHANGED <<storeVars, entry, client, data, sensors, flow>>

(* A reload, a restart of Home Assistant, or the removal of the entry: the    *)
(* refresh under way and all that was known are gone.                         *)
UnloadEntry(e, next) ==
  /\ entry[e].state # "absent"
  /\ entry' = [entry EXCEPT ![e] =
                 IF next = "absent" THEN Absent
                 ELSE [state |-> next, uid |-> entry[e].uid, owner |-> entry[e].owner]]
  /\ client' = [client EXCEPT ![e] = FALSE]
  /\ fetch' = [fetch EXCEPT ![e] = Idle]
  /\ data' = [data EXCEPT ![e] = Nothing]
  /\ success' = [success EXCEPT ![e] = FALSE]
  /\ sensors' = [sensors EXCEPT ![e] = {}]
  /\ changing' = [changing EXCEPT ![e] = {}]
  /\ changed' = [changed EXCEPT ![e] = {}]
  /\ UNCHANGED <<storeVars, flow>>

------------------------------------------------------------------------------
(* Config flows: _validate_gateway is two requests.                           *)

(* The first tells the flow who the gateway is.                               *)
FlowGetsStatus(f, e) ==
  /\ flow[f] = NoFlow
  /\ e \in Entries => entry[e].state # "absent"
  /\ flow' = [flow EXCEPT ![f] = [step |-> "owner", entry |-> e, uid |-> home]]
  /\ UNCHANGED <<storeVars, entryVars>>

FlowEnds(f) == flow[f].step = "owner" /\ flow' = [flow EXCEPT ![f] = NoFlow]

(* invalid_auth or cannot_connect: the form is shown again.                   *)
FlowFails(f) == FlowEnds(f) /\ UNCHANGED <<storeVars, entryVars>>

Configured(uid) == \E e \in Entries : entry[e].state # "absent" /\ entry[e].uid = uid

(* The owner's token is good, and no entry has this unique_id.                *)
CreateEntry(f, e) ==
  /\ FlowEnds(f)
  /\ flow[f].entry = Nothing
  /\ ~Configured(flow[f].uid)
  /\ entry[e].state = "absent"
  /\ entry' = [entry EXCEPT ![e] =
                 [state |-> "unloaded", uid |-> flow[f].uid, owner |-> TRUE]]
  /\ UNCHANGED <<storeVars, client, fetch, data, success, sensors, changing, changed>>

(* A gateway that is the entry's own: address and token are updated and a     *)
(* reload is due; until then the entry runs with its old client.              *)
ReconfigureEntry(f, e) ==
  /\ FlowEnds(f)
  /\ flow[f].entry = e
  /\ entry[e].uid = flow[f].uid
  /\ entry' = [entry EXCEPT ![e].owner = TRUE]
  /\ UNCHANGED <<storeVars, client, fetch, data, success, sensors, changing, changed>>

(* already_configured, or wrong_gateway.                                      *)
FlowAborts(f) ==
  /\ FlowEnds(f)
  /\ IF flow[f].entry = Nothing THEN Configured(flow[f].uid)
     ELSE entry[flow[f].entry].uid # flow[f].uid
  /\ UNCHANGED <<storeVars, entryVars>>

------------------------------------------------------------------------------
(* The gateway and its owner.                                                 *)

(* The records a step of the store changes.                                   *)
Touches ==
  LET C == {x \in DOMAIN grants' : x \in DOMAIN grants => StateOf(x)' # StateOf(x)} IN
  /\ changing' = [e \in Entries |->
                    IF fetch[e] = Idle THEN {} ELSE changing[e] \cup C]
  /\ changed' = [e \in Entries |-> IF success[e] THEN changed[e] \cup C ELSE {}]
  /\ UNCHANGED <<entry, client, fetch, data, success, sensors, flow>>

OwnerIssues(x, c, s, lifetime) ==
  /\ RememberIssuedSuperseding(x, c, BuildCredential(s, lifetime))
  /\ UNCHANGED <<now, home>>
  /\ Touches

OwnerRevokes(x) == RevokeCredential(x) /\ UNCHANGED <<now, home>> /\ Touches
OwnerRevokesAll(c) == RevokeConnection(c) /\ UNCHANGED <<now, home>> /\ Touches
Clock == Tick /\ UNCHANGED <<grants, home>> /\ Touches

(* The gateway comes back with another issuer DID, at the same address.       *)
NewIssuer(h) ==
  /\ h # home
  /\ home' = h
  /\ UNCHANGED <<grants, now>>
  /\ Touches

Next ==
  \/ \E e \in Entries :
       SetupEntry(e) \/ Poll(e) \/ GatewayAnswers(e) \/ FetchDone(e) \/ FetchFails(e)
  \/ \E e \in Entries, next \in {"unloaded", "absent"} : UnloadEntry(e, next)
  \/ \E f \in Flows, e \in Entries \cup {Nothing} : FlowGetsStatus(f, e)
  \/ \E f \in Flows : FlowFails(f) \/ FlowAborts(f)
  \/ \E f \in Flows, e \in Entries : CreateEntry(f, e) \/ ReconfigureEntry(f, e)
  \/ \E x \in Exchanges, c \in Connections, s \in Scopes, l \in Lifetimes :
       OwnerIssues(x, c, s, l)
  \/ \E x \in Exchanges : OwnerRevokes(x)
  \/ \E c \in Connections : OwnerRevokesAll(c)
  \/ Clock
  \/ \E h \in Homes : NewIssuer(h)

Spec == Init /\ [][Next]_vars

(* Fairness.  The coordinator's timer fires while its entry is loaded, and a  *)
(* refresh ends, with an answer or at the 10 s timeout.  Nothing is assumed   *)
(* of the gateway: it may never answer.                                       *)
Fairness ==
  \A e \in Entries : WF_vars(Poll(e)) /\ WF_vars(FetchDone(e) \/ FetchFails(e))

FairSpec == Spec /\ Fairness

------------------------------------------------------------------------------
(* Properties.                                                                *)

(* The records whose sensors are available.                                   *)
Shown(e) ==
  IF Loaded(e) /\ success[e] THEN Known(e) \cap DOMAIN data[e].credentials ELSE {}

(* What an available sensor shows is what the store says of its record, but   *)
(* for records that have changed since the last refresh began: nothing older  *)
(* is shown after errors, late answers, reloads and reconfigurations.         *)
ShownIsCurrent ==
  \A e \in Entries : \A x \in Shown(e) \ changed[e] :
    x \in DOMAIN grants /\ data[e].credentials[x] = StateOf(x)

(* A record last seen revoked is not seen active or expired again as long as  *)
(* the entry runs, through errors, late answers and its own expiry: no answer *)
(* overtakes another, and nothing brings a revoked grant back.                *)
RevokedStaysRevoked ==
  [][\A e \in Entries : data[e] # Nothing /\ data'[e] # Nothing =>
       \A x \in DOMAIN data[e].credentials \cap DOMAIN data'[e].credentials :
         data[e].credentials[x] = "revoked"
           => data'[e].credentials[x] \in {"revoked", "invalid"}]_vars

(* A revoked grant is shown as active for a while at most, then never again,  *)
(* whatever the gateway does: what cannot be polled is not shown.             *)
RevocationShows ==
  \A e \in Entries, x \in Exchanges :
    x \in DOMAIN grants /\ grants[x].revoked
      ~> [](x \notin Shown(e) \/ data[e].credentials[x] # "active")

(* A new grant gets its sensor without a reload of the entry                  *)
(* (docs/HOME_ASSISTANT_INTEGRATION.md), unless its sensors are unavailable   *)
(* or it has no owner token.                                                  *)
GrantAppears ==
  \A e \in Entries, x \in Exchanges :
    x \in DOMAIN grants ~> (x \in Known(e) \/ ~success[e] \/ ~client[e])

(* docs/HOME_ASSISTANT_INTEGRATION.md: entries are keyed by the gateway's     *)
(* issuer DID, so one Home Assistant displays several homes without entity ID *)
(* collisions.                                                                *)
NoCollision == \A e, d \in Entries : e # d => sensors[e] \cap sensors[d] = {}

==============================================================================
