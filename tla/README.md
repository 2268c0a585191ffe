# A TLA+ model of the ha-didcomm gateway

ha-didcomm lets a remote wallet operate Home Assistant over DIDComm: the owner
of a home issues credentials to connections, a holder sends JSON-RPC commands
as basic messages, and the gateway runs a command only against an active grant
and a fresh proof that the holder has it. This directory models the parts of
that program whose correctness depends on the order in which things happen,
checks them with TLC and proves the main invariants with TLAPS.

Paths below are relative to `gateway/src/ha_didcomm/` unless they say otherwise.

## The system

| Part | State | Operations | Hard behaviour |
|---|---|---|---|
| Credential store, `credentials.py` | SQLite table `issued_credentials` | record and supersede, revoke one or all of a connection, list, authorise | shared by three processes; expiry; change of home or issuer |
| Owner issuance, `owner.py` behind `status.py`, `main.py`, `cli.py` | an asyncio lock per process; credentials at ACA-Py | issue, revoke | check before an await, record after it; lost answers; crashes |
| Command gate, `main.py`, `proofs.py` | SQLite table `proof_commands`; one task per webhook | authorise, claim, ask for a proof, recheck, call, answer, finish | redelivery, timeouts, a full queue, revocation under way, crashes |
| App supervisor, `addon.py` | `/data/wallet-key`, `/data/issuer-did`, four children | boot, watch, stop | a boot cut off anywhere; SIGTERM at any step |
| Reference controller, `controller.py` | inbox `rpc_responses`, setting `holder_did`, a wallet | call with polling, answer proofs, pick or create an identity | late and duplicate answers, overlapping runs |
| RPC envelope, `rpc.py` | none | parse, answer, request id of a proof | typed ids |
| ACA-Py and Home Assistant clients, `acapy.py`, `home_assistant.py` | none | HTTP calls | every call may fail before or after it took effect |
| Standalone supervisor, `serve.py` | two children | watch, stop | as `addon.py`, without a boot |
| Status API, `status.py` | none | answer a status, owner routes that issue and revoke | a client that has gone; a refusal after an effect |
| Owner CLI, `cli.py` | none | issue, revoke, print what ACA-Py says | a process of its own beside the apps |
| Home Assistant integration, `custom_components/ha_didcomm` | config entries, the last polled status, sensors | poll, set up, reload, reconfigure, owner actions | answers older than the change they miss; timeouts of requests that go on; a gateway that changes its identity |
| Scripts, deployment files | none | release checks, containers | none |

How they interact. The owner's front ends (status app, gateway app, CLI) are
separate processes; they share the store and ACA-Py and nothing else. ACA-Py
delivers a basic message to the gateway app as a webhook; each webhook is an
asyncio task which reads the store, claims the request id, asks ACA-Py for a
proof, polls it, reads the store again, calls Home Assistant and sends the
answer through ACA-Py. The supervisor starts ACA-Py first, gives its issuer
DID to the apps as an environment variable, and ends all when one ends. The
integration runs in Home Assistant: it polls the status app over HTTP, each entry
with a coordinator of its own, and calls its owner routes with a timeout of 10 s.

What makes each part correct:

- store and issuance: one live grant per connection, scope and home; a revoked
  or expired grant stays so; recording takes no access away; nothing is on file
  that was not minted; a request always ends;
- command gate: a command reaches Home Assistant at most once per request id and
  retention, only with a fresh proof, only under a grant live at the last read;
  answers are true; open proofs are bounded; every delivery ends;
- supervisor: one issuer DID and one wallet key for ever; no orphan; the
  container falls as a whole;
- controller: one identity; a proof only for the own command, with a grant of the
  key that signs; an answer only to the own command; every use ends;
- status API and integration: what the owner is told of a call is true, a refused
  call did nothing; a sensor that is available shows the state of its record at the
  last refresh; a revoked grant is not shown as active for ever.

`PROJECT.json` lists the hazards line by line with the property that covers
each, and maps every definition to the lines it models.

## The modules

`CredentialStore` is the table and its transactions as operators over `grants`,
`now` and `home`; it has no specification of its own. `OwnerIssuance`,
`CommandGate` and `StatusPolling` EXTEND it and say who takes which transaction
when; `OwnerActions` composes the integration and the owner routes with
`OwnerIssuance`. `CommandLedger` is the abstract specification of `CommandGate`;
`GrantLedger` is that of the store, whichever of these modules acts on it.
`Supervisor` and `Controller` stand alone. `MC...` modules give constants their
values. `...Proofs` modules hold the theorems.

### CredentialStore

A SQLite transaction is one step, as SQLite serialises writers; the time that a
transaction reads is the time of its step. A scope is a model value for the
normalised subject, role and permission set that `_grant_scope` computes, and
`Permits` gives the entities its patterns match. Permission lists that differ
only in order or repetition are one payload here. A `home` is the pair HOME_ID,
HOME_ISSUER_DID. Of `revoked_at` only whether it is set is kept. Rows with
damaged JSON are left out: nothing writes one.

### GrantLedger

The store without rows, transactions or a home that changes: the set of grants that
are good, each with its connection, scope, home and end, and the exchange ids ever
used. A grant is recorded in the place of the one it equals (`Record`, or
`RecordDead` when it expired while it was minted), grants are revoked (`Revoke`,
`RevokeAll`), and time takes those whose end it is (`Pass`). Nothing else happens to
a grant, and nothing brings one back.

`CredentialStore` maps its table to it (`LiveGrants`, one `LedgerEntry` for each live
row), and every module over the store keeps it (`KeepsGrants`). It says what the
store's invariants do not: a step ends exactly the grants it is about, of whatever
home, and a step of a request, a command, a poll, a crash or a reconfiguration ends
none.

### OwnerIssuance

| Action | Code |
|---|---|
| `BeginIssue` | `issue_access_credential` up to `async with`: the credential is built before the lock is awaited |
| `RejectDuplicate`, `PostToAcapy` | lock taken, `find_equivalent_active_grant`, and either the error or the POST |
| `AcapyAccepts`, `AcapyRefuses` | the await ends with an id; with an error and no credential |
| `AnswerLost`, `MintsLate` | the await ends with an error (httpx's timeout, a lost answer, no `cred_ex_id`) and the lock is free; ACA-Py mints all the same, at once or much later |
| `Remember` | `remember_issued_superseding` and release of the lock |
| `StoreBusy` | SQLite locked beyond `busy_timeout` |
| `OwnerRevokesCredential`, `OwnerRevokesConnection` | the revoke routes and commands |
| `Crash`, `Reconfigure`, `Clock` | a process dies; a restart with other options; time |

`lock` has one entry per process, which is all an asyncio lock covers. That the
holder of a lock is the one request of its process that mints or records, through
refusals, lost answers and crashes, is `LockIsOwned`.
`late` holds the credentials that ACA-Py is still to mint for requests that have ended,
by a timeout or with their process: the lock is free meanwhile, so that the late one may
come after a retry has minted and recorded. A credential minted while its request still
waits, and never answered, is minted just after the request's end here: the request
and its lock keep others of its process away until then, and nobody reads it earlier.
Requests that fail validation end without touching any state and are left out.

### CommandGate

A handler is one webhook delivery. `running` is the handler between two awaits;
it makes a stretch of code without an await exclusive among handlers, while each
SQLite transaction in it stays a step of its own, since the other processes run
in between. The stretch up to the first await is Receive, Authorise,
ClaimCommand, BuildRequest.

| Action | Code |
|---|---|
| `Receive` | webhook and `parse_request`; a refused message is `BadRequest` |
| `Authorise` | `is_authorised`; a denial leaves the id unclaimed |
| `ClaimCommand` | `claim_command`, purge included, also when the claim is refused |
| `BuildRequest` ... `DeleteProofRecord` | `request_proof`: send, poll, timeout, abandon, delete in `finally` |
| `HolderPresents` | the wallet through ACA-Py: any credential, key and earlier challenge, verified or not |
| `Recheck` | `is_presented_authorised` after the await |
| `Dispatch`, `HomeAssistantExecutes`, `CallSucceeds`, `CallFails` | `call_service`; the request may act although the call fails |
| `SendReply`, `FinishCommand` | the answer, lost or not, and the `finally` block |
| `StoreBusy`, `Crash` | an exception at a transaction; the end of all handlers |
| `OwnerIssues`, `OwnerRevokes`, `OwnerRevokesAll` | another process's transaction, which OwnerIssuance models step by step |

Abstractions: the challenge of a request is the handler that drew it; exchanges
that no handler will read are dropped; a crashed gateway is up again at once;
`Due` lets the clock's last value stand for every later time, so that timeouts
fire although `MaxTime` bounds the clock. A handler's own timeouts (30 s for the
proof, 3 s for the deletion, httpx's 5 s for each call) are far below the
retention of 24 h; the run on capacity therefore never lets the retention pass.

Bounds of the code that are not defects, and which the properties state: replay
is suppressed for the retention, not for ever; an id has one verdict per retention
(`OneVerdict`), but a denial before the claim is no verdict and may follow one; a slot whose handler died comes
back by age; a handler that outlives the proof timeout (a slow Home Assistant)
is no longer counted; a command denied at `Authorise` leaves its id free.

### CommandLedger

The gate without handlers, proofs or a table: a set of commands taken on, each
`open`, `permitted`, `sent` or `closed`. An id of a connection is taken on when
nothing with it is in the ledger that is not older than the retention (`TakeOn`);
a command is permitted only at a moment at which a live grant covers it (`Permit`),
sent at most once, from there (`Send`), and closed at any time (`Close`), as when a
crash closes all. Nothing is ever purged from it.

`CommandGate` implements it (`KeepsLedger`): the ledger is `Taken`, one entry for
each handler that has claimed (`EntryOf`), with the stage read off its place
(`StageOf`); `permitted` is `Permitted`, what `is_authorised` says now. The
refinement says what the gate's own properties do not: a purge, a timeout or
another process's transaction is never more than the world's step, the
permission holds at the very step of the decision, and no stage is skipped.

### OwnerActions

`services.py` and `api.py` of the integration against the owner routes of
`status.py`, over `OwnerIssuance`, whose actions it takes as they are.

| Action | Code |
|---|---|
| `CallService` | `_issue_credential`, `_revoke...` of `services.py`; the POST leaves |
| `CallFails` | `_async_owner_request`: `ClientError` or the 10 s timeout; the request is lost or stays on the wire, an answer is dropped |
| `ServiceReturns` | the answer has come, `async_request_refresh` is over, the owner is told |
| `RequireOwnerFails` | `require_owner`: 401 or 503 before the route runs |
| `IssueArrives`, `IssueConflicts`, `IssuePosts`, `IssueMints`, `IssueRecords`, `IssueFails` | the route `issue_credential` around the steps of `issue_access_credential` |
| `RevokeArrives`, `RevokeBusy` | the two revocation routes, 404 included; SQLite locked |
| `Elsewhere` | the CLI revokes, a process crashes, ACA-Py mints late, time passes |

The status app does not look whether its client is still there, so a request goes
on after Home Assistant has given it up, and one still on the wire may
arrive later: `wire`, `seen` and the request at the gateway are apart. So are the
gateway's answer and what the owner is told: `reply` is the answer on its way back, and
the service awaits a refresh before it returns, while other calls, the CLI and the
clock go on. `did` and `due` are history: what this call has minted or revoked, and the
rows a revocation was about when it was asked for. A crash of the status app
ends its requests; the owner's call then ends by `CallFails`.
`OkIsTrue` therefore says what lasts: the grant is on file, and the rows that
were there when the owner asked, or when the revocation ran, are revoked. A grant whose
record comes after the revocation is active, as in the code, be it recorded before or
after the owner is told. Here the integration is the only front end that issues; `issuance_processes`
asks about several.

### StatusPolling

| Action | Code |
|---|---|
| `SetupEntry`, `Poll` | `async_setup_entry` with its first refresh; the timer, or `async_request_refresh` after an action |
| `GatewayAnswers` | `/owner/status` or `/status` computed at one moment: `list_issued` in one transaction |
| `FetchDone`, `FetchFails` | the refresh ends: new data and new sensors, or `UpdateFailed` |
| `UnloadEntry` | reload, restart or removal of the entry |
| `FlowGetsStatus`, `FlowFails`, `CreateEntry`, `ReconfigureEntry`, `FlowAborts` | the two config flows; `_validate_gateway` is two requests, and the rest follows the second |
| `OwnerIssues`, `OwnerRevokes`, `OwnerRevokesAll`, `Clock`, `NewIssuer` | the store changes; the gateway comes back with another issuer DID |

A refresh under way may have been answered before a change and arrive after it.
`changing` and `changed` are history: the records that have changed since the
refresh under way, or the one shown, began. A reconfiguration updates the entry
and schedules a reload; until then the old client polls. `Init` has an entry of
version 1, without owner token, or none.

### Supervisor

`main` of `addon.py`, bytecode order kept where it matters: a child runs before
its variable is assigned (`PopenApp`, `AssignApp`), and a file exists, empty,
before it is written (`ReadKey`/`WriteKey`, `OpenDid`/`WriteDid`). The
supervisor is process 1 of its container (`gateway/config.yaml`, `init: false`):
a SIGTERM before the handler is installed is lost, and what still runs when
it exits is killed. A signal runs the handler between two steps and `main`
goes on. A secret is drawn once out of `Secrets`; three of them allow for the
wallet key, a DID whose answer is lost and the DID that is kept.

An empty file left by a crash is read as the value by every later boot: the
stability properties hold of it as of any value, and the program never repairs it.

### Controller

The other side of the command gate: `identity`, `call` and the inbox of
`controller.py`. Each use of the CLI is a run; runs, inbox and ACA-Py share a
SQLite file and a wallet, and each HTTP call and each transaction is a step.

| Action | Code |
|---|---|
| `ListWallet`, `UseSaved`, `Adopt`, `FindNone`, `CreateDid`, `SaveSetting` | `holder_did`, with the reads before the writes as they are |
| `StartCall`, `PostMessage` | `call_service` up to its loop; an error of the POST is `RunFails`, the message sent or not |
| `PrintAnswer`, `TimesOut`, `PollAgain` | the head of the loop: deadline, then inbox |
| `ReadRecords`, `SelectCredential`, `SendPresentation` | `_respond_to_command_proof`, for each matching record, `holder_did` included |
| `StoreResponse` | the inbox webhook; an answer replaces the one on file |
| `HomeAnswers`, `HomeAsks`, `WalletReceives`, `WalletGains`, `WalletLoses` | homes and the wallet: any answer to a sent command, a proof request for any command, keys that come and go |

The action of a command goes with its entity; a grant's fingerprint is the grant.
ACA-Py has done what a run asked for by the time the run has ended, or never
does it: a creation that takes effect after its run has ended and the next one has
read the wallet is not modelled. The deadline is a flag that time sets and that
only the head of the loop reads, as in the code.

## The runs

| Run | Question | Bounds |
|---|---|---|
| `issuance_processes` | do processes that race, late mints, expiry and a change of home leave one live grant, nobody without access, no lock behind and nothing revived? is every step one of the ledger of grants? | 2 processes, 2 requests, 2 connections, 2 scopes, 2 homes, 2 exchanges, lifetime 0, clock 0..1 |
| `issuance_race` | is an equivalent grant refused before ACA-Py mints? (violated) | 2 processes, 1 scope |
| `owner_actions` | is what the owner is told true and does it stay so, with requests, answers and mints lost or late? does the check hold until the record, does one credential count, do requests end? | 1 process, 2 calls at a time and any number after each other, 2 exchanges, clock 0..1, no grant expires |
| `gate_authorise` | can a grant that is gone move a command? | 1 handler, 2 connections, 2 scopes, 2 grants, lifetime 0 or none, clock 0..1 |
| `gate_replay` | can one id run twice, or come to two verdicts? is every step one of the ledger? | 3 deliveries of one id, retention 1, clock 0..2 |
| `gate_capacity` | can a slot be given back while it is used? | 3 handlers, 2 ids, 1 slot, clock 0..1 |
| `gate_proof` | can an old or foreign proof move a command; does every delivery end? | 2 handlers, 2 keys, 1 slot |
| `supervisor` | do boots cut off anywhere keep DID and key, and does the container fall as a whole? | 3 secrets, 4 children |
| `controller` | is the identity kept, are proofs and answers those of the own call, does every use end? | 1 run after the other, 2 DIDs, 1 credential, 2 commands with ids of their own |
| `identity_race` | does an empty wallet get one DID? (violated) | 2 overlapping runs |
| `status_polling` | is what a sensor shows current, does a revocation come through and stay, does a new grant appear? | 1 entry, 1 flow, 1 record, 2 homes, clock 0..1 |
| `entity_collision` | do two entries never make the same unique id? (violated) | 2 entries, 1 flow, 2 homes |

Two of each actor are what a race needs, a third delivery or exchange is what a
repetition after a purge or a supersession needs. In `status_polling` entries do not
meet (a coordinator, its client and its sensors belong to one) and the properties
speak of one record at a time, so one of each suffices; `entity_collision` has two
entries, and the theorem on what is shown holds for any number. `issuance_processes` has two
exchanges, hence two grants, which is what supersession compares; the theorems
are for any number. A unit of time is the least
distance the code can tell apart; the retention and the timeouts are a few units,
so that the clock passes each of their edges. SYMMETRY is used only where no
liveness is checked. Runs in which all requests are used up say
`CHECK_DEADLOCK FALSE`: the model then has nothing left to do; supervisor and
controller never stop and are checked for deadlock.

Each property of a passing run has a mutant of the code in `PROJECT.json`, an
operator beside the original, under which TLC finds the property violated.

### Fairness

- issuance: `asyncio.Lock` is first come, first served, hence strong fairness
  of taking it; httpx gives each call to ACA-Py a timeout, hence weak fairness of
  an end of the call; none for the owner, crashes or the clock.
- gate: each await of a handler has a timeout and the event loop runs what is
  ready, hence weak fairness of the handler's own steps, of an end of each HTTP
  call and of the clock; none for wallets and for ACA-Py's verdict.
- supervisor: `main` sleeps and waits with timeouts only; a child that got SIGTERM
  ends. Nothing makes a healthy child end.
- owner actions: as for issuance, one process; none for the owner, for the wire, for
  the CLI or for Home Assistant's side.
- status polling: the coordinator's timer fires while its entry is loaded, and a
  refresh ends, with an answer or at the 10 s timeout. None for the gateway, which
  may never answer, nor for flows and setups.
- controller: httpx gives each call a timeout, so a run goes on or fails (weak
  fairness), and time passes. None for homes, the inbox and the wallet; at the head
  of the loop nothing but the loop itself is assumed to end a call.

### Disagreements between documents and code

- `issuance_race`: the changelog and the roadmap say that an equivalent active
  grant is rejected before ACA-Py mints. The lock belongs to one process, so two
  front ends can pass the check together and the second one mints all the same.
  The store supersedes the first grant, so `UniqueLive` holds. A late mint has the
  same effect within one process: httpx gives up, the lock is free, a retry records
  its grant, and then the first credential is minted. What does hold of one process is
  `CheckOutlivesAwait`, and of all of them `OneCredentialCounts`: the gate takes one.
- `identity_race`: the controller guide says that an empty wallet creates and saves
  one DID. Two overlapping runs on an empty wallet each create one; the one
  saved last stays. One run at a time keeps the promise (run `controller`, theorem
  `OneOwnDidCorrect`) when it is cut off between its steps; a creation that takes effect
  after its run has ended is left out.
- `entity_collision`: the integration guide says that entries are keyed by the issuer
  DID, so that entity ids do not collide. An entry keeps the unique id of the day it
  was configured while its sensors are named by the identity last polled. Once the
  DID behind it has changed, a second entry for the same gateway is accepted
  and both make the same sensors' unique ids. Home Assistant keeps one of them.

One more, of which no run is kept: the integration guide and the multi-home guide say
that no possession proof is made of a command. The code, the README and the
roadmap require one for every command (`DispatchHadFreshProof`).

## The proofs

Constants are arbitrary sets, under the assumptions named in the modules: markers
such as `Never` are no times, `Nobody` is no handler.

- `CredentialStoreProofs`: what the transactions do to types, to live rows and to
  what a connection may do; cited by the modules over the store. The refinement of
  `GrantLedger` is proved here once: `StoreActs` is what a step of any module may do to
  the table, `EndsOnly(S)` says that of the live rows those in `S` end and no row
  becomes another grant, each transaction has such an `S` (`RememberEnds`,
  `RevokeEnds`, `TickEnds`), and so is a step of the ledger (`ActsInLedger`). A module
  has only to show that its steps are `StoreActs` to have `KeepsGrants`.
  What the ledger promises is then read off the ledger alone: `LedgerIsUnique` and
  `LedgerNeverRevives` hold wherever it is kept, and `LedgerGivesAccess` says that
  `is_authorised` depends on nothing else.
- `OwnerIssuanceProofs`: `UniqueLive` is inductive with the types, as it speaks of
  each home apart and a change of home moves no row: recording revokes every live equivalent row of its home, and time
  only takes rows away. `RecordedWasMinted` needs `AcceptedWasMinted`.
  `OneCredentialCounts` follows from `UniqueLive`: a payload the gate accepts is that of
  a live row of the home served. `CheckOutlivesAwait` is proved from `ScopeHeld`, whoever is between check and record
  holds the lock and its scope is free, while the requests in hand are of one process
  (`OneIssuer`): as an assumption on `Processes` here, and for `OwnerActions` as what
  `CallOK` says, however many other processes revoke and crash. `LockIsOwned` is
  inductive with the types (`EndKeepsLocks`: ending requests frees their locks and no
  other).
- `CommandGateProofs`: the invariant is `TypeOK`, `PhaseOK` (what a handler at a
  given place has claimed, called and answered), `ClaimsRemembered` (a claim's row
  is in the table until the retention is over), `ClaimsApart` (two claims of one
  key are more than the retention apart) and `PresentedIsValid`.
  `AtMostOnce` follows, as a call implies a claim; so do `AnswerIsTruthful` and
  `OneVerdict`, as a verdict implies one too. `KeepsGrants` holds since handlers only
  read the store (`GateKeepsGrants`).
  `OpenProofsBounded` is proved from `SlotsHeld` (the row of a command at work within
  the proof timeout is a fresh pending row) and `QueueBounded` (there are at most
  `MaxPending` of them): handlers at work have different keys, so they are no more
  than the rows. That the table has no more such rows is proved outright
  (`TableBounded`: only a claim takes a slot, and one that is free); that every command
  at work has its row is proved under `[]NobodyOutlivesRetention`: a handler that is
  still at work after the retention of 24 h could have its id claimed again, and its
  `finish_command` would close the row of the other. The code's timeouts sum to a
  minute, but nothing in the model bounds the time between two steps.
- `CommandLedgerProofs`: `KeepsLedger`, a step or a stutter of the ledger for every
  action of the gate. Entries of different handlers differ, since two claims of
  one key are more than the retention apart (`ClaimsApart`) and no claim is later than
  now (`BeforeClaim`); so the ledger can be moved one handler at a time
  (`OneMoves`), and a claim is a `TakeOn` (`ClaimTakesOn`). A proven presentation
  of a live grant is a permission (`PresentedIsPermitted`).
- `SupervisorProofs`: `KeyKept` and `DidKept` (a value is on disk before a child is
  started with it, and what is on disk does not change), `ChildrenSeen` (a
  child is unseen by the handler only until its assignment).
- `OwnerActionsProofs`: `ActionsImplementIssuance`, every behaviour of the owner
  actions is one of `OwnerIssuance` (each of its steps is one of the routes' or none),
  which hands down that module's theorems. `CallInv` joins the types of the calls,
  `CallOK` (a request on the wire or at the gateway is the one last asked for) and
  `DidOK` (until ACA-Py has minted, a call has done nothing; from then to the
  record it has minted the exchange in hand). `RefusedDidNothing` follows. `OkIsTrue`
  needs the same of the answer on its way (`ToldOK`): it is made true by the record or
  the revocation (`ToldInductive`), and `TruthLasts` carries it over every other step up
  to the receipt and beyond, as rows stay, with their payload, and revoked ones stay revoked
  (`RowsStay`). `ActionsCheckOutlivesAwait` holds since all requests are the status app's.
- `StatusPollingProofs`: `ShownIsCurrent` is not inductive, for it says nothing of an
  answer on its way. `AnswersHold` says of it what `DataHolds` says of the data: it
  agrees with the store but for the records changed since. `RecordsStay` is what
  carries both over a step of the store: rows only come, and every row whose
  state changes is counted. `RevokedStaysRevoked` speaks of two answers and needs the
  store between them (`RevocationsHold`): what is shown or on its way as revoked is
  revoked on file, where it stays so (`RevokedForGood`), and the answer on its way was
  made later than the one shown, as a coordinator has one refresh under way at a time.
- `ControllerProofs`, for any number of overlapping runs: a call's exchanges are about
  its own command (`Aimed`), what it has picked stays fit to be presented until it is
  sent (`PickedFits`: wallets only gain credentials, exchanges keep their
  command and their eligible grants), and the inbox holds answers that homes gave
  (`InboxGiven`). `PresentsOwnGrant` and `AnswerWasGiven` follow. `OneOwnDid` and
  `SameIdentity` are proved for one run at a time, as an assumption on `Runs` (two
  runs break them, see `identity_race`), from `Settled`: the setting is the identity
  last told; a run that is about to create has seen an empty wallet and no setting,
  and nothing of the program's own is in the wallet then.

Checked by TLC only: the liveness properties `EveryRequestEnds`, `EveryCommandEnds`,
`EveryRunEnds`, `FailsTogether`, `RevocationShows` and `GrantAppears`. Liveness and
ENABLED are out of the prover's reach. Every other property of a passing run is a
theorem.

## Not modelled

- The grammar of messages, forms and invitations, the accepting of invitations, the
  exact hashes that tie a request to its presentation, TLS, rendering, translations and
  damaged rows: none of it depends on order, and unit tests reach it.
- `serve.py`: the watch loop of `addon.py` over two children that are known before the
  handler is installed; `Supervisor` covers the harder case.
- The sensors of connections and the devices that group the sensors: they take the
  way of credential sensors, but for `device_info`, which is read once; a credential
  whose connection is newer than that read has no device until a reload.
- The gate and the controller's inbox in one model. A redelivery of a command
  that has succeeded is denied with -32001 if the grant has gone meanwhile, and the inbox
  keeps the last answer: both halves are modelled (`Authorise`,
  `StoreResponse`), and no document says what the inbox should then hold.
- A wall clock that steps back: expiry, purge and the pending window are all read from
  it, and time only goes forwards here.
- Exceptions of the call to Home Assistant other than `httpx.HTTPError` (`InvalidURL`, from
  a malformed `HA_BASE_URL`): the handler ends through its `finally` block with no call made
  and no answer.
- Scripts and deployment files: no part of the running system.

## Plan

1. Done: `CredentialStore`, `OwnerIssuance`, `CommandGate`, `Supervisor`,
   `Controller`, their runs and theorems.
2. Done: `CommandLedger` and its refinement; the integration (`OwnerActions`,
   `StatusPolling`); `OpenProofsBounded`, `OneOwnDid`, `SameIdentity`.
3. `Home`: issuance, gate and controller composed over one store. Does the proof of
   an honest controller always suffice while its grant lives?
4. Done: `GrantLedger` and its refinement by every module over the store; `OneVerdict`,
   `RevokedStaysRevoked`, `LockIsOwned`, `TableBounded`.
5. An environment of `CommandGate` and `StatusPolling` as wide as `OwnerIssuance`, whose
   grants may be older than their record, with the proof that its steps are theirs.
6. A clock that steps back, as an action of its own, and which of the properties
   survive it.
