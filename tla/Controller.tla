------------------------------ MODULE Controller ------------------------------
(* The reference controller (controller.py): the commands "identity" and      *)
(* "call", the inbox that stores the answers of homes, and the wallet of the  *)
(* controller's own ACA-Py.                                                   *)
(*                                                                            *)
(* Every use of the CLI is a process, a run here; the inbox is another.  They *)
(* share one SQLite file and one ACA-Py, each HTTP call and each transaction  *)
(* is a step, and nothing spans two.                                          *)
(*                                                                            *)
(* Abstractions.  The action of a command goes with its entity.  A request id *)
(* is drawn once (uuid4).  ACA-Py has done what it was asked by the time the  *)
(* run that asked has ended, or never does it.  Invitations are left out.     *)
EXTENDS FiniteSets

CONSTANTS
  Runs,         \* overlapping uses of the CLI
  Dids,         \* did:keys
  Credentials,  \* grants as a wallet holds them, told apart by fingerprint
  SubjectOf,    \* the subject of each
  Entities,     \* what a command may address
  Reach,        \* the entities each credential's permissions match
  Connections,  \* connections to homes
  Ids,          \* request ids
  Command,      \* commands the owner of the controller may send
  PresExs,      \* presentation exchange ids
  Answer,       \* what homes answer: executed, denied, failed
  None          \* no DID, no command, no answer

ASSUME WalletAssumption ==
  /\ SubjectOf \in [Credentials -> Dids]
  /\ Reach \in [Credentials -> SUBSET Entities]
ASSUME CommandAssumption ==
  Command \subseteq [conn : Connections, id : Ids, entity : Entities]
ASSUME NoneAssumption == None \notin Dids \cup Answer \cup Command

VARIABLES
  wallet,     \* did:keys of the wallet
  saved,      \* the setting holder_did
  held,       \* credentials of the wallet
  requests,   \* presentation exchanges: command, eligible grants, what was sent
  inbox,      \* rpc_responses
  pc,         \* where each run is
  selector,   \* --did or CONTROLLER_HOLDER_DID of each run
  command,    \* the command of each call, None for "identity"
  expired,    \* the deadline of each call has passed
  todo,       \* matching exchanges each call has still to answer
  listed,     \* the wallet as each run has read it
  signer,     \* the DID each run is about to save, or has
  picked,     \* the credential each call is about to present
  created,    \* history: DIDs the program has had created
  identity,   \* history: what holder_did returned last
  drawn,      \* history: request ids drawn
  given,      \* history: answers homes have given
  printed     \* history: request id and answer each call ended with

walletVars == <<wallet, saved, created, identity>>
worldVars == <<held, requests, inbox, drawn, given>>
runVars ==
  <<pc, selector, command, expired, todo, listed, signer, picked, printed>>
vars == <<walletVars, worldVars, runVars>>

Presentation == [by : Dids, vc : Credentials]
PresRequest ==
  [command : Command, eligible : SUBSET Credentials,
   sent : Presentation \cup {None}]

HolderDid == {"list", "setting", "create", "save"}
Polling == {"loop", "records", "credentials", "present"}
PCs == {"idle", "post"} \cup HolderDid \cup Polling

TypeOK ==
  /\ wallet \subseteq Dids /\ created \subseteq Dids
  /\ {saved, identity} \subseteq Dids \cup {None}
  /\ held \subseteq Credentials /\ drawn \subseteq Ids
  /\ DOMAIN requests \subseteq PresExs
  /\ requests \in [DOMAIN requests -> PresRequest]
  /\ inbox \in [Ids -> Answer \cup {None}]
  /\ given \subseteq Ids \X Answer
  /\ pc \in [Runs -> PCs]
  /\ selector \in [Runs -> Dids \cup {None}]
  /\ command \in [Runs -> Command \cup {None}]
  /\ expired \in [Runs -> BOOLEAN]
  /\ todo \in [Runs -> SUBSET PresExs]
  /\ listed \in [Runs -> SUBSET Dids]
  /\ signer \in [Runs -> Dids \cup {None}]
  /\ picked \in [Runs -> (PresExs \X Credentials) \cup {None}]
  /\ printed \in [Runs -> (Ids \X Answer) \cup {None}]
  /\ \A r \in Runs :
       /\ pc[r] \in Polling \cup {"post"} => command[r] # None
       /\ pc[r] \in {"credentials", "present"} => signer[r] # None /\ todo[r] # {}
       /\ pc[r] = "present" =>
            picked[r] \in PresExs \X Credentials /\ picked[r][1] \in todo[r]

Init ==
  /\ wallet = {} /\ saved = None /\ created = {} /\ identity = None
  /\ held = {} /\ drawn = {} /\ given = {}
  /\ requests = [x \in {} |-> {}]
  /\ inbox = [i \in Ids |-> None]
  /\ pc = [r \in Runs |-> "idle"]
  /\ selector = [r \in Runs |-> None]
  /\ command = [r \in Runs |-> None]
  /\ expired = [r \in Runs |-> FALSE]
  /\ todo = [r \in Runs |-> {}]
  /\ listed = [r \in Runs |-> {}]
  /\ signer = [r \in Runs |-> None]
  /\ picked = [r \in Runs |-> None]
  /\ printed = [r \in Runs |-> None]

Go(r, label) == pc' = [pc EXCEPT ![r] = label]
Sign(r, d) == signer' = [signer EXCEPT ![r] = d]

(* A run starts, or ends: nothing it held stays.                              *)
Fresh(r, label, did, cmd) ==
  /\ Go(r, label)
  /\ Sign(r, None)
  /\ selector' = [selector EXCEPT ![r] = did]
  /\ command' = [command EXCEPT ![r] = cmd]
  /\ expired' = [expired EXCEPT ![r] = FALSE]
  /\ todo' = [todo EXCEPT ![r] = {}]
  /\ listed' = [listed EXCEPT ![r] = {}]
  /\ picked' = [picked EXCEPT ![r] = None]

Ends(r) == Fresh(r, "idle", None, None) /\ UNCHANGED printed

------------------------------------------------------------------------------
(* holder_did.                                                                *)

StartIdentity(r, did) ==
  /\ pc[r] = "idle"
  /\ Fresh(r, "list", did, None)
  /\ printed' = [printed EXCEPT ![r] = None]
  /\ UNCHANGED <<walletVars, worldVars>>

(* holder_did returns d: "identity" prints it, "call" goes on with it.        *)
Returns(r, d) ==
  /\ identity' = d
  /\ \/ command[r] = None /\ Ends(r)
     \/ /\ command[r] # None
        /\ Go(r, "credentials") /\ Sign(r, d)
        /\ listed' = [listed EXCEPT ![r] = {}]
        /\ UNCHANGED <<selector, command, expired, todo, picked, printed>>

(* GET /wallet/did.  A selector must be in the wallet, and will be saved.     *)
ListWallet(r) ==
  /\ pc[r] = "list"
  /\ \/ /\ selector[r] = None
        /\ Go(r, "setting") /\ UNCHANGED signer
        /\ listed' = [listed EXCEPT ![r] = wallet]
     \/ /\ selector[r] \in wallet
        /\ Go(r, "save") /\ Sign(r, selector[r])
        /\ UNCHANGED listed
  /\ UNCHANGED <<walletVars, worldVars, selector, command, expired, todo, picked, printed>>

(* The saved choice, if the wallet has it.                                    *)
UseSaved(r) ==
  /\ pc[r] = "setting"
  /\ saved \in listed[r]
  /\ Returns(r, saved)
  /\ UNCHANGED <<wallet, saved, created, worldVars>>

(* Mutant: the only DID of a wallet goes before the saved choice.             *)
AdoptAlways(r) ==
  /\ pc[r] = "setting"
  /\ \E d \in listed[r] : listed[r] = {d} /\ Go(r, "save") /\ Sign(r, d)
  /\ listed' = [listed EXCEPT ![r] = {}]
  /\ UNCHANGED <<walletVars, worldVars, selector, command, expired, todo, picked, printed>>

(* Without a saved choice the only DID of the wallet is adopted.              *)
Adopt(r) ==
  /\ pc[r] = "setting" /\ saved = None
  /\ \E d \in listed[r] : listed[r] = {d} /\ Go(r, "save") /\ Sign(r, d)
  /\ listed' = [listed EXCEPT ![r] = {}]
  /\ UNCHANGED <<walletVars, worldVars, selector, command, expired, todo, picked, printed>>

(* Mutant: an identity is created for every run that has none saved.          *)
CreateUnlessSaved(r) ==
  /\ pc[r] = "setting" /\ saved = None
  /\ Go(r, "create")
  /\ listed' = [listed EXCEPT ![r] = {}]
  /\ UNCHANGED <<walletVars, worldVars, selector, command, expired, todo, signer, picked, printed>>

(* An empty wallet, and nothing saved: an identity will be created.           *)
FindNone(r) ==
  /\ pc[r] = "setting" /\ saved = None /\ listed[r] = {}
  /\ Go(r, "create")
  /\ listed' = [listed EXCEPT ![r] = {}]
  /\ UNCHANGED <<walletVars, worldVars, selector, command, expired, todo, signer, picked, printed>>

(* POST /wallet/did/create: the new DID arrives, or its answer is lost.       *)
CreateDid(r, d) ==
  /\ pc[r] = "create"
  /\ d \notin created \cup wallet
  /\ wallet' = wallet \cup {d} /\ created' = created \cup {d}
  /\ \/ /\ Go(r, "save") /\ Sign(r, d)
        /\ UNCHANGED <<selector, command, expired, todo, listed, picked, printed>>
     \/ Ends(r)
  /\ UNCHANGED <<saved, identity, worldVars>>

SaveSetting(r) ==
  /\ pc[r] = "save"
  /\ saved' = signer[r]
  /\ Returns(r, signer[r])
  /\ UNCHANGED <<wallet, created, worldVars>>

------------------------------------------------------------------------------
(* call.                                                                      *)

StartCall(r, did, cmd) ==
  /\ pc[r] = "idle"
  /\ cmd.id \notin drawn
  /\ drawn' = drawn \cup {cmd.id}
  /\ Fresh(r, "post", did, cmd)
  /\ printed' = [printed EXCEPT ![r] = None]
  /\ UNCHANGED <<walletVars, held, requests, inbox, given>>

PostMessage(r) ==
  /\ pc[r] = "post"
  /\ Go(r, "loop")
  /\ UNCHANGED <<walletVars, worldVars, selector, command, expired, todo, listed, signer, picked, printed>>

(* Mutant: the inbox is read without the id.                                  *)
AnyResponse(r) == {inbox[i] : i \in Ids} \ {None}

(* The answer on file under the id of the call.                               *)
GetResponse(r) == {inbox[command[r].id]} \ {None}

(* The call ends with an answer.                                              *)
PrintAnswer(r) ==
  /\ pc[r] = "loop" /\ ~expired[r]
  /\ \E a \in GetResponse(r) : printed' = [printed EXCEPT ![r] = <<command[r].id, a>>]
  /\ Fresh(r, "idle", None, None)
  /\ UNCHANGED <<walletVars, worldVars>>

TimesOut(r) ==
  /\ pc[r] = "loop" /\ expired[r]
  /\ Ends(r)
  /\ UNCHANGED <<walletVars, worldVars>>

(* Mutant: the deadline is not looked at before the next poll.                *)
PollRegardless(r) ==
  /\ pc[r] = "loop"
  /\ GetResponse(r) = {}
  /\ Go(r, "records")
  /\ UNCHANGED <<walletVars, worldVars, selector, command, expired, todo, listed, signer, picked, printed>>

PollAgain(r) ==
  /\ pc[r] = "loop" /\ ~expired[r]
  /\ GetResponse(r) = {}
  /\ Go(r, "records")
  /\ UNCHANGED <<walletVars, worldVars, selector, command, expired, todo, listed, signer, picked, printed>>

(* The exchanges in S are still to be answered; without any, the run polls.   *)
Continue(r, S) ==
  /\ todo' = [todo EXCEPT ![r] = S]
  /\ Go(r, IF S = {} THEN "loop" ELSE "list")

(* Mutant: any request for a proof on the connection is answered.             *)
OnConnection(r) ==
  {x \in DOMAIN requests :
     /\ requests[x].sent = None
     /\ requests[x].command.conn = command[r].conn}

(* The requests for a proof of this very command that are still open.         *)
Matching(r) ==
  {x \in DOMAIN requests :
     requests[x].sent = None /\ requests[x].command = command[r]}

(* GET /present-proof-2.0/records.                                            *)
ReadRecords(r) ==
  /\ pc[r] = "records"
  /\ Continue(r, Matching(r))
  /\ UNCHANGED <<walletVars, worldVars, selector, command, expired, listed, signer, picked, printed>>

(* _select_proof_credential: eligible for the home, the signer's own, and     *)
(* good for the entity; ACA-Py's order says which of several.                 *)
Selectable(r, x) ==
  {c \in held \cap requests[x].eligible :
     SubjectOf[c] = signer[r] /\ command[r].entity \in Reach[c]}

(* Mutant: nothing found is presented like something found.                   *)
SelectAnyway(r, x) ==
  /\ pc[r] = "credentials" /\ x \in todo[r]
  /\ Go(r, "present")
  /\ \/ \E c \in Selectable(r, x) : picked' = [picked EXCEPT ![r] = <<x, c>>]
     \/ Selectable(r, x) = {} /\ UNCHANGED picked
  /\ UNCHANGED <<walletVars, worldVars, selector, command, expired, todo, listed, signer, printed>>

(* GET .../credentials and the selection, for one of the matching exchanges.  *)
SelectCredential(r, x) ==
  /\ pc[r] = "credentials" /\ x \in todo[r]
  /\ \/ /\ \E c \in Selectable(r, x) : picked' = [picked EXCEPT ![r] = <<x, c>>]
        /\ Go(r, "present")
        /\ UNCHANGED todo
     \/ /\ Selectable(r, x) = {}
        /\ Continue(r, todo[r] \ {x})
        /\ UNCHANGED picked
  /\ UNCHANGED <<walletVars, worldVars, selector, command, expired, listed, signer, printed>>

(* POST .../send-presentation.  ACA-Py takes it while the request is open;    *)
(* its answer arrives, or is lost and the run fails.                          *)
SendPresentation(r) ==
  /\ pc[r] = "present"
  /\ LET x == picked[r][1] IN
     /\ requests[x].sent = None
     /\ requests' = [requests EXCEPT ![x].sent = [by |-> signer[r], vc |-> picked[r][2]]]
     /\ \/ /\ Continue(r, todo[r] \ {x})
           /\ picked' = [picked EXCEPT ![r] = None]
           /\ UNCHANGED <<selector, command, expired, listed, signer, printed>>
        \/ Ends(r)
  /\ UNCHANGED <<walletVars, held, inbox, drawn, given>>

------------------------------------------------------------------------------
(* Failures, the inbox and the world.                                         *)

(* ACA-Py refuses or does not answer, a check of holder_did raises, SQLite    *)
(* stays locked, or the run is killed.                                        *)
RunFails(r) ==
  /\ pc[r] # "idle"
  /\ Ends(r)
  /\ UNCHANGED <<walletVars, worldVars>>

(* The deadline of a call passes.                                             *)
Expires(r) ==
  /\ pc[r] \in Polling \cup HolderDid
  /\ command[r] # None /\ ~expired[r]
  /\ expired' = [expired EXCEPT ![r] = TRUE]
  /\ UNCHANGED <<walletVars, worldVars, pc, selector, command, todo, listed, signer, picked, printed>>

(* The webhook of the inbox stores an answer: the first, a late or a repeated *)
(* one, in place of the one on file.                                          *)
StoreResponse(i, a) ==
  /\ <<i, a>> \in given
  /\ inbox' = [inbox EXCEPT ![i] = a]
  /\ UNCHANGED <<walletVars, held, requests, drawn, given, runVars>>

(* A home answers a command, perhaps a second time and otherwise.             *)
HomeAnswers(i, a) ==
  /\ i \in drawn
  /\ given' = given \cup {<<i, a>>}
  /\ UNCHANGED <<walletVars, held, requests, inbox, drawn, runVars>>

(* A home asks for a proof: of a command it got, or of one nobody sent.       *)
HomeAsks(x, cmd, eligible) ==
  /\ x \notin DOMAIN requests
  /\ requests' = [y \in DOMAIN requests \cup {x} |->
                    IF y = x
                    THEN [command |-> cmd, eligible |-> eligible, sent |-> None]
                    ELSE requests[y]]
  /\ UNCHANGED <<walletVars, held, inbox, drawn, given, runVars>>

(* The wallet stores a credential that a home issued.                         *)
WalletReceives(c) ==
  /\ held' = held \cup {c}
  /\ UNCHANGED <<walletVars, requests, inbox, drawn, given, runVars>>

(* A key that was not made by this program, or the loss of one.               *)
WalletGains(d) ==
  /\ d \notin wallet \cup created
  /\ wallet' = wallet \cup {d}
  /\ UNCHANGED <<saved, created, identity, worldVars, runVars>>

WalletLoses(d) ==
  /\ d \in wallet
  /\ wallet' = wallet \ {d}
  /\ UNCHANGED <<saved, created, identity, worldVars, runVars>>

Step(r) ==
  \/ ListWallet(r) \/ UseSaved(r) \/ Adopt(r) \/ FindNone(r) \/ SaveSetting(r)
  \/ \E d \in Dids : CreateDid(r, d)
  \/ PostMessage(r) \/ PrintAnswer(r) \/ TimesOut(r) \/ PollAgain(r)
  \/ ReadRecords(r) \/ SendPresentation(r)
  \/ \E x \in PresExs : SelectCredential(r, x)

Next ==
  \/ \E r \in Runs, d \in Dids \cup {None} :
       StartIdentity(r, d) \/ \E cmd \in Command : StartCall(r, d, cmd)
  \/ \E r \in Runs : Step(r) \/ RunFails(r) \/ Expires(r)
  \/ \E i \in Ids, a \in Answer : StoreResponse(i, a) \/ HomeAnswers(i, a)
  \/ \E x \in PresExs, cmd \in Command, S \in SUBSET Credentials :
       HomeAsks(x, cmd, S)
  \/ \E c \in Credentials : WalletReceives(c)
  \/ \E d \in Dids : WalletGains(d) \/ WalletLoses(d)

Spec == Init /\ [][Next]_vars

(* Fairness.  httpx gives every call a timeout, so a run goes on or fails;    *)
(* and time passes.  Nothing is assumed of homes or of the inbox.             *)
Fairness ==
  \A r \in Runs :
    /\ WF_vars(Step(r) \/ (pc[r] # "loop" /\ RunFails(r)))
    /\ WF_vars(Expires(r))

FairSpec == Spec /\ Fairness

------------------------------------------------------------------------------
(* Properties.                                                                *)

(* The holder identity stays what it was, over runs that fail anywhere, keys  *)
(* that come and go and lost answers, unless a run was told to change it      *)
(* (CONTROLLER.md: re-running the command returns the same identity).         *)
SameIdentity ==
  [][identity # None /\ identity' # identity =>
       \E r \in Runs : pc[r] = "save" /\ selector[r] = identity']_vars

(* An empty wallet gets one DID: the program never has two DIDs of its own    *)
(* making in the wallet.                                                      *)
OneOwnDid == \A d, e \in wallet \cap created : d = e

(* A presentation is sent only for the command of a call that is under way,   *)
(* with a credential the home asked for, that reaches the entity and belongs  *)
(* to the key that signs: what the gateway will check again.                  *)
PresentsOwnGrant ==
  [][\A x \in DOMAIN requests : requests[x].sent # requests'[x].sent =>
       LET p == requests'[x].sent IN
       /\ p.vc \in requests[x].eligible \cap held
       /\ SubjectOf[p.vc] = p.by
       /\ requests[x].command.entity \in Reach[p.vc]
       /\ \E r \in Runs : pc[r] = "present" /\ command[r] = requests[x].command]_vars

(* What a call prints, a home has answered to that very command: a late or    *)
(* repeated answer to another call is not taken for it.                       *)
AnswerWasGiven ==
  \A r \in Runs : printed[r] # None => printed[r] \in given

(* Every use of the CLI ends, whatever homes, wallet and inbox do.            *)
EveryRunEnds == \A r \in Runs : pc[r] # "idle" ~> pc[r] = "idle"

==============================================================================
