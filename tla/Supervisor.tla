------------------------------ MODULE Supervisor ------------------------------
(* main of addon.py: the process that starts ACA-Py, the gateway app, the     *)
(* status app and nginx in the Home Assistant app container, watches them and *)
(* takes them all down together; with the two files a home cannot lose, the   *)
(* wallet key and the issuer DID, which the first boot creates.               *)
(*                                                                            *)
(* The supervisor is process 1 of its container (config.yaml: init: false):   *)
(* a SIGTERM before the handler is installed is lost, and what still runs     *)
(* when it exits is killed by the kernel.                                     *)
(*                                                                            *)
(* Abstractions.  The options, the TLS files and the admin API key are fine,  *)
(* and Home Assistant may start a container that is off at any time.  A       *)
(* secret is a member of Secrets that is drawn once: their number bounds the  *)
(* crashes between two draws that a run sees.                                 *)

CONSTANTS
  Secrets,  \* random values: wallet keys and did:keys
  Absent,   \* no such file, or no such value yet
  Empty     \* a file that was opened for writing and not written

ASSUME MarkersAssumption ==
  Absent \notin Secrets /\ Empty \notin Secrets /\ Absent # Empty

VARIABLES
  step,       \* where main is
  proc,       \* each child: "none", "running", "stopping" or "dead"
  known,      \* children whose variable is assigned: stop_processes sees them
  signalled,  \* the signal handler has run since the boot
  key, did,   \* the wallet key and the issuer DID main holds
  keyFile,    \* /data/wallet-key
  didFile,    \* /data/issuer-did
  walletKey,  \* the key ACA-Py's wallet was created with
  drawn,      \* the secrets drawn so far
  issuers     \* history: every HOME_ISSUER_DID a gateway was started with

procVars == <<proc, known, signalled>>
dataVars == <<key, did, keyFile, didFile, walletKey, drawn, issuers>>
vars == <<step, procVars, dataVars>>

Apps == {"gateway", "status", "nginx"}
Children == Apps \cup {"acapy"}
Popen ==
  [gateway |-> "popenGateway", status |-> "popenStatus", nginx |-> "popenNginx"]
Assign ==
  [gateway |-> "setGateway", status |-> "setStatus", nginx |-> "setNginx"]
Then ==
  [gateway |-> "popenStatus", status |-> "popenNginx", nginx |-> "watch"]

(* The steps before the handler is installed, and those after.                *)
Early == {"off", "readKey", "writeKey", "popenAcapy", "install"}
Handled ==
  {"waitAdmin", "readDid", "createDid", "openDid", "writeDid", "watch",
   "finally", "exiting"}
  \cup {Popen[c] : c \in Apps} \cup {Assign[c] : c \in Apps}

Value == Secrets \cup {Absent, Empty}

TypeOK ==
  /\ step \in Early \cup Handled
  /\ proc \in [Children -> {"none", "running", "stopping", "dead"}]
  /\ known \subseteq {c \in Children : proc[c] # "none"}
  /\ signalled \in BOOLEAN
  /\ {key, did, keyFile, didFile, walletKey} \subseteq Value
  /\ drawn \subseteq Secrets /\ issuers \subseteq Value
  /\ proc["gateway"] # "none" => did = didFile

Down ==
  /\ step' = "off"
  /\ proc' = [c \in Children |-> "none"]
  /\ known' = {} /\ signalled' = FALSE
  /\ key' = Absent /\ did' = Absent

Init ==
  /\ step = "off"
  /\ proc = [c \in Children |-> "none"]
  /\ known = {} /\ signalled = FALSE
  /\ key = Absent /\ did = Absent
  /\ keyFile = Absent /\ didFile = Absent /\ walletKey = Absent
  /\ drawn = {} /\ issuers = {}

At(s, t) == step = s /\ step' = t
Alive(c) == proc[c] \in {"running", "stopping"}
Draw(s) == s \notin drawn /\ drawn' = drawn \cup {s}

------------------------------------------------------------------------------
(* The wallet key and ACA-Py.                                                 *)

Boot == At("off", "readKey") /\ UNCHANGED <<procVars, dataVars>>

(* persistent_secret reads the file, or opens it, which makes it empty, and   *)
(* writes it.                                                                 *)
ReadKey ==
  /\ IF keyFile = Absent
     THEN At("readKey", "writeKey") /\ keyFile' = Empty /\ UNCHANGED key
     ELSE At("readKey", "popenAcapy") /\ key' = keyFile /\ UNCHANGED keyFile
  /\ UNCHANGED <<procVars, did, didFile, walletKey, drawn, issuers>>

(* Mutant: the new key is used and not saved.                                 *)
WriteKeyUnsaved(s) ==
  /\ At("writeKey", "popenAcapy")
  /\ Draw(s)
  /\ key' = s
  /\ UNCHANGED <<procVars, did, keyFile, didFile, walletKey, issuers>>

WriteKey(s) ==
  /\ At("writeKey", "popenAcapy")
  /\ Draw(s)
  /\ key' = s /\ keyFile' = s
  /\ UNCHANGED <<procVars, did, didFile, walletKey, issuers>>

PopenAcapy ==
  /\ At("popenAcapy", "install")
  /\ proc' = [proc EXCEPT !["acapy"] = "running"]
  /\ known' = known \cup {"acapy"}
  /\ UNCHANGED <<signalled, dataVars>>

InstallHandler == At("install", "waitAdmin") /\ UNCHANGED <<procVars, dataVars>>

(* --auto-provision: ACA-Py creates the wallet with the first key it is given *)
(* and later opens it with no other.                                          *)
AcapyProvisions ==
  /\ Alive("acapy") /\ walletKey = Absent
  /\ walletKey' = key
  /\ UNCHANGED <<step, procVars, key, did, keyFile, didFile, drawn, issuers>>

AdminReady ==
  /\ At("waitAdmin", "readDid")
  /\ Alive("acapy") /\ walletKey = key
  /\ UNCHANGED <<procVars, dataVars>>

(* ACA-Py exited or is not ready after 60 attempts; the request for a DID     *)
(* failed; a Popen failed.                                                    *)
BootFails ==
  /\ step \in {"waitAdmin", "createDid"} \cup {Popen[c] : c \in Apps}
  /\ step' = "finally"
  /\ UNCHANGED <<procVars, dataVars>>

------------------------------------------------------------------------------
(* The issuer DID and the apps.                                               *)

ReadDid ==
  /\ IF didFile = Absent
     THEN At("readDid", "createDid") /\ UNCHANGED did
     ELSE At("readDid", "popenGateway") /\ did' = didFile
  /\ UNCHANGED <<procVars, key, keyFile, didFile, walletKey, drawn, issuers>>

(* Mutant: the apps are started with a DID that is not on disk.               *)
CreateDidUnsaved(s) ==
  /\ At("createDid", "popenGateway")
  /\ Alive("acapy")
  /\ Draw(s)
  /\ did' = s
  /\ UNCHANGED <<procVars, key, keyFile, didFile, walletKey, issuers>>

(* ACA-Py creates a did:key in the wallet; its answer arrives, or is lost.    *)
CreateDid(s) ==
  /\ Alive("acapy")
  /\ Draw(s)
  /\ \/ At("createDid", "openDid") /\ did' = s
     \/ At("createDid", "finally") /\ UNCHANGED did
  /\ UNCHANGED <<procVars, key, keyFile, didFile, walletKey, issuers>>

OpenDid ==
  /\ At("openDid", "writeDid")
  /\ didFile' = Empty
  /\ UNCHANGED <<procVars, key, did, keyFile, walletKey, drawn, issuers>>

WriteDid ==
  /\ At("writeDid", "popenGateway")
  /\ didFile' = did
  /\ UNCHANGED <<procVars, key, did, keyFile, walletKey, drawn, issuers>>

(* A child runs before its variable is assigned: a signal between the two     *)
(* does not reach it.                                                         *)
PopenApp(c) ==
  /\ At(Popen[c], Assign[c])
  /\ proc' = [proc EXCEPT ![c] = "running"]
  /\ issuers' = IF c = "gateway" THEN issuers \cup {did} ELSE issuers
  /\ UNCHANGED <<known, signalled, key, did, keyFile, didFile, walletKey, drawn>>

AssignApp(c) ==
  /\ At(Assign[c], Then[c])
  /\ known' = known \cup {c}
  /\ UNCHANGED <<proc, signalled, dataVars>>

------------------------------------------------------------------------------
(* The watch and the end.                                                     *)

(* Mutant: the loop goes on while any child lives.                            *)
WatchUntilAllDead ==
  /\ At("watch", "finally")
  /\ \A c \in Children : proc[c] = "dead"
  /\ UNCHANGED <<procVars, dataVars>>

Watch ==
  /\ At("watch", "finally")
  /\ \E c \in Children : proc[c] = "dead"
  /\ UNCHANGED <<procVars, dataVars>>

(* Mutant: the children are those of when the handler was defined.            *)
StopEarlyBound ==
  proc' = [c \in Children |->
             IF c = "acapy" /\ proc[c] = "running" THEN "stopping" ELSE proc[c]]

StopProcesses ==
  proc' = [c \in Children |->
             IF c \in known /\ proc[c] = "running" THEN "stopping" ELSE proc[c]]

(* The finally block terminates the children and waits for none of them.      *)
Finally ==
  /\ At("finally", "exiting")
  /\ StopProcesses
  /\ UNCHANGED <<known, signalled, dataVars>>

(* main returns: process 1 is gone and the container with it.                 *)
Exit ==
  /\ step = "exiting"
  /\ Down
  /\ UNCHANGED <<keyFile, didFile, walletKey, drawn, issuers>>

(* SIGTERM or SIGINT: the handler runs between two bytecodes of main, which   *)
(* then goes on.                                                              *)
Signal ==
  /\ step \in Handled
  /\ StopProcesses
  /\ signalled' = TRUE
  /\ UNCHANGED <<step, known, dataVars>>

ChildDies(c) ==
  /\ Alive(c)
  /\ proc' = [proc EXCEPT ![c] = "dead"]
  /\ UNCHANGED <<step, known, signalled, dataVars>>

(* The container is killed: the disk keeps what was written.                  *)
Crash ==
  /\ step # "off"
  /\ Down
  /\ UNCHANGED <<keyFile, didFile, walletKey, drawn, issuers>>

Main ==
  \/ ReadKey \/ PopenAcapy \/ InstallHandler
  \/ AdminReady \/ BootFails
  \/ ReadDid \/ OpenDid \/ WriteDid
  \/ \E c \in Apps : PopenApp(c) \/ AssignApp(c)
  \/ \E s \in Secrets : WriteKey(s) \/ CreateDid(s)
  \/ Watch \/ Finally \/ Exit

Next ==
  \/ Boot \/ Main \/ AcapyProvisions \/ Signal \/ Crash
  \/ \E c \in Children : ChildDies(c)

Spec == Init /\ [][Next]_vars

(* What the proofs of the safety properties rest on.                          *)

(* The steps at which main has the issuer DID it read or saved.               *)
HasDid == {"watch"} \cup {Popen[c] : c \in Apps} \cup {Assign[c] : c \in Apps}

(* A key is on disk before ACA-Py is started with it, and stays.              *)
KeyKept ==
  /\ key # Absent => key = keyFile
  /\ walletKey # Absent => keyFile = walletKey
  /\ step \in {"off", "readKey", "writeKey"} => key = Absent
  /\ step = "writeKey" => walletKey = Absent
  /\ step \notin {"off", "readKey", "writeKey"} => key # Absent
  /\ Alive("acapy") => key # Absent

(* A DID is on disk before a gateway is started with it, and stays.           *)
DidKept ==
  /\ issuers \subseteq {didFile}
  /\ proc["gateway"] # "none" => step \in HasDid \cup {"finally", "exiting"}
  /\ didFile = Absent \/ step = "writeDid" => issuers = {}
  /\ step \in {"createDid", "openDid"} => didFile = Absent
  /\ step \in {"openDid", "writeDid"} => did \in Secrets
  /\ step \in HasDid => did = didFile /\ did # Absent

(* When main is about to return, every child it started has had its SIGTERM   *)
(* or is dead, however far the boot got and whenever the signals came.        *)
NoOrphan == step = "exiting" => \A c \in Children : proc[c] # "running"

(* A child runs unseen only until its variable is assigned.                   *)
ChildrenSeen ==
  /\ \A c \in Children : proc[c] = "running" =>
       c \in known \/ (c \in Apps /\ step = Assign[c])
  /\ \A c \in Apps : step = Assign[c] => proc[c] # "none"
  /\ NoOrphan

(* Fairness.  main goes on: it sleeps, waits with a timeout or works; and a   *)
(* child that got SIGTERM ends.  Nothing makes a healthy child end.           *)
Fairness ==
  /\ WF_vars(Main)
  /\ \A c \in Children : WF_vars(proc[c] = "stopping" /\ ChildDies(c))

FairSpec == Spec /\ Fairness

------------------------------------------------------------------------------
(* Properties.                                                                *)

(* Every gateway of a home, across all boots and crashes, signs and expects   *)
(* credentials under one issuer DID: a second one would turn every grant on   *)
(* file invalid (issuer_did; _has_expected_scope of credentials.py).          *)
IssuerStable == \A a, b \in issuers : a = b

(* ACA-Py is never started with another key than the one its wallet was       *)
(* created with, wherever an earlier boot was cut off (persistent_secret).    *)
WalletOpens ==
  Alive("acapy") /\ walletKey # Absent => walletKey = key

(* A signal, or the end of any one child, takes the container down, also in   *)
(* the middle of the boot and between a Popen and its assignment.             *)
FailsTogether ==
  signalled \/ (\E c \in Children : proc[c] = "dead") ~> step = "off"

==============================================================================
