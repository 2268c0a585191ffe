--------------------------- MODULE ControllerProofs ---------------------------
(* Safety of the controller, for any number of runs that overlap: what it     *)
(* presents and what it prints belongs to the command of the call.            *)
EXTENDS Controller, TLAPS

(* A run about to save has a DID, and a call that looks for one has something *)
(* to present it for.                                                         *)
Purposeful ==
  \A r \in Runs :
    /\ pc[r] = "save" => signer[r] # None
    /\ pc[r] \in HolderDid /\ command[r] # None => todo[r] # {}

(* The exchanges a call has still to answer are about its own command.        *)
Aimed ==
  \A r \in Runs : \A x \in todo[r] :
    x \in DOMAIN requests /\ requests[x].command = command[r]

(* Credential c is fit to be presented by r in exchange x.                    *)
Fits(r, x, c) ==
  /\ c \in held \cap requests[x].eligible
  /\ SubjectOf[c] = signer[r]
  /\ command[r].entity \in Reach[c]

(* What a call has picked stays fit until it is sent.                         *)
PickedFits ==
  \A r \in Runs : pc[r] = "present" => Fits(r, picked[r][1], picked[r][2])

(* The inbox holds what homes have answered.                                  *)
InboxGiven == \A i \in Ids : inbox[i] # None => <<i, inbox[i]>> \in given

IInv ==
  TypeOK /\ Purposeful /\ Aimed /\ PickedFits /\ InboxGiven /\ AnswerWasGiven

LEMMA InitInv == Init => IInv
BY DEF Init, IInv, TypeOK, PCs, HolderDid, Polling, Purposeful, Aimed,
       PickedFits, InboxGiven, AnswerWasGiven

(* A run that starts or ends is well-typed: a call has its command.           *)
LEMMA FreshType ==
  ASSUME TypeOK, NEW r \in Runs, NEW label \in PCs,
         NEW did \in Dids \cup {None}, NEW cmd \in Command \cup {None},
         label \in Polling \cup {"post"} => label = "post" /\ cmd # None,
         Fresh(r, label, did, cmd)
  PROVE  /\ pc' \in [Runs -> PCs]
         /\ selector' \in [Runs -> Dids \cup {None}]
         /\ command' \in [Runs -> Command \cup {None}]
         /\ expired' \in [Runs -> BOOLEAN]
         /\ todo' \in [Runs -> SUBSET PresExs]
         /\ listed' \in [Runs -> SUBSET Dids]
         /\ signer' \in [Runs -> Dids \cup {None}]
         /\ picked' \in [Runs -> (PresExs \X Credentials) \cup {None}]
         /\ \A q \in Runs :
              /\ pc'[q] \in Polling \cup {"post"} => command'[q] # None
              /\ pc'[q] \in {"credentials", "present"} =>
                   signer'[q] # None /\ todo'[q] # {}
              /\ pc'[q] = "present" =>
                   picked'[q] \in PresExs \X Credentials /\ picked'[q][1] \in todo'[q]
BY DEF TypeOK, Fresh, Go, Sign, Polling

(* So is a run that holder_did returns to.                                    *)
LEMMA ReturnsType ==
  ASSUME TypeOK, Purposeful, NEW r \in Runs, pc[r] \in HolderDid,
         NEW d \in Dids, Returns(r, d),
         UNCHANGED <<wallet, created, worldVars>>, saved' \in Dids \cup {None}
  PROVE  TypeOK'
<1>1. CASE Ends(r)
  <2>1. Fresh(r, "idle", None, None) /\ printed' = printed
    BY <1>1 DEF Ends
  <2>2. "idle" \in PCs /\ "idle" \notin Polling \cup {"post"}
    BY DEF PCs, Polling
  <2>3. identity' \in Dids
    BY DEF Returns
  <2>4. QED
    BY <2>1, <2>2, <2>3, FreshType DEF TypeOK, worldVars
<1>2. CASE ~Ends(r)
  BY <1>2, NoneAssumption
     DEF Returns, TypeOK, Purposeful, Go, Sign, PCs, HolderDid, Polling, worldVars
<1>3. QED
  BY <1>1, <1>2

(* Continue leaves a run that polls again, or has something left to answer.   *)
LEMMA ContinueType ==
  ASSUME TypeOK, NEW r \in Runs, NEW S \in SUBSET PresExs, Continue(r, S)
  PROVE  /\ pc' \in [Runs -> PCs]
         /\ todo' \in [Runs -> SUBSET PresExs]
         /\ pc'[r] \in {"loop", "list"}
         /\ \A q \in Runs : q # r => pc'[q] = pc[q] /\ todo'[q] = todo[q]
BY DEF TypeOK, Continue, Go, PCs, HolderDid, Polling


LEMMA TypeInductive ==
  ASSUME TypeOK, Purposeful, [Next]_vars
  PROVE  TypeOK'
<1> USE DEF walletVars, worldVars, runVars
<1>1. ASSUME NEW r \in Runs, NEW d \in Dids \cup {None}, StartIdentity(r, d)
      PROVE  TypeOK'
  <2>1. "list" \in PCs /\ "list" \notin Polling \cup {"post"}
    BY DEF PCs, HolderDid, Polling
  <2>2. QED
    BY <1>1, <2>1, FreshType DEF StartIdentity, TypeOK
<1>2. ASSUME NEW r \in Runs, NEW d \in Dids \cup {None}, NEW cmd \in Command,
             StartCall(r, d, cmd)
      PROVE  TypeOK'
  <2>1. "post" \in PCs /\ cmd # None /\ cmd.id \in Ids
    BY NoneAssumption, CommandAssumption DEF PCs
  <2>2. QED
    BY <1>2, <2>1, FreshType DEF StartCall, TypeOK
<1>3. ASSUME NEW r \in Runs, ListWallet(r)
      PROVE  TypeOK'
  BY <1>3 DEF ListWallet, TypeOK, Go, Sign, PCs, HolderDid, Polling
<1>4. ASSUME NEW r \in Runs, UseSaved(r)
      PROVE  TypeOK'
  <2>1. saved \in Dids /\ pc[r] \in HolderDid
    BY <1>4 DEF UseSaved, TypeOK, HolderDid
  <2>2. QED
    BY <1>4, <2>1, ReturnsType DEF UseSaved, TypeOK
<1>5. ASSUME NEW r \in Runs, Adopt(r)
      PROVE  TypeOK'
  BY <1>5 DEF Adopt, TypeOK, Go, Sign, PCs, HolderDid, Polling
<1>6. ASSUME NEW r \in Runs, FindNone(r)
      PROVE  TypeOK'
  BY <1>6 DEF FindNone, TypeOK, Go, PCs, HolderDid, Polling
<1>7. ASSUME NEW r \in Runs, NEW d \in Dids, CreateDid(r, d)
      PROVE  TypeOK'
  <2>1. CASE Ends(r)
    <3>1. "idle" \in PCs /\ "idle" \notin Polling \cup {"post"}
      BY DEF PCs, Polling
    <3>2. QED
      BY <1>7, <2>1, <3>1, FreshType DEF CreateDid, Ends, TypeOK
  <2>2. CASE ~Ends(r)
    BY <1>7, <2>2 DEF CreateDid, TypeOK, Go, Sign, PCs, HolderDid, Polling
  <2>3. QED
    BY <2>1, <2>2
<1>8. ASSUME NEW r \in Runs, SaveSetting(r)
      PROVE  TypeOK'
  <2>1. signer[r] \in Dids /\ pc[r] \in HolderDid
    BY <1>8 DEF SaveSetting, TypeOK, Purposeful, HolderDid
  <2>2. QED
    BY <1>8, <2>1, ReturnsType DEF SaveSetting
<1>9. ASSUME NEW r \in Runs, PostMessage(r)
      PROVE  TypeOK'
  BY <1>9 DEF PostMessage, TypeOK, Go, PCs, Polling
<1>10. ASSUME NEW r \in Runs, PrintAnswer(r)
       PROVE  TypeOK'
  <2>1. "idle" \in PCs /\ "idle" \notin Polling \cup {"post"}
    BY DEF PCs, Polling
  <2>2. command[r].id \in Ids
    BY <1>10, CommandAssumption DEF PrintAnswer, TypeOK, Polling
  <2>3. printed' \in [Runs -> (Ids \X Answer) \cup {None}]
    BY <1>10, <2>2 DEF PrintAnswer, GetResponse, TypeOK
  <2>4. QED
    BY <1>10, <2>1, <2>3, FreshType DEF PrintAnswer, TypeOK
<1>11. ASSUME NEW r \in Runs, TimesOut(r) \/ RunFails(r)
       PROVE  TypeOK'
  <2>1. "idle" \in PCs /\ "idle" \notin Polling \cup {"post"}
    BY DEF PCs, Polling
  <2>2. QED
    <3>1. /\ Fresh(r, "idle", None, None) /\ printed' = printed
          /\ UNCHANGED <<walletVars, worldVars>>
      BY <1>11 DEF TimesOut, RunFails, Ends
    <3>2. QED
      BY <2>1, <3>1, FreshType DEF TypeOK
<1>12. ASSUME NEW r \in Runs, PollAgain(r)
       PROVE  TypeOK'
  BY <1>12 DEF PollAgain, TypeOK, Go, PCs, Polling
<1>13. ASSUME NEW r \in Runs, ReadRecords(r)
       PROVE  TypeOK'
  <2>1. Matching(r) \in SUBSET PresExs
    BY DEF Matching, TypeOK
  <2>2. QED
    BY <1>13, <2>1, ContinueType DEF ReadRecords, TypeOK, Polling
<1>14. ASSUME NEW r \in Runs, NEW x \in PresExs, SelectCredential(r, x)
       PROVE  TypeOK'
  <2>1. CASE Selectable(r, x) = {}
    <3>1. todo[r] \ {x} \in SUBSET PresExs
      BY DEF TypeOK
    <3>2. QED
      BY <1>14, <2>1, <3>1, ContinueType DEF SelectCredential, TypeOK, Polling
  <2>2. CASE Selectable(r, x) # {}
    <3>1. PICK c \in Selectable(r, x) : picked' = [picked EXCEPT ![r] = <<x, c>>]
      BY <1>14, <2>2 DEF SelectCredential
    <3>2. c \in Credentials
      BY <3>1 DEF Selectable, TypeOK
    <3>3. /\ picked' \in [Runs -> (PresExs \X Credentials) \cup {None}]
          /\ picked'[r] = <<x, c>>
          /\ \A q \in Runs : q # r => picked'[q] = picked[q]
      BY <3>1, <3>2 DEF TypeOK
    <3>4. /\ pc[r] = "credentials" /\ x \in todo[r] /\ pc' = [pc EXCEPT ![r] = "present"]
          /\ UNCHANGED <<walletVars, worldVars, selector, command, expired, todo,
                         listed, signer, printed>>
      BY <1>14, <2>2 DEF SelectCredential, Go
    <3>5. pc' \in [Runs -> PCs] /\ \A q \in Runs : q # r => pc'[q] = pc[q]
      BY <3>4 DEF TypeOK, PCs, Polling
    <3>6. \A q \in Runs :
            /\ pc'[q] \in Polling \cup {"post"} => command'[q] # None
            /\ pc'[q] \in {"credentials", "present"} => signer'[q] # None /\ todo'[q] # {}
            /\ pc'[q] = "present" =>
                 picked'[q] \in PresExs \X Credentials /\ picked'[q][1] \in todo'[q]
      <4>1. picked'[r] \in PresExs \X Credentials /\ picked'[r][1] = x
        BY <3>2, <3>3
      <4>2. /\ command'[r] # None /\ signer'[r] # None /\ x \in todo'[r]
            /\ command' = command /\ signer' = signer /\ todo' = todo
        BY <3>4 DEF TypeOK, Polling
      <4>3. ASSUME NEW q \in Runs, q # r
            PROVE  /\ pc'[q] = pc[q] /\ command'[q] = command[q] /\ signer'[q] = signer[q]
                   /\ todo'[q] = todo[q] /\ picked'[q] = picked[q]
        BY <3>3, <3>5, <4>2, <4>3
      <4>4. QED
        BY <4>1, <4>2, <4>3 DEF TypeOK
    <3>7. QED
      BY <3>3, <3>4, <3>5, <3>6 DEF TypeOK
  <2>3. QED
    BY <2>1, <2>2
<1>15. ASSUME NEW r \in Runs, SendPresentation(r)
       PROVE  TypeOK'
  <2> DEFINE x == picked[r][1]
  <2>1. /\ x \in PresExs /\ picked[r][2] \in Credentials /\ signer[r] \in Dids
        /\ command[r] # None
    BY <1>15 DEF SendPresentation, TypeOK, Polling
  <2>2. DOMAIN requests' = DOMAIN requests
    BY <1>15 DEF SendPresentation
  <2>3. requests' \in [DOMAIN requests -> PresRequest]
    <3> DEFINE p == [by |-> signer[r], vc |-> picked[r][2]]
    <3>1. p \in Presentation
      BY <2>1 DEF Presentation
    <3>2. \A q \in PresRequest : [q EXCEPT !.sent = p] \in PresRequest
      BY <3>1 DEF PresRequest
    <3>3. requests' = [requests EXCEPT ![x].sent = p]
      BY <1>15 DEF SendPresentation
    <3>4. requests \in [DOMAIN requests -> PresRequest]
      BY DEF TypeOK
    <3>5. QED
      BY <3>2, <3>3, <3>4
  <2>4. CASE Ends(r)
    <3>1. "idle" \in PCs /\ "idle" \notin Polling \cup {"post"}
      BY DEF PCs, Polling
    <3>2. QED
      BY <1>15, <2>2, <2>3, <2>4, <3>1, FreshType DEF SendPresentation, Ends, TypeOK
  <2>5. CASE ~Ends(r)
    <3>1. todo[r] \ {x} \in SUBSET PresExs
      BY DEF TypeOK
    <3>2. Continue(r, todo[r] \ {x}) /\ picked' = [picked EXCEPT ![r] = None]
      BY <1>15, <2>5 DEF SendPresentation
    <3>3. QED
      BY <1>15, <2>1, <2>2, <2>3, <2>5, <3>1, <3>2, ContinueType
         DEF SendPresentation, TypeOK, Polling
  <2>6. QED
    BY <2>4, <2>5
<1>16. ASSUME NEW r \in Runs, Expires(r)
       PROVE  TypeOK'
  BY <1>16 DEF Expires, TypeOK
<1>17. ASSUME NEW i \in Ids, NEW a \in Answer, StoreResponse(i, a) \/ HomeAnswers(i, a)
       PROVE  TypeOK'
  BY <1>17 DEF StoreResponse, HomeAnswers, TypeOK
<1>18. ASSUME NEW x \in PresExs, NEW cmd \in Command, NEW S \in SUBSET Credentials,
              HomeAsks(x, cmd, S)
       PROVE  TypeOK'
  <2>1. [command |-> cmd, eligible |-> S, sent |-> None] \in PresRequest
    BY DEF PresRequest
  <2>2. DOMAIN requests' = DOMAIN requests \cup {x}
    BY <1>18 DEF HomeAsks
  <2>3. requests' \in [DOMAIN requests' -> PresRequest]
    BY <1>18, <2>1, <2>2 DEF HomeAsks, TypeOK
  <2>4. QED
    BY <1>18, <2>2, <2>3 DEF HomeAsks, TypeOK
<1>19. ASSUME NEW c \in Credentials, WalletReceives(c)
       PROVE  TypeOK'
  BY <1>19 DEF WalletReceives, TypeOK
<1>20. ASSUME NEW d \in Dids, WalletGains(d) \/ WalletLoses(d)
       PROVE  TypeOK'
  BY <1>20 DEF WalletGains, WalletLoses, TypeOK
<1>21. CASE UNCHANGED vars
  BY <1>21 DEF vars, TypeOK
<1>22. QED
  BY <1>1, <1>2, <1>3, <1>4, <1>5, <1>6, <1>7, <1>8, <1>9, <1>10, <1>11, <1>12, <1>13,
     <1>14, <1>15, <1>16, <1>17, <1>18, <1>19, <1>20, <1>21, Zenon DEF Next, Step


(* A step of one run leaves the other runs, and the bounds of this one.       *)
Local(r) ==
  \A q \in Runs : q # r =>
    /\ pc'[q] = pc[q] /\ command'[q] = command[q] /\ todo'[q] = todo[q]
    /\ signer'[q] = signer[q] /\ picked'[q] = picked[q]

LEMMA FreshLocal ==
  ASSUME TypeOK, NEW r \in Runs, NEW label, NEW did, NEW cmd, Fresh(r, label, did, cmd)
  PROVE  /\ Local(r)
         /\ pc'[r] = label /\ command'[r] = cmd /\ todo'[r] = {}
         /\ signer'[r] = None
BY DEF TypeOK, Fresh, Go, Sign, Local

(* What a step does to the run that takes it: it ends, begins, or goes on     *)
(* with its command and exchanges of that command.                            *)
LEMMA StepKeeps ==
  ASSUME TypeOK, Purposeful, NEW r \in Runs,
         Step(r) \/ RunFails(r) \/ Expires(r)
         \/ \E d \in Dids \cup {None} :
              StartIdentity(r, d) \/ \E cmd \in Command : StartCall(r, d, cmd)
  PROVE  /\ Local(r)
         /\ pc'[r] = "save" => signer'[r] # None
         /\ pc'[r] \in HolderDid /\ command'[r] # None => todo'[r] # {}
         /\ \/ todo'[r] = {}
            \/ command'[r] = command[r] /\ todo'[r] \subseteq todo[r] \cup Matching(r)
<1> DEFINE Goal ==
      /\ Local(r)
      /\ pc'[r] = "save" => signer'[r] # None
      /\ pc'[r] \in HolderDid /\ command'[r] # None => todo'[r] # {}
      /\ \/ todo'[r] = {}
         \/ command'[r] = command[r] /\ todo'[r] \subseteq todo[r] \cup Matching(r)
<1>1. ASSUME Ends(r)
      PROVE  Goal
  BY <1>1, FreshLocal DEF Ends, HolderDid
<1>2. ASSUME NEW d \in Dids \cup {None}, StartIdentity(r, d)
      PROVE  Goal
  BY <1>2, FreshLocal DEF StartIdentity
<1>3. ASSUME NEW d \in Dids \cup {None}, NEW cmd \in Command, StartCall(r, d, cmd)
      PROVE  Goal
  BY <1>3, FreshLocal DEF StartCall, HolderDid
<1>4. ASSUME ListWallet(r) \/ Adopt(r) \/ FindNone(r)
      PROVE  Goal
  BY <1>4, NoneAssumption
     DEF ListWallet, Adopt, FindNone, Go, Sign, Local, TypeOK, Purposeful, HolderDid
<1>5. ASSUME NEW d, Returns(r, d)
      PROVE  Goal
  BY <1>1, <1>5 DEF Returns, Go, Sign, Local, TypeOK, HolderDid
<1>6. ASSUME NEW d \in Dids, CreateDid(r, d)
      PROVE  Goal
  BY <1>1, <1>6, NoneAssumption
     DEF CreateDid, Go, Sign, Local, TypeOK, Purposeful, HolderDid
<1>7. ASSUME PostMessage(r) \/ PollAgain(r) \/ Expires(r)
      PROVE  Goal
  BY <1>7 DEF PostMessage, PollAgain, Expires, Go, Local, TypeOK, Purposeful, HolderDid
<1>8. ASSUME PrintAnswer(r)
      PROVE  Goal
  BY <1>8, FreshLocal DEF PrintAnswer, HolderDid
<1>9. ASSUME ReadRecords(r)
      PROVE  Goal
  BY <1>9 DEF ReadRecords, Continue, Go, Local, TypeOK, HolderDid
<1>10. ASSUME NEW x \in PresExs, SelectCredential(r, x)
       PROVE  Goal
  BY <1>10 DEF SelectCredential, Continue, Go, Local, TypeOK, HolderDid
<1>11. ASSUME SendPresentation(r)
       PROVE  Goal
  BY <1>1, <1>11 DEF SendPresentation, Continue, Go, Local, TypeOK, HolderDid
<1>12. Goal
  BY <1>1, <1>2, <1>3, <1>4, <1>5, <1>6, <1>7, <1>8, <1>9, <1>10, <1>11
     DEF Step, UseSaved, SaveSetting, TimesOut, RunFails
<1>13. QED
  BY <1>12

(* An exchange stays about its command and its grants.                        *)
LEMMA RequestsKeep ==
  ASSUME TypeOK, [Next]_vars
  PROVE  \A x \in DOMAIN requests :
           /\ x \in DOMAIN requests'
           /\ requests'[x].command = requests[x].command
           /\ requests'[x].eligible = requests[x].eligible
<1> DEFINE Goal == \A x \in DOMAIN requests :
           /\ x \in DOMAIN requests'
           /\ requests'[x].command = requests[x].command
           /\ requests'[x].eligible = requests[x].eligible
<1>1. CASE UNCHANGED requests
  BY <1>1
<1>2. ASSUME NEW r \in Runs, SendPresentation(r)
      PROVE  Goal
  BY <1>2 DEF SendPresentation, TypeOK, PresRequest
<1>3. ASSUME NEW x \in PresExs, NEW cmd \in Command, NEW S \in SUBSET Credentials,
             HomeAsks(x, cmd, S)
      PROVE  Goal
  BY <1>3 DEF HomeAsks
<1>4. QED
  BY <1>1, <1>2, <1>3
     DEF Next, Step, StartIdentity, StartCall, ListWallet, UseSaved, Adopt, FindNone,
         SaveSetting, CreateDid, PostMessage, PrintAnswer, TimesOut, PollAgain,
         ReadRecords, SelectCredential, RunFails, Expires, StoreResponse, HomeAnswers,
         WalletReceives, WalletGains, WalletLoses, vars, worldVars

LEMMA AimedInductive ==
  ASSUME TypeOK, Purposeful, Aimed, [Next]_vars
  PROVE  Purposeful' /\ Aimed'
<1>1. CASE UNCHANGED runVars
  BY <1>1, RequestsKeep DEF runVars, Purposeful, Aimed
<1>2. ASSUME NEW r \in Runs,
             Step(r) \/ RunFails(r) \/ Expires(r)
             \/ \E d \in Dids \cup {None} :
                  StartIdentity(r, d) \/ \E cmd \in Command : StartCall(r, d, cmd)
      PROVE  Purposeful' /\ Aimed'
  <2>1. Purposeful'
    BY <1>2, StepKeeps DEF Purposeful, Local
  <2>2. Aimed'
    BY <1>2, StepKeeps, RequestsKeep DEF Aimed, Local, Matching
  <2>3. QED
    BY <2>1, <2>2
<1>3. QED
  BY <1>1, <1>2
     DEF Next, StoreResponse, HomeAnswers, HomeAsks, WalletReceives, WalletGains,
         WalletLoses, vars, runVars


(* Only a selection brings a run to "present", and nothing that a pick rests  *)
(* on is taken away: held grows, and an exchange keeps its command.           *)
LEMMA PickKeeps ==
  ASSUME TypeOK, [Next]_vars, NEW r \in Runs, pc'[r] = "present"
  PROVE  \/ /\ pc[r] = "present" /\ picked'[r] = picked[r]
            /\ signer'[r] = signer[r] /\ command'[r] = command[r]
         \/ \E x \in PresExs : SelectCredential(r, x) /\ Selectable(r, x) # {}
<1> DEFINE Goal ==
      \/ /\ pc[r] = "present" /\ picked'[r] = picked[r]
         /\ signer'[r] = signer[r] /\ command'[r] = command[r]
      \/ \E x \in PresExs : SelectCredential(r, x) /\ Selectable(r, x) # {}
<1>1. CASE UNCHANGED runVars
  BY <1>1 DEF runVars
<1>2. ASSUME NEW q \in Runs, q # r, Local(q)
      PROVE  Goal
  BY <1>2 DEF Local
<1>3. ASSUME NEW q \in Runs, Fresh(q, "idle", None, None)
      PROVE  Goal
  BY <1>2, <1>3, FreshLocal
<1>4. ASSUME NEW q \in Runs, NEW d \in Dids \cup {None},
             StartIdentity(q, d) \/ \E cmd \in Command : StartCall(q, d, cmd)
      PROVE  Goal
  BY <1>2, <1>4, FreshLocal DEF StartIdentity, StartCall
<1>5. ASSUME NEW q \in Runs, NEW d, Returns(q, d)
      PROVE  Goal
  BY <1>3, <1>5 DEF Returns, Go, Sign, TypeOK, Ends
<1>6. ASSUME NEW q \in Runs,
             ListWallet(q) \/ Adopt(q) \/ FindNone(q) \/ PostMessage(q)
             \/ PollAgain(q) \/ ReadRecords(q) \/ Expires(q)
      PROVE  Goal
  BY <1>6 DEF ListWallet, Adopt, FindNone, PostMessage, PollAgain, ReadRecords,
              Expires, Continue, Go, Sign, TypeOK
<1>7. ASSUME NEW q \in Runs, NEW d \in Dids, CreateDid(q, d)
      PROVE  Goal
  BY <1>3, <1>7 DEF CreateDid, Go, Sign, TypeOK, Ends
<1>8. ASSUME NEW q \in Runs, NEW x \in PresExs, SelectCredential(q, x)
      PROVE  Goal
  BY <1>8 DEF SelectCredential, Continue, Go, TypeOK
<1>9. ASSUME NEW q \in Runs, SendPresentation(q)
      PROVE  Goal
  BY <1>3, <1>9 DEF SendPresentation, Continue, Go, TypeOK, Ends
<1>10. ASSUME NEW q \in Runs, Step(q) \/ RunFails(q) \/ Expires(q)
       PROVE  Goal
  BY <1>3, <1>5, <1>6, <1>7, <1>8, <1>9, <1>10
     DEF Step, UseSaved, SaveSetting, TimesOut, RunFails, PrintAnswer, Ends
<1>11. QED
  BY <1>1, <1>4, <1>10
     DEF Next, StoreResponse, HomeAnswers, HomeAsks, WalletReceives, WalletGains,
         WalletLoses, vars, runVars

LEMMA HeldGrows ==
  ASSUME [Next]_vars
  PROVE  held \subseteq held'
<1>1. ASSUME NEW r \in Runs, Step(r) \/ RunFails(r) \/ Expires(r)
      PROVE  held' = held
  BY <1>1 DEF Step, ListWallet, UseSaved, Adopt, FindNone, SaveSetting, CreateDid,
              PostMessage, PrintAnswer, TimesOut, PollAgain, ReadRecords,
              SelectCredential, SendPresentation, RunFails, Expires, worldVars
<1>2. QED
  BY <1>1 DEF Next, StartIdentity, StartCall, StoreResponse, HomeAnswers, HomeAsks,
              WalletReceives, WalletGains, WalletLoses, vars, worldVars

LEMMA PickedInductive ==
  ASSUME IInv, [Next]_vars
  PROVE  PickedFits'
<1> SUFFICES ASSUME NEW r \in Runs, pc'[r] = "present"
             PROVE  Fits(r, picked[r][1], picked[r][2])'
  BY DEF PickedFits
<1> USE DEF IInv
<1>1. CASE /\ pc[r] = "present" /\ picked'[r] = picked[r]
           /\ signer'[r] = signer[r] /\ command'[r] = command[r]
  <2>1. picked[r][1] \in DOMAIN requests
    BY <1>1 DEF TypeOK, Aimed
  <2>2. Fits(r, picked[r][1], picked[r][2])
    BY <1>1 DEF PickedFits
  <2>3. QED
    BY <1>1, <2>1, <2>2, RequestsKeep, HeldGrows DEF Fits
<1>2. ASSUME NEW x \in PresExs, SelectCredential(r, x), Selectable(r, x) # {}
      PROVE  Fits(r, picked[r][1], picked[r][2])'
  <2>1. PICK c \in Selectable(r, x) : picked' = [picked EXCEPT ![r] = <<x, c>>]
    BY <1>2 DEF SelectCredential
  <2>2. picked'[r] = <<x, c>>
    BY <2>1 DEF TypeOK
  <2>3. QED
    BY <1>2, <2>1, <2>2 DEF SelectCredential, Selectable, Fits, worldVars
<1>3. QED
  BY <1>1, <1>2, PickKeeps

(* The inbox and a call's output hold only what homes have answered.          *)
LEMMA AnswersInductive ==
  ASSUME TypeOK, InboxGiven, AnswerWasGiven, [Next]_vars
  PROVE  InboxGiven' /\ AnswerWasGiven'
<1> USE DEF InboxGiven, AnswerWasGiven, TypeOK
<1>1. CASE UNCHANGED <<inbox, given, printed>>
  BY <1>1
<1>2. ASSUME NEW r \in Runs, NEW d \in Dids \cup {None},
             StartIdentity(r, d) \/ \E cmd \in Command : StartCall(r, d, cmd)
      PROVE  InboxGiven' /\ AnswerWasGiven'
  BY <1>2 DEF StartIdentity, StartCall, worldVars
<1>3. ASSUME NEW r \in Runs, PrintAnswer(r)
      PROVE  InboxGiven' /\ AnswerWasGiven'
  <2>1. command[r].id \in Ids
    BY <1>3, CommandAssumption DEF PrintAnswer, Polling
  <2>2. PICK a \in GetResponse(r) : printed' = [printed EXCEPT ![r] = <<command[r].id, a>>]
    BY <1>3 DEF PrintAnswer
  <2>3. <<command[r].id, a>> \in given
    BY <2>1, <2>2 DEF GetResponse
  <2>4. QED
    BY <1>3, <2>2, <2>3 DEF PrintAnswer, worldVars
<1>4. ASSUME NEW i \in Ids, NEW a \in Answer, StoreResponse(i, a) \/ HomeAnswers(i, a)
      PROVE  InboxGiven' /\ AnswerWasGiven'
  <2>1. CASE StoreResponse(i, a)
    BY <2>1 DEF StoreResponse, runVars
  <2>2. CASE HomeAnswers(i, a)
    BY <2>2 DEF HomeAnswers, runVars
  <2>3. QED
    BY <1>4, <2>1, <2>2
<1>5. ASSUME NEW r \in Runs, Step(r) \/ RunFails(r) \/ Expires(r)
      PROVE  PrintAnswer(r) \/ UNCHANGED <<inbox, given, printed>>
  BY <1>5 DEF Step, ListWallet, UseSaved, SaveSetting, Returns, Ends, Adopt, FindNone,
              CreateDid, PostMessage, TimesOut, PollAgain, ReadRecords,
              SelectCredential, SendPresentation, RunFails, Expires, worldVars
<1>6. QED
  BY <1>1, <1>2, <1>3, <1>4, <1>5
     DEF Next, HomeAsks, WalletReceives, WalletGains, WalletLoses, vars, worldVars,
         runVars

LEMMA InvInductive == IInv /\ [Next]_vars => IInv'
BY TypeInductive, AimedInductive, PickedInductive, AnswersInductive DEF IInv

THEOREM Invariance == Spec => []IInv
<1>1. Init => IInv
  BY InitInv
<1>2. IInv /\ [Next]_vars => IInv'
  BY InvInductive
<1>3. QED
  BY <1>1, <1>2, PTL DEF Spec

(* Every state of the controller is well-typed: a run that polls has a        *)
(* command, one that presents has a key and something it picked.              *)
THEOREM ControllerTypeCorrect == Spec => []TypeOK
<1>1. IInv => TypeOK
  BY DEF IInv
<1>2. QED
  BY <1>1, Invariance, PTL

(* What a call of the controller prints, a home has answered to that very     *)
(* command, however many calls overlap and however late answers come.         *)
THEOREM AnswerWasGivenCorrect == Spec => []AnswerWasGiven
<1>1. IInv => AnswerWasGiven
  BY DEF IInv
<1>2. QED
  BY <1>1, Invariance, PTL

LEMMA OnlySendingSends ==
  ASSUME TypeOK, [Next]_vars, NEW x \in DOMAIN requests,
         requests[x].sent # requests'[x].sent
  PROVE  \E r \in Runs : SendPresentation(r) /\ picked[r][1] = x
<1>1. ~UNCHANGED requests
  OBVIOUS
<1>2. ASSUME NEW y \in PresExs, NEW cmd \in Command, NEW S \in SUBSET Credentials,
             HomeAsks(y, cmd, S)
      PROVE  FALSE
  BY <1>2 DEF HomeAsks
<1>3. ASSUME NEW r \in Runs, SendPresentation(r)
      PROVE  picked[r][1] = x
  <2>1. PICK p : requests' = [requests EXCEPT ![picked[r][1]].sent = p]
    BY <1>3 DEF SendPresentation
  <2>2. QED
    BY <2>1
<1>4. QED
  BY <1>1, <1>2, <1>3
     DEF Next, Step, StartIdentity, StartCall, ListWallet, UseSaved, Adopt, FindNone,
         SaveSetting, CreateDid, PostMessage, PrintAnswer, TimesOut, PollAgain,
         ReadRecords, SelectCredential, RunFails, Expires, StoreResponse, HomeAnswers,
         WalletReceives, WalletGains, WalletLoses, vars, worldVars

(* A presentation is sent only for the command of a call under way, with a    *)
(* credential that the home asked for, that is the signer's own and that      *)
(* reaches the entity: for any number of calls, exchanges and credentials.    *)
THEOREM PresentsOwnGrantCorrect == Spec => PresentsOwnGrant
<1> DEFINE Fit(x) ==
      LET p == requests'[x].sent IN
      /\ p.vc \in requests[x].eligible \cap held
      /\ SubjectOf[p.vc] = p.by
      /\ requests[x].command.entity \in Reach[p.vc]
      /\ \E r \in Runs : pc[r] = "present" /\ command[r] = requests[x].command
<1>1. ASSUME IInv, [Next]_vars, NEW x \in DOMAIN requests,
             requests[x].sent # requests'[x].sent
      PROVE  Fit(x)
  <2>1. PICK r \in Runs : SendPresentation(r) /\ picked[r][1] = x
    BY <1>1, OnlySendingSends DEF IInv
  <2>2. requests'[x].sent = [by |-> signer[r], vc |-> picked[r][2]]
    BY <1>1, <2>1 DEF SendPresentation, IInv, TypeOK, PresRequest
  <2>3. pc[r] = "present" /\ Fits(r, x, picked[r][2])
    BY <1>1, <2>1 DEF SendPresentation, IInv, PickedFits
  <2>4. command[r] = requests[x].command
    BY <1>1, <2>1, <2>3 DEF IInv, TypeOK, Aimed
  <2>5. QED
    BY <2>2, <2>3, <2>4 DEF Fits
<1>2. IInv /\ [Next]_vars =>
        [\A x \in DOMAIN requests : requests[x].sent # requests'[x].sent => Fit(x)]_vars
  BY <1>1
<1>3. QED
  BY <1>2, Invariance, PTL DEF Spec, PresentsOwnGrant

------------------------------------------------------------------------------
(* One run at a time: the identity.                                           *)

(* The identity that was told is the one on file.  A run looks for its        *)
(* identity in a wallet that nobody else has DIDs created in, and saves one   *)
(* that it was told to, or the first.                                         *)
Settled ==
  /\ saved = identity
  /\ OneOwnDid
  /\ \A r \in Runs :
       /\ pc[r] = "setting" => selector[r] = None /\ wallet \cap created \subseteq listed[r]
       /\ pc[r] = "create" => selector[r] = None /\ wallet \cap created = {}
       /\ pc[r] \in {"create", "save"} /\ selector[r] = None => saved = None
       /\ pc[r] = "save" /\ selector[r] # None => signer[r] = selector[r]

(* Away from holder_did a run is of no concern to its identity.               *)
Elsewhere(r) == pc'[r] \notin {"setting", "create", "save"}

LEMMA SettledInductive ==
  ASSUME \A p, q \in Runs : p = q, TypeOK, Purposeful, Settled, [Next]_vars
  PROVE  Settled'
<1> USE DEF Settled, OneOwnDid
<1>1. pc \in [Runs -> PCs] /\ signer \in [Runs -> Dids \cup {None}]
      /\ selector \in [Runs -> Dids \cup {None}] /\ listed \in [Runs -> SUBSET Dids]
  BY DEF TypeOK
<1>2. ASSUME NEW r \in Runs, UNCHANGED walletVars, Elsewhere(r)
      PROVE  Settled'
  BY <1>2 DEF walletVars, Elsewhere
<1>3. ASSUME NEW r \in Runs, NEW d, Returns(r, d)
      PROVE  Elsewhere(r) /\ identity' = d
  BY <1>1, <1>3 DEF Returns, Ends, Fresh, Go, Elsewhere
<1>4. ASSUME NEW r \in Runs, NEW label \in {"idle", "list", "post"},
             NEW did, NEW cmd, Fresh(r, label, did, cmd)
      PROVE  Elsewhere(r)
  BY <1>1, <1>4 DEF Fresh, Go, Elsewhere
<1>5. ASSUME NEW r \in Runs,
             \/ \E d \in Dids \cup {None} :
                  StartIdentity(r, d) \/ \E cmd \in Command : StartCall(r, d, cmd)
             \/ RunFails(r) \/ TimesOut(r) \/ PrintAnswer(r)
      PROVE  Settled'
  BY <1>2, <1>4, <1>5 DEF StartIdentity, StartCall, RunFails, TimesOut, PrintAnswer, Ends
<1>6. ASSUME NEW r \in Runs, ListWallet(r)
      PROVE  Settled'
  <2>1. UNCHANGED <<walletVars, selector>>
    BY <1>6 DEF ListWallet
  <2>2. \/ selector[r] = None /\ pc'[r] = "setting" /\ listed'[r] = wallet
        \/ pc'[r] = "save" /\ signer'[r] = selector[r] /\ selector[r] \in Dids
    <3>1. CASE selector[r] = None /\ Go(r, "setting")
               /\ listed' = [listed EXCEPT ![r] = wallet]
      BY <1>1, <3>1 DEF Go
    <3>2. CASE selector[r] \in wallet /\ Go(r, "save") /\ Sign(r, selector[r])
      BY <1>1, <3>2 DEF Go, Sign, TypeOK
    <3>3. QED
      BY <1>6, <3>1, <3>2 DEF ListWallet
  <2>3. QED
    BY <2>1, <2>2, NoneAssumption DEF walletVars
<1>7. ASSUME NEW r \in Runs, UseSaved(r)
      PROVE  Settled'
  BY <1>1, <1>3, <1>7 DEF UseSaved, Elsewhere
<1>8. ASSUME NEW r \in Runs, Adopt(r)
      PROVE  Settled'
  BY <1>1, <1>8 DEF Adopt, Go, walletVars
<1>9. ASSUME NEW r \in Runs, FindNone(r)
      PROVE  Settled'
  BY <1>1, <1>9 DEF FindNone, Go, walletVars
<1>10. ASSUME NEW r \in Runs, NEW d \in Dids, CreateDid(r, d)
       PROVE  Settled'
  <2>1. wallet' \cap created' = {d} /\ UNCHANGED <<saved, identity>> /\ saved = None
    BY <1>10 DEF CreateDid
  <2>2. pc'[r] \in {"save", "idle"}
    BY <1>1, <1>10 DEF CreateDid, Ends, Fresh, Go
  <2>3. pc'[r] = "save" => selector'[r] = None
    BY <1>1, <1>10 DEF CreateDid, Ends, Fresh, Go
  <2>4. QED
    BY <2>1, <2>2, <2>3
<1>11. ASSUME NEW r \in Runs, SaveSetting(r)
       PROVE  Settled'
  <2>1. saved' = signer[r] /\ identity' = signer[r] /\ Elsewhere(r)
        /\ UNCHANGED <<wallet, created>>
    BY <1>3, <1>11 DEF SaveSetting
  <2>2. QED
    BY <2>1 DEF Elsewhere
<1>12. ASSUME NEW r \in Runs,
              PostMessage(r) \/ PollAgain(r) \/ ReadRecords(r)
                \/ \E x \in PresExs : SelectCredential(r, x)
       PROVE  Settled'
  <2>1. UNCHANGED walletVars /\ pc'[r] \notin {"setting", "create", "save"}
    BY <1>1, <1>12 DEF PostMessage, PollAgain, ReadRecords, SelectCredential, Continue, Go
  <2>2. QED
    BY <1>2, <2>1 DEF Elsewhere
<1>13. ASSUME NEW r \in Runs, SendPresentation(r)
       PROVE  Settled'
  <2>1. UNCHANGED walletVars /\ pc'[r] \notin {"setting", "create", "save"}
    BY <1>1, <1>13 DEF SendPresentation, Continue, Ends, Fresh, Go
  <2>2. QED
    BY <1>2, <2>1 DEF Elsewhere
<1>14. ASSUME UNCHANGED <<pc, selector, listed, signer, saved, identity, created>>,
              wallet' \cap created \subseteq wallet \cap created
       PROVE  Settled'
  BY <1>14
<1>15. ASSUME NEW d \in Dids, WalletGains(d) \/ WalletLoses(d)
       PROVE  Settled'
  BY <1>14, <1>15 DEF WalletGains, WalletLoses, runVars
<1>16. ASSUME \/ \E i \in Ids, a \in Answer : StoreResponse(i, a) \/ HomeAnswers(i, a)
              \/ \E x \in PresExs, cmd \in Command, S \in SUBSET Credentials :
                   HomeAsks(x, cmd, S)
              \/ \E c \in Credentials : WalletReceives(c)
              \/ \E r \in Runs : Expires(r)
              \/ UNCHANGED vars
       PROVE  Settled'
  BY <1>14, <1>16
     DEF StoreResponse, HomeAnswers, HomeAsks, WalletReceives, Expires, vars, runVars,
         walletVars
<1> HIDE DEF Settled, OneOwnDid
<1>17. ASSUME NEW r \in Runs, Step(r)
       PROVE  Settled'
  BY <1>5, <1>6, <1>7, <1>8, <1>9, <1>10, <1>11, <1>12, <1>13, <1>17, Zenon DEF Step
<1>18. QED
  BY <1>5, <1>15, <1>16, <1>17, Zenon DEF Next

LEMMA SettledInvariant ==
  ASSUME \A p, q \in Runs : p = q
  PROVE  Spec => [](IInv /\ Settled)
<1>1. Init => Settled
  BY DEF Init, Settled, OneOwnDid
<1>2. IInv /\ Settled /\ [Next]_vars => (IInv /\ Settled)'
  BY SettledInductive, InvInductive DEF IInv
<1>3. QED
  BY <1>1, <1>2, InitInv, PTL DEF Spec

(* With one run at a time, each cut off between any two steps, and whatever   *)
(* comes into the wallet or leaves it, the program never has two DIDs of its  *)
(* own making in the wallet (holder_did).                                     *)
THEOREM OneOwnDidCorrect ==
  ASSUME \A p, q \in Runs : p = q
  PROVE  Spec => []OneOwnDid
<1>1. Settled => OneOwnDid
  BY DEF Settled
<1>2. QED
  BY <1>1, SettledInvariant, PTL

(* With one run at a time the identity changes only when a run was told to    *)
(* change it (--did, CONTROLLER_HOLDER_DID).                                  *)
THEOREM SameIdentityCorrect ==
  ASSUME \A p, q \in Runs : p = q
  PROVE  Spec => SameIdentity
<1> DEFINE Told == identity # None /\ identity' # identity =>
                     \E r \in Runs : pc[r] = "save" /\ selector[r] = identity'
<1>1. ASSUME Settled, NEW r \in Runs, UseSaved(r)
      PROVE  Told
  BY <1>1 DEF Settled, UseSaved, Returns
<1>2. ASSUME Settled, NEW r \in Runs, SaveSetting(r)
      PROVE  Told
  BY <1>2 DEF Settled, SaveSetting, Returns
<1>3. ASSUME NEW r \in Runs, Step(r)
      PROVE  UseSaved(r) \/ SaveSetting(r) \/ UNCHANGED identity
  BY <1>3
     DEF Step, ListWallet, Adopt, FindNone, CreateDid, PostMessage, PrintAnswer, TimesOut,
         PollAgain, ReadRecords, SelectCredential, SendPresentation, walletVars
<1>4. ASSUME Next
      PROVE  (\E r \in Runs : UseSaved(r) \/ SaveSetting(r)) \/ UNCHANGED identity
  BY <1>3, <1>4
     DEF Next, StartIdentity, StartCall, RunFails, Expires, StoreResponse, HomeAnswers,
         HomeAsks, WalletReceives, WalletGains, WalletLoses, walletVars
<1>5. IInv /\ Settled /\ [Next]_vars => [Told]_vars
  <2> HIDE DEF Told
  <2>1. UNCHANGED identity => Told
    BY DEF Told
  <2>2. QED
    BY <1>1, <1>2, <1>4, <2>1
<1>6. QED
  BY <1>5, SettledInvariant, PTL DEF Spec, SameIdentity

=============================================================================
