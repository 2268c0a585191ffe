--------------------------- MODULE SupervisorProofs ---------------------------
(* Safety of the supervisor, over any number of boots, crashes and signals.   *)
EXTENDS Supervisor, TLAPS

LEMMA AppSteps ==
  /\ Popen["gateway"] = "popenGateway" /\ Assign["gateway"] = "setGateway"
  /\ Popen["status"] = "popenStatus" /\ Assign["status"] = "setStatus"
  /\ Popen["nginx"] = "popenNginx" /\ Assign["nginx"] = "setNginx"
  /\ Then["gateway"] = "popenStatus" /\ Then["status"] = "popenNginx"
  /\ Then["nginx"] = "watch"
BY DEF Popen, Assign, Then

IInv == TypeOK /\ KeyKept /\ DidKept /\ ChildrenSeen

LEMMA InitInv == Init => IInv
BY MarkersAssumption, AppSteps
   DEF Init, IInv, TypeOK, Early, Handled, Value, KeyKept, DidKept, HasDid,
       ChildrenSeen, NoOrphan, Alive, Children, Apps

(* A boot or a shutdown leaves the disk alone and no child.                   *)
LEMMA DownInv ==
  ASSUME IInv, Down, UNCHANGED <<keyFile, didFile, walletKey, drawn, issuers>>
  PROVE  IInv'
<1> USE DEF Down, IInv, Apps, Children
<1>1. TypeOK'
  BY DEF TypeOK, Early, Value
<1>2. KeyKept'
  BY DEF KeyKept, Alive
<1>3. DidKept' /\ ChildrenSeen'
  BY AppSteps DEF DidKept, HasDid, ChildrenSeen, NoOrphan
<1>4. QED
  BY <1>1, <1>2, <1>3

LEMMA TypeInductive ==
  ASSUME IInv, [Next]_vars
  PROVE  TypeOK'
<1> USE AppSteps, MarkersAssumption
    DEF IInv, TypeOK, Early, Handled, Value, Children, Apps, At, procVars, dataVars
<1>1. CASE Boot
  BY <1>1 DEF Boot
<1>15. CASE ReadKey
  BY <1>15 DEF ReadKey
<1>16. CASE \E s \in Secrets : WriteKey(s)
  BY <1>16 DEF WriteKey, Draw
<1>2. CASE PopenAcapy
  <2>1. proc' \in [Children -> {"none", "running", "stopping", "dead"}]
    BY <1>2 DEF PopenAcapy
  <2>2. known' \subseteq {c \in Children : proc'[c] # "none"}
    BY <1>2 DEF PopenAcapy
  <2>3. QED
    BY <1>2, <2>1, <2>2 DEF PopenAcapy
<1>11. CASE InstallHandler
  BY <1>11 DEF InstallHandler
<1>17. CASE AcapyProvisions
  BY <1>17 DEF AcapyProvisions
<1>18. CASE AdminReady
  BY <1>18 DEF AdminReady
<1>21. CASE BootFails
  BY <1>21 DEF BootFails
<1>3. CASE ReadDid
  BY <1>3 DEF ReadDid, DidKept
<1>19. CASE OpenDid
  BY <1>19 DEF OpenDid, DidKept
<1>22. CASE WriteDid
  BY <1>22 DEF WriteDid, DidKept
<1>20. CASE \E s \in Secrets : CreateDid(s)
  BY <1>20 DEF CreateDid, Draw, DidKept
<1>4. ASSUME NEW c \in Apps, PopenApp(c)
      PROVE  TypeOK'
  <2>1. did \in Value /\ (c = "gateway" => did = didFile)
    BY <1>4 DEF PopenApp, DidKept, HasDid
  <2>2. proc["gateway"] # "none" => did = didFile
    OBVIOUS
  <2>3. known' \subseteq {d \in Children : proc'[d] # "none"}
    BY <1>4 DEF PopenApp
  <2>4. QED
    BY <1>4, <2>1, <2>2, <2>3 DEF PopenApp
<1>10. ASSUME NEW c \in Apps, AssignApp(c)
       PROVE  TypeOK'
  <2>1. Then[c] \in {"watch"} \cup {Popen[d] : d \in Apps}
    <3>1. CASE c = "gateway"
      BY <3>1
    <3>2. CASE c = "status"
      BY <3>2
    <3>3. CASE c = "nginx"
      BY <3>3
    <3>4. QED
      BY <3>1, <3>2, <3>3
  <2>2. proc[c] # "none"
    BY <1>10 DEF AssignApp, ChildrenSeen
  <2>3. QED
    BY <1>10, <2>1, <2>2 DEF AssignApp
<1>5. CASE Watch
  BY <1>5 DEF Watch
<1>12. ASSUME StopProcesses
       PROVE  /\ proc' \in [Children -> {"none", "running", "stopping", "dead"}]
              /\ \A c \in Children : proc'[c] = "none" <=> proc[c] = "none"
  BY <1>12 DEF StopProcesses
<1>13. CASE Finally
  BY <1>12, <1>13 DEF Finally
<1>14. CASE Signal
  BY <1>12, <1>14 DEF Signal
<1>6. CASE Exit \/ Crash
  BY <1>6, DownInv DEF Exit, Crash
<1>7. ASSUME NEW c \in Children, ChildDies(c)
      PROVE  TypeOK'
  BY <1>7 DEF ChildDies, Alive
<1>8. CASE UNCHANGED vars
  BY <1>8 DEF vars
<1>9. QED
  BY <1>1, <1>2, <1>3, <1>4, <1>5, <1>6, <1>7, <1>8, <1>10,
     <1>11, <1>13, <1>14, <1>15, <1>16, <1>17, <1>18, <1>19, <1>20,
     <1>21, <1>22
     DEF Next, Main

(* What ACA-Py runs with is what is on disk.                                  *)
LEMMA KeyInductive ==
  ASSUME IInv, [Next]_vars
  PROVE  KeyKept'
<1> USE AppSteps, MarkersAssumption
    DEF IInv, KeyKept, Alive, Children, Apps, At, procVars, dataVars
<1>1. CASE \/ Boot \/ ReadKey \/ \E s \in Secrets : WriteKey(s)
  BY <1>1 DEF Boot, ReadKey, WriteKey
<1>2. CASE PopenAcapy \/ InstallHandler \/ AcapyProvisions \/ AdminReady \/ BootFails
  BY <1>2 DEF PopenAcapy, InstallHandler, AcapyProvisions, AdminReady, BootFails, TypeOK
<1>3. CASE ReadDid \/ OpenDid \/ WriteDid \/ \E s \in Secrets : CreateDid(s)
  BY <1>3 DEF ReadDid, OpenDid, WriteDid, CreateDid
<1>4. ASSUME NEW c \in Apps, PopenApp(c) \/ AssignApp(c)
      PROVE  KeyKept'
  BY <1>4 DEF PopenApp, AssignApp, TypeOK
<1>5. CASE Watch \/ Finally \/ Signal
  BY <1>5 DEF Watch, Finally, Signal, StopProcesses, TypeOK
<1>6. CASE Exit \/ Crash
  BY <1>6, DownInv DEF Exit, Crash
<1>7. ASSUME NEW c \in Children, ChildDies(c)
      PROVE  KeyKept'
  BY <1>7 DEF ChildDies, TypeOK
<1>8. CASE UNCHANGED vars
  BY <1>8 DEF vars
<1>9. QED
  BY <1>1, <1>2, <1>3, <1>4, <1>5, <1>6, <1>7, <1>8 DEF Next, Main

(* A gateway runs only with the DID on disk, and the file changes only while  *)
(* no gateway has ever run.                                                   *)
LEMMA DidInductive ==
  ASSUME IInv, [Next]_vars
  PROVE  DidKept'
<1> USE AppSteps, MarkersAssumption
    DEF IInv, DidKept, HasDid, Children, Apps, At, procVars, dataVars
<1>1. CASE \/ Boot \/ ReadKey \/ \E s \in Secrets : WriteKey(s)
  BY <1>1 DEF Boot, ReadKey, WriteKey
<1>2. CASE PopenAcapy \/ InstallHandler \/ AcapyProvisions \/ AdminReady \/ BootFails
  BY <1>2 DEF PopenAcapy, InstallHandler, AcapyProvisions, AdminReady, BootFails, TypeOK
<1>3. CASE ReadDid \/ OpenDid \/ WriteDid \/ \E s \in Secrets : CreateDid(s)
  BY <1>3 DEF ReadDid, OpenDid, WriteDid, CreateDid
<1>4. ASSUME NEW c \in Apps, PopenApp(c)
      PROVE  DidKept'
  BY <1>4 DEF PopenApp, TypeOK
<1>5. ASSUME NEW c \in Apps, AssignApp(c)
      PROVE  DidKept'
  BY <1>5 DEF AssignApp, TypeOK
<1>6. CASE Watch \/ Finally \/ Signal
  BY <1>6 DEF Watch, Finally, Signal, StopProcesses, TypeOK
<1>7. CASE Exit \/ Crash
  BY <1>7, DownInv DEF Exit, Crash
<1>8. ASSUME NEW c \in Children, ChildDies(c)
      PROVE  DidKept'
  BY <1>8 DEF ChildDies, Alive, TypeOK
<1>9. CASE UNCHANGED vars
  BY <1>9 DEF vars
<1>10. QED
  BY <1>1, <1>2, <1>3, <1>4, <1>5, <1>6, <1>7, <1>8, <1>9 DEF Next, Main

(* The handler and the finally block see every child that runs, but for the   *)
(* one whose Popen has just returned.                                         *)
LEMMA SeenInductive ==
  ASSUME IInv, [Next]_vars
  PROVE  ChildrenSeen'
<1> USE AppSteps
    DEF IInv, ChildrenSeen, NoOrphan, Children, Apps, At, procVars, dataVars
<1>1. CASE \/ Boot \/ ReadKey \/ \E s \in Secrets : WriteKey(s)
  BY <1>1 DEF Boot, ReadKey, WriteKey
<1>2. CASE PopenAcapy
  BY <1>2 DEF PopenAcapy, TypeOK
<1>11. CASE InstallHandler \/ AcapyProvisions \/ AdminReady
  BY <1>11 DEF InstallHandler, AcapyProvisions, AdminReady
<1>12. CASE BootFails
  <2>1. /\ \A d \in Apps : step # Assign[d]
        /\ step' = "finally" /\ proc' = proc /\ known' = known
    BY <1>12 DEF BootFails
  <2>2. QED
    BY <2>1
<1>3. CASE ReadDid \/ OpenDid \/ WriteDid \/ \E s \in Secrets : CreateDid(s)
  BY <1>3 DEF ReadDid, OpenDid, WriteDid, CreateDid
<1>4. ASSUME NEW c \in Apps, PopenApp(c)
      PROVE  ChildrenSeen'
  BY <1>4 DEF PopenApp, TypeOK
<1>5. ASSUME NEW c \in Apps, AssignApp(c)
      PROVE  ChildrenSeen'
  <2>1. /\ step = Assign[c] /\ step' = Then[c]
        /\ proc' = proc /\ known' = known \cup {c}
    BY <1>5 DEF AssignApp
  <2>2. step' # "exiting" /\ \A d \in Apps : step' # Assign[d]
    BY <2>1
  <2>3. ASSUME NEW d \in Children, proc[d] = "running" PROVE d \in known'
    <3>1. CASE d \in known
      BY <2>1, <3>1
    <3>2. CASE d \in Apps /\ step = Assign[d]
      <4>1. d = c
        BY <2>1, <3>2
      <4>2. QED
        BY <2>1, <4>1
    <3>3. QED
      BY <2>3, <3>1, <3>2
  <2>4. QED
    BY <2>1, <2>2, <2>3
<1>6. CASE Watch \/ Finally \/ Signal
  BY <1>6 DEF Watch, Finally, Signal, StopProcesses, TypeOK
<1>7. CASE Exit \/ Crash
  BY <1>7, DownInv DEF Exit, Crash
<1>8. ASSUME NEW c \in Children, ChildDies(c)
      PROVE  ChildrenSeen'
  BY <1>8 DEF ChildDies, TypeOK
<1>9. CASE UNCHANGED vars
  BY <1>9 DEF vars
<1>10. QED
  BY <1>1, <1>2, <1>3, <1>4, <1>5, <1>6, <1>7, <1>8, <1>9, <1>11,
     <1>12
     DEF Next, Main

LEMMA Invariance == Spec => []IInv
<1>1. IInv /\ [Next]_vars => IInv'
  BY TypeInductive, KeyInductive, DidInductive, SeenInductive DEF IInv
<1>2. QED
  BY InitInv, <1>1, PTL DEF Spec

(* The types hold, and the gateway app runs under the DID that is on disk.    *)
THEOREM SupervisorTypeCorrect == Spec => []TypeOK
<1>1. IInv => TypeOK
  BY DEF IInv
<1>2. QED
  BY <1>1, Invariance, PTL

(* Every gateway of a home is started under one issuer DID, whatever boots    *)
(* were cut off before.                                                       *)
THEOREM IssuerStableCorrect == Spec => []IssuerStable
<1>1. IInv => IssuerStable
  BY DEF IInv, DidKept, IssuerStable
<1>2. QED
  BY <1>1, Invariance, PTL

(* ACA-Py runs with the key its wallet was created with.                      *)
THEOREM WalletOpensCorrect == Spec => []WalletOpens
<1>1. IInv => WalletOpens
  BY DEF IInv, KeyKept, WalletOpens
<1>2. QED
  BY <1>1, Invariance, PTL

(* main returns with no child left that was not told to stop.                 *)
THEOREM NoOrphanCorrect == Spec => []NoOrphan
<1>1. IInv => NoOrphan
  BY DEF IInv, ChildrenSeen
<1>2. QED
  BY <1>1, Invariance, PTL

=============================================================================
