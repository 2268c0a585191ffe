------------------------ MODULE CredentialStoreProofs ------------------------
(* What each transaction of the credential store preserves, for every value   *)
(* of the constants.  The proofs about the modules that use the store cite    *)
(* these lemmas, one per transaction and fact.                                *)
EXTENDS CredentialStore, TLAPS

(* The credential a request builds has the type of a credential.              *)
LEMMA BuildCredentialType ==
  ASSUME StoreTypeOK, NEW s \in Scopes, NEW l \in Lifetimes
  PROVE  BuildCredential(s, l) \in Credential
<1>1. now \in Nat /\ home \in Homes
  BY DEF StoreTypeOK
<1>2. CASE l \in {Never, Malformed}
  BY <1>1, <1>2 DEF BuildCredential, Credential
<1>3. CASE l \notin {Never, Malformed}
  <2>1. l \in Nat
    BY <1>3, LifetimesAssumption
  <2>2. now + l \in Nat
    BY <1>1, <2>1
  <2>3. QED
    BY <1>1, <1>3, <2>2 DEF BuildCredential, Credential
<1>4. QED
  BY <1>2, <1>3

(* Recording a grant keeps the store well typed.                              *)
LEMMA RememberType ==
  ASSUME StoreTypeOK, NEW x \in Exchanges, NEW c \in Connections,
         NEW vc \in Credential, RememberIssuedSuperseding(x, c, vc),
         UNCHANGED <<now, home>>
  PROVE  StoreTypeOK'
<1> USE DEF RememberIssuedSuperseding
<1>1. DOMAIN grants' = DOMAIN grants \cup {x}
  OBVIOUS
<1>2. DOMAIN grants' \subseteq Exchanges
  BY <1>1 DEF StoreTypeOK
<1>3. ASSUME NEW y \in DOMAIN grants'
      PROVE  grants'[y] \in Grant
  <2>1. CASE y = x
    <3>1. grants'[y] = [conn |-> c, vc |-> vc, revoked |-> FALSE]
      BY <1>1, <2>1
    <3>2. [conn |-> c, vc |-> vc, revoked |-> FALSE] \in Grant
      BY Zenon DEF Grant
    <3>3. QED
      BY <3>1, <3>2, Zenon
  <2>2. CASE y # x
    <3>1. y \in DOMAIN grants /\ grants[y] \in Grant
      BY <1>1, <2>2 DEF StoreTypeOK
    <3>2. Revoked(grants[y]) \in Grant
        BY <3>1 DEF Grant, Revoked
    <3>3. QED
      BY <1>1, <2>2, <3>1, <3>2
  <2>3. QED
    BY <2>1, <2>2
<1>4. grants' \in [DOMAIN grants' -> Grant]
  BY <1>3
<1>5. QED
  BY <1>2, <1>4 DEF StoreTypeOK

(* Revoking rows keeps the store well typed.                                  *)
LEMMA RevokeType ==
  ASSUME StoreTypeOK, NEW rows, RevokeRows(rows), UNCHANGED <<now, home>>
  PROVE  StoreTypeOK' /\ DOMAIN grants' = DOMAIN grants
<1> USE DEF RevokeRows
<1>1. DOMAIN grants' = DOMAIN grants
  OBVIOUS
<1>2. ASSUME NEW y \in DOMAIN grants'
      PROVE  grants'[y] \in Grant
  <2>1. y \in DOMAIN grants /\ grants[y] \in Grant
    BY <1>1 DEF StoreTypeOK
  <2>2. Revoked(grants[y]) \in Grant
    BY <2>1 DEF Grant, Revoked
  <2>3. QED
    BY <2>1, <2>2
<1>3. grants' \in [DOMAIN grants' -> Grant]
  BY <1>2
<1>4. QED
  BY <1>1, <1>3 DEF StoreTypeOK

(* A credential that has expired stays so while the clock runs forward.       *)
LEMMA ExpiryIsFinal ==
  ASSUME now \in Nat, NEW vc \in Credential, IsExpired(vc),
         now' \in {now, now + 1}
  PROVE  IsExpired(vc)'
<1>1. vc.expires \in Nat \/ vc.expires = Malformed \/ vc.expires = Never
  BY DEF Credential
<1>2. QED
  BY <1>1 DEF IsExpired

------------------------------------------------------------------------------
(* Rows that are not live stay dead, and stay on file.                        *)

LEMMA RememberKeepsDead ==
  ASSUME StoreTypeOK, NEW x \in Exchanges, NEW c \in Connections,
         NEW vc \in Credential, RememberIssuedSuperseding(x, c, vc),
         UNCHANGED <<now, home>>, NEW y \in DOMAIN grants, ~Live(y)
  PROVE  y \in DOMAIN grants' /\ ~Live(y)'
<1>1. y # x /\ y \in DOMAIN grants'
  BY DEF RememberIssuedSuperseding
<1>2. grants[y] \in Grant
  BY DEF StoreTypeOK
<1>3. grants'[y].vc = grants[y].vc
      /\ (grants[y].revoked => grants'[y].revoked)
  BY <1>1, <1>2 DEF RememberIssuedSuperseding, Grant, Revoked
<1>4. QED
  BY <1>1, <1>3 DEF Live, IsExpired

LEMMA RevokeKeepsDead ==
  ASSUME StoreTypeOK, NEW rows, RevokeRows(rows), UNCHANGED <<now, home>>,
         NEW y \in DOMAIN grants, ~Live(y)
  PROVE  y \in DOMAIN grants' /\ ~Live(y)'
<1>1. y \in DOMAIN grants' /\ grants[y] \in Grant
  BY DEF RevokeRows, StoreTypeOK
<1>2. grants'[y].vc = grants[y].vc
      /\ (grants[y].revoked => grants'[y].revoked)
  BY <1>1 DEF RevokeRows, Grant, Revoked
<1>3. QED
  BY <1>1, <1>2 DEF Live, IsExpired

LEMMA TimeKeepsDead ==
  ASSUME StoreTypeOK, grants' = grants, now' \in {now, now + 1},
         NEW y \in DOMAIN grants, ~Live(y)
  PROVE  y \in DOMAIN grants' /\ ~Live(y)'
<1>1. grants[y] \in Grant /\ now \in Nat
  BY DEF StoreTypeOK
<1>2. grants[y].vc \in Credential
  BY <1>1 DEF Grant
<1>3. CASE grants[y].revoked
  BY <1>3 DEF Live
<1>4. CASE IsExpired(grants[y].vc)
  <2>1. IsExpired(grants[y].vc)'
    BY <1>1, <1>2, <1>4, ExpiryIsFinal
  <2>2. QED
    BY <2>1 DEF Live
<1>5. QED
  BY <1>3, <1>4 DEF Live

------------------------------------------------------------------------------
(* At most one live grant per connection, scope and home.                     *)

(* The new row is live and so may be rows of other scopes; every live row the *)
(* new one equals in connection, scope and home has just been superseded.     *)
LEMMA RememberKeepsUnique ==
  ASSUME StoreTypeOK, UniqueLive, NEW x \in Exchanges, NEW c \in Connections,
         NEW vc \in Credential, RememberIssuedSuperseding(x, c, vc),
         UNCHANGED <<now, home>>
  PROVE  UniqueLive'
<1> USE DEF RememberIssuedSuperseding
<1>1. DOMAIN grants' = DOMAIN grants \cup {x} /\ x \notin DOMAIN grants
  OBVIOUS
<1>2. grants'[x] = [conn |-> c, vc |-> vc, revoked |-> FALSE]
  BY <1>1
<1>3. ASSUME NEW y \in DOMAIN grants, Live(y)'
      PROVE  /\ Live(y)
             /\ grants'[y] = grants[y]
             /\ y \notin Superseded(c, vc)
  <2>1. y # x /\ grants[y] \in Grant
    BY <1>1 DEF StoreTypeOK
  <2>2. Live(y)
    BY <1>3, RememberKeepsDead
  <2>3. y \notin Superseded(c, vc)
    <3>1. SUFFICES ASSUME y \in Superseded(c, vc) PROVE FALSE
      OBVIOUS
    <3>2. grants'[y].revoked
      BY <1>1, <2>1, <3>1 DEF Grant, Revoked
    <3>3. QED
      BY <1>3, <3>2 DEF Live
  <2>4. grants'[y] = grants[y]
    BY <1>1, <2>1, <2>3
  <2>5. QED
    BY <2>2, <2>3, <2>4
<1>4. ASSUME NEW y \in DOMAIN grants, Live(y)',
             grants'[y].conn = c, grants'[y].vc.scope = vc.scope,
             grants'[y].vc.home = vc.home
      PROVE  FALSE
  <2>1. Live(y) /\ grants'[y] = grants[y] /\ y \notin Superseded(c, vc)
    BY <1>3, <1>4
  <2>2. HasExpectedScope(grants[y].vc)
    BY <1>4, <2>1 DEF HasExpectedScope
  <2>3. y \in Superseded(c, vc)
    BY <1>4, <2>1, <2>2 DEF Superseded, IssuedForConnection, Live
  <2>4. QED
    BY <2>1, <2>3
<1>5. ASSUME NEW y \in DOMAIN grants', NEW z \in DOMAIN grants',
             Live(y)', Live(z)', grants'[y].conn = grants'[z].conn,
             grants'[y].vc.scope = grants'[z].vc.scope,
             grants'[y].vc.home = grants'[z].vc.home
      PROVE  y = z
  <2>1. CASE y = x /\ z # x
    BY <1>1, <1>2, <1>4, <1>5, <2>1
  <2>2. CASE z = x /\ y # x
    BY <1>1, <1>2, <1>4, <1>5, <2>2
  <2>3. CASE y # x /\ z # x
    <3>1. /\ y \in DOMAIN grants /\ Live(y) /\ grants'[y] = grants[y]
          /\ z \in DOMAIN grants /\ Live(z) /\ grants'[z] = grants[z]
      BY <1>1, <1>3, <1>5, <2>3
    <3>2. /\ grants[y].conn = grants[z].conn
          /\ grants[y].vc.scope = grants[z].vc.scope
          /\ grants[y].vc.home = grants[z].vc.home
      BY <1>5, <3>1
    <3>3. QED
      BY <3>1, <3>2 DEF UniqueLive
  <2>4. QED
    BY <2>1, <2>2, <2>3
<1>6. QED
  BY ONLY <1>5 DEF UniqueLive, Live, IsExpired

LEMMA RevokeKeepsUnique ==
  ASSUME StoreTypeOK, UniqueLive, NEW rows, RevokeRows(rows),
         UNCHANGED <<now, home>>
  PROVE  UniqueLive'
<1>1. ASSUME NEW y \in DOMAIN grants', Live(y)'
      PROVE  y \in DOMAIN grants /\ Live(y) /\ grants'[y] = grants[y]
  <2>1. y \in DOMAIN grants /\ grants[y] \in Grant
    BY DEF RevokeRows, StoreTypeOK
  <2>2. Live(y)
    BY <1>1, <2>1, RevokeKeepsDead
  <2>3. y \notin rows
    <3>1. SUFFICES ASSUME y \in rows PROVE FALSE
      OBVIOUS
    <3>2. grants'[y].revoked
      BY <2>1, <3>1 DEF RevokeRows, Grant, Revoked
    <3>3. QED
      BY <1>1, <3>2 DEF Live
  <2>4. QED
    BY <2>1, <2>2, <2>3 DEF RevokeRows
<1>2. QED
  BY <1>1 DEF UniqueLive

LEMMA TimeKeepsUnique ==
  ASSUME StoreTypeOK, UniqueLive, grants' = grants, now' \in {now, now + 1}
  PROVE  UniqueLive'
<1>1. ASSUME NEW y \in DOMAIN grants', Live(y)'
      PROVE  y \in DOMAIN grants /\ Live(y) /\ grants'[y] = grants[y]
  BY <1>1, TimeKeepsDead
<1>2. QED
  BY <1>1 DEF UniqueLive

------------------------------------------------------------------------------
(* The store as the ledger of the grants that are good.                       *)

(* What the processes of a home may do to the store in one step.              *)
StoreActs ==
  \/ /\ \/ \E x \in Exchanges, c \in Connections, vc \in Credential :
             RememberIssuedSuperseding(x, c, vc)
        \/ \E x \in Exchanges : RevokeCredential(x)
        \/ \E c \in Connections : RevokeConnection(c)
     /\ UNCHANGED <<now, home>>
  \/ Tick /\ UNCHANGED <<grants, home>>
  \/ UNCHANGED <<grants, now>>

(* The rows on file stay the same grants, and of the live ones those in S end. *)
EndsOnly(S) ==
  \A y \in DOMAIN grants :
    /\ y \in DOMAIN grants'
    /\ LedgerEntry(y)' = LedgerEntry(y)
    /\ Live(y)' <=> Live(y) /\ y \notin S

LEMMA RememberEnds ==
  ASSUME StoreTypeOK, NEW x \in Exchanges, NEW c \in Connections,
         NEW vc \in Credential, RememberIssuedSuperseding(x, c, vc),
         UNCHANGED <<now, home>>
  PROVE  /\ EndsOnly(Superseded(c, vc))
         /\ DOMAIN grants' = DOMAIN grants \cup {x} /\ x \notin DOMAIN grants
         /\ grants'[x] = [conn |-> c, vc |-> vc, revoked |-> FALSE]
         /\ Live(x)' <=> ~IsExpired(vc)
<1> USE DEF RememberIssuedSuperseding
<1>1. /\ DOMAIN grants' = DOMAIN grants \cup {x} /\ x \notin DOMAIN grants
      /\ grants'[x] = [conn |-> c, vc |-> vc, revoked |-> FALSE]
  OBVIOUS
<1>2. ASSUME NEW y \in DOMAIN grants
      PROVE  /\ y \in DOMAIN grants'
             /\ grants'[y].conn = grants[y].conn /\ grants'[y].vc = grants[y].vc
             /\ grants'[y].revoked <=> grants[y].revoked \/ y \in Superseded(c, vc)
  <2>1. y # x /\ y \in DOMAIN grants' /\ grants[y] \in Grant
    BY <1>1 DEF StoreTypeOK
  <2>2. CASE y \in Superseded(c, vc)
    BY <1>1, <2>1, <2>2 DEF Revoked
  <2>3. CASE y \notin Superseded(c, vc)
    <3>1. grants'[y] = grants[y]
      BY <1>1, <2>1, <2>3
    <3>2. QED
      BY <2>1, <2>3, <3>1
  <2>4. QED
    BY <2>2, <2>3
<1>3. ASSUME NEW v PROVE IsExpired(v)' <=> IsExpired(v)
  BY DEF IsExpired
<1>4. EndsOnly(Superseded(c, vc))
  BY <1>2, <1>3 DEF EndsOnly, Live, LedgerEntry
<1>5. Live(x)' <=> ~IsExpired(vc)
  BY <1>1, <1>3 DEF Live
<1>6. QED
  BY <1>1, <1>4, <1>5

LEMMA RevokeEnds ==
  ASSUME StoreTypeOK, NEW rows, RevokeRows(rows), UNCHANGED <<now, home>>
  PROVE  EndsOnly(rows) /\ DOMAIN grants' = DOMAIN grants
<1>1. ASSUME NEW y \in DOMAIN grants
      PROVE  /\ y \in DOMAIN grants'
             /\ grants'[y].conn = grants[y].conn /\ grants'[y].vc = grants[y].vc
             /\ grants'[y].revoked <=> grants[y].revoked \/ y \in rows
  BY DEF RevokeRows, Revoked
<1>2. ASSUME NEW v PROVE IsExpired(v)' <=> IsExpired(v)
  BY DEF IsExpired
<1>3. EndsOnly(rows)
  BY <1>1, <1>2 DEF EndsOnly, Live, LedgerEntry
<1>4. QED
  BY <1>3 DEF RevokeRows

(* A grant ends with the tick that takes the clock past its end.              *)
LEMMA TickEnds ==
  ASSUME StoreTypeOK, Tick, UNCHANGED <<grants, home>>
  PROVE  EndsOnly({y \in DOMAIN grants :
                     ~(grants[y].vc.expires = Never \/ grants[y].vc.expires >= now')})
<1>1. ASSUME NEW y \in DOMAIN grants, Live(y)
      PROVE  Live(y)' <=> grants[y].vc.expires = Never \/ grants[y].vc.expires >= now'
  <2>1. grants[y] \in Grant /\ now \in Nat /\ now' = now + 1
    BY DEF StoreTypeOK, Tick
  <2>2. grants[y].vc.expires \in Nat \/ grants[y].vc.expires = Never
    <3>1. grants[y].vc.expires \in Nat \cup {Never, Malformed}
      BY <2>1 DEF Grant, Credential
    <3>2. grants[y].vc.expires # Malformed
      BY <1>1, <3>1, MarkersAssumption DEF Live, IsExpired
    <3>3. QED
      BY <3>1, <3>2
  <2>3. QED
    BY <1>1, <2>1, <2>2, MarkersAssumption DEF Live, IsExpired
<1>2. ASSUME NEW y \in DOMAIN grants, Live(y)' PROVE Live(y)
  BY <1>2, TimeKeepsDead DEF Tick
<1>3. QED
  BY <1>1, <1>2 DEF EndsOnly, LedgerEntry

(* What that leaves of the ledger, with the new rows in N.                    *)
LEMMA LiveAfter ==
  ASSUME NEW S, NEW N, EndsOnly(S),
         DOMAIN grants' = DOMAIN grants \cup N, N \cap DOMAIN grants = {}
  PROVE  LiveGrants' = {g \in LiveGrants : g.exch \notin S}
                         \cup {LedgerEntry(x)' : x \in {y \in N : Live(y)'}}
<1>1. ASSUME NEW y \in DOMAIN grants PROVE LedgerEntry(y).exch = y
  BY DEF LedgerEntry
<1>2. ASSUME NEW g \in LiveGrants'
      PROVE  \/ g \in LiveGrants /\ g.exch \notin S
             \/ \E x \in N : Live(x)' /\ g = LedgerEntry(x)'
  <2>1. PICK y \in DOMAIN grants' : Live(y)' /\ g = LedgerEntry(y)'
    BY DEF LiveGrants
  <2>2. CASE y \in DOMAIN grants
    <3>1. LedgerEntry(y)' = LedgerEntry(y) /\ Live(y) /\ y \notin S
      BY <2>1, <2>2 DEF EndsOnly
    <3>2. QED
      BY <1>1, <2>1, <2>2, <3>1 DEF LiveGrants
  <2>3. CASE y \in N
    BY <2>1, <2>3
  <2>4. QED
    BY <2>2, <2>3
<1>3. ASSUME NEW g \in LiveGrants, g.exch \notin S PROVE g \in LiveGrants'
  <2>1. PICK y \in DOMAIN grants : Live(y) /\ g = LedgerEntry(y)
    BY DEF LiveGrants
  <2>2. y \in DOMAIN grants' /\ Live(y)' /\ g = LedgerEntry(y)'
    BY <1>1, <1>3, <2>1 DEF EndsOnly
  <2>3. QED
    BY <2>2 DEF LiveGrants
<1>4. ASSUME NEW x \in N, Live(x)' PROVE LedgerEntry(x)' \in LiveGrants'
  BY <1>4 DEF LiveGrants
<1>5. QED
  BY <1>2, <1>3, <1>4

LEMMA LiveEnds ==
  ASSUME NEW S, EndsOnly(S), DOMAIN grants' = DOMAIN grants
  PROVE  LiveGrants' = {g \in LiveGrants : g.exch \notin S}
<1>1. DOMAIN grants' = DOMAIN grants \cup {} /\ {} \cap DOMAIN grants = {}
  OBVIOUS
<1>2. LiveGrants' = {g \in LiveGrants : g.exch \notin S}
                      \cup {LedgerEntry(x)' : x \in {y \in {} : Live(y)'}}
  BY <1>1, LiveAfter, Zenon
<1>3. QED
  BY <1>2

LEMMA RecordsInLedger ==
  ASSUME StoreTypeOK, NEW x \in Exchanges, NEW c \in Connections,
         NEW vc \in Credential, RememberIssuedSuperseding(x, c, vc),
         UNCHANGED <<now, home>>
  PROVE  Grants!GrantNext
<1> DEFINE entry == [exch |-> x, conn |-> c, scope |-> vc.scope,
                     home |-> vc.home, until |-> vc.expires]
           others == {g \in LiveGrants :
                        ~(g.conn = c /\ g.scope = vc.scope /\ g.home = vc.home)}
<1>1. /\ EndsOnly(Superseded(c, vc))
      /\ DOMAIN grants' = DOMAIN grants \cup {x} /\ x \notin DOMAIN grants
      /\ LedgerEntry(x)' = entry
      /\ Live(x)' <=> ~IsExpired(vc)
  <2>1. /\ EndsOnly(Superseded(c, vc))
        /\ DOMAIN grants' = DOMAIN grants \cup {x} /\ x \notin DOMAIN grants
        /\ grants'[x] = [conn |-> c, vc |-> vc, revoked |-> FALSE]
        /\ Live(x)' <=> ~IsExpired(vc)
    BY RememberEnds
  <2>2. LedgerEntry(x)' = entry
    BY <2>1 DEF LedgerEntry
  <2>3. QED
    BY <2>1, <2>2
<1>2. {g \in LiveGrants : g.exch \notin Superseded(c, vc)} = others
  <2>1. ASSUME NEW y \in DOMAIN grants, Live(y)
        PROVE  y \in Superseded(c, vc)
                 <=> /\ grants[y].conn = c /\ grants[y].vc.scope = vc.scope
                     /\ grants[y].vc.home = vc.home
    <3>1. HasExpectedScope(vc)
      BY DEF RememberIssuedSuperseding
    <3>2. QED
      BY <2>1, <3>1 DEF Superseded, IssuedForConnection, HasExpectedScope, Live
  <2>2. QED
    BY <2>1 DEF LiveGrants, LedgerEntry
<1>3. LiveGrants' = others \cup (IF IsExpired(vc) THEN {} ELSE {entry})
  <2>1. LiveGrants' = {g \in LiveGrants : g.exch \notin Superseded(c, vc)}
                        \cup {LedgerEntry(y)' : y \in {z \in {x} : Live(z)'}}
    <3>1. {x} \cap DOMAIN grants = {}
      BY <1>1
    <3>2. QED
      BY <1>1, <3>1, LiveAfter, Zenon
  <2>2. QED
    BY <1>1, <1>2, <2>1
<1>4. /\ vc.scope \in Scopes /\ vc.home \in Homes
      /\ vc.expires \in Nat \cup {Never, Malformed} /\ now \in Nat
  BY DEF Credential, StoreTypeOK
<1>5. CASE ~IsExpired(vc)
  <2>1. entry.until = Never \/ entry.until >= now
    BY <1>4, <1>5, MarkersAssumption DEF IsExpired
  <2>2. Grants!Record(entry) /\ entry \in LiveGrants'
    BY <1>1, <1>3, <1>5, <2>1 DEF Grants!Record, Grants!Others
  <2>3. QED
    BY <2>2 DEF Grants!GrantNext
<1>6. CASE IsExpired(vc)
  <2>1. Grants!RecordDead(x, c, vc.scope, vc.home)
    BY <1>1, <1>3, <1>6 DEF Grants!RecordDead, Grants!Others
  <2>2. QED
    BY <1>4, <2>1 DEF Grants!GrantNext
<1>7. QED
  BY <1>5, <1>6

LEMMA RevokesInLedger ==
  ASSUME StoreTypeOK, UNCHANGED <<now, home>>,
         \/ \E x \in Exchanges : RevokeCredential(x)
         \/ \E c \in Connections : RevokeConnection(c)
  PROVE  Grants!GrantNext
<1>1. ASSUME NEW rows, RevokeRows(rows)
      PROVE  /\ LiveGrants' = {g \in LiveGrants : g.exch \notin rows}
             /\ DOMAIN grants' = DOMAIN grants
  <2>1. EndsOnly(rows) /\ DOMAIN grants' = DOMAIN grants
    BY <1>1, RevokeEnds
  <2>2. QED
    BY <2>1, LiveEnds, Zenon
<1>2. ASSUME NEW x \in Exchanges, RevokeCredential(x)
      PROVE  Grants!GrantNext
  <2>1. Grants!Revoke(x)
    BY <1>1, <1>2 DEF RevokeCredential, Grants!Revoke
  <2>2. QED
    BY <2>1 DEF Grants!GrantNext
<1>3. ASSUME NEW c \in Connections, RevokeConnection(c)
      PROVE  Grants!GrantNext
  <2> DEFINE rows == {x \in DOMAIN grants : grants[x].conn = c}
  <2>1. RevokeRows(rows)
    BY <1>3 DEF RevokeConnection
  <2>2. {g \in LiveGrants : g.exch \notin rows} = {g \in LiveGrants : g.conn # c}
    BY DEF LiveGrants, LedgerEntry
  <2>3. Grants!RevokeAll(c)
    BY <1>1, <2>1, <2>2 DEF Grants!RevokeAll
  <2>4. QED
    BY <2>3 DEF Grants!GrantNext
<1>4. QED
  BY <1>2, <1>3

LEMMA TimeInLedger ==
  ASSUME StoreTypeOK, Tick, UNCHANGED <<grants, home>>
  PROVE  Grants!GrantNext
<1> DEFINE over == {y \in DOMAIN grants :
                      ~(grants[y].vc.expires = Never \/ grants[y].vc.expires >= now')}
<1>1. LiveGrants' = {g \in LiveGrants : g.exch \notin over}
  <2>1. EndsOnly(over) /\ DOMAIN grants' = DOMAIN grants
    BY TickEnds
  <2> HIDE DEF over
  <2>2. QED
    BY <2>1, LiveEnds, Zenon
<1>2. LiveGrants' = {g \in LiveGrants : g.until = Never \/ g.until >= now'}
  BY <1>1 DEF LiveGrants, LedgerEntry
<1>3. Grants!Pass
  BY <1>2 DEF Grants!Pass, Tick
<1>4. QED
  BY <1>3 DEF Grants!GrantNext

(* Every act on the store is one of the ledger, or leaves the ledger alone.   *)
LEMMA ActsInLedger ==
  ASSUME StoreTypeOK, StoreActs
  PROVE  [Grants!GrantNext]_(Grants!grantVars)
<1>1. CASE UNCHANGED <<grants, now>>
  BY <1>1 DEF Grants!grantVars, LiveGrants, LedgerEntry, Live, IsExpired
<1>2. QED
  BY <1>1, RecordsInLedger, RevokesInLedger, TimeInLedger DEF StoreActs

LEMMA InitInLedger ==
  ASSUME StoreInit
  PROVE  Grants!GrantInit
BY DEF StoreInit, Grants!GrantInit, LiveGrants

(* The ledger decides access: a connection may use an entity when a grant in  *)
(* the ledger, of the home the gateway serves, covers it.                     *)
THEOREM LedgerGivesAccess ==
  ASSUME NEW c, NEW e
  PROVE  IsAuthorised(c, e)
           <=> \E g \in LiveGrants : g.conn = c /\ g.home = home /\ e \in Permits[g.scope]
<1>1. ASSUME NEW x \in IssuedForConnection(c), HasExpectedScope(grants[x].vc),
             ~IsExpired(grants[x].vc), e \in Permits[grants[x].vc.scope]
      PROVE  \E g \in LiveGrants : g.conn = c /\ g.home = home /\ e \in Permits[g.scope]
  <2>1. LedgerEntry(x) \in LiveGrants
    BY <1>1 DEF IssuedForConnection, LiveGrants, Live
  <2>2. QED
    BY <1>1, <2>1 DEF IssuedForConnection, HasExpectedScope, LedgerEntry
<1>2. ASSUME NEW g \in LiveGrants, g.conn = c, g.home = home, e \in Permits[g.scope]
      PROVE  IsAuthorised(c, e)
  <2>1. PICK x \in DOMAIN grants : Live(x) /\ g = LedgerEntry(x)
    BY DEF LiveGrants
  <2>2. QED
    BY <1>2, <2>1 DEF IsAuthorised, IssuedForConnection, HasExpectedScope, LedgerEntry, Live
<1>3. QED
  BY <1>1, <1>2 DEF IsAuthorised

------------------------------------------------------------------------------
(* What GrantLedger promises of the store, read off the promise alone: it     *)
(* holds in every module whose steps keep it.                                 *)

OnePerScope ==
  \A g, k \in LiveGrants :
    g.conn = k.conn /\ g.scope = k.scope /\ g.home = k.home => g = k

(* What a step of the ledger adds is one grant with an id of its own, which   *)
(* has taken the place of the one of its connection, scope and home.          *)
LEMMA LedgerAdds ==
  ASSUME [Grants!GrantNext]_(Grants!grantVars)
  PROVE  /\ DOMAIN grants \subseteq DOMAIN grants'
         /\ \/ LiveGrants' \subseteq LiveGrants
            \/ \E g \in LiveGrants' :
                 /\ g.exch \notin DOMAIN grants
                 /\ LiveGrants' = Grants!Others(g.conn, g.scope, g.home) \cup {g}
<1>1. ASSUME NEW g \in LiveGrants', Grants!Record(g)
      PROVE  /\ DOMAIN grants' = DOMAIN grants \cup {g.exch} /\ g.exch \notin DOMAIN grants
             /\ LiveGrants' = Grants!Others(g.conn, g.scope, g.home) \cup {g}
  BY <1>1 DEF Grants!Record
<1>2. ASSUME NEW x, NEW c, NEW s, NEW h, Grants!RecordDead(x, c, s, h)
      PROVE  DOMAIN grants' = DOMAIN grants \cup {x} /\ LiveGrants' \subseteq LiveGrants
  BY <1>2 DEF Grants!RecordDead, Grants!Others
<1>3. ASSUME NEW x, Grants!Revoke(x) \/ Grants!RevokeAll(x)
      PROVE  DOMAIN grants' = DOMAIN grants /\ LiveGrants' \subseteq LiveGrants
  BY <1>3 DEF Grants!Revoke, Grants!RevokeAll
<1>4. CASE Grants!Pass
  BY <1>4 DEF Grants!Pass
<1>5. CASE UNCHANGED Grants!grantVars
  BY <1>5 DEF Grants!grantVars
<1>6. QED
  BY <1>1, <1>2, <1>3, <1>4, <1>5 DEF Grants!GrantNext

LEMMA EntryIsOwn ==
  ASSUME NEW x \in DOMAIN grants
  PROVE  /\ LedgerEntry(x) \in LiveGrants <=> Live(x)
         /\ LedgerEntry(x).exch = x
BY DEF LedgerEntry, LiveGrants

(* A store that keeps the ledger never has two live grants of one connection, *)
(* scope and home (remember_issued_superseding).                              *)
THEOREM LedgerIsUnique == KeepsGrants => []UniqueLive
<1>1. Grants!GrantInit => OnePerScope
  BY DEF Grants!GrantInit, OnePerScope
<1>2. OnePerScope /\ [Grants!GrantNext]_(Grants!grantVars) => OnePerScope'
  BY LedgerAdds DEF OnePerScope, Grants!Others
<1>3. OnePerScope => UniqueLive
  <2>1. SUFFICES ASSUME OnePerScope, NEW x \in DOMAIN grants, NEW y \in DOMAIN grants,
                        Live(x), Live(y), grants[x].conn = grants[y].conn,
                        grants[x].vc.scope = grants[y].vc.scope,
                        grants[x].vc.home = grants[y].vc.home
                 PROVE  x = y
    BY DEF UniqueLive
  <2>2. LedgerEntry(x) = LedgerEntry(y)
    BY <2>1, EntryIsOwn DEF OnePerScope, LedgerEntry
  <2>3. QED
    BY <2>2, EntryIsOwn
<1>4. QED
  BY <1>1, <1>2, <1>3, PTL DEF KeepsGrants, Grants!GrantSpec

(* A store that keeps the ledger brings no grant back that was revoked or has *)
(* expired, and loses no row.                                                 *)
THEOREM LedgerNeverRevives ==
  KeepsGrants =>
    [][\A x \in DOMAIN grants :
         ~Live(x) => x \in DOMAIN grants' /\ ~Live(x)']_(Grants!grantVars)
<1>1. ASSUME [Grants!GrantNext]_(Grants!grantVars), NEW x \in DOMAIN grants, ~Live(x)
      PROVE  x \in DOMAIN grants' /\ ~Live(x)'
  <2>1. x \in DOMAIN grants'
    BY <1>1, LedgerAdds
  <2>2. SUFFICES ASSUME Live(x)' PROVE FALSE
    BY <2>1
  <2>3. LedgerEntry(x)' \in LiveGrants' /\ LedgerEntry(x)'.exch = x
    BY <2>1, <2>2 DEF LedgerEntry, LiveGrants
  <2>4. \A g \in LiveGrants : g.exch # x
    BY <1>1 DEF LiveGrants, LedgerEntry
  <2>5. QED
    BY <1>1, <2>3, <2>4, LedgerAdds DEF Grants!Others
<1>2. [Grants!GrantNext]_(Grants!grantVars) =>
        [\A x \in DOMAIN grants :
           ~Live(x) => x \in DOMAIN grants' /\ ~Live(x)']_(Grants!grantVars)
  BY <1>1
<1>3. QED
  BY <1>2, PTL DEF KeepsGrants, Grants!GrantSpec

==============================================================================
