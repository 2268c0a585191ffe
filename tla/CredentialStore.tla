--------------------------- MODULE CredentialStore ---------------------------
(* The issuer-side credential store of the gateway (credentials.py): the      *)
(* SQLite table issued_credentials, shared by every process of a home, the    *)
(* checks made against it and the transactions that change it.                *)
(*                                                                            *)
(* A transaction is one operator over the state: SQLite serialises writers,   *)
(* so a whole transaction is one step.  The modules that EXTEND this one say  *)
(* which process takes which step, and when.                                  *)
(*                                                                            *)
(* Abstractions.  A scope is a model value for a normalised triple of subject *)
(* DID, role and permission set (_grant_scope); Permits gives the entities    *)
(* its patterns match.  A home stands for the pair HOME_ID, HOME_ISSUER_DID   *)
(* a gateway is configured with.  Of revoked_at only whether it is set is     *)
(* kept.  Rows whose JSON is damaged are left out: nothing in the program     *)
(* writes one.                                                                *)
EXTENDS Integers, FiniteSets

CONSTANTS
  Connections,  \* pairwise DIDComm connections
  Exchanges,    \* credential exchange ids ACA-Py hands out
  Scopes,       \* subject, role and permission set of a grant
  Entities,     \* Home Assistant entities
  Homes,        \* home id and issuer DID a gateway may be configured with
  Permits,      \* the entities each scope's permission patterns match
  Lifetimes,    \* what an owner may ask for: a duration, Never or Malformed
  Never,        \* no expirationDate
  Malformed,    \* an expirationDate that is not a zoned ISO date
  MaxTime       \* bound on the clock

ASSUME PermitsAssumption == Permits \in [Scopes -> SUBSET Entities]
ASSUME LifetimesAssumption == Lifetimes \subseteq Nat \cup {Never, Malformed}
ASSUME MarkersAssumption ==
  /\ Never \notin Nat /\ Malformed \notin Nat
  /\ Never # Malformed
ASSUME MaxTimeAssumption == MaxTime \in Nat

VARIABLES
  grants,  \* the rows of issued_credentials, by credential_exchange_id
  now,     \* the wall clock
  home     \* the home the running processes are configured with

storeVars == <<grants, now, home>>

(* The payload of a credential: credentialSubject, issuer and the two dates.  *)
(* The connection it was sent on is not part of it.                           *)
Credential ==
  [scope : Scopes, home : Homes, issued : Nat,
   expires : Nat \cup {Never, Malformed}]

Grant ==
  [conn : Connections, vc : Credential, revoked : BOOLEAN]

StoreTypeOK ==
  /\ DOMAIN grants \subseteq Exchanges
  /\ grants \in [DOMAIN grants -> Grant]
  /\ now \in Nat
  /\ home \in Homes

StoreInit ==
  /\ grants = [x \in {} |-> {}]
  /\ now = 0
  /\ home \in Homes

------------------------------------------------------------------------------
(* What a credential is worth now.                                            *)

IsExpired(vc) ==
  /\ vc.expires # Never
  /\ vc.expires = Malformed \/ vc.expires < now

HasExpectedScope(vc) == vc.home = home

(* Mutant: a date that has passed is looked at before revoked_at.             *)
StateOfExpiredFirst(x) ==
  CASE ~HasExpectedScope(grants[x].vc) -> "invalid"
    [] HasExpectedScope(grants[x].vc) /\ IsExpired(grants[x].vc) -> "expired"
    [] HasExpectedScope(grants[x].vc) /\ ~IsExpired(grants[x].vc) ->
         IF grants[x].revoked THEN "revoked" ELSE "active"

StateOf(x) ==
  CASE ~HasExpectedScope(grants[x].vc) -> "invalid"
    [] HasExpectedScope(grants[x].vc) /\ grants[x].revoked -> "revoked"
    [] HasExpectedScope(grants[x].vc) /\ ~grants[x].revoked ->
         IF IsExpired(grants[x].vc) THEN "expired" ELSE "active"

FindEquivalentActiveGrant(c, s) ==
  {x \in DOMAIN grants :
     StateOf(x) = "active" /\ grants[x].conn = c /\ grants[x].vc.scope = s}

IssuedForConnection(c) ==
  {x \in DOMAIN grants : grants[x].conn = c /\ ~grants[x].revoked}

IsAuthorised(c, e) ==
  \E x \in IssuedForConnection(c) :
    /\ HasExpectedScope(grants[x].vc)
    /\ ~IsExpired(grants[x].vc)
    /\ e \in Permits[grants[x].vc.scope]

(* Mutant: the presented credential is taken at its word, the store not read. *)
PresentedSuffices(c, e, vc) ==
  HasExpectedScope(vc) /\ ~IsExpired(vc) /\ e \in Permits[vc.scope]

(* The very payload that was presented must be on file, unrevoked, for this   *)
(* connection: a proof of one grant never unlocks another.                    *)
IsPresentedAuthorised(c, e, vc) ==
  /\ HasExpectedScope(vc)
  /\ ~IsExpired(vc)
  /\ e \in Permits[vc.scope]
  /\ \E x \in IssuedForConnection(c) : grants[x].vc = vc

------------------------------------------------------------------------------
(* Transactions.                                                              *)

BuildCredential(s, lifetime) ==
  [scope |-> s, home |-> home, issued |-> now,
   expires |-> IF lifetime \in {Never, Malformed} THEN lifetime
               ELSE now + lifetime]

(* Mutant: equivalence forgets the scope, any grant of the connection goes.   *)
SupersededAnyScope(c, vc) ==
  {x \in IssuedForConnection(c) :
     HasExpectedScope(grants[x].vc) /\ ~IsExpired(grants[x].vc)}

(* Mutant: "older" is read off the issuance date, not off the row id.         *)
SupersededByDate(c, vc) ==
  {x \in SupersededAnyScope(c, vc) :
     grants[x].vc.scope = vc.scope /\ grants[x].vc.issued < vc.issued}

(* Mutant: a grant of another home, kept while the gateway serves this one,   *)
(* is taken for an older one.                                                 *)
SupersededAnyHome(c, vc) ==
  {x \in IssuedForConnection(c) :
     grants[x].vc.scope = vc.scope /\ ~IsExpired(grants[x].vc)}

Superseded(c, vc) ==
  {x \in IssuedForConnection(c) :
     /\ grants[x].vc.scope = vc.scope
     /\ HasExpectedScope(grants[x].vc)
     /\ ~IsExpired(grants[x].vc)}

Revoked(g) == [conn |-> g.conn, vc |-> g.vc, revoked |-> TRUE]

(* Mutant: an equivalent row is renewed in place, revoked or not.             *)
RememberIssuedRenewing(x, c, vc) ==
  /\ HasExpectedScope(vc)
  /\ x \notin DOMAIN grants
  /\ grants' = [y \in DOMAIN grants \cup {x} |->
                  IF y = x \/ (grants[y].conn = c /\ grants[y].vc.scope = vc.scope)
                  THEN [conn |-> c, vc |-> vc, revoked |-> FALSE]
                  ELSE grants[y]]

(* One transaction: the INSERT, which takes SQLite's writer lock, then the    *)
(* UPDATE of every older equivalent active row.                               *)
RememberIssuedSuperseding(x, c, vc) ==
  /\ HasExpectedScope(vc)
  /\ x \notin DOMAIN grants
  /\ grants' = [y \in DOMAIN grants \cup {x} |->
                  IF y = x THEN [conn |-> c, vc |-> vc, revoked |-> FALSE]
                  ELSE IF y \in Superseded(c, vc)
                       THEN Revoked(grants[y])
                       ELSE grants[y]]

(* revoked_at = COALESCE(revoked_at, now): a revoked row stays revoked.       *)
RevokeRows(rows) ==
  grants' = [y \in DOMAIN grants |->
               IF y \in rows THEN Revoked(grants[y])
               ELSE grants[y]]

RevokeCredential(x) ==
  /\ x \in DOMAIN grants
  /\ RevokeRows({x})

RevokeConnection(c) ==
  /\ \E x \in DOMAIN grants : grants[x].conn = c
  /\ RevokeRows({x \in DOMAIN grants : grants[x].conn = c})

(* Time passes; MaxTime bounds the model.                                     *)
Tick ==
  /\ now < MaxTime
  /\ now' = now + 1

------------------------------------------------------------------------------
(* A row whose revoked_at is empty and whose credential has not expired.      *)
Live(x) == ~grants[x].revoked /\ ~IsExpired(grants[x].vc)

(* At most one live grant per connection, scope and home, whatever home the   *)
(* gateway is configured with at the moment: what find_equivalent_active_grant *)
(* and remember_issued_superseding are for.                                   *)
UniqueLive ==
  \A x, y \in DOMAIN grants :
    /\ Live(x) /\ Live(y)
    /\ grants[x].conn = grants[y].conn
    /\ grants[x].vc.scope = grants[y].vc.scope
    /\ grants[x].vc.home = grants[y].vc.home
    => x = y

(* The store as a ledger of the grants that are good.                         *)
LedgerEntry(x) ==
  [exch |-> x, conn |-> grants[x].conn, scope |-> grants[x].vc.scope,
   home |-> grants[x].vc.home, until |-> grants[x].vc.expires]

LiveGrants == {LedgerEntry(x) : x \in {y \in DOMAIN grants : Live(y)}}

Grants == INSTANCE GrantLedger WITH live <- LiveGrants, spent <- DOMAIN grants

(* The store keeps the promises of GrantLedger: whichever processes record,   *)
(* revoke, fail, crash or are reconfigured, each step of theirs takes exactly *)
(* the grants it is about, of this home or another, and adds at most one.     *)
KeepsGrants == Grants!GrantSpec

==============================================================================
