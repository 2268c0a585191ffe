------------------------------ MODULE GrantLedger ------------------------------
(* What the credential store promises, without rows, homes that change or a   *)
(* database: which grants are good, and what may become of them.  README.md:  *)
(* a grant is good until it expires, is revoked (alone, or with all of its    *)
(* connection) or is superseded by a newer one of the same scope; none of     *)
(* these touches another grant, and nothing brings one back.                  *)
EXTENDS Integers

CONSTANTS Connections, Exchanges, Scopes, Homes, Never

VARIABLES
  now,    \* the wall clock
  live,   \* the grants that are good: exchange, connection, scope, home, end
  spent   \* the exchange ids of all grants ever recorded

grantVars == <<now, live, spent>>

GrantInit == now = 0 /\ live = {} /\ spent = {}

(* What stays when a grant of that connection, scope and home is recorded.    *)
Others(c, s, h) == {g \in live : ~(g.conn = c /\ g.scope = s /\ g.home = h)}

(* A new grant, still good, takes the place of the one it equals.             *)
Record(g) ==
  /\ g.exch \in Exchanges \ spent
  /\ g.until = Never \/ g.until >= now
  /\ live' = Others(g.conn, g.scope, g.home) \cup {g}
  /\ spent' = spent \cup {g.exch}
  /\ UNCHANGED now

(* A new grant that expired while it was minted, or has no readable end.      *)
RecordDead(x, c, s, h) ==
  /\ x \in Exchanges \ spent
  /\ live' = Others(c, s, h)
  /\ spent' = spent \cup {x}
  /\ UNCHANGED now

Revoke(x) ==
  /\ live' = {g \in live : g.exch # x}
  /\ UNCHANGED <<now, spent>>

RevokeAll(c) ==
  /\ live' = {g \in live : g.conn # c}
  /\ UNCHANGED <<now, spent>>

(* Time passes, and takes the grants whose end it is.                         *)
Pass ==
  /\ now' = now + 1
  /\ live' = {g \in live : g.until = Never \/ g.until >= now'}
  /\ UNCHANGED spent

GrantNext ==
  \/ \E g \in live' : Record(g)
  \/ \E x \in Exchanges, c \in Connections, s \in Scopes, h \in Homes :
       RecordDead(x, c, s, h)
  \/ \E x \in Exchanges : Revoke(x)
  \/ \E c \in Connections : RevokeAll(c)
  \/ Pass

GrantSpec == GrantInit /\ [][GrantNext]_grantVars

==============================================================================
