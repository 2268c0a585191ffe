----------------------------- MODULE CommandLedger -----------------------------
(* What the command gate promises, without handlers, proofs or a database: a  *)
(* ledger of the commands it has taken on.  README.md and docs/GATEWAY.md: a  *)
(* request id of a connection is taken on once per retention; the command is  *)
(* sent to Home Assistant at most once, only after a moment at which the      *)
(* connection was permitted the entity, and whatever is lost or restarted.    *)
EXTENDS Integers

CONSTANTS Connections, RequestIds, Entities, Retention

VARIABLES
  now,        \* the wall clock
  permitted,  \* the connections and entities a live grant covers
  ledger      \* the commands taken on

ledgerVars == <<now, permitted, ledger>>

LedgerInit == ledger = {} /\ now = 0

MovedTo(S, stage) ==
  (ledger \ S) \cup
    {[conn |-> t.conn, id |-> t.id, entity |-> t.entity, at |-> t.at,
      stage |-> stage] : t \in S}

(* A command is taken on, unless its id is remembered.                        *)
TakeOn(c, i, e) ==
  /\ \A u \in ledger : u.conn = c /\ u.id = i => now > u.at + Retention
  /\ ledger' =
       ledger \cup {[conn |-> c, id |-> i, entity |-> e, at |-> now, stage |-> "open"]}
  /\ UNCHANGED <<now, permitted>>

(* The decision: only while a grant covers the command.                       *)
Permit(t) ==
  /\ t.stage = "open" /\ <<t.conn, t.entity>> \in permitted
  /\ ledger' = MovedTo({t}, "permitted")
  /\ UNCHANGED <<now, permitted>>

Send(t) ==
  /\ t.stage = "permitted"
  /\ ledger' = MovedTo({t}, "sent")
  /\ UNCHANGED <<now, permitted>>

(* Refused, answered, failed or lost in a crash: nothing leads out of closed. *)
Close(S) ==
  /\ ledger' = MovedTo(S, "closed")
  /\ UNCHANGED <<now, permitted>>

(* Time passes, grants come, go and expire.                                   *)
World ==
  /\ now' \in {now, now + 1}
  /\ UNCHANGED ledger

LedgerNext ==
  \/ \E c \in Connections, i \in RequestIds, e \in Entities : TakeOn(c, i, e)
  \/ \E t \in ledger : Permit(t) \/ Send(t)
  \/ \E S \in SUBSET ledger : Close(S)
  \/ World

LedgerSpec == LedgerInit /\ [][LedgerNext]_ledgerVars

==============================================================================
