-------------------------- MODULE SilverTransform --------------------------
(***************************************************************************)
(* The two transformations of Pipeline Silver that Pipeline B depends on   *)
(* (src/jobs/pipeline_silver_spark.py): wallet snapshots and ledger        *)
(* entries.  A bronze row is given a reason to be bad, or becomes a row of *)
(* silver.  Columns nothing downstream reads are left out.                 *)
(***************************************************************************)
EXTENDS Integers, Sequences, SequencesExt, JobParams

CONSTANTS
  AllowedEntryTypes,  \* allowed_values of the rules entry_type_allowed and
  AllowedStatuses,    \* payment_status_allowed; empty when there are none
  StatusOrder         \* the statuses in the order of their strings

EntryTypeSign ==
  [CHARGE |-> 1, WITHDRAW |-> -1, PAYMENT |-> -1, RECEIVE |-> 1, REFUND_OUT |-> -1,
   REFUND_IN |-> 1, HOLD |-> 0, RELEASE |-> 0, MINT |-> 1, BURN |-> -1]

NullIfBlank(value) == IF value \in {"", " "} THEN None ELSE value

\* A chain of F.when: the label of the first check that applies, else NULL.
FirstOf(checks) ==
  LET met == { i \in DOMAIN checks : checks[i][1] }
  IN  IF met = {} THEN None ELSE checks[CHOOSE i \in met : \A j \in met : i <= j][2]

WalletReasons ==
  {"missing_user_id", "invalid_balance", "negative_balance", "missing_snapshot_ts"}

LedgerReasons ==
  {"missing_tx_or_wallet", "missing_entry_type", "invalid_entry_type", "invalid_amount",
   "non_positive_amount", "amount_signed_unavailable", "missing_event_time", "invalid_status"}

Below(amount, limit) == amount # None /\ amount < limit

-----------------------------------------------------------------------------
(* Bronze rows *)

WalletRaw ==
  [user_id : Optional(STRING), balance : Optional(Int), frozen_amount : Optional(Int),
   source_extracted_at : Optional(Int), ingested_at : Optional(Int)]

LedgerRaw ==
  [tx_id : Optional(STRING), wallet_id : Optional(STRING), type : Optional(STRING),
   entry_type : Optional(STRING), amount : Optional(Int), related_id : Optional(STRING),
   status : Optional(STRING), created_at : Optional(Int), event_time : Optional(Int)]

OrderRaw ==
  [order_id : Optional(STRING), merchant_name : Optional(STRING), status : Optional(STRING),
   created_at : Optional(Int), event_time : Optional(Int), ingested_at : Optional(Int)]

-----------------------------------------------------------------------------
(* Wallet snapshots *)

SnapshotTs(w) == OrElse(w.source_extracted_at, w.ingested_at)

WalletReason(w) ==
  FirstOf(<< << NullIfBlank(w.user_id) = None, "missing_user_id" >>,
             << w.balance = None \/ w.frozen_amount = None, "invalid_balance" >>,
             << Below(w.balance, 0) \/ Below(w.frozen_amount, 0), "negative_balance" >>,
             << SnapshotTs(w) = None, "missing_snapshot_ts" >> >>)

WalletRow(w) ==
  [snapshot_ts |-> SnapshotTs(w), snapshot_date_kst |-> DateKst(SnapshotTs(w)),
   user_id |-> w.user_id, balance_total |-> w.balance + w.frozen_amount]

WalletSnapshot(rows) == { WalletRow(w) : w \in { r \in rows : WalletReason(r) = None } }

-----------------------------------------------------------------------------
(* Ledger entries *)

StatusPlace(status) == CHOOSE i \in DOMAIN StatusOrder : StatusOrder[i] = status

\* The columns the lookup is ordered by, NULLs last.
Recency(o) == << OrElse(o.created_at, -1), OrElse(o.ingested_at, -1), StatusPlace(o.status) >>

LaterThan(o, other) ==
  \E i \in 1..3 : /\ Recency(o)[i] > Recency(other)[i]
                  /\ \A j \in 1..i-1 : Recency(o)[j] = Recency(other)[j]

\* Broken variant: the row that was there first keeps its status.
OldestStatus(order_id, orders) ==
  LET known == { o \in orders : o.order_id = order_id /\ o.status # None }
  IN  IF order_id = None \/ known = {} THEN None
      ELSE (CHOOSE o \in known : \A other \in known : ~LaterThan(o, other)).status

\* The status of the newest row of the order.
LookupStatus(order_id, orders) ==
  LET known == { o \in orders : o.order_id = order_id /\ o.status # None }
  IN  IF order_id = None \/ known = {} THEN None
      ELSE (CHOOSE o \in known : \A other \in known : ~LaterThan(other, o)).status

EntryType(l) == OrElse(NullIfBlank(l.type), NullIfBlank(l.entry_type))
EventTime(l) == OrElse(l.created_at, l.event_time)
StatusOf(l, orders) == OrElse(LookupStatus(l.related_id, orders), l.status)

LedgerReason(l, orders) ==
  FirstOf(<< << NullIfBlank(l.tx_id) = None \/ NullIfBlank(l.wallet_id) = None,
                "missing_tx_or_wallet" >>,
             << EntryType(l) = None, "missing_entry_type" >>,
             << AllowedEntryTypes # {} /\ EntryType(l) \notin AllowedEntryTypes,
                "invalid_entry_type" >>,
             << l.amount = None, "invalid_amount" >>,
             << Below(l.amount, 1), "non_positive_amount" >>,
             << EntryType(l) \notin DOMAIN EntryTypeSign, "amount_signed_unavailable" >>,
             << EventTime(l) = None, "missing_event_time" >>,
             << /\ AllowedStatuses # {} /\ StatusOf(l, orders) # None
                /\ StatusOf(l, orders) \notin AllowedStatuses, "invalid_status" >> >>)

LedgerRow(l, orders) ==
  [tx_id |-> l.tx_id, wallet_id |-> l.wallet_id, event_time |-> EventTime(l),
   event_date_kst |-> DateKst(EventTime(l)), entry_type |-> EntryType(l),
   amount |-> l.amount, amount_signed |-> l.amount * EntryTypeSign[EntryType(l)],
   related_id |-> l.related_id, status |-> StatusOf(l, orders)]

LedgerEntries(rows, orders) ==
  { LedgerRow(l, orders) : l \in { r \in rows : LedgerReason(r, orders) = None } }

=============================================================================
