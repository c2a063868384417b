--------------------------- MODULE LedgerControls ---------------------------
(***************************************************************************)
(* The computations of Pipeline B (src/jobs/pipeline_b_spark.py): the rows *)
(* of its gold tables for a set of target dates, as operators on the       *)
(* silver tables: wallets, ledger, dq_status, and the snapshots the two     *)
(* windows over the wallets put first, opening and closing.                *)
(*                                                                         *)
(* Amounts are integers.  A rate is the pair of its numerator and its      *)
(* denominator, the message of an exception the tuple of the values in it. *)
(* Constant columns and generated_at are left out; equal rows are one.     *)
(***************************************************************************)
EXTENDS Integers, FiniteSets, FiniteSetsExt, JobParams, RuleTable

SupplyEntrySigns == [MINT |-> 1, CHARGE |-> 1, BURN |-> -1, WITHDRAW |-> -1]

FailedStatuses   == {"FAILED", "CANCELLED"}
RefundedStatuses == {"REFUNDED"}

NonBlank(value) == value \notin {None, "", " "}

Magnitude(n) == IF n < 0 THEN -n ELSE n

TotalOf(amounts) == MapThenSumSet(LAMBDA x : amounts[x], DOMAIN amounts)

-----------------------------------------------------------------------------
(* Rules and tags *)

\* The threshold, else the critical limit.
Threshold(rule) ==
  IF rule = None THEN None ELSE OrElse(rule.threshold, rule.crit)

Severities == {"CRITICAL", "WARN"}

\* Broken variant: the threshold does not count.
SeverityOfMap(value, rule) ==
  LET over(limit) == limit # None /\ value > limit
  IN  IF rule = None THEN None
      ELSE IF over(rule.crit) THEN "CRITICAL"
      ELSE IF over(rule.warn) THEN "WARN" ELSE None

Severity(value, rule) ==
  LET over(limit) == limit # None /\ value > limit
  IN  IF rule = None THEN None
      ELSE IF over(rule.crit) THEN "CRITICAL"
      ELSE IF over(rule.warn) THEN "WARN"
      ELSE IF over(rule.threshold) THEN "CRITICAL" ELSE None

\* A stale source before a suspected drop before any other tag of the day.
DqTag(date, dq_status) ==
  LET tags == { s.dq_tag : s \in { r \in dq_status : r.date_kst = date /\ NonBlank(r.dq_tag) } }
  IN  CASE "SOURCE_STALE" \in tags -> "SOURCE_STALE"
        [] "SOURCE_STALE" \notin tags /\ "EVENT_DROP_SUSPECTED" \in tags ->
             "EVENT_DROP_SUSPECTED"
        [] OTHER -> IF tags = {} THEN None ELSE CHOOSE tag \in tags : TRUE

-----------------------------------------------------------------------------
(* Base frames *)

Snapshots(date, wallets) ==
  { w \in wallets : /\ w.snapshot_ts # None /\ DateKst(w.snapshot_ts) = date
                    /\ NonBlank(w.user_id) /\ w.balance_total # None }

Users(date, wallets) == { w.user_id : w \in Snapshots(date, wallets) }

SameInstant(v, w) == v.user_id = w.user_id /\ v.snapshot_ts = w.snapshot_ts

\* What row_number() can make of the snapshots: of those of a user at one
\* instant any may come first, another one at each evaluation of a window.
Untied(wallets) ==
  LET tied == { w \in wallets : \E v \in wallets \ {w} : SameInstant(v, w) }
      one(kept) == \A w \in tied : \E v \in kept : { x \in kept : SameInstant(x, w) } = {v}
  IN  { (wallets \ tied) \cup kept : kept \in { k \in SUBSET tied : one(k) } }

\* The first and the last snapshot of a user on a day, among untied ones.
StartBalance(user_id, date, wallets) ==
  LET own == { w \in Snapshots(date, wallets) : w.user_id = user_id }
  IN  (CHOOSE w \in own : \A v \in own : w.snapshot_ts <= v.snapshot_ts).balance_total

EndBalance(user_id, date, wallets) ==
  LET own == { w \in Snapshots(date, wallets) : w.user_id = user_id }
  IN  (CHOOSE w \in own : \A v \in own : w.snapshot_ts >= v.snapshot_ts).balance_total

EntryDate(e) ==
  IF e.event_date_kst # None THEN e.event_date_kst
  ELSE IF e.event_time # None THEN DateKst(e.event_time) ELSE None

EntriesOf(date, ledger) == { e \in ledger : EntryDate(e) = date }

OrdersOf(date, orders) ==
  { o \in orders : /\ OrElse(o.created_at, o.event_time) # None
                   /\ DateKst(OrElse(o.created_at, o.event_time)) = date }

-----------------------------------------------------------------------------
(* gold.recon_daily_snapshot_flow *)

NetFlow(user_id, date, ledger) ==
  LET own == { e \in EntriesOf(date, ledger) : e.wallet_id = user_id /\ e.amount_signed # None }
  IN  TotalOf([e \in own |-> e.amount_signed])

ReconRow(user_id, date, silver, run_id, rule) ==
  LET delta == EndBalance(user_id, date, silver.closing)
                 - StartBalance(user_id, date, silver.opening)
      net   == NetFlow(user_id, date, silver.ledger)
      drift == Magnitude(delta - net)
  IN  [date_kst |-> date, user_id |-> user_id, delta_balance_total |-> delta,
       net_flow_total |-> net, drift_abs |-> drift,
       drift_pct |-> IF net = 0 THEN None ELSE << drift, Magnitude(net) >>,
       dq_tag |-> DqTag(date, silver.dq_status), run_id |-> run_id,
       rule_id |-> IF rule = None THEN None ELSE rule.rule_id]

Recon(dates, silver, run_id, rules) ==
  LET rule == SelectRule(rules, "ledger.drift_abs")
  IN  UNION { { ReconRow(user_id, date, silver, run_id, rule) :
                  user_id \in Users(date, silver.wallets) } : date \in dates }

ReconExceptions(dates, silver, run_id, rules) ==
  LET rule     == SelectRule(rules, "ledger.drift_abs")
      breaches == { r \in Recon(dates, silver, run_id, rules) :
                      Severity(r.drift_abs, rule) # None }
  IN  { [date_kst |-> r.date_kst, exception_type |-> "RECON_DRIFT_HIGH",
         severity |-> Severity(r.drift_abs, rule), metric |-> "drift_abs",
         metric_value |-> r.drift_abs,
         message |-> << r.user_id, r.delta_balance_total, r.net_flow_total, r.drift_abs >>,
         run_id |-> run_id, rule_id |-> r.rule_id] : r \in breaches }

-----------------------------------------------------------------------------
(* gold.ledger_supply_balance_daily *)

Issuing(ledger) ==
  { e \in ledger : e.entry_type \in DOMAIN SupplyEntrySigns /\ e.amount # None }

Issued(entries) ==
  TotalOf([e \in entries |-> e.amount * SupplyEntrySigns[e.entry_type]])

\* Broken variant: what was issued on the day only.
IssuedOfDay(date, ledger) == Issued(Issuing(EntriesOf(date, ledger)))

\* Everything issued up to the end of the day.
IssuedSupply(date, ledger) ==
  Issued({ e \in Issuing(ledger) : EntryDate(e) # None /\ EntryDate(e) <= date })

WalletTotal(date, wallets) ==
  TotalOf([user_id \in Users(date, wallets) |-> EndBalance(user_id, date, wallets)])

SupplyRow(date, silver, run_id, rule) ==
  LET issued == IssuedSupply(date, silver.ledger)
      total  == WalletTotal(date, silver.closing)
      limit  == Threshold(rule)
  IN  [date_kst |-> date, issued_supply |-> issued, wallet_total_balance |-> total,
       diff_amount |-> issued - total,
       is_ok |-> IF limit # None THEN Magnitude(issued - total) <= limit
                 ELSE issued = total,
       run_id |-> run_id, rule_id |-> IF rule = None THEN None ELSE rule.rule_id]

Supply(dates, silver, run_id, rules) ==
  { SupplyRow(date, silver, run_id, SelectRule(rules, "ledger.supply_diff_abs")) :
      date \in dates }

SupplyExceptions(dates, silver, run_id, rules) ==
  LET rule == SelectRule(rules, "ledger.supply_diff_abs")
      diff(r) == Magnitude(r.diff_amount)
      breaches == { r \in Supply(dates, silver, run_id, rules) : Severity(diff(r), rule) # None }
  IN  { [date_kst |-> r.date_kst, exception_type |-> "SUPPLY_MISMATCH",
         severity |-> Severity(diff(r), rule), metric |-> "supply_diff_abs",
         metric_value |-> diff(r),
         message |-> << r.issued_supply, r.wallet_total_balance, r.diff_amount >>,
         run_id |-> run_id, rule_id |-> r.rule_id] : r \in breaches }

-----------------------------------------------------------------------------
(* gold.ops_payment_failure_daily, gold.ops_payment_refund_daily *)

Merchants(date, orders) == { o.merchant_name : o \in OrdersOf(date, orders) }

OpsRow(date, merchant, orders, statuses, run_id) ==
  LET own == { o \in OrdersOf(date, orders) : o.merchant_name = merchant }
  IN  [date_kst |-> date, merchant_name |-> merchant,
       total_cnt |-> Cardinality(own),
       status_cnt |-> Cardinality({ o \in own : o.status \in statuses }),
       run_id |-> run_id]

OpsStatusDaily(dates, orders, statuses, run_id) ==
  UNION { { OpsRow(date, merchant, orders, statuses, run_id) :
              merchant \in Merchants(date, orders) } : date \in dates }

-----------------------------------------------------------------------------
(* gold.ops_ledger_pairing_quality_daily *)

RelatedIds(date, ledger) == { e.related_id : e \in EntriesOf(date, ledger) } \ {None}

\* Broken variant: two rows of one wallet are a pair.
IsPairOfRows(related_id, date, ledger) ==
  Cardinality({ e \in EntriesOf(date, ledger) : e.related_id = related_id }) = 2

IsPair(related_id, date, ledger) ==
  LET group == { e \in EntriesOf(date, ledger) : e.related_id = related_id }
  IN  /\ Cardinality(group) = 2
      /\ Cardinality({ e.wallet_id : e \in { x \in group : NonBlank(x.wallet_id) } }) = 2

\* The join with payment orders counts a group once for each row of its order.
PairingRow(date, ledger, orders, run_id) ==
  LET entries == EntriesOf(date, ledger)
      groups  == RelatedIds(date, ledger)
  IN  [date_kst |-> date, entry_cnt |-> Cardinality(entries),
       related_id_null |-> Cardinality({ e \in entries : e.related_id \in {None, ""} }),
       groups |-> Cardinality(groups),
       pair_candidates |-> Cardinality({ g \in groups : IsPair(g, date, ledger) }),
       joined |-> Cardinality({ o \in orders : o.order_id \in groups }),
       run_id |-> run_id]

Pairing(dates, ledger, orders, run_id) ==
  { PairingRow(date, ledger, orders, run_id) : date \in dates }

-----------------------------------------------------------------------------
(* gold.admin_tx_search *)

Searchable(date, ledger) ==
  { e \in EntriesOf(date, ledger) : NonBlank(e.tx_id) /\ NonBlank(e.wallet_id) }

\* The other transactions of the groups with exactly two transactions.
PairedTxIds(tx_id, date, ledger) ==
  LET txs(g) == { e.tx_id : e \in { x \in Searchable(date, ledger) : x.related_id = g } }
  IN  UNION { txs(g) \ {tx_id} :
                g \in { h \in RelatedIds(date, ledger) :
                          /\ NonBlank(h) /\ Cardinality(txs(h)) = 2 /\ tx_id \in txs(h) } }

AdminRow(e, paired_tx_id, date, run_id) ==
  [date_kst |-> date, tx_id |-> e.tx_id, wallet_id |-> e.wallet_id,
   entry_type |-> e.entry_type, amount_signed |-> e.amount_signed,
   related_id |-> e.related_id, payment_status |-> e.status,
   paired_tx_id |-> paired_tx_id, run_id |-> run_id]

\* The left join with the pairs: one row for each.
AdminRowsOf(e, date, ledger, run_id) ==
  LET paired == PairedTxIds(e.tx_id, date, ledger)
  IN  { AdminRow(e, tx, date, run_id) : tx \in IF paired = {} THEN {None} ELSE paired }

\* Broken variant: the join with the target dates is left out.
AdminTxSearchUnbound(dates, ledger, run_id) ==
  UNION { AdminRowsOf(e, EntryDate(e), ledger, run_id) : e \in ledger }

AdminTxSearch(dates, ledger, run_id) ==
  UNION { UNION { AdminRowsOf(e, date, ledger, run_id) : e \in Searchable(date, ledger) } :
            date \in dates }

=============================================================================
