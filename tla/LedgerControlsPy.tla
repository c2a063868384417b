-------------------------- MODULE LedgerControlsPy --------------------------
(***************************************************************************)
(* The plain Python statement of LedgerControls                            *)
(* (src/transforms/ledger_controls.py), for one target date.  It reads     *)
(* lists, here sequences, one record after the other, and keeps dicts,     *)
(* here functions on the keys seen so far.                                 *)
(***************************************************************************)
EXTENDS Integers, Sequences, SequencesExt, LedgerControls

\* dict[key] = value
Put(dict, key, value) ==
  [k \in DOMAIN dict \cup {key} |-> IF k = key THEN value ELSE dict[k]]

\* dict.get(key, default)
Get(dict, key, default) == IF key \in DOMAIN dict THEN dict[key] ELSE default

Filled(value) == value # None /\ value # ""

\* The date of a record, None where the loops go on to the next one.
EventKst(e) ==
  IF e.event_date_kst # None THEN e.event_date_kst
  ELSE IF e.event_time = None THEN None ELSE DateKst(e.event_time)

\* The positions of the records of a date.
On(date, ledger) == { i \in DOMAIN ledger : EventKst(ledger[i]) = date }

EvaluateSeverity(value, rule) ==
  IF rule = None THEN None
  ELSE IF rule.crit # None /\ value > rule.crit THEN "CRITICAL"
  ELSE IF rule.warn # None /\ value > rule.warn THEN "WARN"
  ELSE IF rule.threshold # None /\ value > rule.threshold THEN "CRITICAL"
  ELSE None

ResolveDqTag(tags) ==
  LET given == { tag \in tags : Filled(tag) }
  IN  IF given = {} THEN None
      ELSE CHOOSE tag \in given :
             \/ tag = "SOURCE_STALE"
             \/ /\ "SOURCE_STALE" \notin given
                /\ "EVENT_DROP_SUSPECTED" \in given => tag = "EVENT_DROP_SUSPECTED"

-----------------------------------------------------------------------------
\* The records each loop does not leave with continue.
IsSnapshot(w, date) ==
  /\ w.snapshot_ts # None /\ DateKst(w.snapshot_ts) = date
  /\ Filled(w.user_id) /\ w.balance_total # None

IsFlow(e, date) == EventKst(e) = date /\ Filled(e.wallet_id) /\ e.amount_signed # None

IsIssue(e, date) ==
  /\ EventKst(e) # None /\ EventKst(e) <= date
  /\ e.entry_type \in DOMAIN SupplyEntrySigns /\ e.amount # None

\* The bounds of each user after one more snapshot.
Widened(bounds, w) ==
  IF w.user_id \notin DOMAIN bounds
  THEN Put(bounds, w.user_id, [min_ts |-> w.snapshot_ts, max_ts |-> w.snapshot_ts,
                               start |-> w.balance_total, end |-> w.balance_total])
  ELSE LET b  == bounds[w.user_id]
           lo == IF w.snapshot_ts < b.min_ts
                 THEN [b EXCEPT !.min_ts = w.snapshot_ts, !.start = w.balance_total] ELSE b
       IN  Put(bounds, w.user_id,
               IF w.snapshot_ts > lo.max_ts
               THEN [lo EXCEPT !.max_ts = w.snapshot_ts, !.end = w.balance_total] ELSE lo)

SelectSnapshotBounds(wallets, date) ==
  FoldLeft(LAMBDA bounds, w : IF IsSnapshot(w, date) THEN Widened(bounds, w) ELSE bounds,
           << >>, wallets)

\* totals[wallet_id] += amount_signed
Flowed(totals, e) ==
  Put(totals, e.wallet_id, Get(totals, e.wallet_id, 0) + e.amount_signed)

AggregateNetFlow(ledger, date) ==
  FoldLeft(LAMBDA totals, e : IF IsFlow(e, date) THEN Flowed(totals, e) ELSE totals,
           << >>, ledger)

AggregateSupplyEntries(ledger, date) ==
  FoldLeft(LAMBDA total, e :
             IF IsIssue(e, date) THEN total + e.amount * SupplyEntrySigns[e.entry_type]
             ELSE total, 0, ledger)

\* sum(entry["end_balance"] for entry in snapshot_bounds.values())
TotalOfEnds(bounds, users) == FoldLeft(LAMBDA sum, u : sum + bounds[u].end, 0, users)

\* build_recon_snapshot_flow: << rows, exceptions >>
BuildReconSnapshotFlow(wallets, ledger, date, run_id, rules, tags) ==
  LET rule   == SelectRule(rules, "ledger.drift_abs")
      bounds == SelectSnapshotBounds(wallets, date)
      flows  == AggregateNetFlow(ledger, date)
      row(u) ==
        LET delta == bounds[u].end - bounds[u].start
            net   == Get(flows, u, 0)
            drift == Magnitude(delta - net)
        IN  [date_kst |-> date, user_id |-> u, delta_balance_total |-> delta,
             net_flow_total |-> net, drift_abs |-> drift,
             drift_pct |-> IF net # 0 THEN << drift, Magnitude(net) >> ELSE None,
             dq_tag |-> ResolveDqTag(tags), run_id |-> run_id,
             rule_id |-> IF rule # None THEN rule.rule_id ELSE None]
      judged(r) == EvaluateSeverity(r.drift_abs, rule)
      rows      == { row(u) : u \in DOMAIN bounds }
  IN  << rows,
         { [date_kst |-> date, exception_type |-> "RECON_DRIFT_HIGH",
            severity |-> judged(r), metric |-> "drift_abs", metric_value |-> r.drift_abs,
            message |-> << r.user_id, r.delta_balance_total, r.net_flow_total, r.drift_abs >>,
            run_id |-> run_id, rule_id |-> r.rule_id] :
             r \in { q \in rows : judged(q) # None } } >>

\* build_supply_balance_daily: << row, exceptions >>
BuildSupplyBalanceDaily(wallets, ledger, date, run_id, rules) ==
  LET rule    == SelectRule(rules, "ledger.supply_diff_abs")
      bounds  == SelectSnapshotBounds(wallets, date)
      total   == TotalOfEnds(bounds, SetToSeq(DOMAIN bounds))
      issued  == AggregateSupplyEntries(ledger, date)
      diff    == issued - total
      limit   == Threshold(rule)
      rule_id == IF rule # None THEN rule.rule_id ELSE None
  IN  << [date_kst |-> date, issued_supply |-> issued, wallet_total_balance |-> total,
          diff_amount |-> diff,
          is_ok |-> IF limit = None THEN diff = 0 ELSE Magnitude(diff) <= limit,
          run_id |-> run_id, rule_id |-> rule_id],
         IF EvaluateSeverity(Magnitude(diff), rule) = None THEN {}
         ELSE { [date_kst |-> date, exception_type |-> "SUPPLY_MISMATCH",
                 severity |-> EvaluateSeverity(Magnitude(diff), rule),
                 metric |-> "supply_diff_abs", metric_value |-> Magnitude(diff),
                 message |-> << issued, total, diff >>,
                 run_id |-> run_id, rule_id |-> rule_id] } >>

-----------------------------------------------------------------------------
\* The time of an order, None where the loop goes on to the next one.
CreatedAt(o) == IF o.created_at # None THEN o.created_at ELSE o.event_time

IsOrderOf(o, date) == CreatedAt(o) # None /\ DateKst(CreatedAt(o)) = date

\* One more order: the total of its merchant, and those in one of the statuses.
Tallied(aggregates, o, statuses) ==
  LET old == Get(aggregates, o.merchant_name, << 0, 0 >>)
  IN  Put(aggregates, o.merchant_name,
          << old[1] + 1, old[2] + IF o.status \in statuses THEN 1 ELSE 0 >>)

\* build_ops_payment_failure_daily and build_ops_payment_refund_daily, one loop
\* with two sets of statuses.
Tallies(orders, date, statuses) ==
  FoldLeft(LAMBDA aggregates, o :
             IF IsOrderOf(o, date) THEN Tallied(aggregates, o, statuses) ELSE aggregates,
           << >>, orders)

BuildOpsPaymentDaily(orders, date, statuses, run_id) ==
  LET aggregates == Tallies(orders, date, statuses)
  IN  { [date_kst |-> date, merchant_name |-> name, total_cnt |-> aggregates[name][1],
         status_cnt |-> aggregates[name][2], run_id |-> run_id] :
           name \in DOMAIN aggregates }

\* One more record of its group, of which its length and its wallets matter.
Grouped(groups, e) ==
  LET old == Get(groups, e.related_id, [size |-> 0, wallets |-> {}])
  IN  Put(groups, e.related_id,
          [size |-> old.size + 1, wallets |-> old.wallets \cup {e.wallet_id}])

GroupsOf(ledger, date) ==
  FoldLeft(LAMBDA groups, e :
             IF EventKst(e) = date /\ e.related_id # None THEN Grouped(groups, e) ELSE groups,
           << >>, ledger)

BuildOpsLedgerPairingQualityDaily(ledger, date, orders, run_id) ==
  LET groups    == GroupsOf(ledger, date)
      order_ids == { orders[i].order_id : i \in DOMAIN orders } \ {None}
  IN  [date_kst |-> date, entry_cnt |-> Cardinality(On(date, ledger)),
       related_id_null |->
         Cardinality({ i \in On(date, ledger) : ~Filled(ledger[i].related_id) }),
       groups |-> Cardinality(DOMAIN groups),
       pair_candidates |->
         Cardinality({ g \in DOMAIN groups :
           groups[g].size = 2 /\ Cardinality({ w \in groups[g].wallets : Filled(w) }) = 2 }),
       joined |-> Cardinality({ g \in DOMAIN groups : g \in order_ids }),
       run_id |-> run_id]

\* The records that are searched, by their positions.
Indexed(ledger, date) ==
  { i \in On(date, ledger) : Filled(ledger[i].tx_id) /\ Filled(ledger[i].wallet_id) }

\* Groups in the order of their first records, each one of two transactions a
\* pair: the pair of a transaction is that of the last.
PairedTx(tx_id, ledger, date) ==
  LET members(g) == { i \in Indexed(ledger, date) : ledger[i].related_id = g }
      first(g) == CHOOSE i \in members(g) : \A j \in members(g) : i <= j
      ids(g) == { ledger[i].tx_id : i \in members(g) }
      names == { ledger[i].related_id :
                   i \in { k \in Indexed(ledger, date) : Filled(ledger[k].related_id) } }
      pairs == { g \in names : Cardinality(ids(g)) = 2 /\ tx_id \in ids(g) }
      last  == CHOOSE g \in pairs : \A h \in pairs : first(h) <= first(g)
  IN  IF pairs = {} THEN None ELSE CHOOSE other \in ids(last) : other # tx_id

BuildAdminTxSearch(ledger, date, run_id) ==
  { AdminRow(ledger[i], PairedTx(ledger[i].tx_id, ledger, date), date, run_id) :
      i \in Indexed(ledger, date) }

=============================================================================
