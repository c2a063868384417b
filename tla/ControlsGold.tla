---------------------------- MODULE ControlsGold ----------------------------
(***************************************************************************)
(* The data of Pipeline B: executions of its two work tasks                *)
(* (scripts/run_pipeline_b.py) that load the runtime rules, compute the    *)
(* gold tables of their target dates from the silver tables, and MERGE     *)
(* them one after the other.  ControlsB has the job around them: whether a *)
(* task may start, its retries, and the state row; here it may always.     *)
(*                                                                         *)
(* The frames are lazy: each table is computed when it is written, over    *)
(* the silver tables as they are then.  The test for an empty frame and    *)
(* the MERGE are one step: a MERGE of no row changes nothing either.       *)
(* A feed brings batches of bronze rows; Silver transforms and merges one  *)
(* batch at a time.  Operators sync new seeds into the rule table.         *)
(***************************************************************************)
EXTENDS Integers, FiniteSets, Sequences, SilverTransformPy, LedgerControlsPy

CONSTANTS
  Attempts,   \* executions of a work task
  Requests,   \* the payloads of the runs
  Feeds,      \* sequences of batches of bronze and dq_status rows
  Seeds       \* the versions of the seed file, as sequences of items

Tasks == {"recon", "supply_ops"}

\* The order main() writes the tables in.
TablesOf ==
  [recon |-> << "recon_daily_snapshot_flow", "exception_ledger" >>,
   supply_ops |-> << "ledger_supply_balance_daily", "ops_payment_failure_daily",
                     "ops_payment_refund_daily", "ops_ledger_pairing_quality_daily",
                     "admin_tx_search", "exception_ledger" >>]

Tables == UNION { Range(TablesOf[t]) : t \in Tasks }

\* GOLD_MERGE_KEYS
Key(table, r) ==
  CASE table = "recon_daily_snapshot_flow" -> << r.date_kst, r.user_id >>
    [] table \in {"ledger_supply_balance_daily", "ops_ledger_pairing_quality_daily"} ->
         << r.date_kst >>
    [] table \in {"ops_payment_failure_daily", "ops_payment_refund_daily"} ->
         << r.date_kst, r.merchant_name >>
    [] table = "admin_tx_search"  -> << r.date_kst, r.tx_id >>
    [] table = "exception_ledger" ->
         << r.date_kst, r.exception_type, r.run_id, r.metric, r.message >>

\* What a feed brings at a time; StatusOrder has the statuses of its orders.
Batches ==
  { b \in [wallets : SUBSET WalletRaw, ledger : SUBSET LedgerRaw, orders : SUBSET OrderRaw,
           dq_status : SUBSET [date_kst : Int, dq_tag : Optional(STRING)]] :
      /\ IsFiniteSet(b.wallets) /\ IsFiniteSet(b.ledger) /\ IsFiniteSet(b.orders)
      /\ \A o \in b.orders : o.status \in Optional(Range(StatusOrder)) }

\* An item of the seed file.
SeedItem ==
  [rule_id : STRING, metric : Optional(STRING), threshold : Optional(Int), crit : Optional(Int),
   warn : Optional(Int), effective_start_ts : Optional(Int),
   effective_end_ts : Optional(Int), is_current : Optional(BOOLEAN)]

ASSUME ControlsGoldAssumption ==
  /\ None \notin WalletReasons \cup LedgerReasons \cup Severities
  /\ StatusOrder \in Seq(STRING)
  /\ \A p \in Requests : p \in Payload /\ Accepted(p)
  /\ Feeds \subseteq Seq(Batches)
  /\ Seeds \in Seq(Seq(SeedItem)) /\ Seeds # << >>

VARIABLES
  feed,             \* the batches still to come
  orders,           \* bronze.payment_orders_raw
  wallet_snapshot,  \* silver.wallet_snapshot
  ledger_entries,   \* silver.ledger_entries
  dq_status,        \* silver.dq_status
  seed,             \* the version of the seed file that is deployed
  rule_table,       \* gold.dim_rule_scd2, None before it exists
  gold,             \* table -> its rows
  pc,               \* attempt -> where its script is
  task,             \* attempt -> its task, None before it starts
  payload,          \* attempt -> its window parameters
  rules,            \* attempt -> the rules it loaded
  written           \* attempt -> the number of tables it is through with

\* History variables: read by the properties, never by the actions.
VARIABLES
  steady,           \* attempts whose inputs have not changed since they loaded
  settled           \* what such attempts completed and nothing changed since:
                    \* task, date, run_id and rules

upstream == << feed, orders, wallet_snapshot, ledger_entries, dq_status >>
ruling   == << seed, rule_table >>
locals   == << pc, task, payload, rules, written >>
history  == << steady, settled >>
vars     == << upstream, ruling, gold, locals, history >>

\* load_rule_seed
SeedRules(version) == { FromDict(Seeds[version][i]) : i \in DOMAIN Seeds[version] }

Init ==
  /\ feed \in Feeds
  /\ orders = {} /\ wallet_snapshot = {} /\ ledger_entries = {} /\ dq_status = {}
  /\ seed = 1
  /\ rule_table = None
  /\ gold = [t \in Tables |-> {}]
  /\ pc = [a \in Attempts |-> "idle"]
  /\ task = [a \in Attempts |-> None]
  /\ payload = [a \in Attempts |-> None]
  /\ rules = [a \in Attempts |-> {}]
  /\ written = [a \in Attempts |-> 0]
  /\ steady = {} /\ settled = {}

-----------------------------------------------------------------------------
(* The environment *)

Batch == Head(feed)

Upsert(table, rows, key(_)) ==
  rows \cup { r \in table : \A s \in rows : key(s) # key(r) }

\* The raw orders of a batch are there before Silver has run.
OrdersArrive ==
  /\ feed # << >> /\ ~(Batch.orders \subseteq orders)
  /\ orders' = orders \cup Batch.orders
  /\ steady' = {} /\ settled' = {}
  /\ UNCHANGED << feed, wallet_snapshot, ledger_entries, dq_status, ruling, gold, locals >>

\* Silver merges a batch, A has appended its tags.
SilverMerges ==
  /\ feed # << >> /\ Batch.orders \subseteq orders
  /\ wallet_snapshot' = Upsert(wallet_snapshot, WalletSnapshot(Batch.wallets),
                               LAMBDA w : << w.snapshot_ts, w.user_id >>)
  /\ ledger_entries' = Upsert(ledger_entries, LedgerEntries(Batch.ledger, orders),
                              LAMBDA e : << e.tx_id, e.wallet_id >>)
  /\ dq_status' = dq_status \cup Batch.dq_status
  /\ feed' = Tail(feed)
  /\ steady' = {} /\ settled' = {}
  /\ UNCHANGED << orders, ruling, gold, locals >>

\* sync_dim_rule_scd2.py with the deployed seed or the next one; a seed that
\* fails the checks is not written.
SyncRules ==
  \E version \in {seed, seed + 1} \cap DOMAIN Seeds :
    /\ Integrity(SeedRules(version))
    /\ rule_table' = Synced(OrElse(rule_table, {}), SeedRules(version))
    /\ seed' = version
    /\ UNCHANGED << upstream, gold, locals, history >>

-----------------------------------------------------------------------------
(* What an attempt computes *)

Silver == [wallets |-> wallet_snapshot, opening |-> wallet_snapshot,
           closing |-> wallet_snapshot, ledger |-> ledger_entries, dq_status |-> dq_status]

\* run_id is a digest of the parameters of the window.
RunId(a) == payload[a]

\* The dates of a run, and the ledger it reads: up to its last date.
Dates(p) == TargetDates(FromMapping(p))
LedgerUpTo(p) ==
  { e \in ledger_entries : \A d \in Dates(p) :
      (\A c \in Dates(p) : c <= d) => e.event_date_kst <= d }

Visible(p) == [Silver EXCEPT !.ledger = LedgerUpTo(p)]

\* What a table may be computed from when it is written.
Readings(p) ==
  LET untied == Untied(wallet_snapshot)
  IN  [wallets : {wallet_snapshot}, opening : untied, closing : untied,
       ledger : {LedgerUpTo(p)}, dq_status : {dq_status}]

\* The rows of a table for a task, a window, its run_id and a set of rules.
Frame(table, work, p, by, silver) ==
  LET dates == Dates(p)
  IN  CASE table = "recon_daily_snapshot_flow" -> Recon(dates, silver, p, by)
        [] table = "ledger_supply_balance_daily" -> Supply(dates, silver, p, by)
        [] table = "ops_payment_failure_daily" ->
             OpsStatusDaily(dates, orders, FailedStatuses, p)
        [] table = "ops_payment_refund_daily" ->
             OpsStatusDaily(dates, orders, RefundedStatuses, p)
        [] table = "ops_ledger_pairing_quality_daily" ->
             Pairing(dates, LedgerUpTo(p), orders, p)
        [] table = "admin_tx_search" -> AdminTxSearch(dates, LedgerUpTo(p), p)
        [] table = "exception_ledger" ->
             IF work = "recon" THEN ReconExceptions(dates, silver, p, by)
             ELSE SupplyExceptions(dates, silver, p, by)

\* A NULL in a merge key raises; Delta refuses two source rows that match one
\* row of the table.
Refused(table, rows) ==
  \/ \E r \in rows : \E i \in DOMAIN Key(table, r) : Key(table, r)[i] = None
  \/ \E target \in gold[table], r, s \in rows :
       r # s /\ Key(table, r) = Key(table, target) /\ Key(table, s) = Key(table, target)

\* Broken variant: rows that are there already are kept as they are.
MergedInsertsOnly(table, rows) ==
  gold[table] \cup
    { r \in rows : \A target \in gold[table] : Key(table, target) # Key(table, r) }

\* Broken variant: saveAsTable in mode append.
MergedAppends(table, rows) == gold[table] \cup rows

Merged(table, rows) == Upsert(gold[table], rows, LAMBDA r : Key(table, r))

-----------------------------------------------------------------------------
(* The script of a work task *)

Active(a) == pc[a] \in {"load", "write"}

\* The two tasks of one run run side by side, runs one after the other.
Start(a) ==
  /\ pc[a] = "idle"
  /\ \E t \in Tasks, p \in Requests :
       /\ \A b \in Attempts : Active(b) => task[b] # t /\ payload[b] = p
       /\ task' = [task EXCEPT ![a] = t]
       /\ payload' = [payload EXCEPT ![a] = p]
  /\ pc' = [pc EXCEPT ![a] = "load"]
  /\ UNCHANGED << upstream, ruling, gold, rules, written, history >>

\* Broken variant: the rules of the table are taken as they are.
LoadRulesUnchecked(a) ==
  /\ pc[a] = "load"
  /\ rule_table # None
  /\ rules' = [rules EXCEPT ![a] = rule_table]
  /\ pc' = [pc EXCEPT ![a] = "write"]
  /\ steady' = steady \cup {a}
  /\ UNCHANGED << upstream, ruling, gold, task, payload, written, settled >>

\* load_rule_table, in both modes.
LoadRules(a) ==
  /\ pc[a] = "load"
  /\ rule_table # None
  /\ Integrity(rule_table)
  /\ rules' = [rules EXCEPT ![a] = rule_table]
  /\ pc' = [pc EXCEPT ![a] = "write"]
  /\ steady' = steady \cup {a}
  /\ UNCHANGED << upstream, ruling, gold, task, payload, written, settled >>

\* Mode fallback: a table that is missing or cannot be read, and only such a
\* table, is replaced by the seed.
FallBackToSeed(a) ==
  /\ pc[a] = "load"
  /\ Integrity(SeedRules(seed))
  /\ rules' = [rules EXCEPT ![a] = SeedRules(seed)]
  /\ pc' = [pc EXCEPT ![a] = "write"]
  /\ steady' = steady \cup {a}
  /\ UNCHANGED << upstream, ruling, gold, task, payload, written, settled >>

\* What a and earlier runs settled about the dates of a and a now rewrites.
Unsettled(a) ==
  { s \in settled : /\ s.task = task[a] /\ s.date \in Dates(payload[a])
                    /\ s.run_id # RunId(a) \/ s.rules # rules[a] }

NowSettled(a) ==
  IF a \in steady
  THEN { [task |-> task[a], date |-> d, run_id |-> RunId(a), rules |-> rules[a]] :
           d \in Dates(payload[a]) }
  ELSE {}

\* The variables of the process are gone with it.
Leave(a) ==
  /\ pc' = [pc EXCEPT ![a] = "ended"]
  /\ task' = [task EXCEPT ![a] = None]
  /\ payload' = [payload EXCEPT ![a] = None]
  /\ rules' = [rules EXCEPT ![a] = {}]
  /\ written' = [written EXCEPT ![a] = 0]
  /\ steady' = steady \ {a}

\* _write_gold_df of the next table; the script ends with the last one.
Write(a) ==
  /\ pc[a] = "write"
  /\ \E silver \in Readings(payload[a]) :
       LET table == TablesOf[task[a]][written[a] + 1]
           rows  == Frame(table, task[a], payload[a], rules[a], silver)
           last  == written[a] + 1 = Len(TablesOf[task[a]])
       IN /\ ~Refused(table, rows)
          /\ gold' = [gold EXCEPT ![table] = Merged(table, rows)]
          /\ settled' = (settled \ Unsettled(a)) \cup (IF last THEN NowSettled(a) ELSE {})
          /\ IF last THEN Leave(a)
             ELSE /\ written' = [written EXCEPT ![a] = @ + 1]
                  /\ UNCHANGED << pc, task, payload, rules, steady >>
  /\ UNCHANGED << upstream, ruling >>

WriteRefused(a) ==
  /\ pc[a] = "write"
  /\ \E silver \in Readings(payload[a]) :
       LET table == TablesOf[task[a]][written[a] + 1]
       IN  Refused(table, Frame(table, task[a], payload[a], rules[a], silver))
  /\ pc' = [pc EXCEPT ![a] = "refused"]
  /\ UNCHANGED << upstream, ruling, gold, task, payload, rules, written, history >>

\* Rules that do not load, any other error, a timeout or a lost cluster: a
\* work task reports nothing.
Fail(a) ==
  /\ Active(a)
  /\ Leave(a)
  /\ UNCHANGED << upstream, ruling, gold, settled >>

-----------------------------------------------------------------------------
Script(a) ==
  \/ Start(a) \/ LoadRules(a) \/ FallBackToSeed(a) \/ Write(a) \/ WriteRefused(a) \/ Fail(a)

Next == OrdersArrive \/ SilverMerges \/ SyncRules \/ \E a \in Attempts : Script(a)

Spec == Init /\ [][Next]_vars

-----------------------------------------------------------------------------
\* Every variable holds values of its kind, and what an attempt judges by has
\* passed the checks of a rule set.
TypeOK ==
  /\ rule_table # None => \A r \in rule_table : r.is_current \in BOOLEAN
  /\ DOMAIN gold = Tables
  /\ pc \in [Attempts -> {"idle", "load", "write", "refused", "ended"}]
  /\ task \in [Attempts -> Optional(Tasks)]
  /\ payload \in [Attempts -> Optional(Requests)]
  /\ \A a \in Attempts : task[a] # None => written[a] \in 0..Len(TablesOf[task[a]])
  /\ \A a \in Attempts : pc[a] = "write" => Integrity(rules[a])
  /\ steady \subseteq Attempts

\* No table but admin_tx_search ever holds two rows under one key: MERGE does
\* not see to it, since it inserts every row that matches none.
OneRowPerKey ==
  \A t \in Tables \ {"admin_tx_search"} : \A r, s \in gold[t] :
    Key(t, r) = Key(t, s) => r = s

OnDate(rows, date) == { r \in rows : r.date_kst = date }

\* No user has two snapshots at one instant.
SnapshotsApart == \A v, w \in wallet_snapshot : SameInstant(v, w) => v = w

\* The silver tables and the rules determine a table: it shows no balances, or
\* no snapshots are tied.
Determined(table) ==
  table \in {"recon_daily_snapshot_flow", "ledger_supply_balance_daily", "exception_ledger"}
    => SnapshotsApart

\* Reruns converge (decision D-016, operations_runbook.md "key/partition"):
\* after a success over unchanging tables the rows of its dates are those the
\* silver tables and the rules give, if these determine them, whatever killed
\* attempts, other windows, earlier versions of the inputs and parallel tasks
\* have left there.  In the two tables whose keys hold what is computed, older
\* rows may remain.
GoldConverges ==
  \A s \in settled : \A t \in { u \in Range(TablesOf[s.task]) : Determined(u) } :
    LET expected == OnDate(Frame(t, s.task, s.run_id, s.rules, Visible(s.run_id)), s.date)
    IN  IF t \in {"admin_tx_search", "exception_ledger"}
        THEN expected \subseteq gold[t]
        ELSE OnDate(gold[t], s.date) = expected

Limits(rule) == rule # None /\ Threshold(rule) # None

\* The exception of a settled date and its run that holds a value.
Recorded(s, metric, value) ==
  \E x \in gold["exception_ledger"] :
    x.date_kst = s.date /\ x.run_id = s.run_id /\ x.metric = metric /\ x.metric_value = value

\* A drift beyond the limit that the daily table shows is in the exception
\* ledger, with its value and under the run that found it, whatever other runs
\* have merged into either table.  Two tables written over tied snapshots may
\* differ; rules without any limit but warn judge one and not the other.
DriftsRecorded ==
  SnapshotsApart => \A s \in settled :
    LET rule == SelectRule(s.rules, "ledger.drift_abs")
    IN  s.task = "recon" /\ Limits(rule) =>
          \A r \in OnDate(gold["recon_daily_snapshot_flow"], s.date) :
            r.drift_abs > Threshold(rule) => Recorded(s, "drift_abs", r.drift_abs)

\* So is a day whose supply is not ok: is_ok is judged by other code than the
\* severity of an exception.
MismatchesRecorded ==
  SnapshotsApart => \A s \in settled :
    s.task = "supply_ops" /\ Limits(SelectRule(s.rules, "ledger.supply_diff_abs")) =>
      \A r \in OnDate(gold["ledger_supply_balance_daily"], s.date) :
        ~r.is_ok => Recorded(s, "supply_diff_abs", Magnitude(r.diff_amount))

\* The rule table stops loading only through a rule that was current when it
\* left the seed: the sync keeps it current for ever.
RulesLoadable ==
  rule_table # None =>
    \/ Integrity(rule_table)
    \/ \E r \in rule_table : r.is_current /\ \A s \in SeedRules(seed) : s.rule_id # r.rule_id

-----------------------------------------------------------------------------
(* The plain Python statements.  They are compared over the tables there   *)
(* can be; those do not depend on the attempts, so that the states before  *)
(* the first one starts are enough.                                        *)

Untouched == \A a \in Attempts : pc[a] = "idle"

\* A list of orders as they came: none before an older one.
AsTheyCame(listed) ==
  \A i, j \in DOMAIN listed : i < j => ~LaterThan(listed[i], listed[j])

\* Identifiers of spaces only are blank to Spark and not to Python.
Spaced(r, fields) == \E f \in fields : r[f] = " "

\* Row by row, the Spark job and the Python statement of Silver agree on the
\* silver row and on the first reason a row is bad, given orders in any order
\* they can have come in: the two look statuses up by different means.
SilverTwinsAgree ==
  Untouched /\ feed # << >> =>
    LET known == { o \in orders : o.order_id # None /\ o.status # None }
    IN  /\ \A w \in Batch.wallets : Spaced(w, {"user_id"}) \/
             TransformWalletRecord(w) =
               IF WalletReason(w) # None THEN Bad(WalletReason(w)) ELSE Good(WalletRow(w))
        /\ \A listed \in SetToSeqs(known), l \in Batch.ledger :
             AsTheyCame(listed) /\ ~Spaced(l, {"tx_id", "wallet_id", "type", "entry_type"}) =>
               TransformLedgerRecord(l, BuildStatusLookup(listed)) =
                 IF LedgerReason(l, orders) # None THEN Bad(LedgerReason(l, orders))
                 ELSE Good(LedgerRow(l, orders))

AllDates == UNION { Dates(p) : p \in Requests }

\* Two orders of a list.
Listed(rows, reversed) == IF reversed THEN Reverse(SetToSeq(rows)) ELSE SetToSeq(rows)

TagsOf(date) == { s.dq_tag : s \in { r \in dq_status : r.date_kst = date } }

\* Of two tags without a rank the Spark job takes the least, Python any.
OneTag(date) ==
  LET ranked == {"SOURCE_STALE", "EVENT_DROP_SUSPECTED"}
      others == { tag \in TagsOf(date) : Filled(tag) } \ ranked
  IN  " " \notin TagsOf(date) /\ \A tag, other \in others : tag = other

\* The balances of a day, their verdicts and exceptions are the same from the
\* Spark job and from the Python statement, whatever order its lists are in, if
\* snapshots and tags leave no choice.
BalanceTwinsAgree ==
  Untouched /\ SnapshotsApart => \A d \in AllDates, reversed \in BOOLEAN :
    LET by      == SeedRules(seed)
        wallets == Listed(wallet_snapshot, reversed)
        ledger  == Listed(ledger_entries, reversed)
        recon   == BuildReconSnapshotFlow(wallets, ledger, d, None, by, TagsOf(d))
        supply  == BuildSupplyBalanceDaily(wallets, ledger, d, None, by)
    IN  /\ OneTag(d) => /\ recon[1] = Recon({d}, Silver, None, by)
                        /\ recon[2] = ReconExceptions({d}, Silver, None, by)
        /\ {supply[1]} = Supply({d}, Silver, None, by)
        /\ supply[2] = SupplyExceptions({d}, Silver, None, by)

\* So are the operational tables, but for what the Spark job multiplies, groups
\* whose order has several raw rows and transactions in two pairs, and but for
\* related ids of spaces, which pair transactions in Python only.
OpsTwinsAgree ==
  Untouched => \A d \in AllDates, reversed \in BOOLEAN :
    LET ledger  == Listed(ledger_entries, reversed)
        raw     == Listed(orders, reversed)
        daily(statuses) ==
          BuildOpsPaymentDaily(raw, d, statuses, None)
            = OpsStatusDaily({d}, orders, statuses, None)
        pairing == PairingRow(d, ledger_entries, orders, None)
        single  == \A o, other \in orders : o.order_id = other.order_id => o = other
        once(rows) ==
          { r \in rows : /\ Cardinality(PairedTxIds(r.tx_id, d, ledger_entries)) <= 1
                         /\ \A e \in ledger_entries :
                              e.tx_id = r.tx_id => ~Spaced(e, {"related_id"}) }
    IN  /\ daily(FailedStatuses) /\ daily(RefundedStatuses)
        /\ BuildOpsLedgerPairingQualityDaily(ledger, d, raw, None)
             = IF single THEN pairing
               ELSE [pairing EXCEPT !.joined =
                       Cardinality({ o.order_id : o \in orders }
                                     \cap RelatedIds(d, ledger_entries))]
        /\ once(BuildAdminTxSearch(ledger, d, None))
             = once(AdminTxSearch({d}, ledger_entries, None))

-----------------------------------------------------------------------------
\* A run changes nothing outside its dates, although it reads the ledger of all
\* days before them and raw orders of all days.
GoldTouchesOnlyWindow ==
  [][\A t \in Tables : \A r \in (gold[t] \cup gold'[t]) \ (gold[t] \cap gold'[t]) :
       \E a \in Attempts : pc[a] = "write" /\ r.date_kst \in Dates(payload[a])]_vars

\* Reruns are allowed (project_specs.md: the same run_id may be run again): a
\* rerun of what succeeded over the same tables is not refused.
RerunAccepted ==
  \A a \in Attempts : pc[a] = "refused" =>
    \E d \in Dates(payload[a]) :
      [task |-> task[a], date |-> d, run_id |-> RunId(a), rules |-> rules[a]] \notin settled

=============================================================================
