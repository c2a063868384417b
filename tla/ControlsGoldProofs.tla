------------------------- MODULE ControlsGoldProofs -------------------------
(***************************************************************************)
(* Proofs about ControlsGold: its type invariant, what keeps the rule      *)
(* table loadable, that a merge leaves one row for each key and touches    *)
(* the dates of its run only, that reruns converge, and that a drift or a  *)
(* mismatch a daily table shows is in the exception ledger.                *)
(***************************************************************************)
EXTENDS ControlsGold, FiniteSetTheorems, InductionFacts, TLAPS

(* The attempts and what the feed brings: an active attempt has its task to *)
(* itself and is within its tables.                                         *)

LocalsInv ==
  /\ feed \in Seq(Batches)
  /\ DOMAIN rules = Attempts /\ DOMAIN written = Attempts
  /\ \A a \in Attempts :
       /\ Active(a) => task[a] \in Tasks /\ payload[a] \in Requests
       /\ pc[a] \in {"idle", "load"} => written[a] = 0
       /\ pc[a] = "write" => written[a] \in 0 .. Len(TablesOf[task[a]]) - 1
  /\ \A a, b \in Attempts : Active(a) /\ Active(b) /\ a # b => task[a] # task[b]

\* A rule table that was synced holds each rule once.
RuleInv ==
  /\ RulesLoadable
  /\ rule_table # None => \A r, s \in rule_table : r.rule_id = s.rule_id => r = s

\* A row of a daily table has its key in the tables of today: users and
\* merchants do not go away.
KeysStand ==
  /\ \A r \in gold["recon_daily_snapshot_flow"] :
       r.user_id \in Users(r.date_kst, wallet_snapshot)
  /\ \A t \in {"ops_payment_failure_daily", "ops_payment_refund_daily"} :
       \A r \in gold[t] : r.merchant_name \in Merchants(r.date_kst, orders)

\* A table that is determined shows for a date what a task computes with its
\* window and rules.
Converged(t, work, p, by, date) ==
  Determined(t) =>
  LET expected == OnDate(Frame(t, work, p, by, Visible(p)), date)
  IN  IF t \in {"admin_tx_search", "exception_ledger"}
      THEN expected \subseteq gold[t]
      ELSE OnDate(gold[t], date) = expected

\* What is settled is shown.
SettledInv ==
  \A s \in settled :
    /\ s.task \in Tasks
    /\ \A t \in Range(TablesOf[s.task]) : Converged(t, s.task, s.run_id, s.rules, s.date)

\* So is what a steady attempt has written so far.
SteadyInv ==
  \A a \in steady : \A w, p, by :
    pc[a] = "write" /\ w = task[a] /\ p = payload[a] /\ by = rules[a] =>
      \A i \in 1 .. written[a], d \in Dates(p) : Converged(TablesOf[w][i], w, p, by, d)

\* The tables of Silver are finite and their amounts numbers.
DataInv ==
  /\ IsFiniteSet(wallet_snapshot) /\ IsFiniteSet(ledger_entries)
  /\ \A w \in wallet_snapshot : w.snapshot_ts \in Int /\ w.balance_total \in Int
  /\ \A e \in ledger_entries : e.amount \in Optional(Int)

\* A finite set of rules with numbers for limits.
Judging(by) ==
  /\ IsFiniteSet(by)
  /\ \A r \in by : /\ r.effective_start_ts \in Int
                    /\ r.threshold \in Optional(Int) /\ r.crit \in Optional(Int)

\* The rules of the table, of the attempts and of what they settled are such.
JudgingInv ==
  /\ seed \in DOMAIN Seeds
  /\ rule_table # None => Judging(rule_table)
  /\ \A a \in Attempts : Judging(rules[a])
  /\ \A s \in settled : Judging(s.rules)

-----------------------------------------------------------------------------
(* The operators *)

\* A merge: the rows, and those that were there under other keys.
LEMMA MergedRows ==
  ASSUME NEW t, NEW rows, NEW r
  PROVE  r \in Merged(t, rows) <=>
           \/ r \in rows
           \/ r \in gold[t] /\ \A s \in rows : Key(t, s) # Key(t, r)
  BY DEF Merged, Upsert

\* The key of a table begins with the date.
LEMMA KeyDate ==
  ASSUME NEW t \in Tables, NEW r, NEW s, Key(t, r) = Key(t, s)
  PROVE  r.date_kst = s.date_kst
  BY DEF Tables, Key, TablesOf, Range, Tasks

\* The tables by name.
LEMMA TableNames ==
  /\ Tables = {"recon_daily_snapshot_flow", "exception_ledger", "ledger_supply_balance_daily",
               "ops_payment_failure_daily", "ops_payment_refund_daily",
               "ops_ledger_pairing_quality_daily", "admin_tx_search"}
  /\ \A w \in Tasks : /\ Len(TablesOf[w]) \in Nat \ {0}
                      /\ DOMAIN TablesOf[w] = 1 .. Len(TablesOf[w])
                      /\ \A i \in 1 .. Len(TablesOf[w]) : TablesOf[w][i] \in Tables
  BY DEF Tables, TablesOf, Range, Tasks

\* A table is written by one task, but for the exceptions.
LEMMA OwnTables ==
  ASSUME NEW v \in Tasks, NEW w \in Tasks, v # w,
         NEW t \in Range(TablesOf[v]), NEW i \in 1 .. Len(TablesOf[w]), TablesOf[w][i] = t
  PROVE  t = "exception_ledger"
  BY DEF TablesOf, Range, Tasks

\* The rows of a daily balance: one for each user with a snapshot on the date.
LEMMA ReconRows ==
  ASSUME NEW dates, NEW silver, NEW p, NEW by
  PROVE  /\ \A r \in Recon(dates, silver, p, by) :
              r.date_kst \in dates /\ r.user_id \in Users(r.date_kst, silver.wallets)
         /\ \A r, s \in Recon(dates, silver, p, by) :
              r.date_kst = s.date_kst /\ r.user_id = s.user_id => r = s
  <1> DEFINE rule == SelectRule(by, "ledger.drift_abs")
             Row(u, d) == ReconRow(u, d, silver, p, rule)
  <1>1. \A r : r \in Recon(dates, silver, p, by) <=>
          \E d \in dates : \E u \in Users(d, silver.wallets) : r = Row(u, d)
    BY DEF Recon
  <1>2. \A u, d : Row(u, d).date_kst = d /\ Row(u, d).user_id = u
    BY DEF ReconRow
  <1> HIDE DEF Row
  <1> QED BY <1>1, <1>2

\* One row for each merchant with an order on the date.
LEMMA OpsRows ==
  ASSUME NEW dates, NEW rows, NEW statuses, NEW p
  PROVE  /\ \A r \in OpsStatusDaily(dates, rows, statuses, p) :
              r.date_kst \in dates /\ r.merchant_name \in Merchants(r.date_kst, rows)
         /\ \A r, s \in OpsStatusDaily(dates, rows, statuses, p) :
              r.date_kst = s.date_kst /\ r.merchant_name = s.merchant_name => r = s
         /\ \A date \in dates : \A merchant \in Merchants(date, rows) :
              \E r \in OpsStatusDaily(dates, rows, statuses, p) :
                r.date_kst = date /\ r.merchant_name = merchant
  <1> DEFINE Row(d, m) == OpsRow(d, m, rows, statuses, p)
  <1>1. \A r : r \in OpsStatusDaily(dates, rows, statuses, p) <=>
          \E d \in dates : \E m \in Merchants(d, rows) : r = Row(d, m)
    BY DEF OpsStatusDaily
  <1>2. \A d, m : Row(d, m).date_kst = d /\ Row(d, m).merchant_name = m
    BY DEF OpsRow
  <1> HIDE DEF Row
  <1> QED BY <1>1, <1>2

\* One row for each date.
LEMMA SupplyRows ==
  ASSUME NEW dates, NEW silver, NEW p, NEW by
  PROVE  /\ \A r \in Supply(dates, silver, p, by) : r.date_kst \in dates
         /\ \A r, s \in Supply(dates, silver, p, by) : r.date_kst = s.date_kst => r = s
         /\ \A date \in dates : \E r \in Supply(dates, silver, p, by) : r.date_kst = date
  <1> DEFINE Row(d) == SupplyRow(d, silver, p, SelectRule(by, "ledger.supply_diff_abs"))
  <1>1. \A r : r \in Supply(dates, silver, p, by) <=> \E d \in dates : r = Row(d)
    BY DEF Supply
  <1>2. \A d : Row(d).date_kst = d
    BY DEF SupplyRow
  <1> HIDE DEF Row
  <1> QED BY <1>1, <1>2

\* One row for each date.
LEMMA PairingRows ==
  ASSUME NEW dates, NEW ledger, NEW rows, NEW p
  PROVE  /\ \A r \in Pairing(dates, ledger, rows, p) : r.date_kst \in dates
         /\ \A r, s \in Pairing(dates, ledger, rows, p) : r.date_kst = s.date_kst => r = s
         /\ \A date \in dates : \E r \in Pairing(dates, ledger, rows, p) : r.date_kst = date
  <1> DEFINE Row(d) == PairingRow(d, ledger, rows, p)
  <1>1. \A r : r \in Pairing(dates, ledger, rows, p) <=> \E d \in dates : r = Row(d)
    BY DEF Pairing
  <1>2. \A d : Row(d).date_kst = d
    BY DEF PairingRow
  <1> HIDE DEF Row
  <1> QED BY <1>1, <1>2

\* The exceptions of the balances: one for each row beyond the limit.
LEMMA ReconExceptionRows ==
  ASSUME NEW dates, NEW silver, NEW p, NEW by
  PROVE  LET frame == ReconExceptions(dates, silver, p, by)
         IN  /\ \A x \in frame : x.date_kst \in dates /\ x.exception_type = "RECON_DRIFT_HIGH"
             /\ \A x, y \in frame :
                  x.date_kst = y.date_kst /\ x.message = y.message => x = y
  <1> DEFINE rule == SelectRule(by, "ledger.drift_abs")
             Row(r) == [date_kst |-> r.date_kst, exception_type |-> "RECON_DRIFT_HIGH",
                        severity |-> Severity(r.drift_abs, rule), metric |-> "drift_abs",
                        metric_value |-> r.drift_abs,
                        message |-> << r.user_id, r.delta_balance_total, r.net_flow_total,
                                       r.drift_abs >>,
                        run_id |-> p, rule_id |-> r.rule_id]
             frame == ReconExceptions(dates, silver, p, by)
  <1>1. \A x \in frame : \E r \in Recon(dates, silver, p, by) : x = Row(r)
    BY DEF ReconExceptions
  <1>2. \A r : /\ Row(r).date_kst = r.date_kst /\ Row(r).exception_type = "RECON_DRIFT_HIGH"
               /\ Row(r).message[1] = r.user_id
    OBVIOUS
  <1> HIDE DEF Row, frame
  <1>3. /\ \A x \in frame : x.date_kst \in dates /\ x.exception_type = "RECON_DRIFT_HIGH"
        /\ \A x, y \in frame : x.date_kst = y.date_kst /\ x.message = y.message => x = y
    BY <1>1, <1>2, ReconRows
  <1> QED BY <1>3 DEF frame

\* The exceptions of the supply: at most one for each date.
LEMMA SupplyExceptionRows ==
  ASSUME NEW dates, NEW silver, NEW p, NEW by
  PROVE  LET frame == SupplyExceptions(dates, silver, p, by)
         IN  /\ \A x \in frame : x.date_kst \in dates /\ x.exception_type = "SUPPLY_MISMATCH"
             /\ \A x, y \in frame : x.date_kst = y.date_kst => x = y
  <1> DEFINE rule == SelectRule(by, "ledger.supply_diff_abs")
             diff(r) == Magnitude(r.diff_amount)
             Row(r) == [date_kst |-> r.date_kst, exception_type |-> "SUPPLY_MISMATCH",
                        severity |-> Severity(diff(r), rule), metric |-> "supply_diff_abs",
                        metric_value |-> diff(r),
                        message |-> << r.issued_supply, r.wallet_total_balance,
                                       r.diff_amount >>,
                        run_id |-> p, rule_id |-> r.rule_id]
             frame == SupplyExceptions(dates, silver, p, by)
  <1>1. \A x \in frame : \E r \in Supply(dates, silver, p, by) : x = Row(r)
    BY DEF SupplyExceptions
  <1>2. \A r : Row(r).date_kst = r.date_kst /\ Row(r).exception_type = "SUPPLY_MISMATCH"
    OBVIOUS
  <1> HIDE DEF Row, frame
  <1>3. /\ \A x \in frame : x.date_kst \in dates /\ x.exception_type = "SUPPLY_MISMATCH"
        /\ \A x, y \in frame : x.date_kst = y.date_kst => x = y
    BY <1>1, <1>2, SupplyRows
  <1> QED BY <1>3 DEF frame

\* A transaction is shown on the dates of the run.
LEMMA AdminRows ==
  ASSUME NEW dates, NEW ledger, NEW p, NEW r \in AdminTxSearch(dates, ledger, p)
  PROVE  r.date_kst \in dates
  <1>1. PICK date \in dates :
          \E e \in Searchable(date, ledger) : r \in AdminRowsOf(e, date, ledger, p)
    BY DEF AdminTxSearch
  <1>2. PICK e, tx : r = AdminRow(e, tx, date, p)
    BY <1>1 DEF AdminRowsOf
  <1> QED BY <1>1, <1>2 DEF AdminRow

\* What a task computes for a table is of the dates of its window, and but for
\* admin_tx_search has each key once.
LEMMA FrameRows ==
  ASSUME NEW t \in Tables, NEW work, NEW p, NEW by, NEW silver
  PROVE  /\ \A r \in Frame(t, work, p, by, silver) : r.date_kst \in Dates(p)
         /\ t # "admin_tx_search" =>
              \A r, s \in Frame(t, work, p, by, silver) : Key(t, r) = Key(t, s) => r = s
  <1>1. CASE t = "recon_daily_snapshot_flow"
    BY <1>1, ReconRows DEF Frame, Key
  <1>2. CASE t = "ledger_supply_balance_daily"
    BY <1>2, SupplyRows DEF Frame, Key
  <1>3. CASE t = "ops_payment_failure_daily"
    BY <1>3, OpsRows DEF Frame, Key
  <1>4. CASE t = "ops_payment_refund_daily"
    BY <1>4, OpsRows DEF Frame, Key
  <1>5. CASE t = "ops_ledger_pairing_quality_daily"
    BY <1>5, PairingRows DEF Frame, Key
  <1>6. CASE t = "admin_tx_search"
    BY <1>6, AdminRows DEF Frame
  <1>7. CASE t = "exception_ledger"
    BY <1>7, ReconExceptionRows, SupplyExceptionRows DEF Frame, Key
  <1> QED BY <1>1, <1>2, <1>3, <1>4, <1>5, <1>6, <1>7, TableNames

\* The exceptions of the two tasks are of different types.
LEMMA ExceptionTypes ==
  ASSUME NEW v \in Tasks, NEW w \in Tasks, v # w, NEW p, NEW q, NEW by, NEW other,
         NEW silver, NEW later,
         NEW x \in Frame("exception_ledger", v, p, by, silver),
         NEW y \in Frame("exception_ledger", w, q, other, later)
  PROVE  Key("exception_ledger", x) # Key("exception_ledger", y)
  <1>1. \A z \in Frame("exception_ledger", "recon", p, by, silver) :
          z.exception_type = "RECON_DRIFT_HIGH"
    BY ReconExceptionRows DEF Frame
  <1>2. \A z \in Frame("exception_ledger", "recon", q, other, later) :
          z.exception_type = "RECON_DRIFT_HIGH"
    BY ReconExceptionRows DEF Frame
  <1>3. \A z \in Frame("exception_ledger", "supply_ops", p, by, silver) :
          z.exception_type = "SUPPLY_MISMATCH"
    BY SupplyExceptionRows DEF Frame
  <1>4. \A z \in Frame("exception_ledger", "supply_ops", q, other, later) :
          z.exception_type = "SUPPLY_MISMATCH"
    BY SupplyExceptionRows DEF Frame
  <1>5. x.exception_type # y.exception_type
    BY <1>1, <1>2, <1>3, <1>4 DEF Tasks
  <1> QED BY <1>5 DEF Key

\* Every row a daily table holds for a date of the window has its key in what
\* a task computes.
LEMMA FrameCovers ==
  ASSUME KeysStand, NEW t \in Tables \ {"admin_tx_search", "exception_ledger"},
         NEW work, NEW p, NEW by, NEW silver, silver.wallets = wallet_snapshot,
         NEW r \in gold[t], r.date_kst \in Dates(p)
  PROVE  \E s \in Frame(t, work, p, by, silver) : Key(t, s) = Key(t, r)
  <1>1. CASE t = "recon_daily_snapshot_flow"
    <2> DEFINE date == r.date_kst
               user_id == r.user_id
               row == ReconRow(user_id, date, silver, p, SelectRule(by, "ledger.drift_abs"))
    <2>1. user_id \in Users(date, silver.wallets) /\ date \in Dates(p)
      BY <1>1 DEF KeysStand
    <2>2. row \in Recon(Dates(p), silver, p, by)
      BY <2>1 DEF Recon
    <2>3. row.date_kst = date /\ row.user_id = user_id
      BY DEF ReconRow
    <2> HIDE DEF row
    <2> QED BY <1>1, <2>2, <2>3 DEF Frame, Key
  <1>2. CASE t = "ledger_supply_balance_daily"
    BY <1>2, SupplyRows DEF Frame, Key
  <1>3. CASE t \in {"ops_payment_failure_daily", "ops_payment_refund_daily"}
    <2> DEFINE dates == Dates(p)
               statuses == IF t = "ops_payment_failure_daily" THEN FailedStatuses
                           ELSE RefundedStatuses
    <2>1. r.merchant_name \in Merchants(r.date_kst, orders) /\ r.date_kst \in dates
      BY <1>3 DEF KeysStand
    <2>2. Frame(t, work, p, by, silver) = OpsStatusDaily(dates, orders, statuses, p)
      BY <1>3 DEF Frame
    <2> HIDE DEF dates, statuses
    <2>3. PICK s \in OpsStatusDaily(dates, orders, statuses, p) :
            s.date_kst = r.date_kst /\ s.merchant_name = r.merchant_name
      BY <2>1, OpsRows
    <2> QED BY <1>3, <2>2, <2>3 DEF Key
  <1>4. CASE t = "ops_ledger_pairing_quality_daily"
    BY <1>4, PairingRows DEF Frame, Key
  <1> QED BY <1>1, <1>2, <1>3, <1>4, TableNames

-----------------------------------------------------------------------------
(* The attempts *)

\* The rules of a seed say whether they are current.
LEMMA SeedTyped ==
  ASSUME NEW version \in DOMAIN Seeds, NEW r \in SeedRules(version)
  PROVE  r.is_current \in BOOLEAN
  <1>1. PICK i \in DOMAIN Seeds[version] : r = FromDict(Seeds[version][i])
    BY DEF SeedRules
  <1> DEFINE item == Seeds[version][i]
             unended == item.effective_end_ts = None
  <1>2. item.is_current \in BOOLEAN \cup {None}
    <2>1. Seeds[version] \in Seq(SeedItem)
      BY ControlsGoldAssumption
    <2>2. item \in SeedItem
      BY <2>1
    <2> HIDE DEF item
    <2> QED BY <2>2 DEF SeedItem, Optional
  <1>3. r.is_current = OrElse(item.is_current, unended) /\ unended \in BOOLEAN
    BY <1>1 DEF FromDict
  <1> HIDE DEF item, unended
  <1> QED BY <1>2, <1>3 DEF OrElse

\* What holds of an attempt on its own.
Fit(a) ==
  /\ pc[a] \in {"idle", "load", "write", "refused", "ended"}
  /\ task[a] \in Optional(Tasks) /\ payload[a] \in Optional(Requests)
  /\ task[a] # None => written[a] \in 0 .. Len(TablesOf[task[a]])
  /\ pc[a] = "write" => Integrity(rules[a])
  /\ Active(a) => task[a] \in Tasks /\ payload[a] \in Requests
  /\ pc[a] \in {"idle", "load"} => written[a] = 0
  /\ pc[a] = "write" => written[a] \in 0 .. Len(TablesOf[task[a]]) - 1

\* A step of one attempt leaves the others their variables.
Alone(a) ==
  /\ pc' = [b \in Attempts |-> pc'[b]] /\ task' = [b \in Attempts |-> task'[b]]
  /\ payload' = [b \in Attempts |-> payload'[b]]
  /\ DOMAIN rules' = Attempts /\ DOMAIN written' = Attempts
  /\ \A b \in Attempts \ {a} :
       /\ pc'[b] = pc[b] /\ task'[b] = task[b] /\ payload'[b] = payload[b]
       /\ rules'[b] = rules[b] /\ written'[b] = written[b]

\* The script writes its own attempt only.
LEMMA ScriptAlone ==
  ASSUME TypeOK, LocalsInv, NEW a \in Attempts, Script(a)
  PROVE  Alone(a) /\ UNCHANGED << upstream, ruling >>
  <1>1. /\ DOMAIN pc = Attempts /\ DOMAIN task = Attempts /\ DOMAIN payload = Attempts
        /\ DOMAIN rules = Attempts /\ DOMAIN written = Attempts
        /\ pc = [b \in Attempts |-> pc[b]] /\ task = [b \in Attempts |-> task[b]]
        /\ payload = [b \in Attempts |-> payload[b]]
    BY DEF TypeOK, LocalsInv
  <1>2. CASE Start(a)
    BY <1>1, <1>2 DEF Start, Alone
  <1>3. CASE LoadRules(a) \/ FallBackToSeed(a)
    BY <1>1, <1>3 DEF LoadRules, FallBackToSeed, Alone
  <1>4. CASE WriteRefused(a)
    BY <1>1, <1>4 DEF WriteRefused, Alone
  <1>5. Leave(a) => Alone(a)
    BY <1>1 DEF Leave, Alone
  <1>6. CASE Write(a)
    <2>1. \/ Leave(a)
          \/ /\ written' = [written EXCEPT ![a] = written[a] + 1]
             /\ UNCHANGED << pc, task, payload, rules >>
      BY <1>6 DEF Write
    <2>2. UNCHANGED << upstream, ruling >>
      BY <1>6 DEF Write
    <2> QED BY <1>1, <1>5, <2>1, <2>2 DEF Alone
  <1>7. CASE Fail(a)
    BY <1>5, <1>7 DEF Fail
  <1> QED BY <1>2, <1>3, <1>4, <1>6, <1>7 DEF Script

\* A step of the script leaves its attempt fit, with a task no other has.
LEMMA ScriptFit ==
  ASSUME TypeOK, LocalsInv, NEW a \in Attempts, Script(a)
  PROVE  /\ Fit(a)'
         /\ \A b \in Attempts \ {a} : Active(a)' /\ Active(b) => task'[a] # task[b]
         /\ steady' \subseteq Attempts
         /\ DOMAIN gold' = Tables
  <1>1. Fit(a) /\ \A b \in Attempts \ {a} : Active(a) /\ Active(b) => task[a] # task[b]
    BY DEF TypeOK, LocalsInv, Fit
  <1>2. CASE Start(a)
    <2>1. PICK t \in Tasks, p \in Requests :
            /\ \A b \in Attempts : Active(b) => task[b] # t
            /\ task' = [task EXCEPT ![a] = t] /\ payload' = [payload EXCEPT ![a] = p]
      BY <1>2 DEF Start
    <2>2. /\ pc'[a] = "load" /\ pc[a] = "idle" /\ task'[a] = t /\ payload'[a] = p
          /\ written' = written /\ steady' = steady /\ gold' = gold
      BY <1>2, <2>1 DEF Start, TypeOK, history
    <2>3. Len(TablesOf[t]) \in Nat
      BY TableNames
    <2> QED BY <1>1, <2>1, <2>2, <2>3 DEF Fit, Active, Optional, TypeOK
  <1>3. CASE LoadRules(a) \/ FallBackToSeed(a)
    <2>1. /\ pc'[a] = "write" /\ pc[a] = "load" /\ Integrity(rules'[a])
          /\ task' = task /\ payload' = payload /\ written' = written
          /\ steady' = steady \cup {a} /\ gold' = gold
      BY <1>3 DEF LoadRules, FallBackToSeed, TypeOK, LocalsInv
    <2>2. task[a] \in Tasks => Len(TablesOf[task[a]]) \in Nat \ {0}
      BY TableNames
    <2> QED BY <1>1, <2>1, <2>2 DEF Fit, Active, TypeOK
  <1>4. ASSUME Leave(a), gold' = gold \/ \E t, rows : gold' = [gold EXCEPT ![t] = rows]
        PROVE  /\ Fit(a)' /\ ~Active(a)' /\ steady' \subseteq Attempts
               /\ DOMAIN gold' = Tables
    BY <1>4 DEF Leave, Fit, Active, Optional, TypeOK, LocalsInv
  <1>5. CASE Write(a)
    <2> DEFINE table == TablesOf[task[a]][written[a] + 1]
    <2>1. PICK silver :
            gold' = [gold EXCEPT ![table] =
                       Merged(table, Frame(table, task[a], payload[a], rules[a], silver))]
      BY <1>5 DEF Write
    <2> DEFINE rows == Frame(table, task[a], payload[a], rules[a], silver)
    <2>2. CASE written[a] + 1 = Len(TablesOf[task[a]])
      <3>1. Leave(a) /\ gold' = [gold EXCEPT ![table] = Merged(table, rows)]
        BY <1>5, <2>2, <2>1 DEF Write
      <3> QED BY <1>4, <3>1
    <2>3. CASE written[a] + 1 # Len(TablesOf[task[a]])
      <3>1. /\ pc[a] = "write" /\ pc' = pc /\ task' = task /\ payload' = payload
            /\ rules' = rules /\ steady' = steady /\ written'[a] = written[a] + 1
            /\ gold' = [gold EXCEPT ![table] = Merged(table, rows)]
        BY <1>5, <2>3, <2>1 DEF Write, TypeOK, LocalsInv
      <3>2. DOMAIN gold' = Tables
        BY <3>1 DEF TypeOK
      <3>3. Len(TablesOf[task[a]]) \in Nat
        BY <1>1, <3>1, TableNames DEF Fit, Active
      <3> QED BY <1>1, <2>3, <3>1, <3>2, <3>3 DEF Fit, Active, TypeOK
    <2> QED BY <2>2, <2>3
  <1>6. CASE WriteRefused(a)
    <2>1. /\ pc'[a] = "refused" /\ pc[a] = "write" /\ task' = task /\ payload' = payload
          /\ written' = written /\ steady' = steady /\ gold' = gold
      BY <1>6 DEF WriteRefused, TypeOK, history
    <2> QED BY <1>1, <2>1 DEF Fit, Active, TypeOK
  <1>7. CASE Fail(a)
    BY <1>4, <1>7 DEF Fail
  <1> QED BY <1>2, <1>3, <1>5, <1>6, <1>7 DEF Script

\* The variables have their types and the attempts are fit from the start.
LEMMA TypingInit == Init => TypeOK /\ LocalsInv
  BY ControlsGoldAssumption DEF Init, TypeOK, LocalsInv, Active, Optional

\* The variables keep their types, and the attempts stay fit.
LEMMA TypingNext ==
  ASSUME TypeOK, LocalsInv, [Next]_vars
  PROVE  TypeOK' /\ LocalsInv'
  <1>1. CASE OrdersArrive \/ UNCHANGED vars
    BY <1>1 DEF OrdersArrive, vars, upstream, ruling, locals, history, TypeOK, LocalsInv, Active
  <1>2. CASE SilverMerges
    <2>1. feed' \in Seq(Batches)
      <3>1. feed \in Seq(Batches) /\ feed # << >> /\ feed' = Tail(feed)
        BY <1>2 DEF SilverMerges, LocalsInv
      <3> HIDE DEF Batches
      <3> QED BY <3>1
    <2> QED BY <1>2, <2>1 DEF SilverMerges, ruling, locals, TypeOK, LocalsInv, Active
  <1>3. CASE SyncRules
    <2>1. \A r \in rule_table' : r.is_current \in BOOLEAN
      <3>1. PICK version \in DOMAIN Seeds :
              rule_table' = Synced(OrElse(rule_table, {}), SeedRules(version))
        BY <1>3 DEF SyncRules
      <3>2. \A r \in OrElse(rule_table, {}) : r.is_current \in BOOLEAN
        BY DEF OrElse, TypeOK
      <3> QED BY <3>1, <3>2, SeedTyped DEF Synced
    <2> QED BY <1>3, <2>1 DEF SyncRules, upstream, locals, history, TypeOK, LocalsInv, Active
  <1>4. ASSUME NEW a \in Attempts, Script(a)
        PROVE  TypeOK' /\ LocalsInv'
    <2>1. Alone(a) /\ UNCHANGED << upstream, ruling >>
      BY <1>4, ScriptAlone
    <2>2. /\ Fit(a)' /\ steady' \subseteq Attempts /\ DOMAIN gold' = Tables
          /\ \A b \in Attempts \ {a} : Active(a)' /\ Active(b) => task'[a] # task[b]
      BY <1>4, ScriptFit
    <2>3. \A b \in Attempts \ {a} :
            /\ pc'[b] = pc[b] /\ task'[b] = task[b] /\ payload'[b] = payload[b]
            /\ rules'[b] = rules[b] /\ written'[b] = written[b] /\ (Active(b)' <=> Active(b))
      BY <2>1 DEF Alone, Active
    <2>4. \A b \in Attempts : Fit(b)'
      BY <2>2, <2>3 DEF Fit, TypeOK, LocalsInv
    <2>5. /\ pc' = [b \in Attempts |-> pc'[b]] /\ task' = [b \in Attempts |-> task'[b]]
          /\ payload' = [b \in Attempts |-> payload'[b]]
          /\ DOMAIN rules' = Attempts /\ DOMAIN written' = Attempts
      BY <2>1 DEF Alone
    <2>6. TypeOK'
      <3>1. /\ pc' \in [Attempts -> {"idle", "load", "write", "refused", "ended"}]
            /\ task' \in [Attempts -> Optional(Tasks)]
            /\ payload' \in [Attempts -> Optional(Requests)]
        BY <2>4, <2>5 DEF Fit
      <3> QED BY <2>1, <2>2, <2>4, <3>1 DEF Fit, TypeOK, ruling
    <2>7. LocalsInv'
      <3>1. \A b, c \in Attempts : Active(b)' /\ Active(c)' /\ b # c => task'[b] # task'[c]
        BY <2>2, <2>3 DEF LocalsInv
      <3> QED BY <2>1, <2>4, <2>5, <3>1 DEF Fit, LocalsInv, upstream
    <2> QED BY <2>6, <2>7
  <1> QED BY <1>1, <1>2, <1>3, <1>4 DEF Next

\* The variables of the scripts hold values of their kind.
THEOREM Typing == Spec => []TypeOK
  <1>1. Init => TypeOK /\ LocalsInv
    BY TypingInit
  <1>2. TypeOK /\ LocalsInv /\ [Next]_vars => (TypeOK /\ LocalsInv)'
    BY TypingNext
  <1> QED BY <1>1, <1>2, PTL DEF Spec

-----------------------------------------------------------------------------
(* The rule table *)

\* A sync keeps each rule once and the table loadable, unless a rule that was
\* current is no longer in the seed.
LEMMA RuleNext ==
  ASSUME RuleInv, [Next]_vars
  PROVE  RuleInv'
  <1>1. CASE UNCHANGED ruling
    BY <1>1 DEF ruling, RuleInv, RulesLoadable, SeedRules
  <1>2. CASE SyncRules
    <2>1. PICK version \in DOMAIN Seeds :
            /\ Integrity(SeedRules(version)) /\ seed' = version
            /\ rule_table' = Synced(OrElse(rule_table, {}), SeedRules(version))
      BY <1>2 DEF SyncRules
    <2> DEFINE fresh == SeedRules(version)
               older == { r \in OrElse(rule_table, {}) :
                            \A s \in fresh : s.rule_id # r.rule_id }
    <2>2. rule_table' = fresh \cup older /\ SeedRules(seed)' = fresh
      BY <2>1 DEF Synced, SeedRules
    <2>3. \A r, s \in older : r.rule_id = s.rule_id => r = s
      BY DEF RuleInv, OrElse
    <2>4. \A r \in older, s \in fresh : r.rule_id # s.rule_id
      OBVIOUS
    <2>5. fresh # {} /\ \A r, s \in fresh : r # s =>
            r.rule_id # s.rule_id /\ ~(r.is_current /\ s.is_current /\ r.metric = s.metric)
      BY <2>1 DEF Integrity
    <2> HIDE DEF fresh, older
    <2>6. \A r, s \in fresh \cup older : r.rule_id = s.rule_id => r = s
      BY <2>3, <2>4, <2>5
    <2>7. CASE \E r \in older : r.is_current
      <3>1. \E r \in rule_table' :
              r.is_current /\ \A s \in SeedRules(seed)' : s.rule_id # r.rule_id
        BY <2>2, <2>4, <2>7
      <3> QED BY <2>2, <2>6, <3>1 DEF RuleInv, RulesLoadable
    <2>8. CASE \A r \in older : ~r.is_current
      <3>1. Integrity(fresh \cup older)
        BY <2>5, <2>6, <2>8 DEF Integrity
      <3> QED BY <2>2, <2>6, <3>1 DEF RuleInv, RulesLoadable
    <2> QED BY <2>7, <2>8
  <1>3. CASE OrdersArrive \/ SilverMerges \/ \E a \in Attempts : Script(a)
    <2>1. UNCHANGED ruling
      BY <1>3 DEF OrdersArrive, SilverMerges, Script, Start, LoadRules, FallBackToSeed, Write,
                  WriteRefused, Fail
    <2> QED BY <2>1, <1>1
  <1>4. CASE UNCHANGED vars
    BY <1>1, <1>4 DEF vars
  <1> QED BY <1>2, <1>3, <1>4 DEF Next

\* The rule table stops loading only through a rule that was current when it
\* left the seed.
THEOREM RulesStayLoadable == Spec => []RulesLoadable
  <1>1. Init => RuleInv
    BY DEF Init, RuleInv, RulesLoadable
  <1>2. RuleInv /\ [Next]_vars => RuleInv'
    BY RuleNext
  <1>3. RuleInv => RulesLoadable
    BY DEF RuleInv
  <1> QED BY <1>1, <1>2, <1>3, PTL DEF Spec

-----------------------------------------------------------------------------
(* Merges *)

NextTable(a) == TablesOf[task[a]][written[a] + 1]
NextRows(a, silver) == Frame(NextTable(a), task[a], payload[a], rules[a], silver)

\* What a write leaves in its table.
Leaves(a, silver) ==
  \A r : r \in gold'[NextTable(a)] <=>
    \/ r \in NextRows(a, silver)
    \/ /\ r \in gold[NextTable(a)]
       /\ \A s \in NextRows(a, silver) : Key(NextTable(a), s) # Key(NextTable(a), r)

\* Tables that are determined are computed from what is visible.
LEMMA ReadingDecides ==
  ASSUME NEW t \in Tables, Determined(t), NEW w, NEW p, NEW by, NEW silver \in Readings(p)
  PROVE  Frame(t, w, p, by, silver) = Frame(t, w, p, by, Visible(p))
  <1>1. CASE SnapshotsApart
    <2>1. \A kept \in Untied(wallet_snapshot) : kept = wallet_snapshot
      BY <1>1 DEF SnapshotsApart, Untied
    <2>2. silver = [wallets |-> wallet_snapshot, opening |-> wallet_snapshot,
                    closing |-> wallet_snapshot, ledger |-> LedgerUpTo(p),
                    dq_status |-> dq_status]
      BY <2>1 DEF Readings
    <2>3. silver = Visible(p)
      BY <2>2 DEF Visible, Silver
    <2> QED BY <2>3
  <1>2. CASE ~SnapshotsApart
    BY <1>2, TableNames DEF Determined, Frame
  <1> QED BY <1>1, <1>2

\* A write merges the rows of its task into one table.
LEMMA WriteStep ==
  ASSUME TypeOK, LocalsInv, NEW a \in Attempts, Write(a)
  PROVE  /\ pc[a] = "write" /\ task[a] \in Tasks /\ payload[a] \in Requests
         /\ written[a] \in Nat /\ written[a] + 1 \in 1 .. Len(TablesOf[task[a]])
         /\ NextTable(a) \in Tables
         /\ \A t \in Tables \ {NextTable(a)} : gold'[t] = gold[t]
         /\ \E silver \in Readings(payload[a]) : Leaves(a, silver)
         /\ UNCHANGED upstream
  <1>1. pc[a] = "write" /\ UNCHANGED upstream
    BY DEF Write
  <1>2. PICK silver \in Readings(payload[a]) :
          gold' = [gold EXCEPT ![NextTable(a)] = Merged(NextTable(a), NextRows(a, silver))]
    BY DEF Write, NextTable, NextRows
  <1>3. /\ task[a] \in Tasks /\ payload[a] \in Requests
        /\ written[a] \in 0 .. Len(TablesOf[task[a]]) - 1
    BY <1>1 DEF LocalsInv, Active
  <1>4. written[a] \in Nat /\ written[a] + 1 \in 1 .. Len(TablesOf[task[a]])
    BY <1>3, TableNames
  <1>5. NextTable(a) \in Tables
    BY <1>3, <1>4, TableNames DEF NextTable
  <1>6. gold'[NextTable(a)] = Merged(NextTable(a), NextRows(a, silver))
    BY <1>2, <1>5 DEF TypeOK
  <1>7. \A t \in Tables \ {NextTable(a)} : gold'[t] = gold[t]
    BY <1>2 DEF TypeOK
  <1>8. Leaves(a, silver)
    BY <1>6, MergedRows DEF Leaves
  <1> QED BY <1>1, <1>3, <1>4, <1>5, <1>7, <1>8

\* Only a write changes a table.
LEMMA GoldKept ==
  ASSUME [Next]_vars, \A a \in Attempts : ~Write(a)
  PROVE  gold' = gold
  BY DEF Next, vars, OrdersArrive, SilverMerges, SyncRules, Script, Start, LoadRules,
         FallBackToSeed, WriteRefused, Fail

\* No table but admin_tx_search gets a second row under a key.
LEMMA OneRowNext ==
  ASSUME TypeOK, LocalsInv, OneRowPerKey, [Next]_vars
  PROVE  OneRowPerKey'
  <1>1. CASE gold' = gold
    BY <1>1 DEF OneRowPerKey
  <1>2. ASSUME NEW a \in Attempts, Write(a)
        PROVE  OneRowPerKey'
    <2>1. SUFFICES ASSUME NEW t \in Tables \ {"admin_tx_search"},
                          NEW r \in gold'[t], NEW s \in gold'[t], Key(t, r) = Key(t, s)
                   PROVE  r = s
      BY DEF OneRowPerKey, Key
    <2>2. CASE t # NextTable(a)
      BY <1>2, <2>1, <2>2, WriteStep DEF OneRowPerKey
    <2>3. CASE t = NextTable(a)
      <3>1. PICK silver : Leaves(a, silver)
        BY <1>2, WriteStep
      <3>2. \A x, y \in NextRows(a, silver) : Key(t, x) = Key(t, y) => x = y
        BY <2>1, <2>3, FrameRows DEF NextRows
      <3>3. \A x, y \in gold[t] : Key(t, x) = Key(t, y) => x = y
        BY DEF OneRowPerKey
      <3>4. \A x \in gold'[t] :
              \/ x \in NextRows(a, silver)
              \/ x \in gold[t] /\ \A y \in NextRows(a, silver) : Key(t, y) # Key(t, x)
        BY <2>3, <3>1 DEF Leaves
      <3> QED BY <2>1, <3>2, <3>3, <3>4
    <2> QED BY <2>2, <2>3
  <1> QED BY <1>1, <1>2, GoldKept

\* No table but admin_tx_search ever holds two rows under one key.
THEOREM MergeKeepsKeys == Spec => []OneRowPerKey
  <1>1. Init => TypeOK /\ LocalsInv /\ OneRowPerKey
    BY TypingInit DEF Init, OneRowPerKey
  <1>2. TypeOK /\ LocalsInv /\ OneRowPerKey /\ [Next]_vars
          => (TypeOK /\ LocalsInv /\ OneRowPerKey)'
    BY TypingNext, OneRowNext
  <1> QED BY <1>1, <1>2, PTL DEF Spec

\* What a step changes is a row of a date of the run that writes.
LEMMA TouchedByWrite ==
  ASSUME TypeOK, LocalsInv, [Next]_vars, NEW t \in Tables,
         NEW r \in (gold[t] \cup gold'[t]) \ (gold[t] \cap gold'[t])
  PROVE  \E a \in Attempts : pc[a] = "write" /\ r.date_kst \in Dates(payload[a])
  <1>1. PICK a \in Attempts : Write(a)
    BY GoldKept
  <1>2. t = NextTable(a)
    BY <1>1, WriteStep
  <1>3. PICK silver : Leaves(a, silver)
    BY <1>1, WriteStep
  <1>4. \A s \in NextRows(a, silver) : s.date_kst \in Dates(payload[a])
    BY <1>1, WriteStep, FrameRows DEF NextRows
  <1>5. \/ r \in NextRows(a, silver)
        \/ \E s \in NextRows(a, silver) : Key(t, s) = Key(t, r)
    BY <1>2, <1>3 DEF Leaves
  <1>6. r.date_kst \in Dates(payload[a])
    BY <1>4, <1>5, KeyDate
  <1> QED BY <1>1, <1>6, WriteStep

\* A run changes nothing outside its dates.
THEOREM RunsKeepToTheirDates == Spec => GoldTouchesOnlyWindow
  <1>1. Init => TypeOK /\ LocalsInv
    BY TypingInit
  <1>2. TypeOK /\ LocalsInv /\ [Next]_vars => (TypeOK /\ LocalsInv)'
    BY TypingNext
  <1>3. TypeOK /\ LocalsInv /\ [Next]_vars =>
          [\A t \in Tables : \A r \in (gold[t] \cup gold'[t]) \ (gold[t] \cap gold'[t]) :
             \E a \in Attempts : pc[a] = "write" /\ r.date_kst \in Dates(payload[a])]_vars
    BY TouchedByWrite
  <1> QED BY <1>1, <1>2, <1>3, PTL DEF Spec, GoldTouchesOnlyWindow

-----------------------------------------------------------------------------
(* Convergence *)

\* A table of a task is written at one place of its list.
LEMMA TablesDiffer ==
  ASSUME NEW w \in Tasks, NEW i \in 1 .. Len(TablesOf[w]), NEW j \in 1 .. Len(TablesOf[w]),
         TablesOf[w][i] = TablesOf[w][j]
  PROVE  i = j
  BY DEF Tasks, TablesOf

\* What a task computes depends on the tables of Silver alone.
LEMMA FrameStays ==
  ASSUME UNCHANGED upstream, NEW t, NEW w, NEW p, NEW by
  PROVE  /\ Frame(t, w, p, by, Visible(p))' = Frame(t, w, p, by, Visible(p))
         /\ Determined(t)' <=> Determined(t)
  BY DEF upstream, Frame, Visible, LedgerUpTo, Silver, Determined, SnapshotsApart

\* A table that does not change keeps showing what it did.
LEMMA ConvergedStays ==
  ASSUME UNCHANGED upstream, NEW t, gold'[t] = gold[t],
         NEW w, NEW p, NEW by, NEW d, Converged(t, w, p, by, d)
  PROVE  Converged(t, w, p, by, d)'
  BY FrameStays DEF Converged, OnDate

\* A write makes its table show what its task computes, for each of its dates.
LEMMA WriteConverges ==
  ASSUME TypeOK, LocalsInv, KeysStand, NEW a \in Attempts, Write(a),
         NEW t, t = NextTable(a), NEW w, w = task[a], NEW p, p = payload[a],
         NEW by, by = rules[a], NEW d \in Dates(p)
  PROVE  Converged(t, w, p, by, d)'
  <1> SUFFICES ASSUME Determined(t) PROVE Converged(t, w, p, by, d)'
    BY WriteStep, FrameStays DEF Converged
  <1> DEFINE rows == Frame(t, w, p, by, Visible(p))
  <1>1. PICK silver \in Readings(p) : Leaves(a, silver)
    BY WriteStep
  <1>2. rows = NextRows(a, silver) /\ t \in Tables
    BY WriteStep, ReadingDecides DEF NextRows
  <1>3. Frame(t, w, p, by, Visible(p))' = rows
    BY WriteStep, FrameStays
  <1>4. \A r : r \in gold'[t] <=>
          r \in rows \/ (r \in gold[t] /\ \A s \in rows : Key(t, s) # Key(t, r))
    BY <1>2, <1>1 DEF Leaves
  <1>5. CASE t \in {"admin_tx_search", "exception_ledger"}
    <2> HIDE DEF rows
    <2> QED BY <1>3, <1>4, <1>5 DEF Converged, OnDate
  <1>6. CASE t \notin {"admin_tx_search", "exception_ledger"}
    <2>1. Visible(p).wallets = wallet_snapshot
      BY DEF Visible, Silver
    <2>2. \A r \in gold[t] : r.date_kst = d => \E s \in rows : Key(t, s) = Key(t, r)
      BY <1>2, <1>6, <2>1, FrameCovers
    <2> HIDE DEF rows
    <2>3. \A r : r \in gold'[t] /\ r.date_kst = d <=> r \in rows /\ r.date_kst = d
      BY <1>4, <2>2
    <2>4. OnDate(gold'[t], d) = OnDate(rows, d)
      BY <2>3 DEF OnDate
    <2> QED BY <1>3, <1>6, <2>4 DEF Converged, OnDate
  <1> QED BY <1>5, <1>6

\* A write of another table, of another task or for other dates leaves what a
\* table shows.
LEMMA WriteKeeps ==
  ASSUME TypeOK, LocalsInv, NEW a \in Attempts, Write(a),
         NEW w \in Tasks, NEW t \in Range(TablesOf[w]), NEW p, NEW by, NEW d,
         Converged(t, w, p, by, d),
         t # NextTable(a) \/ w # task[a] \/ d \notin Dates(payload[a])
  PROVE  Converged(t, w, p, by, d)'
  <1>1. t \in Tables /\ UNCHANGED upstream
    BY WriteStep DEF Tables
  <1>2. CASE t # NextTable(a)
    BY <1>1, <1>2, WriteStep, ConvergedStays
  <1> SUFFICES ASSUME Determined(t) PROVE Converged(t, w, p, by, d)'
    BY <1>1, FrameStays DEF Converged
  <1>3. PICK silver : Leaves(a, silver)
    BY WriteStep
  <1> DEFINE rows == NextRows(a, silver)
             mine == Frame(t, w, p, by, Visible(p))
  <1>4. ASSUME t = NextTable(a)
        PROVE  \A r : r \in gold'[t] <=>
                 r \in rows \/ (r \in gold[t] /\ \A s \in rows : Key(t, s) # Key(t, r))
    BY <1>4, <1>3 DEF Leaves
  <1>5. Frame(t, w, p, by, Visible(p))' = mine
    BY <1>1, FrameStays
  <1>6. CASE t = NextTable(a) /\ d \notin Dates(payload[a])
    <2>1. \A s \in rows : s.date_kst # d
      BY <1>1, <1>6, FrameRows DEF NextRows
    <2>2. \A r, s : Key(t, r) = Key(t, s) => r.date_kst = s.date_kst
      BY <1>1, KeyDate
    <2> HIDE DEF rows, mine
    <2>3. \A r : r \in gold'[t] /\ r.date_kst = d <=> r \in gold[t] /\ r.date_kst = d
      BY <1>4, <1>6, <2>1, <2>2
    <2>4. OnDate(gold'[t], d) = OnDate(gold[t], d) /\ \A r \in OnDate(mine, d) : r.date_kst = d
      BY <2>3 DEF OnDate
    <2>5. OnDate(mine, d) \subseteq gold[t] => OnDate(mine, d) \subseteq gold'[t]
      BY <2>3, <2>4
    <2> QED BY <1>5, <2>4, <2>5 DEF Converged, mine, OnDate
  <1>7. CASE t = NextTable(a) /\ w # task[a]
    <2>1. task[a] \in Tasks /\ written[a] + 1 \in 1 .. Len(TablesOf[task[a]])
      BY WriteStep
    <2>2. t = "exception_ledger"
      BY <1>7, <2>1, OwnTables DEF NextTable
    <2>3. \A x \in mine, s \in rows : Key(t, s) # Key(t, x)
      BY <1>7, <2>1, <2>2, ExceptionTypes DEF NextRows
    <2>4. OnDate(mine, d) \subseteq gold[t] /\ OnDate(mine, d) \subseteq mine
      BY <2>2 DEF Converged, OnDate
    <2> HIDE DEF rows, mine
    <2>5. OnDate(mine, d) \subseteq gold'[t]
      BY <1>4, <1>7, <2>3, <2>4
    <2> QED BY <1>5, <2>2, <2>5 DEF Converged, OnDate
  <1> QED BY <1>2, <1>6, <1>7

\* Of four checks the first that applies gives the label.
LEMMA FirstOfFour ==
  ASSUME NEW checks, DOMAIN checks = 1..4, \A i \in 1..4 : checks[i][2] # None,
         FirstOf(checks) = None
  PROVE  \A i \in 1..4 : ~checks[i][1]
  <1> DEFINE met == { i \in DOMAIN checks : checks[i][1] }
  <1>1. SUFFICES ASSUME met # {} PROVE FALSE
    OBVIOUS
  <1>2. \E i \in met : \A j \in met : i <= j
    <2>1. 1 \in met \/ 2 \in met \/ 3 \in met \/ 4 \in met
      BY <1>1
    <2>2. \A j \in met : j = 1 \/ j = 2 \/ j = 3 \/ j = 4
      OBVIOUS
    <2> HIDE DEF met
    <2> QED BY <2>1, <2>2
  <1>3. PICK i \in met : FirstOf(checks) = checks[i][2]
    BY <1>1, <1>2 DEF FirstOf
  <1> QED BY <1>3

\* The rows Silver makes of wallets have a user, a balance and a timestamp.
LEMMA WalletRows ==
  ASSUME NEW rows \in SUBSET WalletRaw, NEW r \in WalletSnapshot(rows)
  PROVE  /\ NonBlank(r.user_id) /\ r.balance_total # None
         /\ r.balance_total \in Int /\ r.snapshot_ts \in Int
  <1>1. PICK w \in rows : WalletReason(w) = None /\ r = WalletRow(w)
    BY DEF WalletSnapshot
  <1>2. /\ NonBlank(w.user_id) /\ w.balance \in Int /\ w.frozen_amount \in Int
        /\ SnapshotTs(w) \in Int
    <2> DEFINE checks == << << NullIfBlank(w.user_id) = None, "missing_user_id" >>,
                            << w.balance = None \/ w.frozen_amount = None, "invalid_balance" >>,
                            << Below(w.balance, 0) \/ Below(w.frozen_amount, 0),
                               "negative_balance" >>,
                            << SnapshotTs(w) = None, "missing_snapshot_ts" >> >>
    <2>1. FirstOf(checks) = None
      BY <1>1 DEF WalletReason
    <2>2. DOMAIN checks = 1..4 /\ \A i \in 1..4 : checks[i][2] # None
      <3>1. /\ checks[1][2] = "missing_user_id" /\ checks[2][2] = "invalid_balance"
            /\ checks[3][2] = "negative_balance" /\ checks[4][2] = "missing_snapshot_ts"
        OBVIOUS
      <3>2. DOMAIN checks = 1..4
        OBVIOUS
      <3>3. \A reason \in WalletReasons : reason # None
        BY ControlsGoldAssumption
      <3> HIDE DEF checks
      <3>4. /\ checks[1][2] # None /\ checks[2][2] # None
            /\ checks[3][2] # None /\ checks[4][2] # None
        BY <3>1, <3>3 DEF WalletReasons
      <3> QED BY <3>2, <3>4
    <2>3. /\ checks[1][1] = (NullIfBlank(w.user_id) = None)
          /\ checks[2][1] = (w.balance = None \/ w.frozen_amount = None)
          /\ checks[4][1] = (SnapshotTs(w) = None)
      OBVIOUS
    <2> HIDE DEF checks
    <2>4. ~checks[1][1] /\ ~checks[2][1] /\ ~checks[4][1]
      BY <2>1, <2>2, FirstOfFour
    <2>5. /\ NullIfBlank(w.user_id) # None /\ w.balance # None /\ w.frozen_amount # None
          /\ SnapshotTs(w) # None
      BY <2>3, <2>4
    <2>6. SnapshotTs(w) \in Int
      BY <2>5 DEF WalletRaw, SnapshotTs, OrElse, Optional
    <2> QED BY <2>5, <2>6 DEF WalletRaw, NonBlank, NullIfBlank, Optional
  <1>3. r.user_id = w.user_id /\ r.balance_total \in Int /\ r.snapshot_ts = SnapshotTs(w)
    BY <1>1, <1>2 DEF WalletRow
  <1> QED BY <1>2, <1>3, NoneAssumption

\* A merge into the snapshots leaves every date its users.
LEMMA UsersStay ==
  ASSUME NEW rows \in SUBSET WalletRaw, NEW table, NEW d
  PROVE  Users(d, table) \subseteq
           Users(d, Upsert(table, WalletSnapshot(rows),
                           LAMBDA w : << w.snapshot_ts, w.user_id >>))
  <1> DEFINE fresh == WalletSnapshot(rows)
             merged == Upsert(table, fresh, LAMBDA w : << w.snapshot_ts, w.user_id >>)
             Counts(w) == /\ w.snapshot_ts # None /\ DateKst(w.snapshot_ts) = d
                          /\ NonBlank(w.user_id) /\ w.balance_total # None
  <1>1. \A w : w \in merged <=>
          \/ w \in fresh
          \/ w \in table /\ \A v \in fresh :
               << v.snapshot_ts, v.user_id >> # << w.snapshot_ts, w.user_id >>
    BY DEF Upsert
  <1>2. \A w \in fresh : NonBlank(w.user_id) /\ w.balance_total # None
    BY WalletRows
  <1> HIDE DEF fresh, merged
  <1>3. ASSUME NEW w \in table, Counts(w)
        PROVE  \E v \in merged : Counts(v) /\ v.user_id = w.user_id
    <2>1. CASE w \in merged
      BY <1>3, <2>1
    <2>2. CASE w \notin merged
      <3>1. PICK v \in fresh : v.snapshot_ts = w.snapshot_ts /\ v.user_id = w.user_id
        BY <1>1, <2>2
      <3> QED BY <1>1, <1>2, <1>3, <3>1
    <2> QED BY <2>1, <2>2
  <1>4. \A any, u : u \in Users(d, any) <=> \E w \in any : Counts(w) /\ w.user_id = u
    BY DEF Users, Snapshots
  <1> HIDE DEF Counts
  <1>5. Users(d, table) \subseteq Users(d, merged)
    BY <1>3, <1>4
  <1> QED BY <1>5 DEF merged, fresh

\* The keys of the daily tables stand.
LEMMA KeysNext ==
  ASSUME TypeOK, LocalsInv, KeysStand, [Next]_vars
  PROVE  KeysStand'
  <1> DEFINE Daily == {"ops_payment_failure_daily", "ops_payment_refund_daily"}
  <1>1. CASE UNCHANGED << wallet_snapshot, orders, gold >>
    BY <1>1 DEF KeysStand, Merchants, OrdersOf, Users, Snapshots
  <1>2. CASE OrdersArrive
    <2>1. /\ orders \subseteq orders' /\ wallet_snapshot' = wallet_snapshot /\ gold' = gold
      BY <1>2 DEF OrdersArrive
    <2>2. \A d : Merchants(d, orders) \subseteq Merchants(d, orders')
      BY <2>1 DEF Merchants, OrdersOf
    <2> QED BY <2>1, <2>2 DEF KeysStand
  <1>3. CASE SilverMerges
    <2>1. /\ orders' = orders /\ gold' = gold /\ Batch.wallets \in SUBSET WalletRaw
          /\ wallet_snapshot' = Upsert(wallet_snapshot, WalletSnapshot(Batch.wallets),
                                       LAMBDA w : << w.snapshot_ts, w.user_id >>)
      <3>1. feed \in Seq(Batches) /\ feed # << >>
        BY <1>3 DEF SilverMerges, LocalsInv
      <3>2. Batch \in Batches
        <4> HIDE DEF Batches
        <4> QED BY <3>1 DEF Batch
      <3> QED BY <1>3, <3>2 DEF SilverMerges, Batches
    <2>2. \A d : Users(d, wallet_snapshot) \subseteq Users(d, wallet_snapshot')
      BY <2>1, UsersStay
    <2> QED BY <2>1, <2>2 DEF KeysStand
  <1>4. ASSUME NEW a \in Attempts, Write(a)
        PROVE  KeysStand'
    <2>1. PICK silver \in Readings(payload[a]) : Leaves(a, silver)
      BY <1>4, WriteStep
    <2> DEFINE Rows(t) == Frame(t, task[a], payload[a], rules[a], silver)
    <2>2. /\ UNCHANGED << wallet_snapshot, orders >>
          /\ \A t \in Tables : gold'[t] \subseteq gold[t] \cup
                IF t = NextTable(a) THEN Rows(t) ELSE {}
      BY <1>4, <2>1, WriteStep DEF upstream, NextRows, Leaves
    <2>3. \A r \in Rows("recon_daily_snapshot_flow") :
            r.user_id \in Users(r.date_kst, wallet_snapshot)
      <3>1. silver.wallets = wallet_snapshot
        BY DEF Readings
      <3> QED BY <3>1, ReconRows DEF Frame
    <2>4. \A t \in Daily : \A r \in Rows(t) :
            r.merchant_name \in Merchants(r.date_kst, orders)
      BY OpsRows DEF Frame
    <2> HIDE DEF Rows
    <2>5. "recon_daily_snapshot_flow" \in Tables /\ Daily \subseteq Tables
      BY TableNames
    <2>6. \A r \in gold'["recon_daily_snapshot_flow"] :
            r.user_id \in Users(r.date_kst, wallet_snapshot)
      BY <2>2, <2>3, <2>5 DEF KeysStand
    <2>7. \A t \in Daily : \A r \in gold'[t] : r.merchant_name \in Merchants(r.date_kst, orders)
      BY <2>2, <2>4, <2>5 DEF KeysStand
    <2> QED BY <2>2, <2>6, <2>7 DEF KeysStand
  <1>5. CASE SyncRules
    BY <1>1, <1>5 DEF SyncRules, upstream
  <1>6. ASSUME NEW a \in Attempts, Script(a), ~Write(a)
        PROVE  KeysStand'
    <2>1. UNCHANGED << wallet_snapshot, orders, gold >>
      BY <1>6 DEF Script, Start, LoadRules, FallBackToSeed, WriteRefused, Fail, upstream
    <2> QED BY <1>1, <2>1
  <1>7. CASE UNCHANGED vars
    BY <1>1, <1>7 DEF vars, upstream
  <1> QED BY <1>2, <1>3, <1>4, <1>5, <1>6, <1>7 DEF Next

\* What has been settled, and what a steady attempt has written, stays shown.
LEMMA SettledNext ==
  ASSUME TypeOK, LocalsInv, KeysStand, SettledInv, SteadyInv, [Next]_vars
  PROVE  SettledInv' /\ SteadyInv'
  <1>1. CASE OrdersArrive \/ SilverMerges
    BY <1>1 DEF OrdersArrive, SilverMerges, SettledInv, SteadyInv
  <1>2. ASSUME UNCHANGED << upstream, gold, settled >>,
               \A b \in steady' : pc'[b] = "write" =>
                 \/ written'[b] = 0
                 \/ /\ b \in steady /\ pc[b] = "write" /\ written'[b] = written[b]
                    /\ task'[b] = task[b] /\ payload'[b] = payload[b] /\ rules'[b] = rules[b]
        PROVE  SettledInv' /\ SteadyInv'
    <2>1. ASSUME NEW t, NEW w, NEW p, NEW by, NEW d, Converged(t, w, p, by, d)
          PROVE  Converged(t, w, p, by, d)'
      BY <1>2, <2>1, ConvergedStays
    <2>2. SettledInv'
      BY <1>2, <2>1 DEF SettledInv
    <2>3. SteadyInv'
      <3>1. SUFFICES ASSUME NEW b \in steady', NEW w, NEW p, NEW by, pc'[b] = "write",
                            w = task'[b], p = payload'[b], by = rules'[b],
                            NEW i \in 1 .. written'[b], NEW d \in Dates(p)
                     PROVE  Converged(TablesOf[w][i], w, p, by, d)'
        BY DEF SteadyInv
      <3>2. /\ b \in steady /\ pc[b] = "write" /\ i \in 1 .. written[b]
            /\ w = task[b] /\ p = payload[b] /\ by = rules[b]
        BY <1>2, <3>1
      <3>3. Converged(TablesOf[w][i], w, p, by, d)
        BY <3>2 DEF SteadyInv
      <3> QED BY <2>1, <3>3
    <2> QED BY <2>2, <2>3
  <1>3. CASE SyncRules \/ UNCHANGED vars
    BY <1>2, <1>3 DEF SyncRules, locals, history, vars
  <1>4. ASSUME NEW a \in Attempts, Script(a), ~Write(a)
        PROVE  SettledInv' /\ SteadyInv'
    <2>1. \A b \in Attempts \ {a} :
            /\ pc'[b] = pc[b] /\ written'[b] = written[b]
            /\ task'[b] = task[b] /\ payload'[b] = payload[b] /\ rules'[b] = rules[b]
      BY <1>4, ScriptAlone DEF Alone
    <2>2. UNCHANGED << upstream, gold, settled >> /\ steady' \subseteq steady \cup {a}
      BY <1>4 DEF Script, Start, LoadRules, FallBackToSeed, WriteRefused, Fail, Leave, history
    <2>3. pc'[a] # "write" \/ written'[a] = 0
      BY <1>4 DEF Script, Start, LoadRules, FallBackToSeed, WriteRefused, Fail, Leave,
                  TypeOK, LocalsInv
    <2>4. steady' \subseteq Attempts
      BY <2>2 DEF TypeOK
    <2> QED BY <1>2, <2>1, <2>2, <2>3, <2>4
  <1>5. ASSUME NEW a \in Attempts, Write(a)
        PROVE  SettledInv' /\ SteadyInv'
    <2> DEFINE u == task[a]
               q == payload[a]
               mine == rules[a]
               last == written[a] + 1 = Len(TablesOf[u])
    <2>1. /\ pc[a] = "write" /\ u \in Tasks /\ written[a] + 1 \in 1 .. Len(TablesOf[u])
          /\ written[a] \in Nat /\ UNCHANGED upstream
      BY <1>5, WriteStep
    <2>2. \A b \in Attempts \ {a} :
            /\ pc'[b] = pc[b] /\ written'[b] = written[b]
            /\ task'[b] = task[b] /\ payload'[b] = payload[b] /\ rules'[b] = rules[b]
      BY <1>5, ScriptAlone DEF Alone, Script
    <2>3. /\ settled' = (settled \ Unsettled(a)) \cup (IF last THEN NowSettled(a) ELSE {})
          /\ last => pc'[a] = "ended" /\ steady' = steady \ {a}
          /\ ~last => /\ steady' = steady /\ written'[a] = written[a] + 1
                      /\ task'[a] = u /\ payload'[a] = q /\ rules'[a] = mine
      BY <1>5 DEF Write, Leave, TypeOK, LocalsInv
    <2>4. \A i \in 1 .. Len(TablesOf[u]) :
            /\ TablesOf[u][i] \in Range(TablesOf[u])
            /\ TablesOf[u][i] = NextTable(a) => i = written[a] + 1
      BY <2>1, TableNames, TablesDiffer DEF Range, NextTable
    <2>5. ASSUME NEW t, t = NextTable(a), NEW w, w = u, NEW p, p = q, NEW by, by = mine,
                 NEW d \in Dates(p)
          PROVE  Converged(t, w, p, by, d)'
      BY <1>5, <2>5, WriteConverges
    <2>6. ASSUME a \in steady, NEW w, w = u, NEW p, p = q, NEW by, by = mine,
                 NEW d \in Dates(p), NEW i \in 1 .. written[a]
          PROVE  Converged(TablesOf[w][i], w, p, by, d)'
      <3>1. Converged(TablesOf[w][i], w, p, by, d)
        BY <2>1, <2>6 DEF SteadyInv
      <3>2. TablesOf[w][i] \in Range(TablesOf[w]) /\ TablesOf[w][i] # NextTable(a)
        BY <2>1, <2>4, <2>6
      <3> QED BY <1>5, <2>1, <2>6, <3>1, <3>2, WriteKeeps
    <2>7. SettledInv'
      <3>1. SUFFICES ASSUME NEW s \in settled'
                     PROVE  /\ s.task \in Tasks
                            /\ \A t \in Range(TablesOf[s.task]) :
                                 Converged(t, s.task, s.run_id, s.rules, s.date)'
        BY DEF SettledInv
      <3>2. CASE s \in settled \ Unsettled(a)
        <4>1. /\ s.task \in Tasks
              /\ \A t \in Range(TablesOf[s.task]) :
                   Converged(t, s.task, s.run_id, s.rules, s.date)
          BY <3>2 DEF SettledInv
        <4>2. \/ s.task # u \/ s.date \notin Dates(q)
              \/ s.run_id = q /\ s.rules = mine
          BY <3>2 DEF Unsettled, RunId
        <4>3. ASSUME NEW t \in Range(TablesOf[s.task])
              PROVE  Converged(t, s.task, s.run_id, s.rules, s.date)'
          <5>1. CASE t # NextTable(a) \/ s.task # u \/ s.date \notin Dates(q)
            BY <1>5, <4>1, <5>1, WriteKeeps
          <5>2. CASE t = NextTable(a) /\ s.task = u /\ s.date \in Dates(q)
            BY <2>5, <4>2, <5>2
          <5> QED BY <5>1, <5>2
        <4> QED BY <4>1, <4>3
      <3>3. CASE last /\ s \in NowSettled(a)
        <4>1. /\ a \in steady /\ s.task = u
              /\ s.run_id = q /\ s.rules = mine /\ s.date \in Dates(q)
          BY <3>3 DEF NowSettled, RunId
        <4>2. ASSUME NEW t \in Range(TablesOf[s.task])
              PROVE  Converged(t, s.task, s.run_id, s.rules, s.date)'
          <5>1. PICK i \in 1 .. Len(TablesOf[u]) : t = TablesOf[u][i]
            BY <2>1, <4>1, TableNames DEF Range
          <5>2. CASE i = written[a] + 1
            BY <2>5, <4>1, <5>1, <5>2 DEF NextTable
          <5>3. CASE i # written[a] + 1
            <6>1. i \in 1 .. written[a]
              BY <2>1, <3>3, <5>3, TableNames
            <6> QED BY <2>6, <4>1, <5>1, <6>1
          <5> QED BY <5>2, <5>3
        <4> QED BY <2>1, <4>1, <4>2
      <3> QED BY <2>3, <3>1, <3>2, <3>3
    <2>8. SteadyInv'
      <3>1. SUFFICES ASSUME NEW b \in steady', NEW w, NEW p, NEW by, pc'[b] = "write",
                            w = task'[b], p = payload'[b], by = rules'[b],
                            NEW i \in 1 .. written'[b], NEW d \in Dates(p)
                     PROVE  Converged(TablesOf[w][i], w, p, by, d)'
        BY DEF SteadyInv
      <3>2. b \in steady /\ b \in Attempts
        BY <2>3 DEF TypeOK
      <3>3. CASE b = a
        <4>1. ~last /\ w = u /\ p = q /\ by = mine /\ i \in 1 .. written[a] + 1
          BY <2>3, <3>1, <3>3
        <4>2. CASE i = written[a] + 1
          <5>1. TablesOf[w][i] = NextTable(a)
            BY <4>1, <4>2 DEF NextTable
          <5> QED BY <2>5, <4>1, <5>1
        <4>3. CASE i # written[a] + 1
          <5>1. i \in 1 .. written[a]
            BY <2>1, <4>1, <4>3
          <5> QED BY <2>6, <3>2, <3>3, <4>1, <5>1
        <4> QED BY <4>2, <4>3
      <3>4. CASE b # a
        <4>1. /\ pc[b] = "write" /\ i \in 1 .. written[b]
              /\ w = task[b] /\ p = payload[b] /\ by = rules[b]
          BY <2>2, <3>1, <3>2, <3>4
        <4>2. Converged(TablesOf[w][i], w, p, by, d)
          BY <3>2, <4>1 DEF SteadyInv
        <4>3. w \in Tasks /\ w # u /\ written[b] \in 0 .. Len(TablesOf[w]) - 1
          BY <2>1, <3>2, <3>4, <4>1 DEF LocalsInv, Active
        <4>4. TablesOf[w][i] \in Range(TablesOf[w])
          BY <4>1, <4>3, TableNames DEF Range
        <4> QED BY <1>5, <4>2, <4>3, <4>4, WriteKeeps
      <3> QED BY <3>3, <3>4
    <2> QED BY <2>7, <2>8
  <1> QED BY <1>1, <1>3, <1>4, <1>5 DEF Next

\* At the start nothing is settled and no table has a row.
LEMMA ConvergeInit == Init => KeysStand /\ SettledInv /\ SteadyInv
  BY TableNames DEF Init, KeysStand, SettledInv, SteadyInv

\* Reruns converge: what a success over unchanging inputs settled is what the
\* tables show, whatever killed attempts and other runs have left there.
THEOREM RerunsConverge == Spec => []GoldConverges
  <1> DEFINE Inv == TypeOK /\ LocalsInv /\ KeysStand /\ SettledInv /\ SteadyInv
  <1>1. Init => Inv
    BY TypingInit, ConvergeInit
  <1>2. Inv /\ [Next]_vars => Inv'
    BY TypingNext, KeysNext, SettledNext
  <1>3. Inv => GoldConverges
    BY DEF SettledInv, GoldConverges, Converged
  <1> QED BY <1>1, <1>2, <1>3, PTL DEF Spec

\* A value beyond the limit of a rule has a severity.
LEMMA BreachIsSevere ==
  ASSUME NEW value, NEW rule, Limits(rule), value > Threshold(rule)
  PROVE  Severity(value, rule) # None
  BY ControlsGoldAssumption DEF Limits, Threshold, OrElse, Severity, Severities

\* The exceptions of the balances hold every drift that is severe.
LEMMA DriftException ==
  ASSUME NEW dates, NEW silver, NEW p, NEW by, NEW r \in Recon(dates, silver, p, by),
         Severity(r.drift_abs, SelectRule(by, "ledger.drift_abs")) # None
  PROVE  \E x \in ReconExceptions(dates, silver, p, by) :
           /\ x.date_kst = r.date_kst /\ x.run_id = p
           /\ x.metric = "drift_abs" /\ x.metric_value = r.drift_abs
  <1> DEFINE rule == SelectRule(by, "ledger.drift_abs")
             Row(s) == [date_kst |-> s.date_kst, exception_type |-> "RECON_DRIFT_HIGH",
                        severity |-> Severity(s.drift_abs, rule), metric |-> "drift_abs",
                        metric_value |-> s.drift_abs,
                        message |-> << s.user_id, s.delta_balance_total, s.net_flow_total,
                                       s.drift_abs >>,
                        run_id |-> p, rule_id |-> s.rule_id]
  <1>1. Row(r) \in ReconExceptions(dates, silver, p, by)
    BY DEF ReconExceptions
  <1>2. /\ Row(r).date_kst = r.date_kst /\ Row(r).run_id = p
        /\ Row(r).metric = "drift_abs" /\ Row(r).metric_value = r.drift_abs
    OBVIOUS
  <1> HIDE DEF Row
  <1> QED BY <1>1, <1>2

\* A drift beyond the limit that the daily table shows is in the exception
\* ledger, under the run that found it.
THEOREM DriftsAreRecorded == Spec => []DriftsRecorded
  <1>1. ASSUME GoldConverges, SnapshotsApart, NEW s \in settled, s.task = "recon",
               Limits(SelectRule(s.rules, "ledger.drift_abs")),
               NEW r \in OnDate(gold["recon_daily_snapshot_flow"], s.date),
               r.drift_abs > Threshold(SelectRule(s.rules, "ledger.drift_abs"))
        PROVE  Recorded(s, "drift_abs", r.drift_abs)
    <2> DEFINE silver == Visible(s.run_id)
               daily == Frame("recon_daily_snapshot_flow", "recon", s.run_id, s.rules, silver)
               exceptions == Frame("exception_ledger", "recon", s.run_id, s.rules, silver)
    <2>1. {"recon_daily_snapshot_flow", "exception_ledger"} \subseteq Range(TablesOf["recon"])
      BY DEF TablesOf, Range
    <2>2. /\ OnDate(gold["recon_daily_snapshot_flow"], s.date) = OnDate(daily, s.date)
          /\ OnDate(exceptions, s.date) \subseteq gold["exception_ledger"]
      BY <1>1, <2>1 DEF GoldConverges, Determined
    <2>3. /\ daily = Recon(Dates(s.run_id), Visible(s.run_id), s.run_id, s.rules)
          /\ exceptions = ReconExceptions(Dates(s.run_id), Visible(s.run_id), s.run_id, s.rules)
      BY DEF Frame
    <2> HIDE DEF daily, exceptions
    <2>4. r \in daily /\ r.date_kst = s.date
      BY <1>1, <2>2 DEF OnDate
    <2>5. Severity(r.drift_abs, SelectRule(s.rules, "ledger.drift_abs")) # None
      BY <1>1, BreachIsSevere
    <2>6. PICK x \in exceptions :
            /\ x.date_kst = r.date_kst /\ x.run_id = s.run_id
            /\ x.metric = "drift_abs" /\ x.metric_value = r.drift_abs
      BY <2>3, <2>4, <2>5, DriftException
    <2>7. x \in gold["exception_ledger"]
      BY <2>2, <2>4, <2>6 DEF OnDate
    <2> QED BY <2>4, <2>6, <2>7 DEF Recorded
  <1>2. GoldConverges => DriftsRecorded
    BY <1>1 DEF DriftsRecorded
  <1> QED BY <1>2, RerunsConverge, PTL

-----------------------------------------------------------------------------
(* Mismatches.  A supply that is not ok is judged against the limit as a     *)
(* number: the sums over the finite tables of Silver are numbers.            *)

\* The sum of finitely many integers is an integer.
LEMMA TotalTyped ==
  ASSUME NEW S, IsFiniteSet(S), NEW amounts \in [S -> Int]
  PROVE  TotalOf(amounts) \in Int
  <1> DEFINE Pick(s) == CHOOSE x \in s : TRUE
             pick == [s \in SUBSET S |-> Pick(s)]
             op == [p \in S \X Int |-> amounts[p[1]] + p[2]]
             Body(g) == [s \in SUBSET S |->
               IF s = {} THEN 0 ELSE amounts[Pick(s)] + g[s \ {Pick(s)}]]
  <1>1. \A s \in SUBSET S : s # {} => Pick(s) \in s
    OBVIOUS
  <1>2. op \in [S \X Int -> Int]
    OBVIOUS
  <1> HIDE DEF Pick
  <1>3. PICK g \in [SUBSET S -> Int] : IsFold(g, S, pick, op, 0)
    <2>1. \A s \in SUBSET S : s # {} => pick[s] \in s
      BY <1>1
    <2>3. IsFiniteSet(S) /\ 0 \in Int
      OBVIOUS
    <2> HIDE DEF pick, op, Body
    <2>2. \E g \in [SUBSET S -> Int] : IsFold(g, S, pick, op, 0)
      BY <1>2, <2>1, <2>3, FoldExists
    <2> QED BY <2>2
  <1>4. \A s \in SUBSET S :
          g[s] = IF s = {} THEN 0 ELSE amounts[Pick(s)] + g[s \ {Pick(s)}]
    <2> SUFFICES ASSUME NEW s \in SUBSET S, s # {}
                 PROVE  g[s] = amounts[Pick(s)] + g[s \ {Pick(s)}]
      BY <1>3 DEF IsFold
    <2>1. Pick(s) \in S /\ g[s \ {Pick(s)}] \in Int
      BY <1>1, <1>3
    <2>2. g[s] = op[<< pick[s], g[s \ {pick[s]}] >>]
      BY <1>3 DEF IsFold
    <2> QED BY <2>1, <2>2
  <1>5. g = Body(g)
    BY <1>3, <1>4
  <1>6. ASSUME NEW h, h = Body(h) PROVE h[S] = g[S]
    <2>1. \A s \in SUBSET S :
            h[s] = IF s = {} THEN 0 ELSE amounts[Pick(s)] + h[s \ {Pick(s)}]
      BY <1>6
    <2>2. h[{}] = 0 /\ \A s \in SUBSET S :
            s # {} /\ h[s \ {pick[s]}] = g[s \ {pick[s]}] => h[s] = g[s]
      BY <1>4, <2>1
    <2>3. \A s \in SUBSET S : s # {} => pick[s] \in s
      BY <1>1
    <2>4. IsFiniteSet(S) /\ IsFold(g, S, pick, op, 0)
      BY <1>3
    <2> HIDE DEF pick, op, Body
    <2>5. \A s \in SUBSET S : h[s] = g[s]
      BY <2>2, <2>3, <2>4, FoldUnique
    <2> QED BY <2>5
  <1>7. TotalOf(amounts) = (CHOOSE h : h = Body(h))[S]
    BY DEF TotalOf, MapThenSumSet, MapThenFoldSet, Pick
  <1>8. TotalOf(amounts) = g[S]
    <2> DEFINE h == CHOOSE h : h = Body(h)
    <2>1. h = Body(h)
      <3> HIDE DEF Body
      <3> QED BY <1>5
    <2> HIDE DEF h, Body
    <2> QED BY <1>6, <1>7, <2>1 DEF h
  <1> QED BY <1>3, <1>8

\* The last balance of a user with a snapshot on the date is a number.
LEMMA EndBalanceTyped ==
  ASSUME DataInv, NEW d, NEW u \in Users(d, wallet_snapshot)
  PROVE  EndBalance(u, d, wallet_snapshot) \in Int
  <1> DEFINE own == { w \in Snapshots(d, wallet_snapshot) : w.user_id = u }
             times == { w.snapshot_ts : w \in own }
             ts == [w \in own |-> w.snapshot_ts]
  <1>1. /\ own \subseteq wallet_snapshot /\ IsFiniteSet(own) /\ own # {}
        /\ \A w \in own : w.snapshot_ts \in Int /\ w.balance_total \in Int
    <2>1. own \subseteq wallet_snapshot
      BY DEF Snapshots
    <2>2. own # {}
      BY DEF Users
    <2>3. IsFiniteSet(wallet_snapshot)
          /\ \A w \in wallet_snapshot : w.snapshot_ts \in Int /\ w.balance_total \in Int
      BY DEF DataInv
    <2> HIDE DEF own
    <2> QED BY <2>1, <2>2, <2>3, FS_Subset
  <1>2. EndBalance(u, d, wallet_snapshot)
          = (CHOOSE w \in own : \A v \in own : w.snapshot_ts >= v.snapshot_ts).balance_total
    BY DEF EndBalance
  <1> HIDE DEF own
  <1>3. \E w \in own : \A v \in own : w.snapshot_ts >= v.snapshot_ts
    <2>1. IsFiniteSet({ ts[w] : w \in own })
      BY <1>1, FiniteImage
    <2>2. times = { ts[w] : w \in own } /\ times \in SUBSET Int /\ times # {}
      BY <1>1
    <2>3. \E x \in times : \A y \in times : y <= x
      <3> HIDE DEF times
      <3> QED BY <2>1, <2>2, GreatestExists
    <2> QED BY <1>1, <2>3
  <1> DEFINE last == CHOOSE w \in own : \A v \in own : w.snapshot_ts >= v.snapshot_ts
  <1>4. last \in own
    BY <1>3
  <1> HIDE DEF last
  <1> QED BY <1>1, <1>2, <1>4 DEF last

\* So is the sum of these balances.
LEMMA WalletTotalTyped ==
  ASSUME DataInv, NEW d
  PROVE  WalletTotal(d, wallet_snapshot) \in Int
  <1> DEFINE S == Users(d, wallet_snapshot)
             balance == [u \in S |-> EndBalance(u, d, wallet_snapshot)]
             of == [w \in Snapshots(d, wallet_snapshot) |-> w.user_id]
  <1>1. IsFiniteSet(Snapshots(d, wallet_snapshot))
    BY FS_Subset DEF Snapshots, DataInv
  <1>2. IsFiniteSet({ of[w] : w \in Snapshots(d, wallet_snapshot) })
    BY <1>1, FiniteImage
  <1>3. S = { of[w] : w \in Snapshots(d, wallet_snapshot) }
    BY DEF Users
  <1>4. balance \in [S -> Int]
    BY EndBalanceTyped
  <1>5. WalletTotal(d, wallet_snapshot) = TotalOf(balance)
    BY DEF WalletTotal
  <1> HIDE DEF S, balance, of
  <1> QED BY <1>2, <1>3, <1>4, <1>5, TotalTyped

\* What has been issued, on the ledger of a run, is a number.
LEMMA IssuedTyped ==
  ASSUME DataInv, NEW ledger \in SUBSET ledger_entries, NEW d
  PROVE  IssuedSupply(d, ledger) \in Int
  <1> DEFINE S == { e \in Issuing(ledger) : EntryDate(e) # None /\ EntryDate(e) <= d }
             amount == [e \in S |-> e.amount * SupplyEntrySigns[e.entry_type]]
  <1>1. S \subseteq ledger_entries /\ \A e \in S :
          e.amount # None /\ e.entry_type \in DOMAIN SupplyEntrySigns
    BY DEF Issuing
  <1>2. IssuedSupply(d, ledger) = TotalOf(amount)
    BY DEF IssuedSupply, Issued
  <1> HIDE DEF S
  <1>3. IsFiniteSet(S)
    BY <1>1, FS_Subset DEF DataInv
  <1>4. \A e \in S : e.amount * SupplyEntrySigns[e.entry_type] \in Int
    <2> SUFFICES ASSUME NEW e \in S PROVE e.amount * SupplyEntrySigns[e.entry_type] \in Int
      OBVIOUS
    <2>1. e.amount \in Int
      BY <1>1 DEF DataInv, Optional
    <2>2. SupplyEntrySigns[e.entry_type] \in Int
      BY <1>1 DEF SupplyEntrySigns
    <2> QED BY <2>1, <2>2
  <1>5. amount \in [S -> Int]
    BY <1>4
  <1> HIDE DEF amount
  <1> QED BY <1>2, <1>3, <1>5, TotalTyped

\* The difference a run computes for a date is a number.
LEMMA SupplyTyped ==
  ASSUME DataInv, NEW p, NEW by, NEW r \in Supply(Dates(p), Visible(p), p, by)
  PROVE  /\ r.diff_amount \in Int
         /\ LET limit == Threshold(SelectRule(by, "ledger.supply_diff_abs"))
            IN  limit # None => (r.is_ok <=> Magnitude(r.diff_amount) <= limit)
  <1> DEFINE rule == SelectRule(by, "ledger.supply_diff_abs")
             limit == Threshold(rule)
  <1>1. PICK d \in Dates(p) : r = SupplyRow(d, Visible(p), p, rule)
    BY DEF Supply
  <1> HIDE DEF rule
  <1> DEFINE issued == IssuedSupply(d, Visible(p).ledger)
             total == WalletTotal(d, Visible(p).closing)
  <1>2. Visible(p).ledger \in SUBSET ledger_entries /\ Visible(p).closing = wallet_snapshot
    BY DEF Visible, Silver, LedgerUpTo
  <1>3. issued \in Int /\ total \in Int
    BY <1>2, IssuedTyped, WalletTotalTyped
  <1>4. /\ r.diff_amount = issued - total
        /\ r.is_ok = IF limit # None THEN Magnitude(issued - total) <= limit
                     ELSE issued = total
    BY <1>1 DEF SupplyRow
  <1> HIDE DEF issued, total, limit
  <1>5. r.diff_amount \in Int
    BY <1>3, <1>4
  <1>6. limit # None => (r.is_ok <=> Magnitude(r.diff_amount) <= limit)
    BY <1>4
  <1> QED BY <1>5, <1>6 DEF limit, rule

\* A rule that is selected is one of the rules.
LEMMA SelectedIsOne ==
  ASSUME NEW by, Judging(by), NEW metric, SelectRule(by, metric) # None
  PROVE  SelectRule(by, metric) \in by
  <1> DEFINE candidates == { r \in by : r.metric = metric }
             current == { r \in candidates : r.is_current }
             pool == IF current # {} THEN current ELSE candidates
             ts == [r \in pool |-> r.effective_start_ts]
             times == { r.effective_start_ts : r \in pool }
  <1>1. /\ pool # {}
        /\ SelectRule(by, metric) = CHOOSE r \in pool :
             \A s \in pool : s.effective_start_ts <= r.effective_start_ts
    BY DEF SelectRule
  <1>2. pool \subseteq by /\ \A r \in by : r.effective_start_ts \in Int
    BY DEF Judging
  <1> HIDE DEF pool
  <1>3. IsFiniteSet(pool)
    BY <1>2, FS_Subset DEF Judging
  <1>4. IsFiniteSet({ ts[r] : r \in pool })
    BY <1>3, FiniteImage
  <1>5. times = { ts[r] : r \in pool } /\ times \in SUBSET Int /\ times # {}
    BY <1>1, <1>2
  <1>6. \E x \in times : \A y \in times : y <= x
    <2> HIDE DEF times
    <2> QED BY <1>4, <1>5, GreatestExists
  <1>7. \E r \in pool : \A s \in pool : s.effective_start_ts <= r.effective_start_ts
    BY <1>6
  <1> QED BY <1>1, <1>2, <1>7

\* A number that is not within the limit of a selected rule has a severity.
LEMMA ExcessIsSevere ==
  ASSUME NEW by, Judging(by), NEW metric, NEW value \in Int,
         Limits(SelectRule(by, metric)), ~(value <= Threshold(SelectRule(by, metric)))
  PROVE  Severity(value, SelectRule(by, metric)) # None
  <1> DEFINE rule == SelectRule(by, metric)
  <1>1. rule \in by
    BY SelectedIsOne DEF Limits
  <1> HIDE DEF rule
  <1>2. rule.threshold \in Int \cup {None} /\ rule.crit \in Int \cup {None}
    BY <1>1 DEF Judging, Optional
  <1>3. Threshold(rule) \in Int
    BY <1>2 DEF rule, Limits, Threshold, OrElse
  <1>4. value > Threshold(rule)
    BY <1>3 DEF rule
  <1> QED BY <1>4, BreachIsSevere DEF rule

\* The exceptions of the supply hold every difference that is severe.
LEMMA MismatchException ==
  ASSUME NEW dates, NEW silver, NEW p, NEW by, NEW r \in Supply(dates, silver, p, by),
         Severity(Magnitude(r.diff_amount), SelectRule(by, "ledger.supply_diff_abs")) # None
  PROVE  \E x \in SupplyExceptions(dates, silver, p, by) :
           /\ x.date_kst = r.date_kst /\ x.run_id = p
           /\ x.metric = "supply_diff_abs" /\ x.metric_value = Magnitude(r.diff_amount)
  <1> DEFINE rule == SelectRule(by, "ledger.supply_diff_abs")
             diff(s) == Magnitude(s.diff_amount)
             Row(s) == [date_kst |-> s.date_kst, exception_type |-> "SUPPLY_MISMATCH",
                        severity |-> Severity(diff(s), rule), metric |-> "supply_diff_abs",
                        metric_value |-> diff(s),
                        message |-> << s.issued_supply, s.wallet_total_balance,
                                       s.diff_amount >>,
                        run_id |-> p, rule_id |-> s.rule_id]
  <1>1. Row(r) \in SupplyExceptions(dates, silver, p, by)
    BY DEF SupplyExceptions
  <1>2. /\ Row(r).date_kst = r.date_kst /\ Row(r).run_id = p
        /\ Row(r).metric = "supply_diff_abs"
        /\ Row(r).metric_value = Magnitude(r.diff_amount)
    OBVIOUS
  <1> HIDE DEF Row
  <1> QED BY <1>1, <1>2

\* Silver's tables stay finite, and their amounts numbers.
LEMMA DataNext ==
  ASSUME LocalsInv, DataInv, [Next]_vars
  PROVE  DataInv'
  <1>1. CASE UNCHANGED << wallet_snapshot, ledger_entries >>
    BY <1>1 DEF DataInv
  <1>2. CASE SilverMerges
    <2>1. PICK b \in Batches :
            /\ wallet_snapshot' = Upsert(wallet_snapshot, WalletSnapshot(b.wallets),
                                         LAMBDA w : << w.snapshot_ts, w.user_id >>)
            /\ ledger_entries' = Upsert(ledger_entries, LedgerEntries(b.ledger, orders),
                                        LAMBDA e : << e.tx_id, e.wallet_id >>)
      <3>1. feed \in Seq(Batches) /\ feed # << >>
        BY <1>2 DEF SilverMerges, LocalsInv
      <3>2. Batch \in Batches
        <4> HIDE DEF Batches
        <4> QED BY <3>1 DEF Batch
      <3> QED BY <1>2, <3>2 DEF SilverMerges
    <2> DEFINE wallets == WalletSnapshot(b.wallets)
               entries == LedgerEntries(b.ledger, orders)
    <2>2. /\ b.wallets \in SUBSET WalletRaw /\ IsFiniteSet(b.wallets)
          /\ b.ledger \in SUBSET LedgerRaw /\ IsFiniteSet(b.ledger)
      BY DEF Batches
    <2>3. /\ wallet_snapshot' \subseteq wallet_snapshot \cup wallets
          /\ ledger_entries' \subseteq ledger_entries \cup entries
      BY <2>1 DEF Upsert
    <2>4. IsFiniteSet(wallets)
      <3> DEFINE good == { w \in b.wallets : WalletReason(w) = None }
                 row == [w \in good |-> WalletRow(w)]
      <3>1. IsFiniteSet(good)
        BY <2>2, FS_Subset
      <3>2. wallets = { row[w] : w \in good }
        BY DEF WalletSnapshot
      <3> HIDE DEF good, row
      <3> QED BY <3>1, <3>2, FiniteImage
    <2>5. IsFiniteSet(entries)
      <3> DEFINE good == { l \in b.ledger : LedgerReason(l, orders) = None }
                 row == [l \in good |-> LedgerRow(l, orders)]
      <3>1. IsFiniteSet(good)
        BY <2>2, FS_Subset
      <3>2. entries = { row[l] : l \in good }
        BY DEF LedgerEntries
      <3> HIDE DEF good, row
      <3> QED BY <3>1, <3>2, FiniteImage
    <2>6. \A w \in wallets : w.snapshot_ts \in Int /\ w.balance_total \in Int
      BY <2>2, WalletRows
    <2>7. \A e \in entries : e.amount \in Optional(Int)
      <3> SUFFICES ASSUME NEW e \in entries PROVE e.amount \in Optional(Int)
        OBVIOUS
      <3>1. PICK l \in b.ledger : e = LedgerRow(l, orders)
        BY DEF LedgerEntries
      <3>2. e.amount = l.amount /\ l \in LedgerRaw
        BY <2>2, <3>1 DEF LedgerRow
      <3> QED BY <3>2 DEF LedgerRaw
    <2> HIDE DEF wallets, entries
    <2>8. IsFiniteSet(wallet_snapshot') /\ IsFiniteSet(ledger_entries')
      BY <2>3, <2>4, <2>5, FS_Union, FS_Subset DEF DataInv
    <2> QED BY <2>3, <2>6, <2>7, <2>8 DEF DataInv
  <1>3. CASE OrdersArrive \/ SyncRules \/ UNCHANGED vars
    BY <1>1, <1>3 DEF OrdersArrive, SyncRules, vars, upstream
  <1>4. ASSUME NEW a \in Attempts, Script(a) PROVE DataInv'
    BY <1>1, <1>4 DEF Script, Start, LoadRules, FallBackToSeed, Write, WriteRefused, Fail,
                      upstream
  <1> QED BY <1>2, <1>3, <1>4 DEF Next

\* The rules of a seed can be judged by.
LEMMA SeedJudges ==
  ASSUME NEW version \in DOMAIN Seeds
  PROVE  Judging(SeedRules(version))
  <1> DEFINE items == Seeds[version]
             rule == [i \in DOMAIN items |-> FromDict(items[i])]
  <1>1. items \in Seq(SeedItem)
    BY ControlsGoldAssumption
  <1> HIDE DEF items
  <1>2. IsFiniteSet(DOMAIN items)
    BY <1>1, FS_Interval
  <1>3. SeedRules(version) = { rule[i] : i \in DOMAIN items }
    BY DEF SeedRules, items
  <1>4. ASSUME NEW i \in DOMAIN items
        PROVE  /\ rule[i].effective_start_ts \in Int
               /\ rule[i].threshold \in Optional(Int) /\ rule[i].crit \in Optional(Int)
    <2>1. items[i] \in SeedItem
      BY <1>1
    <2>2. items[i].effective_start_ts \in Optional(Int)
          /\ items[i].threshold \in Optional(Int) /\ items[i].crit \in Optional(Int)
      BY <2>1 DEF SeedItem
    <2>3. OrElse(items[i].effective_start_ts, 0) \in Int
      BY <2>2 DEF OrElse, Optional
    <2> QED BY <2>2, <2>3 DEF FromDict
  <1> HIDE DEF rule
  <1>5. IsFiniteSet(SeedRules(version))
    BY <1>2, <1>3, FiniteImage
  <1> QED BY <1>3, <1>4, <1>5 DEF Judging

\* What the tasks judge by stays such that it can be judged by.
LEMMA JudgingNext ==
  ASSUME TypeOK, LocalsInv, JudgingInv, [Next]_vars
  PROVE  JudgingInv'
  <1>1. Judging({})
    BY FS_EmptySet DEF Judging
  <1>2. CASE SyncRules
    <2>1. PICK version \in DOMAIN Seeds :
            /\ seed' = version /\ rules' = rules /\ settled' = settled
            /\ rule_table' = Synced(OrElse(rule_table, {}), SeedRules(version))
      BY <1>2 DEF SyncRules, locals, history
    <2> DEFINE older == OrElse(rule_table, {})
    <2>2. Judging(older) /\ Judging(SeedRules(version))
      BY <1>1, SeedJudges DEF JudgingInv, OrElse
    <2>3. rule_table' \subseteq SeedRules(version) \cup older
      BY <2>1 DEF Synced
    <2> HIDE DEF older
    <2>4. IsFiniteSet(rule_table')
      BY <2>2, <2>3, FS_Union, FS_Subset DEF Judging
    <2>5. Judging(rule_table')
      BY <2>2, <2>3, <2>4 DEF Judging
    <2> QED BY <2>1, <2>5 DEF JudgingInv
  <1>3. CASE OrdersArrive \/ SilverMerges
    BY <1>3 DEF OrdersArrive, SilverMerges, ruling, locals, JudgingInv
  <1>4. CASE UNCHANGED vars
    BY <1>4 DEF vars, ruling, locals, history, JudgingInv
  <1>5. ASSUME NEW a \in Attempts, Script(a)
        PROVE  JudgingInv'
    <2>1. /\ DOMAIN rules' = Attempts /\ UNCHANGED ruling
          /\ \A b \in Attempts \ {a} : rules'[b] = rules[b]
      BY <1>5, ScriptAlone DEF Alone
    <2>2. Judging(rules'[a])
      <3>1. rules'[a] \in {rules[a], {}} \/ (rule_table # None /\ rules'[a] = rule_table)
            \/ rules'[a] = SeedRules(seed)
        BY <1>5 DEF Script, Start, LoadRules, FallBackToSeed, Write, WriteRefused, Fail, Leave,
                    LocalsInv
      <3> QED BY <1>1, <3>1, SeedJudges DEF JudgingInv
    <2>3. settled' \subseteq settled \cup NowSettled(a)
      BY <1>5 DEF Script, Start, LoadRules, FallBackToSeed, Write, WriteRefused, Fail, history
    <2>4. \A s \in NowSettled(a) : Judging(s.rules)
      BY DEF NowSettled, JudgingInv
    <2> QED BY <2>1, <2>2, <2>3, <2>4 DEF JudgingInv, ruling
  <1> QED BY <1>2, <1>3, <1>4, <1>5 DEF Next

\* A day whose supply is not ok in the daily table is in the exception ledger,
\* under the run that found it.
THEOREM MismatchesAreRecorded == Spec => []MismatchesRecorded
  <1> DEFINE Inv == TypeOK /\ LocalsInv /\ DataInv /\ JudgingInv
  <1>1. Init => Inv
    <2>1. Init => DataInv
      BY FS_EmptySet DEF Init, DataInv
    <2>2. Init => JudgingInv
      BY FS_EmptySet, ControlsGoldAssumption DEF Init, JudgingInv, Judging
    <2> QED BY <2>1, <2>2, TypingInit
  <1>2. Inv /\ [Next]_vars => Inv'
    BY TypingNext, DataNext, JudgingNext
  <1>3. ASSUME Inv, GoldConverges, SnapshotsApart, NEW s \in settled, s.task = "supply_ops",
               Limits(SelectRule(s.rules, "ledger.supply_diff_abs")),
               NEW r \in OnDate(gold["ledger_supply_balance_daily"], s.date), ~r.is_ok
        PROVE  Recorded(s, "supply_diff_abs", Magnitude(r.diff_amount))
    <2> DEFINE silver == Visible(s.run_id)
               daily == Frame("ledger_supply_balance_daily", "supply_ops", s.run_id, s.rules,
                              silver)
               exceptions == Frame("exception_ledger", "supply_ops", s.run_id, s.rules, silver)
               rule == SelectRule(s.rules, "ledger.supply_diff_abs")
    <2>1. {"ledger_supply_balance_daily", "exception_ledger"}
            \subseteq Range(TablesOf["supply_ops"])
      BY DEF TablesOf, Range
    <2>2. /\ OnDate(gold["ledger_supply_balance_daily"], s.date) = OnDate(daily, s.date)
          /\ OnDate(exceptions, s.date) \subseteq gold["exception_ledger"]
      BY <1>3, <2>1 DEF GoldConverges, Determined
    <2>3. /\ daily = Supply(Dates(s.run_id), Visible(s.run_id), s.run_id, s.rules)
          /\ exceptions = SupplyExceptions(Dates(s.run_id), Visible(s.run_id), s.run_id,
                                           s.rules)
      BY DEF Frame
    <2> HIDE DEF daily, exceptions
    <2>4. r \in daily /\ r.date_kst = s.date
      BY <1>3, <2>2 DEF OnDate
    <2>5. /\ r.diff_amount \in Int /\ ~(Magnitude(r.diff_amount) <= Threshold(rule))
      BY <1>3, <2>3, <2>4, SupplyTyped DEF Limits
    <2>6. Magnitude(r.diff_amount) \in Int
      BY <2>5 DEF Magnitude
    <2>7. Severity(Magnitude(r.diff_amount), rule) # None
      BY <1>3, <2>5, <2>6, ExcessIsSevere DEF JudgingInv
    <2>8. PICK x \in exceptions :
            /\ x.date_kst = r.date_kst /\ x.run_id = s.run_id
            /\ x.metric = "supply_diff_abs" /\ x.metric_value = Magnitude(r.diff_amount)
      BY <2>3, <2>4, <2>7, MismatchException
    <2>9. x \in gold["exception_ledger"]
      BY <2>2, <2>4, <2>8 DEF OnDate
    <2> QED BY <2>4, <2>8, <2>9 DEF Recorded
  <1>4. Inv /\ GoldConverges => MismatchesRecorded
    BY <1>3 DEF MismatchesRecorded
  <1> QED BY <1>1, <1>2, <1>4, RerunsConverge, PTL DEF Spec

=============================================================================
