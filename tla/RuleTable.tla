----------------------------- MODULE RuleTable -----------------------------
(***************************************************************************)
(* The rules the pipelines judge by: definitions (src/common/rules.py),    *)
(* the checks of a set of them (src/io/rule_loader.py) and the sync of the *)
(* seed file into gold.dim_rule_scd2 (scripts/sync_dim_rule_scd2.py).      *)
(*                                                                         *)
(* A metric stands for a domain and a metric; crit and warn for the        *)
(* entries of severity_map.                                                *)
(***************************************************************************)
EXTENDS Integers, Nullable

\* An item of the seed without is_current is current while it has no end.
FromDict(item) ==
  [rule_id |-> item.rule_id, metric |-> item.metric, threshold |-> item.threshold,
   crit |-> item.crit, warn |-> item.warn,
   effective_start_ts |-> OrElse(item.effective_start_ts, 0),
   is_current |-> OrElse(item.is_current, item.effective_end_ts = None)]

\* The current rule that began last, else the rule that began last.
SelectRule(rules, metric) ==
  LET candidates == { r \in rules : r.metric = metric }
      current    == { r \in candidates : r.is_current }
      pool       == IF current # {} THEN current ELSE candidates
  IN  IF pool = {} THEN None
      ELSE CHOOSE r \in pool : \A s \in pool : s.effective_start_ts <= r.effective_start_ts

\* What _validate_runtime_rule_integrity and _validate_rules demand.
Integrity(rules) ==
  /\ rules # {}
  /\ \A r, s \in rules : r # s =>
       /\ r.rule_id # s.rule_id
       /\ ~(r.is_current /\ s.is_current /\ r.metric = s.metric)

\* Broken variant: a rule that is there already is not updated.
SyncInsertsOnly(table, seed) ==
  table \cup { r \in seed : \A s \in table : s.rule_id # r.rule_id }

\* MERGE by rule_id: nothing is removed, nothing is closed.
Synced(table, seed) ==
  seed \cup { r \in table : \A s \in seed : s.rule_id # r.rule_id }

=============================================================================
