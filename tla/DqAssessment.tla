---------------------------- MODULE DqAssessment ----------------------------
(***************************************************************************)
(* How Pipeline A turns the bronze rows of one window of one source into a *)
(* dq_status row and exception rows: the pure part of                      *)
(* src/jobs/pipeline_a_spark.py (build_dq_status_spark).                   *)
(*                                                                         *)
(* A bronze row is a record with created_at, ingested_at, the duplicate    *)
(* key (key) and whether the row honours its contract (valid).  Rates and  *)
(* limits are pairs <<numerator, denominator>>; None is a missing value or *)
(* a limit the rule does not have.                                         *)
(***************************************************************************)
EXTENDS Integers, FiniteSets, Sequences, SequencesExt, Nullable

CONSTANT Rules   \* metric -> [crit, warn, threshold], or None when there is no rule

\* The metrics in the order build_dq_status_spark assesses them.
MetricOrder ==
  << "freshness_sec", "dup_rate", "completeness_zero_windows",
     "contract_bad_records_rate" >>
Metrics == ToSet(MetricOrder)

Limit == Optional(Int \X (Nat \ {0}))

ASSUME RulesAssumption ==
  Rules \in [Metrics -> Optional([crit : Limit, warn : Limit, threshold : Limit])]

TagOf == [ m \in Metrics |->
  CASE m = "freshness_sec"             -> "SOURCE_STALE"
    [] m = "dup_rate"                  -> "DUP_SUSPECTED"
    [] m = "completeness_zero_windows" -> "EVENT_DROP_SUSPECTED"
    [] m = "contract_bad_records_rate" -> "CONTRACT_VIOLATION" ]
Tags == { TagOf[m] : m \in Metrics }

\* Ties on severity go to the tag that comes first.
TagPriority == [ t \in Tags |->
  CHOOSE i \in 1..Len(MetricOrder) : TagOf[MetricOrder[i]] = t ]

SeverityRank(severity) ==
  CASE severity = "CRITICAL" -> 2
    [] severity = "WARN"     -> 1
    [] OTHER                 -> 0

-----------------------------------------------------------------------------
\* Broken variant: a value has to pass the limit.
ReachesBeyond(value, limit) ==
  limit # None /\ value[1] * limit[2] > limit[1] * value[2]

Reaches(value, limit) ==
  limit # None /\ value[1] * limit[2] >= limit[1] * value[2]

\* A value at a limit has reached it; a rule with neither a crit nor a warn
\* limit that applies falls back to its threshold.
EvaluateSeverity(value, rule) ==
  IF value = None \/ rule = None         THEN None
  ELSE IF Reaches(value, rule.crit)      THEN "CRITICAL"
  ELSE IF Reaches(value, rule.warn)      THEN "WARN"
  ELSE IF Reaches(value, rule.threshold) THEN "CRITICAL"
  ELSE None

-----------------------------------------------------------------------------
MaxOf(S) == CHOOSE x \in S : \A y \in S : y <= x

\* Age of the newest row of the window; a window without rows has none, so
\* an empty window never looks stale.
FreshnessSec(rows, now) ==
  IF rows = {} THEN None
  ELSE << now - MaxOf({ r.created_at : r \in rows } \cup
                      { r.ingested_at : r \in rows }), 1 >>

Keyed(rows) == { r \in rows : r.key # None }

DupRate(rows) ==
  LET total == Cardinality(Keyed(rows))
      distinct == Cardinality({ r.key : r \in Keyed(rows) })
  IN  IF total = 0 THEN <<0, 1>> ELSE << total - distinct, total >>

ContractBadRate(rows) ==
  IF rows = {} THEN <<0, 1>>
  ELSE << Cardinality({ r \in rows : ~r.valid }), Cardinality(rows) >>

\* Broken variant: rows in the window do not reset the counter.
ZeroWindowsSticky(previous, rows) == IF rows = {} THEN previous + 1 ELSE previous

ZeroWindows(previous, rows) == IF rows = {} THEN previous + 1 ELSE 0

Values(rows, previous_zero, now) ==
  [ m \in Metrics |->
      CASE m = "freshness_sec"             -> FreshnessSec(rows, now)
        [] m = "dup_rate"                  -> DupRate(rows)
        [] m = "completeness_zero_windows" -> << ZeroWindows(previous_zero, rows), 1 >>
        [] m = "contract_bad_records_rate" -> ContractBadRate(rows) ]

Severities(rows, previous_zero, now) ==
  LET values == Values(rows, previous_zero, now)
  IN  [ m \in Metrics |-> EvaluateSeverity(values[m], Rules[m]) ]

\* One turn of the loop of _pick_overall_status: a later assessment wins when
\* it is more severe, or as severe with a tag of higher priority.
AfterMetric(severities, best, m) ==
  LET rank == SeverityRank(severities[m])
      prio == TagPriority[TagOf[m]]
  IN  IF /\ severities[m] # None
         /\ rank > best.rank \/ (rank = best.rank /\ prio < best.prio)
      THEN [tag |-> TagOf[m], severity |-> severities[m], rank |-> rank, prio |-> prio]
      ELSE best

\* _pick_overall_status: the loop over the four assessments.
PickOverall(severities) ==
  LET start  == [tag |-> None, severity |-> None, rank |-> -1, prio |-> 999]
      first  == AfterMetric(severities, start, MetricOrder[1])
      second == AfterMetric(severities, first, MetricOrder[2])
      third  == AfterMetric(severities, second, MetricOrder[3])
  IN  AfterMetric(severities, third, MetricOrder[4])

=============================================================================
