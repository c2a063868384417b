--------------------------- MODULE DqGuardrailPy ---------------------------
(***************************************************************************)
(* build_dq_status (src/transforms/dq_guardrail.py): the plain Python      *)
(* statement of DqAssessment.  It reads a list of records, here a          *)
(* sequence, in one loop for each metric.                                  *)
(***************************************************************************)
EXTENDS Integers, Sequences, SequencesExt, DqAssessment

CalculateRate(numerator, denominator) ==
  IF denominator = 0 THEN <<0, 1>> ELSE << numerator, denominator >>

Newest(max_ts, ts) ==
  IF ts = None THEN max_ts ELSE IF max_ts = None \/ ts > max_ts THEN ts ELSE max_ts

\* The newest timestamp after one more record.
NewestAfter(max_ts, r) == Newest(Newest(max_ts, r.created_at), r.ingested_at)

ComputeFreshnessSec(records, now) ==
  LET max_ts == FoldLeft(NewestAfter, None, records)
  IN  IF max_ts = None THEN None ELSE << now - max_ts, 1 >>

\* A key seen before is a duplicate; records without their key do not count.
CountedAfter(acc, r) ==
  IF r.key = None THEN acc
  ELSE [seen |-> acc.seen \cup {r.key}, total |-> acc.total + 1,
        duplicates |-> acc.duplicates + IF r.key \in acc.seen THEN 1 ELSE 0]

ComputeDuplicateRate(records) ==
  LET last == FoldLeft(CountedAfter, [seen |-> {}, total |-> 0, duplicates |-> 0], records)
  IN  CalculateRate(last.duplicates, last.total)

ComputeBadRecordsRate(records) ==
  CalculateRate(Cardinality({ i \in DOMAIN records : ~records[i].valid }), Len(records))

\* The comparison of a rate with a limit, both fractions.
AtLeast(value, limit) == value[1] * limit[2] - limit[1] * value[2] \in Nat

EvaluateSeverityPy(value, rule) ==
  IF rule = None \/ value = None THEN None
  ELSE IF rule.crit # None /\ AtLeast(value, rule.crit) THEN "CRITICAL"
  ELSE IF rule.warn # None /\ AtLeast(value, rule.warn) THEN "WARN"
  ELSE IF rule.threshold # None /\ AtLeast(value, rule.threshold) THEN "CRITICAL"
  ELSE None

\* _pick_overall_status: the most severe assessment, and of these the one with
\* the tag of the highest priority.
PickOverallStatus(severities) ==
  LET assessed == { m \in Metrics : severities[m] # None }
      priority == [SOURCE_STALE |-> 0, DUP_SUSPECTED |-> 1,
                   EVENT_DROP_SUSPECTED |-> 2, CONTRACT_VIOLATION |-> 3]
      wins(m, n) ==
        \/ SeverityRank(severities[m]) > SeverityRank(severities[n])
        \/ /\ SeverityRank(severities[m]) = SeverityRank(severities[n])
           /\ priority[TagOf[m]] <= priority[TagOf[n]]
      best == CHOOSE m \in assessed : \A n \in assessed : wins(m, n)
  IN  IF assessed = {} THEN << None, None >> ELSE << TagOf[best], severities[best] >>

BuildDqStatus(records, previous_zero, now) ==
  LET values == [freshness_sec |-> ComputeFreshnessSec(records, now),
                 dup_rate |-> ComputeDuplicateRate(records),
                 completeness_zero_windows |->
                   << IF records = << >> THEN previous_zero + 1 ELSE 0, 1 >>,
                 contract_bad_records_rate |-> ComputeBadRecordsRate(records)]
      severities == [m \in Metrics |-> EvaluateSeverityPy(values[m], Rules[m])]
  IN  [event_count |-> Len(records), values |-> values, severities |-> severities,
       overall |-> PickOverallStatus(severities)]

=============================================================================
