-------------------------- MODULE GuardrailAProofs --------------------------
(***************************************************************************)
(* Proofs about GuardrailA: its type invariant, that a reported success    *)
(* stands for a run all of whose rows are committed, that no instant and   *)
(* no row is left unguarded before the high-water mark, and, where runs do *)
(* not overlap, that a failure keeps the progress of the others, that the  *)
(* state row behaves as ProgressRow says, and that the counters of empty   *)
(* windows go on across failures. Last comes that the assessment of the    *)
(* Spark job and its plain Python statement agree on any list of rows.     *)
(***************************************************************************)
EXTENDS GuardrailA, FiniteSetTheorems, InductionFacts, TLAPS

(* The assessment: a severity is one of two or none, and the overall verdict *)
(* is the verdict of one of the four metrics.                                *)

Severity == {"CRITICAL", "WARN", None}

\* Whatever the rows, the counter and the rules, each metric gets a severity.
LEMMA SeveritiesTyped ==
  ASSUME NEW rows, NEW previous, NEW now
  PROVE  Severities(rows, previous, now) \in [Metrics -> Severity]
  <1>1. ASSUME NEW value, NEW rule PROVE EvaluateSeverity(value, rule) \in Severity
    BY DEF EvaluateSeverity, Severity
  <1> QED BY <1>1 DEF Severities

\* The four metrics and their tags.
LEMMA MetricFacts ==
  /\ Metrics = { MetricOrder[1], MetricOrder[2], MetricOrder[3], MetricOrder[4] }
  /\ \A m \in Metrics : TagOf[m] \in Tags
  <1>1. DOMAIN MetricOrder = 1..4
    BY DEF MetricOrder
  <1>2. Metrics = { MetricOrder[i] : i \in 1..4 }
    BY <1>1 DEF Metrics, ToSet
  <1>3. 1..4 = {1, 2, 3, 4}
    OBVIOUS
  <1> QED BY <1>2, <1>3 DEF Tags

\* What the loop over the metrics has picked is the verdict of one of them.
PickedFrom(sev, best) ==
  /\ best.tag \in Optional(Tags)
  /\ best.severity \in Severity
  /\ best.severity # None =>
       \E m \in Metrics : sev[m] # None /\ best.tag = TagOf[m] /\ best.severity = sev[m]

\* The overall tag and severity come from one metric that breached its rule.
LEMMA PickOverallPicks ==
  ASSUME NEW sev \in [Metrics -> Severity]
  PROVE  PickedFrom(sev, PickOverall(sev))
  <1> DEFINE start == [tag |-> None, severity |-> None, rank |-> -1, prio |-> 999]
  <1>1. PickedFrom(sev, start)
    BY DEF PickedFrom, Optional, Severity
  <1>2. ASSUME NEW best, PickedFrom(sev, best), NEW m \in Metrics
        PROVE  PickedFrom(sev, AfterMetric(sev, best, m))
    <2>1. CASE AfterMetric(sev, best, m) = best
      BY <1>2, <2>1
    <2>2. CASE AfterMetric(sev, best, m) # best
      <3>1. /\ sev[m] # None
            /\ AfterMetric(sev, best, m).tag = TagOf[m]
            /\ AfterMetric(sev, best, m).severity = sev[m]
        BY <2>2 DEF AfterMetric
      <3> QED BY <3>1, MetricFacts DEF PickedFrom, Optional
    <2> QED BY <2>1, <2>2
  <1>3. \A i \in 1..4 : MetricOrder[i] \in Metrics
    <2>1. \A i \in 1..4 : i = 1 \/ i = 2 \/ i = 3 \/ i = 4
      OBVIOUS
    <2> QED BY <2>1, MetricFacts
  <1> HIDE DEF start
  <1> DEFINE first == AfterMetric(sev, start, MetricOrder[1])
             second == AfterMetric(sev, first, MetricOrder[2])
             third == AfterMetric(sev, second, MetricOrder[3])
  <1>4. PickedFrom(sev, first)
    BY <1>1, <1>2, <1>3
  <1> HIDE DEF first
  <1>5. PickedFrom(sev, second)
    BY <1>4, <1>2, <1>3
  <1> HIDE DEF second
  <1>6. PickedFrom(sev, third)
    BY <1>5, <1>2, <1>3
  <1> HIDE DEF third
  <1>7. PickedFrom(sev, AfterMetric(sev, third, MetricOrder[4]))
    BY <1>6, <1>2, <1>3
  <1> QED BY <1>7 DEF PickOverall, start, first, second, third

-----------------------------------------------------------------------------
(* The work list of a run: the pairs of its windows and the sources.         *)

\* Numbers up to n times k as n turns of k: the turn, and the place in it.
Turn(i, k) == ((i - 1) \div k) + 1
Place(i, k) == ((i - 1) % k) + 1

\* A number has a turn and a place.
LEMMA Turns ==
  ASSUME NEW n \in Nat, NEW k \in Nat \ {0}
  PROVE  /\ n * k \in Nat
         /\ \A i \in 1..n * k : Turn(i, k) \in 1..n /\ Place(i, k) \in 1..k
  <1>1. n * k \in Nat
    OBVIOUS
  <1>2. ASSUME NEW i \in 1..n * k
        PROVE  Turn(i, k) \in 1..n /\ Place(i, k) \in 1..k
    <2> DEFINE p == (i - 1) \div k
               q == (i - 1) % k
    <2>1. p \in Int /\ q \in 0..k - 1 /\ i - 1 = k * p + q
      BY <1>1
    <2> HIDE DEF p, q
    <2>2. i \in Int /\ 0 <= i - 1 /\ i - 1 < n * k
      BY <1>1
    <2>3. p >= 0
      <3>1. SUFFICES ASSUME p <= -1 PROVE FALSE
        BY <2>1
      <3>2. k * p <= k * (-1)
        BY <2>1, <3>1
      <3> QED BY <2>1, <2>2, <3>2
    <2>4. p < n
      <3>1. SUFFICES ASSUME n <= p PROVE FALSE
        BY <2>1
      <3>2. k * n <= k * p
        BY <2>1, <3>1
      <3> QED BY <2>1, <2>2, <3>2
    <2> QED BY <2>1, <2>3, <2>4 DEF p, q, Turn, Place
  <1> QED BY <1>1, <1>2

\* Each turn has each of its places.
LEMMA EachTurn ==
  ASSUME NEW n \in Nat, NEW k \in Nat \ {0}, NEW p \in 1..n, NEW q \in 1..k
  PROVE  \E i \in 1..n * k : Turn(i, k) = p /\ Place(i, k) = q
  <1> DEFINE base == k * (p - 1)
             top == n * k
             i == base + q
  <1>1. i \in Int /\ i - 1 = k * (p - 1) + (q - 1) /\ q - 1 \in 0..k - 1
    OBVIOUS
  <1>2. (i - 1) \div k = p - 1 /\ (i - 1) % k = q - 1
    BY <1>1
  <1>3. base \in Nat /\ base + k <= top /\ top \in Nat
    OBVIOUS
  <1> HIDE DEF base, top
  <1>4. i \in 1..top
    BY <1>3
  <1>5. Turn(i, k) = p /\ Place(i, k) = q
    BY <1>1, <1>2 DEF Turn, Place
  <1> QED BY <1>4, <1>5 DEF top

\* A work list goes on with its tail.
LEMMA TailTurns ==
  ASSUME NEW S, NEW s \in Seq(S), s # << >>
  PROVE  \A k \in 1..Len(Tail(s)) : k + 1 \in 1..Len(s) /\ Tail(s)[k] = s[k + 1]
  OBVIOUS

\* The work list holds each window with each source, and nothing else.
LEMMA WorklistPairs ==
  ASSUME NEW wins \in Seq(Int \X Int)
  PROVE  /\ Worklist(wins) \in Seq((Int \X Int) \X Sources)
         /\ \A k \in 1..Len(Worklist(wins)) :
              \E i \in 1..Len(wins) : Worklist(wins)[k][1] = wins[i]
         /\ \A i \in 1..Len(wins), s \in Sources :
              \E k \in 1..Len(Worklist(wins)) : Worklist(wins)[k] = << wins[i], s >>
  <1> DEFINE n == Len(wins)
             k == Len(SourceOrder)
             w(i) == Turn(i, k)
             c(i) == Place(i, k)
  <1>1. SourceOrder \in Seq(STRING) /\ n \in Nat /\ k \in Nat \ {0}
    BY GuardrailAssumption
  <1>2. \A j \in 1..k : SourceOrder[j] \in Sources
    BY <1>1 DEF Sources, ToSet
  <1>3. \A s \in Sources : \E j \in 1..k : SourceOrder[j] = s
    BY <1>1 DEF Sources, ToSet
  <1> HIDE DEF n, k
  <1>4. /\ n * k \in Nat
        /\ \A i \in 1..n * k : w(i) \in 1..n /\ c(i) \in 1..k
        /\ \A p \in 1..n, q \in 1..k : \E i \in 1..n * k : w(i) = p /\ c(i) = q
    BY <1>1, Turns, EachTurn
  <1>5. Worklist(wins) = [i \in 1..n * k |-> << wins[w(i)], SourceOrder[c(i)] >>]
    BY DEF Worklist, n, k, Turn, Place
  <1> HIDE DEF w, c
  <1>6. \A p \in 1..n : wins[p] \in Int \X Int
    BY DEF n
  <1>7. \A i \in 1..n * k : << wins[w(i)], SourceOrder[c(i)] >> \in (Int \X Int) \X Sources
    BY <1>2, <1>4, <1>6
  <1>8. Worklist(wins) \in Seq((Int \X Int) \X Sources) /\ Len(Worklist(wins)) = n * k
    <2> DEFINE size == n * k
               pair(i) == << wins[w(i)], SourceOrder[c(i)] >>
    <2>1. size \in Nat /\ \A i \in 1..size : pair(i) \in (Int \X Int) \X Sources
      BY <1>4, <1>7
    <2>2. Worklist(wins) = [i \in 1..size |-> pair(i)]
      BY <1>5
    <2> HIDE DEF size, pair
    <2>3. Worklist(wins) \in Seq((Int \X Int) \X Sources) /\ Len(Worklist(wins)) = size
      BY <2>1, <2>2
    <2> QED BY <2>3 DEF size
  <1>9. \A i \in 1..n * k : Worklist(wins)[i] = << wins[w(i)], SourceOrder[c(i)] >>
    BY <1>5
  <1>10. \A p \in 1..n, s \in Sources :
           \E i \in 1..n * k : Worklist(wins)[i] = << wins[p], s >>
    BY <1>3, <1>4, <1>9
  <1>11. \A i \in 1..n * k : Worklist(wins)[i][1] = wins[w(i)]
    BY <1>9
  <1> QED BY <1>4, <1>8, <1>10, <1>11 DEF n

-----------------------------------------------------------------------------
(* What a run has in its hands.  TypeOK is not inductive: the rows to count  *)
(* are finitely many, a run has windows once it has resolved them, and what  *)
(* it has to assess are pairs of one of them and a source.                   *)

HasWindows(a) == pc[a] \in {"assess", "exceptions", "commit"}

InHand(a) ==
  /\ pc[a] \in {"idle", "params"} => dq_rows[a] = << >>
  /\ HasWindows(a) => windows[a] # << >>
  /\ \A d \in ToSet(dq_rows[a]) : d.run_id = a
  /\ \A k \in 1..Len(todo[a]) :
       \E i \in 1..Len(windows[a]) : todo[a][k][1] = windows[a][i]

WorkInv ==
  /\ \A s \in Sources : IsFiniteSet(bronze[s])
  /\ seen \in [Attempts -> [Sources -> SUBSET BronzeRow]]
  /\ checked \in [Sources -> SUBSET BronzeRow]
  /\ origin \in Optional(Int)
  /\ \A a \in Attempts : InHand(a)

(* SuccessIsRecorded is not inductive: the rows of a run are on their way    *)
(* through its variables to the two tables, pair by pair and in two commits. *)

HasRow(rows, a, win, s) ==
  \E d \in rows : /\ d.run_id = a /\ d.source_table = s
                  /\ << d.window_start_ts, d.window_end_ts >> = win

Explained(d, ledger) ==
  \E e \in ledger : /\ e.run_id = d.run_id /\ e.source_table = d.source_table
                    /\ e.window_end_ts = d.window_end_ts
                    /\ e.exception_type = d.dq_tag /\ e.severity = d.severity

\* Every window and source of run a has its row in dq_status.
WindowsRecorded(a) ==
  \A i \in 1..Len(windows[a]), s \in Sources : HasRow(dq_status, a, windows[a][i], s)

\* Every breach run a has committed to dq_status is in the ledger.
BreachesExplained(a) ==
  \A d \in dq_status : d.run_id = a /\ d.severity # None => Explained(d, exception_ledger)

RecordedOf(a) ==
  /\ pc[a] \in {"idle", "params", "assess"} => \A d \in dq_status : d.run_id # a
  /\ pc[a] = "assess" =>
       \A i \in 1..Len(windows[a]), s \in Sources :
         \/ \E k \in 1..Len(todo[a]) : todo[a][k] = << windows[a][i], s >>
         \/ HasRow(ToSet(dq_rows[a]), a, windows[a][i], s)
  /\ pc[a] \in {"assess", "exceptions"} =>
       \A d \in ToSet(dq_rows[a]) : d.severity # None => Explained(d, exception_rows[a])
  /\ pc[a] = "exceptions" =>
       \A d \in dq_status : d.run_id = a => d \in ToSet(dq_rows[a])
  /\ pc[a] \in {"exceptions", "commit"} => WindowsRecorded(a)
  /\ pc[a] = "commit" => BreachesExplained(a)
  /\ pipeline_state # None /\ pipeline_state.status = "success"
                           /\ pipeline_state.last_run_id = a =>
       pc[a] = "succeeded" /\ WindowsRecorded(a) /\ BreachesExplained(a)

RecordedInv == \A a \in Attempts : RecordedOf(a)

(* Runs one at a time: the run in flight is the only one, and the row it     *)
(* read at its start is still the one in the table.                          *)

AloneInv ==
  \A a \in Attempts : Active(a) =>
    /\ \A b \in Attempts : Active(b) => a = b
    /\ initial_state[a] = pipeline_state

(* No gap: the windows recorded so far reach from the first one to the mark  *)
(* of the table and to the mark of every row a run in flight may still       *)
(* report, and the windows of a run start where such a mark ends.            *)

Recorded(status, t) ==
  \A s \in Sources : \E d \in status :
    d.source_table = s /\ d.window_start_ts <= t /\ t < d.window_end_ts

RecordedUpTo(status, start, row) ==
  ProcessedEnd(row) # None =>
    /\ start # None
    /\ \A t \in Int : start <= t /\ t < ProcessedEnd(row) => Recorded(status, t)

InWindows(wins, t) == \E i \in 1..Len(wins) : wins[i][1] <= t /\ t < wins[i][2]

\* The windows of run a hold every instant from t on up to its end.
ReachFrom(a, t) ==
  \A u \in Int : t <= u /\ u < processed_end[a] => InWindows(windows[a], u)

\* The windows of a run go on from the mark it found at its start or, where it
\* found none, from wherever they start.
GoesOn(a) ==
  LET mark == ProcessedEnd(initial_state[a])
  IN  ReachFrom(a, IF mark = None THEN windows[a][1][1] ELSE mark)

\* Requests of operators leave out no instant between the mark of the pipeline
\* and the end they report.  Below the mark they may ask for anything.
RequestsGoOn == \A a \in Attempts : ResolveManual(a) => GoesOn(a)'

GapOf(a) ==
  /\ Active(a) =>
       /\ ProcessedEnd(initial_state[a]) = None => origin = None
       /\ RecordedUpTo(dq_status, origin, initial_state[a])
  /\ HasWindows(a) => GoesOn(a)

GapInv ==
  /\ InitialMark # None => origin # None
  /\ ProcessedEnd(pipeline_state) = None => origin = None
  /\ RecordedUpTo(dq_status, origin, pipeline_state)
  /\ \A a \in Attempts : GapOf(a)

(* Every row: below the end a run reports, the instants still to come when  *)
(* it assesses are among those it reported ahead, so the rows ingested       *)
(* afterwards, as they are created, are below it at no other instant.        *)

\* Row r is in the window of d, and below the end the run of d reports.
Due(d, r) ==
  /\ d.window_start_ts <= r.created_at /\ r.created_at < d.window_end_ts
  /\ r.created_at < processed_end[d.run_id]

\* What is still to come below the end of run a was to come when it resolved it.
Foreseen(a) == \A t \in Int : clock <= t /\ t < processed_end[a] => t \in ahead[a]

\* The rows that are due in these windows were among those assessed, but for
\* those created at instants the run reported ahead.
CaughtUp(rows, assessed) ==
  \A d \in rows :
    /\ Foreseen(d.run_id)
    /\ \A r \in bronze[d.source_table] :
         Due(d, r) => r \in assessed[d.source_table] \/ r.created_at \in ahead[d.run_id]

CaughtInv ==
  /\ ahead \in [Attempts -> SUBSET Int]
  /\ \A a \in Attempts :
       /\ HasWindows(a) => Foreseen(a)
       /\ CaughtUp(ToSet(dq_rows[a]), seen[a])
  /\ CaughtUp(dq_status, checked)

\* Every row from the origin to the mark of this state row is checked, and what
\* is still to come below the mark was reported ahead.
SeenUpTo(row) ==
  ProcessedEnd(row) # None =>
    /\ \A t \in Int : clock <= t /\ t < ProcessedEnd(row) => t \in ReportedAhead
    /\ \A s \in Sources : \A r \in bronze[s] :
         origin <= r.created_at /\ r.created_at < ProcessedEnd(row) =>
           r \in checked[s] \/ r.created_at \in ReportedAhead

SeenInv ==
  /\ SeenUpTo(pipeline_state)
  /\ \A a \in Attempts : Active(a) => SeenUpTo(initial_state[a])

-----------------------------------------------------------------------------
(* Types *)

\* The elements of a sequence that has grown by one, and of an empty one.
LEMMA Grown ==
  ASSUME NEW S, NEW s \in Seq(S), NEW x \in S
  PROVE  /\ Append(s, x) \in Seq(S)
         /\ ToSet(Append(s, x)) = ToSet(s) \cup {x}
         /\ ToSet(s) \subseteq S
         /\ ToSet(<< >>) = {}
  <1>1. DOMAIN s = 1..Len(s) /\ Len(s) \in Nat /\ DOMAIN Append(s, x) = 1..Len(s) + 1
    OBVIOUS
  <1>2. \A i \in 1..Len(s) : s[i] \in S /\ Append(s, x)[i] = s[i]
    OBVIOUS
  <1>3. Append(s, x)[Len(s) + 1] = x
    OBVIOUS
  <1>4. ToSet(Append(s, x)) = ToSet(s) \cup {x}
    BY <1>1, <1>2, <1>3 DEF ToSet
  <1> QED BY <1>1, <1>2, <1>4 DEF ToSet

\* Rows reported through apply_pipeline_state are rows of the table.
LEMMA AppliedTyped ==
  ASSUME NEW a \in Optional(Attempts), NEW end \in Int, NEW counts \in Counts,
         NEW now \in Int, NEW current \in Optional(StateRow(Attempts, Counts))
  PROVE  /\ ApplySuccess(a, end, counts, now) \in StateRow(Attempts, Counts)
         /\ ApplyFailure(current, a, now) \in StateRow(Attempts, Counts)
  <1>1. ApplySuccess(a, end, counts, now) \in StateRow(Attempts, Counts)
    BY DEF ApplySuccess, StateRow, Status, Optional
  <1>2. BlankRow(now) \in StateRow(Attempts, Counts)
    BY DEF BlankRow, StateRow, Status, Optional
  <1>3. ApplyFailure(current, a, now) \in StateRow(Attempts, Counts)
    <2> DEFINE old == IF current = None THEN BlankRow(now) ELSE current
    <2>1. old \in StateRow(Attempts, Counts)
      BY <1>2 DEF Optional
    <2>2. ApplyFailure(current, a, now)
            = [old EXCEPT !.status = "failure", !.last_run_id = a, !.updated_at = now]
      BY DEF ApplyFailure
    <2> HIDE DEF old
    <2> QED BY <2>1, <2>2 DEF StateRow, Status
  <1> QED BY <1>1, <1>3

(* What Assess works on, and the rows it makes.                              *)

Win(a)  == Head(todo[a])[1]
Src(a)  == Head(todo[a])[2]
Rows(a) == InWindow(bronze[Src(a)], Win(a))
Sev(a)  == Severities(Rows(a), zero_window_counts[a][Src(a)], clock)
NewDq(a) == DqRowOf(a, Win(a), Src(a), Cardinality(Rows(a)), PickOverall(Sev(a)))
NewExceptions(a) ==
  { ExceptionRowOf(a, Win(a), Src(a), m, Sev(a)[m]) : m \in { n \in Metrics : Sev(a)[n] # None } }

\* The rows of one assessment are rows of their tables, and a verdict comes
\* with the exception it rests on.
LEMMA AssessRows ==
  ASSUME TypeOK, WorkInv, NEW a \in Attempts, todo[a] # << >>
  PROVE  /\ Win(a) \in Int \X Int /\ Src(a) \in Sources
         /\ Head(todo[a]) = << Win(a), Src(a) >>
         /\ Tail(todo[a]) \in Seq((Int \X Int) \X Sources)
         /\ Rows(a) \subseteq bronze[Src(a)]
         /\ NewDq(a) \in DqRow
         /\ NewExceptions(a) \subseteq ExceptionRow
         /\ NewDq(a).severity # None => Explained(NewDq(a), NewExceptions(a))
  <1>1. todo[a] \in Seq((Int \X Int) \X Sources)
    BY DEF TypeOK
  <1>2. Head(todo[a]) \in (Int \X Int) \X Sources /\ Tail(todo[a]) \in Seq((Int \X Int) \X Sources)
    BY <1>1
  <1>3. /\ Win(a) \in Int \X Int /\ Src(a) \in Sources
        /\ Head(todo[a]) = << Win(a), Src(a) >>
    BY <1>2 DEF Win, Src
  <1>4. Rows(a) \subseteq bronze[Src(a)]
    BY DEF Rows, InWindow
  <1>5. Cardinality(Rows(a)) \in Nat
    BY <1>3, <1>4, FS_Subset, FS_CardinalityType DEF WorkInv
  <1>6. Sev(a) \in [Metrics -> Severity]
    BY SeveritiesTyped DEF Sev
  <1>7. PickedFrom(Sev(a), PickOverall(Sev(a)))
    BY <1>6, PickOverallPicks
  <1>8. NewDq(a) \in DqRow
    BY <1>3, <1>5, <1>7 DEF NewDq, DqRowOf, DqRow, PickedFrom, Severity
  <1>9. ASSUME NEW m \in Metrics, Sev(a)[m] # None
        PROVE  ExceptionRowOf(a, Win(a), Src(a), m, Sev(a)[m]) \in ExceptionRow
    <2>1. Sev(a)[m] \in {"CRITICAL", "WARN"} /\ TagOf[m] \in Tags
      BY <1>6, <1>9, MetricFacts DEF Severity
    <2> QED BY <1>3, <2>1 DEF ExceptionRowOf, ExceptionRow
  <1>10. NewExceptions(a) \subseteq ExceptionRow
    BY <1>9 DEF NewExceptions
  <1>11. ASSUME NewDq(a).severity # None PROVE Explained(NewDq(a), NewExceptions(a))
    <2> DEFINE best == PickOverall(Sev(a))
    <2>1. NewDq(a).severity = best.severity /\ NewDq(a).dq_tag = best.tag
      BY DEF NewDq, DqRowOf
    <2>2. PICK m \in Metrics : /\ Sev(a)[m] # None /\ best.tag = TagOf[m]
                               /\ best.severity = Sev(a)[m]
      BY <1>7, <1>11, <2>1 DEF PickedFrom
    <2> DEFINE e == ExceptionRowOf(a, Win(a), Src(a), m, Sev(a)[m])
    <2>3. e \in NewExceptions(a)
      BY <2>2 DEF NewExceptions
    <2>4. /\ e.run_id = NewDq(a).run_id /\ e.source_table = NewDq(a).source_table
          /\ e.window_end_ts = NewDq(a).window_end_ts
          /\ e.exception_type = TagOf[m] /\ e.severity = Sev(a)[m]
      BY DEF NewDq, DqRowOf, ExceptionRowOf
    <2> QED BY <2>1, <2>2, <2>3, <2>4 DEF Explained
  <1> QED BY <1>2, <1>3, <1>4, <1>8, <1>10, <1>11

\* What a step of Assess changes.
LEMMA AssessStep ==
  ASSUME TypeOK, WorkInv, NEW a \in Attempts, Assess(a)
  PROVE  /\ pc[a] = "assess" /\ todo[a] # << >>
         /\ dq_rows' = [dq_rows EXCEPT ![a] = Append(dq_rows[a], NewDq(a))]
         /\ ToSet(dq_rows'[a]) = ToSet(dq_rows[a]) \cup {NewDq(a)}
         /\ exception_rows' = [exception_rows EXCEPT ![a] = exception_rows[a] \cup NewExceptions(a)]
         /\ zero_window_counts' \in [Attempts -> Counts]
         /\ zero_window_counts'[a] = AfterRow(zero_window_counts[a], NewDq(a))
         /\ seen' = [seen EXCEPT ![a] =
                       [seen[a] EXCEPT ![Src(a)] = seen[a][Src(a)] \cup Rows(a)]]
         /\ todo' = [todo EXCEPT ![a] = Tail(todo[a])]
         /\ UNCHANGED << clock, bronze, tables, pc, initial_state, windows, processed_end,
                         checked, ahead, origin, streak >>
  <1>1. pc[a] = "assess" /\ todo[a] # << >>
    BY DEF Assess
  <1>2. dq_rows' = [dq_rows EXCEPT ![a] = Append(dq_rows[a], NewDq(a))]
    BY DEF Assess, NewDq, Rows, Sev, Win, Src, TypeOK
  <1>3. ToSet(dq_rows'[a]) = ToSet(dq_rows[a]) \cup {NewDq(a)}
    BY <1>1, <1>2, AssessRows, Grown DEF TypeOK
  <1>4. exception_rows' = [exception_rows EXCEPT ![a] = exception_rows[a] \cup NewExceptions(a)]
    BY DEF Assess, NewExceptions, Rows, Sev, Win, Src, TypeOK
  <1>5. /\ zero_window_counts' \in [Attempts -> Counts]
        /\ zero_window_counts'[a] = AfterRow(zero_window_counts[a], NewDq(a))
    <2> DEFINE now == ZeroWindows(zero_window_counts[a][Src(a)], Rows(a))
    <2>1. zero_window_counts' = [zero_window_counts EXCEPT ![a] =
            [zero_window_counts[a] EXCEPT ![Src(a)] = now]]
      BY DEF Assess, Rows, Win, Src, TypeOK
    <2>2. Src(a) \in Sources /\ IsFiniteSet(Rows(a))
      BY <1>1, AssessRows, FS_Subset DEF WorkInv
    <2>3. zero_window_counts[a] \in [Sources -> Nat]
      BY DEF TypeOK, Counts
    <2>4. now = IF Cardinality(Rows(a)) = 0 THEN zero_window_counts[a][Src(a)] + 1 ELSE 0
      BY <2>2, FS_EmptySet DEF ZeroWindows
    <2>5. [zero_window_counts[a] EXCEPT ![Src(a)] = now] \in Counts
      BY <2>2, <2>3, <2>4 DEF Counts
    <2>6. [zero_window_counts[a] EXCEPT ![Src(a)] = now] = AfterRow(zero_window_counts[a], NewDq(a))
      BY <2>4 DEF AfterRow, NewDq, DqRowOf
    <2> HIDE DEF now
    <2> QED BY <2>1, <2>5, <2>6 DEF TypeOK
  <1>6. seen' = [seen EXCEPT ![a] = [seen[a] EXCEPT ![Src(a)] = seen[a][Src(a)] \cup Rows(a)]]
    BY DEF Assess, Rows, Win, Src
  <1>7. todo' = [todo EXCEPT ![a] = Tail(todo[a])]
    BY DEF Assess
  <1> QED BY <1>1, <1>2, <1>3, <1>4, <1>5, <1>6, <1>7 DEF Assess

\* The initial state is well typed and nobody has anything in hand.
LEMMA TypingInit == Init => TypeOK /\ WorkInv
  <1> SUFFICES ASSUME Init PROVE TypeOK /\ WorkInv
    OBVIOUS
  <1> USE GuardrailAssumption
  <1>1. NoCounts \in Counts
    BY DEF NoCounts, Counts
  <1>2. InitialMark # None =>
          ApplySuccess(None, InitialMark, NoCounts, InitialMark) \in StateRow(Attempts, Counts)
    BY <1>1, AppliedTyped DEF Optional
  <1>3. pipeline_state \in Optional(StateRow(Attempts, Counts))
    BY <1>2 DEF Init, Optional
  <1>4. << >> \in Seq((Int \X Int) \X Sources) /\ << >> \in Seq(DqRow) /\ << >> \in Seq(Int \X Int)
    OBVIOUS
  <1>5. TypeOK
    BY <1>1, <1>3, <1>4 DEF Init, TypeOK, Optional
  <1>6. /\ \A s \in Sources : bronze[s] = {} /\ IsFiniteSet({})
        /\ ToSet(<< >>) = {} /\ Len(<< >>) = 0
    BY FS_EmptySet DEF Init, ToSet
  <1>7. \A a \in Attempts : pc[a] = "idle" /\ dq_rows[a] = << >> /\ todo[a] = << >>
    BY DEF Init
  <1>8. WorkInv
    BY <1>6, <1>7 DEF Init, WorkInv, InHand, HasWindows, Optional
  <1> QED BY <1>5, <1>8

\* A run that ends or dies has nothing left in its hands.
LEMMA Forgotten ==
  ASSUME TypeOK, WorkInv, NEW a \in Attempts, Forget(a)
  PROVE  /\ initial_state' \in [Attempts -> Optional(StateRow(Attempts, Counts))]
         /\ todo' \in [Attempts -> Seq((Int \X Int) \X Sources)]
         /\ zero_window_counts' \in [Attempts -> Counts]
         /\ dq_rows' \in [Attempts -> Seq(DqRow)]
         /\ exception_rows' \in [Attempts -> SUBSET ExceptionRow]
         /\ seen' \in [Attempts -> [Sources -> SUBSET BronzeRow]]
         /\ initial_state'[a] = None /\ todo'[a] = << >> /\ dq_rows'[a] = << >>
         /\ \A b \in Attempts \ {a} :
              /\ initial_state'[b] = initial_state[b] /\ todo'[b] = todo[b]
              /\ dq_rows'[b] = dq_rows[b] /\ exception_rows'[b] = exception_rows[b]
              /\ seen'[b] = seen[b]
  <1>1. NoCounts \in Counts
    BY DEF NoCounts, Counts
  <1>2. << >> \in Seq((Int \X Int) \X Sources) /\ << >> \in Seq(DqRow)
    OBVIOUS
  <1>3. [s \in Sources |-> {}] \in [Sources -> SUBSET BronzeRow]
    OBVIOUS
  <1> QED BY <1>1, <1>2, <1>3 DEF Forget, TypeOK, WorkInv, Optional

\* The default window starts at a mark or a while before now.
LEMMA DefaultStartTyped ==
  ASSUME TypeOK, NEW a \in Attempts
  PROVE  /\ ProcessedEnd(initial_state[a]) \in Optional(Int)
         /\ DefaultStart(initial_state[a]) \in Int
  <1>1. ProcessedEnd(initial_state[a]) \in Optional(Int)
    BY DEF ProcessedEnd, TypeOK, StateRow, Optional
  <1>2. clock \in Int /\ DefaultWindow \in Int
    BY GuardrailAssumption DEF TypeOK
  <1> QED BY <1>1, <1>2 DEF DefaultStart, Optional

\* Ingestion adds a row, created at most MaxLag ticks ago, to one source.
LEMMA Ingested ==
  ASSUME TypeOK, Ingest
  PROVE  /\ \E s \in Sources, r \in BronzeRow :
              /\ bronze' = [bronze EXCEPT ![s] = bronze[s] \cup {r}]
              /\ clock - MaxLag <= r.created_at
         /\ UNCHANGED << clock, tables, locals, history >>
  <1>1. PICK s \in Sources, lag \in 0..MaxLag, key \in Keys, valid \in BOOLEAN :
          /\ RowsIngested < MaxRows
          /\ bronze' = [bronze EXCEPT ![s] = @ \cup
               {[created_at |-> clock - lag, ingested_at |-> clock, key |-> key, valid |-> valid]}]
          /\ UNCHANGED << clock, tables, locals, history >>
    BY Zenon DEF Ingest
  <1> DEFINE r == [created_at |-> clock - lag, ingested_at |-> clock, key |-> key, valid |-> valid]
  <1>2. r \in BronzeRow /\ clock - MaxLag <= r.created_at
    BY GuardrailAssumption DEF BronzeRow, TypeOK
  <1>3. bronze' = [bronze EXCEPT ![s] = bronze[s] \cup {r}]
    BY <1>1
  <1> HIDE DEF r
  <1> QED BY <1>1, <1>2, <1>3

\* Every step keeps the types of the state.
LEMMA TypingNext == TypeOK /\ WorkInv /\ [Next]_vars => TypeOK'
  <1> SUFFICES ASSUME TypeOK, WorkInv, [Next]_vars PROVE TypeOK'
    OBVIOUS
  <1> USE GuardrailAssumption
  <1> DEFINE states == Working \cup {"idle", "failing", "succeeded", "failed", "dead"}
  <1>d. clock \in Int
    BY DEF TypeOK
  \* A step of a script that changes no table and nothing it has assessed.
  <1>p. ASSUME pc' \in [Attempts -> states],
               initial_state' \in [Attempts -> Optional(StateRow(Attempts, Counts))],
               zero_window_counts' \in [Attempts -> Counts],
               windows' \in [Attempts -> Seq(Int \X Int)],
               processed_end' \in [Attempts -> Int],
               todo' \in [Attempts -> Seq((Int \X Int) \X Sources)],
               UNCHANGED << clock, bronze, tables, dq_rows, exception_rows >>
        PROVE  TypeOK'
    BY <1>p DEF tables, TypeOK
  \* A run ends, with or without a row for the table.
  <1>f. ASSUME NEW a \in Attempts, NEW to \in states, pc' = [pc EXCEPT ![a] = to],
               pipeline_state' \in Optional(StateRow(Attempts, Counts)), Forget(a),
               UNCHANGED << clock, bronze, dq_status, exception_ledger, windows, processed_end >>
        PROVE  TypeOK'
    <2>1. pc' \in [Attempts -> states]
      BY <1>f DEF TypeOK
    <2> HIDE DEF states
    <2> QED BY <1>f, <2>1, Forgotten DEF TypeOK, states
  <1>1. CASE Tick
    BY <1>1 DEF Tick, tables, locals, TypeOK
  <1>2. CASE Ingest
    <2>1. PICK s \in Sources, r \in BronzeRow : bronze' = [bronze EXCEPT ![s] = bronze[s] \cup {r}]
      BY <1>2, Ingested
    <2>3. bronze' \in [Sources -> SUBSET BronzeRow]
      BY <2>1 DEF TypeOK
    <2> QED BY <1>2, <2>3, Ingested DEF tables, locals, TypeOK
  <1>3. ASSUME NEW a \in Attempts, Script(a) PROVE TypeOK'
    <2>1. CASE Start(a)
      <3>1. ParsedCounts(pipeline_state) \in Counts
        <4>1. NoCounts \in Counts
          BY DEF NoCounts, Counts
        <4>2. ZeroCounts(pipeline_state) \in Optional(Counts)
          BY DEF ZeroCounts, TypeOK, StateRow, Optional
        <4> QED BY <4>1, <4>2 DEF ParsedCounts, Optional
      <3> QED BY <2>1, <3>1, <1>p DEF Start, TypeOK, Working
    <2>2. ASSUME NEW wins \in Seq(Int \X Int), NEW end \in Int, Resolve(a, wins, end)
          PROVE  TypeOK'
      <3>1. Worklist(wins) \in Seq((Int \X Int) \X Sources)
        BY WorklistPairs
      <3> QED BY <2>2, <3>1, <1>p DEF Resolve, TypeOK, Working
    <2>3. CASE ResolveDefault(a)
      <3>1. DefaultStart(initial_state[a]) \in Int
        BY DefaultStartTyped
      <3>2. << << DefaultStart(initial_state[a]), clock >> >> \in Seq(Int \X Int)
        BY <3>1, <1>d
      <3> QED BY <2>3, <3>2, <2>2, <1>d DEF ResolveDefault
    <2>4. CASE ResolveManual(a)
      BY <2>4, <2>2 DEF ResolveManual
    <2>5. CASE RaiseBeforeTry(a)
      BY <2>5, <1>f DEF RaiseBeforeTry, tables, TypeOK
    <2>6. CASE Assess(a)
      <3>1. todo[a] # << >> /\ dq_rows[a] \in Seq(DqRow)
        BY <2>6 DEF Assess, TypeOK
      <3>2. /\ NewDq(a) \in DqRow /\ NewExceptions(a) \subseteq ExceptionRow
            /\ Tail(todo[a]) \in Seq((Int \X Int) \X Sources)
        BY <3>1, AssessRows
      <3>3. Append(dq_rows[a], NewDq(a)) \in Seq(DqRow)
        BY <3>1, <3>2
      <3>4. /\ dq_rows' = [dq_rows EXCEPT ![a] = Append(dq_rows[a], NewDq(a))]
            /\ exception_rows' =
                 [exception_rows EXCEPT ![a] = exception_rows[a] \cup NewExceptions(a)]
            /\ todo' = [todo EXCEPT ![a] = Tail(todo[a])]
            /\ zero_window_counts' \in [Attempts -> Counts]
            /\ UNCHANGED << clock, bronze, tables, pc, initial_state, windows, processed_end >>
        BY <2>6, AssessStep
      <3>5. dq_rows' \in [Attempts -> Seq(DqRow)]
        BY <3>3, <3>4 DEF TypeOK
      <3>6. exception_rows' \in [Attempts -> SUBSET ExceptionRow]
        BY <3>2, <3>4 DEF TypeOK
      <3>7. todo' \in [Attempts -> Seq((Int \X Int) \X Sources)]
        BY <3>2, <3>4 DEF TypeOK
      <3> QED BY <3>4, <3>5, <3>6, <3>7 DEF tables, TypeOK
    <2>7. CASE AppendDqStatus(a)
      <3>1. ToSet(dq_rows[a]) \subseteq DqRow
        BY Grown DEF TypeOK, ToSet
      <3> QED BY <2>7, <3>1 DEF AppendDqStatus, TypeOK, Working
    <2>8. CASE AppendExceptions(a)
      BY <2>8 DEF AppendExceptions, TypeOK, Working
    <2>9. CASE CommitSuccess(a)
      <3>1. pipeline_state' \in StateRow(Attempts, Counts)
        BY <2>9, <1>d, AppliedTyped DEF CommitSuccess, TypeOK, Optional
      <3> QED BY <2>9, <3>1, <1>f DEF CommitSuccess, Optional
    <2>10. CASE Raise(a)
      BY <2>10, <1>p DEF Raise, TypeOK
    <2>11. CASE CommitFailure(a)
      <3>1. pipeline_state' \in StateRow(Attempts, Counts)
        BY <2>11, <1>d, AppliedTyped DEF CommitFailure, TypeOK, Optional
      <3> QED BY <2>11, <3>1, <1>f DEF CommitFailure, Optional
    <2>12. CASE Kill(a)
      BY <2>12, <1>f DEF Kill, tables, TypeOK
    <2> QED BY <1>3, <2>1, <2>3, <2>4, <2>5, <2>6, <2>7, <2>8, <2>9, <2>10, <2>11, <2>12
            DEF Script
  <1>4. CASE UNCHANGED vars
    BY <1>4 DEF vars, tables, locals, history, TypeOK
  <1> QED BY <1>1, <1>2, <1>3, <1>4 DEF Next, Finished

\* A step of one script leaves what the others have in their hands alone.
LEMMA OthersKept ==
  ASSUME TypeOK, WorkInv, NEW a \in Attempts, Script(a), NEW b \in Attempts, b # a
  PROVE  /\ pc'[b] = pc[b] /\ initial_state'[b] = initial_state[b]
         /\ windows'[b] = windows[b] /\ processed_end'[b] = processed_end[b]
         /\ todo'[b] = todo[b] /\ dq_rows'[b] = dq_rows[b]
         /\ exception_rows'[b] = exception_rows[b] /\ seen'[b] = seen[b]
  <1>1. CASE Start(a)
    BY <1>1 DEF Start, history, TypeOK
  <1>2. ASSUME NEW wins, NEW end, Resolve(a, wins, end)
        PROVE  /\ pc'[b] = pc[b] /\ initial_state'[b] = initial_state[b]
               /\ windows'[b] = windows[b] /\ processed_end'[b] = processed_end[b]
               /\ todo'[b] = todo[b] /\ dq_rows'[b] = dq_rows[b]
               /\ exception_rows'[b] = exception_rows[b] /\ seen'[b] = seen[b]
    BY <1>2 DEF Resolve, history, TypeOK
  <1>3. CASE ResolveDefault(a) \/ ResolveManual(a)
    BY <1>2, <1>3 DEF ResolveDefault, ResolveManual
  <1>4. CASE RaiseBeforeTry(a)
    BY <1>4, Forgotten DEF RaiseBeforeTry, TypeOK
  <1>5. CASE Assess(a)
    <2>1. UNCHANGED << pc, initial_state, windows, processed_end >>
      BY <1>5, AssessStep
    <2>2. /\ dq_rows' = [dq_rows EXCEPT ![a] = Append(dq_rows[a], NewDq(a))]
          /\ exception_rows' = [exception_rows EXCEPT ![a] = exception_rows[a] \cup NewExceptions(a)]
          /\ seen' = [seen EXCEPT ![a] =
                        [seen[a] EXCEPT ![Src(a)] = seen[a][Src(a)] \cup Rows(a)]]
          /\ todo' = [todo EXCEPT ![a] = Tail(todo[a])]
      BY <1>5, AssessStep
    <2>3. /\ dq_rows \in [Attempts -> Seq(DqRow)]
          /\ exception_rows \in [Attempts -> SUBSET ExceptionRow]
          /\ seen \in [Attempts -> [Sources -> SUBSET BronzeRow]]
          /\ todo \in [Attempts -> Seq((Int \X Int) \X Sources)]
      BY DEF TypeOK, WorkInv
    <2>4. dq_rows'[b] = dq_rows[b] /\ exception_rows'[b] = exception_rows[b]
      BY <2>2, <2>3
    <2>5. seen'[b] = seen[b] /\ todo'[b] = todo[b]
      BY <2>2, <2>3
    <2> QED BY <2>1, <2>4, <2>5
  <1>6. CASE AppendDqStatus(a)
    BY <1>6 DEF AppendDqStatus, TypeOK
  <1>7. CASE AppendExceptions(a)
    BY <1>7 DEF AppendExceptions, history, TypeOK
  <1>8. CASE CommitSuccess(a)
    BY <1>8, Forgotten DEF CommitSuccess, TypeOK
  <1>9. CASE Raise(a)
    BY <1>9 DEF Raise, history, TypeOK
  <1>10. CASE CommitFailure(a)
    BY <1>10, Forgotten DEF CommitFailure, TypeOK
  <1>11. CASE Kill(a)
    BY <1>11, Forgotten DEF Kill, TypeOK
  <1> QED BY <1>1, <1>3, <1>4, <1>5, <1>6, <1>7, <1>8, <1>9, <1>10, <1>11 DEF Script

\* What is left of a run that has ended or died.
LEMMA Ended ==
  ASSUME TypeOK, WorkInv, NEW a \in Attempts, Forget(a), UNCHANGED windows,
         NEW to \in {"succeeded", "failed", "dead"}, pc' = [pc EXCEPT ![a] = to]
  PROVE  InHand(a)' /\ pc'[a] = to /\ dq_rows'[a] = << >> /\ todo'[a] = << >>
  <1>1. dq_rows'[a] = << >> /\ todo'[a] = << >> /\ pc'[a] = to
    BY Forgotten DEF TypeOK
  <1>2. ToSet(dq_rows'[a]) = {} /\ Len(todo'[a]) = 0
    BY <1>1 DEF ToSet
  <1>3. pc'[a] # "assess" /\ pc'[a] # "exceptions" /\ pc'[a] # "commit"
    BY <1>1
  <1> QED BY <1>1, <1>2, <1>3 DEF InHand, HasWindows

\* Every step keeps what the runs have in their hands in order.
LEMMA WorkNext == TypeOK /\ WorkInv /\ [Next]_vars => WorkInv'
  <1> SUFFICES ASSUME TypeOK, WorkInv, [Next]_vars PROVE WorkInv'
    OBVIOUS
  <1> DEFINE Rest == /\ seen \in [Attempts -> [Sources -> SUBSET BronzeRow]]
                     /\ checked \in [Sources -> SUBSET BronzeRow]
                     /\ origin \in Optional(Int)
  <1>r. Rest
    BY DEF WorkInv
  <1>b. bronze' = bronze => \A s \in Sources : IsFiniteSet(bronze'[s])
    BY DEF WorkInv
  <1>i. ASSUME UNCHANGED locals PROVE \A b \in Attempts : InHand(b)'
    BY <1>i DEF locals, InHand, HasWindows, WorkInv
  \* A step of a script that keeps what the run itself has in order.
  <1>s. ASSUME NEW a \in Attempts, Script(a), InHand(a)', bronze' = bronze, Rest'
        PROVE  WorkInv'
    <2>1. ASSUME NEW b \in Attempts, b # a PROVE InHand(b)'
      <3>1. /\ pc'[b] = pc[b] /\ windows'[b] = windows[b] /\ todo'[b] = todo[b]
            /\ dq_rows'[b] = dq_rows[b] /\ InHand(b)
        BY <1>s, <2>1, OthersKept DEF WorkInv
      <3> QED BY <3>1 DEF InHand, HasWindows
    <2>2. \A b \in Attempts : InHand(b)'
      BY <2>1, <1>s
    <2> QED BY <1>b, <1>s, <2>2 DEF WorkInv
  <1>1. CASE Tick
    <2>1. Rest' /\ bronze' = bronze /\ UNCHANGED locals
      BY <1>1, <1>r DEF Tick, history
    <2> QED BY <2>1, <1>i, <1>b DEF WorkInv
  <1>2. CASE Ingest
    <2>1. PICK s \in Sources, r \in BronzeRow : bronze' = [bronze EXCEPT ![s] = bronze[s] \cup {r}]
      BY <1>2, Ingested
    <2>2. IsFiniteSet(bronze[s] \cup {r})
      BY FS_AddElement DEF WorkInv
    <2>3. \A x \in Sources : IsFiniteSet(bronze'[x])
      BY <2>1, <2>2 DEF WorkInv, TypeOK
    <2>4. Rest' /\ UNCHANGED locals
      BY <1>2, <1>r, Ingested DEF history
    <2> QED BY <2>3, <2>4, <1>i DEF WorkInv
  <1>3. ASSUME NEW a \in Attempts, Script(a) PROVE WorkInv'
    <2>h. InHand(a)
      BY DEF WorkInv
    <2>1. CASE Start(a)
      <3>1. /\ pc[a] = "idle" /\ pc'[a] = "params" /\ bronze' = bronze /\ Rest'
            /\ windows' = windows /\ todo' = todo /\ dq_rows' = dq_rows
        BY <2>1, <1>r DEF Start, history, TypeOK
      <3> QED BY <3>1, <2>h, <1>3, <1>s DEF InHand, HasWindows
    <2>2. ASSUME NEW wins \in Seq(Int \X Int), wins # << >>, NEW end, Resolve(a, wins, end)
          PROVE  WorkInv'
      <3>1. /\ pc[a] = "params" /\ pc'[a] = "assess" /\ bronze' = bronze /\ Rest'
            /\ windows'[a] = wins /\ todo'[a] = Worklist(wins) /\ dq_rows' = dq_rows
        BY <2>2, <1>r DEF Resolve, history, TypeOK
      <3>2. \A k \in 1..Len(Worklist(wins)) :
              \E i \in 1..Len(wins) : Worklist(wins)[k][1] = wins[i]
        BY WorklistPairs
      <3>3. \A d \in ToSet(dq_rows'[a]) : d.run_id = a
        BY <3>1, <2>h DEF InHand
      <3>4. InHand(a)'
        BY <3>1, <3>2, <3>3, <2>2 DEF InHand, HasWindows
      <3> QED BY <3>1, <3>4, <1>3, <1>s
    <2>3. CASE ResolveDefault(a)
      <3>1. DefaultStart(initial_state[a]) \in Int /\ clock \in Int
        BY DefaultStartTyped DEF TypeOK
      <3>2. /\ << << DefaultStart(initial_state[a]), clock >> >> \in Seq(Int \X Int)
            /\ << << DefaultStart(initial_state[a]), clock >> >> # << >>
        BY <3>1
      <3> QED BY <2>3, <3>2, <2>2 DEF ResolveDefault
    <2>4. CASE ResolveManual(a)
      BY <2>4, <2>2, GuardrailAssumption DEF ResolveManual
    <2>5. CASE RaiseBeforeTry(a)
      <3>1. bronze' = bronze /\ Rest' /\ InHand(a)'
        BY <2>5, <1>r, Forgotten, Ended DEF RaiseBeforeTry
      <3> QED BY <3>1, <1>3, <1>s
    <2>6. CASE Assess(a)
      <3>1. todo[a] # << >> /\ dq_rows[a] \in Seq(DqRow)
        BY <2>6 DEF Assess, TypeOK
      <3>2. /\ Src(a) \in Sources /\ Rows(a) \subseteq bronze[Src(a)]
            /\ NewDq(a).run_id = a
        BY <3>1, AssessRows DEF NewDq, DqRowOf
      <3>3. /\ pc[a] = "assess" /\ pc' = pc /\ windows' = windows /\ bronze' = bronze
            /\ checked' = checked /\ origin' = origin
            /\ todo'[a] = Tail(todo[a])
            /\ ToSet(dq_rows'[a]) = ToSet(dq_rows[a]) \cup {NewDq(a)}
            /\ seen' = [seen EXCEPT ![a] =
                          [seen[a] EXCEPT ![Src(a)] = seen[a][Src(a)] \cup Rows(a)]]
        BY <2>6, AssessStep DEF TypeOK
      <3>4. seen' \in [Attempts -> [Sources -> SUBSET BronzeRow]]
        <4>1. Rows(a) \subseteq BronzeRow
          BY <3>2 DEF TypeOK
        <4> QED BY <3>2, <3>3, <4>1, <1>r
      <3>5. Rest'
        BY <3>3, <3>4, <1>r
      <3>6. \A k \in 1..Len(Tail(todo[a])) :
              \E i \in 1..Len(windows[a]) : Tail(todo[a])[k][1] = windows[a][i]
        <4>1. todo[a] \in Seq((Int \X Int) \X Sources)
          BY DEF TypeOK
        <4>2. \A k \in 1..Len(Tail(todo[a])) :
                k + 1 \in 1..Len(todo[a]) /\ Tail(todo[a])[k] = todo[a][k + 1]
          BY <3>1, <4>1, TailTurns
        <4> QED BY <4>2, <2>h DEF InHand
      <3>7. InHand(a)'
        BY <3>2, <3>3, <3>6, <2>h DEF InHand, HasWindows
      <3> QED BY <3>3, <3>5, <3>7, <1>3, <1>s
    <2>7. CASE AppendDqStatus(a)
      <3>1. /\ pc[a] = "assess" /\ pc'[a] = "exceptions" /\ bronze' = bronze
            /\ seen' = seen /\ origin' = origin
            /\ windows' = windows /\ todo' = todo /\ dq_rows' = dq_rows
            /\ checked' = [s \in Sources |-> checked[s] \cup seen[a][s]]
        BY <2>7 DEF AppendDqStatus, TypeOK
      <3>2. Rest'
        BY <3>1, <1>r
      <3> QED BY <3>1, <3>2, <2>h, <1>3, <1>s DEF InHand, HasWindows
    <2>8. CASE AppendExceptions(a)
      <3>1. /\ pc[a] = "exceptions" /\ pc'[a] = "commit" /\ bronze' = bronze /\ Rest'
            /\ windows' = windows /\ todo' = todo /\ dq_rows' = dq_rows
        BY <2>8, <1>r DEF AppendExceptions, history, TypeOK
      <3> QED BY <3>1, <2>h, <1>3, <1>s DEF InHand, HasWindows
    <2>9. CASE CommitSuccess(a)
      <3>1. bronze' = bronze /\ checked' = checked /\ InHand(a)'
            /\ seen' \in [Attempts -> [Sources -> SUBSET BronzeRow]]
        BY <2>9, Forgotten, Ended DEF CommitSuccess
      <3>2. origin' \in Optional(Int)
        <4>1. windows[a][1] \in Int \X Int
          <5>1. windows[a] \in Seq(Int \X Int) /\ windows[a] # << >>
            BY <2>9, <2>h DEF InHand, HasWindows, CommitSuccess, TypeOK
          <5> QED BY <5>1
        <4> QED BY <2>9, <4>1, <1>r DEF CommitSuccess, Optional
      <3> QED BY <3>1, <3>2, <1>r, <1>3, <1>s
    <2>10. CASE Raise(a)
      <3>1. /\ pc'[a] = "failing" /\ bronze' = bronze /\ Rest'
            /\ windows' = windows /\ todo' = todo /\ dq_rows' = dq_rows
        BY <2>10, <1>r DEF Raise, history, TypeOK
      <3> QED BY <3>1, <2>h, <1>3, <1>s DEF InHand, HasWindows
    <2>11. CASE CommitFailure(a)
      <3>1. bronze' = bronze /\ Rest' /\ InHand(a)'
        BY <2>11, <1>r, Forgotten, Ended DEF CommitFailure
      <3> QED BY <3>1, <1>3, <1>s
    <2>12. CASE Kill(a)
      <3>1. bronze' = bronze /\ Rest' /\ InHand(a)'
        BY <2>12, <1>r, Forgotten, Ended DEF Kill
      <3> QED BY <3>1, <1>3, <1>s
    <2> QED BY <1>3, <2>1, <2>3, <2>4, <2>5, <2>6, <2>7, <2>8, <2>9, <2>10, <2>11, <2>12
            DEF Script
  <1>4. CASE UNCHANGED vars
    <2>1. Rest' /\ bronze' = bronze /\ UNCHANGED locals
      BY <1>4, <1>r DEF vars, history
    <2> QED BY <2>1, <1>i, <1>b DEF WorkInv
  <1> QED BY <1>1, <1>2, <1>3, <1>4 DEF Next, Finished

\* What the proofs below start from.
LEMMA Work == Spec => [](TypeOK /\ WorkInv)
  BY TypingInit, TypingNext, WorkNext, PTL DEF Spec

\* Every variable keeps its type, for any sources, rules, requests and number
\* of overlapping runs.
THEOREM Typing == Spec => []TypeOK
  BY Work, PTL

-----------------------------------------------------------------------------
(* A reported success stands for a whole run *)

\* At the start nothing is recorded and no run has reported.
LEMMA RecordedInit == Init => RecordedInv
  <1> SUFFICES ASSUME Init, NEW a \in Attempts PROVE RecordedOf(a)
    BY DEF RecordedInv
  <1>1. pc[a] = "idle" /\ dq_status = {}
    BY DEF Init
  <1>2. ~(pipeline_state # None /\ pipeline_state.last_run_id = a)
    BY GuardrailAssumption DEF Init, ApplySuccess
  <1> QED BY <1>1, <1>2 DEF RecordedOf

\* What a step of run a may do to the tables: its own dq rows, more
\* exceptions, and a row of pipeline_state that reports a success of no other.
TablesBy(a) ==
  /\ dq_status \subseteq dq_status'
  /\ \A d \in dq_status' : d \in dq_status \/ d.run_id = a
  /\ exception_ledger \subseteq exception_ledger'
  /\ \/ pipeline_state' = pipeline_state
     \/ pipeline_state'.status = "failure"
     \/ pipeline_state'.last_run_id = a

\* The tables change by the commits of a run only.
LEMMA TableSteps ==
  ASSUME TypeOK, WorkInv, NEW a \in Attempts, Script(a)
  PROVE  TablesBy(a)
  <1>1. CASE AppendDqStatus(a)
    <2>1. \A d \in ToSet(dq_rows[a]) : d.run_id = a
      BY DEF WorkInv, InHand
    <2> QED BY <1>1, <2>1 DEF AppendDqStatus, TablesBy
  <1>2. CASE AppendExceptions(a)
    BY <1>2 DEF AppendExceptions, TablesBy
  <1>3. CASE CommitSuccess(a)
    BY <1>3 DEF CommitSuccess, ApplySuccess, TablesBy
  <1>4. CASE CommitFailure(a)
    <2>1. pipeline_state'.status = "failure"
      <3>1. initial_state[a] \in Optional(StateRow(Attempts, Counts))
        BY DEF TypeOK
      <3> QED BY <1>4, <3>1 DEF CommitFailure, ApplyFailure, BlankRow, StateRow, Optional
    <2> QED BY <1>4, <2>1 DEF CommitFailure, TablesBy
  <1>5. CASE Assess(a)
    BY <1>5, AssessStep DEF tables, TablesBy
  <1>6. CASE ResolveDefault(a) \/ ResolveManual(a)
    BY <1>6 DEF ResolveDefault, ResolveManual, Resolve, tables, TablesBy
  <1>7. CASE Start(a) \/ RaiseBeforeTry(a) \/ Raise(a) \/ Kill(a)
    BY <1>7 DEF Start, RaiseBeforeTry, Raise, Kill, tables, TablesBy
  <1> QED BY <1>1, <1>2, <1>3, <1>4, <1>5, <1>6, <1>7 DEF Script

\* A row explained by a ledger is explained by a longer one.
LEMMA ExplainedGrows ==
  ASSUME NEW d, NEW ledger, NEW longer, ledger \subseteq longer, Explained(d, ledger)
  PROVE  Explained(d, longer)
  BY DEF Explained

\* The same for the row of a window and a source.
LEMMA HasRowGrows ==
  ASSUME NEW rows, NEW more, rows \subseteq more, NEW a, NEW win, NEW s, HasRow(rows, a, win, s)
  PROVE  HasRow(more, a, win, s)
  BY DEF HasRow

\* What run b has recorded stays recorded when another run, or b itself
\* without a dq row, makes a step.
LEMMA RecordedStays ==
  ASSUME TypeOK, WorkInv, NEW a \in Attempts, TablesBy(a), NEW b \in Attempts,
         windows'[b] = windows[b], a # b \/ dq_status' = dq_status
  PROVE  /\ WindowsRecorded(b) => WindowsRecorded(b)'
         /\ BreachesExplained(b) => BreachesExplained(b)'
  <1>1. WindowsRecorded(b) => WindowsRecorded(b)'
    BY HasRowGrows DEF WindowsRecorded, TablesBy
  <1>2. ASSUME BreachesExplained(b), NEW d \in dq_status', d.run_id = b, d.severity # None
        PROVE  Explained(d, exception_ledger')
    <2>1. d \in dq_status
      BY <1>2 DEF TablesBy
    <2>2. Explained(d, exception_ledger)
      BY <1>2, <2>1 DEF BreachesExplained
    <2> QED BY <2>2, ExplainedGrows DEF TablesBy
  <1> QED BY <1>1, <1>2 DEF BreachesExplained

\* Every step keeps the way of the rows from the run to the tables whole.
LEMMA RecordedNext == TypeOK /\ WorkInv /\ RecordedInv /\ [Next]_vars => RecordedInv'
  <1> SUFFICES ASSUME TypeOK, WorkInv, RecordedInv, [Next]_vars PROVE RecordedInv'
    OBVIOUS
  <1>u. ASSUME UNCHANGED << tables, locals >> PROVE RecordedInv'
    BY <1>u DEF RecordedInv, RecordedOf, WindowsRecorded, BreachesExplained, tables, locals
  <1>1. CASE Tick
    BY <1>1, <1>u DEF Tick
  <1>2. CASE Ingest
    BY <1>2, <1>u, Ingested
  <1>3. ASSUME NEW a \in Attempts, Script(a) PROVE RecordedInv'
    <2>h. RecordedOf(a) /\ InHand(a)
      BY DEF RecordedInv, WorkInv
    <2>t. TablesBy(a)
      BY <1>3, TableSteps
    <2>b. ASSUME NEW b \in Attempts, b # a PROVE RecordedOf(b)'
      <3>1. /\ pc'[b] = pc[b] /\ windows'[b] = windows[b] /\ todo'[b] = todo[b]
            /\ dq_rows'[b] = dq_rows[b] /\ exception_rows'[b] = exception_rows[b]
        BY <1>3, <2>b, OthersKept
      <3>2. RecordedOf(b)
        BY DEF RecordedInv
      <3>3. \A d \in dq_status' : d.run_id = b => d \in dq_status
        BY <2>b, <2>t DEF TablesBy
      <3>4. /\ WindowsRecorded(b) => WindowsRecorded(b)'
            /\ BreachesExplained(b) => BreachesExplained(b)'
        BY <2>b, <2>t, <3>1, RecordedStays
      <3>5. pipeline_state'.status = "success" /\ pipeline_state'.last_run_id = b =>
              pipeline_state' = pipeline_state
        BY <2>b, <2>t DEF TablesBy
      <3> QED BY <3>1, <3>2, <3>3, <3>4, <3>5 DEF RecordedOf
    \* It is enough to look at the run that makes the step.
    <2>s. ASSUME RecordedOf(a)' PROVE RecordedInv'
      BY <2>s, <2>b DEF RecordedInv
    \* A run that has not succeeded is not the success in the table.
    <2>n. ASSUME pc[a] # "succeeded", pipeline_state' = pipeline_state
          PROVE  ~(/\ pipeline_state' # None /\ pipeline_state'.status = "success"
                   /\ pipeline_state'.last_run_id = a)
      BY <2>n, <2>h DEF RecordedOf
    \* A run that gets out of the way of the rows.
    <2>x. ASSUME pc[a] # "succeeded", pc'[a] \in {"failing", "failed", "dead"},
                 pipeline_state' = pipeline_state \/ pipeline_state'.status = "failure"
          PROVE  RecordedOf(a)'
      BY <2>x, <2>n DEF RecordedOf
    <2>1. CASE Start(a)
      <3>1. /\ pc[a] = "idle" /\ pc'[a] = "params" /\ dq_status' = dq_status
            /\ pipeline_state' = pipeline_state
        BY <2>1 DEF Start, tables, TypeOK
      <3> QED BY <3>1, <2>h, <2>n, <2>s DEF RecordedOf
    <2>2. ASSUME NEW wins \in Seq(Int \X Int), NEW end, Resolve(a, wins, end)
          PROVE  RecordedInv'
      <3>1. /\ pc[a] = "params" /\ pc'[a] = "assess" /\ dq_status' = dq_status
            /\ windows'[a] = wins /\ todo'[a] = Worklist(wins) /\ dq_rows'[a] = dq_rows[a]
            /\ pipeline_state' = pipeline_state
        BY <2>2 DEF Resolve, tables, TypeOK
      <3>2. ToSet(dq_rows'[a]) = {}
        BY <3>1, <2>h DEF InHand, ToSet
      <3>3. \A i \in 1..Len(wins), s \in Sources :
              \E k \in 1..Len(Worklist(wins)) : Worklist(wins)[k] = << wins[i], s >>
        BY WorklistPairs
      <3>4. \A d \in dq_status' : d.run_id # a
        BY <3>1, <2>h DEF RecordedOf
      <3>5. \A i \in 1..Len(windows'[a]), s \in Sources :
              \E k \in 1..Len(todo'[a]) : todo'[a][k] = << windows'[a][i], s >>
        BY <3>1, <3>3
      <3>6. pc[a] # "succeeded" /\ pc'[a] = "assess" /\ pipeline_state' = pipeline_state
        BY <3>1
      <3> HIDE <2>2
      <3>7. RecordedOf(a)'
        BY <3>2, <3>4, <3>5, <3>6, <2>n DEF RecordedOf
      <3> QED BY <3>7, <2>s
    <2>3. CASE ResolveDefault(a)
      <3>1. DefaultStart(initial_state[a]) \in Int /\ clock \in Int
        BY DefaultStartTyped DEF TypeOK
      <3>2. << << DefaultStart(initial_state[a]), clock >> >> \in Seq(Int \X Int)
        BY <3>1
      <3> QED BY <2>3, <3>2, <2>2 DEF ResolveDefault
    <2>4. CASE ResolveManual(a)
      BY <2>4, <2>2, GuardrailAssumption DEF ResolveManual
    <2>5. CASE RaiseBeforeTry(a)
      <3>1. pc[a] = "params" /\ pc'[a] = "dead" /\ pipeline_state' = pipeline_state
        BY <2>5 DEF RaiseBeforeTry, tables, TypeOK
      <3> QED BY <3>1, <2>x, <2>s
    <2>6. CASE Assess(a)
      <3>1. todo[a] # << >> /\ todo[a] \in Seq((Int \X Int) \X Sources)
        BY <2>6 DEF Assess, TypeOK
      <3>2. /\ Win(a) \in Int \X Int /\ Head(todo[a]) = << Win(a), Src(a) >>
            /\ NewDq(a).severity # None => Explained(NewDq(a), NewExceptions(a))
        BY <3>1, AssessRows
      <3>3. /\ pc[a] = "assess" /\ pc' = pc /\ windows' = windows
            /\ dq_status' = dq_status /\ pipeline_state' = pipeline_state
            /\ todo'[a] = Tail(todo[a])
            /\ ToSet(dq_rows'[a]) = ToSet(dq_rows[a]) \cup {NewDq(a)}
            /\ exception_rows'[a] = exception_rows[a] \cup NewExceptions(a)
        BY <2>6, AssessStep DEF tables, TypeOK
      <3>4. HasRow({NewDq(a)}, a, Win(a), Src(a))
        <4>1. << Win(a)[1], Win(a)[2] >> = Win(a)
          BY <3>2
        <4> QED BY <4>1 DEF HasRow, NewDq, DqRowOf
      <3>5. ASSUME NEW i \in 1..Len(windows[a]), NEW s \in Sources
            PROVE  \/ \E k \in 1..Len(Tail(todo[a])) : Tail(todo[a])[k] = << windows[a][i], s >>
                   \/ HasRow(ToSet(dq_rows'[a]), a, windows[a][i], s)
        <4>1. CASE \E k \in 1..Len(todo[a]) : todo[a][k] = << windows[a][i], s >>
          <5>1. PICK k \in 1..Len(todo[a]) : todo[a][k] = << windows[a][i], s >>
            BY <4>1
          <5>2. CASE k = 1
            <6>1. Head(todo[a]) = todo[a][1]
              BY <3>1
            <6>2. << windows[a][i], s >> = << Win(a), Src(a) >>
              BY <3>2, <5>1, <5>2, <6>1
            <6>3. windows[a][i] = Win(a) /\ s = Src(a)
              BY <6>2
            <6> QED BY <6>3, <3>3, <3>4, HasRowGrows
          <5>3. CASE k # 1
            <6>1. k - 1 \in 1..Len(Tail(todo[a])) /\ Tail(todo[a])[k - 1] = todo[a][k]
              BY <3>1, <5>3
            <6> QED BY <6>1, <5>1
          <5> QED BY <5>2, <5>3
        <4>2. CASE HasRow(ToSet(dq_rows[a]), a, windows[a][i], s)
          BY <4>2, <3>3, HasRowGrows
        <4> QED BY <4>1, <4>2, <3>3, <2>h DEF RecordedOf
      <3>6. ASSUME NEW d \in ToSet(dq_rows'[a]), d.severity # None
            PROVE  Explained(d, exception_rows'[a])
        <4>1. CASE d = NewDq(a)
          BY <4>1, <3>2, <3>3, <3>6, ExplainedGrows
        <4>2. CASE d \in ToSet(dq_rows[a])
          <5>1. Explained(d, exception_rows[a])
            BY <4>2, <3>3, <3>6, <2>h DEF RecordedOf
          <5> QED BY <5>1, <3>3, ExplainedGrows
        <4> QED BY <4>1, <4>2, <3>3
      <3>7. \A d \in dq_status' : d.run_id # a
        BY <3>3, <2>h DEF RecordedOf
      <3>8. pc'[a] = "assess"
        BY <3>3
      <3> QED BY <3>3, <3>5, <3>6, <3>7, <3>8, <2>n, <2>s DEF RecordedOf
    <2>7. CASE AppendDqStatus(a)
      <3>1. /\ pc[a] = "assess" /\ pc'[a] = "exceptions" /\ todo[a] = << >>
            /\ windows' = windows /\ dq_rows' = dq_rows /\ exception_rows' = exception_rows
            /\ dq_status' = dq_status \cup ToSet(dq_rows[a])
            /\ pipeline_state' = pipeline_state
        BY <2>7 DEF AppendDqStatus, TypeOK
      <3>2. \A i \in 1..Len(windows[a]), s \in Sources :
              HasRow(dq_status', a, windows[a][i], s)
        <4>1. Len(todo[a]) = 0
          BY <3>1
        <4>2. \A i \in 1..Len(windows[a]), s \in Sources :
                HasRow(ToSet(dq_rows[a]), a, windows[a][i], s)
          BY <3>1, <4>1, <2>h DEF RecordedOf
        <4> QED BY <4>2, <3>1, HasRowGrows
      <3>3. WindowsRecorded(a)'
        BY <3>1, <3>2 DEF WindowsRecorded
      <3>4. \A d \in dq_status' : d.run_id = a => d \in ToSet(dq_rows'[a])
        BY <3>1, <2>h DEF RecordedOf
      <3>5. \A d \in ToSet(dq_rows'[a]) : d.severity # None => Explained(d, exception_rows'[a])
        BY <3>1, <2>h DEF RecordedOf
      <3> QED BY <3>1, <3>3, <3>4, <3>5, <2>n, <2>s DEF RecordedOf
    <2>8. CASE AppendExceptions(a)
      <3>1. /\ pc[a] = "exceptions" /\ pc'[a] = "commit" /\ windows' = windows
            /\ dq_status' = dq_status /\ pipeline_state' = pipeline_state
            /\ exception_ledger' = exception_ledger \cup exception_rows[a]
        BY <2>8 DEF AppendExceptions, TypeOK
      <3>2. WindowsRecorded(a)'
        BY <3>1, <2>h DEF RecordedOf, WindowsRecorded
      <3>3. ASSUME NEW d \in dq_status, d.run_id = a, d.severity # None
            PROVE  Explained(d, exception_ledger')
        <4>1. Explained(d, exception_rows[a])
          BY <3>1, <3>3, <2>h DEF RecordedOf
        <4> QED BY <4>1, <3>1, ExplainedGrows
      <3>4. BreachesExplained(a)'
        BY <3>1, <3>3 DEF BreachesExplained
      <3> QED BY <3>1, <3>2, <3>4, <2>n, <2>s DEF RecordedOf
    <2>9. CASE CommitSuccess(a)
      <3>1. /\ pc[a] = "commit" /\ pc'[a] = "succeeded" /\ windows' = windows
            /\ dq_status' = dq_status
        BY <2>9 DEF CommitSuccess, TypeOK
      <3>2. WindowsRecorded(a) /\ BreachesExplained(a)
        BY <3>1, <2>h DEF RecordedOf
      <3>3. WindowsRecorded(a)' /\ BreachesExplained(a)'
        BY <3>1, <3>2, <2>t, RecordedStays
      <3> QED BY <3>1, <3>3, <2>s DEF RecordedOf
    <2>10. CASE Raise(a)
      <3>1. pc[a] # "succeeded" /\ pc'[a] = "failing" /\ pipeline_state' = pipeline_state
        BY <2>10 DEF Raise, tables, TypeOK
      <3> QED BY <3>1, <2>x, <2>s
    <2>11. CASE CommitFailure(a)
      <3>1. pc[a] # "succeeded" /\ pc'[a] = "failed"
        BY <2>11 DEF CommitFailure, TypeOK
      <3>2. pipeline_state'.status = "failure"
        <4>1. initial_state[a] \in Optional(StateRow(Attempts, Counts))
          BY DEF TypeOK
        <4> QED BY <2>11, <4>1 DEF CommitFailure, ApplyFailure, BlankRow, StateRow, Optional
      <3> QED BY <3>1, <3>2, <2>x, <2>s
    <2>12. CASE Kill(a)
      <3>1. pc[a] # "succeeded" /\ pc'[a] = "dead" /\ pipeline_state' = pipeline_state
        BY <2>12 DEF Kill, Active, Working, tables, TypeOK
      <3> QED BY <3>1, <2>x, <2>s
    <2> QED BY <1>3, <2>1, <2>3, <2>4, <2>5, <2>6, <2>7, <2>8, <2>9, <2>10, <2>11, <2>12
            DEF Script
  <1>4. CASE UNCHANGED vars
    BY <1>4, <1>u DEF vars
  <1> QED BY <1>1, <1>2, <1>3, <1>4 DEF Next, Finished

\* A row of gold.pipeline_state that says success stands for a run all of whose
\* dq rows and exceptions are committed, however many runs overlap, raise or
\* get killed between its commits.
THEOREM SuccessIsWhole == Spec => []SuccessIsRecorded
  <1>1. RecordedInv => SuccessIsRecorded
    <2> SUFFICES ASSUME RecordedInv, NEW a \in Attempts,
                        pipeline_state # None, pipeline_state.status = "success",
                        pipeline_state.last_run_id = a
                 PROVE  WindowsRecorded(a) /\ BreachesExplained(a)
      BY DEF SuccessIsRecorded, WindowsRecorded, BreachesExplained, HasRow, Explained
    <2> QED BY DEF RecordedInv, RecordedOf
  <1> QED BY <1>1, Work, RecordedInit, RecordedNext, PTL DEF Spec

-----------------------------------------------------------------------------
(* One run at a time *)

\* A step of a script starts it, or is one of a run in flight; only the step
\* that ends a run writes the state row.
LEMMA InFlight ==
  ASSUME TypeOK, WorkInv, NEW a \in Attempts, Script(a)
  PROVE  \/ Start(a)
         \/ /\ Active(a)
            /\ ~Active(a)' \/ UNCHANGED << pipeline_state, initial_state >>
  <1> USE DEF Active, Working
  <1>1. CASE Start(a)
    BY <1>1
  <1>2. CASE ResolveDefault(a) \/ ResolveManual(a)
    BY <1>2 DEF ResolveDefault, ResolveManual, Resolve, tables
  <1>3. CASE RaiseBeforeTry(a)
    BY <1>3 DEF RaiseBeforeTry, TypeOK
  <1>4. CASE Assess(a)
    BY <1>4, AssessStep DEF tables
  <1>5. CASE AppendDqStatus(a)
    BY <1>5 DEF AppendDqStatus
  <1>6. CASE AppendExceptions(a)
    BY <1>6 DEF AppendExceptions
  <1>7. CASE CommitSuccess(a)
    BY <1>7 DEF CommitSuccess, TypeOK
  <1>8. CASE Raise(a)
    BY <1>8 DEF Raise, tables
  <1>9. CASE CommitFailure(a)
    BY <1>9 DEF CommitFailure, TypeOK
  <1>10. CASE Kill(a)
    BY <1>10 DEF Kill, TypeOK
  <1> QED BY <1>1, <1>2, <1>3, <1>4, <1>5, <1>6, <1>7, <1>8, <1>9, <1>10 DEF Script

\* No run is in flight at the start.
LEMMA AloneInit == Init => AloneInv
  BY DEF Init, AloneInv, Active, Working

\* With max_concurrent_runs: 1 a run starts only when no other is in flight,
\* and nobody else writes the row while it is.
LEMMA AloneNext ==
  ASSUME MaxConcurrent <= 1
  PROVE  TypeOK /\ WorkInv /\ AloneInv /\ [Next]_vars => AloneInv'
  <1> SUFFICES ASSUME TypeOK, WorkInv, AloneInv, [Next]_vars PROVE AloneInv'
    OBVIOUS
  <1>u. ASSUME UNCHANGED << pc, initial_state, pipeline_state >> PROVE AloneInv'
    BY <1>u DEF AloneInv, Active
  <1>1. CASE Tick
    BY <1>1, <1>u DEF Tick, tables, locals
  <1>2. CASE Ingest
    BY <1>2, <1>u, Ingested DEF tables, locals
  <1>3. ASSUME NEW a \in Attempts, Script(a) PROVE AloneInv'
    <2>1. ASSUME NEW b \in Attempts, b # a PROVE Active(b)' <=> Active(b)
      BY <1>3, <2>1, OthersKept DEF Active
    <2>2. CASE Start(a)
      <3> DEFINE flying == { b \in Attempts : Active(b) }
      <3>1. IsFiniteSet(flying)
        BY GuardrailAssumption, FS_Subset
      <3>2. Cardinality(flying) \in Nat /\ Cardinality(flying) < MaxConcurrent
        BY <2>2, <3>1, FS_CardinalityType DEF Start
      <3>3. Cardinality(flying) = 0
        BY <3>2, GuardrailAssumption
      <3>4. flying = {}
        BY <3>1, <3>3, FS_EmptySet
      <3>5. \A b \in Attempts : Active(b)' => b = a
        BY <2>1, <3>4
      <3>6. initial_state'[a] = pipeline_state'
        BY <2>2 DEF Start, tables, TypeOK
      <3> QED BY <3>5, <3>6 DEF AloneInv
    <2>3. CASE /\ Active(a)
               /\ ~Active(a)' \/ UNCHANGED << pipeline_state, initial_state >>
      <3>1. \A b \in Attempts : Active(b)' => b = a
        BY <2>1, <2>3 DEF AloneInv
      <3> QED BY <2>3, <3>1 DEF AloneInv
    <2> QED BY <1>3, <2>2, <2>3, InFlight
  <1>4. CASE UNCHANGED vars
    BY <1>4, <1>u DEF vars, tables, locals
  <1> QED BY <1>1, <1>2, <1>3, <1>4 DEF Next, Finished

\* A failure reported over the row it was read from keeps its progress.
LEMMA FailureStep ==
  TypeOK /\ WorkInv /\ AloneInv /\ [Next]_vars =>
    [ pipeline_state' # pipeline_state /\ pipeline_state'.status = "failure" =>
        /\ ProcessedEnd(pipeline_state') = ProcessedEnd(pipeline_state)
        /\ LastSuccess(pipeline_state') = LastSuccess(pipeline_state)
        /\ ZeroCounts(pipeline_state') = ZeroCounts(pipeline_state) ]_vars
  <1> SUFFICES ASSUME TypeOK, WorkInv, AloneInv, [Next]_vars,
                      pipeline_state' # pipeline_state, pipeline_state'.status = "failure"
               PROVE  /\ ProcessedEnd(pipeline_state') = ProcessedEnd(pipeline_state)
                      /\ LastSuccess(pipeline_state') = LastSuccess(pipeline_state)
                      /\ ZeroCounts(pipeline_state') = ZeroCounts(pipeline_state)
    OBVIOUS
  <1>1. PICK a \in Attempts : Script(a)
    <2>1. ~Tick /\ ~Finished /\ ~UNCHANGED vars
      BY DEF Tick, Finished, vars, tables
    <2>2. ~Ingest
      BY Ingested DEF tables
    <2> QED BY <2>1, <2>2 DEF Next
  <1>2. ~Start(a)
    BY DEF Start, tables
  <1>3. Active(a) /\ ~Active(a)'
    BY <1>1, <1>2, InFlight
  <1>4. CommitFailure(a)
    <2>1. ~ResolveDefault(a) /\ ~ResolveManual(a) /\ ~RaiseBeforeTry(a) /\ ~Raise(a) /\ ~Kill(a)
      BY DEF ResolveDefault, ResolveManual, Resolve, RaiseBeforeTry, Raise, Kill, tables
    <2>2. ~Assess(a)
      BY AssessStep DEF tables
    <2>3. ~AppendDqStatus(a) /\ ~AppendExceptions(a)
      BY DEF AppendDqStatus, AppendExceptions
    <2>4. ~CommitSuccess(a)
      BY DEF CommitSuccess, ApplySuccess
    <2> QED BY <1>1, <1>2, <2>1, <2>2, <2>3, <2>4 DEF Script
  <1>5. pipeline_state' = ApplyFailure(pipeline_state, a, clock)
    BY <1>3, <1>4 DEF CommitFailure, AloneInv
  <1>6. pipeline_state \in Optional(StateRow(Attempts, Counts)) /\ clock \in Int
    BY DEF TypeOK
  <1>7. pipeline_state' \in StateRow(Attempts, Counts)
    <2>1. NoCounts \in Counts
      BY DEF NoCounts, Counts
    <2> QED BY <1>5, <1>6, <2>1, AppliedTyped DEF Optional
  <1>8. pipeline_state' # None
    BY <1>7, GuardrailAssumption
  <1>9. CASE pipeline_state = None
    <2>1. /\ pipeline_state'.last_processed_end = None /\ pipeline_state'.last_success_ts = None
          /\ pipeline_state'.dq_zero_window_counts = None
      BY <1>5, <1>9 DEF ApplyFailure, BlankRow
    <2> QED BY <1>8, <1>9, <2>1 DEF ProcessedEnd, LastSuccess, ZeroCounts
  <1>10. CASE pipeline_state # None
    <2>1. pipeline_state \in StateRow(Attempts, Counts)
      BY <1>6, <1>10 DEF Optional
    <2>2. /\ pipeline_state'.last_processed_end = pipeline_state.last_processed_end
          /\ pipeline_state'.last_success_ts = pipeline_state.last_success_ts
          /\ pipeline_state'.dq_zero_window_counts = pipeline_state.dq_zero_window_counts
      BY <1>5, <1>10, <2>1 DEF ApplyFailure, StateRow
    <2> QED BY <1>8, <1>10, <2>2 DEF ProcessedEnd, LastSuccess, ZeroCounts
  <1> QED BY <1>9, <1>10

\* Where runs do not overlap, reporting a failure changes no progress field.
\* The run guardrail_overlap_failure shows that max_concurrent_runs: 2 breaks it.
THEOREM FailureIsHarmless ==
  ASSUME MaxConcurrent <= 1
  PROVE  Spec => FailureKeepsProgress
  <1>1. TypeOK /\ WorkInv /\ AloneInv /\ [Next]_vars => AloneInv'
    BY AloneNext
  <1> QED BY <1>1, Work, AloneInit, FailureStep, PTL DEF Spec, FailureKeepsProgress

\* The row of gold.pipeline_state goes through the changes ProgressRow allows:
\* those of one run after the other.
Progress == INSTANCE ProgressRow WITH
  RunIds <- Attempts, Ends <- Int, Times <- Int, row <- pipeline_state

\* Every step is a change ProgressRow allows, or leaves the row alone.
LEMMA RowStep ==
  TypeOK /\ WorkInv /\ AloneInv /\ [Next]_vars => [Progress!Next]_pipeline_state
  <1> SUFFICES ASSUME TypeOK, WorkInv, AloneInv, [Next]_vars, pipeline_state' # pipeline_state
               PROVE  Progress!Next
    OBVIOUS
  <1>1. PICK a \in Attempts : Script(a)
    <2>1. ~Tick /\ ~Finished /\ ~UNCHANGED vars
      BY DEF Tick, Finished, vars, tables
    <2>2. ~Ingest
      BY Ingested DEF tables
    <2> QED BY <2>1, <2>2 DEF Next
  <1>2. clock \in Int /\ processed_end[a] \in Int /\ zero_window_counts[a] \in Counts
    BY DEF TypeOK
  <1>3. CommitSuccess(a) \/ CommitFailure(a)
    <2>1. ~Assess(a)
      BY AssessStep DEF tables
    <2> QED BY <1>1, <2>1 DEF Script, Start, ResolveDefault, ResolveManual, Resolve,
               RaiseBeforeTry, AppendDqStatus, AppendExceptions, Raise, Kill, tables
  <1>4. CASE CommitSuccess(a)
    <2>1. pipeline_state' =
            Progress!ApplySuccess(a, processed_end[a], zero_window_counts[a], clock)
      BY <1>4 DEF CommitSuccess, ApplySuccess, Progress!ApplySuccess
    <2> QED BY <1>2, <2>1 DEF Progress!Next, Progress!Succeed
  <1>5. CASE CommitFailure(a)
    <2>1. initial_state[a] = pipeline_state
      BY <1>5 DEF CommitFailure, Active, AloneInv
    <2>2. pipeline_state' = Progress!ApplyFailure(pipeline_state, a, clock)
      BY <1>5, <2>1 DEF CommitFailure, ApplyFailure, BlankRow,
                        Progress!ApplyFailure, Progress!BlankRow
    <2> QED BY <1>2, <2>2 DEF Progress!Next, Progress!Fail
  <1> QED BY <1>3, <1>4, <1>5

\* Where runs do not overlap, Pipeline A keeps the promise of ProgressRow on a new
\* workspace: a success reports the end of its windows and its counters, a failure
\* leaves the progress already reported alone.
THEOREM GuardrailRefinesProgressRow ==
  ASSUME MaxConcurrent <= 1, InitialMark = None
  PROVE  Spec => Progress!Spec
  <1>1. TypeOK /\ WorkInv /\ AloneInv /\ [Next]_vars => AloneInv'
    BY AloneNext
  <1>2. Init => Progress!Init
    BY DEF Init, Progress!Init
  <1> QED BY <1>1, <1>2, Work, AloneInit, RowStep, PTL DEF Spec, Progress!Spec

-----------------------------------------------------------------------------
(* The counters of empty windows.  ZeroCountsContinuous is not inductive:    *)
(* while a run is in flight its counters are those of the row it read, taken *)
(* on over the rows it has built, and the row is still the one in the table. *)

Tally(counts, rows) == FoldLeft(AfterRow, counts, rows)

StreakInv ==
  /\ ParsedCounts(pipeline_state) = streak
  /\ \A a \in Attempts : pc[a] \in Working =>
       zero_window_counts[a] = Tally(ParsedCounts(initial_state[a]), dq_rows[a])

\* The counters after a row are counters.
LEMMA AfterRowTyped ==
  ASSUME NEW counts \in Counts, NEW d \in DqRow
  PROVE  AfterRow(counts, d) \in Counts
  BY DEF AfterRow, Counts, DqRow

\* The counters g has for each set of positions: those of the other positions,
\* taken on over the row at the last one.
IsTally(g, n, counts, rows) ==
  /\ g[{}] = counts
  /\ \A s \in SUBSET (1..n) :
       s # {} => g[s] = AfterRow(g[s \ {Max(s)}], rows[Max(s)])

\* There is only one such function.
LEMMA TallyUnique ==
  ASSUME NEW n \in Nat, NEW counts, NEW rows, NEW g, IsTally(g, n, counts, rows),
         NEW m \in Nat, n <= m, NEW more, NEW h, IsTally(h, m, counts, more),
         \A i \in 1..n : more[i] = rows[i]
  PROVE  h[1..n] = g[1..n]
  <1> DEFINE Differ == { s \in SUBSET (1..n) : h[s] # g[s] }
  <1> SUFFICES ASSUME Differ # {} PROVE FALSE
    OBVIOUS
  <1>1. PICK s \in Differ : \A t \in SUBSET s : t # s => t \notin Differ
    <2>1. Differ \in SUBSET SUBSET (1..n) /\ IsFiniteSet(1..n)
      BY FS_Interval
    <2> HIDE DEF Differ
    <2> QED BY <2>1, SmallestSubset
  <1>2. s \in SUBSET (1..n) /\ s # {}
    BY <1>1 DEF IsTally
  <1>3. s \in SUBSET (1..m)
    BY <1>2
  <1>4. Max(s) \in s /\ s \ {Max(s)} \in SUBSET s /\ s \ {Max(s)} # s
    BY <1>2, LastPosition
  <1>5. h[s \ {Max(s)}] = g[s \ {Max(s)}]
    BY <1>1, <1>2, <1>4
  <1>6. more[Max(s)] = rows[Max(s)]
    BY <1>2, <1>4
  <1>7. g[s] = AfterRow(g[s \ {Max(s)}], rows[Max(s)])
    BY <1>2 DEF IsTally
  <1>8. h[s] = AfterRow(h[s \ {Max(s)}], more[Max(s)])
    BY <1>2, <1>3 DEF IsTally
  <1> QED BY <1>1, <1>5, <1>6, <1>7, <1>8

\* A tally is the value of that function for all positions.
LEMMA TallyIsFold ==
  ASSUME NEW n \in Nat, NEW counts \in Counts, NEW rows \in Seq(DqRow), Len(rows) = n
  PROVE  \E g : IsTally(g, n, counts, rows) /\ Tally(counts, rows) = g[1..n]
  <1> DEFINE S == 1..n
             pick == [s \in SUBSET S |-> Max(s)]
             op == [p \in S \X Counts |-> AfterRow(p[2], rows[p[1]])]
             Body(g) == [s \in SUBSET S |->
               IF s = {} THEN counts ELSE AfterRow(g[s \ {Max(s)}], rows[Max(s)])]
  <1>1. IsFiniteSet(S) /\ DOMAIN rows = S /\ \A i \in S : rows[i] \in DqRow
    BY FS_Interval
  <1>2. \A s \in SUBSET S : s # {} => Max(s) \in s
    BY LastPosition
  <1>3. op \in [S \X Counts -> Counts]
    BY <1>1, AfterRowTyped
  <1>4. PICK g \in [SUBSET S -> Counts] : IsFold(g, S, pick, op, counts)
    <2>1. \A s \in SUBSET S : s # {} => pick[s] \in s
      BY <1>2
    <2> HIDE DEF S, pick, op
    <2> QED BY <1>1, <1>3, <2>1, FoldExists
  <1>5. IsTally(g, n, counts, rows)
    <2>1. ASSUME NEW s \in SUBSET S, s # {}
          PROVE  g[s] = AfterRow(g[s \ {Max(s)}], rows[Max(s)])
      <3>1. Max(s) \in S /\ g[s \ {Max(s)}] \in Counts
        BY <1>2, <1>4, <2>1
      <3>2. g[s] = op[<< pick[s], g[s \ {pick[s]}] >>]
        BY <1>4, <2>1 DEF IsFold
      <3> QED BY <3>1, <3>2
    <2>2. g[{}] = counts
      BY <1>4 DEF IsFold
    <2> QED BY <2>1, <2>2 DEF IsTally
  <1>6. g = Body(g)
    <2> HIDE DEF S
    <2> QED BY <1>4, <1>5 DEF IsTally, S
  <1>7. ASSUME NEW h, h = Body(h) PROVE h[S] = g[S]
    <2>1. \A s \in SUBSET S :
            h[s] = IF s = {} THEN counts ELSE AfterRow(h[s \ {Max(s)}], rows[Max(s)])
      <3> HIDE DEF S
      <3> QED BY <1>7
    <2>2. IsTally(h, n, counts, rows)
      BY <2>1 DEF IsTally
    <2>3. n <= n /\ \A i \in 1..n : rows[i] = rows[i]
      OBVIOUS
    <2>4. h[1..n] = g[1..n]
      BY <1>5, <2>2, <2>3, TallyUnique
    <2> QED BY <2>4
  <1>8. Tally(counts, rows) = (CHOOSE h : h = Body(h))[S]
    BY <1>1 DEF Tally, FoldLeft, MapThenFoldSet
  <1>9. Tally(counts, rows) = g[S]
    <2> DEFINE h == CHOOSE h : h = Body(h)
    <2>1. h = Body(h)
      <3> HIDE DEF Body
      <3> QED BY <1>6
    <2> HIDE DEF h, Body, S
    <2> QED BY <1>7, <1>8, <2>1 DEF h
  <1> QED BY <1>4, <1>5, <1>9

\* No row leaves the counters; one more row takes them one step on.
LEMMA TallyGrows ==
  ASSUME NEW counts \in Counts
  PROVE  /\ Tally(counts, << >>) = counts
         /\ \A rows \in Seq(DqRow), d \in DqRow :
              Tally(counts, Append(rows, d)) = AfterRow(Tally(counts, rows), d)
  <1>1. Tally(counts, << >>) = counts
    <2>1. PICK rows \in Seq(DqRow), n \in Nat : rows = << >> /\ n = 0 /\ Len(rows) = n
      <3>1. << >> \in Seq(DqRow) /\ Len(<< >>) = 0 /\ 0 \in Nat
        OBVIOUS
      <3> QED BY <3>1
    <2>2. PICK g : IsTally(g, n, counts, rows) /\ Tally(counts, rows) = g[1..n]
      BY <2>1, TallyIsFold
    <2>3. 1..n = {}
      BY <2>1
    <2> QED BY <2>1, <2>2, <2>3 DEF IsTally
  <1>2. ASSUME NEW rows \in Seq(DqRow), NEW d \in DqRow
        PROVE  Tally(counts, Append(rows, d)) = AfterRow(Tally(counts, rows), d)
    <2>n. PICK n \in Nat : n = Len(rows)
      OBVIOUS
    <2>m. PICK m \in Nat : m = n + 1
      OBVIOUS
    <2>x. PICK more : more = Append(rows, d)
      OBVIOUS
    <2>1. /\ more \in Seq(DqRow) /\ Len(more) = m /\ more[m] = d
          /\ \A i \in 1..n : more[i] = rows[i]
      BY <2>n, <2>m, <2>x
    <2>2. PICK g : IsTally(g, n, counts, rows) /\ Tally(counts, rows) = g[1..n]
      BY <2>n, TallyIsFold
    <2>3. PICK h : IsTally(h, m, counts, more) /\ Tally(counts, more) = h[1..m]
      BY <2>1, TallyIsFold
    <2>4. h[1..n] = g[1..n]
      <3>1. n <= m
        BY <2>m
      <3> QED BY <2>1, <2>2, <2>3, <3>1, TallyUnique
    <2>5. Max(1..m) = m
      <3>1. m \in 1..m /\ \A y \in 1..m : m >= y
        BY <2>m
      <3>2. Max(1..m) \in 1..m /\ \A y \in 1..m : Max(1..m) >= y
        BY <3>1 DEF Max
      <3> QED BY <3>1, <3>2
    <2>6. 1..m # {} /\ (1..m) \ {m} = 1..n
      <3>1. m \in 1..m /\ m \notin 1..n
        BY <2>m
      <3>2. \A i \in 1..m : i # m => i \in 1..n
        BY <2>m
      <3>3. \A i \in 1..n : i \in 1..m
        BY <2>m
      <3> QED BY <3>1, <3>2, <3>3
    <2>7. h[1..m] = AfterRow(h[1..n], d)
      BY <2>1, <2>3, <2>5, <2>6 DEF IsTally
    <2> QED BY <2>2, <2>3, <2>4, <2>7, <2>x
  <1> QED BY <1>1, <1>2

\* What is read from a row of the table are counters; a success stores those of
\* the run, a failure keeps those of the row it was read from.
LEMMA CountsRead ==
  ASSUME NEW a \in Attempts, NEW end \in Int, NEW counts \in Counts, NEW now \in Int,
         NEW current \in Optional(StateRow(Attempts, Counts))
  PROVE  /\ ParsedCounts(current) \in Counts
         /\ ParsedCounts(ApplySuccess(a, end, counts, now)) = counts
         /\ ParsedCounts(ApplyFailure(current, a, now)) = ParsedCounts(current)
  <1> DEFINE ok == ApplySuccess(a, end, counts, now)
             failed == ApplyFailure(current, a, now)
  <1>1. ok # None /\ failed # None
    <2>1. a \in Optional(Attempts)
      BY DEF Optional
    <2>2. ok \in StateRow(Attempts, Counts) /\ failed \in StateRow(Attempts, Counts)
      BY <2>1, AppliedTyped
    <2>3. None \notin StateRow(Attempts, Counts)
      BY GuardrailAssumption
    <2> HIDE DEF ok, failed
    <2> QED BY <2>2, <2>3
  <1>2. ok.dq_zero_window_counts = counts /\ None \notin Counts
    BY GuardrailAssumption DEF ApplySuccess
  <1>3. failed.dq_zero_window_counts = ZeroCounts(current)
    <2>1. CASE current = None
      BY <2>1 DEF ApplyFailure, BlankRow, ZeroCounts
    <2>2. CASE current # None
      <3>1. current \in StateRow(Attempts, Counts)
        BY <2>2 DEF Optional
      <3> QED BY <2>2, <3>1 DEF ApplyFailure, StateRow, ZeroCounts
    <2> QED BY <2>1, <2>2
  <1>4. ParsedCounts(current) \in Counts
    <2>1. NoCounts \in Counts
      BY DEF NoCounts, Counts
    <2>2. ZeroCounts(current) \in Optional(Counts)
      BY DEF ZeroCounts, StateRow, Optional
    <2> QED BY <2>1, <2>2 DEF ParsedCounts, Optional
  <1> HIDE DEF ok, failed
  <1>5. ParsedCounts(ok) = counts /\ ParsedCounts(failed) = ParsedCounts(current)
    BY <1>1, <1>2, <1>3 DEF ParsedCounts, ZeroCounts
  <1> QED BY <1>4, <1>5 DEF ok, failed

\* A pipeline without a row has no empty window behind it, nor has a mark that
\* was there before.
LEMMA StreakInit == Init => StreakInv
  <1> SUFFICES ASSUME Init PROVE StreakInv
    OBVIOUS
  <1>1. ParsedCounts(pipeline_state) = NoCounts
    <2>1. CASE InitialMark = None
      BY <2>1 DEF Init, ParsedCounts, ZeroCounts
    <2>2. CASE InitialMark # None
      BY <2>2 DEF Init, ApplySuccess, ParsedCounts, ZeroCounts
    <2> QED BY <2>1, <2>2
  <1> QED BY <1>1 DEF Init, StreakInv, Working

\* Every step keeps the counters: a run alone in flight takes on what it read.
LEMMA StreakNext ==
  TypeOK /\ WorkInv /\ AloneInv /\ AloneInv' /\ StreakInv /\ [Next]_vars => StreakInv'
  <1> SUFFICES ASSUME TypeOK, WorkInv, AloneInv, AloneInv', StreakInv, [Next]_vars
               PROVE  StreakInv'
    OBVIOUS
  <1>u. ASSUME UNCHANGED << pipeline_state, streak, pc, zero_window_counts, initial_state, dq_rows >>
        PROVE  StreakInv'
    BY <1>u DEF StreakInv
  <1>1. CASE Tick
    BY <1>1, <1>u DEF Tick, tables, locals, history
  <1>2. CASE Ingest
    BY <1>2, <1>u, Ingested DEF tables, locals, history
  <1>3. ASSUME NEW a \in Attempts, Script(a) PROVE StreakInv'
    <2>t. /\ initial_state[a] \in Optional(StateRow(Attempts, Counts))
          /\ pipeline_state \in Optional(StateRow(Attempts, Counts))
          /\ processed_end[a] \in Int /\ clock \in Int
          /\ zero_window_counts[a] \in Counts /\ dq_rows[a] \in Seq(DqRow)
          /\ ParsedCounts(initial_state[a]) \in Counts
          /\ ParsedCounts(pipeline_state) \in Counts
      <3>1. /\ initial_state[a] \in Optional(StateRow(Attempts, Counts))
            /\ pipeline_state \in Optional(StateRow(Attempts, Counts))
            /\ processed_end[a] \in Int /\ clock \in Int
            /\ zero_window_counts[a] \in Counts /\ dq_rows[a] \in Seq(DqRow)
        BY DEF TypeOK
      <3> QED BY <3>1, CountsRead
    \* The other runs are not in flight.
    <2>o. ASSUME NEW b \in Attempts, b # a PROVE pc'[b] \notin Working
      <3>1. Active(b)' <=> Active(b)
        BY <1>3, <2>o, OthersKept DEF Active
      <3>2. ~Active(b)'
        <4>1. CASE Start(a)
          <5>1. Active(a)'
            BY <4>1 DEF Start, Active, Working, TypeOK
          <5> QED BY <2>o, <5>1 DEF AloneInv
        <4>2. CASE Active(a)
          BY <2>o, <3>1, <4>2 DEF AloneInv
        <4> QED BY <1>3, <4>1, <4>2, InFlight
      <3> QED BY <3>2 DEF Active
    <2>s. ASSUME ParsedCounts(pipeline_state') = streak',
                 pc'[a] \in Working =>
                   zero_window_counts'[a] = Tally(ParsedCounts(initial_state'[a]), dq_rows'[a])
          PROVE  StreakInv'
      BY <2>o, <2>s DEF StreakInv
    <2>c. pc[a] \in Working =>
            /\ zero_window_counts[a] = Tally(ParsedCounts(initial_state[a]), dq_rows[a])
            /\ initial_state[a] = pipeline_state
      BY DEF StreakInv, AloneInv, Active
    <2>k. ASSUME pc[a] \in Working \/ pc'[a] \notin Working,
                 UNCHANGED << pipeline_state, streak, zero_window_counts, initial_state, dq_rows >>
          PROVE  StreakInv'
      BY <2>c, <2>k, <2>s DEF StreakInv
    <2>1. CASE Start(a)
      <3>1. /\ initial_state'[a] = pipeline_state /\ dq_rows'[a] = << >>
            /\ zero_window_counts'[a] = ParsedCounts(pipeline_state)
            /\ UNCHANGED << pipeline_state, streak >>
        BY <2>1 DEF Start, TypeOK, WorkInv, InHand, tables, history
      <3> QED BY <2>s, <2>t, <3>1, TallyGrows DEF StreakInv
    <2>2. CASE ResolveDefault(a) \/ ResolveManual(a)
      BY <2>2, <2>k DEF ResolveDefault, ResolveManual, Resolve, Working, tables, history
    <2>3. CASE Assess(a)
      <3>1. /\ pc[a] \in Working /\ dq_rows'[a] = Append(dq_rows[a], NewDq(a))
            /\ zero_window_counts'[a] = AfterRow(zero_window_counts[a], NewDq(a))
            /\ UNCHANGED << pipeline_state, initial_state, streak >>
            /\ NewDq(a) \in DqRow
        <4>1. pc[a] = "assess" /\ todo[a] # << >>
          BY <2>3 DEF Assess
        <4>2. dq_rows' = [dq_rows EXCEPT ![a] = Append(dq_rows[a], NewDq(a))]
          BY <2>3, AssessStep
        <4>3. /\ zero_window_counts'[a] = AfterRow(zero_window_counts[a], NewDq(a))
              /\ UNCHANGED << pipeline_state, initial_state, streak >>
          BY <2>3, AssessStep DEF tables
        <4>4. NewDq(a) \in DqRow
          BY <4>1, AssessRows
        <4> QED BY <4>1, <4>2, <4>3, <4>4 DEF TypeOK, Working
      <3> QED BY <2>c, <2>s, <2>t, <3>1, TallyGrows DEF StreakInv
    <2>4. CASE AppendDqStatus(a)
      BY <2>4, <2>k DEF AppendDqStatus, Working
    <2>5. CASE AppendExceptions(a)
      BY <2>5, <2>k DEF AppendExceptions, Working, history
    <2>6. CASE Raise(a)
      BY <2>6, <2>k DEF Raise, Working, tables, history
    <2>7. CASE CommitSuccess(a)
      <3>1. /\ pc[a] \in Working /\ pc'[a] \notin Working
            /\ pipeline_state' = ApplySuccess(a, processed_end[a], zero_window_counts[a], clock)
            /\ streak' = Tally(streak, dq_rows[a])
        BY <2>7 DEF CommitSuccess, TypeOK, Working, StreakAfter, Tally
      <3>2. ParsedCounts(pipeline_state') = zero_window_counts[a]
        <4>1. \A end \in Int, counts \in Counts, now \in Int :
                ParsedCounts(ApplySuccess(a, end, counts, now)) = counts
          BY <2>t, CountsRead
        <4> QED BY <2>t, <3>1, <4>1
      <3> QED BY <2>c, <2>s, <3>1, <3>2 DEF StreakInv
    <2>8. CASE CommitFailure(a)
      <3>1. /\ Active(a) /\ pc'[a] \notin Working /\ UNCHANGED streak
            /\ pipeline_state' = ApplyFailure(initial_state[a], a, clock)
        BY <2>8 DEF CommitFailure, TypeOK, Working, Active
      <3>2. ParsedCounts(pipeline_state') = ParsedCounts(initial_state[a])
        <4>1. \A current \in Optional(StateRow(Attempts, Counts)), now \in Int :
                ParsedCounts(ApplyFailure(current, a, now)) = ParsedCounts(current)
          <5> SUFFICES ASSUME NEW current \in Optional(StateRow(Attempts, Counts)),
                              NEW now \in Int
                       PROVE  ParsedCounts(ApplyFailure(current, a, now)) = ParsedCounts(current)
            OBVIOUS
          <5>1. zero_window_counts[a] \in Counts
            BY <2>t
          <5> QED BY <5>1, CountsRead
        <4> QED BY <2>t, <3>1, <4>1
      <3> QED BY <2>s, <3>1, <3>2 DEF StreakInv, AloneInv
    <2>9. CASE RaiseBeforeTry(a) \/ Kill(a)
      <3>1. pc'[a] \notin Working /\ UNCHANGED << pipeline_state, streak >>
        BY <2>9 DEF RaiseBeforeTry, Kill, TypeOK, Working, tables
      <3> QED BY <2>s, <3>1 DEF StreakInv
    <2> QED BY <1>3, <2>1, <2>2, <2>3, <2>4, <2>5, <2>6, <2>7, <2>8, <2>9 DEF Script
  <1>4. CASE UNCHANGED vars
    BY <1>4, <1>u DEF vars, tables, locals, history
  <1> QED BY <1>1, <1>2, <1>3, <1>4 DEF Next, Finished

\* Where runs do not overlap, the stored counters are the lengths of the current
\* runs of empty windows, whatever failed, was killed or started over between.
THEOREM CountersContinue ==
  ASSUME MaxConcurrent <= 1
  PROVE  Spec => []ZeroCountsContinuous
  <1>1. TypeOK /\ WorkInv /\ AloneInv /\ [Next]_vars => AloneInv'
    BY AloneNext
  <1>2. StreakInv => ZeroCountsContinuous
    BY DEF StreakInv, ZeroCountsContinuous
  <1> QED BY <1>1, <1>2, Work, AloneInit, StreakInit, StreakNext, PTL DEF Spec

-----------------------------------------------------------------------------
(* No gap *)

\* The mark of a reported row: the end of the run, or the mark it failed over.
LEMMA AppliedMarks ==
  ASSUME NEW a \in Attempts, NEW end \in Int, NEW counts \in Counts, NEW now \in Int,
         NEW current \in Optional(StateRow(Attempts, Counts))
  PROVE  /\ ProcessedEnd(ApplySuccess(a, end, counts, now)) = end
         /\ ProcessedEnd(ApplyFailure(current, a, now)) = ProcessedEnd(current)
  <1> DEFINE ok == ApplySuccess(a, end, counts, now)
             failed == ApplyFailure(current, a, now)
  <1>1. ok # None /\ failed # None
    <2>1. a \in Optional(Attempts)
      BY DEF Optional
    <2>2. ok \in StateRow(Attempts, Counts) /\ failed \in StateRow(Attempts, Counts)
      BY <2>1, AppliedTyped
    <2>3. None \notin StateRow(Attempts, Counts)
      BY GuardrailAssumption
    <2> HIDE DEF ok, failed
    <2> QED BY <2>2, <2>3
  <1>2. ok.last_processed_end = end
    BY DEF ApplySuccess
  <1>3. failed.last_processed_end = ProcessedEnd(current)
    <2>1. CASE current = None
      BY <2>1 DEF ApplyFailure, BlankRow, ProcessedEnd
    <2>2. CASE current # None
      <3>1. current \in StateRow(Attempts, Counts)
        BY <2>2 DEF Optional
      <3> QED BY <2>2, <3>1 DEF ApplyFailure, StateRow, ProcessedEnd
    <2> QED BY <2>1, <2>2
  <1> HIDE DEF ok, failed
  <1>4. ProcessedEnd(ok) = end /\ ProcessedEnd(failed) = ProcessedEnd(current)
    BY <1>1, <1>2, <1>3 DEF ProcessedEnd
  <1> QED BY <1>4 DEF ok, failed

\* The mark of a success, whatever row was there.
LEMMA SuccessMark ==
  ASSUME NEW a \in Attempts, NEW end \in Int, NEW counts \in Counts, NEW now \in Int
  PROVE  ProcessedEnd(ApplySuccess(a, end, counts, now)) = end
  <1>1. None \in Optional(StateRow(Attempts, Counts))
    BY DEF Optional
  <1> QED BY <1>1, AppliedMarks

\* What is recorded up to a mark stays so.
LEMMA UpToStays ==
  ASSUME NEW status, NEW more, status \subseteq more, NEW start, NEW row,
         RecordedUpTo(status, start, row)
  PROVE  RecordedUpTo(more, start, row)
  BY DEF RecordedUpTo, Recorded

\* The row of a pipeline that starts with a mark shows it.
LEMMA InitialMarkRead ==
  ASSUME Init
  PROVE  ProcessedEnd(pipeline_state) = InitialMark
  <1>1. CASE InitialMark = None
    BY <1>1 DEF Init, ProcessedEnd
  <1>2. CASE InitialMark # None
    <2>1. NoCounts \in Counts /\ InitialMark \in Int
      BY <1>2, GuardrailAssumption DEF NoCounts, Counts, Optional
    <2>2. pipeline_state \in StateRow(Attempts, Counts)
      BY <1>2, <2>1, AppliedTyped DEF Init, Optional
    <2>3. pipeline_state # None
      BY <2>2, GuardrailAssumption
    <2> QED BY <1>2, <2>3 DEF Init, ProcessedEnd, ApplySuccess
  <1> QED BY <1>1, <1>2

\* At the start nothing is recorded up to the mark the pipeline starts from.
LEMMA GapInit == Init => GapInv
  <1> SUFFICES ASSUME Init PROVE GapInv
    OBVIOUS
  <1>1. ProcessedEnd(pipeline_state) = InitialMark /\ origin = InitialMark
    BY InitialMarkRead DEF Init
  <1>2. \A a \in Attempts : ~Active(a) /\ ~HasWindows(a)
    BY DEF Init, Active, Working, HasWindows
  <1>3. RecordedUpTo(dq_status, origin, pipeline_state)
    <2>1. SUFFICES ASSUME InitialMark # None, NEW t \in Int, InitialMark <= t, t < InitialMark
                   PROVE  FALSE
      BY <1>1 DEF RecordedUpTo
    <2>2. InitialMark \in Int
      BY <2>1, GuardrailAssumption DEF Optional
    <2> QED BY <2>1, <2>2
  <1> QED BY <1>1, <1>2, <1>3 DEF GapInv, GapOf

\* The default window goes on from the mark its run has found.
LEMMA DefaultGoesOn ==
  ASSUME TypeOK, NEW a \in Attempts, ResolveDefault(a)
  PROVE  GoesOn(a)'
  <1> DEFINE start == DefaultStart(initial_state[a])
             mark == ProcessedEnd(initial_state[a])
  <1>1. /\ windows'[a] = << << start, clock >> >> /\ processed_end'[a] = clock
        /\ initial_state' = initial_state
    BY DEF ResolveDefault, Resolve, TypeOK
  <1>2. mark \in Optional(Int) /\ start \in Int /\ clock \in Int
    BY DefaultStartTyped DEF TypeOK
  <1>3. mark # None /\ mark < clock => start = mark
    BY DEF DefaultStart
  <1>4. /\ windows'[a][1][1] = start /\ windows'[a][1][2] = clock
        /\ 1 \in 1..Len(windows'[a])
    BY <1>1
  <1>5. \A u \in Int : start <= u /\ u < clock => InWindows(windows'[a], u)
    BY <1>4 DEF InWindows
  <1> HIDE DEF start, mark
  <1>6. CASE mark = None
    <2>1. ReachFrom(a, windows[a][1][1])'
      BY <1>1, <1>4, <1>5 DEF ReachFrom
    <2> QED BY <1>1, <1>6, <2>1 DEF GoesOn, mark
  <1>7. CASE mark # None
    <2>1. mark \in Int
      BY <1>2, <1>7 DEF Optional
    <2>2. \A u \in Int : mark <= u /\ u < clock => start <= u
      BY <1>2, <1>3, <1>7, <2>1
    <2>3. \A u \in Int : mark <= u /\ u < processed_end'[a] => InWindows(windows'[a], u)
      BY <1>1, <1>5, <2>2
    <2>4. ReachFrom(a, ProcessedEnd(initial_state[a]))'
      BY <1>1, <2>3 DEF ReachFrom, mark
    <2> QED BY <1>1, <1>7, <2>4 DEF GoesOn, mark
  <1> QED BY <1>6, <1>7

\* A run that succeeds has recorded every instant up to the end it reports.
LEMMA SuccessReaches ==
  ASSUME TypeOK, WorkInv, RecordedInv, GapInv, NEW a \in Attempts, CommitSuccess(a)
  PROVE  /\ origin' \in Int
         /\ origin # None => origin' = origin
         /\ \A t \in Int : origin' <= t /\ t < processed_end[a] => Recorded(dq_status, t)
  <1> DEFINE mark == ProcessedEnd(initial_state[a])
             start == windows[a][1][1]
  <1>1. /\ pc[a] = "commit" /\ Active(a) /\ HasWindows(a)
        /\ origin' = IF origin = None THEN start ELSE origin
    BY DEF CommitSuccess, Active, Working, HasWindows
  <1>2. start \in Int /\ processed_end[a] \in Int
    <2>1. windows[a] \in Seq(Int \X Int) /\ windows[a] # << >>
      BY <1>1 DEF TypeOK, WorkInv, InHand
    <2>2. windows[a][1] \in Int \X Int
      BY <2>1
    <2> QED BY <2>2 DEF TypeOK
  <1>3. origin \in Optional(Int) /\ mark \in Optional(Int)
    BY DefaultStartTyped DEF WorkInv
  <1>4. ASSUME NEW t \in Int, InWindows(windows[a], t) PROVE Recorded(dq_status, t)
    <2>1. PICK i \in 1..Len(windows[a]) : windows[a][i][1] <= t /\ t < windows[a][i][2]
      BY <1>4 DEF InWindows
    <2>2. ASSUME NEW s \in Sources
          PROVE  \E d \in dq_status : /\ d.source_table = s
                                       /\ d.window_start_ts <= t /\ t < d.window_end_ts
      <3>1. HasRow(dq_status, a, windows[a][i], s)
        BY <1>1, <2>1 DEF RecordedInv, RecordedOf, WindowsRecorded
      <3>2. PICK d \in dq_status : /\ d.source_table = s
                                   /\ << d.window_start_ts, d.window_end_ts >> = windows[a][i]
        BY <3>1 DEF HasRow
      <3>3. d.window_start_ts = windows[a][i][1] /\ d.window_end_ts = windows[a][i][2]
        BY <3>2
      <3> QED BY <2>1, <3>2, <3>3
    <2> QED BY <2>2 DEF Recorded
  <1>5. /\ mark = None => origin = None
        /\ RecordedUpTo(dq_status, origin, initial_state[a]) /\ GoesOn(a)
    BY <1>1 DEF GapInv, GapOf
  <1>6. mark # None => origin # None
    BY <1>5 DEF RecordedUpTo
  <1>7. origin' \in Int /\ (origin # None => origin' = origin)
    BY <1>1, <1>2, <1>3, <1>5, <1>6 DEF Optional
  <1>8. ASSUME NEW t \in Int, origin' <= t, t < processed_end[a] PROVE Recorded(dq_status, t)
    <2>1. CASE mark # None
      <3>1. mark \in Int /\ origin # None /\ origin' = origin /\ ReachFrom(a, mark)
        BY <1>3, <1>5, <1>6, <1>7, <2>1 DEF Optional, GoesOn
      <3>2. CASE t < mark
        BY <1>5, <1>8, <2>1, <3>1, <3>2 DEF RecordedUpTo
      <3>3. CASE mark <= t
        BY <1>4, <1>8, <3>1, <3>3 DEF ReachFrom
      <3> QED BY <3>1, <3>2, <3>3
    <2>2. CASE mark = None
      <3>1. origin' = start /\ ReachFrom(a, start)
        BY <1>1, <1>5, <2>2 DEF GoesOn
      <3> QED BY <1>4, <1>8, <3>1 DEF ReachFrom
    <2> QED BY <2>1, <2>2
  <1> QED BY <1>7, <1>8

\* Every step keeps the recorded windows reaching up to the mark of the table
\* and to the mark of every row that may still be reported.
LEMMA GapNext ==
  /\ TypeOK /\ WorkInv /\ RecordedInv /\ (AloneInv \/ InitialMark # None)
  /\ GapInv /\ [Next]_vars /\ [RequestsGoOn]_vars
  => GapInv'
  <1> SUFFICES ASSUME TypeOK, WorkInv, RecordedInv, AloneInv \/ InitialMark # None,
                      GapInv, [Next]_vars, [RequestsGoOn]_vars
               PROVE  GapInv'
    OBVIOUS
  <1>g. /\ InitialMark # None => origin # None
        /\ ProcessedEnd(pipeline_state) = None => origin = None
        /\ RecordedUpTo(dq_status, origin, pipeline_state)
    BY DEF GapInv
  <1>u. ASSUME UNCHANGED << tables, locals, origin >> PROVE GapInv'
    BY <1>g, <1>u DEF GapInv, GapOf, GoesOn, ReachFrom, Active, HasWindows, tables, locals
  <1>1. CASE Tick
    BY <1>1, <1>u DEF Tick, history
  <1>2. CASE Ingest
    BY <1>2, <1>u, Ingested DEF history
  <1>3. ASSUME NEW a \in Attempts, Script(a) PROVE GapInv'
    <2>h. GapOf(a)
      BY DEF GapInv
    <2>t. dq_status \subseteq dq_status'
      BY <1>3, TableSteps DEF TablesBy
    \* The other runs, as long as the origin stays or none of them is in flight.
    <2>b. ASSUME NEW b \in Attempts, b # a, origin' = origin \/ ~Active(b)
          PROVE  GapOf(b)'
      <3>1. /\ pc'[b] = pc[b] /\ initial_state'[b] = initial_state[b]
            /\ windows'[b] = windows[b] /\ processed_end'[b] = processed_end[b]
        BY <1>3, <2>b, OthersKept
      <3>2. GapOf(b)
        BY DEF GapInv
      <3>3. GoesOn(b) => GoesOn(b)'
        BY <3>1 DEF GoesOn, ReachFrom
      <3>4. (Active(b)' <=> Active(b)) /\ (HasWindows(b)' <=> HasWindows(b))
        BY <3>1 DEF Active, HasWindows
      <3>5. HasWindows(b) => Active(b)
        BY DEF Active, Working, HasWindows
      <3>6. RecordedUpTo(dq_status, origin, initial_state[b]) =>
              RecordedUpTo(dq_status', origin, initial_state[b])
        BY <2>t, UpToStays
      <3> QED BY <2>b, <3>1, <3>2, <3>3, <3>4, <3>5, <3>6 DEF GapOf
    \* A step that leaves the row of the table and the origin alone.
    <2>s. ASSUME UNCHANGED << pipeline_state, origin >>, GapOf(a)'
          PROVE  GapInv'
      <3>1. RecordedUpTo(dq_status', origin', pipeline_state')
        BY <1>g, <2>s, <2>t, UpToStays
      <3>2. \A b \in Attempts : GapOf(b)'
        BY <2>b, <2>s
      <3> QED BY <1>g, <2>s, <3>1, <3>2 DEF GapInv
    \* A step of a run that goes on with what it has resolved.
    <2>k. ASSUME HasWindows(a), UNCHANGED << initial_state, windows, processed_end, origin >>
          PROVE  GapOf(a)'
      <3>1. RecordedUpTo(dq_status', origin', initial_state'[a])
        <4>1. Active(a)
          BY <2>k DEF Active, Working, HasWindows
        <4>2. RecordedUpTo(dq_status, origin, initial_state[a])
          BY <4>1, <2>h DEF GapOf
        <4> QED BY <2>k, <2>t, <4>2, UpToStays
      <3>2. GoesOn(a) => GoesOn(a)'
        BY <2>k DEF GoesOn, ReachFrom
      <3>3. Active(a)
        BY <2>k DEF Active, Working, HasWindows
      <3> QED BY <2>h, <2>k, <3>1, <3>2, <3>3 DEF GapOf
    \* A run that is no longer in flight.
    <2>e. ASSUME pc'[a] \in {"succeeded", "failed", "dead"} PROVE GapOf(a)'
      BY <2>e DEF GapOf, Active, Working, HasWindows
    <2>1. CASE Start(a)
      <3>1. /\ pc'[a] = "params" /\ initial_state'[a] = pipeline_state
            /\ UNCHANGED << dq_status, pipeline_state, origin >>
        BY <2>1 DEF Start, tables, history, TypeOK
      <3>2. GapOf(a)'
        BY <1>g, <3>1 DEF GapOf, HasWindows
      <3> QED BY <3>1, <3>2, <2>s
    <2>2. ASSUME NEW wins, NEW end, Resolve(a, wins, end), GoesOn(a)'
          PROVE  GapInv'
      <3>1. /\ Active(a) /\ initial_state' = initial_state
            /\ UNCHANGED << dq_status, pipeline_state, origin >>
        BY <2>2 DEF Resolve, tables, history, Active, Working
      <3>2. GapOf(a)'
        BY <2>2, <2>h, <3>1 DEF GapOf
      <3> QED BY <3>1, <3>2, <2>s
    <2>3. CASE ResolveDefault(a)
      BY <2>3, <2>2, DefaultGoesOn DEF ResolveDefault
    <2>4. CASE ResolveManual(a)
      <3>1. PICK req \in ManualRequests : Resolve(a, req.windows, req.processed_end)
        BY <2>4 DEF ResolveManual
      <3>2. pc[a] = "params" /\ pc'[a] = "assess"
        BY <3>1 DEF Resolve, TypeOK
      <3>3. GoesOn(a)'
        BY <2>4, <3>2 DEF RequestsGoOn, vars, locals
      <3> QED BY <3>1, <3>3, <2>2
    <2>5. CASE RaiseBeforeTry(a)
      <3>1. pc'[a] = "dead" /\ UNCHANGED << pipeline_state, origin >>
        BY <2>5 DEF RaiseBeforeTry, tables, TypeOK
      <3> QED BY <3>1, <2>e, <2>s
    <2>6. CASE Assess(a)
      <3>1. /\ HasWindows(a) /\ UNCHANGED << initial_state, windows, processed_end, origin >>
            /\ pipeline_state' = pipeline_state
        BY <2>6, AssessStep DEF HasWindows, tables
      <3> QED BY <3>1, <2>k, <2>s
    <2>7. CASE AppendDqStatus(a)
      <3>1. /\ HasWindows(a) /\ UNCHANGED << initial_state, windows, processed_end, origin >>
            /\ pipeline_state' = pipeline_state
        BY <2>7 DEF AppendDqStatus, HasWindows
      <3> QED BY <3>1, <2>k, <2>s
    <2>8. CASE AppendExceptions(a)
      <3>1. /\ HasWindows(a) /\ UNCHANGED << initial_state, windows, processed_end, origin >>
            /\ pipeline_state' = pipeline_state
        BY <2>8 DEF AppendExceptions, HasWindows, history
      <3> QED BY <3>1, <2>k, <2>s
    <2>9. CASE CommitSuccess(a)
      <3>1. /\ pc'[a] = "succeeded" /\ dq_status' = dq_status
            /\ pipeline_state' = ApplySuccess(a, processed_end[a], zero_window_counts[a], clock)
            /\ Active(a)
        BY <2>9 DEF CommitSuccess, Active, Working, TypeOK
      <3>2. ProcessedEnd(pipeline_state') = processed_end[a] /\ processed_end[a] \in Int
        <4>1. processed_end[a] \in Int /\ zero_window_counts[a] \in Counts /\ clock \in Int
          BY DEF TypeOK
        <4> QED BY <3>1, <4>1, SuccessMark
      <3>3. /\ origin' \in Int /\ (origin # None => origin' = origin)
            /\ \A t \in Int : origin' <= t /\ t < processed_end[a] => Recorded(dq_status, t)
        BY <2>9, SuccessReaches
      <3>4. origin' # None /\ ProcessedEnd(pipeline_state') # None
        BY <3>2, <3>3, NoneAssumption
      <3>5. RecordedUpTo(dq_status', origin', pipeline_state')
        BY <3>1, <3>2, <3>3, <3>4 DEF RecordedUpTo
      <3>6. ASSUME NEW b \in Attempts, b # a PROVE origin' = origin \/ ~Active(b)
        <4>1. CASE origin # None
          BY <4>1, <3>3
        <4>2. CASE origin = None
          <5>1. AloneInv
            BY <1>g, <4>2
          <5> QED BY <5>1, <3>1, <3>6 DEF AloneInv
        <4> QED BY <4>1, <4>2
      <3>7. \A b \in Attempts : GapOf(b)'
        BY <2>b, <2>e, <3>1, <3>6
      <3> QED BY <1>g, <3>4, <3>5, <3>7 DEF GapInv
    <2>10. CASE Raise(a)
      <3>1. /\ HasWindows(a) /\ UNCHANGED << initial_state, windows, processed_end, origin >>
            /\ pipeline_state' = pipeline_state
        BY <2>10 DEF Raise, HasWindows, tables, history
      <3> QED BY <3>1, <2>k, <2>s
    <2>11. CASE CommitFailure(a)
      <3>1. /\ pc'[a] = "failed" /\ dq_status' = dq_status /\ origin' = origin
            /\ pipeline_state' = ApplyFailure(initial_state[a], a, clock)
            /\ Active(a)
        BY <2>11 DEF CommitFailure, Active, TypeOK
      <3>2. ProcessedEnd(pipeline_state') = ProcessedEnd(initial_state[a])
        <4>1. /\ initial_state[a] \in Optional(StateRow(Attempts, Counts))
              /\ processed_end[a] \in Int /\ zero_window_counts[a] \in Counts
              /\ clock \in Int
          BY DEF TypeOK
        <4> QED BY <3>1, <4>1, AppliedMarks
      <3>3. /\ ProcessedEnd(pipeline_state') = None => origin' = None
            /\ RecordedUpTo(dq_status', origin', pipeline_state')
        BY <2>h, <3>1, <3>2 DEF GapOf, RecordedUpTo
      <3>4. \A b \in Attempts : GapOf(b)'
        BY <2>b, <2>e, <3>1
      <3> QED BY <1>g, <3>1, <3>3, <3>4 DEF GapInv
    <2>12. CASE Kill(a)
      <3>1. pc'[a] = "dead" /\ UNCHANGED << pipeline_state, origin >>
        BY <2>12 DEF Kill, tables, TypeOK
      <3> QED BY <3>1, <2>e, <2>s
    <2> QED BY <1>3, <2>1, <2>3, <2>4, <2>5, <2>6, <2>7, <2>8, <2>9, <2>10, <2>11, <2>12
            DEF Script
  <1>4. CASE UNCHANGED vars
    BY <1>4, <1>g, <1>u DEF vars, history
  <1> QED BY <1>1, <1>2, <1>3, <1>4 DEF Next, Finished

\* The invariant of the gaps, where runs do not overlap or the pipeline has a
\* mark before the first of them.
LEMMA Gaps ==
  ASSUME MaxConcurrent <= 1 \/ InitialMark # None
  PROVE  Spec /\ [][RequestsGoOn]_vars => []GapInv
  <1>1. CASE MaxConcurrent <= 1
    <2>1. TypeOK /\ WorkInv /\ AloneInv /\ [Next]_vars => AloneInv'
      BY <1>1, AloneNext
    <2>2. /\ TypeOK /\ WorkInv /\ RecordedInv /\ AloneInv /\ GapInv
          /\ [Next]_vars /\ [RequestsGoOn]_vars
          => GapInv'
      BY GapNext
    <2> QED BY <2>1, <2>2, GapInit, Work, AloneInit, RecordedInit, RecordedNext, PTL DEF Spec
  <1>2. CASE InitialMark # None
    <2>1. TypeOK /\ WorkInv /\ RecordedInv /\ GapInv /\ [Next]_vars /\ [RequestsGoOn]_vars => GapInv'
      BY <1>2, GapNext
    <2> QED BY <2>1, GapInit, Work, RecordedInit, RecordedNext, PTL DEF Spec
  <1> QED BY <1>1, <1>2

\* No instant between the first success and the mark is missing from the windows
\* in dq_status, whatever fails, dies or is overtaken: for requests that leave
\* no instant out above the mark, and unless two runs overlap on a new workspace.
THEOREM NoGap ==
  ASSUME MaxConcurrent <= 1 \/ InitialMark # None
  PROVE  Spec /\ [][RequestsGoOn]_vars => []NoUncheckedGap
  <1>1. TypeOK /\ WorkInv /\ GapInv => NoUncheckedGap
    <2> SUFFICES ASSUME TypeOK, WorkInv, GapInv, origin # None,
                        ProcessedEnd(pipeline_state) # None, NEW s \in Sources,
                        NEW t \in origin .. ProcessedEnd(pipeline_state) - 1
                 PROVE  \E d \in dq_status : /\ d.source_table = s
                                              /\ d.window_start_ts <= t /\ t < d.window_end_ts
      BY DEF NoUncheckedGap
    <2>1. origin \in Int /\ ProcessedEnd(pipeline_state) \in Int
      BY DEF WorkInv, TypeOK, ProcessedEnd, StateRow, Optional
    <2>2. t \in Int /\ origin <= t /\ t < ProcessedEnd(pipeline_state)
      BY <2>1
    <2> QED BY <2>2 DEF GapInv, RecordedUpTo, Recorded
  <1>2. Spec => [](TypeOK /\ WorkInv)
    BY Work, PTL
  <1> QED BY <1>1, <1>2, Gaps, PTL

-----------------------------------------------------------------------------
(* Every row *)

\* Who is asked to report what ahead of the clock, and what becomes of it.
LEMMA AheadKept ==
  ASSUME TypeOK, WorkInv, CaughtInv, NEW a \in Attempts, Script(a)
  PROVE  /\ ahead' \in [Attempts -> SUBSET Int]
         /\ \A b \in Attempts \ {a} : ahead'[b] = ahead[b]
         /\ ResolveDefault(a) \/ ResolveManual(a) \/ ahead' = ahead
         /\ ReportedAhead \subseteq ReportedAhead'
  <1>t. ahead \in [Attempts -> SUBSET Int] /\ clock \in Int
    BY DEF CaughtInv, TypeOK
  <1>1. \/ ahead' = ahead
        \/ /\ ResolveDefault(a) \/ ResolveManual(a)
           /\ \E end \in Int : ahead' = [ahead EXCEPT ![a] = clock .. end - 1]
    <2>1. CASE ResolveDefault(a)
      BY <2>1, <1>t DEF ResolveDefault, Resolve
    <2>2. CASE ResolveManual(a)
      BY <2>2, GuardrailAssumption DEF ResolveManual, Resolve
    <2>3. CASE Assess(a)
      BY <2>3, AssessStep
    <2>4. CASE AppendDqStatus(a) \/ Start(a) \/ AppendExceptions(a) \/ Raise(a)
      BY <2>4 DEF AppendDqStatus, Start, AppendExceptions, Raise, history
    <2>5. CASE RaiseBeforeTry(a) \/ CommitSuccess(a) \/ CommitFailure(a) \/ Kill(a)
      BY <2>5 DEF RaiseBeforeTry, CommitSuccess, CommitFailure, Kill
    <2> QED BY <2>1, <2>2, <2>3, <2>4, <2>5 DEF Script
  <1>2. /\ ahead' \in [Attempts -> SUBSET Int]
        /\ \A b \in Attempts \ {a} : ahead'[b] = ahead[b]
    <2>1. CASE ahead' = ahead
      BY <1>t, <2>1
    <2>2. ASSUME NEW end \in Int, ahead' = [ahead EXCEPT ![a] = clock .. end - 1]
          PROVE  /\ ahead' \in [Attempts -> SUBSET Int]
                 /\ \A b \in Attempts \ {a} : ahead'[b] = ahead[b]
      <3>1. clock .. end - 1 \in SUBSET Int
        BY <1>t
      <3> QED BY <1>t, <2>2, <3>1
    <2> QED BY <1>1, <2>1, <2>2
  <1>3. ASSUME NEW b \in Attempts, pc[b] = "succeeded"
        PROVE  pc'[b] = "succeeded" /\ ahead'[b] = ahead[b]
    <2>1. a # b
      BY <1>3 DEF Script, Start, ResolveDefault, ResolveManual, Resolve, RaiseBeforeTry, Assess,
             AppendDqStatus, AppendExceptions, CommitSuccess, Raise, CommitFailure, Kill,
             Active, Working
    <2> QED BY <1>2, <1>3, <2>1, OthersKept
  <1>4. ReportedAhead \subseteq ReportedAhead'
    BY <1>3 DEF ReportedAhead
  <1> QED BY <1>1, <1>2, <1>4

\* What is below the end of a run and still to come when it is resolved, it
\* reports ahead; nothing is recorded of it yet.
LEMMA EndIsForeseen ==
  ASSUME TypeOK, WorkInv, RecordedInv, CaughtInv, NEW a \in Attempts,
         ResolveDefault(a) \/ ResolveManual(a)
  PROVE  /\ Foreseen(a)'
         /\ \A b \in Attempts \ {a} : processed_end'[b] = processed_end[b]
         /\ dq_rows[a] = << >> /\ (\A d \in dq_status : d.run_id # a)
         /\ UNCHANGED << clock, bronze, tables, initial_state, dq_rows,
                         seen, checked, origin, streak >>
  <1>1. PICK wins, end : Resolve(a, wins, end) /\ end \in Int
    <2>1. CASE ResolveDefault(a)
      BY <2>1 DEF ResolveDefault, TypeOK
    <2>2. CASE ResolveManual(a)
      BY <2>2, GuardrailAssumption DEF ResolveManual
    <2> QED BY <2>1, <2>2
  <1>2. /\ pc[a] = "params" /\ processed_end' = [processed_end EXCEPT ![a] = end]
        /\ ahead' = [ahead EXCEPT ![a] = clock .. end - 1] /\ clock' = clock
    BY <1>1 DEF Resolve
  <1>3. dq_rows[a] = << >> /\ \A d \in dq_status : d.run_id # a
    BY <1>2 DEF WorkInv, InHand, RecordedInv, RecordedOf
  <1>4. processed_end'[a] = end /\ ahead'[a] = clock .. end - 1
    BY <1>2 DEF TypeOK, CaughtInv
  <1>5. Foreseen(a)'
    <2>1. clock \in Int
      BY DEF TypeOK
    <2> QED BY <1>1, <1>2, <1>4, <2>1 DEF Foreseen
  <1> QED BY <1>1, <1>2, <1>3, <1>5 DEF Resolve, TypeOK

\* A row ingested as it is created is below the end of a run only at an instant
\* the run reported ahead.
LEMMA CaughtStays ==
  ASSUME TypeOK, NEW rows \in SUBSET DqRow, NEW assessed, CaughtUp(rows, assessed),
         MaxLag = 0, Tick \/ Ingest
  PROVE  \A d \in rows :
           /\ \A t \in Int :
                clock' <= t /\ t < processed_end[d.run_id] => t \in ahead[d.run_id]
           /\ \A r \in bronze'[d.source_table] :
                Due(d, r) => r \in assessed[d.source_table] \/ r.created_at \in ahead[d.run_id]
  <1>1. \A d \in rows : processed_end[d.run_id] \in Int /\ d.source_table \in Sources
    BY DEF DqRow, TypeOK
  <1>2. clock \in Int
    BY DEF TypeOK
  <1>3. CASE Tick
    <2>1. bronze' = bronze /\ clock' = clock + 1
      BY <1>3 DEF Tick
    <2>2. ASSUME NEW d \in rows, NEW t \in Int, clock' <= t, t < processed_end[d.run_id]
          PROVE  t \in ahead[d.run_id]
      <3>1. clock <= t
        BY <1>2, <2>1, <2>2
      <3> QED BY <2>2, <3>1 DEF CaughtUp, Foreseen
    <2> QED BY <2>1, <2>2 DEF CaughtUp
  <1>4. CASE Ingest
    <2>1. PICK s \in Sources, new \in BronzeRow :
            /\ bronze' = [bronze EXCEPT ![s] = bronze[s] \cup {new}]
            /\ clock - MaxLag <= new.created_at
      BY <1>4, Ingested
    <2>2. clock' = clock
      BY <1>4, Ingested
    <2>3. clock <= new.created_at /\ new.created_at \in Int
      BY <1>2, <2>1 DEF BronzeRow
    <2>4. ASSUME NEW d \in rows, NEW r \in bronze'[d.source_table], Due(d, r)
          PROVE  r \in assessed[d.source_table] \/ r.created_at \in ahead[d.run_id]
      <3>1. Foreseen(d.run_id) /\ d.source_table \in Sources
        BY <1>1 DEF CaughtUp
      <3>2. CASE r = new
        BY <2>3, <2>4, <3>1, <3>2 DEF Foreseen, Due
      <3>3. CASE r # new
        <4>1. r \in bronze[d.source_table]
          BY <2>1, <2>4, <3>1, <3>3 DEF TypeOK
        <4> QED BY <2>4, <4>1 DEF CaughtUp
      <3> QED BY <3>2, <3>3
    <2> QED BY <2>2, <2>4 DEF CaughtUp, Foreseen
  <1> QED BY <1>3, <1>4

\* Nothing has been assessed at the start.
LEMMA CaughtInit == Init => CaughtInv
  <1> SUFFICES ASSUME Init PROVE CaughtInv
    OBVIOUS
  <1>1. ToSet(<< >>) = {}
    BY DEF ToSet
  <1>2. \A a \in Attempts : dq_rows[a] = << >> /\ pc[a] = "idle"
    BY DEF Init
  <1>3. dq_status = {}
    BY DEF Init
  <1>4. ahead \in [Attempts -> SUBSET Int]
    BY DEF Init
  <1> QED BY <1>1, <1>2, <1>3, <1>4 DEF CaughtInv, CaughtUp, HasWindows

\* Every step keeps the assessed rows up with the ends reported: rows come as
\* they are created, and what a run reports ahead is known before it assesses.
LEMMA CaughtNext ==
  ASSUME MaxLag = 0
  PROVE  TypeOK /\ WorkInv /\ RecordedInv /\ CaughtInv /\ [Next]_vars => CaughtInv'
  <1> SUFFICES ASSUME TypeOK, WorkInv, RecordedInv, CaughtInv, [Next]_vars PROVE CaughtInv'
    OBVIOUS
  <1>r. \A a \in Attempts : dq_rows[a] \in Seq(DqRow) /\ ToSet(dq_rows[a]) \subseteq DqRow
    BY Grown DEF TypeOK, ToSet
  <1>t. clock \in Int /\ \A a \in Attempts : processed_end[a] \in Int
    BY DEF TypeOK
  <1>1. CASE Tick \/ Ingest
    <2>1. /\ UNCHANGED << tables, locals, history >>
          /\ clock' = clock \/ clock' = clock + 1
      BY <1>1, Ingested DEF Tick
    <2>2. CaughtUp(dq_status, checked)'
      <3>1. dq_status \in SUBSET DqRow /\ CaughtUp(dq_status, checked)
        BY DEF TypeOK, CaughtInv
      <3> QED BY <1>1, <2>1, <3>1, CaughtStays DEF CaughtUp, Due, Foreseen, tables, locals,
                    history
    <2>3. ASSUME NEW a \in Attempts
          PROVE  /\ HasWindows(a)' => Foreseen(a)'
                 /\ CaughtUp(ToSet(dq_rows[a]), seen[a])'
      <3>1. /\ CaughtUp(ToSet(dq_rows[a]), seen[a])
            /\ HasWindows(a) => Foreseen(a)
        BY DEF CaughtInv
      <3>2. CaughtUp(ToSet(dq_rows[a]), seen[a])'
        <4>1. ToSet(dq_rows[a]) \in SUBSET DqRow
          BY <1>r
        <4>2. \A d \in ToSet(dq_rows[a]) :
                /\ \A t \in Int :
                     clock' <= t /\ t < processed_end[d.run_id] => t \in ahead[d.run_id]
                /\ \A r \in bronze'[d.source_table] :
                     Due(d, r) => r \in seen[a][d.source_table] \/ r.created_at \in ahead[d.run_id]
          BY <1>1, <3>1, <4>1, CaughtStays
        <4>3. /\ UNCHANGED << processed_end, ahead >>
              /\ dq_rows'[a] = dq_rows[a] /\ seen'[a] = seen[a]
          BY <2>1 DEF locals, history
        <4> QED BY <4>2, <4>3 DEF CaughtUp, Due, Foreseen
      <3>3. HasWindows(a)' => Foreseen(a)'
        BY <1>t, <2>1, <3>1 DEF HasWindows, Foreseen, locals, history
      <3> QED BY <3>2, <3>3
    <2>4. ahead' \in [Attempts -> SUBSET Int]
      BY <2>1 DEF CaughtInv, history
    <2> QED BY <2>2, <2>3, <2>4 DEF CaughtInv
  <1>2. ASSUME NEW a \in Attempts, Script(a) PROVE CaughtInv'
    <2>a. /\ ahead' \in [Attempts -> SUBSET Int]
          /\ \A b \in Attempts \ {a} : ahead'[b] = ahead[b]
          /\ ResolveDefault(a) \/ ResolveManual(a) \/ ahead' = ahead
      BY <1>2, AheadKept
    <2>h. /\ HasWindows(a) => Foreseen(a)
          /\ CaughtUp(ToSet(dq_rows[a]), seen[a]) /\ CaughtUp(dq_status, checked)
          /\ \A d \in ToSet(dq_rows[a]) : d.run_id = a
      BY DEF CaughtInv, WorkInv, InHand
    <2>s. ASSUME UNCHANGED << clock, bronze >>,
                 HasWindows(a)' => Foreseen(a)',
                 CaughtUp(ToSet(dq_rows[a]), seen[a])', CaughtUp(dq_status, checked)'
          PROVE  CaughtInv'
      <3>1. ASSUME NEW b \in Attempts, b # a
            PROVE  /\ HasWindows(b)' => Foreseen(b)'
                   /\ CaughtUp(ToSet(dq_rows[b]), seen[b])'
        <4>1. /\ dq_rows'[b] = dq_rows[b] /\ seen'[b] = seen[b]
              /\ pc'[b] = pc[b] /\ processed_end'[b] = processed_end[b]
              /\ ahead'[b] = ahead[b]
          BY <1>2, <2>a, <3>1, OthersKept
        <4>2. /\ HasWindows(b) => Foreseen(b)
              /\ CaughtUp(ToSet(dq_rows[b]), seen[b])
              /\ \A d \in ToSet(dq_rows[b]) : d.run_id = b
          BY DEF CaughtInv, WorkInv, InHand
        <4> QED BY <2>s, <4>1, <4>2 DEF HasWindows, CaughtUp, Due, Foreseen
      <3> QED BY <2>a, <2>s, <3>1 DEF CaughtInv
    \* A step that assesses and records nothing, once the run has resolved its end.
    <2>n. ASSUME UNCHANGED << clock, bronze, dq_status, checked, processed_end, ahead >>,
                 HasWindows(a)' => HasWindows(a),
                 \/ dq_rows'[a] = << >>
                 \/ dq_rows'[a] = dq_rows[a] /\ seen'[a] = seen[a]
          PROVE  CaughtInv'
      <3>1. CaughtUp(dq_status, checked)'
        BY <2>h, <2>n DEF CaughtUp, Due, Foreseen
      <3>2. CaughtUp(ToSet(dq_rows[a]), seen[a])'
        <4>1. CASE dq_rows'[a] = << >>
          BY <4>1 DEF CaughtUp, ToSet
        <4>2. CASE dq_rows'[a] = dq_rows[a] /\ seen'[a] = seen[a]
          BY <2>h, <2>n, <4>2 DEF CaughtUp, Due, Foreseen
        <4> QED BY <2>n, <4>1, <4>2
      <3>3. HasWindows(a)' => Foreseen(a)'
        BY <2>h, <2>n DEF Foreseen
      <3> QED BY <2>n, <2>s, <3>1, <3>2, <3>3
    <2>1. CASE ResolveDefault(a) \/ ResolveManual(a)
      <3>1. /\ Foreseen(a)'
            /\ \A b \in Attempts \ {a} : processed_end'[b] = processed_end[b]
            /\ dq_rows[a] = << >> /\ (\A d \in dq_status : d.run_id # a)
            /\ UNCHANGED << clock, bronze, dq_status, dq_rows, checked >>
        BY <2>1, EndIsForeseen DEF tables
      <3>2. CaughtUp(ToSet(dq_rows[a]), seen[a])'
        BY <3>1 DEF CaughtUp, ToSet
      <3>3. \A d \in dq_status : d.run_id \in Attempts \ {a}
        BY <3>1 DEF TypeOK, DqRow
      <3>4. CaughtUp(dq_status, checked)'
        BY <2>a, <2>h, <3>1, <3>3 DEF CaughtUp, Due, Foreseen
      <3> QED BY <2>s, <3>1, <3>2, <3>4
    <2>2. CASE Assess(a)
      <3>1. /\ todo[a] # << >> /\ HasWindows(a)
            /\ ~ResolveDefault(a) /\ ~ResolveManual(a)
        BY <2>2 DEF Assess, HasWindows, ResolveDefault, ResolveManual, Resolve
      <3>2. Src(a) \in Sources
        BY <3>1, AssessRows
      <3>3. /\ UNCHANGED << clock, bronze, dq_status, checked, pc, processed_end, ahead >>
            /\ ToSet(dq_rows'[a]) = ToSet(dq_rows[a]) \cup {NewDq(a)}
            /\ seen'[a] = [seen[a] EXCEPT ![Src(a)] = seen[a][Src(a)] \cup Rows(a)]
        BY <2>2, AssessStep DEF tables, WorkInv
      <3>4. \A s \in Sources : seen[a][s] \subseteq seen'[a][s]
        BY <3>3 DEF WorkInv
      <3>5. Rows(a) \subseteq seen'[a][Src(a)]
        BY <3>2, <3>3 DEF WorkInv
      <3>6. ASSUME NEW d \in ToSet(dq_rows'[a])
            PROVE  /\ Foreseen(d.run_id)
                   /\ \A r \in bronze[d.source_table] :
                        Due(d, r) => \/ r \in seen'[a][d.source_table]
                                     \/ r.created_at \in ahead[d.run_id]
        <4>1. CASE d = NewDq(a)
          <5>1. /\ d.window_start_ts = Win(a)[1] /\ d.window_end_ts = Win(a)[2]
                /\ d.source_table = Src(a) /\ d.run_id = a
            BY <4>1 DEF NewDq, DqRowOf
          <5> QED BY <2>h, <3>1, <3>5, <5>1 DEF Rows, InWindow, Due
        <4>2. CASE d \in ToSet(dq_rows[a])
          <5>1. d.source_table \in Sources
            BY <1>r, <4>2 DEF DqRow
          <5> QED BY <2>h, <3>4, <4>2, <5>1 DEF CaughtUp
        <4> QED BY <3>3, <4>1, <4>2
      <3>7. CaughtUp(ToSet(dq_rows[a]), seen[a])'
        BY <3>3, <3>6 DEF CaughtUp, Due, Foreseen
      <3>8. CaughtUp(dq_status, checked)'
        BY <2>h, <3>3 DEF CaughtUp, Due, Foreseen
      <3>9. Foreseen(a)'
        BY <2>h, <3>1, <3>3 DEF Foreseen
      <3> QED BY <2>s, <3>3, <3>7, <3>8, <3>9
    <2>3. CASE AppendDqStatus(a)
      <3>1. /\ dq_status' = dq_status \cup ToSet(dq_rows[a]) /\ HasWindows(a)
            /\ checked' = [s \in Sources |-> checked[s] \cup seen[a][s]]
            /\ UNCHANGED << clock, bronze, processed_end, dq_rows, seen, ahead >>
        BY <2>3 DEF AppendDqStatus, HasWindows
      <3>2. \A d \in dq_status' : d.source_table \in Sources
        BY <1>r, <3>1 DEF TypeOK, DqRow
      <3>3. CaughtUp(dq_status, checked)'
        BY <2>h, <3>1, <3>2 DEF CaughtUp, Due, Foreseen
      <3>4. CaughtUp(ToSet(dq_rows[a]), seen[a])'
        BY <2>h, <3>1 DEF CaughtUp, Due, Foreseen
      <3>5. Foreseen(a)'
        BY <2>h, <3>1 DEF Foreseen
      <3> QED BY <2>s, <3>1, <3>3, <3>4, <3>5
    <2>4. CASE Start(a) \/ AppendExceptions(a) \/ Raise(a)
      <3>1. UNCHANGED << clock, bronze, dq_status, checked, processed_end, dq_rows, seen,
                         ahead >>
        BY <2>4 DEF Start, AppendExceptions, Raise, tables, history
      <3>2. HasWindows(a)' => HasWindows(a)
        BY <2>4 DEF Start, AppendExceptions, Raise, HasWindows, TypeOK
      <3> QED BY <2>n, <3>1, <3>2
    <2>5. CASE RaiseBeforeTry(a) \/ CommitSuccess(a) \/ CommitFailure(a) \/ Kill(a)
      <3>1. /\ UNCHANGED << clock, bronze, dq_status, checked, processed_end, ahead >>
            /\ dq_rows'[a] = << >>
        BY <2>5, Forgotten DEF RaiseBeforeTry, CommitSuccess, CommitFailure, Kill, tables
      <3>2. ~HasWindows(a)'
        BY <2>5 DEF RaiseBeforeTry, CommitSuccess, CommitFailure, Kill, HasWindows, TypeOK
      <3> QED BY <2>n, <3>1, <3>2
    <2> QED BY <1>2, <2>1, <2>2, <2>3, <2>4, <2>5 DEF Script
  <1>3. CASE UNCHANGED vars
    BY <1>3 DEF CaughtInv, CaughtUp, Due, Foreseen, HasWindows, vars, tables, locals, history
  <1> QED BY <1>1, <1>2, <1>3 DEF Next, Finished

\* A mark stays seen up to as time passes and rows come as they are created.
LEMMA SeenStays ==
  ASSUME TypeOK, MaxLag = 0, Tick \/ Ingest,
         NEW row \in Optional(StateRow(Attempts, Counts)), SeenUpTo(row)
  PROVE  SeenUpTo(row)'
  <1> DEFINE mark == ProcessedEnd(row)
  <1>1. mark \in Optional(Int) /\ clock \in Int
    BY DEF ProcessedEnd, StateRow, Optional, TypeOK
  <1>2. mark # None =>
          /\ \A t \in Int : clock <= t /\ t < mark => t \in ReportedAhead
          /\ \A s \in Sources : \A r \in bronze[s] :
               origin <= r.created_at /\ r.created_at < mark =>
                 r \in checked[s] \/ r.created_at \in ReportedAhead
    BY DEF SeenUpTo
  <1>h. checked' = checked /\ origin' = origin /\ ReportedAhead' = ReportedAhead
    <2>1. UNCHANGED << locals, history >>
      BY Ingested DEF Tick
    <2> QED BY <2>1 DEF locals, history, ReportedAhead
  <1> SUFFICES ASSUME mark # None
               PROVE  /\ \A t \in Int : clock' <= t /\ t < mark => t \in ReportedAhead
                      /\ \A s \in Sources : \A r \in bronze'[s] :
                           origin <= r.created_at /\ r.created_at < mark =>
                             r \in checked[s] \/ r.created_at \in ReportedAhead
    BY <1>h DEF SeenUpTo
  <1> HIDE DEF mark
  <1>m. mark \in Int
    BY <1>1 DEF Optional
  <1>3. CASE Tick
    <2>1. bronze' = bronze /\ clock' = clock + 1
      BY <1>3 DEF Tick
    <2>2. \A t \in Int : clock' <= t => clock <= t
      BY <1>1, <2>1
    <2> QED BY <1>2, <2>1, <2>2
  <1>4. CASE Ingest
    <2>1. PICK s \in Sources, new \in BronzeRow :
            /\ bronze' = [bronze EXCEPT ![s] = bronze[s] \cup {new}]
            /\ clock - MaxLag <= new.created_at
      BY <1>4, Ingested
    <2>2. clock' = clock
      BY <1>4, Ingested
    <2>3. clock <= new.created_at /\ new.created_at \in Int
      BY <1>1, <2>1 DEF BronzeRow
    <2>4. ASSUME NEW z \in Sources, NEW r \in bronze'[z],
                 origin <= r.created_at, r.created_at < mark
          PROVE  r \in checked[z] \/ r.created_at \in ReportedAhead
      <3>1. CASE r = new
        BY <1>2, <2>3, <2>4, <3>1
      <3>2. CASE r # new
        <4>1. r \in bronze[z]
          BY <2>1, <2>4, <3>2 DEF TypeOK
        <4> QED BY <1>2, <2>4, <4>1
      <3> QED BY <3>1, <3>2
    <2> QED BY <1>2, <2>2, <2>4
  <1> QED BY <1>3, <1>4

\* A run that succeeds leaves every row up to the end it reports checked, but for
\* those created at instants some run reported ahead.
LEMMA SuccessSees ==
  ASSUME TypeOK, WorkInv, RecordedInv, GapInv, CaughtInv, SeenInv,
         NEW a \in Attempts, CommitSuccess(a)
  PROVE  /\ \A t \in Int : clock <= t /\ t < processed_end[a] => t \in ReportedAhead'
         /\ \A s \in Sources : \A r \in bronze[s] :
              origin' <= r.created_at /\ r.created_at < processed_end[a] =>
                r \in checked[s] \/ r.created_at \in ReportedAhead'
  <1> DEFINE mark == ProcessedEnd(initial_state[a])
             start == windows[a][1][1]
  <1>1. /\ pc[a] = "commit" /\ Active(a) /\ HasWindows(a)
        /\ origin' = IF origin = None THEN start ELSE origin
    BY DEF CommitSuccess, Active, Working, HasWindows
  <1>2. /\ mark = None => origin = None
        /\ RecordedUpTo(dq_status, origin, initial_state[a]) /\ GoesOn(a)
        /\ SeenUpTo(initial_state[a]) /\ Foreseen(a)
    BY <1>1 DEF GapInv, GapOf, CaughtInv, SeenInv
  <1>a. ahead[a] \subseteq ReportedAhead' /\ ReportedAhead \subseteq ReportedAhead'
    <2>1. ReportedAhead \subseteq ReportedAhead'
      BY AheadKept DEF Script
    <2>2. pc'[a] = "succeeded" /\ ahead' = ahead
      BY DEF CommitSuccess, TypeOK
    <2> QED BY <2>1, <2>2 DEF ReportedAhead
  <1>3. mark # None => origin # None
    BY <1>2 DEF RecordedUpTo
  <1>4. mark \in Optional(Int)
    BY DefaultStartTyped
  <1>5. ASSUME NEW s \in Sources, NEW r \in bronze[s], InWindows(windows[a], r.created_at),
               r.created_at < processed_end[a]
        PROVE  r \in checked[s] \/ r.created_at \in ReportedAhead'
    <2>1. PICK i \in 1..Len(windows[a]) :
            windows[a][i][1] <= r.created_at /\ r.created_at < windows[a][i][2]
      BY <1>5 DEF InWindows
    <2>2. HasRow(dq_status, a, windows[a][i], s)
      BY <1>1, <2>1 DEF RecordedInv, RecordedOf, WindowsRecorded
    <2>3. PICK d \in dq_status : /\ d.source_table = s /\ d.run_id = a
                                 /\ << d.window_start_ts, d.window_end_ts >> = windows[a][i]
      BY <2>2 DEF HasRow
    <2>4. d.window_start_ts = windows[a][i][1] /\ d.window_end_ts = windows[a][i][2]
      BY <2>3
    <2>5. Due(d, r)
      BY <1>5, <2>1, <2>3, <2>4 DEF Due
    <2> QED BY <1>5, <1>a, <2>3, <2>5 DEF CaughtInv, CaughtUp
  <1>6. ASSUME NEW s \in Sources, NEW r \in bronze[s], origin' <= r.created_at,
               r.created_at < processed_end[a]
        PROVE  r \in checked[s] \/ r.created_at \in ReportedAhead'
    <2>t. r.created_at \in Int
      BY DEF TypeOK, BronzeRow
    <2>1. CASE mark # None
      <3>1. mark \in Int /\ origin' = origin /\ ReachFrom(a, mark)
        BY <1>1, <1>2, <1>3, <1>4, <2>1 DEF Optional, GoesOn
      <3>2. CASE r.created_at < mark
        BY <1>2, <1>6, <1>a, <2>1, <3>1, <3>2 DEF SeenUpTo
      <3>3. CASE mark <= r.created_at
        BY <1>5, <1>6, <2>t, <3>1, <3>3 DEF ReachFrom
      <3> QED BY <2>t, <3>1, <3>2, <3>3
    <2>2. CASE mark = None
      <3>1. origin' = start /\ ReachFrom(a, start)
        BY <1>1, <1>2, <2>2 DEF GoesOn
      <3> QED BY <1>5, <1>6, <2>t, <3>1 DEF ReachFrom
    <2> QED BY <2>1, <2>2
  <1> QED BY <1>2, <1>6, <1>a DEF Foreseen

\* No row has been ingested at the start.
LEMMA SeenInit == Init => SeenInv
  <1> SUFFICES ASSUME Init PROVE SeenInv
    OBVIOUS
  <1>1. ProcessedEnd(pipeline_state) = InitialMark
    BY InitialMarkRead
  <1>2. ASSUME InitialMark # None, NEW t \in Int, clock <= t, t < InitialMark
        PROVE  t \in ReportedAhead
    <2>1. InitialMark \in Int /\ InitialMark <= clock /\ clock \in Int
      BY <1>2, GuardrailAssumption DEF Init, Optional
    <2> QED BY <1>2, <2>1
  <1>3. \A a \in Attempts : ~Active(a)
    BY DEF Init, Active, Working
  <1>4. \A s \in Sources : bronze[s] = {}
    BY DEF Init
  <1> QED BY <1>1, <1>2, <1>3, <1>4 DEF SeenInv, SeenUpTo

\* Every step keeps the rows checked up to the mark of the table and to the mark
\* of every row that may still be reported.
LEMMA SeenNext ==
  ASSUME MaxLag = 0
  PROVE  /\ TypeOK /\ WorkInv /\ RecordedInv /\ (AloneInv \/ InitialMark # None)
         /\ GapInv /\ CaughtInv /\ SeenInv /\ [Next]_vars
         => SeenInv'
  <1> SUFFICES ASSUME TypeOK, WorkInv, RecordedInv, AloneInv \/ InitialMark # None,
                      GapInv, CaughtInv, SeenInv, [Next]_vars
               PROVE  SeenInv'
    OBVIOUS
  <1>1. CASE Tick \/ Ingest
    <2>1. UNCHANGED << tables, locals, history >>
      BY <1>1, Ingested DEF Tick
    <2>2. SeenUpTo(pipeline_state)'
      <3>1. pipeline_state \in Optional(StateRow(Attempts, Counts)) /\ SeenUpTo(pipeline_state)
        BY DEF TypeOK, SeenInv
      <3>2. pipeline_state' = pipeline_state
        BY <2>1 DEF tables
      <3> QED BY <1>1, <3>1, <3>2, SeenStays DEF SeenUpTo
    <2>3. ASSUME NEW a \in Attempts, Active(a)' PROVE SeenUpTo(initial_state[a])'
      <3>1. Active(a) /\ initial_state' = initial_state
        BY <2>1, <2>3 DEF Active, locals
      <3>2. initial_state[a] \in Optional(StateRow(Attempts, Counts)) /\ SeenUpTo(initial_state[a])
        BY <3>1 DEF TypeOK, SeenInv
      <3> QED BY <1>1, <3>1, <3>2, SeenStays DEF SeenUpTo
    <2> QED BY <2>2, <2>3 DEF SeenInv
  <1>2. ASSUME NEW a \in Attempts, Script(a) PROVE SeenInv'
    <2>a. ReportedAhead \subseteq ReportedAhead'
      BY <1>2, AheadKept
    <2>c. /\ UNCHANGED << clock, bronze >>
          /\ \A s \in Sources : checked[s] \subseteq checked'[s]
      <3>1. CASE Assess(a)
        BY <3>1, AssessStep
      <3>2. CASE AppendDqStatus(a)
        BY <3>2 DEF AppendDqStatus
      <3>3. ~Assess(a) /\ ~AppendDqStatus(a) => UNCHANGED << clock, bronze, checked >>
        BY <1>2 DEF Script, Start, ResolveDefault, ResolveManual, Resolve, RaiseBeforeTry,
               AppendExceptions, CommitSuccess, Raise, CommitFailure, Kill, history
      <3> QED BY <3>1, <3>2, <3>3
    <2>k. ASSUME NEW row, SeenUpTo(row), origin' = origin
          PROVE  ProcessedEnd(row) # None =>
                   /\ \A t \in Int : clock' <= t /\ t < ProcessedEnd(row) => t \in ReportedAhead'
                   /\ \A s \in Sources : \A r \in bronze'[s] :
                        origin' <= r.created_at /\ r.created_at < ProcessedEnd(row) =>
                          r \in checked'[s] \/ r.created_at \in ReportedAhead'
      BY <2>a, <2>c, <2>k DEF SeenUpTo
    \* The other runs, as long as the origin stays or none of them is in flight.
    <2>b. ASSUME NEW b \in Attempts, b # a, origin' = origin \/ ~Active(b), Active(b)'
          PROVE  SeenUpTo(initial_state[b])'
      <3>1. pc'[b] = pc[b] /\ initial_state'[b] = initial_state[b]
        BY <1>2, <2>b, OthersKept
      <3>2. Active(b) /\ SeenUpTo(initial_state[b])
        BY <2>b, <3>1 DEF Active, SeenInv
      <3> QED BY <2>b, <2>k, <3>1, <3>2 DEF SeenUpTo
    \* A step that leaves the origin alone, and reports or reads a row seen up to.
    <2>s. ASSUME origin' = origin, SeenUpTo(pipeline_state)',
                 Active(a)' => SeenUpTo(initial_state[a])'
          PROVE  SeenInv'
      BY <2>b, <2>s DEF SeenInv
    <2>p. ASSUME origin' = origin, pipeline_state' = pipeline_state PROVE SeenUpTo(pipeline_state)'
      <3>1. SeenUpTo(pipeline_state)
        BY DEF SeenInv
      <3> QED BY <2>k, <2>p, <3>1 DEF SeenUpTo
    <2>1. CASE Start(a)
      <3>1. /\ origin' = origin /\ pipeline_state' = pipeline_state
            /\ initial_state'[a] = pipeline_state
        BY <2>1 DEF Start, tables, history, TypeOK
      <3>2. SeenUpTo(pipeline_state)'
        BY <2>p, <3>1
      <3> QED BY <2>s, <3>1, <3>2 DEF SeenUpTo
    <2>2. CASE \/ ResolveDefault(a) \/ ResolveManual(a) \/ Assess(a)
               \/ AppendDqStatus(a) \/ AppendExceptions(a) \/ Raise(a)
      <3>1. /\ Active(a) /\ origin' = origin /\ pipeline_state' = pipeline_state
            /\ initial_state' = initial_state
        <4>1. CASE ResolveDefault(a) \/ ResolveManual(a)
          BY <4>1 DEF ResolveDefault, ResolveManual, Resolve, Active, Working, tables, history
        <4>2. CASE Assess(a)
          <5>1. pc[a] = "assess"
            BY <4>2 DEF Assess
          <5> QED BY <4>2, <5>1, AssessStep DEF Active, Working, tables
        <4>3. CASE AppendDqStatus(a) \/ AppendExceptions(a) \/ Raise(a)
          BY <4>3 DEF AppendDqStatus, AppendExceptions, Raise, Active, Working, tables, history
        <4> QED BY <2>2, <4>1, <4>2, <4>3
      <3>2. SeenUpTo(initial_state[a])
        BY <3>1 DEF SeenInv
      <3>3. SeenUpTo(initial_state[a])'
        BY <2>k, <3>1, <3>2 DEF SeenUpTo
      <3> QED BY <2>p, <2>s, <3>1, <3>3
    <2>3. CASE CommitSuccess(a)
      <3>1. /\ pipeline_state' = ApplySuccess(a, processed_end[a], zero_window_counts[a], clock)
            /\ Active(a) /\ ~Active(a)'
        BY <2>3 DEF CommitSuccess, Active, Working, TypeOK
      <3>2. ProcessedEnd(pipeline_state') = processed_end[a]
        <4>1. processed_end[a] \in Int /\ zero_window_counts[a] \in Counts /\ clock \in Int
          BY DEF TypeOK
        <4> QED BY <3>1, <4>1, SuccessMark
      <3>3. /\ \A t \in Int : clock <= t /\ t < processed_end[a] => t \in ReportedAhead'
            /\ \A s \in Sources : \A r \in bronze[s] :
                 origin' <= r.created_at /\ r.created_at < processed_end[a] =>
                   r \in checked[s] \/ r.created_at \in ReportedAhead'
        BY <2>3, SuccessSees
      <3>4. SeenUpTo(pipeline_state)'
        BY <2>c, <3>2, <3>3 DEF SeenUpTo
      <3>5. ASSUME NEW b \in Attempts, b # a PROVE origin' = origin \/ ~Active(b)
        <4>1. CASE origin # None
          BY <2>3, <4>1 DEF CommitSuccess
        <4>2. CASE origin = None
          <5>1. AloneInv
            BY <4>2 DEF GapInv
          <5> QED BY <5>1, <3>1, <3>5 DEF AloneInv
        <4> QED BY <4>1, <4>2
      <3> QED BY <2>b, <3>1, <3>4, <3>5 DEF SeenInv
    <2>4. CASE CommitFailure(a)
      <3>1. /\ pipeline_state' = ApplyFailure(initial_state[a], a, clock)
            /\ Active(a) /\ ~Active(a)' /\ origin' = origin
        BY <2>4 DEF CommitFailure, Active, Working, TypeOK
      <3>2. ProcessedEnd(pipeline_state') = ProcessedEnd(initial_state[a])
        <4>1. /\ initial_state[a] \in Optional(StateRow(Attempts, Counts))
              /\ processed_end[a] \in Int /\ zero_window_counts[a] \in Counts
              /\ clock \in Int
          BY DEF TypeOK
        <4> QED BY <3>1, <4>1, AppliedMarks
      <3>3. SeenUpTo(initial_state[a])
        BY <3>1 DEF SeenInv
      <3>4. SeenUpTo(pipeline_state)'
        BY <2>k, <3>1, <3>2, <3>3 DEF SeenUpTo
      <3> QED BY <2>s, <3>1, <3>4
    <2>5. CASE RaiseBeforeTry(a) \/ Kill(a)
      <3>1. ~Active(a)' /\ origin' = origin /\ pipeline_state' = pipeline_state
        BY <2>5 DEF RaiseBeforeTry, Kill, Active, Working, tables, TypeOK
      <3> QED BY <2>p, <2>s, <3>1
    <2> QED BY <1>2, <2>1, <2>2, <2>3, <2>4, <2>5 DEF Script
  <1>3. CASE UNCHANGED vars
    BY <1>3 DEF SeenInv, SeenUpTo, ReportedAhead, Active, vars, tables, locals, history
  <1> QED BY <1>1, <1>2, <1>3 DEF Next, Finished

\* Every bronze row created between the first success and the mark was assessed
\* by a run whose rows are committed, but for rows created at instants that a run
\* with a future end reported before they came: where in addition rows arrive as
\* they are created.  The run guardrail_late_rows shows that rows that arrive late
\* are missed.
THEOREM EveryRow ==
  ASSUME MaxConcurrent <= 1 \/ InitialMark # None, MaxLag = 0
  PROVE  Spec /\ [][RequestsGoOn]_vars => []EveryRowChecked
  <1>1. SeenInv => EveryRowChecked
    BY DEF SeenInv, SeenUpTo, EveryRowChecked
  <1>2. TypeOK /\ WorkInv /\ RecordedInv /\ CaughtInv /\ [Next]_vars => CaughtInv'
    BY CaughtNext
  <1>3. CASE MaxConcurrent <= 1
    <2>1. TypeOK /\ WorkInv /\ AloneInv /\ [Next]_vars => AloneInv'
      BY <1>3, AloneNext
    <2>2. /\ TypeOK /\ WorkInv /\ RecordedInv /\ AloneInv
          /\ GapInv /\ CaughtInv /\ SeenInv /\ [Next]_vars
          => SeenInv'
      BY SeenNext
    <2> QED BY <1>1, <1>2, <2>1, <2>2, Gaps, Work, AloneInit, RecordedInit, RecordedNext,
               CaughtInit, SeenInit, PTL DEF Spec
  <1>4. CASE InitialMark # None
    <2>1. /\ TypeOK /\ WorkInv /\ RecordedInv
          /\ GapInv /\ CaughtInv /\ SeenInv /\ [Next]_vars
          => SeenInv'
      BY <1>4, SeenNext
    <2> QED BY <1>1, <1>2, <2>1, Gaps, Work, RecordedInit, RecordedNext,
               CaughtInit, SeenInit, PTL DEF Spec
  <1> QED BY <1>3, <1>4

-----------------------------------------------------------------------------
(* The plain Python statement of the assessment *)

\* A list of n different rows.
IsList(records, n) ==
  /\ records \in [1..n -> Range(records)]
  /\ \A i, j \in 1..n : records[i] = records[j] => i = j
  /\ \A i \in 1..n : records[i].created_at \in Int /\ records[i].ingested_at \in Int

RowsAt(records, s) == { records[i] : i \in s }

\* Counting rows is counting their positions.
LEMMA PositionsCounted ==
  ASSUME NEW n \in Nat, NEW records, IsList(records, n), NEW s \in SUBSET (1..n)
  PROVE  /\ IsFiniteSet(s) /\ Cardinality(s) \in Nat
         /\ Cardinality(RowsAt(records, s)) = Cardinality(s)
  <1> DEFINE T == RowsAt(records, s)
             f == [i \in s |-> records[i]]
  <1>1. IsFiniteSet(s)
    <2>1. IsFiniteSet(1..n)
      BY FS_Interval
    <2> QED BY <2>1, FS_Subset
  <1>2. f \in Surjection(s, T) /\ f \in Injection(s, T)
    BY DEF Surjection, Injection, IsInjective, IsList, RowsAt
  <1>3. Cardinality(T) = Cardinality(s)
    <2> HIDE DEF T, f
    <2> QED BY <1>1, <1>2, FS_Surjection
  <1>4. Cardinality(s) \in Nat
    BY <1>1, FS_CardinalityType
  <1> QED BY <1>1, <1>3, <1>4

\* The greatest of some numbers.
LEMMA GreatestIs ==
  ASSUME NEW S \in SUBSET Int, NEW x \in S, \A y \in S : y <= x
  PROVE  MaxOf(S) = x
  <1>1. MaxOf(S) \in S /\ \A y \in S : y <= MaxOf(S)
    BY DEF MaxOf
  <1>2. x <= MaxOf(S) /\ MaxOf(S) <= x /\ x \in Int /\ MaxOf(S) \in Int
    BY <1>1
  <1> QED BY <1>2

\* The timestamps at some positions, and the newest of them.
Stamps(records, s) ==
  { records[i].created_at : i \in s } \cup { records[i].ingested_at : i \in s }
NewestOf(records, s) == IF s = {} THEN None ELSE MaxOf(Stamps(records, s))

\* There is a newest one.
LEMMA NewestThere ==
  ASSUME NEW n \in Nat, NEW records, IsList(records, n), NEW s \in SUBSET (1..n), s # {}
  PROVE  /\ Stamps(records, s) \in SUBSET Int
         /\ NewestOf(records, s) \in Stamps(records, s)
         /\ \A t \in Stamps(records, s) : t <= NewestOf(records, s)
  <1> DEFINE S == Stamps(records, s)
             created == [i \in s |-> records[i].created_at]
             ingested == [i \in s |-> records[i].ingested_at]
  <1>1. S \in SUBSET Int /\ S # {}
    <2>1. \A i \in s : records[i].created_at \in Int /\ records[i].ingested_at \in Int
      BY DEF IsList
    <2>2. PICK i \in s : TRUE
      OBVIOUS
    <2>3. records[i].created_at \in S
      BY DEF Stamps
    <2> QED BY <2>1, <2>3 DEF Stamps
  <1>2. IsFiniteSet(S)
    <2>1. IsFiniteSet(s)
      BY PositionsCounted
    <2>2. IsFiniteSet({ created[i] : i \in s }) /\ IsFiniteSet({ ingested[i] : i \in s })
      <3> HIDE DEF created, ingested
      <3> QED BY <2>1, FiniteImage
    <2>3. S = { created[i] : i \in s } \cup { ingested[i] : i \in s }
      BY DEF Stamps
    <2> HIDE DEF created, ingested
    <2> QED BY <2>2, <2>3, FS_Union
  <1> HIDE DEF S
  <1>3. PICK x \in S : \A y \in S : y <= x
    BY <1>1, <1>2, GreatestExists
  <1>4. MaxOf(S) = x
    BY <1>1, <1>3, GreatestIs
  <1> QED BY <1>1, <1>3, <1>4 DEF NewestOf, S

\* The newer of a number, if there is one, and another.
LEMMA NewerOf ==
  ASSUME NEW x \in Optional(Int), NEW t \in Int
  PROVE  /\ Newest(x, t) \in Int /\ t <= Newest(x, t) /\ (x # None => x <= Newest(x, t))
         /\ Newest(x, t) = t \/ (x # None /\ Newest(x, t) = x)
  <1>1. t # None
    BY NoneAssumption
  <1> QED BY <1>1 DEF Newest, Optional

\* One more record takes the newest timestamp one step on.
LEMMA NewestGrows ==
  ASSUME NEW n \in Nat, NEW records, IsList(records, n),
         NEW s \in SUBSET (1..n), NEW m \in s
  PROVE  NewestOf(records, s) = NewestAfter(NewestOf(records, s \ {m}), records[m])
  <1> DEFINE rest == s \ {m}
             old == NewestOf(records, rest)
             c == records[m].created_at
             i == records[m].ingested_at
             mid == Newest(old, c)
             new == Newest(mid, i)
  <1>1. c \in Int /\ i \in Int
    BY DEF IsList
  <1>2. Stamps(records, s) = Stamps(records, rest) \cup {c, i}
    BY DEF Stamps
  <1>3. rest = {} => old = None /\ Stamps(records, rest) = {}
    BY DEF NewestOf, Stamps
  <1>4. rest # {} => /\ Stamps(records, rest) \in SUBSET Int
                     /\ old \in Stamps(records, rest)
                     /\ \A t \in Stamps(records, rest) : t <= old
    <2> SUFFICES ASSUME rest # {}
                 PROVE  /\ Stamps(records, rest) \in SUBSET Int
                        /\ old \in Stamps(records, rest)
                        /\ \A t \in Stamps(records, rest) : t <= old
      OBVIOUS
    <2>1. rest \in SUBSET (1..n)
      OBVIOUS
    <2> HIDE DEF rest
    <2> QED BY <2>1, NewestThere
  <1> HIDE DEF rest, old, c, i
  <1>5. old \in Optional(Int) /\ (rest # {} => old # None)
    <2>1. CASE rest = {}
      BY <1>3, <2>1 DEF Optional
    <2>2. CASE rest # {}
      <3>1. old \in Int
        BY <1>4, <2>2
      <3> QED BY <2>2, <3>1, NoneAssumption DEF Optional
    <2> QED BY <2>1, <2>2
  <1>6. /\ mid \in Int /\ c <= mid /\ (old # None => old <= mid)
        /\ mid = c \/ (old # None /\ mid = old)
    BY <1>1, <1>5, NewerOf
  <1> HIDE DEF mid
  <1>7. /\ new \in Int /\ i <= new /\ mid <= new
        /\ new = i \/ new = mid
    <2>1. mid \in Optional(Int) /\ mid # None
      BY <1>6, NoneAssumption DEF Optional
    <2> QED BY <1>1, <2>1, NewerOf
  <1> HIDE DEF new
  <1>8. Stamps(records, s) \in SUBSET Int
    BY <1>1, <1>2, <1>3, <1>4
  <1>9. new \in Stamps(records, s) /\ \A t \in Stamps(records, s) : t <= new
    <2>1. rest # {} => old \in Int
      BY <1>4
    <2>2. new \in Stamps(records, s)
      BY <1>2, <1>3, <1>4, <1>6, <1>7
    <2>3. \A t \in Stamps(records, rest) : t <= new
      <3> SUFFICES ASSUME NEW t \in Stamps(records, rest) PROVE t <= new
        OBVIOUS
      <3>1. rest # {} /\ t \in Int /\ old \in Int /\ t <= old
        BY <1>3, <1>4
      <3>2. old <= mid
        BY <1>5, <1>6, <3>1
      <3> QED BY <1>6, <1>7, <3>1, <3>2
    <2>4. c <= new /\ i <= new
      BY <1>1, <1>6, <1>7
    <2> QED BY <1>2, <2>2, <2>3, <2>4
  <1>10. MaxOf(Stamps(records, s)) = new
    BY <1>8, <1>9, GreatestIs
  <1>11. NewestOf(records, s) = new
    BY <1>10 DEF NewestOf
  <1> QED BY <1>11 DEF new, mid, old, c, i, rest, NewestAfter

\* The metric of freshness.
LEMMA FreshnessTwins ==
  ASSUME NEW n \in Nat, NEW records, IsList(records, n), NEW now
  PROVE  ComputeFreshnessSec(records, now) = FreshnessSec(Range(records), now)
  <1> DEFINE S == 1..n
             pick == [s \in SUBSET S |-> Max(s)]
             g == [s \in SUBSET S |-> NewestOf(records, s)]
             Body(h) == [s \in SUBSET S |->
               IF s = {} THEN None ELSE NewestAfter(h[s \ {Max(s)}], records[Max(s)])]
  <1>1. IsFiniteSet(S) /\ DOMAIN records = S
    BY FS_Interval DEF IsList
  <1>2. \A s \in SUBSET S : s # {} => Max(s) \in s /\ s \ {Max(s)} \in SUBSET S
    BY LastPosition
  <1>3. g[{}] = None
    BY DEF NewestOf
  <1>4. \A s \in SUBSET S : s # {} => g[s] = NewestAfter(g[s \ {Max(s)}], records[Max(s)])
    <2> SUFFICES ASSUME NEW s \in SUBSET S, s # {}
                 PROVE  g[s] = NewestAfter(g[s \ {Max(s)}], records[Max(s)])
      OBVIOUS
    <2>1. PICK m \in s : m = Max(s)
      BY <1>2
    <2>2. NewestOf(records, s) = NewestAfter(NewestOf(records, s \ {m}), records[m])
      BY NewestGrows
    <2> QED BY <1>2, <2>1, <2>2
  <1>5. g = Body(g)
    <2> HIDE DEF S
    <2> QED BY <1>3, <1>4
  <1>6. ASSUME NEW h, h = Body(h) PROVE h[S] = g[S]
    <2>1. \A s \in SUBSET S :
            h[s] = IF s = {} THEN None ELSE NewestAfter(h[s \ {Max(s)}], records[Max(s)])
      <3> HIDE DEF S
      <3> QED BY <1>6
    <2> HIDE DEF g, S
    <2>2. Follows(h, g, S, pick)
      BY <1>2, <1>3, <1>4, <2>1 DEF Follows
    <2> HIDE DEF pick
    <2>3. \A s \in SUBSET S : h[s] = g[s]
      BY <1>1, <2>2, SameFold
    <2> QED BY <2>3
  <1> DEFINE fold == (CHOOSE h : h = Body(h))[S]
  <1>7. ComputeFreshnessSec(records, now) = IF fold = None THEN None ELSE << now - fold, 1 >>
    BY <1>1 DEF ComputeFreshnessSec, FoldLeft, MapThenFoldSet
  <1>8. fold = g[S]
    <2> DEFINE h == CHOOSE h : h = Body(h)
    <2>1. h = Body(h)
      <3> HIDE DEF Body
      <3> QED BY <1>5
    <2> HIDE DEF h, Body, S
    <2> QED BY <1>6, <2>1 DEF h
  <1>9. g[S] = NewestOf(records, S)
    OBVIOUS
  <1>10. Range(records) = { records[i] : i \in S }
    BY <1>1 DEF Range
  <1> HIDE DEF fold, g
  <1>11. CASE S = {}
    BY <1>7, <1>8, <1>9, <1>10, <1>11 DEF NewestOf, FreshnessSec
  <1>12. CASE S # {}
    <2>1. { r.created_at : r \in Range(records) } \cup { r.ingested_at : r \in Range(records) }
            = Stamps(records, S)
      BY <1>10 DEF Stamps
    <2>2. NewestOf(records, S) \in Int
      BY <1>12, NewestThere
    <2>3. NewestOf(records, S) # None /\ Range(records) # {}
      BY <1>10, <1>12, <2>2, NoneAssumption
    <2> HIDE DEF S
    <2> QED BY <1>7, <1>8, <1>9, <1>12, <2>1, <2>3 DEF NewestOf, FreshnessSec
  <1> QED BY <1>11, <1>12

\* The counters after some positions.
KeyedAt(records, s) == { i \in s : records[i].key # None }
KeysAt(records, s) == { records[i].key : i \in KeyedAt(records, s) }
CountedAt(records, s) ==
  [seen |-> KeysAt(records, s), total |-> Cardinality(KeyedAt(records, s)),
   duplicates |-> Cardinality(KeyedAt(records, s)) - Cardinality(KeysAt(records, s))]

\* Their sets are finite.
LEMMA KeysCounted ==
  ASSUME NEW n \in Nat, NEW records, IsList(records, n), NEW s \in SUBSET (1..n)
  PROVE  /\ IsFiniteSet(KeyedAt(records, s)) /\ Cardinality(KeyedAt(records, s)) \in Nat
         /\ IsFiniteSet(KeysAt(records, s)) /\ Cardinality(KeysAt(records, s)) \in Nat
  <1> DEFINE keyed == KeyedAt(records, s)
             f == [i \in keyed |-> records[i].key]
  <1>1. keyed \in SUBSET (1..n)
    BY DEF KeyedAt
  <1>2. KeysAt(records, s) = { f[i] : i \in keyed }
    BY DEF KeysAt
  <1> HIDE DEF keyed, f
  <1>3. IsFiniteSet(keyed) /\ Cardinality(keyed) \in Nat
    BY <1>1, PositionsCounted
  <1>4. IsFiniteSet({ f[i] : i \in keyed })
    BY <1>3, FiniteImage
  <1>5. Cardinality({ f[i] : i \in keyed }) \in Nat
    BY <1>4, FS_CardinalityType
  <1> QED BY <1>2, <1>3, <1>4, <1>5 DEF keyed

\* One more record takes the counters one step on.
LEMMA CountGrows ==
  ASSUME NEW n \in Nat, NEW records, IsList(records, n),
         NEW s \in SUBSET (1..n), NEW m \in s
  PROVE  CountedAt(records, s) = CountedAfter(CountedAt(records, s \ {m}), records[m])
  <1> DEFINE rest == s \ {m}
             key == records[m].key
  <1>1. CASE key = None
    <2>1. KeyedAt(records, s) = KeyedAt(records, rest)
      BY <1>1 DEF KeyedAt
    <2>2. CountedAt(records, s) = CountedAt(records, rest)
      BY <2>1 DEF CountedAt, KeysAt
    <2> QED BY <1>1, <2>2 DEF CountedAfter
  <1>2. CASE key # None
    <2> DEFINE old == KeyedAt(records, rest)
               met == KeysAt(records, rest)
    <2>1. KeyedAt(records, s) = old \cup {m} /\ m \notin old
      BY <1>2 DEF KeyedAt
    <2>2. KeysAt(records, s) = met \cup {key}
      BY <2>1 DEF KeysAt
    <2>3. /\ IsFiniteSet(old) /\ Cardinality(old) \in Nat
          /\ IsFiniteSet(met) /\ Cardinality(met) \in Nat
      <3>1. rest \in SUBSET (1..n)
        OBVIOUS
      <3> HIDE DEF rest
      <3> QED BY <3>1, KeysCounted
    <2> DEFINE duplicates == Cardinality(old) - Cardinality(met)
                               + IF key \in met THEN 1 ELSE 0
    <2>4. CountedAfter(CountedAt(records, rest), records[m]) =
            [seen |-> met \cup {key}, total |-> Cardinality(old) + 1,
             duplicates |-> duplicates]
      BY <1>2 DEF CountedAfter, CountedAt
    <2>5. CountedAt(records, s) =
            [seen |-> met \cup {key}, total |-> Cardinality(old \cup {m}),
             duplicates |-> Cardinality(old \cup {m}) - Cardinality(met \cup {key})]
      BY <2>1, <2>2 DEF CountedAt
    <2> HIDE DEF old, met, key, rest
    <2>6. Cardinality(old \cup {m}) = Cardinality(old) + 1
      BY <2>1, <2>3, FS_AddElement
    <2>7. Cardinality(met \cup {key}) =
            IF key \in met THEN Cardinality(met) ELSE Cardinality(met) + 1
      BY <2>3, FS_AddElement
    <2>8. Cardinality(old \cup {m}) - Cardinality(met \cup {key}) = duplicates
      BY <2>3, <2>6, <2>7
    <2> HIDE DEF duplicates
    <2>9. CountedAt(records, s) = CountedAfter(CountedAt(records, rest), records[m])
      BY <2>4, <2>5, <2>6, <2>8
    <2> QED BY <2>9 DEF rest
  <1> QED BY <1>1, <1>2

\* The metric of duplicates.
LEMMA DuplicateTwins ==
  ASSUME NEW n \in Nat, NEW records, IsList(records, n)
  PROVE  ComputeDuplicateRate(records) = DupRate(Range(records))
  <1> DEFINE S == 1..n
             base == [seen |-> {}, total |-> 0, duplicates |-> 0]
             pick == [s \in SUBSET S |-> Max(s)]
             g == [s \in SUBSET S |-> CountedAt(records, s)]
             Body(h) == [s \in SUBSET S |->
               IF s = {} THEN base ELSE CountedAfter(h[s \ {Max(s)}], records[Max(s)])]
  <1>1. IsFiniteSet(S) /\ DOMAIN records = S
    BY FS_Interval DEF IsList
  <1>2. \A s \in SUBSET S : s # {} => Max(s) \in s /\ s \ {Max(s)} \in SUBSET S
    BY LastPosition
  <1>3. g[{}] = base
    <2>1. KeyedAt(records, {}) = {} /\ KeysAt(records, {}) = {}
      BY DEF KeyedAt, KeysAt
    <2>2. Cardinality({}) = 0
      BY FS_EmptySet
    <2> QED BY <2>1, <2>2 DEF CountedAt
  <1>4. \A s \in SUBSET S : s # {} => g[s] = CountedAfter(g[s \ {Max(s)}], records[Max(s)])
    <2> SUFFICES ASSUME NEW s \in SUBSET S, s # {}
                 PROVE  g[s] = CountedAfter(g[s \ {Max(s)}], records[Max(s)])
      OBVIOUS
    <2>1. PICK m \in s : m = Max(s)
      BY <1>2
    <2>2. CountedAt(records, s) = CountedAfter(CountedAt(records, s \ {m}), records[m])
      BY CountGrows
    <2> QED BY <1>2, <2>1, <2>2
  <1>5. g = Body(g)
    <2> HIDE DEF S, base
    <2> QED BY <1>3, <1>4
  <1>6. ASSUME NEW h, h = Body(h) PROVE h[S] = g[S]
    <2> HIDE DEF base
    <2>1. \A s \in SUBSET S :
            h[s] = IF s = {} THEN base ELSE CountedAfter(h[s \ {Max(s)}], records[Max(s)])
      <3> HIDE DEF S
      <3> QED BY <1>6
    <2> HIDE DEF g, S
    <2>2. Follows(h, g, S, pick)
      BY <1>2, <1>3, <1>4, <2>1 DEF Follows
    <2> HIDE DEF pick
    <2>3. \A s \in SUBSET S : h[s] = g[s]
      BY <1>1, <2>2, SameFold
    <2> QED BY <2>3
  <1> DEFINE fold == (CHOOSE h : h = Body(h))[S]
  <1>7. ComputeDuplicateRate(records) = CalculateRate(fold.duplicates, fold.total)
    BY <1>1 DEF ComputeDuplicateRate, FoldLeft, MapThenFoldSet
  <1>8. fold = g[S]
    <2> DEFINE h == CHOOSE h : h = Body(h)
    <2>1. h = Body(h)
      <3> HIDE DEF Body
      <3> QED BY <1>5
    <2> HIDE DEF h, Body, S
    <2> QED BY <1>6, <2>1 DEF h
  <1> DEFINE keyed == KeyedAt(records, S)
             keys == KeysAt(records, S)
  <1>9. g[S] = CountedAt(records, S)
    OBVIOUS
  <1> HIDE DEF fold, g
  <1>10. ComputeDuplicateRate(records) =
           CalculateRate(Cardinality(keyed) - Cardinality(keys), Cardinality(keyed))
    BY <1>7, <1>8, <1>9 DEF CountedAt
  <1>11. Range(records) = { records[i] : i \in S }
    BY <1>1 DEF Range
  <1>12. Keyed(Range(records)) = RowsAt(records, keyed)
    BY <1>11 DEF Keyed, KeyedAt, RowsAt
  <1>13. { r.key : r \in Keyed(Range(records)) } = keys
    BY <1>12 DEF KeysAt, RowsAt
  <1>14. Cardinality(Keyed(Range(records))) = Cardinality(keyed)
    <2>1. keyed \in SUBSET (1..n)
      BY DEF KeyedAt
    <2> HIDE DEF keyed
    <2> QED BY <1>12, <2>1, PositionsCounted
  <1> HIDE DEF keyed, keys
  <1> QED BY <1>10, <1>13, <1>14 DEF DupRate, CalculateRate

\* The metric of bad records, and the number of rows.
LEMMA BadRecordsTwins ==
  ASSUME NEW n \in Nat, NEW records, IsList(records, n)
  PROVE  /\ Len(records) = Cardinality(Range(records)) /\ (records = << >> <=> Range(records) = {})
         /\ ComputeBadRecordsRate(records) = ContractBadRate(Range(records))
  <1> DEFINE bad == { i \in 1..n : ~records[i].valid }
             rows == Range(records)
  <1>1. DOMAIN records = 1..n /\ records \in Seq(Range(records)) /\ Len(records) = n
    BY DEF IsList
  <1>2. rows = RowsAt(records, 1..n)
    BY <1>1 DEF Range, RowsAt
  <1>3. Cardinality(rows) = n
    <2>1. Cardinality(RowsAt(records, 1..n)) = Cardinality(1..n)
      BY PositionsCounted
    <2>2. Cardinality(1..n) = n
      BY FS_Interval
    <2> QED BY <1>2, <2>1, <2>2
  <1>4. { r \in rows : ~r.valid } = RowsAt(records, bad)
    BY <1>2 DEF RowsAt
  <1>5. Cardinality(RowsAt(records, bad)) = Cardinality(bad)
    <2>1. bad \in SUBSET (1..n)
      OBVIOUS
    <2> HIDE DEF bad
    <2> QED BY <2>1, PositionsCounted
  <1>6. rows = {} <=> n = 0
    <2>1. 1..n = {} <=> n = 0
      <3>1. n # 0 => 1 \in 1..n
        OBVIOUS
      <3> QED BY <3>1
    <2> QED BY <1>2, <2>1 DEF RowsAt
  <1>7. records = << >> <=> n = 0
    BY <1>1
  <1>8. ComputeBadRecordsRate(records) = CalculateRate(Cardinality(bad), n)
    BY <1>1 DEF ComputeBadRecordsRate
  <1> HIDE DEF bad, rows
  <1>9. ContractBadRate(rows) = CalculateRate(Cardinality(bad), n)
    BY <1>3, <1>4, <1>5, <1>6 DEF ContractBadRate, CalculateRate
  <1> QED BY <1>1, <1>3, <1>6, <1>7, <1>8, <1>9 DEF rows

\* The comparison with a limit, and the severity.
LEMMA SeverityTwins ==
  ASSUME NEW value \in Optional(Int \X Int), NEW m \in Metrics
  PROVE  EvaluateSeverityPy(value, Rules[m]) = EvaluateSeverity(value, Rules[m])
  <1> DEFINE rule == Rules[m]
  <1>1. ASSUME value # None, NEW limit \in Limit
        PROVE  Reaches(value, limit) <=> limit # None /\ AtLeast(value, limit)
    <2>1. CASE limit = None
      BY <2>1 DEF Reaches
    <2>2. CASE limit # None
      <3>1. value \in Int \X Int /\ limit \in Int \X (Nat \ {0})
        BY <1>1, <2>2 DEF Optional, Limit
      <3>2. value[1] * limit[2] \in Int /\ limit[1] * value[2] \in Int
        BY <3>1
      <3>3. \A x, y \in Int : x - y \in Nat <=> x >= y
        OBVIOUS
      <3> QED BY <2>2, <3>2, <3>3 DEF Reaches, AtLeast
    <2> QED BY <2>1, <2>2
  <1>2. rule # None => rule.crit \in Limit /\ rule.warn \in Limit /\ rule.threshold \in Limit
    <2>1. rule \in Optional([crit : Limit, warn : Limit, threshold : Limit])
      BY RulesAssumption
    <2> HIDE DEF rule
    <2> QED BY <2>1 DEF Optional
  <1> HIDE DEF rule
  <1>3. EvaluateSeverityPy(value, rule) = EvaluateSeverity(value, rule)
    <2>1. CASE value = None \/ rule = None
      BY <2>1 DEF EvaluateSeverityPy, EvaluateSeverity
    <2>2. CASE value # None /\ rule # None
      <3>1. /\ Reaches(value, rule.crit) <=> rule.crit # None /\ AtLeast(value, rule.crit)
            /\ Reaches(value, rule.warn) <=> rule.warn # None /\ AtLeast(value, rule.warn)
            /\ Reaches(value, rule.threshold) <=>
                 rule.threshold # None /\ AtLeast(value, rule.threshold)
        BY <1>1, <1>2, <2>2
      <3> QED BY <2>2, <3>1 DEF EvaluateSeverityPy, EvaluateSeverity
    <2> QED BY <2>1, <2>2
  <1> QED BY <1>3 DEF rule

\* Of assessments, a more severe one leads, or one as severe whose tag comes first.
Ahead(sev, m, n) ==
  \/ SeverityRank(sev[m]) > SeverityRank(sev[n])
  \/ SeverityRank(sev[m]) = SeverityRank(sev[n]) /\ TagPriority[TagOf[m]] <= TagPriority[TagOf[n]]

Assessed(sev, M) == { m \in M : sev[m] # None }

\* What the loop holds of a metric, and after the metrics M.
TurnOf(sev, m) ==
  [tag |-> TagOf[m], severity |-> sev[m], rank |-> SeverityRank(sev[m]),
   prio |-> TagPriority[TagOf[m]]]

IsAhead(sev, M, m) == m \in Assessed(sev, M) /\ \A n \in Assessed(sev, M) : Ahead(sev, m, n)

LeadsAmong(sev, M, best) ==
  \/ /\ Assessed(sev, M) = {}
     /\ best = [tag |-> None, severity |-> None, rank |-> -1, prio |-> 999]
  \/ \E m : IsAhead(sev, M, m) /\ best = TurnOf(sev, m)

\* The tags of the metrics, in their order.
LEMMA Priorities ==
  /\ TagPriority[TagOf["freshness_sec"]] = 1 /\ TagOf["freshness_sec"] = "SOURCE_STALE"
  /\ TagPriority[TagOf["dup_rate"]] = 2 /\ TagOf["dup_rate"] = "DUP_SUSPECTED"
  /\ TagPriority[TagOf["completeness_zero_windows"]] = 3
  /\ TagOf["completeness_zero_windows"] = "EVENT_DROP_SUSPECTED"
  /\ TagPriority[TagOf["contract_bad_records_rate"]] = 4
  /\ TagOf["contract_bad_records_rate"] = "CONTRACT_VIOLATION"
  /\ Metrics = { "freshness_sec", "dup_rate", "completeness_zero_windows",
                 "contract_bad_records_rate" }
  /\ MetricOrder[1] = "freshness_sec" /\ MetricOrder[2] = "dup_rate"
  /\ MetricOrder[3] = "completeness_zero_windows"
  /\ MetricOrder[4] = "contract_bad_records_rate"
  <1>1. /\ MetricOrder[1] = "freshness_sec" /\ MetricOrder[2] = "dup_rate"
        /\ MetricOrder[3] = "completeness_zero_windows"
        /\ MetricOrder[4] = "contract_bad_records_rate" /\ Len(MetricOrder) = 4
    BY DEF MetricOrder
  <1>2. Metrics = { "freshness_sec", "dup_rate", "completeness_zero_windows",
                    "contract_bad_records_rate" }
    BY <1>1, MetricFacts
  <1>3. /\ TagOf["freshness_sec"] = "SOURCE_STALE" /\ TagOf["dup_rate"] = "DUP_SUSPECTED"
        /\ TagOf["completeness_zero_windows"] = "EVENT_DROP_SUSPECTED"
        /\ TagOf["contract_bad_records_rate"] = "CONTRACT_VIOLATION"
    BY <1>2 DEF TagOf
  <1>4. ASSUME NEW k \in 1..4 PROVE TagPriority[TagOf[MetricOrder[k]]] = k
    <2> DEFINE tag == TagOf[MetricOrder[k]]
    <2>1. k = 1 \/ k = 2 \/ k = 3 \/ k = 4
      OBVIOUS
    <2>2. MetricOrder[k] \in Metrics
      BY <1>1, <1>2, <2>1
    <2>3. TagPriority[tag] = CHOOSE i \in 1..Len(MetricOrder) : TagOf[MetricOrder[i]] = tag
      BY <2>2 DEF TagPriority, Tags
    <2>4. \A i \in 1..4 : TagOf[MetricOrder[i]] = tag => i = k
      <3>1. \A i \in 1..4 : i = 1 \/ i = 2 \/ i = 3 \/ i = 4
        OBVIOUS
      <3> QED BY <1>1, <1>3, <2>1, <3>1
    <2>5. (CHOOSE i \in 1..4 : TagOf[MetricOrder[i]] = tag) = k
      BY <2>4
    <2> QED BY <1>1, <2>3, <2>5
  <1>5. 1 \in 1..4 /\ 2 \in 1..4 /\ 3 \in 1..4 /\ 4 \in 1..4
    OBVIOUS
  <1> QED BY <1>1, <1>2, <1>3, <1>4, <1>5

\* Ranks and priorities are numbers, above what the loop starts with.
LEMMA RanksTyped ==
  ASSUME NEW sev, NEW m \in Metrics
  PROVE  /\ SeverityRank(sev[m]) \in Nat
         /\ TagPriority[TagOf[m]] \in 1..4
  BY Priorities DEF SeverityRank

\* Metrics are told apart by their tags.
LEMMA PrioritiesDiffer ==
  ASSUME NEW m \in Metrics, NEW n \in Metrics, TagPriority[TagOf[m]] = TagPriority[TagOf[n]]
  PROVE  m = n
  BY Priorities

\* One turn of the loop.
LEMMA LeaderKept ==
  ASSUME NEW sev, NEW M \in SUBSET Metrics, NEW k \in Metrics \ M, NEW best,
         LeadsAmong(sev, M, best)
  PROVE  LeadsAmong(sev, M \cup {k}, AfterMetric(sev, best, k))
  <1> DEFINE new == AfterMetric(sev, best, k)
             turn == TurnOf(sev, k)
             R(m) == SeverityRank(sev[m])
             P(m) == TagPriority[TagOf[m]]
  <1>1. \A m \in Metrics : R(m) \in Nat /\ P(m) \in 1..4
    BY RanksTyped
  <1>2. \A m, n : Ahead(sev, m, n) <=> R(m) > R(n) \/ (R(m) = R(n) /\ P(m) <= P(n))
    BY DEF Ahead
  <1>3. CASE sev[k] = None
    <2>1. new = best /\ Assessed(sev, M \cup {k}) = Assessed(sev, M)
      BY <1>3 DEF AfterMetric, Assessed
    <2> HIDE DEF new
    <2>2. LeadsAmong(sev, M \cup {k}, new)
      BY <2>1 DEF LeadsAmong, IsAhead
    <2> QED BY <2>2 DEF new
  <1>4. CASE sev[k] # None
    <2>1. Assessed(sev, M \cup {k}) = Assessed(sev, M) \cup {k}
      BY <1>4 DEF Assessed
    <2>2. new = IF R(k) > best.rank \/ (R(k) = best.rank /\ P(k) < best.prio)
                THEN turn ELSE best
      BY <1>4 DEF AfterMetric, TurnOf
    <2>3. CASE Assessed(sev, M) = {}
      <3>1. best.rank = -1
        BY <2>3 DEF LeadsAmong, IsAhead
      <3>2. new = turn
        BY <1>1, <2>2, <3>1
      <3>3. Ahead(sev, k, k)
        BY <1>1, <1>2
      <3> HIDE DEF new
      <3>4. \A n \in Assessed(sev, M \cup {k}) : Ahead(sev, k, n)
        BY <2>1, <2>3, <3>3
      <3>5. IsAhead(sev, M \cup {k}, k)
        BY <2>1, <3>4 DEF IsAhead
      <3>6. LeadsAmong(sev, M \cup {k}, new)
        BY <3>2, <3>5 DEF LeadsAmong
      <3> QED BY <3>6 DEF new
    <2>4. CASE Assessed(sev, M) # {}
      <3>1. PICK m \in Assessed(sev, M) :
              best = TurnOf(sev, m) /\ \A n \in Assessed(sev, M) : Ahead(sev, m, n)
        BY <2>4 DEF LeadsAmong, IsAhead
      <3>2. Assessed(sev, M) \subseteq Metrics /\ m \in Metrics /\ m # k
        BY <3>1 DEF Assessed
      <3>3. best.rank = R(m) /\ best.prio = P(m)
        BY <3>1 DEF TurnOf
      <3> HIDE DEF R, P, new
      <3>4. CASE R(k) > R(m) \/ (R(k) = R(m) /\ P(k) < P(m))
        <4>1. new = turn
          BY <2>2, <3>3, <3>4
        <4>2. ASSUME NEW n \in Assessed(sev, M) \cup {k} PROVE Ahead(sev, k, n)
          <5>1. CASE n = k
            BY <1>1, <1>2, <5>1
          <5>2. CASE n # k
            <6>1. n \in Metrics /\ (R(m) > R(n) \/ (R(m) = R(n) /\ P(m) <= P(n)))
              BY <1>2, <3>1, <3>2, <4>2, <5>2
            <6>2. R(k) > R(n) \/ (R(k) = R(n) /\ P(k) <= P(n))
              BY <1>1, <3>2, <3>4, <6>1
            <6> QED BY <1>2, <6>2
          <5> QED BY <5>1, <5>2
        <4>3. IsAhead(sev, M \cup {k}, k)
          BY <2>1, <4>2 DEF IsAhead
        <4>4. LeadsAmong(sev, M \cup {k}, new)
          BY <4>1, <4>3 DEF LeadsAmong
        <4> QED BY <4>4 DEF new
      <3>5. CASE ~(R(k) > R(m) \/ (R(k) = R(m) /\ P(k) < P(m)))
        <4>1. new = best
          BY <2>2, <3>3, <3>5
        <4>2. Ahead(sev, m, k)
          BY <1>1, <1>2, <3>2, <3>5
        <4>3. \A n \in Assessed(sev, M \cup {k}) : Ahead(sev, m, n)
          BY <2>1, <3>1, <4>2
        <4>4. IsAhead(sev, M \cup {k}, m)
          BY <2>1, <4>3 DEF IsAhead
        <4>5. LeadsAmong(sev, M \cup {k}, new)
          BY <3>1, <4>1, <4>4 DEF LeadsAmong
        <4> QED BY <4>5 DEF new
      <3> QED BY <3>4, <3>5
    <2> QED BY <2>3, <2>4
  <1> QED BY <1>3, <1>4

\* The overall verdict.
LEMMA OverallTwins ==
  ASSUME NEW sev
  PROVE  PickOverallStatus(sev) = << PickOverall(sev).tag, PickOverall(sev).severity >>
  <1> DEFINE start == [tag |-> None, severity |-> None, rank |-> -1, prio |-> 999]
             best == PickOverall(sev)
             priority == [SOURCE_STALE |-> 0, DUP_SUSPECTED |-> 1,
                          EVENT_DROP_SUSPECTED |-> 2, CONTRACT_VIOLATION |-> 3]
             assessed == { m \in Metrics : sev[m] # None }
             Wins(m, n) ==
               \/ SeverityRank(sev[m]) > SeverityRank(sev[n])
               \/ /\ SeverityRank(sev[m]) = SeverityRank(sev[n])
                  /\ priority[TagOf[m]] <= priority[TagOf[n]]
             first == CHOOSE m \in assessed : \A n \in assessed : Wins(m, n)
  <1>1. LeadsAmong(sev, Metrics, best)
    <2> DEFINE one == AfterMetric(sev, start, MetricOrder[1])
               two == AfterMetric(sev, one, MetricOrder[2])
               three == AfterMetric(sev, two, MetricOrder[3])
               four == AfterMetric(sev, three, MetricOrder[4])
    <2>1. best = four
      BY DEF PickOverall
    <2> HIDE DEF best
    <2>2. LeadsAmong(sev, {}, start)
      BY DEF LeadsAmong, Assessed
    <2> HIDE DEF start
    <2>3. LeadsAmong(sev, {} \cup {MetricOrder[1]}, one)
      BY <2>2, LeaderKept, Priorities
    <2> HIDE DEF one
    <2>4. LeadsAmong(sev, ({} \cup {MetricOrder[1]}) \cup {MetricOrder[2]}, two)
      BY <2>3, LeaderKept, Priorities
    <2> HIDE DEF two
    <2>5. LeadsAmong(sev, (({} \cup {MetricOrder[1]}) \cup {MetricOrder[2]}) \cup {MetricOrder[3]},
                     three)
      BY <2>4, LeaderKept, Priorities
    <2> HIDE DEF three
    <2>6. LeadsAmong(sev, ((({} \cup {MetricOrder[1]}) \cup {MetricOrder[2]})
                             \cup {MetricOrder[3]}) \cup {MetricOrder[4]}, four)
      BY <2>5, LeaderKept, Priorities
    <2> HIDE DEF four
    <2>7. ((({} \cup {MetricOrder[1]}) \cup {MetricOrder[2]}) \cup {MetricOrder[3]})
            \cup {MetricOrder[4]} = Metrics
      BY MetricFacts
    <2> QED BY <2>1, <2>6, <2>7
  <1>2. \A m, n \in Metrics : Wins(m, n) <=> Ahead(sev, m, n)
    <2>1. \A m \in Metrics : TagPriority[TagOf[m]] = priority[TagOf[m]] + 1
                             /\ priority[TagOf[m]] \in Int
      BY Priorities
    <2> HIDE DEF priority
    <2>2. \A x, y \in Int : x <= y <=> x + 1 <= y + 1
      OBVIOUS
    <2>3. \A m, n \in Metrics :
            priority[TagOf[m]] <= priority[TagOf[n]] <=>
              TagPriority[TagOf[m]] <= TagPriority[TagOf[n]]
      BY <2>1, <2>2
    <2> QED BY <2>3 DEF Ahead
  <1>3. PickOverallStatus(sev) =
          IF assessed = {} THEN << None, None >> ELSE << TagOf[first], sev[first] >>
    BY DEF PickOverallStatus
  <1>4. Assessed(sev, Metrics) = assessed
    BY DEF Assessed
  <1>5. CASE assessed = {}
    <2>1. best.tag = None /\ best.severity = None
      BY <1>1, <1>4, <1>5 DEF LeadsAmong, IsAhead
    <2> HIDE DEF best
    <2> QED BY <1>3, <1>5, <2>1 DEF best
  <1>6. CASE assessed # {}
    <2>1. PICK m \in assessed :
            /\ best.tag = TagOf[m] /\ best.severity = sev[m]
            /\ \A n \in assessed : Ahead(sev, m, n)
      <3> HIDE DEF best, assessed
      <3> QED BY <1>1, <1>4, <1>6 DEF LeadsAmong, IsAhead, TurnOf
    <2>2. \A n \in assessed : Wins(m, n)
      BY <1>2, <2>1
    <2>3. first \in assessed /\ \A n \in assessed : Wins(first, n)
      BY <2>1, <2>2
    <2> HIDE DEF first
    <2>4. Ahead(sev, first, m) /\ Ahead(sev, m, first) /\ first \in Metrics /\ m \in Metrics
      BY <1>2, <2>1, <2>3
    <2>5. TagPriority[TagOf[first]] = TagPriority[TagOf[m]]
      <3>1. /\ SeverityRank(sev[first]) \in Nat /\ SeverityRank(sev[m]) \in Nat
            /\ TagPriority[TagOf[first]] \in 1..4 /\ TagPriority[TagOf[m]] \in 1..4
        BY <2>4, RanksTyped
      <3> QED BY <2>4, <3>1 DEF Ahead
    <2>6. first = m
      BY <2>4, <2>5, PrioritiesDiffer
    <2> HIDE DEF best, assessed
    <2> QED BY <1>3, <1>6, <2>1, <2>6 DEF best
  <1> QED BY <1>5, <1>6

\* The Spark job and the plain Python statement of the guardrail give one verdict
\* on every list of different records, however long and in whatever order, for
\* every count of empty windows before it and every instant.
THEOREM AssessmentTwins ==
  ASSUME NEW n \in Nat, NEW records, IsList(records, n), NEW previous \in Nat, NEW now \in Int
  PROVE  SameVerdict(records, previous, now)
  <1> DEFINE rows == Range(records)
             values == Values(rows, previous, now)
             severities == Severities(rows, previous, now)
             read == [freshness_sec |-> ComputeFreshnessSec(records, now),
                      dup_rate |-> ComputeDuplicateRate(records),
                      completeness_zero_windows |->
                        << IF records = << >> THEN previous + 1 ELSE 0, 1 >>,
                      contract_bad_records_rate |-> ComputeBadRecordsRate(records)]
             judged == [m \in Metrics |-> EvaluateSeverityPy(read[m], Rules[m])]
  <1>1. /\ Len(records) = Cardinality(rows) /\ (records = << >> <=> rows = {})
        /\ ComputeBadRecordsRate(records) = ContractBadRate(rows)
        /\ ComputeFreshnessSec(records, now) = FreshnessSec(rows, now)
        /\ ComputeDuplicateRate(records) = DupRate(rows)
    BY BadRecordsTwins, FreshnessTwins, DuplicateTwins
  <1>2. /\ values["freshness_sec"] = FreshnessSec(rows, now)
        /\ values["dup_rate"] = DupRate(rows)
        /\ values["completeness_zero_windows"] = << ZeroWindows(previous, rows), 1 >>
        /\ values["contract_bad_records_rate"] = ContractBadRate(rows)
        /\ values = [m \in Metrics |-> values[m]]
    BY Priorities DEF Values
  <1>3. read = values
    <2>1. \A m \in Metrics : read[m] = values[m]
      <3> HIDE DEF values, rows
      <3> QED BY <1>1, <1>2, Priorities DEF ZeroWindows
    <2>2. read = [m \in Metrics |-> read[m]]
      BY Priorities
    <2> HIDE DEF read, values
    <2> QED BY <1>2, <2>1, <2>2
  <1>4. \A m \in Metrics : values[m] \in Optional(Int \X Int)
    <2>1. FreshnessSec(rows, now) \in Optional(Int \X Int)
      <3>1. CASE n = 0
        <4>1. rows = {}
          BY <3>1 DEF IsList, Range
        <4> QED BY <4>1 DEF FreshnessSec, Optional
      <3>2. CASE n # 0
        <4>1. 1..n # {}
          <5>1. 1 \in 1..n
            BY <3>2
          <5> QED BY <5>1
        <4>2. /\ NewestOf(records, 1..n) \in Int /\ 1..n \in SUBSET (1..n)
          BY <4>1, NewestThere
        <4>3. { r.created_at : r \in rows } \cup { r.ingested_at : r \in rows }
                = Stamps(records, 1..n)
          BY DEF Stamps, IsList, Range
        <4>4. rows # {}
          BY <4>1 DEF IsList, Range
        <4>5. FreshnessSec(rows, now) = << now - NewestOf(records, 1..n), 1 >>
          BY <4>1, <4>3, <4>4 DEF FreshnessSec, NewestOf
        <4> QED BY <4>2, <4>5 DEF Optional
      <3> QED BY <3>1, <3>2
    <2>2. DupRate(rows) \in Int \X Int
      <3>1. /\ Cardinality(KeyedAt(records, 1..n)) \in Nat
            /\ Cardinality(KeysAt(records, 1..n)) \in Nat
        BY KeysCounted
      <3>2. Keyed(rows) = RowsAt(records, KeyedAt(records, 1..n))
        BY DEF Keyed, KeyedAt, RowsAt, IsList, Range
      <3>3. { r.key : r \in Keyed(rows) } = KeysAt(records, 1..n)
        BY <3>2 DEF KeysAt, RowsAt
      <3>4. Cardinality(Keyed(rows)) = Cardinality(KeyedAt(records, 1..n))
        <4>1. KeyedAt(records, 1..n) \in SUBSET (1..n)
          BY DEF KeyedAt
        <4> QED BY <3>2, <4>1, PositionsCounted
      <3> HIDE DEF rows
      <3> DEFINE total == Cardinality(Keyed(rows))
                 distinct == Cardinality({ r.key : r \in Keyed(rows) })
      <3>5. total \in Nat /\ distinct \in Nat
        BY <3>1, <3>3, <3>4
      <3>6. DupRate(rows) = IF total = 0 THEN <<0, 1>> ELSE << total - distinct, total >>
        BY DEF DupRate
      <3> HIDE DEF total, distinct
      <3> QED BY <3>5, <3>6
    <2>3. ContractBadRate(rows) \in Int \X Int
      <3> DEFINE bad == { i \in 1..n : ~records[i].valid }
      <3>1. bad \in SUBSET (1..n) /\ 1..n \in SUBSET (1..n)
        OBVIOUS
      <3>2. { r \in rows : ~r.valid } = RowsAt(records, bad) /\ rows = RowsAt(records, 1..n)
        BY DEF RowsAt, IsList, Range
      <3> HIDE DEF rows, bad
      <3>3. Cardinality(bad) \in Nat /\ Cardinality(RowsAt(records, bad)) = Cardinality(bad)
        BY <3>1, PositionsCounted
      <3>4. /\ Cardinality(1..n) \in Nat
            /\ Cardinality(RowsAt(records, 1..n)) = Cardinality(1..n)
        BY <3>1, PositionsCounted
      <3> QED BY <3>2, <3>3, <3>4 DEF ContractBadRate
    <2>4. << ZeroWindows(previous, rows), 1 >> \in Int \X Int
      BY DEF ZeroWindows
    <2> HIDE DEF values, rows
    <2> QED BY <1>2, <2>1, <2>2, <2>3, <2>4, Priorities DEF Optional
  <1>5. judged = severities
    <2>1. severities = [m \in Metrics |-> EvaluateSeverity(values[m], Rules[m])]
      BY DEF Severities
    <2> HIDE DEF values, severities, read
    <2>2. \A m \in Metrics :
            EvaluateSeverityPy(values[m], Rules[m]) = EvaluateSeverity(values[m], Rules[m])
      BY <1>4, SeverityTwins
    <2> QED BY <1>3, <2>1, <2>2
  <1>6. BuildDqStatus(records, previous, now) =
          [event_count |-> Len(records), values |-> read, severities |-> judged,
           overall |-> PickOverallStatus(judged)]
    BY DEF BuildDqStatus
  <1> HIDE DEF read, judged, values, severities, rows
  <1>7. PickOverallStatus(severities) =
          << PickOverall(severities).tag, PickOverall(severities).severity >>
    BY OverallTwins
  <1> QED BY <1>1, <1>3, <1>5, <1>6, <1>7 DEF values, severities, rows, SameVerdict

\* In particular, they do on the sample windows that the run guardrail_serial
\* compares.
COROLLARY DqTwins == Spec => []DqTwinsAgree
  <1>1. TypeOK => DqTwinsAgree
    <2> SUFFICES ASSUME TypeOK, NEW records \in SampleLists, NEW previous \in 0..2
                 PROVE  SameVerdict(records, previous, clock)
      BY DEF DqTwinsAgree
    <2>1. PICK n \in 0..3 : records \in [1..n -> SampleRows] /\ Cardinality(Range(records)) = n
      BY DEF SampleLists
    <2>2. clock \in Int /\ n \in Nat /\ previous \in Nat
      BY DEF TypeOK
    <2>3. records \in Surjection(1..n, Range(records))
      BY <2>1 DEF Surjection, Range
    <2>4. IsFiniteSet(1..n) /\ Cardinality(1..n) = n
      BY <2>2, FS_Interval
    <2>5. records \in Injection(1..n, Range(records))
      BY <2>1, <2>3, <2>4, FS_Surjection
    <2>6. \A i \in 1..n : records[i].created_at \in Int /\ records[i].ingested_at \in Int
      BY <2>1, <2>2 DEF SampleRows
    <2>7. IsList(records, n)
      BY <2>5, <2>6 DEF IsList, Injection, IsInjective
    <2> QED BY <2>2, <2>7, AssessmentTwins
  <1> QED BY <1>1, Typing, PTL
=============================================================================
