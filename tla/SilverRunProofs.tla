--------------------------- MODULE SilverRunProofs ---------------------------
(***************************************************************************)
(* Proofs about SilverRun: its type invariant, that it fails closed, that  *)
(* its state row behaves as ProgressRow says, and that no row vanishes     *)
(* between bronze and silver as long as every order status is allowed.     *)
(***************************************************************************)
EXTENDS SilverRun, FiniteSetTheorems, InductionFacts, TLAPS

\* The sequences of tables have these lengths and members.
LEMMA MergeOrderFacts ==
  /\ Len(MergeOrder) = 5
  /\ \A i \in 1..5 : MergeOrder[i] \in Targets
  BY DEF MergeOrder, Targets

\* The four counts are counts of gated tables, valid rows or bad ones.
LEMMA CountOrderFacts ==
  /\ Len(CountOrder) = 4
  /\ \A i \in 1..4 : CountOrder[i] \in Counted
  BY DEF CountOrder, Counted, Gated

\* The rows an attempt sees are finitely many bronze rows, and what it counts
\* of them is a number.
LEMMA VisibleRows ==
  ASSUME TypeOK, NEW a \in Attempts
  PROVE  Visible(a) \subseteq bronze /\ IsFiniteSet(Visible(a))
  <1>1. Visible(a) \subseteq bronze
    BY DEF Visible
  <1> QED BY <1>1, FS_Subset DEF TypeOK

\* What an attempt counts of the rows it sees is a natural number.
LEMMA CountTyped ==
  ASSUME NEW rows, IsFiniteSet(rows), NEW c
  PROVE  CountOf(c, rows) \in Nat
  <1>1. BadRows(c[1], rows) \subseteq rows /\ GoodRows(c[1], rows) \subseteq rows
    BY DEF BadRows, GoodRows, RowsFor
  <1>2. IsFiniteSet(BadRows(c[1], rows)) /\ IsFiniteSet(GoodRows(c[1], rows))
    BY <1>1, FS_Subset
  <1> QED BY <1>2, FS_CardinalityType DEF CountOf

\* A MERGE of good bronze rows leaves a silver table with silver rows.
LEMMA MergedTyped ==
  ASSUME NEW table \in SUBSET SilverRow, NEW good \in SUBSET BronzeRow,
         NEW a \in Attempts
  PROVE  Merged(table, good, a) \in SUBSET SilverRow
  <1> DEFINE matches(x) == { r \in good : Key(r) = x.key }
  <1>1. \A r \in good : Key(r) \in Sources \X STRING
    BY DEF Key, BronzeRow
  <1>2. \A x \in table : matches(x) # {} => (CHOOSE r \in matches(x) : TRUE) \in BronzeRow
    OBVIOUS
  <1>3. \A x \in table :
          [key |-> x.key, first |-> x.first,
           row |-> CHOOSE r \in matches(x) : TRUE, run_id |-> a] \in SilverRow
            \/ matches(x) = {}
    BY <1>2 DEF SilverRow
  <1>4. \A r \in good : [key |-> Key(r), first |-> r, row |-> r, run_id |-> a] \in SilverRow
    BY <1>1 DEF SilverRow
  <1> QED BY <1>3, <1>4 DEF Merged

\* Rows reported through apply_pipeline_state are rows of the table.
LEMMA AppliedTyped ==
  ASSUME NEW a \in Attempts, NEW end \in Int, NEW now \in Int,
         NEW current \in Optional(StateRow(Attempts, {None}))
  PROVE  /\ ApplySuccess(a, end, None, now) \in StateRow(Attempts, {None})
         /\ ApplyFailure(current, a, now) \in StateRow(Attempts, {None})
  <1>1. ApplySuccess(a, end, None, now) \in StateRow(Attempts, {None})
    BY DEF ApplySuccess, StateRow, Status, Optional
  <1>2. BlankRow(now) \in StateRow(Attempts, {None})
    BY DEF BlankRow, StateRow, Status, Optional
  <1>3. ApplyFailure(current, a, now) \in StateRow(Attempts, {None})
    BY <1>2 DEF ApplyFailure, StateRow, Status, Optional
  <1> QED BY <1>1, <1>3

-----------------------------------------------------------------------------
\* The initial state is well typed.
LEMMA TypingInit == Init => TypeOK
  <1> SUFFICES ASSUME Init PROVE TypeOK
    OBVIOUS
  <1> USE SilverRunAssumption
  <1>1. IsFiniteSet(bronze)
    BY FS_EmptySet DEF Init
  <1>2. silver \in [Targets -> SUBSET SilverRow] /\ bad_records \subseteq BadRecord
    BY DEF Init
  <1>3. window \in [Attempts -> Int \X Int]
    BY DEF Init
  <1>4. counts \in [Attempts -> [Counted -> Nat]]
    BY DEF Init
  <1> QED BY <1>1, <1>2, <1>3, <1>4 DEF Init, TypeOK, Optional

\* Every step of the environment and of the script keeps the types.
LEMMA TypingNext == TypeOK /\ [Next]_vars => TypeOK'
  <1> SUFFICES ASSUME TypeOK, [Next]_vars PROVE TypeOK'
    OBVIOUS
  <1>1. CASE Midnight
    <2>1. today' \in FirstDay..Horizon
      BY <1>1, SilverRunAssumption DEF Midnight, TypeOK
    <2> QED BY <1>1, <2>1 DEF Midnight, tables, locals, history, TypeOK
  <1>2. CASE Ingest
    <2>1. PICK f \in Feed, lag \in 0..MaxLag :
            bronze' = bronze \cup {Delivered(f, today - lag, today)}
      BY <1>2 DEF Ingest
    <2>2. Delivered(f, today - lag, today) \in BronzeRow
      BY SilverRunAssumption DEF Delivered, FeedRow, BronzeRow, TypeOK
    <2>3. bronze' \subseteq BronzeRow /\ IsFiniteSet(bronze')
      BY <2>1, <2>2, FS_AddElement DEF TypeOK
    <2> QED BY <1>2, <2>3 DEF Ingest, tables, locals, history, TypeOK
  <1>3. ASSUME NEW a \in Attempts, Script(a) PROVE TypeOK'
    <2> DEFINE pcs == {"idle", "count", "gate", "merge", "failing", "report",
                       "succeeded", "failed", "dead"}
               keeps == UNCHANGED << today, bronze, silver, bad_records, pipeline_state,
                                     history >>
    <2>1. ASSUME NEW win \in Int \X Int, Begin(a, win)
          PROVE  TypeOK'
      <3>1. window' \in [Attempts -> Int \X Int]
        BY <2>1 DEF Begin, TypeOK
      <3>2. pc' \in [Attempts -> pcs]
        BY <2>1 DEF Begin, TypeOK
      <3>3. present' \in [Attempts -> SUBSET BronzeRow]
        BY <2>1 DEF Begin, TypeOK
      <3>4. UNCHANGED << today, bronze, silver, bad_records, pipeline_state, step, counts,
                         current_state, origin, covered, owed >>
        BY <2>1 DEF Begin, tables
      <3> QED BY <3>1, <3>2, <3>3, <3>4 DEF TypeOK
    <2>2. CASE StartDefault(a)
      <3>1. << today - 1, today - 1 >> \in Int \X Int
        BY SilverRunAssumption DEF TypeOK
      <3> QED BY <2>1, <2>2, <3>1 DEF StartDefault
    <2>3. CASE StartBackfill(a)
      <3>1. PICK b \in Backfills : Begin(a, b)
        BY <2>3 DEF StartBackfill
      <3>2. b \in Int \X Int
        BY <3>1, SilverRunAssumption
      <3> QED BY <2>1, <3>1, <3>2
    <2>4. CASE Count(a)
      <3> DEFINE c == CountOrder[step[a] + 1]
      <3>1. step[a] \in Nat /\ step[a] < 4
        BY <2>4, CountOrderFacts DEF Count, TypeOK
      <3>2. c \in Counted
        BY <3>1, CountOrderFacts
      <3>3. CountOf(c, Visible(a)) \in Nat
        BY VisibleRows, CountTyped
      <3>4. counts' = [counts EXCEPT ![a][c] = CountOf(c, Visible(a))]
        BY <2>4 DEF Count
      <3>5. counts' \in [Attempts -> [Counted -> Nat]]
        BY <3>2, <3>3, <3>4 DEF TypeOK
      <3>6. step' \in [Attempts -> Nat]
        BY <2>4, <3>1 DEF Count, TypeOK
      <3>7. keeps /\ UNCHANGED << pc, window, current_state >>
        BY <2>4 DEF Count, tables, history
      <3> QED BY <3>5, <3>6, <3>7 DEF TypeOK, history
    <2>5. CASE Quarantine(a)
      <3>1. Visible(a) \subseteq BronzeRow
        BY VisibleRows DEF TypeOK
      <3>2. \A t \in Targets : BadRows(t, Visible(a)) \subseteq BronzeRow
        BY <3>1 DEF BadRows, RowsFor
      <3>3. \A t \in Targets : BadRecords(t, a) \subseteq BadRecord
        BY <3>2 DEF BadRecords, BadRecord
      <3>4. bad_records' = bad_records \cup UNION { BadRecords(t, a) : t \in Targets }
        BY <2>5 DEF Quarantine
      <3>5. bad_records' \subseteq BadRecord
        BY <3>3, <3>4 DEF TypeOK
      <3>6. pc' \in [Attempts -> pcs]
        BY <2>5 DEF Quarantine, TypeOK
      <3>7. UNCHANGED << today, bronze, silver, pipeline_state, step, window, counts,
                         current_state, history >>
        BY <2>5 DEF Quarantine
      <3> QED BY <3>5, <3>6, <3>7 DEF TypeOK, history
    <2>6. CASE PassGate(a)
      <3>1. /\ pc' = [pc EXCEPT ![a] = "failing"] \/ pc' = [pc EXCEPT ![a] = "merge"]
            /\ step' = step \/ step' = [step EXCEPT ![a] = 0]
        BY <2>6 DEF PassGate
      <3>3. pc' \in [Attempts -> pcs] /\ step' \in [Attempts -> Nat]
        BY <3>1 DEF TypeOK
      <3>2. keeps /\ UNCHANGED << window, counts, current_state >>
        BY <2>6 DEF PassGate, tables, history
      <3> QED BY <3>2, <3>3 DEF TypeOK, history
    <2>7. CASE Merge(a)
      <3> DEFINE t == MergeOrder[step[a] + 1]
                 good == GoodRows(t, Visible(a))
      <3>1. step[a] \in Nat /\ step[a] < 5
        BY <2>7, MergeOrderFacts DEF Merge, TypeOK
      <3>2. t \in Targets
        BY <3>1, MergeOrderFacts
      <3>3. good \in SUBSET BronzeRow
        BY VisibleRows DEF GoodRows, RowsFor, TypeOK
      <3>4. silver[t] \in SUBSET SilverRow
        BY <3>2 DEF TypeOK
      <3>5. Merged(silver[t], good, a) \in SUBSET SilverRow
        BY <3>3, <3>4, MergedTyped
      <3>6. silver' = [silver EXCEPT ![t] = Merged(silver[t], good, a)]
        BY <2>7 DEF Merge
      <3>7. silver' \in [Targets -> SUBSET SilverRow]
        BY <3>5, <3>6 DEF TypeOK
      <3>8. step' \in [Attempts -> Nat]
        BY <2>7, <3>1 DEF Merge, TypeOK
      <3>9. UNCHANGED << today, bronze, bad_records, pipeline_state, pc, window, counts,
                         current_state, history >>
        BY <2>7 DEF Merge
      <3> QED BY <3>7, <3>8, <3>9 DEF TypeOK, history
    <2>8. CASE CommitSuccess(a)
      <3>1. /\ window[a][1] \in Int /\ window[a][2] \in Int /\ window[a][2] + 1 \in Int
            /\ today \in Int
        BY SilverRunAssumption DEF TypeOK
      <3>2. pipeline_state' \in StateRow(Attempts, {None})
        BY <2>8, <3>1, AppliedTyped DEF CommitSuccess, Optional
      <3>3. origin' \in Optional(Int) /\ covered' \subseteq Int
        <4>1. origin' = window[a][1] \/ origin' = origin
          BY <2>8 DEF CommitSuccess
        <4>2. covered' = covered \cup window[a][1]..window[a][2]
          BY <2>8 DEF CommitSuccess
        <4>3. window[a][1]..window[a][2] \subseteq Int
          BY <3>1
        <4>4. origin \in Optional(Int) /\ covered \subseteq Int
          BY DEF TypeOK
        <4> QED BY <4>1, <4>2, <4>3, <4>4, <3>1 DEF Optional
      <3>4. pc' \in [Attempts -> pcs] /\ step' \in [Attempts -> Nat]
        BY <2>8 DEF CommitSuccess, TypeOK
      <3>5. UNCHANGED << today, bronze, silver, bad_records, window, counts, current_state >>
        BY <2>8 DEF CommitSuccess
      <3>6. present' \in [Attempts -> SUBSET BronzeRow] /\ owed' \subseteq BronzeRow
        BY <2>8 DEF CommitSuccess, TypeOK
      <3> QED BY <3>2, <3>3, <3>4, <3>5, <3>6 DEF TypeOK, Optional
    <2>9. CASE Raise(a)
      BY <2>9 DEF Raise, tables, history, TypeOK
    <2>10. CASE LoadForFailure(a)
      BY <2>10 DEF LoadForFailure, tables, history, TypeOK
    <2>11. CASE CommitFailure(a)
      <3>1. today \in Int
        BY SilverRunAssumption DEF TypeOK
      <3>6. current_state[a] \in Optional(StateRow(Attempts, {None}))
        BY DEF TypeOK
      <3>2. pipeline_state' \in StateRow(Attempts, {None})
        BY <2>11, <3>1, <3>6, AppliedTyped DEF CommitFailure
      <3>3. pc' \in [Attempts -> pcs] /\ step' \in [Attempts -> Nat]
        BY <2>11 DEF CommitFailure, TypeOK
      <3>4. current_state' \in [Attempts -> Optional(StateRow(Attempts, {None}))]
        BY <2>11 DEF CommitFailure, TypeOK, Optional
      <3>5. UNCHANGED << today, bronze, silver, bad_records, window, counts, origin, covered,
                         owed >>
        BY <2>11 DEF CommitFailure
      <3>7. present' \in [Attempts -> SUBSET BronzeRow]
        BY <2>11 DEF CommitFailure, TypeOK
      <3> QED BY <3>2, <3>3, <3>4, <3>5, <3>7 DEF TypeOK, Optional
    <2>12. CASE Kill(a)
      BY <2>12 DEF Kill, tables, history, TypeOK, Optional
    <2> QED BY <1>3, <2>2, <2>3, <2>4, <2>5, <2>6, <2>7, <2>8, <2>9, <2>10, <2>11, <2>12
            DEF Script
  <1>4. CASE UNCHANGED vars
    BY <1>4 DEF vars, tables, locals, history, TypeOK
  <1> QED BY <1>1, <1>2, <1>3, <1>4 DEF Next, Finished

\* Every variable keeps its type, for every feed, threshold and horizon.
THEOREM Typing == Spec => []TypeOK
  BY TypingInit, TypingNext, PTL DEF Spec

-----------------------------------------------------------------------------
(* The gate.  FailClosed is not inductive: a run past the gate has counts   *)
(* within the threshold, and a run that has not passed it has written       *)
(* nothing, so that counting again cannot condemn rows already there.       *)

GateInv ==
  /\ \A t \in Targets : \A x \in silver[t] : ~RateExceeded(counts[x.run_id])
  /\ \A a \in Attempts : pc[a] = "merge" => ~RateExceeded(counts[a])
  /\ \A t \in Targets : \A x \in silver[t] : pc[x.run_id] \notin {"idle", "count", "gate"}

\* A run that is let through has a share of bad rows within the threshold, also
\* where it counted no row at all.
LEMMA LetThrough ==
  ASSUME NEW cnt \in [Counted -> Nat], ~RateExceeded(cnt), NEW g \in Gated
  PROVE  WithinThreshold(g, cnt)
  <1> DEFINE bad == cnt[<< g, "bad" >>]
             valid == cnt[<< g, "valid" >>]
  <1>1. bad \in Nat /\ valid \in Nat
    BY DEF Counted
  <1>2. ~Breaches(g, cnt)
    BY DEF RateExceeded
  <1>3. ASSUME Threshold # None PROVE bad * Threshold[2] <= Threshold[1] * (valid + bad)
    <2>1. Threshold[1] \in Nat /\ Threshold[2] \in Nat
      BY <1>3, SilverRunAssumption DEF Optional
    <2>2. valid + bad > 0 => ~(bad * Threshold[2] > Threshold[1] * (valid + bad))
      BY <1>2, <1>3 DEF Breaches
    <2>3. CASE valid + bad > 0
      <3>1. \A x, y \in Nat : x * y \in Nat
        OBVIOUS
      <3>2. bad * Threshold[2] \in Nat /\ Threshold[1] * (valid + bad) \in Nat
        <4>1. valid + bad \in Nat
          BY <1>1
        <4> HIDE DEF bad, valid
        <4> QED BY <1>1, <2>1, <3>1, <4>1
      <3> HIDE DEF bad, valid
      <3> QED BY <2>2, <2>3, <3>2
    <2>4. CASE ~(valid + bad > 0)
      <3>1. bad = 0 /\ valid + bad = 0
        BY <1>1, <2>4
      <3>2. \A x \in Nat : 0 * x = 0 /\ x * 0 = 0
        OBVIOUS
      <3>3. bad * Threshold[2] = 0 /\ Threshold[1] * (valid + bad) = 0
        <4> HIDE DEF bad, valid
        <4> QED BY <2>1, <3>1, <3>2
      <3> HIDE DEF bad, valid
      <3> QED BY <3>3
    <2> QED BY <1>1, <2>3, <2>4
  <1> QED BY <1>3 DEF WithinThreshold

\* A MERGE stamps the rows it touches with the run that makes it.
LEMMA MergedStamps ==
  ASSUME NEW table, NEW good, NEW a, NEW x \in Merged(table, good, a)
  PROVE  x \in table \/ x.run_id = a
  BY DEF Merged

\* Every step keeps the facts behind the gate: only the merges of an attempt
\* that has passed it stamp rows, and its counts do not change after that.
LEMMA GateNext == TypeOK /\ GateInv /\ [Next]_vars => GateInv'
  <1> SUFFICES ASSUME TypeOK, GateInv, [Next]_vars PROVE GateInv'
    OBVIOUS
  <1> DEFINE before == {"idle", "count", "gate"}
  <1>t. /\ pc = [b \in Attempts |-> pc[b]]
        /\ counts \in [Attempts -> [Counted -> Nat]]
        /\ \A t \in Targets : \A x \in silver[t] : x.run_id \in Attempts
    BY DEF TypeOK, SilverRow
  <1>u. ASSUME UNCHANGED << silver, pc, counts >> PROVE GateInv'
    BY <1>u DEF GateInv
  \* A step of one script that writes no silver row and takes no count, and
  \* does not go back before the gate or behind it.
  <1>p. ASSUME NEW a \in Attempts, NEW to,
               UNCHANGED << silver, counts >>, pc' = [pc EXCEPT ![a] = to],
               to \in before => pc[a] \in before,
               to = "merge" => ~RateExceeded(counts[a])
        PROVE  GateInv'
    BY <1>p, <1>t DEF GateInv
  <1>1. CASE Midnight
    BY <1>1, <1>u DEF Midnight, tables, locals
  <1>2. CASE Ingest
    BY <1>2, <1>u DEF Ingest, tables, locals
  <1>3. ASSUME NEW a \in Attempts, Script(a) PROVE GateInv'
    <2>1. ASSUME NEW win, Begin(a, win) PROVE GateInv'
      BY <2>1, <1>p DEF Begin, tables
    <2>2. CASE Count(a)
      <3>1. pc[a] = "count" /\ UNCHANGED << silver, pc >>
        BY <2>2 DEF Count, tables
      <3>2. \A b \in Attempts : b # a => counts'[b] = counts[b]
        BY <2>2, <1>t DEF Count
      <3>3. \A t \in Targets : \A x \in silver[t] : x.run_id # a
        BY <3>1 DEF GateInv
      <3> QED BY <3>1, <3>2, <3>3, <1>t DEF GateInv
    <2>3. CASE Quarantine(a)
      BY <2>3, <1>p DEF Quarantine
    <2>4. CASE PassGate(a)
      <3>1. CASE RateExceeded(counts[a])
        BY <2>4, <3>1, <1>p DEF PassGate, tables
      <3>2. CASE ~RateExceeded(counts[a])
        BY <2>4, <3>2, <1>p DEF PassGate, tables
      <3> QED BY <3>1, <3>2
    <2>5. CASE Merge(a)
      <3> DEFINE m == MergeOrder[step[a] + 1]
                 good == GoodRows(m, Visible(a))
      <3>1. pc[a] = "merge" /\ UNCHANGED << pc, counts >>
        BY <2>5 DEF Merge
      <3>2. silver' = [silver EXCEPT ![m] = Merged(silver[m], good, a)]
        BY <2>5 DEF Merge
      <3>3. \A t \in Targets : \A x \in silver'[t] : x \in silver[t] \/ x.run_id = a
        <4>1. silver \in [Targets -> SUBSET SilverRow]
          BY DEF TypeOK
        <4> QED BY <3>2, <4>1, MergedStamps
      <3> QED BY <3>1, <3>3 DEF GateInv
    <2>6. CASE CommitSuccess(a)
      BY <2>6, <1>p DEF CommitSuccess
    <2>7. CASE Raise(a)
      BY <2>7, <1>p DEF Raise, tables
    <2>8. CASE LoadForFailure(a)
      BY <2>8, <1>p DEF LoadForFailure, tables
    <2>9. CASE CommitFailure(a)
      BY <2>9, <1>p DEF CommitFailure
    <2>10. CASE Kill(a)
      BY <2>10, <1>p DEF Kill, tables
    <2> QED BY <1>3, <2>1, <2>2, <2>3, <2>4, <2>5, <2>6, <2>7, <2>8, <2>9, <2>10
            DEF Script, StartDefault, StartBackfill
  <1>4. CASE UNCHANGED vars
    BY <1>4, <1>u DEF vars, tables, locals
  <1> QED BY <1>1, <1>2, <1>3, <1>4 DEF Next, Finished

\* No silver row is ever written by a run whose counts exceed the threshold,
\* whatever is ingested between its counts and its merges.
THEOREM GateFailsClosed == Spec => []FailClosed
  <1>1. Init => GateInv
    BY DEF Init, GateInv
  <1>2. TypeOK /\ GateInv => FailClosed
    <2> SUFFICES ASSUME TypeOK, GateInv, NEW t \in Targets, NEW x \in silver[t], NEW g \in Gated
                 PROVE  WithinThreshold(g, counts[x.run_id])
      BY DEF FailClosed
    <2>1. x.run_id \in Attempts
      BY DEF TypeOK, SilverRow
    <2>2. counts[x.run_id] \in [Counted -> Nat] /\ ~RateExceeded(counts[x.run_id])
      BY <2>1 DEF TypeOK, GateInv
    <2> QED BY <2>2, LetThrough
  <1> QED BY <1>1, <1>2, Typing, GateNext, PTL DEF Spec

-----------------------------------------------------------------------------
(* The state row.  One script is active at a time, so the record a failing  *)
(* run has loaded is still the current one when it merges it back.          *)

ReportInv ==
  /\ \A a, b \in Attempts : Active(a) /\ Active(b) => a = b
  /\ \A a \in Attempts : pc[a] = "report" => current_state[a] = pipeline_state

\* The ends a run may report: the start of a day it may begin on, or of the day
\* after a backfill.
RunEnds == FirstDay..Horizon \cup { b[2] + 1 : b \in Backfills }

EndInv == \A a \in Attempts : Active(a) => window[a][2] + 1 \in RunEnds

\* A window is chosen when its run begins and kept to its end.
LEMMA EndNext == TypeOK /\ EndInv /\ [Next]_vars => EndInv'
  <1> SUFFICES ASSUME TypeOK, EndInv, [Next]_vars PROVE EndInv'
    OBVIOUS
  <1>1. ASSUME NEW a \in Attempts, NEW win, win[2] + 1 \in RunEnds, Begin(a, win)
        PROVE  EndInv'
    <2>1. /\ pc' = [pc EXCEPT ![a] = "count"] /\ window' = [window EXCEPT ![a] = win]
      BY <1>1 DEF Begin
    <2>2. \A b \in Attempts : b # a => pc'[b] = pc[b] /\ window'[b] = window[b]
      BY <2>1 DEF TypeOK
    <2>3. window'[a] = win
      BY <2>1 DEF TypeOK
    <2> QED BY <1>1, <2>2, <2>3 DEF EndInv, Active
  <1>2. ASSUME NEW a \in Attempts, StartDefault(a) \/ StartBackfill(a) PROVE EndInv'
    <2>1. CASE StartDefault(a)
      <3>1. today \in FirstDay..Horizon /\ today \in Int
        BY SilverRunAssumption DEF TypeOK
      <3>2. << today - 1, today - 1 >>[2] + 1 \in RunEnds
        BY <3>1 DEF RunEnds
      <3> QED BY <2>1, <3>2, <1>1 DEF StartDefault
    <2>2. CASE StartBackfill(a)
      BY <2>2, <1>1 DEF StartBackfill, RunEnds
    <2> QED BY <1>2, <2>1, <2>2
  <1>3. ASSUME UNCHANGED window, \A a \in Attempts : Active(a)' => Active(a) PROVE EndInv'
    BY <1>3 DEF EndInv
  <1>t. pc = [b \in Attempts |-> pc[b]]
    BY DEF TypeOK
  <1>4. CASE Midnight \/ Ingest \/ Finished \/ UNCHANGED vars
    BY <1>4, <1>3 DEF Midnight, Ingest, Finished, vars, tables, locals, Active
  <1>5. ASSUME NEW a \in Attempts, Script(a), ~StartDefault(a), ~StartBackfill(a)
        PROVE  UNCHANGED window /\ \A b \in Attempts : Active(b)' => Active(b)
    BY <1>5, <1>t DEF Script, Count, Quarantine, PassGate, Merge, CommitSuccess, Raise,
       LoadForFailure, CommitFailure, Kill, tables, Active
  <1> QED BY <1>2, <1>3, <1>4, <1>5 DEF Next

\* Every step keeps the record of a failing attempt current: no other attempt
\* is active between its load and its commit.
LEMMA ReportNext == TypeOK /\ ReportInv /\ [Next]_vars => ReportInv'
  <1> SUFFICES ASSUME TypeOK, ReportInv, [Next]_vars PROVE ReportInv'
    OBVIOUS
  <1>t. pc = [b \in Attempts |-> pc[b]]
    BY DEF TypeOK
  <1>u. ASSUME UNCHANGED << pc, current_state, pipeline_state >> PROVE ReportInv'
    BY <1>u DEF ReportInv, Active
  \* A step of the active script that leaves the row and the records alone.
  <1>p. ASSUME NEW a \in Attempts, NEW to, Active(a), to # "report",
               pc' = [pc EXCEPT ![a] = to],
               UNCHANGED << current_state, pipeline_state >>
        PROVE  ReportInv'
    BY <1>p, <1>t DEF ReportInv, Active
  \* The active script ends: no other script holds a record.
  <1>e. ASSUME NEW a \in Attempts, NEW to \in {"succeeded", "failed", "dead"}, Active(a),
               pc' = [pc EXCEPT ![a] = to]
        PROVE  ReportInv'
    BY <1>e, <1>t DEF ReportInv, Active
  <1>1. CASE Midnight
    BY <1>1, <1>u DEF Midnight, tables, locals
  <1>2. CASE Ingest
    BY <1>2, <1>u DEF Ingest, tables, locals
  <1>3. ASSUME NEW a \in Attempts, Script(a) PROVE ReportInv'
    <2>1. ASSUME NEW win, Begin(a, win) PROVE ReportInv'
      <3>1. /\ \A b \in Attempts : ~Active(b)
            /\ pc' = [pc EXCEPT ![a] = "count"]
            /\ UNCHANGED << current_state, pipeline_state >>
        BY <2>1 DEF Begin, tables
      <3> QED BY <3>1, <1>t DEF ReportInv, Active
    <2>2. CASE Count(a)
      BY <2>2, <1>u DEF Count, tables
    <2>3. CASE Quarantine(a)
      BY <2>3, <1>p DEF Quarantine, Active
    <2>4. CASE PassGate(a)
      <3>1. CASE RateExceeded(counts[a])
        BY <2>4, <3>1, <1>p DEF PassGate, tables, Active
      <3>2. CASE ~RateExceeded(counts[a])
        BY <2>4, <3>2, <1>p DEF PassGate, tables, Active
      <3> QED BY <3>1, <3>2
    <2>5. CASE Merge(a)
      BY <2>5, <1>u DEF Merge
    <2>6. CASE CommitSuccess(a)
      BY <2>6, <1>e DEF CommitSuccess, Active
    <2>7. CASE Raise(a)
      BY <2>7, <1>p DEF Raise, tables, Active
    <2>8. CASE LoadForFailure(a)
      <3>1. /\ Active(a)
            /\ pc' = [pc EXCEPT ![a] = "report"]
            /\ current_state' = [current_state EXCEPT ![a] = pipeline_state]
            /\ UNCHANGED pipeline_state
        BY <2>8 DEF LoadForFailure, tables, Active
      <3>2. \A b \in Attempts : pc'[b] = "report" => b = a
        BY <3>1, <1>t DEF ReportInv, Active
      <3>3. current_state'[a] = pipeline_state'
        BY <3>1 DEF TypeOK
      <3>4. \A b, c \in Attempts : Active(b)' /\ Active(c)' => b = c
        BY <3>1, <1>t DEF ReportInv, Active
      <3> QED BY <3>2, <3>3, <3>4 DEF ReportInv
    <2>9. CASE CommitFailure(a)
      BY <2>9, <1>e DEF CommitFailure, Active
    <2>10. CASE Kill(a)
      BY <2>10, <1>e DEF Kill
    <2> QED BY <1>3, <2>1, <2>2, <2>3, <2>4, <2>5, <2>6, <2>7, <2>8, <2>9, <2>10
            DEF Script, StartDefault, StartBackfill
  <1>4. CASE UNCHANGED vars
    BY <1>4, <1>u DEF vars, tables, locals
  <1> QED BY <1>1, <1>2, <1>3, <1>4 DEF Next, Finished

\* Every step is a change ProgressRow allows, or leaves the row alone.
LEMMA RowStep ==
  TypeOK /\ ReportInv /\ EndInv /\ [Next]_vars => [Progress!Next]_pipeline_state
  <1> SUFFICES ASSUME TypeOK, ReportInv, EndInv, [Next]_vars,
                      pipeline_state' # pipeline_state
               PROVE  Progress!Next
    OBVIOUS
  <1>1. PICK a \in Attempts : CommitSuccess(a) \/ CommitFailure(a)
    BY DEF Next, Midnight, Ingest, Finished, vars, tables, locals, Script, StartDefault,
           StartBackfill, Begin, Count, Quarantine, PassGate, Merge, Raise,
           LoadForFailure, Kill
  <1>2. today \in FirstDay..Horizon
    BY DEF TypeOK
  <1>3. CASE CommitSuccess(a)
    <2>1. window[a][2] + 1 \in FirstDay..Horizon \cup { b[2] + 1 : b \in Backfills }
      BY <1>3 DEF EndInv, RunEnds, CommitSuccess, Active
    <2>2. pipeline_state' = Progress!ApplySuccess(a, window[a][2] + 1, None, today)
      BY <1>3 DEF CommitSuccess, ApplySuccess, Progress!ApplySuccess
    <2> QED BY <1>2, <2>1, <2>2 DEF Progress!Next, Progress!Succeed
  <1>4. CASE CommitFailure(a)
    <2>1. pipeline_state' = Progress!ApplyFailure(pipeline_state, a, today)
      BY <1>4 DEF CommitFailure, ReportInv, ApplyFailure, BlankRow,
                  Progress!ApplyFailure, Progress!BlankRow
    <2> QED BY <1>2, <2>1 DEF Progress!Next, Progress!Fail
  <1> QED BY <1>1, <1>3, <1>4

\* Silver keeps the promise of ProgressRow: successes report their window's
\* end, failures leave the reported progress alone.
THEOREM SilverRefinesProgressRow == Spec => ProgressSpec
  <1>1. Init => ReportInv /\ EndInv /\ Progress!Init
    BY DEF Init, ReportInv, EndInv, Active, Progress!Init
  <1> QED BY <1>1, Typing, ReportNext, EndNext, RowStep,
         PTL DEF Spec, ProgressSpec, Progress!Spec

-----------------------------------------------------------------------------
(* The rows.  Between the quarantine of a run and its merges a row may only *)
(* turn from bad to good, unless an order status that is not allowed comes  *)
(* in: then RowsAccounted fails, as the run silver_late_status shows.       *)

\* No order row has a status the rule on payment statuses disallows.
OrdersAllowed ==
  AllowedStatuses # {} =>
    \A f \in Feed : f.source = "payment_orders_raw" => f.status \in AllowedStatuses \cup {None}

\* The row r of bronze is where it belongs for table t.
Accounted(r, t) ==
  \/ \E x \in silver[t] : x.key = Key(r)
  \/ \E b \in bad_records : b.table = t /\ b.row = r

BelongsTo(r) == { t \in Targets : r.source \in SourcesOf[t] }

\* What the script of a has accounted for, of the rows it found on the days of
\* its windows, when it is past its quarantine, and past some of its merges.
ScriptAccount(a) ==
  /\ present[a] \subseteq Visible(a)
  /\ pc[a] \in {"gate", "merge"} =>
       \A r \in present[a] : \A t \in BelongsTo(r) :
         Accounted(r, t) \/ ~Bad(r, Visible(a))
  /\ pc[a] = "merge" =>
       \A i \in 1..step[a] : \A r \in present[a] :
         MergeOrder[i] \in BelongsTo(r) => Accounted(r, MergeOrder[i])

AccountInv ==
  /\ \A r \in bronze :
       r.source = "payment_orders_raw" /\ AllowedStatuses # {} =>
         r.status \in AllowedStatuses \cup {None}
  /\ \A a \in Attempts : ScriptAccount(a)
  /\ RowsAccounted

\* Finitely many order rows have a newest one.
LEMMA NewestExists ==
  ASSUME NEW found \in SUBSET BronzeRow, IsFiniteSet(found), found # {}
  PROVE  \E p \in found : \A q \in found : NewestFirst(p, q)
  <1> DEFINE R == { pq \in found \X found : NewestFirst(pq[1], pq[2]) }
  <1>1. \A p \in found : p.created \in Int /\ p.ingested \in Int
    BY DEF BronzeRow
  <1>2. /\ \A p, q \in found : NewestFirst(p, q) \/ NewestFirst(q, p)
        /\ \A p, q, s \in found :
             NewestFirst(p, q) /\ NewestFirst(q, s) => NewestFirst(p, s)
    BY <1>1 DEF NewestFirst
  <1>3. /\ \A p, q \in found : << p, q >> \in R \/ << q, p >> \in R
        /\ \A p, q, s \in found :
             << p, q >> \in R /\ << q, s >> \in R => << p, s >> \in R
        /\ \A p, q \in found : << p, q >> \in R => NewestFirst(p, q)
    BY <1>2
  <1>4. \E p \in found : \A q \in found : << p, q >> \in R
    <2> HIDE DEF R
    <2> QED BY <1>3, FirstExists
  <1> QED BY <1>3, <1>4

\* A good row stays good when more rows come in: its status can only turn into
\* that of an order.
LEMMA GoodStays ==
  ASSUME NEW later \in SUBSET BronzeRow, IsFiniteSet(later), NEW rows \in SUBSET later,
         \A p \in later : p.source = "payment_orders_raw" /\ AllowedStatuses # {} =>
                            p.status \in AllowedStatuses \cup {None},
         NEW r, ~Bad(r, rows)
  PROVE  ~Bad(r, later)
  <1> DEFINE found == StatusRows(later, r.related)
             newest == CHOOSE p \in found : \A q \in found : NewestFirst(p, q)
  <1> SUFFICES ASSUME r.source = "transaction_ledger_raw", AllowedStatuses # {}
               PROVE  StatusOf(r, later) \in AllowedStatuses \cup {None}
    BY DEF Bad
  <1>1. CASE r.related = None \/ found = {}
    <2>1. StatusOf(r, later) = r.status
      BY <1>1 DEF StatusOf
    <2>2. StatusRows(rows, r.related) \subseteq found
      BY DEF StatusRows
    <2>3. StatusOf(r, rows) = r.status
      BY <1>1, <2>2 DEF StatusOf
    <2> QED BY <2>1, <2>3 DEF Bad
  <1>2. CASE r.related # None /\ found # {}
    <2>1. found \subseteq later /\ found \subseteq BronzeRow
      BY DEF StatusRows
    <2>2. IsFiniteSet(found)
      BY <2>1, FS_Subset
    <2>3. newest \in found
      <3>1. \E p \in found : \A q \in found : NewestFirst(p, q)
        BY <1>2, <2>1, <2>2, NewestExists
      <3> HIDE DEF found
      <3> QED BY <3>1
    <2>4. StatusOf(r, later) = newest.status
      BY <1>2 DEF StatusOf
    <2> QED BY <2>3, <2>4 DEF StatusRows
  <1> QED BY <1>1, <1>2

\* A MERGE leaves every key of the table there and brings those of its rows.
LEMMA MergedKeys ==
  ASSUME NEW table, NEW good, NEW a
  PROVE  /\ \A x \in table : \E y \in Merged(table, good, a) : y.key = x.key
         /\ \A r \in good : \E y \in Merged(table, good, a) : y.key = Key(r)
  <1> DEFINE matches(x) == { r \in good : Key(r) = x.key }
             Updated(x) == IF matches(x) = {} THEN x
                           ELSE [key |-> x.key, first |-> x.first,
                                 row |-> CHOOSE r \in matches(x) : TRUE, run_id |-> a]
             New(r) == [key |-> Key(r), first |-> r, row |-> r, run_id |-> a]
  <1>1. Merged(table, good, a)
          = { Updated(x) : x \in table }
              \cup { New(r) : r \in { g \in good : \A x \in table : x.key # Key(g) } }
    BY DEF Merged
  <1>2. (\A x : Updated(x).key = x.key) /\ \A r : New(r).key = Key(r)
    OBVIOUS
  <1> HIDE DEF Updated, New
  <1> QED BY <1>1, <1>2

\* Every step keeps the account: nothing leaves a table or the quarantine, and
\* a row that comes in during a run is not among those the run found.
LEMMA AccountNext ==
  ASSUME OrdersAllowed
  PROVE  TypeOK /\ AccountInv /\ [Next]_vars => AccountInv'
  <1> SUFFICES ASSUME TypeOK, AccountInv, [Next]_vars PROVE AccountInv'
    OBVIOUS
  <1>t. /\ pc = [b \in Attempts |-> pc[b]] /\ step = [b \in Attempts |-> step[b]]
        /\ window = [b \in Attempts |-> window[b]]
        /\ present = [b \in Attempts |-> present[b]]
        /\ \A b \in Attempts : step[b] \in Nat
    BY DEF TypeOK
  <1>b. \A r : BelongsTo(r) \subseteq Targets
    BY DEF BelongsTo
  \* What has a place keeps it.
  <1>k. ASSUME bad_records \subseteq bad_records',
               \A t \in Targets : \A x \in silver[t] : \E y \in silver'[t] : y.key = x.key
        PROVE  \A r : \A t \in Targets : Accounted(r, t) => Accounted(r, t)'
    BY <1>k DEF Accounted
  \* The account of a script that does not move.
  <1>o. ASSUME NEW b \in Attempts, pc'[b] = pc[b], step'[b] = step[b],
               window'[b] = window[b], present'[b] = present[b], UNCHANGED bronze,
               \A r : \A t \in Targets : Accounted(r, t) => Accounted(r, t)'
        PROVE  ScriptAccount(b)'
    <2>1. /\ ScriptAccount(b) /\ Visible(b)' = Visible(b)
          /\ \A r : BelongsTo(r)' = BelongsTo(r)
      BY <1>o DEF AccountInv, Visible, BelongsTo
    <2>2. present'[b] \subseteq Visible(b)
      BY <1>o, <2>1 DEF ScriptAccount
    <2>3. pc'[b] \in {"gate", "merge"} =>
            \A r \in present'[b] : \A t \in BelongsTo(r) :
              Accounted(r, t)' \/ ~Bad(r, Visible(b))
      BY <1>o, <1>b, <2>1 DEF ScriptAccount
    <2>4. pc'[b] = "merge" =>
            \A i \in 1..step'[b] : \A r \in present'[b] :
              MergeOrder[i] \in BelongsTo(r) => Accounted(r, MergeOrder[i])'
      BY <1>o, <1>b, <2>1 DEF ScriptAccount
    <2> QED BY <2>1, <2>2, <2>3, <2>4 DEF ScriptAccount
  <1>r. ASSUME UNCHANGED owed,
               \A r : \A t \in Targets : Accounted(r, t) => Accounted(r, t)'
        PROVE  RowsAccounted'
    BY <1>r DEF AccountInv, RowsAccounted, Accounted
  \* The account of a script before its quarantine or after its merges.
  <1>n. ASSUME NEW b \in Attempts, pc'[b] \notin {"gate", "merge"},
               present'[b] \subseteq Visible(b)'
        PROVE  ScriptAccount(b)'
    BY <1>n DEF ScriptAccount
  \* A step of the script of a that merges no row.
  <1>p. ASSUME NEW a \in Attempts, NEW to, to \notin {"gate", "merge"},
               pc' = [pc EXCEPT ![a] = to], \A b \in Attempts : b # a => step'[b] = step[b],
               present' = present \/ present' = [present EXCEPT ![a] = {}],
               UNCHANGED << bronze, silver, bad_records, owed, window >>
        PROVE  AccountInv'
    <2>1. \A r : \A t \in Targets : Accounted(r, t) => Accounted(r, t)'
      BY <1>p, <1>k
    <2>2. \A b \in Attempts : b # a => ScriptAccount(b)'
      <3>1. \A b \in Attempts : b # a => pc'[b] = pc[b] /\ present'[b] = present[b]
        BY <1>p, <1>t
      <3> QED BY <3>1, <1>p, <1>o, <2>1
    <2>3. ScriptAccount(a)'
      <3>1. present'[a] \subseteq present[a] /\ Visible(a)' = Visible(a)
        BY <1>p, <1>t DEF Visible
      <3>2. present[a] \subseteq Visible(a)
        BY DEF AccountInv, ScriptAccount
      <3>3. pc'[a] \notin {"gate", "merge"}
        BY <1>p, <1>t
      <3> QED BY <3>1, <3>2, <3>3, <1>n
    <2>4. RowsAccounted'
      BY <1>p, <1>r, <2>1
    <2> QED BY <1>p, <2>2, <2>3, <2>4 DEF AccountInv
  <1>u. ASSUME UNCHANGED << bronze, silver, bad_records, owed, pc, step, window, present >>
        PROVE  AccountInv'
    <2>1. \A r : \A t \in Targets : Accounted(r, t) => Accounted(r, t)'
      BY <1>u, <1>k
    <2>2. \A b \in Attempts : ScriptAccount(b)'
      BY <1>u, <1>o, <2>1
    <2>3. RowsAccounted'
      BY <1>u, <1>r, <2>1
    <2> QED BY <1>u, <2>2, <2>3 DEF AccountInv
  <1>1. CASE Midnight
    BY <1>1, <1>u DEF Midnight, tables, locals, history
  <1>2. CASE Ingest
    <2>1. PICK f \in Feed, lag \in 0..MaxLag :
            bronze' = bronze \cup {Delivered(f, today - lag, today)}
      BY <1>2 DEF Ingest
    <2> DEFINE new == Delivered(f, today - lag, today)
    <2>2. UNCHANGED << silver, bad_records, owed, pc, step, window, present >>
      BY <1>2 DEF Ingest, tables, locals, history
    <2>3. new.source = "payment_orders_raw" /\ AllowedStatuses # {} =>
            new.status \in AllowedStatuses \cup {None}
      BY DEF Delivered, OrdersAllowed
    <2>4. bronze' \subseteq BronzeRow /\ IsFiniteSet(bronze')
      BY TypingNext DEF TypeOK
    <2> HIDE DEF new
    <2>5. \A r \in bronze' : r.source = "payment_orders_raw" /\ AllowedStatuses # {} =>
                               r.status \in AllowedStatuses \cup {None}
      BY <2>1, <2>3 DEF AccountInv, new
    <2>6. \A a \in Attempts : Visible(a) \subseteq Visible(a)' /\ Visible(a)' \subseteq bronze'
      BY <2>1, <2>2 DEF Visible
    <2>7. ASSUME NEW a \in Attempts, NEW r, ~Bad(r, Visible(a)) PROVE ~Bad(r, Visible(a)')
      <3>1. IsFiniteSet(Visible(a)')
        BY <2>6, <2>4, FS_Subset
      <3> QED BY <2>6, <3>1, <2>4, <2>5, <2>7, GoodStays
    <2>8. RowsAccounted'
      BY <2>2 DEF AccountInv, RowsAccounted
    <2>9. ASSUME NEW a \in Attempts PROVE ScriptAccount(a)'
      <3>1. /\ ScriptAccount(a) /\ \A r, t : Accounted(r, t)' = Accounted(r, t)
            /\ \A r : BelongsTo(r)' = BelongsTo(r)
        BY <2>2 DEF AccountInv, Accounted, BelongsTo
      <3>2. present'[a] \subseteq Visible(a)'
        BY <2>2, <2>6, <3>1 DEF ScriptAccount
      <3>3. pc'[a] \in {"gate", "merge"} =>
              \A r \in present'[a] : \A t \in BelongsTo(r) :
                Accounted(r, t) \/ ~Bad(r, Visible(a)')
        BY <2>2, <2>7, <3>1 DEF ScriptAccount
      <3>4. pc'[a] = "merge" =>
              \A i \in 1..step'[a] : \A r \in present'[a] :
                MergeOrder[i] \in BelongsTo(r) => Accounted(r, MergeOrder[i])
        BY <2>2, <3>1 DEF ScriptAccount
      <3> QED BY <3>1, <3>2, <3>3, <3>4 DEF ScriptAccount
    <2> QED BY <2>5, <2>8, <2>9 DEF AccountInv
  <1>3. ASSUME NEW a \in Attempts, Script(a) PROVE AccountInv'
    <2>1. ASSUME NEW win, Begin(a, win) PROVE AccountInv'
      <3> DEFINE there == { r \in bronze : r.ingested \in win[1]..win[2] }
      <3>1. /\ pc' = [pc EXCEPT ![a] = "count"] /\ window' = [window EXCEPT ![a] = win]
            /\ present' = [present EXCEPT ![a] = there]
            /\ UNCHANGED << bronze, silver, bad_records, owed, step >>
        BY <2>1 DEF Begin, tables
      <3>2. \A r : \A t \in Targets : Accounted(r, t) => Accounted(r, t)'
        BY <3>1, <1>k
      <3>3. \A b \in Attempts : b # a => ScriptAccount(b)'
        <4>1. \A b \in Attempts : b # a => /\ pc'[b] = pc[b] /\ window'[b] = window[b]
                                          /\ present'[b] = present[b]
          BY <3>1, <1>t
        <4> QED BY <3>1, <3>2, <4>1, <1>o
      <3>4. ScriptAccount(a)'
        <4>1. present'[a] = there /\ window'[a] = win /\ pc'[a] = "count"
          BY <3>1, <1>t
        <4>2. present'[a] \subseteq Visible(a)'
          BY <3>1, <4>1 DEF Visible, InWindow
        <4> QED BY <4>1, <4>2, <1>n
      <3>5. RowsAccounted'
        BY <3>1, <3>2, <1>r
      <3> QED BY <3>1, <3>3, <3>4, <3>5 DEF AccountInv
    <2>2. CASE Count(a)
      <3>1. pc[a] = "count" /\ step' = [step EXCEPT ![a] = @ + 1]
            /\ UNCHANGED << bronze, silver, bad_records, owed, pc, window, present >>
        BY <2>2 DEF Count, tables, history
      <3>2. pc' = [pc EXCEPT ![a] = "count"] /\ \A b \in Attempts : b # a => step'[b] = step[b]
        BY <3>1, <1>t
      <3> QED BY <3>1, <3>2, <1>p DEF Active
    <2>3. CASE Quarantine(a)
      <3>1. /\ pc[a] = "count" /\ pc' = [pc EXCEPT ![a] = "gate"]
            /\ bad_records' = bad_records \cup UNION { BadRecords(t, a) : t \in Targets }
            /\ UNCHANGED << bronze, silver, owed, step, window, present >>
        BY <2>3 DEF Quarantine, history
      <3>2. \A r : \A t \in Targets : Accounted(r, t) => Accounted(r, t)'
        BY <3>1, <1>k
      <3>3. ASSUME NEW r \in present[a], NEW t \in BelongsTo(r)
            PROVE  Accounted(r, t)' \/ ~Bad(r, Visible(a))
        <4>1. r \in Visible(a)
          BY DEF AccountInv, ScriptAccount
        <4>2. Bad(r, Visible(a)) => [table |-> t, row |-> r, run_id |-> a] \in BadRecords(t, a)
          BY <4>1 DEF BelongsTo, BadRecords, BadRows, RowsFor
        <4> DEFINE b == [table |-> t, row |-> r, run_id |-> a]
        <4>3. Bad(r, Visible(a)) => b \in bad_records' /\ b.table = t /\ b.row = r
          BY <4>2, <3>1 DEF BelongsTo
        <4> QED BY <4>3 DEF Accounted
      <3>4. /\ present'[a] = present[a] /\ Visible(a)' = Visible(a)
            /\ \A r : BelongsTo(r)' = BelongsTo(r)
        BY <3>1 DEF Visible, BelongsTo
      <3>5. ScriptAccount(a)'
        <4>1. pc'[a] = "gate" /\ present[a] \subseteq Visible(a)
          BY <3>1, <1>t DEF AccountInv, ScriptAccount
        <4> QED BY <4>1, <3>3, <3>4 DEF ScriptAccount
      <3>6. \A b \in Attempts : b # a => ScriptAccount(b)'
        BY <3>1, <3>2, <1>o, <1>t
      <3>7. RowsAccounted'
        BY <3>1, <3>2, <1>r
      <3> QED BY <3>1, <3>5, <3>6, <3>7 DEF AccountInv
    <2>4. CASE PassGate(a)
      <3>1. CASE RateExceeded(counts[a])
        BY <2>4, <3>1, <1>p DEF PassGate, tables, history, Active
      <3>2. CASE ~RateExceeded(counts[a])
        <4>1. /\ pc[a] = "gate" /\ pc' = [pc EXCEPT ![a] = "merge"]
              /\ step' = [step EXCEPT ![a] = 0]
              /\ UNCHANGED << bronze, silver, bad_records, owed, window, present >>
          BY <2>4, <3>2 DEF PassGate, tables, history
        <4>2. \A r : \A t \in Targets : Accounted(r, t) => Accounted(r, t)'
          BY <4>1, <1>k
        <4>3. /\ present'[a] = present[a] /\ Visible(a)' = Visible(a)
              /\ \A r : BelongsTo(r)' = BelongsTo(r)
          BY <4>1 DEF Visible, BelongsTo
        <4>4. ScriptAccount(a)'
          <5>1. pc'[a] = "merge" /\ step'[a] = 0 /\ present[a] \subseteq Visible(a)
            BY <4>1, <1>t DEF AccountInv, ScriptAccount
          <5>2. \A r \in present[a] : \A t \in BelongsTo(r) :
                  Accounted(r, t)' \/ ~Bad(r, Visible(a))
            BY <4>1, <4>2, <1>b DEF AccountInv, ScriptAccount
          <5> QED BY <5>1, <5>2, <4>3 DEF ScriptAccount
        <4>5. \A b \in Attempts : b # a => ScriptAccount(b)'
          BY <4>1, <4>2, <1>o, <1>t
        <4>6. RowsAccounted'
          BY <4>1, <4>2, <1>r
        <4> QED BY <4>1, <4>4, <4>5, <4>6 DEF AccountInv
      <3> QED BY <3>1, <3>2
    <2>5. CASE Merge(a)
      <3>n. PICK n : n = step[a] + 1
        OBVIOUS
      <3>t. PICK t : t = MergeOrder[n]
        OBVIOUS
      <3> DEFINE good == GoodRows(t, Visible(a))
      <3>1. /\ pc[a] = "merge" /\ step' = [step EXCEPT ![a] = n]
            /\ UNCHANGED << bronze, bad_records, owed, pc, window, present >>
        BY <2>5, <3>n DEF Merge, history
      <3>2. n \in 1..5 /\ t \in Targets
        BY <2>5, <3>n, <3>t, <1>t, MergeOrderFacts DEF Merge
      <3>3. silver' = [silver EXCEPT ![t] = Merged(silver[t], good, a)]
        BY <2>5, <3>n, <3>t DEF Merge
      <3>4. /\ silver'[t] = Merged(silver[t], good, a)
            /\ \A u \in Targets : u # t => silver'[u] = silver[u]
        BY <3>2, <3>3 DEF TypeOK
      <3>5. \A r : \A u \in Targets : Accounted(r, u) => Accounted(r, u)'
        <4>1. \A u \in Targets : \A x \in silver[u] : \E y \in silver'[u] : y.key = x.key
          BY <3>4, MergedKeys
        <4> QED BY <3>1, <4>1, <1>k
      <3>6. ASSUME NEW r \in present[a], t \in BelongsTo(r) PROVE Accounted(r, t)'
        <4>1. r \in Visible(a) /\ r.source \in SourcesOf[t]
          BY <3>6 DEF AccountInv, ScriptAccount, BelongsTo
        <4>2. Accounted(r, t) \/ ~Bad(r, Visible(a))
          BY <3>1, <3>6 DEF AccountInv, ScriptAccount
        <4>3. CASE ~Bad(r, Visible(a))
          <5>1. r \in good
            BY <4>1, <4>3 DEF GoodRows, BadRows, RowsFor
          <5>2. \E y \in silver'[t] : y.key = Key(r)
            BY <3>4, <5>1, MergedKeys
          <5> QED BY <5>2 DEF Accounted
        <4>4. CASE Accounted(r, t)
          BY <3>2, <3>5, <4>4
        <4> QED BY <4>2, <4>3, <4>4
      <3>7. /\ present'[a] = present[a] /\ Visible(a)' = Visible(a)
            /\ \A r : BelongsTo(r)' = BelongsTo(r)
        BY <3>1 DEF Visible, BelongsTo
      <3>8. RowsAccounted'
        BY <3>1, <3>5, <1>r
      <3>9. ScriptAccount(a)'
        <4>1. pc'[a] = "merge" /\ step'[a] = n /\ present[a] \subseteq Visible(a)
          BY <3>1, <1>t DEF AccountInv, ScriptAccount
        <4>2. \A r \in present[a] : \A u \in BelongsTo(r) :
                Accounted(r, u)' \/ ~Bad(r, Visible(a))
          BY <3>1, <3>5, <1>b DEF AccountInv, ScriptAccount
        <4>3. ASSUME NEW i \in 1..n, NEW r \in present[a], MergeOrder[i] \in BelongsTo(r)
              PROVE  Accounted(r, MergeOrder[i])'
          <5>1. CASE i = n
            BY <5>1, <4>3, <3>6, <3>t
          <5>2. CASE i # n
            <6>1. i \in 1..step[a]
              BY <5>2, <4>3, <3>n, <1>t
            <6>2. Accounted(r, MergeOrder[i])
              BY <3>1, <4>3, <6>1 DEF AccountInv, ScriptAccount
            <6> QED BY <3>5, <4>3, <6>2, <1>b
          <5> QED BY <5>1, <5>2
        <4> QED BY <4>1, <4>2, <4>3, <3>7 DEF ScriptAccount
      <3>10. \A b \in Attempts : b # a => ScriptAccount(b)'
        BY <3>1, <3>5, <1>o, <1>t
      <3> QED BY <3>1, <3>8, <3>9, <3>10 DEF AccountInv
    <2>6. CASE CommitSuccess(a)
      <3>1. /\ pc[a] = "merge" /\ step[a] = 5 /\ pc' = [pc EXCEPT ![a] = "succeeded"]
            /\ step' = [step EXCEPT ![a] = 0]
            /\ owed' = owed \cup present[a] /\ present' = [present EXCEPT ![a] = {}]
            /\ UNCHANGED << bronze, silver, bad_records, window >>
        BY <2>6, MergeOrderFacts DEF CommitSuccess
      <3>2. \A r \in present[a] : \A t \in BelongsTo(r) : Accounted(r, t)
        <4>1. \A t \in Targets : \E i \in 1..5 : t = MergeOrder[i]
          BY MergeOrderFacts DEF Targets
        <4> QED BY <3>1, <4>1, <1>b DEF AccountInv, ScriptAccount
      <3>3. \A r : \A t \in Targets : Accounted(r, t) => Accounted(r, t)'
        BY <3>1, <1>k
      <3>4. RowsAccounted'
        <4>1. ASSUME NEW r \in owed', NEW t \in BelongsTo(r) PROVE Accounted(r, t)'
          <5>1. Accounted(r, t)
            BY <3>1, <3>2, <4>1 DEF AccountInv, RowsAccounted, Accounted, BelongsTo
          <5> QED BY <5>1, <3>3, <1>b
        <4> QED BY <3>1, <4>1 DEF RowsAccounted, Accounted, BelongsTo
      <3>7. ScriptAccount(a)'
        <4>1. pc'[a] = "succeeded" /\ present'[a] = {}
          BY <3>1, <1>t
        <4> QED BY <4>1, <1>n
      <3>8. \A b \in Attempts : b # a => ScriptAccount(b)'
        BY <3>1, <3>3, <1>o, <1>t
      <3> QED BY <3>1, <3>4, <3>7, <3>8 DEF AccountInv
    <2>7. CASE Raise(a)
      BY <2>7, <1>p DEF Raise, tables, history, Active
    <2>8. CASE LoadForFailure(a)
      BY <2>8, <1>p DEF LoadForFailure, tables, history, Active
    <2>9. CASE CommitFailure(a)
      <3>1. /\ pc[a] = "report" /\ pc' = [pc EXCEPT ![a] = "failed"]
            /\ step' = [step EXCEPT ![a] = 0]
            /\ present' = [present EXCEPT ![a] = {}]
            /\ UNCHANGED << bronze, silver, bad_records, owed, window >>
        BY <2>9 DEF CommitFailure
      <3> QED BY <3>1, <1>p, <1>t DEF Active
    <2>10. CASE Kill(a)
      <3>1. /\ Active(a) /\ pc' = [pc EXCEPT ![a] = "dead"] /\ step' = [step EXCEPT ![a] = 0]
            /\ present' = [present EXCEPT ![a] = {}]
            /\ UNCHANGED << bronze, silver, bad_records, owed, window >>
        BY <2>10 DEF Kill, tables
      <3> QED BY <3>1, <1>p, <1>t
    <2>11. CASE StartDefault(a)
      BY <2>11, <2>1 DEF StartDefault
    <2>12. CASE StartBackfill(a)
      BY <2>12, <2>1 DEF StartBackfill
    <2> QED BY <1>3, <2>2, <2>3, <2>4, <2>5, <2>6, <2>7, <2>8, <2>9, <2>10, <2>11, <2>12
            DEF Script
  <1>4. CASE UNCHANGED vars
    BY <1>4, <1>u DEF vars, tables, locals, history
  <1> QED BY <1>1, <1>2, <1>3, <1>4 DEF Next, Finished

\* Unless an order status that is not allowed may come in, no row that was there
\* when a successful run started, ingested on a day of its windows, is missing
\* from both its silver table and the quarantine.
THEOREM RowsStayAccounted ==
  ASSUME OrdersAllowed
  PROVE  Spec => []RowsAccounted
  <1>1. Init => AccountInv
    BY DEF Init, AccountInv, ScriptAccount, RowsAccounted, Active
  <1>2. AccountInv => RowsAccounted
    BY DEF AccountInv
  <1>3. TypeOK /\ AccountInv /\ [Next]_vars => AccountInv'
    BY AccountNext
  <1> QED BY <1>1, <1>2, <1>3, Typing, PTL DEF Spec

-----------------------------------------------------------------------------
(* Readiness.  One mark stands for all the days before it.  It does so as   *)
(* long as no run jumps over a day, wherever failures, retries and          *)
(* backfills of days long past leave the mark meanwhile.                    *)

\* What nothing in the code sees to: a run that succeeds begins no later than
\* the first day processed, or right after a day that was processed.
SkipsNoDay ==
  \A a \in Attempts : CommitSuccess(a) =>
    origin = None \/ window[a][1] <= origin \/ window[a][1] - 1 \in covered

\* The days processed have no gap from the first one on, and the mark is the
\* end of one of them.
GapFreeInv ==
  /\ \A a \in Attempts : window[a][1] <= window[a][2]
  /\ origin = None => ProcessedEnd(pipeline_state) = None /\ covered = {}
  /\ origin # None =>
       /\ \A d \in covered : \A e \in origin..d : e \in covered
       /\ ProcessedEnd(pipeline_state) # None =>
            ProcessedEnd(pipeline_state) - 1 \in covered

\* A success adds days next to those there are; a failure leaves the mark.
LEMMA GapFreeNext ==
  TypeOK /\ ReportInv /\ GapFreeInv /\ [Next]_vars /\ [SkipsNoDay]_vars => GapFreeInv'
  <1> SUFFICES ASSUME TypeOK, ReportInv, GapFreeInv, [Next]_vars, [SkipsNoDay]_vars
               PROVE  GapFreeInv'
    OBVIOUS
  <1>u. CASE UNCHANGED << window, pipeline_state, origin, covered >>
    BY <1>u DEF GapFreeInv
  <1>1. ASSUME NEW a \in Attempts, NEW win, Begin(a, win), win[1] <= win[2]
        PROVE  GapFreeInv'
    <2>1. /\ window' = [window EXCEPT ![a] = win]
          /\ UNCHANGED << pipeline_state, origin, covered >>
      BY <1>1 DEF Begin, tables
    <2>2. \A b \in Attempts : window'[b][1] <= window'[b][2]
      BY <1>1, <2>1 DEF TypeOK, GapFreeInv
    <2> QED BY <2>1, <2>2 DEF GapFreeInv
  <1>2. ASSUME NEW a \in Attempts, CommitSuccess(a) PROVE GapFreeInv'
    <2> DEFINE lo == window[a][1]
               hi == window[a][2]
    <2>0. ProcessedEnd(pipeline_state') \in {None, hi + 1}
      <3>1. pipeline_state' = ApplySuccess(a, hi + 1, None, today)
        BY <1>2 DEF CommitSuccess
      <3>2. ApplySuccess(a, hi + 1, None, today).last_processed_end = hi + 1
        BY DEF ApplySuccess
      <3> QED BY <3>1, <3>2 DEF ProcessedEnd
    <2>1. /\ origin' = IF origin = None THEN lo ELSE origin
          /\ covered' = covered \cup lo..hi
          /\ window' = window
          /\ \A b \in Attempts : window'[b][1] <= window'[b][2]
      BY <1>2 DEF CommitSuccess, GapFreeInv
    <2>2. lo \in Int /\ hi \in Int /\ lo <= hi /\ None \notin Int
      BY SilverRunAssumption, NoneAssumption DEF TypeOK, GapFreeInv
    <2>3. hi + 1 # None /\ hi + 1 - 1 \in covered' /\ origin' # None
      BY <2>1, <2>2
    <2>4. CASE origin = None
      <3>1. covered = {} \/ origin # None
        BY DEF GapFreeInv
      <3> QED BY <2>0, <2>1, <2>2, <2>3, <2>4, <3>1 DEF GapFreeInv
    <2>5. CASE origin # None
      <3>1. origin \in Int /\ covered \subseteq Int
        BY <2>5 DEF TypeOK, Optional
      <3>2. pc'[a] # pc[a]
        BY <1>2 DEF CommitSuccess, TypeOK
      <3>3. lo <= origin \/ lo - 1 \in covered
        BY <1>2, <2>5, <3>2 DEF SkipsNoDay, vars, locals
      <3>4. \A d \in covered' : \A e \in origin..d : e \in covered'
        <4> SUFFICES ASSUME NEW d \in lo..hi, NEW e \in origin..d PROVE e \in covered'
          BY <2>1 DEF GapFreeInv
        <4>1. CASE e >= lo
          BY <2>1, <2>2, <3>1, <4>1
        <4>2. CASE e < lo
          <5>1. lo - 1 \in covered /\ e \in origin..(lo - 1)
            BY <2>2, <3>1, <3>3, <4>2
          <5>2. e \in covered
            BY <2>5, <5>1 DEF GapFreeInv
          <5> QED BY <2>1, <5>2
        <4> QED BY <2>2, <3>1, <4>1, <4>2
      <3>5. ASSUME ProcessedEnd(pipeline_state') # None
            PROVE  ProcessedEnd(pipeline_state') - 1 \in covered'
        <4>1. ProcessedEnd(pipeline_state') = hi + 1
          BY <2>0, <3>5
        <4> HIDE DEF hi
        <4> QED BY <2>2, <2>3, <4>1
      <3>6. origin' = origin
        BY <2>1, <2>5
      <3> QED BY <2>1, <2>5, <3>4, <3>5, <3>6 DEF GapFreeInv
    <2> QED BY <2>4, <2>5
  <1>3. ASSUME NEW a \in Attempts, CommitFailure(a) PROVE GapFreeInv'
    <2>1. /\ pipeline_state' = ApplyFailure(pipeline_state, a, today)
          /\ UNCHANGED << window, origin, covered >>
      BY <1>3 DEF CommitFailure, ReportInv
    <2>2. ProcessedEnd(pipeline_state') \in {None, ProcessedEnd(pipeline_state)}
      <3>1. CASE pipeline_state = None
        BY <2>1, <3>1 DEF ApplyFailure, BlankRow, ProcessedEnd
      <3>2. CASE pipeline_state # None
        <4>1. pipeline_state \in StateRow(Attempts, {None})
          BY <3>2 DEF TypeOK, Optional
        <4>2. ApplyFailure(pipeline_state, a, today).last_processed_end
                = pipeline_state.last_processed_end
          BY <3>2, <4>1 DEF ApplyFailure, StateRow
        <4> QED BY <2>1, <3>2, <4>2 DEF ProcessedEnd
      <3> QED BY <3>1, <3>2
    <2> QED BY <2>1, <2>2 DEF GapFreeInv
  <1>4. ASSUME NEW a \in Attempts, StartDefault(a) \/ StartBackfill(a) PROVE GapFreeInv'
    <2>1. CASE StartDefault(a)
      BY <2>1, <1>1 DEF StartDefault, TypeOK
    <2>2. CASE StartBackfill(a)
      BY <2>2, <1>1, SilverRunAssumption DEF StartBackfill
    <2> QED BY <1>4, <2>1, <2>2
  <1> QED BY <1>u, <1>2, <1>3, <1>4
          DEF Next, Midnight, Ingest, Finished, vars, tables, locals, history, Script, Count,
              Quarantine, PassGate, Merge, Raise, LoadForFailure, Kill

\* As long as runs skip no day, what assert_pipeline_ready lets through is there:
\* a day below the mark was processed by a run that succeeded.
THEOREM ReadinessIsEarned ==
  Spec /\ [][SkipsNoDay]_vars => []ReadyMeansProcessed
  <1>1. Init => ReportInv /\ GapFreeInv
    BY SilverRunAssumption DEF Init, ReportInv, Active, GapFreeInv, ProcessedEnd
  <1>2. TypeOK /\ GapFreeInv => ReadyMeansProcessed
    <2> SUFFICES ASSUME TypeOK, GapFreeInv, NEW d \in FirstDay..Horizon, origin # None,
                        origin <= d, Ready(pipeline_state, d + 1)
                 PROVE  d \in covered
      BY DEF ReadyMeansProcessed
    <2> DEFINE end == ProcessedEnd(pipeline_state)
    <2>1. end # None /\ end >= d + 1 /\ end - 1 \in covered
      BY DEF Ready, GapFreeInv
    <2>2. end \in Int /\ origin \in Int /\ d \in Int
      BY <2>1, SilverRunAssumption DEF TypeOK, ProcessedEnd, StateRow, Optional
    <2> HIDE DEF end
    <2>3. d \in origin..(end - 1)
      BY <2>1, <2>2
    <2> QED BY <2>1, <2>3 DEF GapFreeInv
  <1> QED BY <1>1, <1>2, Typing, ReportNext, GapFreeNext, PTL DEF Spec

=============================================================================
