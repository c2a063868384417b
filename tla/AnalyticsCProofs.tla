-------------------------- MODULE AnalyticsCProofs --------------------------
(***************************************************************************)
(* Proofs about AnalyticsC: its type invariant, that a partition is the    *)
(* work of one run, that a run changes no day outside its window, that     *)
(* nothing is published for a day Silver never reached, that reruns        *)
(* converge, and that the state row behaves as ProgressRow says.           *)
(***************************************************************************)
EXTENDS AnalyticsC, TLAPS

(* The attempts.  TypeOK is not inductive: an attempt that got beyond its   *)
(* start has parameters that were accepted.                                 *)

Runnable(p) ==
  \E payload \in {Blank} \cup Requests, d \in FirstDay..Horizon :
    LET q == InjectDefaultDailyBackfill(payload, DayStart(d))
    IN  Accepted(q) /\ p = FromMapping(q)

RunInv ==
  /\ \A a, b \in Attempts : Active(a) /\ Active(b) => a = b
  /\ \A a \in Attempts :
       /\ pc[a] \notin {"idle", "dead"} => Runnable(params[a])
       /\ pc[a] = "report_failure" => current_state[a] = pipeline_state
       /\ pc[a] = "write" => dates[a] \subseteq WindowDays(params[a])
  /\ \A r \in fact : pc[r.run_id] # "idle"

-----------------------------------------------------------------------------
(* Days and instants. *)

\* Days begin one after the other.
LEMMA DayOrder ==
  ASSUME NEW c \in Int, NEW d \in Int
  PROVE  /\ DayStart(d) \in Int
         /\ c < d => DayStart(c + 1) <= DayStart(d) /\ DayStart(c) < DayStart(d)
  <1>1. TicksPerDay \in Nat \ {0}
    BY JobParamsAssumption
  <1>2. ASSUME NEW x \in Int, NEW y \in Int, x <= y
        PROVE  x * TicksPerDay <= y * TicksPerDay
    BY <1>1, <1>2
  <1>3. DayStart(c + 1) = DayStart(c) + TicksPerDay
    BY <1>1 DEF DayStart
  <1>4. DayStart(d) \in Int /\ DayStart(c) \in Int
    BY <1>1 DEF DayStart
  <1>5. c < d => DayStart(c + 1) <= DayStart(d)
    BY <1>2 DEF DayStart
  <1> QED BY <1>1, <1>3, <1>4, <1>5

\* An instant lies in the day DateKst gives for it.
LEMMA DayOfInstant ==
  ASSUME NEW t \in Int
  PROVE  DateKst(t) \in Int /\ DayStart(DateKst(t)) <= t /\ t < DayStart(DateKst(t) + 1)
  <1>1. TicksPerDay \in Nat \ {0}
    BY JobParamsAssumption
  <1>2. DateKst(t) \in Int
    BY <1>1 DEF DateKst
  <1>3. /\ t = TicksPerDay * (t \div TicksPerDay) + (t % TicksPerDay)
        /\ t % TicksPerDay \in 0 .. TicksPerDay - 1
    BY <1>1
  <1>4. DayStart(DateKst(t) + 1) = DayStart(DateKst(t)) + TicksPerDay
    BY <1>1, <1>2 DEF DayStart
  <1>5. DayStart(DateKst(t)) = TicksPerDay * (t \div TicksPerDay) /\ DayStart(DateKst(t)) \in Int
    BY <1>1, <1>2 DEF DayStart, DateKst
  <1> QED BY <1>1, <1>2, <1>3, <1>4, <1>5

\* An instant lies in one day only.
LEMMA DayIsUnique ==
  ASSUME NEW t \in Int, NEW d \in Int, DayStart(d) <= t, t < DayStart(d + 1)
  PROVE  DateKst(t) = d
  <1> DEFINE k == DateKst(t)
  <1>1. k \in Int /\ DayStart(k) <= t /\ t < DayStart(k + 1)
    BY DayOfInstant
  <1>2. /\ DayStart(k) \in Int /\ DayStart(k + 1) \in Int
        /\ DayStart(d) \in Int /\ DayStart(d + 1) \in Int
    BY <1>1, DayOrder
  <1>3. k < d => DayStart(k + 1) <= DayStart(d)
    BY <1>1, DayOrder
  <1>4. d < k => DayStart(d + 1) <= DayStart(k)
    BY <1>1, DayOrder
  <1> HIDE DEF k
  <1>5. k = d
    BY <1>1, <1>2, <1>3, <1>4
  <1> QED BY <1>5 DEF k

\* The day that begins at the start of day d is d.
LEMMA DayOfStart ==
  ASSUME NEW d \in Int
  PROVE  DateKst(DayStart(d)) = d
  <1>1. DayStart(d) \in Int /\ DayStart(d) < DayStart(d + 1)
    BY DayOrder
  <1> QED BY <1>1, DayIsUnique

\* A later instant is not in an earlier day.
LEMMA DayMonotone ==
  ASSUME NEW s \in Int, NEW t \in Int, s <= t
  PROVE  DateKst(s) <= DateKst(t)
  <1> DEFINE j == DateKst(s)
             k == DateKst(t)
  <1>1. /\ j \in Int /\ DayStart(j) <= s
        /\ k \in Int /\ t < DayStart(k + 1)
    BY DayOfInstant
  <1>2. DayStart(j) \in Int /\ DayStart(k + 1) \in Int
    BY <1>1, DayOrder
  <1>3. k < j => DayStart(k + 1) <= DayStart(j)
    BY <1>1, DayOrder
  <1> HIDE DEF j, k
  <1>4. j <= k
    BY <1>1, <1>2, <1>3
  <1> QED BY <1>4 DEF j, k

\* The window of an attempt that runs: it has both timestamps or both dates,
\* and an end that a payload or a day gives.
LEMMA WindowFacts ==
  ASSUME NEW p, Runnable(p)
  PROVE  /\ p \in Payload
         /\ ProcessedEndUtc(p) \in Ends
         /\ ProcessedEndUtc(p) \in Int
         /\ \/ p.start_ts # None /\ p.end_ts # None /\ p.start_ts < p.end_ts
            \/ /\ p.start_ts = None \/ p.end_ts = None
               /\ p.date_kst_start # None /\ p.date_kst_end # None
  <1> USE NoneAssumption, AnalyticsCAssumption
  <1>1. PICK payload \in {Blank} \cup Requests, d \in FirstDay..Horizon :
          /\ Accepted(InjectDefaultDailyBackfill(payload, DayStart(d)))
          /\ p = FromMapping(InjectDefaultDailyBackfill(payload, DayStart(d)))
    BY DEF Runnable
  <1> DEFINE q == InjectDefaultDailyBackfill(payload, DayStart(d))
  <1>2. q = payload \/ q = [Blank EXCEPT !.run_mode       = "backfill",
                                         !.date_kst_start = d - 1,
                                         !.date_kst_end   = d - 1]
    <2>1. d \in Int
      OBVIOUS
    <2>2. DateKst(DayStart(d)) = d
      BY <2>1, DayOfStart
    <2> QED BY <2>2 DEF InjectDefaultDailyBackfill
  <1>3. q \in Payload
    <2>1. payload \in Payload /\ d - 1 \in Int
      BY DEF Blank, Payload, Optional
    <2> HIDE DEF q
    <2> QED BY <1>2, <2>1 DEF Blank, Payload, Optional
  <1>4. p = FromMapping(q) /\ Accepted(q)
    BY <1>1
  <1> HIDE DEF q
  <1>5. /\ q.start_ts # None => DateKst(q.start_ts) \in Int
        /\ q.end_ts # None => DateKst(q.end_ts - 1) \in Int
    BY <1>3, DayOfInstant DEF Payload, Optional
  <1>6. /\ p.run_mode = q.run_mode /\ p.start_ts = q.start_ts /\ p.end_ts = q.end_ts
        /\ p.date_kst_start \in Optional(Int) /\ p.date_kst_end \in Optional(Int)
        /\ p \in Payload
    <2>1. CASE q.run_mode # "backfill"
      BY <1>3, <1>4, <2>1 DEF FromMapping, Payload
    <2>2. CASE q.run_mode = "backfill"
      <3> DEFINE lo == IF q.date_kst_start = None /\ q.start_ts # None
                       THEN DateKst(q.start_ts) ELSE q.date_kst_start
                 hi == IF q.date_kst_end = None /\ q.end_ts # None
                       THEN DateKst(q.end_ts - 1) ELSE q.date_kst_end
      <3>1. lo \in Optional(Int) /\ hi \in Optional(Int)
        BY <1>3, <1>5 DEF Payload, Optional
      <3>2. p = [q EXCEPT !.date_kst_start = lo, !.date_kst_end = hi]
        BY <1>4, <2>2 DEF FromMapping
      <3> HIDE DEF lo, hi
      <3> QED BY <1>3, <3>1, <3>2 DEF Payload
    <2> QED BY <2>1, <2>2
  <1>7. \/ p.start_ts # None /\ p.end_ts # None /\ p.start_ts < p.end_ts
        \/ /\ p.start_ts = None \/ p.end_ts = None
           /\ p.date_kst_start # None /\ p.date_kst_end # None
    <2>1. p.run_mode \in {"incremental", "backfill"}
      BY <1>3, <1>4, <1>6 DEF Accepted, Payload, Optional
    <2> QED BY <1>4, <2>1 DEF Accepted
  <1>8. ProcessedEndUtc(p) \in Int
    BY <1>6, <1>7, DayOrder DEF ProcessedEndUtc, Payload, Optional
  <1>9. ProcessedEndUtc(p) \in Ends
    <2>1. CASE payload \in Requests /\ q = payload
      BY <1>4, <2>1 DEF Ends
    <2>2. CASE q = [Blank EXCEPT !.run_mode       = "backfill",
                                 !.date_kst_start = d - 1,
                                 !.date_kst_end   = d - 1]
      <3>1. p.end_ts = None /\ p.date_kst_end = d - 1
        BY <1>4, <2>2 DEF FromMapping, Blank
      <3>2. ProcessedEndUtc(p) = DayStart(d)
        BY <3>1 DEF ProcessedEndUtc
      <3> QED BY <3>2 DEF Ends
    <2>3. payload \notin Requests => payload = Blank
      OBVIOUS
    <2>4. payload = Blank => q # payload
      <3>1. payload = Blank => q.run_mode = "backfill"
        BY DEF q, InjectDefaultDailyBackfill, Blank
      <3> QED BY <1>4, <3>1 DEF Accepted, FromMapping, Blank
    <2> QED BY <1>2, <2>1, <2>2, <2>3, <2>4
  <1> QED BY <1>6, <1>7, <1>8, <1>9

\* The days of a window begin before its end, unless the payload was mixed.
LEMMA WindowBehindEnd ==
  ASSUME NEW p, Runnable(p), ~Mixed(p), NEW d \in WindowDays(p)
  PROVE  d \in Int /\ DayStart(d) < ProcessedEndUtc(p)
  <1>1. CASE p.start_ts # None /\ p.end_ts # None
    <2>1. p.start_ts \in Int /\ p.end_ts \in Int
      BY <1>1, WindowFacts DEF Payload, Optional
    <2> DEFINE last == DateKst(p.end_ts - 1)
    <2>2. last \in Int /\ DayStart(last) <= p.end_ts - 1
      BY <2>1, DayOfInstant
    <2>3. DateKst(p.start_ts) \in Int
      BY <2>1, DayOfInstant
    <2>4. d \in Int /\ d <= last
      BY <1>1, <2>2, <2>3 DEF WindowDays
    <2>5. DayStart(d) \in Int /\ DayStart(last) \in Int /\ DayStart(d) <= DayStart(last)
      <3> HIDE DEF last
      <3>1. d = last \/ d < last
        BY <2>2, <2>4
      <3>2. DayStart(d) \in Int /\ DayStart(last) \in Int
        BY <2>2, <2>4, DayOrder
      <3>3. d < last => DayStart(d) < DayStart(last)
        BY <2>2, <2>4, DayOrder
      <3> QED BY <3>1, <3>2, <3>3
    <2>6. DayStart(d) < p.end_ts
      BY <2>1, <2>2, <2>5
    <2> QED BY <1>1, <2>4, <2>6 DEF ProcessedEndUtc
  <1>2. CASE ~(p.start_ts # None /\ p.end_ts # None)
    <2>1. p.date_kst_start \in Int /\ p.date_kst_end \in Int
      BY <1>2, WindowFacts DEF Payload, Optional
    <2>2. d \in p.date_kst_start .. p.date_kst_end
      BY <1>2, WindowFacts DEF WindowDays, TargetDates
    <2>3. d \in Int /\ d <= p.date_kst_end
      BY <2>1, <2>2
    <2>4. /\ DayStart(d) \in Int /\ DayStart(p.date_kst_end) \in Int
          /\ DayStart(d) <= DayStart(p.date_kst_end)
          /\ DayStart(d) < DayStart(p.date_kst_end + 1)
      <3> DEFINE k == p.date_kst_end
      <3>1. k \in Int /\ k + 1 \in Int /\ d < k + 1 /\ (d = k \/ d < k)
        BY <2>1, <2>3
      <3> HIDE DEF k
      <3>2. DayStart(d) \in Int /\ DayStart(k) \in Int /\ DayStart(d) < DayStart(k + 1)
        BY <2>3, <3>1, DayOrder
      <3>3. d < k => DayStart(d) < DayStart(k)
        BY <2>3, <3>1, DayOrder
      <3>4. DayStart(d) <= DayStart(k)
        BY <3>1, <3>2, <3>3
      <3> QED BY <3>2, <3>4 DEF k
    <2>5. CASE p.end_ts = None
      BY <2>3, <2>4, <2>5 DEF ProcessedEndUtc
    <2>6. CASE p.end_ts # None
      <3>1. p.end_ts \in Int /\ p.start_ts = None
        BY <1>2, <2>6, WindowFacts DEF Payload, Optional
      <3>2. DayStart(p.date_kst_end) < p.end_ts
        BY <2>4, <2>6, <3>1 DEF Mixed
      <3>3. DayStart(d) < p.end_ts
        BY <2>4, <3>1, <3>2
      <3> QED BY <2>3, <2>6, <3>3 DEF ProcessedEndUtc
    <2> QED BY <2>5, <2>6
  <1> QED BY <1>1, <1>2

-----------------------------------------------------------------------------
(* What an attempt computes. *)

\* The date of an event, as Silver stores it, is the day of its time.
LEMMA EventDates ==
  ASSUME NEW e \in Events
  PROVE  /\ EventDate(e) = e.event_date_kst
         /\ EventDate(e) # None => EventDate(e) \in Days
         /\ EventDate(e) # None => e.event_time \in Int /\ EventDate(e) = DateKst(e.event_time)
  <1>1. /\ e.event_time \in Optional(Int)
        /\ e.event_date_kst = IF e.event_time = None THEN None ELSE DateKst(e.event_time)
        /\ EventDate(e) \in Optional(Days)
    BY AnalyticsCAssumption
  <1>2. e.event_time # None => e.event_time \in Int /\ DateKst(e.event_time) \in Int
    BY <1>1, DayOfInstant DEF Optional
  <1>3. EventDate(e) = e.event_date_kst
    BY <1>1, <1>2, NoneAssumption DEF EventDate
  <1> QED BY <1>1, <1>2, <1>3 DEF Optional

\* The rows of a frame are of its attempt and of the days of its window.
LEMMA FrameRows ==
  ASSUME TypeOK, NEW a \in Attempts, Runnable(params[a]), NEW r \in Frame(a)
  PROVE  r.run_id = a /\ r.date_kst \in Days /\ r.date_kst \in WindowDays(params[a])
  <1> DEFINE p == params[a]
  <1>1. PICK e \in order_events :
          /\ InWindow(e, p) /\ Kept(e)
          /\ r = FactRow(e, CategoryOf(e.order_ref, order_items, Products), a)
    BY DEF Frame, TransformFact
  <1>2. r.run_id = a /\ r.date_kst = EventDate(e)
    BY <1>1 DEF FactRow
  <1>3. e \in Events /\ EventDate(e) # None
    BY <1>1 DEF TypeOK, Kept
  <1>4. /\ EventDate(e) \in Days /\ EventDate(e) = e.event_date_kst
        /\ e.event_time \in Int /\ EventDate(e) = DateKst(e.event_time)
    BY <1>3, EventDates
  <1>5. EventDate(e) \in WindowDays(p)
    <2>1. CASE p.start_ts # None /\ p.end_ts # None
      <3>1. p.start_ts \in Int /\ p.end_ts \in Int
        BY <2>1, WindowFacts DEF Payload, Optional
      <3>2. p.start_ts <= e.event_time /\ e.event_time <= p.end_ts - 1
        BY <1>1, <2>1, <3>1, <1>4 DEF InWindow
      <3>3. /\ DateKst(p.start_ts) <= DateKst(e.event_time)
            /\ DateKst(e.event_time) <= DateKst(p.end_ts - 1)
        BY <3>1, <3>2, <1>4, DayMonotone
      <3>4. /\ DateKst(p.start_ts) \in Int /\ DateKst(e.event_time) \in Int
            /\ DateKst(p.end_ts - 1) \in Int
        BY <3>1, <1>4, DayOfInstant
      <3> QED BY <2>1, <3>3, <3>4, <1>4 DEF WindowDays
    <2>2. CASE ~(p.start_ts # None /\ p.end_ts # None)
      BY <1>1, <1>4, <2>2 DEF InWindow, WindowDays
    <2> QED BY <2>1, <2>2
  <1> QED BY <1>2, <1>4, <1>5

-----------------------------------------------------------------------------
(* Types and the attempts. *)

\* Rows reported through apply_pipeline_state are rows of the table.
LEMMA AppliedTyped ==
  ASSUME NEW a \in Attempts, NEW end \in Int, NEW now \in Int,
         NEW current \in Optional(StateRow(Attempts, {None}))
  PROVE  /\ ApplySuccess(a, end, None, now) \in StateRow(Attempts, {None})
         /\ ApplyFailure(current, a, now) \in StateRow(Attempts, {None})
  <1>1. ApplySuccess(a, end, None, now) \in StateRow(Attempts, {None})
    BY DEF ApplySuccess, StateRow, Status, Optional
  <1>2. BlankRow(now) \in StateRow(Attempts, {None})
    BY DEF BlankRow, StateRow, Status, Optional
  <1>3. ApplyFailure(current, a, now) \in StateRow(Attempts, {None})
    BY <1>2 DEF ApplyFailure, StateRow, Status, Optional
  <1> QED BY <1>1, <1>3

\* The initial state is well typed, and no attempt has started.
LEMMA TypingInit == Init => TypeOK /\ RunInv
  <1> SUFFICES ASSUME Init PROVE TypeOK /\ RunInv
    OBVIOUS
  <1>1. TypeOK
    BY AnalyticsCAssumption DEF Init, TypeOK, Optional
  <1>2. RunInv
    BY DEF Init, RunInv, Active
  <1> QED BY <1>1, <1>2

\* Every step of Silver and of the script keeps the types.
LEMMA TypingNext == TypeOK /\ RunInv /\ [Next]_vars => TypeOK'
  <1> SUFFICES ASSUME TypeOK, RunInv, [Next]_vars PROVE TypeOK'
    OBVIOUS
  <1> USE AnalyticsCAssumption
  <1> DEFINE pcs == {"idle", "check", "count", "collect", "write", "report",
                     "failing", "report_failure", "succeeded", "failed", "dead"}
  <1>d. today \in Int
    BY DEF TypeOK
  \* A step of a script that only moves on.
  <1>p. ASSUME NEW a \in Attempts, NEW to \in pcs, pc' = [pc EXCEPT ![a] = to],
               UNCHANGED << today, silver, gold, params, dates, current_state, history >>
        PROVE  TypeOK'
    BY <1>p DEF silver, gold, history, TypeOK
  <1>1. CASE Midnight
    <2>1. today' \in FirstDay..Horizon
      BY <1>1 DEF Midnight, TypeOK
    <2> QED BY <1>1, <2>1 DEF Midnight, silver, gold, locals, history, TypeOK
  <1>2. CASE SilverMergesEvent
    <2>1. order_events' \subseteq Events /\ steady' = {} /\ settled' = {}
      BY <1>2 DEF SilverMergesEvent, TypeOK
    <2>2. UNCHANGED << today, order_items, silver_state, gold, locals, silver_high >>
      BY <1>2 DEF SilverMergesEvent
    <2> QED BY <2>1, <2>2 DEF gold, locals, TypeOK
  <1>3. CASE SilverMergesItem
    <2>1. order_items' \subseteq Items /\ steady' = {} /\ settled' = {}
      BY <1>3 DEF SilverMergesItem, TypeOK
    <2>2. UNCHANGED << today, order_events, silver_state, gold, locals, silver_high >>
      BY <1>3 DEF SilverMergesItem
    <2> QED BY <2>1, <2>2 DEF gold, locals, TypeOK
  <1>4. CASE SilverReports
    <2>1. PICK end \in { DayStart(d) : d \in FirstDay..Horizon } :
            /\ silver_state' = ApplySuccess(None, end, None, FirstDay)
            /\ silver_high' = IF silver_high = None \/ silver_high < end
                              THEN end ELSE silver_high
      BY <1>4 DEF SilverReports
    <2>2. end \in Int
      BY <1>d, DayOrder
    <2>3. silver_state' \in Optional(StateRow({None}, {None}))
      BY <2>1, <2>2 DEF ApplySuccess, StateRow, Status, Optional
    <2>4. silver_high' \in Optional(Int)
      BY <2>1, <2>2 DEF Optional, TypeOK
    <2>5. UNCHANGED << today, order_events, order_items, gold, locals, steady, settled >>
      BY <1>4 DEF SilverReports
    <2> QED BY <2>3, <2>4, <2>5 DEF gold, locals, TypeOK
  <1>5. ASSUME NEW a \in Attempts, Script(a) PROVE TypeOK'
    <2>1. CASE Start(a)
      <3>1. PICK payload \in {Blank} \cup Requests :
              LET p == InjectDefaultDailyBackfill(payload, DayStart(today))
              IN  IF Accepted(p)
                  THEN /\ params' = [params EXCEPT ![a] = FromMapping(p)]
                       /\ pc' = [pc EXCEPT ![a] = "check"]
                  ELSE /\ pc' = [pc EXCEPT ![a] = "dead"]
                       /\ UNCHANGED params
        BY <2>1 DEF Start
      <3> DEFINE p == InjectDefaultDailyBackfill(payload, DayStart(today))
      <3>2. Accepted(p) => Runnable(FromMapping(p))
        BY DEF Runnable, TypeOK
      <3>3. Accepted(p) => FromMapping(p) \in Payload
        BY <3>2, WindowFacts
      <3>4. params' \in [Attempts -> Optional(Payload)] /\ pc' \in [Attempts -> pcs]
        BY <3>1, <3>3 DEF TypeOK, Optional
      <3>5. UNCHANGED << today, silver, gold, dates, current_state, history >>
        BY <2>1 DEF Start
      <3> QED BY <3>4, <3>5 DEF silver, gold, history, TypeOK
    <2>2. CASE CheckReady(a)
      BY <2>2, <1>p DEF CheckReady
    <2>3. CASE Count(a)
      <3>1. pc' \in [Attempts -> pcs] /\ steady' \subseteq Attempts
        BY <2>3 DEF Count, TypeOK
      <3>2. UNCHANGED << today, silver, gold, params, dates, current_state, silver_high,
                         settled >>
        BY <2>3 DEF Count
      <3> QED BY <3>1, <3>2 DEF silver, gold, TypeOK
    <2>4. CASE CollectDates(a)
      <3>1. Runnable(params[a])
        BY <2>4 DEF CollectDates, RunInv
      <3>2. DatesOf(Frame(a)) \subseteq Days
        BY <3>1, FrameRows DEF DatesOf
      <3>3. pc' \in [Attempts -> pcs] /\ dates' \in [Attempts -> SUBSET Days]
        BY <2>4, <3>2 DEF CollectDates, TypeOK
      <3>4. UNCHANGED << today, silver, gold, params, current_state, history >>
        BY <2>4 DEF CollectDates
      <3> QED BY <3>3, <3>4 DEF silver, gold, history, TypeOK
    <2>5. CASE Overwrite(a)
      <3>1. Runnable(params[a])
        BY <2>5 DEF Overwrite, RunInv
      <3>2. \A r \in fact' : r \in fact \/ r \in Frame(a)
        BY <2>5 DEF Overwrite
      <3>3. \A r \in fact' : r.date_kst \in Days /\ r.run_id \in Attempts
        BY <3>1, <3>2, FrameRows DEF TypeOK
      <3>4. pc' \in [Attempts -> pcs] /\ settled' \subseteq Days
        BY <2>5 DEF Overwrite, TypeOK
      <3>5. UNCHANGED << today, silver, pipeline_state, params, dates, current_state,
                         silver_high, steady >>
        BY <2>5 DEF Overwrite
      <3> QED BY <3>3, <3>4, <3>5 DEF silver, TypeOK
    <2>6. CASE CommitSuccess(a)
      <3>1. ProcessedEndUtc(params[a]) \in Int
        BY <2>6, WindowFacts DEF CommitSuccess, RunInv
      <3>2. None \in Optional(StateRow(Attempts, {None}))
        BY DEF Optional
      <3>3. pipeline_state' \in StateRow(Attempts, {None})
        BY <2>6, <3>1, <3>2, <1>d, AppliedTyped DEF CommitSuccess
      <3>4. WholeDays(params[a]) \subseteq Days
        BY DEF WholeDays
      <3>5. pc' \in [Attempts -> pcs] /\ settled' \subseteq Days
        BY <2>6, <3>4 DEF CommitSuccess, TypeOK
      <3>6. UNCHANGED << today, silver, fact, params, dates, current_state, silver_high,
                         steady >>
        BY <2>6 DEF CommitSuccess
      <3> QED BY <3>3, <3>5, <3>6 DEF silver, TypeOK, Optional
    <2>7. CASE Raise(a)
      BY <2>7, <1>p DEF Raise
    <2>8. CASE LoadForFailure(a)
      <3>1. pc' \in [Attempts -> pcs]
            /\ current_state' \in [Attempts -> Optional(StateRow(Attempts, {None}))]
        BY <2>8 DEF LoadForFailure, TypeOK
      <3>2. UNCHANGED << today, silver, gold, params, dates, history >>
        BY <2>8 DEF LoadForFailure
      <3> QED BY <3>1, <3>2 DEF silver, gold, history, TypeOK
    <2>9. CASE CommitFailure(a)
      <3>1. current_state[a] \in Optional(StateRow(Attempts, {None}))
        BY DEF TypeOK
      <3>2. pipeline_state' \in StateRow(Attempts, {None})
        BY <2>9, <3>1, <1>d, AppliedTyped DEF CommitFailure
      <3>3. pc' \in [Attempts -> pcs]
        BY <2>9 DEF CommitFailure, TypeOK
      <3>4. UNCHANGED << today, silver, fact, params, dates, current_state, history >>
        BY <2>9 DEF CommitFailure
      <3> QED BY <3>2, <3>3, <3>4 DEF silver, history, TypeOK, Optional
    <2>10. CASE Kill(a)
      BY <2>10, <1>p DEF Kill
    <2> QED BY <1>5, <2>1, <2>2, <2>3, <2>4, <2>5, <2>6, <2>7, <2>8, <2>9, <2>10 DEF Script
  <1>6. CASE UNCHANGED vars
    BY <1>6 DEF vars, silver, gold, locals, history, TypeOK
  <1> QED BY <1>1, <1>2, <1>3, <1>4, <1>5, <1>6 DEF Next, SilverStep, Finished

\* Every step keeps the attempts one at a time, on parameters that were
\* accepted, with a current record in their except clause.
LEMMA RunNext == TypeOK /\ RunInv /\ [Next]_vars => RunInv'
  <1> SUFFICES ASSUME TypeOK, RunInv, [Next]_vars PROVE RunInv'
    OBVIOUS
  <1>t. /\ pc = [b \in Attempts |-> pc[b]]
        /\ \A r \in fact : r.run_id \in Attempts
    BY DEF TypeOK
  <1>u. ASSUME UNCHANGED << pc, params, dates, current_state, pipeline_state, fact >>
        PROVE  RunInv'
    BY <1>u DEF RunInv, Active
  \* A step of the active script that leaves the tables and the records alone.
  <1>p. ASSUME NEW a \in Attempts, NEW to, Active(a),
               to \notin {"idle", "write", "report_failure"},
               pc' = [pc EXCEPT ![a] = to],
               UNCHANGED << params, dates, current_state, pipeline_state, fact >>
        PROVE  RunInv'
    BY <1>p, <1>t DEF RunInv, Active
  \* The active script ends: no other script holds a record.
  <1>e. ASSUME NEW a \in Attempts, NEW to \in {"succeeded", "failed"}, Active(a),
               pc' = [pc EXCEPT ![a] = to],
               UNCHANGED << params, dates, current_state, fact >>
        PROVE  RunInv'
    BY <1>e, <1>t DEF RunInv, Active
  <1>1. CASE Midnight
    BY <1>1, <1>u DEF Midnight, gold, locals
  <1>2. CASE SilverMergesEvent
    BY <1>2, <1>u DEF SilverMergesEvent, gold, locals
  <1>3. CASE SilverMergesItem
    BY <1>3, <1>u DEF SilverMergesItem, gold, locals
  <1>4. CASE SilverReports
    BY <1>4, <1>u DEF SilverReports, gold, locals
  <1>5. ASSUME NEW a \in Attempts, Script(a) PROVE RunInv'
    <2>1. CASE Start(a)
      <3>1. PICK payload \in {Blank} \cup Requests :
              LET p == InjectDefaultDailyBackfill(payload, DayStart(today))
              IN  IF Accepted(p)
                  THEN /\ params' = [params EXCEPT ![a] = FromMapping(p)]
                       /\ pc' = [pc EXCEPT ![a] = "check"]
                  ELSE /\ pc' = [pc EXCEPT ![a] = "dead"]
                       /\ UNCHANGED params
        BY <2>1 DEF Start
      <3> DEFINE p == InjectDefaultDailyBackfill(payload, DayStart(today))
      <3>2. Accepted(p) => Runnable(FromMapping(p))
        BY DEF Runnable, TypeOK
      <3>3. /\ \A b \in Attempts : ~Active(b)
            /\ UNCHANGED << dates, current_state, pipeline_state, fact >>
        BY <2>1 DEF Start, gold
      <3>4. params = [b \in Attempts |-> params[b]]
        BY DEF TypeOK
      <3>5. CASE Accepted(p)
        <4>1. pc' = [pc EXCEPT ![a] = "check"] /\ params' = [params EXCEPT ![a] = FromMapping(p)]
          BY <3>1, <3>5
        <4> HIDE DEF p
        <4> QED BY <3>2, <3>3, <3>4, <3>5, <4>1, <1>t DEF RunInv, Active
      <3>6. CASE ~Accepted(p)
        <4>1. pc' = [pc EXCEPT ![a] = "dead"] /\ UNCHANGED params
          BY <3>1, <3>6
        <4> QED BY <3>3, <4>1, <1>t DEF RunInv, Active
      <3> QED BY <3>5, <3>6
    <2>2. CASE CheckReady(a)
      BY <2>2, <1>p DEF CheckReady, gold, Active
    <2>3. CASE Count(a)
      BY <2>3, <1>p DEF Count, gold, Active
    <2>4. CASE CollectDates(a)
      <3> DEFINE found == DatesOf(Frame(a))
      <3>1. /\ pc[a] = "collect"
            /\ UNCHANGED << params, current_state, pipeline_state, fact >>
            /\ \/ pc' = [pc EXCEPT ![a] = "failing"] /\ dates' = dates
               \/ pc' = [pc EXCEPT ![a] = "write"] /\ dates' = [dates EXCEPT ![a] = found]
        BY <2>4 DEF CollectDates, gold
      <3>2. found \subseteq WindowDays(params[a])
        BY <3>1, FrameRows DEF DatesOf, RunInv
      <3>3. dates = [b \in Attempts |-> dates[b]]
        BY DEF TypeOK
      <3> HIDE DEF found
      <3>4. CASE pc' = [pc EXCEPT ![a] = "failing"] /\ dates' = dates
        BY <3>1, <3>4, <1>p DEF Active
      <3>5. CASE pc' = [pc EXCEPT ![a] = "write"] /\ dates' = [dates EXCEPT ![a] = found]
        BY <3>1, <3>2, <3>3, <3>5, <1>t DEF RunInv, Active
      <3> QED BY <3>1, <3>4, <3>5
    <2>5. CASE Overwrite(a)
      <3>1. /\ pc[a] = "write" /\ Runnable(params[a])
            /\ UNCHANGED << params, dates, current_state, pipeline_state >>
        BY <2>5 DEF Overwrite, RunInv
      <3>2. PICK to \in {"report", "failing"} : pc' = [pc EXCEPT ![a] = to]
        BY <2>5 DEF Overwrite
      <3>3. \A r \in fact' : r \in fact \/ r \in Frame(a)
        BY <2>5 DEF Overwrite
      <3>4. \A r \in fact' : pc'[r.run_id] # "idle"
        BY <3>1, <3>2, <3>3, <1>t, FrameRows DEF RunInv
      <3> QED BY <3>1, <3>2, <3>4, <1>t DEF RunInv, Active
    <2>6. CASE CommitSuccess(a)
      BY <2>6, <1>e DEF CommitSuccess, Active
    <2>7. CASE Raise(a)
      BY <2>7, <1>p DEF Raise, gold, Active
    <2>8. CASE LoadForFailure(a)
      <3>1. /\ Active(a) /\ pc' = [pc EXCEPT ![a] = "report_failure"]
            /\ pc[a] \notin {"idle", "dead"}
            /\ current_state' = [current_state EXCEPT ![a] = pipeline_state]
            /\ UNCHANGED << params, dates, pipeline_state, fact >>
        BY <2>8 DEF LoadForFailure, gold, Active
      <3>2. current_state = [b \in Attempts |-> current_state[b]]
        BY DEF TypeOK
      <3> QED BY <3>1, <3>2, <1>t DEF RunInv, Active
    <2>9. CASE CommitFailure(a)
      BY <2>9, <1>e DEF CommitFailure, Active
    <2>10. CASE Kill(a)
      BY <2>10, <1>p DEF Kill, gold
    <2> QED BY <1>5, <2>1, <2>2, <2>3, <2>4, <2>5, <2>6, <2>7, <2>8, <2>9, <2>10 DEF Script
  <1>6. CASE UNCHANGED vars
    BY <1>6, <1>u DEF vars, gold, locals
  <1> QED BY <1>1, <1>2, <1>3, <1>4, <1>5, <1>6 DEF Next, SilverStep, Finished

\* The types and the order of the attempts hold in every state.
LEMMA Running == Spec => [](TypeOK /\ RunInv)
  BY TypingInit, TypingNext, RunNext, PTL DEF Spec

\* Every variable keeps its type, for all events, items, payloads and days.
THEOREM Typing == Spec => []TypeOK
  BY Running, PTL

-----------------------------------------------------------------------------
(* Partitions. *)

\* Only the overwrite of an attempt changes the fact table, and it leaves the
\* partitions it has not collected alone.
LEMMA FactStep ==
  ASSUME TypeOK, RunInv, [Next]_vars, fact' # fact
  PROVE  \E a \in Attempts :
           /\ Overwrite(a) /\ Runnable(params[a])
           /\ DatesOf(Frame(a)) \subseteq dates[a]
           /\ dates[a] \subseteq WindowDays(params[a])
           /\ fact' = { r \in fact : r.date_kst \notin dates[a] } \cup Frame(a)
  <1>1. PICK a \in Attempts : Overwrite(a)
    BY DEF Next, Midnight, SilverStep, SilverMergesEvent, SilverMergesItem, SilverReports,
           Script, Start, CheckReady, Count, CollectDates, CommitSuccess, Raise,
           LoadForFailure, CommitFailure, Kill, Finished, vars, gold
  <1> QED BY <1>1 DEF Overwrite, RunInv

\* replaceWhere never leaves the rows of two runs in a partition, whatever
\* reruns, retries and kills have gone over it.
THEOREM OneRunPerPartition == Spec => []PartitionOfOneRun
  <1>1. Init => PartitionOfOneRun
    BY DEF Init, PartitionOfOneRun
  <1>2. TypeOK /\ RunInv /\ PartitionOfOneRun /\ [Next]_vars => PartitionOfOneRun'
    <2> SUFFICES ASSUME TypeOK, RunInv, PartitionOfOneRun, [Next]_vars, fact' # fact
                 PROVE  PartitionOfOneRun'
      BY DEF PartitionOfOneRun
    <2>1. PICK a \in Attempts :
            /\ Runnable(params[a])
            /\ DatesOf(Frame(a)) \subseteq dates[a]
            /\ fact' = { r \in fact : r.date_kst \notin dates[a] } \cup Frame(a)
      BY FactStep
    <2>2. \A r \in Frame(a) : r.run_id = a /\ r.date_kst \in dates[a]
      BY <2>1, FrameRows DEF DatesOf
    <2> QED BY <2>1, <2>2 DEF PartitionOfOneRun
  <1> QED BY <1>1, <1>2, Running, PTL DEF Spec

\* A run changes no day outside its own window: the partitions it replaces are
\* those it collected, and rows outside of them are refused.
THEOREM NoOtherDay == Spec => OtherDaysUntouched
  <1> DEFINE Untouched ==
        \A d \in Days : Partition(d)' # Partition(d) =>
          \E a \in Attempts : pc[a] = "write" /\ d \in WindowDays(params[a])
  <1>1. TypeOK /\ RunInv /\ [Next]_vars => [Untouched]_vars
    <2> SUFFICES ASSUME TypeOK, RunInv, [Next]_vars, NEW d \in Days,
                        Partition(d)' # Partition(d)
                 PROVE  \E a \in Attempts : pc[a] = "write" /\ d \in WindowDays(params[a])
      OBVIOUS
    <2>1. fact' # fact
      BY DEF Partition
    <2>2. PICK a \in Attempts :
            /\ Overwrite(a)
            /\ DatesOf(Frame(a)) \subseteq dates[a]
            /\ dates[a] \subseteq WindowDays(params[a])
            /\ fact' = { r \in fact : r.date_kst \notin dates[a] } \cup Frame(a)
      BY <2>1, FactStep
    <2>3. d \in dates[a]
      BY <2>2 DEF Partition, DatesOf
    <2> QED BY <2>2, <2>3 DEF Overwrite
  <1> QED BY <1>1, Running, PTL DEF Spec, OtherDaysUntouched

-----------------------------------------------------------------------------
(* What Silver has reported.  Its row never holds an end above the highest  *)
(* one, and an attempt behind the check has seen the end of its window.     *)

BehindInv ==
  /\ FactBehindSilver
  /\ ProcessedEnd(silver_state) # None =>
       silver_high # None /\ ProcessedEnd(silver_state) <= silver_high
  /\ \A a \in Attempts : pc[a] \in {"count", "collect", "write"} =>
       silver_high # None /\ ProcessedEndUtc(params[a]) <= silver_high

\* Before its first step nothing is published and Silver has reported nothing.
LEMMA BehindInit == Init => BehindInv
  BY DEF Init, BehindInv, FactBehindSilver, ProcessedEnd

\* Every step keeps the published days behind Silver: the highest end it has
\* reported never goes down, even when its row does.
LEMMA BehindNext == TypeOK /\ RunInv /\ BehindInv /\ [Next]_vars => BehindInv'
  <1> SUFFICES ASSUME TypeOK, RunInv, BehindInv, [Next]_vars PROVE BehindInv'
    OBVIOUS
  <1> USE NoneAssumption, AnalyticsCAssumption
  <1>t. /\ pc = [b \in Attempts |-> pc[b]]
        /\ params = [b \in Attempts |-> params[b]]
        /\ silver_high # None => silver_high \in Int
        /\ \A r \in fact : r.run_id \in Attempts /\ r.date_kst \in Int
    BY DEF TypeOK, Optional, Days
  \* A step that passes no check, writes nothing and changes no parameters.
  <1>u. ASSUME UNCHANGED << silver_state, silver_high, fact, params >>,
               \A a \in Attempts : pc'[a] \in {"count", "collect", "write"} =>
                 pc[a] \in {"count", "collect", "write"}
        PROVE  BehindInv'
    BY <1>u DEF BehindInv, FactBehindSilver
  <1>1. CASE Midnight
    BY <1>1, <1>u DEF Midnight, silver, gold, locals, history
  <1>2. CASE SilverMergesEvent
    BY <1>2, <1>u DEF SilverMergesEvent, gold, locals
  <1>3. CASE SilverMergesItem
    BY <1>3, <1>u DEF SilverMergesItem, gold, locals
  <1>4. CASE SilverReports
    <2>1. PICK end \in { DayStart(d) : d \in FirstDay..Horizon } :
            /\ silver_state' = ApplySuccess(None, end, None, FirstDay)
            /\ silver_high' = IF silver_high = None \/ silver_high < end
                              THEN end ELSE silver_high
      BY <1>4 DEF SilverReports
    <2>2. UNCHANGED << fact, pc, params >>
      BY <1>4 DEF SilverReports, gold, locals
    <2>3. end \in Int /\ end # None
      BY DayOrder DEF TypeOK
    <2>4. silver_high' \in Int /\ silver_high' # None /\ end <= silver_high'
      BY <2>1, <2>3, <1>t
    <2>5. silver_high # None => silver_high <= silver_high'
      BY <2>1, <2>3, <1>t
    <2>6. ProcessedEnd(silver_state') \in {None, end}
      BY <2>1 DEF ProcessedEnd, ApplySuccess
    <2>7. FactBehindSilver'
      <3>1. \A r \in fact : DayStart(r.date_kst) \in Int
        BY <1>t, DayOrder
      <3> QED BY <2>2, <2>4, <2>5, <3>1, <1>t DEF BehindInv, FactBehindSilver
    <2>8. ASSUME NEW a \in Attempts, pc[a] \in {"count", "collect", "write"}
          PROVE  ProcessedEndUtc(params[a]) <= silver_high'
      <3>1. ProcessedEndUtc(params[a]) \in Int
        BY <2>8, WindowFacts DEF RunInv
      <3> QED BY <2>4, <2>5, <2>8, <3>1, <1>t DEF BehindInv
    <2> QED BY <2>2, <2>4, <2>6, <2>7, <2>8 DEF BehindInv
  <1>5. ASSUME NEW a \in Attempts, Script(a) PROVE BehindInv'
    <2>1. CASE Start(a)
      <3>1. /\ pc[a] = "idle"
            /\ pc' = [pc EXCEPT ![a] = "check"] \/ pc' = [pc EXCEPT ![a] = "dead"]
            /\ \A b \in Attempts : b # a => params'[b] = params[b]
            /\ UNCHANGED << silver_state, silver_high, fact >>
        BY <2>1, <1>t DEF Start, silver, gold, history
      <3>2. \A r \in fact : r.run_id # a
        BY <3>1 DEF RunInv
      <3>3. FactBehindSilver'
        BY <3>1, <3>2, <1>t DEF BehindInv, FactBehindSilver
      <3>4. \A b \in Attempts : pc'[b] \in {"count", "collect", "write"} =>
              pc[b] = pc'[b] /\ b # a
        BY <3>1, <1>t
      <3> QED BY <3>1, <3>3, <3>4 DEF BehindInv
    <2>2. CASE CheckReady(a)
      <3> DEFINE end == ProcessedEndUtc(params[a])
      <3>1. /\ pc[a] = "check" /\ Ready(silver_state, end)
            /\ pc' = [pc EXCEPT ![a] = "count"]
            /\ UNCHANGED << silver_state, silver_high, fact, params >>
        BY <2>2 DEF CheckReady, silver, gold, history
      <3>2. end \in Int
        BY <3>1, WindowFacts DEF RunInv
      <3>3. ProcessedEnd(silver_state) # None /\ ProcessedEnd(silver_state) >= end
        BY <3>1 DEF Ready
      <3>4. ProcessedEnd(silver_state) \in Int
        BY <3>3 DEF ProcessedEnd, TypeOK, StateRow, Optional
      <3>5. silver_high # None /\ end <= silver_high
        BY <3>2, <3>3, <3>4, <1>t DEF BehindInv
      <3> QED BY <3>1, <3>5, <1>t DEF BehindInv, FactBehindSilver
    <2>3. CASE Count(a)
      BY <2>3, <1>t, <1>u DEF Count, silver, gold
    <2>4. CASE CollectDates(a)
      BY <2>4, <1>t, <1>u DEF CollectDates, silver, gold, history
    <2>5. CASE Overwrite(a)
      <3>1. /\ pc[a] = "write" /\ Runnable(params[a])
            /\ UNCHANGED << silver_state, silver_high, params >>
        BY <2>5 DEF Overwrite, RunInv, silver
      <3>2. \A r \in fact' : r \in fact \/ r \in Frame(a)
        BY <2>5 DEF Overwrite
      <3>3. ASSUME NEW r \in Frame(a)
            PROVE  Mixed(params[r.run_id]) \/
                   (silver_high # None /\ DayStart(r.date_kst) < silver_high)
        <4>1. r.run_id = a /\ r.date_kst \in WindowDays(params[a])
          BY <3>1, FrameRows
        <4>2. CASE ~Mixed(params[a])
          <5>1. r.date_kst \in Int /\ DayStart(r.date_kst) < ProcessedEndUtc(params[a])
            BY <3>1, <4>1, <4>2, WindowBehindEnd
          <5>2. DayStart(r.date_kst) \in Int /\ ProcessedEndUtc(params[a]) \in Int
            BY <3>1, <5>1, DayOrder, WindowFacts
          <5>3. silver_high # None /\ ProcessedEndUtc(params[a]) <= silver_high
            BY <3>1 DEF BehindInv
          <5> QED BY <5>1, <5>2, <5>3, <1>t
        <4> QED BY <4>1, <4>2
      <3>4. FactBehindSilver'
        BY <3>1, <3>2, <3>3 DEF BehindInv, FactBehindSilver
      <3>5. \A b \in Attempts : pc'[b] \in {"count", "collect", "write"} => pc[b] = pc'[b]
        BY <2>5, <1>t DEF Overwrite
      <3> QED BY <3>1, <3>4, <3>5 DEF BehindInv
    <2>6. CASE CommitSuccess(a)
      BY <2>6, <1>t, <1>u DEF CommitSuccess, silver
    <2>7. CASE Raise(a)
      BY <2>7, <1>t, <1>u DEF Raise, silver, gold, history
    <2>8. CASE LoadForFailure(a)
      BY <2>8, <1>t, <1>u DEF LoadForFailure, silver, gold, history
    <2>9. CASE CommitFailure(a)
      BY <2>9, <1>t, <1>u DEF CommitFailure, silver, history
    <2>10. CASE Kill(a)
      BY <2>10, <1>t, <1>u DEF Kill, silver, gold, history
    <2> QED BY <1>5, <2>1, <2>2, <2>3, <2>4, <2>5, <2>6, <2>7, <2>8, <2>9, <2>10 DEF Script
  <1>6. CASE UNCHANGED vars
    BY <1>6, <1>u DEF vars, silver, gold, locals, history
  <1> QED BY <1>1, <1>2, <1>3, <1>4, <1>5, <1>6 DEF Next, SilverStep, Finished

\* Nothing is published for a day Silver never reached, unless the payload of
\* the run was mixed.
THEOREM PublishedBehindSilver == Spec => []FactBehindSilver
  <1>1. BehindInv => FactBehindSilver
    BY DEF BehindInv
  <1> QED BY <1>1, Running, BehindInit, BehindNext, PTL DEF Spec

-----------------------------------------------------------------------------
(* Reruns.  Over steady silver tables the three evaluations of the frame    *)
(* agree, so that what is written is what the tables give.                  *)

Current(d) == Computed(d) # {} => Unstamped(Partition(d)) = Unstamped(Computed(d))

SettledInv ==
  /\ \A d \in settled : Current(d)
  /\ \A a \in steady :
       /\ pc[a] \notin {"idle", "check", "count"}
       /\ pc[a] = "write" => dates[a] = DatesOf(Frame(a))
       /\ pc[a] = "report" => \A d \in WholeDays(params[a]) : Current(d)

\* Over the tables as they are, an attempt that covers a day whole computes
\* for it what the tables give, whoever computes it.
LEMMA FrameOfDay ==
  ASSUME TypeOK, NEW a \in Attempts, Runnable(params[a]), NEW d \in WholeDays(params[a])
  PROVE  Unstamped({ r \in Frame(a) : r.date_kst = d }) = Unstamped(Computed(d))
  <1> DEFINE p == params[a]
             Cat(e) == CategoryOf(e.order_ref, order_items, Products)
             Mine == { r \in Frame(a) : r.date_kst = d }
             Plain(e) == << EventDate(e), e.order_ref, e.user_id, e.status, Cat(e) >>
  <1>1. ASSUME NEW e \in order_events, Kept(e), EventDate(e) = d
        PROVE  InWindow(e, p)
    <2>1. e \in Events /\ EventDate(e) # None
      BY <1>1 DEF TypeOK, Kept
    <2>2. /\ e.event_time \in Int /\ d = DateKst(e.event_time) /\ d \in Days
          /\ d = e.event_date_kst /\ d # None
      BY <1>1, <2>1, EventDates
    <2>3. CASE p.start_ts # None /\ p.end_ts # None
      <3>1. p.start_ts \in Int /\ p.end_ts \in Int
        BY <2>3, WindowFacts DEF Payload, Optional
      <3>2. p.start_ts <= DayStart(d) /\ DayStart(d + 1) <= p.end_ts
        BY <2>3 DEF WholeDays
      <3>3. DayStart(d) <= e.event_time /\ e.event_time < DayStart(d + 1)
        BY <2>2, DayOfInstant
      <3>4. DayStart(d) \in Int /\ DayStart(d + 1) \in Int
        BY <2>2, DayOrder, AnalyticsCAssumption DEF Days
      <3>5. e.event_time \in p.start_ts .. p.end_ts - 1
        BY <2>2, <3>1, <3>2, <3>3, <3>4
      <3> QED BY <2>2, <2>3, <3>5, NoneAssumption DEF InWindow
    <2>4. CASE ~(p.start_ts # None /\ p.end_ts # None)
      BY <2>2, <2>4 DEF WholeDays, InWindow
    <2> QED BY <2>3, <2>4
  <1>2. \A r \in Mine : \E e \in order_events :
          Kept(e) /\ EventDate(e) = d /\ r = FactRow(e, Cat(e), a)
    BY DEF Frame, TransformFact, FactRow
  <1>3. \A e \in order_events : Kept(e) /\ EventDate(e) = d => FactRow(e, Cat(e), a) \in Mine
    BY <1>1 DEF Frame, TransformFact, FactRow
  <1>4. \A r \in Computed(d) : \E e \in order_events :
          Kept(e) /\ EventDate(e) = d /\ r = FactRow(e, Cat(e), None)
    BY DEF Computed, TransformFact, FactRow
  <1>5. \A e \in order_events :
          Kept(e) /\ EventDate(e) = d => FactRow(e, Cat(e), None) \in Computed(d)
    BY DEF Computed, TransformFact, FactRow
  <1> DEFINE events == { e \in order_events : Kept(e) /\ EventDate(e) = d }
             Columns(r) == << r.date_kst, r.order_ref, r.user_key, r.status, r.category >>
  <1>6. \A e \in events : \A b : Columns(FactRow(e, Cat(e), b)) = Plain(e)
    BY DEF FactRow
  <1> HIDE DEF Cat, Mine, Plain
  <1>7. Unstamped(Mine) = { Plain(e) : e \in events }
    <2>1. Unstamped(Mine) = { Columns(r) : r \in Mine }
      BY DEF Unstamped
    <2> HIDE DEF Columns
    <2> QED BY <2>1, <1>2, <1>3, <1>6
  <1>8. Unstamped(Computed(d)) = { Plain(e) : e \in events }
    <2>1. Unstamped(Computed(d)) = { Columns(r) : r \in Computed(d) }
      BY DEF Unstamped
    <2> HIDE DEF Columns
    <2> QED BY <2>1, <1>4, <1>5, <1>6
  <1> QED BY <1>7, <1>8 DEF Mine

\* Before its first step nothing is settled.
LEMMA SettledInit == Init => SettledInv
  BY DEF Init, SettledInv

\* Every step keeps what a steady attempt reads and has written equal to what
\* the silver tables give, and with it the settled days.
LEMMA SettledNext == TypeOK /\ RunInv /\ SettledInv /\ [Next]_vars => SettledInv'
  <1> SUFFICES ASSUME TypeOK, RunInv, SettledInv, [Next]_vars PROVE SettledInv'
    OBVIOUS
  <1>t. pc = [b \in Attempts |-> pc[b]] /\ steady \subseteq Attempts
    BY DEF TypeOK
  <1>c. ASSUME NEW d, UNCHANGED << order_events, order_items, fact >>
        PROVE  Current(d)' <=> Current(d)
    BY <1>c DEF Current, Computed, Partition
  <1>f. ASSUME NEW a \in Attempts, UNCHANGED << order_events, order_items, params >>
        PROVE  Frame(a)' = Frame(a)
    BY <1>f DEF Frame
  \* A step that changes no table but the state rows, and takes no attempt to
  \* its evaluations, to its write or to its report.
  <1>u. ASSUME UNCHANGED << order_events, order_items, fact, dates, steady, settled >>,
               \A a \in steady : params'[a] = params[a],
               \A a \in steady :
                 \/ pc'[a] = pc[a]
                 \/ pc'[a] \notin {"idle", "check", "count", "write", "report"}
        PROVE  SettledInv'
    <2>1. \A a \in steady : Frame(a)' = Frame(a)
      BY <1>u DEF Frame
    <2> QED BY <1>u, <1>c, <2>1 DEF SettledInv
  <1>1. CASE Midnight
    BY <1>1, <1>u DEF Midnight, silver, gold, locals, history
  <1>2. CASE SilverMergesEvent
    BY <1>2 DEF SilverMergesEvent, SettledInv
  <1>3. CASE SilverMergesItem
    BY <1>3 DEF SilverMergesItem, SettledInv
  <1>4. CASE SilverReports
    BY <1>4, <1>u DEF SilverReports, gold, locals
  <1>5. ASSUME NEW a \in Attempts, Script(a) PROVE SettledInv'
    <2>1. CASE Start(a)
      <3>1. /\ pc[a] = "idle" /\ UNCHANGED << silver, gold, dates, history >>
            /\ \A b \in Attempts : b # a => pc'[b] = pc[b] /\ params'[b] = params[b]
        BY <2>1, <1>t DEF Start, TypeOK
      <3>2. a \notin steady
        BY <3>1 DEF SettledInv
      <3> QED BY <3>1, <3>2, <1>t, <1>u DEF silver, gold, history
    <2>2. CASE CheckReady(a)
      <3>1. /\ pc[a] = "check" /\ UNCHANGED << silver, gold, params, dates, history >>
            /\ \A b \in Attempts : b # a => pc'[b] = pc[b]
        BY <2>2, <1>t DEF CheckReady
      <3>2. a \notin steady
        BY <3>1 DEF SettledInv
      <3> QED BY <3>1, <3>2, <1>t, <1>u DEF silver, gold, history
    <2>3. CASE Count(a)
      <3>1. /\ pc[a] = "count" /\ steady' = steady \cup {a}
            /\ pc'[a] = IF Frame(a) = {} THEN "report" ELSE "collect"
            /\ \A b \in Attempts : b # a => pc'[b] = pc[b]
            /\ UNCHANGED << order_events, order_items, fact, params, dates, settled >>
        BY <2>3, <1>t DEF Count, silver, gold
      <3>2. Runnable(params[a])
        BY <3>1 DEF RunInv
      <3>3. ASSUME Frame(a) = {}, NEW d \in WholeDays(params[a]) PROVE Computed(d) = {}
        <4>1. Unstamped(Computed(d)) = Unstamped({})
          BY <3>2, <3>3, FrameOfDay
        <4> QED BY <4>1 DEF Unstamped
      <3>4. pc'[a] = "report" => \A d \in WholeDays(params[a]) : Current(d)
        BY <3>1, <3>3 DEF Current
      <3>5. \A b \in steady : b # a =>
              /\ pc'[b] \notin {"idle", "check", "count"}
              /\ pc'[b] = "write" => dates'[b] = DatesOf(Frame(b)')
              /\ pc'[b] = "report" => \A d \in WholeDays(params[b]) : Current(d)'
        BY <3>1, <1>t, <1>c, <1>f DEF SettledInv
      <3>6. \A d \in settled : Current(d)'
        BY <3>1, <1>c DEF SettledInv
      <3>7. \A b \in steady' :
              /\ pc'[b] \notin {"idle", "check", "count"}
              /\ pc'[b] = "write" => dates'[b] = DatesOf(Frame(b)')
              /\ pc'[b] = "report" => \A d \in WholeDays(params[b]) : Current(d)'
        BY <3>1, <3>4, <3>5, <1>t, <1>c
      <3> QED BY <3>1, <3>6, <3>7 DEF SettledInv, DatesOf
    <2>4. CASE CollectDates(a)
      <3>1. /\ pc[a] = "collect"
            /\ UNCHANGED << order_events, order_items, fact, params, steady, settled >>
            /\ \A b \in Attempts : b # a => pc'[b] = pc[b] /\ dates'[b] = dates[b]
            /\ \/ pc'[a] = "failing"
               \/ pc'[a] = "write" /\ dates'[a] = DatesOf(Frame(a))
        BY <2>4, <1>t DEF CollectDates, silver, gold, history, TypeOK
      <3>2. \A b \in steady :
              /\ pc'[b] \notin {"idle", "check", "count"}
              /\ pc'[b] = "write" => dates'[b] = DatesOf(Frame(b)')
              /\ pc'[b] = "report" => \A d \in WholeDays(params[b]) : Current(d)'
        BY <3>1, <1>t, <1>c, <1>f DEF SettledInv
      <3>3. \A d \in settled : Current(d)'
        BY <3>1, <1>c DEF SettledInv
      <3> QED BY <3>1, <3>2, <3>3 DEF SettledInv, DatesOf
    <2>5. CASE Overwrite(a)
      <3>1. /\ pc[a] = "write" /\ Active(a) /\ Runnable(params[a])
            /\ UNCHANGED << order_events, order_items, params, dates, steady >>
            /\ \A b \in Attempts : b # a => pc'[b] = pc[b]
        BY <2>5, <1>t DEF Overwrite, Active, RunInv, silver
      <3>2. \A b \in Attempts : b # a => pc[b] \notin {"write", "report"}
        BY <3>1 DEF RunInv, Active
      <3>3. CASE ~(DatesOf(Frame(a)) \subseteq dates[a])
        <4>1. pc'[a] = "failing" /\ UNCHANGED << fact, settled >>
          BY <2>5, <3>3, <1>t DEF Overwrite
        <4> QED BY <3>1, <4>1, <1>t, <1>u
      <3>4. CASE DatesOf(Frame(a)) \subseteq dates[a]
        <4>1. /\ pc'[a] = "report" /\ settled' = settled \ dates[a]
              /\ fact' = { r \in fact : r.date_kst \notin dates[a] } \cup Frame(a)
          BY <2>5, <3>4, <1>t DEF Overwrite
        <4>2. ASSUME NEW d
              PROVE  Partition(d)' = IF d \in dates[a] THEN { r \in Frame(a) : r.date_kst = d }
                                                       ELSE Partition(d)
          <5>1. \A r \in Frame(a) : r.date_kst \in dates[a]
            BY <3>4 DEF DatesOf
          <5> QED BY <4>1, <5>1 DEF Partition
        <4>3. \A d \in settled' : Current(d)'
          BY <3>1, <4>1, <4>2 DEF SettledInv, Current, Computed
        <4>4. ASSUME a \in steady, NEW d \in WholeDays(params[a]), Computed(d) # {}
              PROVE  Unstamped(Partition(d)') = Unstamped(Computed(d))
          <5>1. Unstamped({ r \in Frame(a) : r.date_kst = d }) = Unstamped(Computed(d))
            BY <3>1, FrameOfDay
          <5>2. Unstamped(Computed(d)) # {}
            BY <4>4 DEF Unstamped
          <5>3. d \in DatesOf(Frame(a))
            BY <5>1, <5>2 DEF Unstamped, DatesOf
          <5> QED BY <3>4, <4>2, <5>1, <5>3
        <4>5. \A b \in steady :
                /\ pc'[b] \notin {"idle", "check", "count"}
                /\ pc'[b] # "write"
                /\ pc'[b] = "report" => b = a
          BY <3>1, <3>2, <4>1, <1>t DEF SettledInv
        <4>6. a \in steady => \A d \in WholeDays(params[a]) : Current(d)'
          BY <3>1, <4>4 DEF Current, Computed, Unstamped
        <4> QED BY <3>1, <4>3, <4>5, <4>6 DEF SettledInv
      <3> QED BY <3>3, <3>4
    <2>6. CASE CommitSuccess(a)
      <3>1. /\ pc[a] = "report" /\ pc'[a] = "succeeded"
            /\ UNCHANGED << order_events, order_items, fact, params, dates, steady >>
            /\ \A b \in Attempts : b # a => pc'[b] = pc[b]
            /\ settled' = settled \cup (IF a \in steady THEN WholeDays(params[a]) ELSE {})
        BY <2>6, <1>t DEF CommitSuccess, silver
      <3>2. \A d \in settled' : Current(d)'
        BY <3>1, <1>c DEF SettledInv
      <3>3. \A b \in steady :
              /\ pc'[b] \notin {"idle", "check", "count"}
              /\ pc'[b] = "write" => dates'[b] = DatesOf(Frame(b)')
              /\ pc'[b] = "report" => \A d \in WholeDays(params[b]) : Current(d)'
        BY <3>1, <1>t, <1>c, <1>f DEF SettledInv
      <3> QED BY <3>1, <3>2, <3>3 DEF SettledInv, DatesOf
    <2>7. CASE Raise(a)
      BY <2>7, <1>t, <1>u DEF Raise, silver, gold, history
    <2>8. CASE LoadForFailure(a)
      BY <2>8, <1>t, <1>u DEF LoadForFailure, silver, gold, history
    <2>9. CASE CommitFailure(a)
      BY <2>9, <1>t, <1>u DEF CommitFailure, silver, history
    <2>10. CASE Kill(a)
      BY <2>10, <1>t, <1>u DEF Kill, silver, gold, history
    <2> QED BY <1>5, <2>1, <2>2, <2>3, <2>4, <2>5, <2>6, <2>7, <2>8, <2>9, <2>10 DEF Script
  <1>6. CASE UNCHANGED vars
    BY <1>6, <1>u DEF vars, silver, gold, locals, history
  <1> QED BY <1>1, <1>2, <1>3, <1>4, <1>5, <1>6 DEF Next, SilverStep, Finished

\* Reruns converge: a partition whose day was settled holds what the silver
\* tables give for it.
THEOREM RerunsConverge == Spec => []PartitionConverges
  <1>1. SettledInv => PartitionConverges
    BY DEF SettledInv, PartitionConverges, Current
  <1> QED BY <1>1, Running, SettledInit, SettledNext, PTL DEF Spec

-----------------------------------------------------------------------------
(* The state row. *)

\* Every step is a change ProgressRow allows, or leaves the row alone.
LEMMA RowStep == TypeOK /\ RunInv /\ [Next]_vars => [Progress!Next]_pipeline_state
  <1> SUFFICES ASSUME TypeOK, RunInv, [Next]_vars, pipeline_state' # pipeline_state
               PROVE  Progress!Next
    OBVIOUS
  <1>1. PICK a \in Attempts : CommitSuccess(a) \/ CommitFailure(a)
    BY DEF Next, Midnight, SilverStep, SilverMergesEvent, SilverMergesItem, SilverReports,
           Script, Start, CheckReady, Count, CollectDates, Overwrite, Raise,
           LoadForFailure, Kill, Finished, vars, gold
  <1>2. today \in FirstDay..Horizon
    BY DEF TypeOK
  <1>3. CASE CommitSuccess(a)
    <2>1. ProcessedEndUtc(params[a]) \in Ends
      BY <1>3, WindowFacts DEF CommitSuccess, RunInv
    <2>2. pipeline_state' = Progress!ApplySuccess(a, ProcessedEndUtc(params[a]), None, today)
      BY <1>3 DEF CommitSuccess, ApplySuccess, Progress!ApplySuccess
    <2> QED BY <1>2, <2>1, <2>2 DEF Progress!Next, Progress!Succeed
  <1>4. CASE CommitFailure(a)
    <2>1. pipeline_state' = Progress!ApplyFailure(pipeline_state, a, today)
      BY <1>4 DEF CommitFailure, RunInv, ApplyFailure, BlankRow,
                  Progress!ApplyFailure, Progress!BlankRow
    <2> QED BY <1>2, <2>1 DEF Progress!Next, Progress!Fail
  <1> QED BY <1>1, <1>3, <1>4

\* Pipeline C keeps the promise of ProgressRow: a success reports the end of a
\* requested window or of a day, a failure leaves the reported progress alone.
THEOREM AnalyticsRefinesProgressRow == Spec => ProgressSpec
  <1>1. Init => Progress!Init
    BY DEF Init, Progress!Init
  <1> QED BY <1>1, Running, RowStep, PTL DEF Spec, ProgressSpec, Progress!Spec

=============================================================================
