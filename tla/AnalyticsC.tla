----------------------------- MODULE AnalyticsC -----------------------------
(***************************************************************************)
(* Pipeline C (scripts/run_pipeline_c.py): executions of the script that   *)
(* checks that Silver has reached the end of its window, computes the      *)
(* payment facts of the window from the silver tables, replaces the        *)
(* partitions of gold.fact_payment_anonymized they fall in, and reports    *)
(* its outcome in the pipeline_c row of gold.pipeline_state.               *)
(*                                                                         *)
(* An attempt is one execution: a scheduled run, a retry or a run an       *)
(* operator starts with a payload of JobParams.  The job runs one at a     *)
(* time.  Its frame is lazy: the count, the collection of the partition    *)
(* values and the write each evaluate it over the tables as they are then. *)
(* Silver is the environment: it merges rows at any time, moves an order   *)
(* to another day when the upstream corrects it, and moves its mark.       *)
(***************************************************************************)
EXTENDS Integers, FiniteSets, PipelineState, PaymentFactPy

CONSTANTS
  Attempts,        \* executions of the script
  Requests,        \* the payloads operators start runs with
  Events, Items,   \* the rows Silver may merge into order_events, order_items
  Products,        \* the rows of products
  OldEvents,       \* the rows order_events holds at the start,
  OldItems,        \* and those of order_items
  MaxPartitions,   \* MAX_PARTITION_VALUES_FOR_REPLACE_WHERE
  FirstDay,        \* the KST day the system starts on
  Horizon          \* bound: the last day

Days == FirstDay - 1 .. Horizon

\* A row of order_items and one of products.
ItemRow ==
  [item_id : Int, order_ref : STRING, product_id : Int, quantity : Optional(Int),
   price : Optional(Int)]

ProductRow == [product_id : Int, category : Optional(Int)]

\* No two rows have one merge key.
ItemsMerged(items) == \A i, j \in items : i.item_id = j.item_id => i = j

\* The ends of the windows an attempt may process: of the days so far, and of
\* the payloads that are accepted.
Ends ==
  { DayStart(d) : d \in FirstDay..Horizon } \cup
  { ProcessedEndUtc(FromMapping(payload)) : payload \in { p \in Requests : Accepted(p) } }

ASSUME AnalyticsCAssumption ==
  /\ FirstDay \in Int /\ Horizon \in Int /\ FirstDay <= Horizon
  /\ MaxPartitions \in Nat \ {0}
  /\ Requests \subseteq Payload
  /\ OldEvents \subseteq Events /\ OldItems \subseteq Items
  /\ \A e \in Events : EventDate(e) \in Optional(Days)
  \* Pipeline Silver derives the date of an event from its time.
  /\ \A e \in Events :
       /\ e.event_time \in Optional(Int)
       /\ e.event_date_kst = IF e.event_time = None THEN None ELSE DateKst(e.event_time)
  /\ Items \subseteq ItemRow /\ ItemsMerged(OldItems) /\ IsFiniteSet(OldItems)
  /\ Products \subseteq ProductRow /\ IsFiniteSet(Products)
  /\ \A p, q \in Products : p.product_id = q.product_id => p = q
  /\ IsFiniteSet(OldEvents)
  /\ None \notin [category : Int, amount : Int, item_id : Int]

VARIABLES
  today,           \* the KST date of now_utc()
  order_events,    \* silver.order_events
  order_items,     \* silver.order_items
  silver_state,    \* the pipeline_silver row, or None
  fact,            \* gold.fact_payment_anonymized
  pipeline_state,  \* the pipeline_c row, or None
  pc,              \* attempt -> where its script is
  params,          \* attempt -> its window parameters, or None
  dates,           \* attempt -> the partition values of its replaceWhere
  current_state    \* attempt -> the row its except clause loads

\* History variables: read by the properties, never by the actions.
VARIABLES
  silver_high,     \* the highest end Silver has ever reported, or None
  steady,          \* attempts that found the silver tables the same all along
  settled          \* days computed by such an attempt that reported success
                   \* and not touched since, nor the silver tables

silver  == << order_events, order_items, silver_state >>
gold    == << fact, pipeline_state >>
locals  == << pc, params, dates, current_state >>
history == << silver_high, steady, settled >>
vars    == << today, silver, gold, locals, history >>

-----------------------------------------------------------------------------
(* The environment *)

Init ==
  /\ today = FirstDay
  /\ order_events = OldEvents /\ order_items = OldItems
  /\ silver_state = None
  /\ fact = {}
  /\ pipeline_state = None
  /\ pc = [a \in Attempts |-> "idle"]
  /\ params = [a \in Attempts |-> None]
  /\ dates = [a \in Attempts |-> {}]
  /\ current_state = [a \in Attempts |-> None]
  /\ silver_high = None
  /\ steady = {}
  /\ settled = {}

Midnight ==
  /\ today < Horizon
  /\ today' = today + 1
  /\ UNCHANGED << silver, gold, locals, history >>

\* write_silver_delta: a row replaces those with its merge key.
SilverMergesEvent ==
  \E e \in Events \ order_events :
    /\ EventDate(e) = None \/ EventDate(e) <= today
    /\ order_events' = {e} \cup { x \in order_events :
         << x.order_ref, x.order_source >> # << e.order_ref, e.order_source >> }
    /\ steady' = {} /\ settled' = {}
    /\ UNCHANGED << today, order_items, silver_state, gold, locals, silver_high >>

SilverMergesItem ==
  \E i \in Items \ order_items :
    /\ order_items' = {i} \cup { x \in order_items : x.item_id # i.item_id }
    /\ steady' = {} /\ settled' = {}
    /\ UNCHANGED << today, order_events, silver_state, gold, locals, silver_high >>

\* Silver reports the end of a day, its own attempts and times left out; the
\* day is to come when a backfill reaches ahead of the clock.
SilverReports ==
  \E end \in { DayStart(d) : d \in FirstDay..Horizon } :
    /\ silver_state' = ApplySuccess(None, end, None, FirstDay)
    /\ silver_high' = IF silver_high = None \/ silver_high < end THEN end ELSE silver_high
    /\ UNCHANGED << today, order_events, order_items, gold, locals, steady, settled >>

-----------------------------------------------------------------------------
(* What an attempt reads and computes *)

\* Broken variant: the last day of the dates is not read.
InWindowExclusive(e, p) ==
  IF p.start_ts # None /\ p.end_ts # None
  THEN e.event_time # None /\ e.event_time \in p.start_ts .. p.end_ts - 1
  ELSE e.event_date_kst # None /\ e.event_date_kst \in TargetDatesExclusive(p)

\* The timestamps, when both are given, win over the dates.
InWindow(e, p) ==
  IF p.start_ts # None /\ p.end_ts # None
  THEN e.event_time # None /\ e.event_time \in p.start_ts .. p.end_ts - 1
  ELSE e.event_date_kst # None /\ e.event_date_kst \in TargetDates(p)

\* result_df of attempt a over the silver tables as they are now.
Frame(a) ==
  TransformFact({ e \in order_events : InWindow(e, params[a]) }, order_items, Products, a)

DatesOf(rows) == { r.date_kst : r \in rows }

\* The days an attempt reads rows of.
WindowDays(p) ==
  IF p.start_ts # None /\ p.end_ts # None
  THEN DateKst(p.start_ts) .. DateKst(p.end_ts - 1)
  ELSE TargetDates(p)

\* The days an attempt covers whole.
WholeDays(p) ==
  IF p.start_ts # None /\ p.end_ts # None
  THEN { d \in Days : p.start_ts <= DayStart(d) /\ DayStart(d + 1) <= p.end_ts }
  ELSE TargetDates(p) \cap Days

-----------------------------------------------------------------------------
(* The script *)

Active(a) == pc[a] \in {"check", "count", "collect", "write", "report",
                        "failing", "report_failure"}

\* The job starts without parameters, an operator with a payload; parameters
\* that from_mapping does not accept raise before the try.
Start(a) ==
  /\ pc[a] = "idle"
  /\ \A b \in Attempts : ~Active(b)
  /\ \E payload \in {Blank} \cup Requests :
       LET p == InjectDefaultDailyBackfill(payload, DayStart(today))
       IN  IF Accepted(p)
           THEN /\ params' = [params EXCEPT ![a] = FromMapping(p)]
                /\ pc' = [pc EXCEPT ![a] = "check"]
           ELSE /\ pc' = [pc EXCEPT ![a] = "dead"]
                /\ UNCHANGED params
  /\ UNCHANGED << today, silver, gold, dates, current_state, history >>

\* Broken variant: any report of Silver will do.
CheckReadyOnce(a) ==
  /\ pc[a] = "check"
  /\ LastSuccess(silver_state) # None
  /\ pc' = [pc EXCEPT ![a] = "count"]
  /\ UNCHANGED << today, silver, gold, params, dates, current_state, history >>

\* assert_pipeline_ready; when it raises, Raise(a) is the step.
CheckReady(a) ==
  /\ pc[a] = "check"
  /\ Ready(silver_state, ProcessedEndUtc(params[a]))
  /\ pc' = [pc EXCEPT ![a] = "count"]
  /\ UNCHANGED << today, silver, gold, params, dates, current_state, history >>

\* row_count: without rows nothing is written, and the run succeeds.
Count(a) ==
  /\ pc[a] = "count"
  /\ pc' = [pc EXCEPT ![a] = IF Frame(a) = {} THEN "report" ELSE "collect"]
  /\ steady' = steady \cup {a}
  /\ UNCHANGED << today, silver, gold, params, dates, current_state, silver_high, settled >>

\* _build_replace_where: a second evaluation, which may find no row any more,
\* or more partitions than the guard of the collection lets through.
CollectDates(a) ==
  /\ pc[a] = "collect"
  /\ LET found == DatesOf(Frame(a))
     IN  IF found = {} \/ Cardinality(found) > MaxPartitions
         THEN /\ pc' = [pc EXCEPT ![a] = "failing"]
              /\ UNCHANGED dates
         ELSE /\ pc' = [pc EXCEPT ![a] = "write"]
              /\ dates' = [dates EXCEPT ![a] = found]
  /\ UNCHANGED << today, silver, gold, params, current_state, history >>

\* Broken variant: the rows are appended to the partitions.
OverwriteAppends(a) ==
  /\ pc[a] = "write"
  /\ fact' = fact \cup Frame(a)
  /\ pc' = [pc EXCEPT ![a] = "report"]
  /\ settled' = settled \ DatesOf(Frame(a))
  /\ UNCHANGED << today, silver, pipeline_state, params, dates, current_state,
                  silver_high, steady >>

\* Broken variant: the whole table is replaced.
OverwriteTable(a) ==
  /\ pc[a] = "write"
  /\ fact' = Frame(a)
  /\ pc' = [pc EXCEPT ![a] = "report"]
  /\ settled' = settled \ dates[a]
  /\ UNCHANGED << today, silver, pipeline_state, params, dates, current_state,
                  silver_high, steady >>

\* saveAsTable with replaceWhere: the third evaluation replaces the partitions
\* collected before; Delta refuses rows that fall outside of them.
Overwrite(a) ==
  /\ pc[a] = "write"
  /\ IF DatesOf(Frame(a)) \subseteq dates[a]
     THEN /\ fact' = { r \in fact : r.date_kst \notin dates[a] } \cup Frame(a)
          /\ pc' = [pc EXCEPT ![a] = "report"]
          /\ settled' = settled \ dates[a]
     ELSE /\ pc' = [pc EXCEPT ![a] = "failing"]
          /\ UNCHANGED << fact, settled >>
  /\ UNCHANGED << today, silver, pipeline_state, params, dates, current_state,
                  silver_high, steady >>

CommitSuccess(a) ==
  /\ pc[a] = "report"
  /\ pc' = [pc EXCEPT ![a] = "succeeded"]
  /\ pipeline_state' = ApplySuccess(a, ProcessedEndUtc(params[a]), None, today)
  /\ settled' = settled \cup (IF a \in steady THEN WholeDays(params[a]) ELSE {})
  /\ UNCHANGED << today, silver, fact, params, dates, current_state, silver_high, steady >>

\* Silver is not ready, or any read or commit inside the try raises.
Raise(a) ==
  /\ pc[a] \in {"check", "count", "collect", "write", "report"}
  /\ pc' = [pc EXCEPT ![a] = "failing"]
  /\ UNCHANGED << today, silver, gold, params, dates, current_state, history >>

LoadForFailure(a) ==
  /\ pc[a] = "failing"
  /\ pc' = [pc EXCEPT ![a] = "report_failure"]
  /\ current_state' = [current_state EXCEPT ![a] = pipeline_state]
  /\ UNCHANGED << today, silver, gold, params, dates, history >>

\* Broken variant: the failure is reported on a blank record.
CommitFailureBlank(a) ==
  /\ pc[a] = "report_failure"
  /\ pc' = [pc EXCEPT ![a] = "failed"]
  /\ pipeline_state' = ApplyFailure(None, a, today)
  /\ UNCHANGED << today, silver, fact, params, dates, current_state, history >>

CommitFailure(a) ==
  /\ pc[a] = "report_failure"
  /\ pc' = [pc EXCEPT ![a] = "failed"]
  /\ pipeline_state' = ApplyFailure(current_state[a], a, today)
  /\ UNCHANGED << today, silver, fact, params, dates, current_state, history >>

\* The timeout of the job, a lost cluster, a failure that cannot be reported.
Kill(a) ==
  /\ Active(a)
  /\ pc' = [pc EXCEPT ![a] = "dead"]
  /\ UNCHANGED << today, silver, gold, params, dates, current_state, history >>

-----------------------------------------------------------------------------
Script(a) ==
  \/ Start(a) \/ CheckReady(a) \/ Count(a) \/ CollectDates(a) \/ Overwrite(a)
  \/ CommitSuccess(a) \/ Raise(a) \/ LoadForFailure(a) \/ CommitFailure(a) \/ Kill(a)

SilverStep == SilverMergesEvent \/ SilverMergesItem \/ SilverReports

\* Every attempt has ended and the clock is at its bound.
Finished ==
  /\ today = Horizon
  /\ \A a \in Attempts : pc[a] \in {"succeeded", "failed", "dead"}
  /\ UNCHANGED vars

Next == Midnight \/ SilverStep \/ (\E a \in Attempts : Script(a)) \/ Finished

Spec == Init /\ [][Next]_vars

-----------------------------------------------------------------------------
\* Every variable holds values of its kind.
TypeOK ==
  /\ today \in FirstDay..Horizon
  /\ order_events \subseteq Events /\ order_items \subseteq Items
  /\ silver_state \in Optional(StateRow({None}, {None}))
  /\ \A r \in fact : r.date_kst \in Days /\ r.run_id \in Attempts
  /\ pipeline_state \in Optional(StateRow(Attempts, {None}))
  /\ pc \in [Attempts -> {"idle", "check", "count", "collect", "write", "report",
                          "failing", "report_failure", "succeeded", "failed", "dead"}]
  /\ params \in [Attempts -> Optional(Payload)]
  /\ dates \in [Attempts -> SUBSET Days]
  /\ current_state \in [Attempts -> Optional(StateRow(Attempts, {None}))]
  /\ silver_high \in Optional(Int)
  /\ steady \subseteq Attempts /\ settled \subseteq Days

\* A partition of the fact table is the work of one run, whatever reruns,
\* retries and kills have gone over it: replaceWhere never mixes two.
PartitionOfOneRun == \A r, s \in fact : r.date_kst = s.date_kst => r.run_id = s.run_id

Unstamped(rows) ==
  { << r.date_kst, r.order_ref, r.user_key, r.status, r.category >> : r \in rows }

\* The rows the silver tables give for a day, and the rows of its partition.
Computed(d) ==
  { r \in TransformFact(order_events, order_items, Products, None) : r.date_kst = d }
Partition(d) == { r \in fact : r.date_kst = d }

\* Reruns converge (decision D-016): once a run that covers a day whole has
\* succeeded over unchanging silver tables, the partition holds what they give
\* for that day, whatever earlier runs, parts of runs and corrections left
\* there.  Only where they give nothing is the old partition kept, because
\* main() then skips the write.
PartitionConverges ==
  \A d \in settled : Computed(d) # {} => Unstamped(Partition(d)) = Unstamped(Computed(d))

\* Payloads whose end_ts lies before the dates they ask for: Ready is asked
\* about end_ts, the dates decide what is read.
Mixed(p) ==
  p.end_ts # None /\ p.start_ts = None /\ p.end_ts <= DayStart(p.date_kst_end)

\* Nothing is published for a day Silver never reached, whatever it merges
\* or reports between the check and the write, unless the payload was mixed.
FactBehindSilver ==
  \A r \in fact : Mixed(params[r.run_id]) \/
    (silver_high # None /\ DayStart(r.date_kst) < silver_high)

\* The order of a list of records does not matter, and the plain Python
\* computation gives the rows of the Spark job, except for orders with an item
\* of quantity 0, which it counts as 1.  What Silver does depends on no attempt,
\* so that the states before the first one starts are enough.
TwinsAgree ==
  LET zero == { i.order_ref : i \in { j \in order_items : j.quantity = 0 } }
      of(rows) == { r \in rows : r.order_ref \notin zero }
  IN  (\A a \in Attempts : pc[a] = "idle") =>
        \A events \in SetToSeqs(order_events), items \in SetToSeqs(order_items),
           products \in SetToSeqs(Products) :
          of(BuildFactPaymentAnonymized(events, items, products, None))
          = of(TransformFact(order_events, order_items, Products, None))

\* A run changes no day outside its own window: neither the neighbours of the
\* partitions it replaces nor, when its rows moved meanwhile, other days.
OtherDaysUntouched ==
  [][\A d \in Days : Partition(d)' # Partition(d) =>
       \E a \in Attempts : pc[a] = "write" /\ d \in WindowDays(params[a])]_vars

\* The row of gold.pipeline_state goes through the changes ProgressRow allows.
Progress ==
  INSTANCE ProgressRow WITH
    row <- pipeline_state, RunIds <- Attempts, Counts <- {None},
    Ends <- Ends, Times <- FirstDay..Horizon
ProgressSpec == Progress!Spec

=============================================================================
