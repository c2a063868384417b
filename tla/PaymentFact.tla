---------------------------- MODULE PaymentFact ----------------------------
(***************************************************************************)
(* transform_pipeline_c_fact_spark (src/jobs/pipeline_c_spark.py): the     *)
(* rows of gold.fact_payment_anonymized for order events, order items and  *)
(* products.                                                               *)
(*                                                                         *)
(* Product identifiers and categories are integers, in the order of the    *)
(* strings they stand for.  A row of the fact keeps the order it comes     *)
(* from, which the table does not have: it tells equal rows apart.         *)
(***************************************************************************)
EXTENDS Integers, JobParams

Given(value) == value # None /\ value # ""

LineAmount(item) == OrElse(item.price, 0) * OrElse(item.quantity, 1)

\* The items of an order whose product has a category, with that product.
Lines(order_ref, items, products) ==
  { line \in items \X products :
      /\ line[1].order_ref = order_ref
      /\ line[1].product_id # None /\ line[1].product_id = line[2].product_id
      /\ line[2].category # None }

\* The columns category_rank_window orders by: the largest amount first, then
\* the smallest item_id with NULL last, the product, the category.
Rank(line) ==
  << -LineAmount(line[1]), IF line[1].item_id = None THEN 1 ELSE 0,
     OrElse(line[1].item_id, 0), line[1].product_id, line[2].category >>

RanksBefore(x, y) ==
  \E i \in 1..5 : /\ Rank(x)[i] < Rank(y)[i]
                  /\ \A j \in 1..i-1 : Rank(x)[j] = Rank(y)[j]

\* Broken variant: the smallest amount wins.
CategoryOfLast(order_ref, items, products) ==
  LET lines == Lines(order_ref, items, products)
  IN  IF lines = {} THEN None
      ELSE (CHOOSE x \in lines : \A y \in lines : ~RanksBefore(x, y))[2].category

\* row_number() = 1
CategoryOf(order_ref, items, products) ==
  LET lines == Lines(order_ref, items, products)
  IN  IF lines = {} THEN None
      ELSE (CHOOSE x \in lines : \A y \in lines : ~RanksBefore(y, x))[2].category

EventDate(event) ==
  IF event.event_date_kst # None  THEN event.event_date_kst
  ELSE IF event.event_time # None THEN DateKst(event.event_time)
  ELSE None

Kept(event) ==
  /\ event.order_source = "PAYMENT_ORDERS"
  /\ Given(event.order_ref) /\ Given(event.user_id)
  /\ EventDate(event) # None

\* user_key is a digest of user_id and salt; the user stands for it.
FactRow(event, category, run_id) ==
  [date_kst |-> EventDate(event), order_ref |-> event.order_ref,
   user_key |-> event.user_id, status |-> event.status,
   category |-> category, run_id |-> run_id]

TransformFact(events, items, products, run_id) ==
  { FactRow(event, CategoryOf(event.order_ref, items, products), run_id) :
      event \in { e \in events : Kept(e) } }

=============================================================================
