---------------------------- MODULE MCAnalyticsC ----------------------------
(***************************************************************************)
(* A finite instance of AnalyticsC, in half days.  One order is corrected  *)
(* to another day, another has a row of another source; the first has      *)
(* items that tie on their amount, one without price and one of quantity 0.*)
(***************************************************************************)
EXTENDS AnalyticsC, TLC

Event(order_ref, order_source, user_id, event_time, status) ==
  [order_ref |-> order_ref, order_source |-> order_source, user_id |-> user_id,
   status |-> status, event_time |-> event_time,
   event_date_kst |-> IF event_time = None THEN None ELSE DateKst(event_time)]

MCEvents ==
  { Event("o1", "PAYMENT_ORDERS", "u1", 2, "PAID"),
    Event("o1", "PAYMENT_ORDERS", "u1", 4, "PAID"),
    Event("o2", "PAYMENT_ORDERS", "u2", 3, "PAID"),
    Event("o3", "ORDERS", "u1", 2, "PAID") }

MCOldEvents == { e \in MCEvents : e.order_ref = "o3" }

Item(item_id, order_ref, product_id, quantity, price) ==
  [item_id |-> item_id, order_ref |-> order_ref, product_id |-> product_id,
   quantity |-> quantity, price |-> price]

MCItems ==
  { Item(1, "o1", 1, 2, 5), Item(2, "o1", 2, None, 10), Item(3, "o2", 2, 0, 7) }

MCOldItems == { i \in MCItems : i.item_id # 1 }

MCProducts ==
  { [product_id |-> 1, category |-> 11], [product_id |-> 2, category |-> 12] }

Dates(lo, hi) ==
  [Blank EXCEPT !.run_mode = "backfill", !.date_kst_start = lo, !.date_kst_end = hi]

MCRequests ==
  { Dates(1, 2),
    [Blank EXCEPT !.run_mode = "incremental", !.start_ts = 2, !.end_ts = 3],
    [Dates(1, 1) EXCEPT !.end_ts = 2],
    [Dates(1, 1) EXCEPT !.start_ts = 4, !.end_ts = 6],
    Dates(2, 1) }

AttemptSymmetry == Permutations(Attempts)
=============================================================================
