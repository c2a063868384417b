--------------------------- MODULE PaymentFactPy ---------------------------
(***************************************************************************)
(* build_fact_payment_anonymized (src/transforms/analytics.py): the plain  *)
(* Python statement of the computation of PaymentFact.  It reads lists,    *)
(* here sequences, one record after the other.                             *)
(***************************************************************************)
EXTENDS Integers, Sequences, SequencesExt, PaymentFact

\* The dict of products: a later product replaces an earlier one.
Catalogued(lookup, product) ==
  IF product.product_id = None \/ product.category = None THEN lookup
  ELSE [id \in DOMAIN lookup \cup {product.product_id} |->
          IF id = product.product_id THEN product.category ELSE lookup[id]]

ProductCategories(products) == FoldLeft(Catalogued, << >>, products)

\* "or" takes the default for 0 as well as for None.
OrFalsy(value, default) == IF value = None \/ value = 0 THEN default ELSE value

LineAmountPy(item) == OrFalsy(item.price, 0) * OrFalsy(item.quantity, 1)

\* The best line of an order so far: a larger amount, or the same amount and a
\* smaller item_id, replaces it.
Better(best, item) ==
  \/ best = None
  \/ LineAmountPy(item) > best.amount
  \/ /\ LineAmountPy(item) = best.amount
     /\ item.item_id # None
     /\ best.item_id = None \/ item.item_id < best.item_id

\* The best line after one more item.
BestAfter(best, item, order_ref, lookup) ==
  IF /\ item.order_ref = order_ref /\ item.product_id \in DOMAIN lookup
     /\ Better(best, item)
  THEN [category |-> lookup[item.product_id], amount |-> LineAmountPy(item),
        item_id |-> item.item_id]
  ELSE best

SelectCategoryForOrder(order_ref, items, lookup) ==
  LET best == FoldLeft(LAMBDA line, item : BestAfter(line, item, order_ref, lookup), None, items)
  IN  IF best = None THEN None ELSE best.category

BuildFactPaymentAnonymized(events, items, products, run_id) ==
  LET lookup == ProductCategories(products)
  IN  { FactRow(events[i], SelectCategoryForOrder(events[i].order_ref, items, lookup),
                run_id) :
          i \in { k \in DOMAIN events : Kept(events[k]) } }

=============================================================================
