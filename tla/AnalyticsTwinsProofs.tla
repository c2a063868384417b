------------------------ MODULE AnalyticsTwinsProofs ------------------------
(***************************************************************************)
(* Proofs that the Spark job and the plain Python statement of Pipeline C  *)
(* come to the same payment facts: the lists of Python are read one record *)
(* after the other, the windows of Spark rank all lines of an order.       *)
(***************************************************************************)
EXTENDS AnalyticsCProofs, FiniteSetTheorems, InductionFacts

\* The silver tables are finite, and MERGE keeps an item from being there twice.
TablesInv ==
  /\ IsFiniteSet(order_events) /\ IsFiniteSet(order_items)
  /\ ItemsMerged(order_items)

\* They change only through merges of one row.
LEMMA TablesNext ==
  ASSUME TablesInv, [Next]_vars
  PROVE  TablesInv'
  <1>1. CASE UNCHANGED << order_events, order_items >>
    BY <1>1 DEF TablesInv
  <1>2. CASE SilverMergesEvent
    <2> DEFINE Others(e) == { x \in order_events :
                 << x.order_ref, x.order_source >> # << e.order_ref, e.order_source >> }
    <2>1. PICK e \in Events : order_events' = {e} \cup Others(e) /\ order_items' = order_items
      BY <1>2 DEF SilverMergesEvent
    <2>2. Others(e) \in SUBSET order_events
      OBVIOUS
    <2> HIDE DEF Others
    <2>3. IsFiniteSet({e} \cup Others(e))
      BY <2>2, FS_Subset, FS_AddElement DEF TablesInv
    <2> QED BY <2>1, <2>3 DEF TablesInv
  <1>3. CASE SilverMergesItem
    <2>1. PICK i \in Items :
            /\ order_items' = {i} \cup { x \in order_items : x.item_id # i.item_id }
            /\ order_events' = order_events
      BY <1>3 DEF SilverMergesItem
    <2> DEFINE keep == { x \in order_items : x.item_id # i.item_id }
    <2>2. keep \in SUBSET order_items /\ \A x \in keep : x.item_id # i.item_id
      OBVIOUS
    <2> HIDE DEF keep
    <2>3. IsFiniteSet({i} \cup keep)
      BY <2>2, FS_Subset, FS_AddElement DEF TablesInv
    <2>4. order_items' = {i} \cup keep
      BY <2>1 DEF keep
    <2> QED BY <2>1, <2>2, <2>3, <2>4 DEF TablesInv, ItemsMerged
  <1>4. CASE Midnight \/ SilverReports \/ UNCHANGED vars
    BY <1>1, <1>4 DEF Midnight, SilverReports, vars, silver
  <1>5. ASSUME NEW a \in Attempts, Script(a) PROVE TablesInv'
    BY <1>1, <1>5 DEF Script, Start, CheckReady, Count, CollectDates, Overwrite, CommitSuccess,
                      Raise, LoadForFailure, CommitFailure, Kill, silver
  <1> QED BY <1>2, <1>3, <1>4, <1>5 DEF Next, SilverStep, Finished

-----------------------------------------------------------------------------
(* The dict of products *)

\* No two of the first n products have one identifier.
DistinctProducts(products, n) ==
  \A i, j \in 1..n : products[i].product_id = products[j].product_id => i = j

\* The positions of products that have a category.
Rated(products, s) ==
  { i \in s : products[i].product_id # None /\ products[i].category # None }

\* What the dict holds after the products at some positions.
DictOf(products, s) ==
  [id \in { products[i].product_id : i \in Rated(products, s) } |->
     products[CHOOSE i \in Rated(products, s) : products[i].product_id = id].category]

\* One more product takes the dict one step on.
LEMMA DictGrows ==
  ASSUME NEW n \in Nat, NEW products, DistinctProducts(products, n),
         NEW s \in SUBSET (1..n), NEW m \in s
  PROVE  DictOf(products, s) = Catalogued(DictOf(products, s \ {m}), products[m])
  <1> DEFINE p == products[m]
             dict == DictOf(products, s \ {m})
             At(t, id) == CHOOSE i \in Rated(products, t) : products[i].product_id = id
  <1>1. CASE p.product_id = None \/ p.category = None
    <2>1. Rated(products, s) = Rated(products, s \ {m})
      BY <1>1 DEF Rated
    <2> QED BY <1>1, <2>1 DEF DictOf, Catalogued
  <1>2. CASE p.product_id # None /\ p.category # None
    <2>1. Rated(products, s) = Rated(products, s \ {m}) \cup {m}
      BY <1>2 DEF Rated
    <2>2. DictOf(products, s) =
            [id \in { products[i].product_id : i \in Rated(products, s) } |->
               products[At(s, id)].category]
      BY DEF DictOf
    <2>3. { products[i].product_id : i \in Rated(products, s) } = DOMAIN dict \cup {p.product_id}
      BY <2>1 DEF DictOf
    <2>4. Catalogued(dict, p) = [id \in DOMAIN dict \cup {p.product_id} |->
                                   IF id = p.product_id THEN p.category ELSE dict[id]]
      BY <1>2 DEF Catalogued
    <2>5. ASSUME NEW id \in DOMAIN dict \cup {p.product_id}
          PROVE  products[At(s, id)].category = IF id = p.product_id THEN p.category ELSE dict[id]
      <3>1. CASE id = p.product_id
        <4>1. m \in Rated(products, s) /\ products[m].product_id = id
          BY <2>1, <3>1
        <4>2. \A i \in Rated(products, s) : products[i].product_id = id => i = m
          BY <4>1 DEF Rated, DistinctProducts
        <4>3. At(s, id) = m
          BY <4>1, <4>2
        <4> HIDE DEF At
        <4> QED BY <3>1, <4>3
      <3>2. CASE id # p.product_id
        <4>1. \A i : i \in Rated(products, s) /\ products[i].product_id = id <=>
                     i \in Rated(products, s \ {m}) /\ products[i].product_id = id
          BY <2>1, <3>2
        <4>2. At(s, id) = At(s \ {m}, id)
          BY <4>1
        <4>3. dict[id] = products[At(s \ {m}, id)].category
          BY <2>5, <3>2 DEF DictOf
        <4> HIDE DEF At
        <4> QED BY <3>2, <4>2, <4>3
      <3> QED BY <3>1, <3>2
    <2> HIDE DEF At, dict, p
    <2>6. DictOf(products, s) = Catalogued(dict, p)
      BY <2>2, <2>3, <2>4, <2>5
    <2> QED BY <2>6 DEF dict, p
  <1> QED BY <1>1, <1>2

\* The dict Python builds of the products.
LEMMA ProductsAreDict ==
  ASSUME NEW n \in Nat, NEW products, DOMAIN products = 1..n, DistinctProducts(products, n)
  PROVE  ProductCategories(products) = DictOf(products, 1..n)
  <1> DEFINE S == 1..n
             pick == [s \in SUBSET S |-> Max(s)]
             g == [s \in SUBSET S |-> DictOf(products, s)]
             Body(h) == [s \in SUBSET S |->
               IF s = {} THEN << >> ELSE Catalogued(h[s \ {Max(s)}], products[Max(s)])]
  <1>1. IsFiniteSet(S)
    BY FS_Interval
  <1>2. \A s \in SUBSET S : s # {} => Max(s) \in s /\ s \ {Max(s)} \in SUBSET S
    BY LastPosition
  <1>3. g[{}] = << >>
    BY DEF DictOf, Rated
  <1>4. \A s \in SUBSET S : s # {} => g[s] = Catalogued(g[s \ {Max(s)}], products[Max(s)])
    <2> SUFFICES ASSUME NEW s \in SUBSET S, s # {}
                 PROVE  g[s] = Catalogued(g[s \ {Max(s)}], products[Max(s)])
      OBVIOUS
    <2>1. DictOf(products, s) = Catalogued(DictOf(products, s \ {Max(s)}), products[Max(s)])
      BY <1>2, DictGrows
    <2> QED BY <1>2, <2>1
  <1>5. g = Body(g)
    <2> HIDE DEF S
    <2> QED BY <1>3, <1>4
  <1>6. ASSUME NEW h, h = Body(h) PROVE h[S] = g[S]
    <2>1. \A s \in SUBSET S :
            h[s] = IF s = {} THEN << >> ELSE Catalogued(h[s \ {Max(s)}], products[Max(s)])
      <3> HIDE DEF S
      <3> QED BY <1>6
    <2> HIDE DEF g, S
    <2>2. Follows(h, g, S, pick)
      BY <1>2, <1>3, <1>4, <2>1 DEF Follows
    <2> HIDE DEF pick
    <2>3. \A s \in SUBSET S : h[s] = g[s]
      BY <1>1, <2>2, SameFold
    <2> QED BY <2>3
  <1>7. ProductCategories(products) = (CHOOSE h : h = Body(h))[S]
    BY DEF ProductCategories, FoldLeft, MapThenFoldSet
  <1>8. ProductCategories(products) = g[S]
    <2> DEFINE h == CHOOSE h : h = Body(h)
    <2>1. h = Body(h)
      <3> HIDE DEF Body
      <3> QED BY <1>5
    <2> HIDE DEF h, Body, S
    <2> QED BY <1>6, <1>7, <2>1 DEF h
  <1> QED BY <1>8

\* It has the category of each product that has one.
LEMMA ProductLookup ==
  ASSUME NEW products \in SetToSeqs(Products)
  PROVE  LET lookup == ProductCategories(products)
         IN  /\ \A id \in DOMAIN lookup : id # None
             /\ \A p \in Products :
                  /\ p.product_id \in DOMAIN lookup <=> p.category # None
                  /\ p.category # None => lookup[p.product_id] = p.category
             /\ \A id \in DOMAIN lookup : \E p \in Products : p.product_id = id
  <1> DEFINE n == Cardinality(Products)
  <1>1. /\ products \in [1..n -> Products]
        /\ \A i, j \in 1..n : i # j => products[i] # products[j]
    BY DEF SetToSeqs
  <1>2. n \in Nat /\ \A p \in Products : \E i \in 1..n : products[i] = p
    <2>1. IsFiniteSet(Products)
      BY AnalyticsCAssumption
    <2> QED BY <1>1, <2>1, ListHasAll
  <1>3. DistinctProducts(products, n)
    BY <1>1, AnalyticsCAssumption DEF DistinctProducts
  <1>4. \A p \in Products : p.product_id # None
    BY AnalyticsCAssumption, NoneAssumption DEF ProductRow
  <1> HIDE DEF n
  <1>5. ProductCategories(products) = DictOf(products, 1..n)
    BY <1>1, <1>2, <1>3, ProductsAreDict
  <1> DEFINE lookup == DictOf(products, 1..n)
             At(id) == CHOOSE i \in Rated(products, 1..n) : products[i].product_id = id
  <1>6. /\ DOMAIN lookup = { products[i].product_id : i \in Rated(products, 1..n) }
        /\ \A id \in DOMAIN lookup : lookup[id] = products[At(id)].category
    BY DEF DictOf
  <1>7. ASSUME NEW id \in DOMAIN lookup
        PROVE  id # None /\ \E p \in Products : p.product_id = id
    BY <1>1, <1>4, <1>6 DEF Rated
  <1>8. ASSUME NEW p \in Products
        PROVE  /\ p.product_id \in DOMAIN lookup <=> p.category # None
               /\ p.category # None => lookup[p.product_id] = p.category
    <2>1. PICK k \in 1..n : products[k] = p
      BY <1>2
    <2>2. k \in Rated(products, 1..n) <=> p.category # None
      BY <1>4, <2>1 DEF Rated
    <2>3. \A i \in Rated(products, 1..n) : products[i].product_id = p.product_id => i = k
      BY <1>3, <2>1 DEF Rated, DistinctProducts
    <2>4. k \in Rated(products, 1..n) => At(p.product_id) = k
      BY <2>1, <2>3
    <2> HIDE DEF At, lookup
    <2> QED BY <1>6, <2>1, <2>2, <2>3, <2>4
  <1> HIDE DEF lookup
  <1> QED BY <1>5, <1>7, <1>8 DEF lookup

-----------------------------------------------------------------------------
(* The best line of an order *)

\* The first n items are rows with identifiers of their own.
DistinctItems(items, n) ==
  /\ \A i \in 1..n : items[i] \in ItemRow
  /\ \A i, j \in 1..n : items[i].item_id = items[j].item_id => i = j

\* What is used of numbers.
LEMMA ProductTyped == \A x, y \in Int : x * y \in Int
  OBVIOUS

\* Amounts are numbers.
LEMMA AmountTyped ==
  ASSUME NEW i \in ItemRow
  PROVE  LineAmountPy(i) \in Int /\ LineAmount(i) \in Int /\ i.item_id \in Int
  <1>1. /\ i.item_id \in Int /\ i.price \in Optional(Int) /\ i.quantity \in Optional(Int)
    BY DEF ItemRow
  <1>2. /\ OrFalsy(i.price, 0) \in Int /\ OrFalsy(i.quantity, 1) \in Int
        /\ OrElse(i.price, 0) \in Int /\ OrElse(i.quantity, 1) \in Int
    BY <1>1 DEF OrFalsy, OrElse, Optional
  <1>3. LineAmountPy(i) \in Int
    BY <1>2, ProductTyped DEF LineAmountPy
  <1>4. LineAmount(i) \in Int
    BY <1>2, ProductTyped DEF LineAmount
  <1> QED BY <1>1, <1>3, <1>4

\* Only a quantity of 0 makes a difference.
LEMMA SameAmount ==
  ASSUME NEW i \in ItemRow, i.quantity # 0
  PROVE  LineAmountPy(i) = LineAmount(i)
  BY DEF LineAmountPy, LineAmount, OrFalsy, OrElse

\* A larger amount wins, or the same amount with a smaller identifier.
Beats(x, y) ==
  \/ LineAmountPy(x) > LineAmountPy(y)
  \/ LineAmountPy(x) = LineAmountPy(y) /\ x.item_id < y.item_id

\* That orders rows totally, except those with one identifier.
LEMMA BeatsOrders ==
  ASSUME NEW x \in ItemRow, NEW y \in ItemRow, NEW z \in ItemRow
  PROVE  /\ ~(Beats(x, y) /\ Beats(y, x)) /\ ~Beats(x, x)
         /\ ~Beats(x, y) /\ ~Beats(y, x) => x.item_id = y.item_id
         /\ ~Beats(x, y) /\ ~Beats(y, z) => ~Beats(x, z)
  <1> DEFINE a == LineAmountPy(x)
             b == LineAmountPy(y)
             c == LineAmountPy(z)
  <1>1. /\ a \in Int /\ b \in Int /\ c \in Int
        /\ x.item_id \in Int /\ y.item_id \in Int /\ z.item_id \in Int
    BY AmountTyped
  <1>2. /\ Beats(x, y) <=> a > b \/ (a = b /\ x.item_id < y.item_id)
        /\ Beats(y, x) <=> b > a \/ (b = a /\ y.item_id < x.item_id)
        /\ Beats(y, z) <=> b > c \/ (b = c /\ y.item_id < z.item_id)
        /\ Beats(x, z) <=> a > c \/ (a = c /\ x.item_id < z.item_id)
        /\ Beats(x, x) <=> a > a \/ (a = a /\ x.item_id < x.item_id)
    BY DEF Beats
  <1> HIDE DEF a, b, c
  <1> QED BY <1>1, <1>2

\* The place no other beats.
Leads(items, c, i) == i \in c /\ \A j \in c : ~Beats(items[j], items[i])
Leader(items, c) == CHOOSE i \in c : Leads(items, c, i)

\* There is one and only one.
LEMMA LeaderIsOne ==
  ASSUME NEW n \in Nat, NEW items, DistinctItems(items, n), NEW c \in SUBSET (1..n), c # {}
  PROVE  Leads(items, c, Leader(items, c)) /\ \A i : Leads(items, c, i) => i = Leader(items, c)
  <1> DEFINE R == { p \in c \X c : ~Beats(items[p[2]], items[p[1]]) }
  <1>1. \A i \in c : items[i] \in ItemRow
    BY DEF DistinctItems
  <1>2. IsFiniteSet(c)
    <2>1. IsFiniteSet(1..n)
      BY FS_Interval
    <2> QED BY <2>1, FS_Subset
  <1>3. \A x, y \in c : << x, y >> \in R <=> ~Beats(items[y], items[x])
    OBVIOUS
  <1> HIDE DEF R
  <1>4. \A x, y \in c : << x, y >> \in R \/ << y, x >> \in R
    BY <1>1, <1>3, BeatsOrders
  <1>5. \A x, y, z \in c : << x, y >> \in R /\ << y, z >> \in R => << x, z >> \in R
    BY <1>1, <1>3, BeatsOrders
  <1>6. PICK k \in c : \A j \in c : << k, j >> \in R
    BY <1>2, <1>4, <1>5, FirstExists
  <1>7. Leads(items, c, k)
    BY <1>3, <1>6 DEF Leads
  <1>8. Leads(items, c, Leader(items, c))
    BY <1>7 DEF Leader
  <1>9. ASSUME NEW i, NEW l, Leads(items, c, i), Leads(items, c, l) PROVE i = l
    <2>1. i \in c /\ l \in c /\ ~Beats(items[i], items[l]) /\ ~Beats(items[l], items[i])
      BY <1>9 DEF Leads
    <2>2. items[i].item_id = items[l].item_id
      BY <1>1, <2>1, BeatsOrders
    <2> QED BY <2>1, <2>2 DEF DistinctItems
  <1> QED BY <1>8, <1>9

\* The places that compete, and what Python holds after them.
Competing(items, s, order_ref, lookup) ==
  { i \in s : items[i].order_ref = order_ref /\ items[i].product_id \in DOMAIN lookup }

LineOf(item, lookup) ==
  [category |-> lookup[item.product_id], amount |-> LineAmountPy(item), item_id |-> item.item_id]

BestOf(items, s, order_ref, lookup) ==
  LET c == Competing(items, s, order_ref, lookup)
  IN  IF c = {} THEN None ELSE LineOf(items[Leader(items, c)], lookup)

\* Every category of a lookup is a number.
Rates(lookup) == \A id \in DOMAIN lookup : lookup[id] \in Int

\* One more item takes the best line one step on.
LEMMA BestGrows ==
  ASSUME NEW n \in Nat, NEW items, DistinctItems(items, n), NEW order_ref,
         NEW lookup, Rates(lookup), NEW s \in SUBSET (1..n), NEW m \in s
  PROVE  BestOf(items, s, order_ref, lookup) =
           BestAfter(BestOf(items, s \ {m}, order_ref, lookup), items[m], order_ref, lookup)
  <1> DEFINE c == Competing(items, s, order_ref, lookup)
             d == Competing(items, s \ {m}, order_ref, lookup)
             best == BestOf(items, s \ {m}, order_ref, lookup)
  <1>1. CASE ~(items[m].order_ref = order_ref /\ items[m].product_id \in DOMAIN lookup)
    <2>1. c = d
      BY <1>1 DEF Competing
    <2>2. BestOf(items, s, order_ref, lookup) = best
      BY <2>1 DEF BestOf
    <2> QED BY <1>1, <2>2 DEF BestAfter
  <1>2. CASE items[m].order_ref = order_ref /\ items[m].product_id \in DOMAIN lookup
    <2>1. c = d \cup {m} /\ m \notin d /\ c \in SUBSET (1..n) /\ d \in SUBSET (1..n)
      BY <1>2 DEF Competing
    <2>2. \A i \in c : items[i] \in ItemRow
      BY <2>1 DEF DistinctItems
    <2>3. BestOf(items, s, order_ref, lookup) = LineOf(items[Leader(items, c)], lookup)
      BY <2>1 DEF BestOf
    <2>4. BestAfter(best, items[m], order_ref, lookup) =
            IF Better(best, items[m]) THEN LineOf(items[m], lookup) ELSE best
      BY <1>2 DEF BestAfter, LineOf
    <2>5. CASE d = {}
      <3>1. best = None
        BY <2>5 DEF BestOf
      <3>2. Leads(items, c, m)
        BY <2>1, <2>2, <2>5, BeatsOrders DEF Leads
      <3>3. Leader(items, c) = m
        BY <2>1, <3>2, LeaderIsOne
      <3>4. Better(best, items[m])
        BY <3>1 DEF Better
      <3> QED BY <2>3, <2>4, <3>3, <3>4
    <2>6. CASE d # {}
      <3> DEFINE l == Leader(items, d)
                 x == items[m]
                 y == items[l]
      <3>1. best = LineOf(y, lookup)
        BY <2>6 DEF BestOf
      <3>2. Leads(items, d, l)
        BY <2>1, <2>6, LeaderIsOne
      <3>3. l \in d /\ l \in c /\ x \in ItemRow /\ y \in ItemRow
        BY <2>1, <2>2, <3>2 DEF Leads
      <3>4. y.product_id \in DOMAIN lookup
        BY <3>3 DEF Competing
      <3>5. best # None /\ best.amount = LineAmountPy(y) /\ best.item_id = y.item_id
        <4>1. /\ lookup[y.product_id] \in Int /\ LineAmountPy(y) \in Int /\ y.item_id \in Int
          BY <3>3, <3>4, AmountTyped DEF Rates
        <4>2. best \in [category : Int, amount : Int, item_id : Int]
          BY <3>1, <4>1 DEF LineOf
        <4>3. best # None
          BY <4>2, AnalyticsCAssumption
        <4> QED BY <3>1, <4>3 DEF LineOf
      <3>6. Better(best, x) <=> Beats(x, y)
        <4>1. x.item_id \in Int /\ y.item_id \in Int
          BY <3>3, AmountTyped
        <4>2. x.item_id # None /\ y.item_id # None
          BY <4>1, NoneAssumption
        <4> HIDE DEF best, x, y, l
        <4> QED BY <3>5, <4>2 DEF Better, Beats
      <3>7. CASE Beats(x, y)
        <4>1. ASSUME NEW j \in c PROVE ~Beats(items[j], x)
          <5>1. CASE j = m
            BY <3>3, <5>1, BeatsOrders
          <5>2. CASE j # m
            <6>1. j \in d /\ ~Beats(items[j], y)
              BY <2>1, <3>2, <5>2 DEF Leads
            <6>2. ~Beats(y, x)
              BY <3>3, <3>7, BeatsOrders
            <6>3. items[j] \in ItemRow
              BY <2>2
            <6> HIDE DEF x, y
            <6> QED BY <3>3, <6>1, <6>2, <6>3, BeatsOrders
          <5> QED BY <5>1, <5>2
        <4>2. Leads(items, c, m)
          BY <2>1, <4>1 DEF Leads
        <4>3. Leader(items, c) = m
          BY <2>1, <4>2, LeaderIsOne
        <4> HIDE DEF y, l
        <4> QED BY <2>3, <2>4, <3>6, <3>7, <4>3
      <3>8. CASE ~Beats(x, y)
        <4>1. Leads(items, c, l)
          BY <2>1, <3>2, <3>3, <3>8 DEF Leads
        <4>2. Leader(items, c) = l
          BY <2>1, <4>1, LeaderIsOne
        <4>3. LineOf(items[Leader(items, c)], lookup) = best
          BY <3>1, <4>2
        <4> HIDE DEF y, l
        <4> QED BY <2>3, <2>4, <3>6, <3>8, <4>3
      <3> QED BY <3>7, <3>8
    <2> QED BY <2>5, <2>6
  <1> QED BY <1>1, <1>2

\* The category Python selects is that of the leading place.
LEMMA SelectedIsBest ==
  ASSUME NEW n \in Nat, NEW items, DOMAIN items = 1..n, DistinctItems(items, n),
         NEW order_ref, NEW lookup, Rates(lookup)
  PROVE  SelectCategoryForOrder(order_ref, items, lookup) =
           LET best == BestOf(items, 1..n, order_ref, lookup)
           IN  IF best = None THEN None ELSE best.category
  <1> DEFINE S == 1..n
             pick == [s \in SUBSET S |-> Max(s)]
             g == [s \in SUBSET S |-> BestOf(items, s, order_ref, lookup)]
             Body(h) == [s \in SUBSET S |->
               IF s = {} THEN None
               ELSE BestAfter(h[s \ {Max(s)}], items[Max(s)], order_ref, lookup)]
  <1>1. IsFiniteSet(S)
    BY FS_Interval
  <1>2. \A s \in SUBSET S : s # {} => Max(s) \in s /\ s \ {Max(s)} \in SUBSET S
    BY LastPosition
  <1>3. g[{}] = None
    BY DEF BestOf, Competing
  <1>4. \A s \in SUBSET S :
          s # {} => g[s] = BestAfter(g[s \ {Max(s)}], items[Max(s)], order_ref, lookup)
    <2> SUFFICES ASSUME NEW s \in SUBSET S, s # {}
                 PROVE  g[s] = BestAfter(g[s \ {Max(s)}], items[Max(s)], order_ref, lookup)
      OBVIOUS
    <2>1. PICK m \in s : m = Max(s)
      BY <1>2
    <2>2. BestOf(items, s, order_ref, lookup) =
            BestAfter(BestOf(items, s \ {m}, order_ref, lookup), items[m], order_ref, lookup)
      BY BestGrows
    <2> QED BY <1>2, <2>1, <2>2
  <1>5. g = Body(g)
    <2> HIDE DEF S
    <2> QED BY <1>3, <1>4
  <1>6. ASSUME NEW h, h = Body(h) PROVE h[S] = g[S]
    <2>1. \A s \in SUBSET S :
            h[s] = IF s = {} THEN None
                   ELSE BestAfter(h[s \ {Max(s)}], items[Max(s)], order_ref, lookup)
      <3> HIDE DEF S
      <3> QED BY <1>6
    <2> HIDE DEF g, S
    <2>2. Follows(h, g, S, pick)
      BY <1>2, <1>3, <1>4, <2>1 DEF Follows
    <2> HIDE DEF pick
    <2>3. \A s \in SUBSET S : h[s] = g[s]
      BY <1>1, <2>2, SameFold
    <2> QED BY <2>3
  <1> DEFINE fold == (CHOOSE h : h = Body(h))[S]
  <1>7. SelectCategoryForOrder(order_ref, items, lookup) =
          IF fold = None THEN None ELSE fold.category
    BY DEF SelectCategoryForOrder, FoldLeft, MapThenFoldSet
  <1>8. fold = g[S]
    <2> DEFINE h == CHOOSE h : h = Body(h)
    <2>1. h = Body(h)
      <3> HIDE DEF Body
      <3> QED BY <1>5
    <2> HIDE DEF h, Body, S
    <2> QED BY <1>6, <2>1 DEF h
  <1> HIDE DEF fold
  <1> QED BY <1>7, <1>8

-----------------------------------------------------------------------------
(* The window of Spark *)

\* Lines of two items are ranked by what Python compares.
LEMMA RankedLikePython ==
  ASSUME NEW x \in ItemRow \X ProductRow, NEW y \in ItemRow \X ProductRow,
         x[2].category # None,
         LineAmountPy(x[1]) = LineAmount(x[1]), LineAmountPy(y[1]) = LineAmount(y[1])
  PROVE  /\ Beats(x[1], y[1]) => RanksBefore(x, y) /\ ~RanksBefore(y, x)
         /\ x = y => ~RanksBefore(x, y)
  <1> DEFINE a == LineAmount(x[1])
             b == LineAmount(y[1])
             i == x[1].item_id
             j == y[1].item_id
             r == Rank(x)
             q == Rank(y)
  <1>1. a \in Int /\ b \in Int /\ i \in Int /\ j \in Int
    BY AmountTyped
  <1>2. i # None /\ j # None
    BY <1>1, NoneAssumption
  <1>3. /\ r[1] = -a /\ r[2] = 0 /\ r[3] = i
        /\ q[1] = -b /\ q[2] = 0 /\ q[3] = j
    BY <1>2 DEF Rank, OrElse
  <1>4. r[4] \in Int /\ q[4] \in Int
    BY DEF Rank, ItemRow
  <1>5. RanksBefore(x, y) <=> \E k \in 1..5 : r[k] < q[k] /\ \A l \in 1..k-1 : r[l] = q[l]
    BY DEF RanksBefore
  <1>6. RanksBefore(y, x) <=> \E k \in 1..5 : q[k] < r[k] /\ \A l \in 1..k-1 : q[l] = r[l]
    BY DEF RanksBefore
  <1>7. Beats(x[1], y[1]) <=> a > b \/ (a = b /\ i < j)
    BY DEF Beats
  <1>8. ASSUME x = y PROVE ~RanksBefore(x, y)
    <2> SUFFICES ASSUME RanksBefore(x, y) PROVE FALSE
      OBVIOUS
    <2>1. PICK k \in 1..5 : r[k] < r[k]
      BY <1>5, <1>8
    <2>2. r[1] \in Int /\ r[2] \in Int /\ r[3] \in Int /\ r[4] \in Int
      BY <1>1, <1>3, <1>4
    <2>3. r[5] \in Int
      BY DEF Rank, ProductRow, Optional
    <2> HIDE DEF r
    <2>4. k = 1 \/ k = 2 \/ k = 3 \/ k = 4 \/ k = 5
      OBVIOUS
    <2> QED BY <2>1, <2>2, <2>3, <2>4
  <1> HIDE DEF a, b, i, j, r, q
  <1>9. ASSUME Beats(x[1], y[1]) PROVE RanksBefore(x, y) /\ ~RanksBefore(y, x)
    <2>1. CASE a > b
      <3>1. r[1] < q[1] /\ ~(q[1] < r[1]) /\ q[1] # r[1]
        BY <1>1, <1>3, <2>1
      <3>2. \A k \in 1..5 : k = 1 \/ 1 \in 1..k-1
        OBVIOUS
      <3> QED BY <1>5, <1>6, <3>1, <3>2
    <2>2. CASE a = b /\ i < j
      <3>1. /\ r[1] = q[1] /\ r[2] = q[2] /\ r[3] < q[3] /\ ~(q[3] < r[3]) /\ q[3] # r[3]
            /\ ~(q[1] < r[1]) /\ ~(q[2] < r[2])
        BY <1>1, <1>3, <2>2
      <3>2. \A k \in 1..5 : k = 1 \/ k = 2 \/ k = 3 \/ 3 \in 1..k-1
        OBVIOUS
      <3>3. \A l \in 1..3-1 : l = 1 \/ l = 2
        OBVIOUS
      <3> QED BY <1>5, <1>6, <3>1, <3>2, <3>3
    <2> QED BY <1>7, <1>9, <2>1, <2>2
  <1> QED BY <1>8, <1>9

\* For an order without an item of quantity 0, in whatever order the records
\* are read, Python selects the category that Spark ranks first.
LEMMA SameCategory ==
  ASSUME TypeOK, TablesInv, NEW items \in SetToSeqs(order_items),
         NEW products \in SetToSeqs(Products), NEW order_ref,
         \A i \in order_items : i.order_ref = order_ref => i.quantity # 0
  PROVE  SelectCategoryForOrder(order_ref, items, ProductCategories(products))
           = CategoryOf(order_ref, order_items, Products)
  <1> DEFINE n == Cardinality(order_items)
             lookup == ProductCategories(products)
             lines == Lines(order_ref, order_items, Products)
             c == Competing(items, 1..n, order_ref, lookup)
             best == BestOf(items, 1..n, order_ref, lookup)
  <1>1. /\ items \in [1..n -> order_items]
        /\ \A i, j \in 1..n : i # j => items[i] # items[j]
    BY DEF SetToSeqs
  <1>2. n \in Nat /\ \A i \in order_items : \E k \in 1..n : items[k] = i
    <2>1. IsFiniteSet(order_items)
      BY DEF TablesInv
    <2> QED BY <1>1, <2>1, ListHasAll
  <1>3. order_items \subseteq ItemRow /\ Products \subseteq ProductRow
    BY AnalyticsCAssumption DEF TypeOK
  <1>4. /\ \A id \in DOMAIN lookup : id # None
        /\ \A p \in Products : p.product_id \in DOMAIN lookup <=> p.category # None
        /\ \A p \in Products : p.category # None => lookup[p.product_id] = p.category
        /\ \A id \in DOMAIN lookup : \E p \in Products : p.product_id = id
    BY ProductLookup
  <1> HIDE DEF lookup, n
  <1>5. DistinctItems(items, n)
    BY <1>1, <1>3 DEF DistinctItems, TablesInv, ItemsMerged
  <1>6. Rates(lookup)
    <2> SUFFICES ASSUME NEW id \in DOMAIN lookup PROVE lookup[id] \in Int
      BY DEF Rates
    <2>1. PICK p \in Products : p.product_id = id
      BY <1>4
    <2>2. p.category # None /\ lookup[id] = p.category
      BY <1>4, <2>1
    <2>3. p.category \in Optional(Int)
      BY <1>3 DEF ProductRow
    <2> QED BY <2>2, <2>3 DEF Optional
  <1>7. SelectCategoryForOrder(order_ref, items, lookup) =
          IF best = None THEN None ELSE best.category
    BY <1>1, <1>2, <1>5, <1>6, SelectedIsBest
  <1>8. \A line \in lines :
          /\ line[1] \in order_items /\ line[2] \in Products /\ line = << line[1], line[2] >>
          /\ line[1].order_ref = order_ref /\ line[1].product_id = line[2].product_id
          /\ line[2].category # None
    BY DEF Lines
  <1>9. ASSUME NEW k \in c
        PROVE  \E p \in Products :
                 << items[k], p >> \in lines /\ p.category = lookup[items[k].product_id]
    <2>1. /\ items[k] \in order_items /\ items[k].order_ref = order_ref
          /\ items[k].product_id \in DOMAIN lookup
      BY <1>1 DEF Competing
    <2>2. PICK p \in Products : p.product_id = items[k].product_id
      BY <1>4, <2>1
    <2>3. p.category # None /\ lookup[p.product_id] = p.category /\ p.product_id # None
      BY <1>4, <2>1, <2>2
    <2>4. << items[k], p >> \in lines
      BY <2>1, <2>2, <2>3 DEF Lines
    <2> QED BY <2>2, <2>3, <2>4
  <1>10. ASSUME NEW line \in lines PROVE \E k \in c : items[k] = line[1]
    <2>1. line[1].product_id \in DOMAIN lookup
      BY <1>4, <1>8
    <2>2. PICK k \in 1..n : items[k] = line[1]
      BY <1>2, <1>8
    <2> QED BY <1>8, <2>1, <2>2 DEF Competing
  <1>11. CASE c = {}
    <2>1. lines = {}
      BY <1>10, <1>11
    <2>2. best = None
      BY <1>11 DEF BestOf
    <2> HIDE DEF lines, best
    <2>3. CategoryOf(order_ref, order_items, Products) = None
      BY <2>1 DEF CategoryOf, lines
    <2> QED BY <1>7, <2>2, <2>3 DEF lookup
  <1>12. CASE c # {}
    <2> DEFINE l == Leader(items, c)
               first == CHOOSE x \in lines : \A y \in lines : ~RanksBefore(y, x)
    <2>1. Leads(items, c, l)
      <3>1. c \in SUBSET (1..n)
        BY DEF Competing
      <3> HIDE DEF c
      <3> QED BY <1>2, <1>5, <1>12, <3>1, LeaderIsOne
    <2>2. l \in c /\ \A k \in c : ~Beats(items[k], items[l])
      BY <2>1 DEF Leads
    <2>3. PICK p \in Products :
            << items[l], p >> \in lines /\ p.category = lookup[items[l].product_id]
      BY <1>9, <2>2
    <2> DEFINE x == << items[l], p >>
    <2>4. best = LineOf(items[l], lookup)
      BY <1>12 DEF BestOf
    <2>5. best # None /\ best.category = p.category
      <3>1. items[l] \in ItemRow /\ items[l].product_id \in DOMAIN lookup
        BY <1>1, <1>3, <2>2 DEF Competing
      <3>2. /\ lookup[items[l].product_id] \in Int /\ LineAmountPy(items[l]) \in Int
            /\ items[l].item_id \in Int
        BY <1>6, <3>1, AmountTyped DEF Rates
      <3>3. best \in [category : Int, amount : Int, item_id : Int]
        BY <2>4, <3>2 DEF LineOf
      <3>4. best # None
        BY <3>3, AnalyticsCAssumption
      <3> QED BY <2>3, <2>4, <3>4 DEF LineOf
    <2>6. ASSUME NEW y \in lines
          PROVE  ~RanksBefore(y, x) /\ (y # x => RanksBefore(x, y))
      <3>1. PICK k \in c : items[k] = y[1]
        BY <1>10
      <3>2. ~Beats(y[1], items[l])
        BY <2>2, <3>1
      <3>3. /\ x \in ItemRow \X ProductRow /\ y \in ItemRow \X ProductRow
            /\ x[1] = items[l] /\ x[2] = p /\ x[2].category # None
        BY <1>3, <1>8, <2>3
      <3>4. /\ LineAmountPy(x[1]) = LineAmount(x[1])
            /\ LineAmountPy(y[1]) = LineAmount(y[1])
        BY <1>3, <1>8, <2>3, <3>3, SameAmount
      <3>5. CASE y[1] = items[l]
        <4>1. y[2].product_id = p.product_id
          BY <1>8, <2>3, <3>3, <3>5
        <4>2. y[2] = p
          BY <1>8, <4>1, AnalyticsCAssumption
        <4>3. y = x
          BY <1>8, <3>5, <4>2
        <4> QED BY <3>3, <3>4, <4>3, RankedLikePython
      <3>6. CASE y[1] # items[l]
        <4>1. y[1].item_id # items[l].item_id
          BY <1>1, <1>8, <2>2, <3>6 DEF Competing, TablesInv, ItemsMerged
        <4>2. Beats(x[1], y[1])
          <5>1. x[1] \in ItemRow /\ y[1] \in ItemRow
            BY <3>3
          <5> QED BY <3>2, <3>3, <4>1, <5>1, BeatsOrders
        <4> HIDE DEF x
        <4> QED BY <3>3, <3>4, <4>2, RankedLikePython
      <3> QED BY <3>5, <3>6
    <2>7. first = x
      <3>1. x \in lines
        BY <2>3
      <3> HIDE DEF x, lines
      <3> QED BY <2>6, <3>1
    <2>8. CategoryOf(order_ref, order_items, Products) = first[2].category
      BY <2>3 DEF CategoryOf
    <2>9. first[2] = p
      <3> HIDE DEF first
      <3> QED BY <2>7
    <2> HIDE DEF best, first
    <2> QED BY <1>7, <2>5, <2>8, <2>9 DEF lookup
  <1> QED BY <1>11, <1>12

-----------------------------------------------------------------------------
\* The Spark job and the plain Python statement of Pipeline C agree, in whatever
\* order Python reads the records.
THEOREM FactTwins == Spec => []TwinsAgree
  <1>1. Init => TablesInv
    BY AnalyticsCAssumption DEF Init, TablesInv
  <1>2. TypeOK /\ TablesInv => TwinsAgree
    <2> SUFFICES ASSUME TypeOK, TablesInv,
                        NEW events \in SetToSeqs(order_events),
                        NEW items \in SetToSeqs(order_items),
                        NEW products \in SetToSeqs(Products)
                 PROVE  LET zero == { i.order_ref : i \in { j \in order_items : j.quantity = 0 } }
                            of(rows) == { r \in rows : r.order_ref \notin zero }
                        IN  of(BuildFactPaymentAnonymized(events, items, products, None))
                            = of(TransformFact(order_events, order_items, Products, None))
      BY DEF TwinsAgree
    <2> DEFINE zero == { i.order_ref : i \in { j \in order_items : j.quantity = 0 } }
               of(rows) == { r \in rows : r.order_ref \notin zero }
               n == Cardinality(order_events)
               lookup == ProductCategories(products)
               ByPython(e) == FactRow(e, SelectCategoryForOrder(e.order_ref, items, lookup), None)
               BySpark(e) == FactRow(e, CategoryOf(e.order_ref, order_items, Products), None)
    <2>1. /\ events \in [1..n -> order_events]
          /\ \A i, j \in 1..n : i # j => events[i] # events[j]
      BY DEF SetToSeqs
    <2>2. \A e \in order_events : \E i \in 1..n : events[i] = e
      <3>1. IsFiniteSet(order_events)
        BY DEF TablesInv
      <3> QED BY <2>1, <3>1, ListHasAll
    <2>3. DOMAIN events = 1..n
      BY <2>1
    <2> HIDE DEF n
    <2>4. ASSUME NEW e, e.order_ref \notin zero PROVE ByPython(e) = BySpark(e)
      <3>1. \A i \in order_items : i.order_ref = e.order_ref => i.quantity # 0
        BY <2>4
      <3>2. SelectCategoryForOrder(e.order_ref, items, lookup)
              = CategoryOf(e.order_ref, order_items, Products)
        BY <3>1, SameCategory
      <3> QED BY <3>2
    <2>5. \A e : ByPython(e).order_ref = e.order_ref /\ BySpark(e).order_ref = e.order_ref
      BY DEF FactRow
    <2>6. BuildFactPaymentAnonymized(events, items, products, None) =
            { ByPython(events[i]) : i \in { k \in 1..n : Kept(events[k]) } }
      BY <2>3 DEF BuildFactPaymentAnonymized
    <2>7. TransformFact(order_events, order_items, Products, None) =
            { BySpark(e) : e \in { x \in order_events : Kept(x) } }
      BY DEF TransformFact
    <2> HIDE DEF zero, ByPython, BySpark, lookup
    <2>8. of({ ByPython(events[i]) : i \in { k \in 1..n : Kept(events[k]) } })
            = of({ BySpark(e) : e \in { x \in order_events : Kept(x) } })
      BY <2>1, <2>2, <2>4, <2>5
    <2> QED BY <2>6, <2>7, <2>8 DEF zero
  <1>3. TypeOK /\ RunInv /\ TablesInv /\ [Next]_vars => TablesInv'
    BY TablesNext
  <1> QED BY <1>1, <1>2, <1>3, Running, PTL DEF Spec
=============================================================================
