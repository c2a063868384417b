------------------------ MODULE ControlsTwinsProofs ------------------------
(***************************************************************************)
(* Proofs that the computations of ControlsGold come to the same in Spark  *)
(* and in plain Python: the transformation of Silver, row by row, the      *)
(* daily balances and the operational tables.                              *)
(***************************************************************************)
EXTENDS ControlsGoldProofs

\* The raw orders are finitely many, with statuses that have a place.
OrdersInv ==
  /\ IsFiniteSet(orders)
  /\ \A o \in orders : o \in OrderRaw /\ o.status \in Optional(Range(StatusOrder))

\* They come from the batches.
LEMMA OrdersNext ==
  ASSUME LocalsInv, OrdersInv, [Next]_vars
  PROVE  OrdersInv'
  <1>1. CASE UNCHANGED orders
    BY <1>1 DEF OrdersInv
  <1>2. CASE OrdersArrive
    <2>1. feed \in Seq(Batches) /\ feed # << >> /\ orders' = orders \cup Batch.orders
      BY <1>2 DEF OrdersArrive, LocalsInv
    <2>2. Batch \in Batches
      <3> HIDE DEF Batches
      <3> QED BY <2>1 DEF Batch
    <2>3. PICK rows : rows = Batch.orders
      OBVIOUS
    <2>4. /\ rows \in SUBSET OrderRaw /\ IsFiniteSet(rows)
          /\ \A o \in rows : o.status \in Optional(Range(StatusOrder))
      BY <2>2, <2>3 DEF Batches
    <2>5. IsFiniteSet(orders \cup rows)
      BY <2>4, FS_Union DEF OrdersInv
    <2> QED BY <2>1, <2>3, <2>4, <2>5 DEF OrdersInv
  <1>3. CASE SilverMerges \/ SyncRules \/ UNCHANGED vars
    BY <1>1, <1>3 DEF SilverMerges, SyncRules, vars, upstream
  <1>4. ASSUME NEW a \in Attempts, Script(a) PROVE OrdersInv'
    BY <1>1, <1>4 DEF Script, Start, LoadRules, FallBackToSeed, Write, WriteRefused, Fail,
                      upstream
  <1> QED BY <1>2, <1>3, <1>4 DEF Next

-----------------------------------------------------------------------------
(* The status of an order *)

\* Rows are ordered by numbers.
LEMMA RecencyTyped ==
  ASSUME NEW o \in OrderRaw, o.status \in Range(StatusOrder)
  PROVE  /\ Recency(o)[1] \in Int /\ Recency(o)[2] \in Int /\ Recency(o)[3] \in Int
         /\ Recency(o)[3] \in DOMAIN StatusOrder
         /\ StatusOrder[Recency(o)[3]] = o.status
  <1>1. /\ StatusPlace(o.status) \in DOMAIN StatusOrder
        /\ StatusOrder[StatusPlace(o.status)] = o.status
    BY DEF StatusPlace, Range
  <1>2. DOMAIN StatusOrder \subseteq Int
    BY ControlsGoldAssumption
  <1> QED BY <1>1, <1>2 DEF Recency, OrElse, OrderRaw, Optional

\* Of rows none of which is later than the other, both have one status.
LEMMA SameStatus ==
  ASSUME NEW o \in OrderRaw, NEW p \in OrderRaw,
         o.status \in Range(StatusOrder), p.status \in Range(StatusOrder),
         ~LaterThan(o, p), ~LaterThan(p, o)
  PROVE  o.status = p.status
  <1> DEFINE x == Recency(o)
             y == Recency(p)
  <1>1. /\ x[1] \in Int /\ x[2] \in Int /\ x[3] \in Int
        /\ y[1] \in Int /\ y[2] \in Int /\ y[3] \in Int
    BY RecencyTyped
  <1>2. StatusOrder[x[3]] = o.status /\ StatusOrder[y[3]] = p.status
    BY RecencyTyped
  <1>3. /\ \A i \in 1..3 : x[i] > y[i] => \E j \in 1..i-1 : x[j] # y[j]
        /\ \A i \in 1..3 : y[i] > x[i] => \E j \in 1..i-1 : x[j] # y[j]
    BY DEF LaterThan
  <1> HIDE DEF x, y
  <1>4. x[1] = y[1]
    BY <1>1, <1>3
  <1>5. x[2] = y[2]
    BY <1>1, <1>3, <1>4
  <1>6. x[3] = y[3]
    BY <1>1, <1>3, <1>4, <1>5
  <1> QED BY <1>2, <1>6

\* The rows that tell the status of an order.
Known == { o \in orders : o.order_id # None /\ o.status # None }

\* A listing has every row, and each once.
LEMMA Listing ==
  ASSUME OrdersInv, NEW listed \in SetToSeqs(Known)
  PROVE  \E n \in Nat : /\ listed \in [1..n -> Known]
                        /\ \A o \in Known : \E i \in 1..n : listed[i] = o
  <1>1. IsFiniteSet(Known)
    BY FS_Subset DEF Known, OrdersInv
  <1>2. listed \in [1..Cardinality(Known) -> Known]
        /\ \A i, j \in 1..Cardinality(Known) : i # j => listed[i] # listed[j]
    BY DEF SetToSeqs
  <1> QED BY <1>1, <1>2, ListHasAll

\* The places of an order among the first n rows, and the last of them.
Places(id, rows, n) == { i \in 1..n : rows[i].order_id = id }
LastPlace(id, rows, n) == Max(Places(id, rows, n))

\* In rows as they came, the status Spark finds is that of the last one.
LEMMA NewestIsLast ==
  ASSUME OrdersInv, NEW n \in Nat, NEW listed \in [1..n -> Known], AsTheyCame(listed),
         \A o \in Known : \E i \in 1..n : listed[i] = o, NEW id
  PROVE  LookupStatus(id, orders) =
           IF Places(id, listed, n) = {} THEN None ELSE listed[LastPlace(id, listed, n)].status
  <1> DEFINE known == { o \in orders : o.order_id = id /\ o.status # None }
             newest == CHOOSE o \in known : \A other \in known : ~LaterThan(other, o)
             last == LastPlace(id, listed, n)
  <1>1. CASE id = None
    <2>1. Places(id, listed, n) = {}
      BY <1>1 DEF Places, Known
    <2> QED BY <1>1, <2>1 DEF LookupStatus
  <1>2. CASE id # None
    <2>1. known = { o \in Known : o.order_id = id }
      BY <1>2 DEF Known
    <2>2. CASE known = {}
      <3>1. Places(id, listed, n) = {}
        BY <2>1, <2>2 DEF Places
      <3> QED BY <2>2, <3>1 DEF LookupStatus
    <2>3. CASE known # {}
      <3>1. Places(id, listed, n) # {}
        BY <2>1, <2>3 DEF Places
      <3>2. LookupStatus(id, orders) = newest.status
        BY <1>2, <2>3 DEF LookupStatus
      <3>3. last \in Places(id, listed, n) /\ \A i \in Places(id, listed, n) : i <= last
        BY <3>1, LastPosition DEF LastPlace, Places
      <3>4. listed[last] \in known
        BY <2>1, <3>3 DEF Places
      <3>5. ASSUME NEW other \in known PROVE other = listed[last] \/ ~LaterThan(other, listed[last])
        <4>1. PICK i \in 1..n : listed[i] = other
          BY <2>1
        <4>2. i \in Places(id, listed, n) /\ last \in 1..n
          BY <4>1, <3>3 DEF Places
        <4>3. i = last \/ i < last
          BY <3>3, <4>2
        <4> HIDE DEF last, known
        <4> QED BY <4>1, <4>2, <4>3 DEF AsTheyCame
      <3>6. \A o \in known : ~LaterThan(o, o)
        <4> SUFFICES ASSUME NEW o \in known, LaterThan(o, o) PROVE FALSE
          OBVIOUS
        <4>1. PICK i \in 1..3 : Recency(o)[i] > Recency(o)[i]
          BY DEF LaterThan
        <4>2. o \in OrderRaw /\ o.status \in Range(StatusOrder)
          BY DEF OrdersInv, Optional
        <4>3. Recency(o)[i] \in Int
          BY <4>2, RecencyTyped
        <4> QED BY <4>1, <4>3
      <3> HIDE DEF last, known
      <3>7. \A other \in known : ~LaterThan(other, listed[last])
        BY <3>5, <3>6
      <3>8. newest \in known /\ \A other \in known : ~LaterThan(other, newest)
        BY <3>4, <3>7
      <3> HIDE DEF newest
      <3>9. ~LaterThan(newest, listed[last]) /\ ~LaterThan(listed[last], newest)
        BY <3>4, <3>7, <3>8
      <3>10. \A o \in known : o \in OrderRaw /\ o.status \in Range(StatusOrder)
        BY DEF known, OrdersInv, Optional
      <3>11. newest.status = listed[last].status
        BY <3>4, <3>8, <3>9, <3>10, SameStatus
      <3> QED BY <3>1, <3>2, <3>11 DEF last
    <2> QED BY <2>2, <2>3
  <1> QED BY <1>1, <1>2

\* What the dict holds after the rows at some positions.
DictOf(rows, s) ==
  [id \in { rows[i].order_id : i \in s } |->
     rows[Max({ i \in s : rows[i].order_id = id })].status]

\* One more row takes the dict one step on.
LEMMA DictGrows ==
  ASSUME NEW n \in Nat, NEW rows,
         \A i \in 1..n : rows[i].order_id # None /\ rows[i].status # None,
         NEW s \in SUBSET (1..n), s # {}
  PROVE  DictOf(rows, s) = Noted(DictOf(rows, s \ {Max(s)}), rows[Max(s)])
  <1> DEFINE m == Max(s)
             o == rows[m]
             dict == DictOf(rows, s \ {m})
             At(t, id) == { i \in t : rows[i].order_id = id }
  <1>1. m \in s /\ \A i \in s : i <= m
    BY LastPosition
  <1>2. o.order_id # None /\ o.status # None
    BY <1>1
  <1> HIDE DEF m
  <1>3. Noted(dict, o) = [id \in DOMAIN dict \cup {o.order_id} |->
                            IF id = o.order_id THEN o.status ELSE dict[id]]
    BY <1>2 DEF Noted
  <1>4. { rows[i].order_id : i \in s } = DOMAIN dict \cup {o.order_id}
    BY <1>1 DEF DictOf
  <1>5. Max(At(s, o.order_id)) = m
    <2>1. At(s, o.order_id) \in SUBSET (1..n) /\ m \in At(s, o.order_id)
      BY <1>1
    <2>2. /\ Max(At(s, o.order_id)) \in At(s, o.order_id)
          /\ \A i \in At(s, o.order_id) : i <= Max(At(s, o.order_id))
      <3> HIDE DEF At
      <3> QED BY <2>1, LastPosition
    <2>3. Max(At(s, o.order_id)) \in s
      BY <2>2
    <2> QED BY <1>1, <2>1, <2>2, <2>3
  <1>6. \A id : id # o.order_id => At(s, id) = At(s \ {m}, id)
    OBVIOUS
  <1>7. ASSUME NEW id \in DOMAIN dict \cup {o.order_id}
        PROVE  rows[Max(At(s, id))].status = IF id = o.order_id THEN o.status ELSE dict[id]
    <2>1. CASE id = o.order_id
      BY <1>5, <2>1
    <2>2. CASE id # o.order_id
      BY <1>6, <1>7, <2>2 DEF DictOf
    <2> QED BY <2>1, <2>2
  <1>8. DictOf(rows, s) = [id \in { rows[i].order_id : i \in s } |-> rows[Max(At(s, id))].status]
    BY DEF DictOf
  <1> HIDE DEF dict, o, At
  <1>9. DictOf(rows, s) = Noted(dict, o)
    BY <1>3, <1>4, <1>7, <1>8
  <1> QED BY <1>9 DEF dict, o, m

\* The dict Python builds of the rows.
LEMMA LookupIsDict ==
  ASSUME NEW n \in Nat, NEW rows \in [1..n -> Known]
  PROVE  BuildStatusLookup(rows) = DictOf(rows, 1..n)
  <1> DEFINE S == 1..n
             pick == [s \in SUBSET S |-> Max(s)]
             g == [s \in SUBSET S |-> DictOf(rows, s)]
             Body(h) == [s \in SUBSET S |->
               IF s = {} THEN << >> ELSE Noted(h[s \ {Max(s)}], rows[Max(s)])]
  <1>1. IsFiniteSet(S) /\ DOMAIN rows = S
    BY FS_Interval
  <1>2. \A s \in SUBSET S : s # {} => Max(s) \in s /\ s \ {Max(s)} \in SUBSET S
    BY LastPosition
  <1>3. g[{}] = << >>
    BY DEF DictOf
  <1>4. \A s \in SUBSET S : s # {} => g[s] = Noted(g[s \ {Max(s)}], rows[Max(s)])
    <2>1. \A i \in 1..n : rows[i].order_id # None /\ rows[i].status # None
      BY DEF Known
    <2> QED BY <1>2, <2>1, DictGrows
  <1>5. g = Body(g)
    <2> HIDE DEF S
    <2> QED BY <1>3, <1>4
  <1>6. ASSUME NEW h, h = Body(h) PROVE h[S] = g[S]
    <2>1. \A s \in SUBSET S :
            h[s] = IF s = {} THEN << >> ELSE Noted(h[s \ {Max(s)}], rows[Max(s)])
      <3> HIDE DEF S
      <3> QED BY <1>6
    <2> HIDE DEF g, S
    <2>2. Follows(h, g, S, pick)
      BY <1>2, <1>3, <1>4, <2>1 DEF Follows
    <2> HIDE DEF pick
    <2>3. \A s \in SUBSET S : h[s] = g[s]
      BY <1>1, <2>2, SameFold
    <2> QED BY <2>3
  <1>7. BuildStatusLookup(rows) = (CHOOSE h : h = Body(h))[S]
    BY <1>1 DEF BuildStatusLookup, FoldLeft, MapThenFoldSet
  <1>8. BuildStatusLookup(rows) = g[S]
    <2> DEFINE h == CHOOSE h : h = Body(h)
    <2>1. h = Body(h)
      <3> HIDE DEF Body
      <3> QED BY <1>5
    <2> HIDE DEF h, Body, S
    <2> QED BY <1>6, <1>7, <2>1 DEF h
  <1> QED BY <1>8

\* In a list as they came, Python finds the status of every order Spark does.
LEMMA StatusFound ==
  ASSUME OrdersInv, NEW listed \in SetToSeqs(Known), AsTheyCame(listed), NEW id
  PROVE  LET lookup == BuildStatusLookup(listed)
         IN  /\ id \in DOMAIN lookup <=> LookupStatus(id, orders) # None
             /\ id \in DOMAIN lookup => lookup[id] = LookupStatus(id, orders)
  <1>1. PICK n \in Nat : /\ listed \in [1..n -> Known]
                         /\ \A o \in Known : \E i \in 1..n : listed[i] = o
    BY Listing
  <1> DEFINE places == Places(id, listed, n)
             last == Max(places)
  <1>2. BuildStatusLookup(listed) = DictOf(listed, 1..n)
    BY <1>1, LookupIsDict
  <1>3. id \in DOMAIN BuildStatusLookup(listed) <=> places # {}
    BY <1>2 DEF DictOf, Places
  <1>4. places # {} => BuildStatusLookup(listed)[id] = listed[last].status
    BY <1>2, <1>3 DEF DictOf, Places
  <1>5. LookupStatus(id, orders) = IF places = {} THEN None ELSE listed[last].status
    BY <1>1, NewestIsLast DEF LastPlace
  <1>6. places # {} => listed[last].status # None
    <2> SUFFICES ASSUME places # {} PROVE listed[last].status # None
      OBVIOUS
    <2>1. last \in places
      BY <1>1, LastPosition DEF Places
    <2>2. last \in 1..n
      BY <2>1 DEF Places
    <2> HIDE DEF last
    <2> QED BY <1>1, <2>2 DEF Known
  <1> HIDE DEF places, last
  <1> QED BY <1>3, <1>4, <1>5, <1>6

-----------------------------------------------------------------------------
(* Rows *)

\* The label of a chain of checks is that of the first one that applies.
LEMMA FirstOfChecks ==
  ASSUME NEW n \in Nat, NEW checks, DOMAIN checks = 1..n
  PROVE  /\ (\A i \in 1..n : ~checks[i][1]) => FirstOf(checks) = None
         /\ \A k \in 1..n : checks[k][1] /\ (\A j \in 1..n : j < k => ~checks[j][1]) =>
              FirstOf(checks) = checks[k][2]
  <1> DEFINE met == { i \in 1..n : checks[i][1] }
             first == CHOOSE i \in met : \A j \in met : i <= j
  <1>1. FirstOf(checks) = IF met = {} THEN None ELSE checks[first][2]
    BY DEF FirstOf
  <1>2. ASSUME NEW k \in 1..n, checks[k][1], \A j \in 1..n : j < k => ~checks[j][1]
        PROVE  met # {} /\ first = k
    <2>1. k \in met
      BY <1>2
    <2>2. \A j \in met : k <= j
      BY <1>2
    <2>3. first \in met /\ \A j \in met : first <= j
      BY <2>1, <2>2
    <2>4. first <= k /\ k <= first /\ first \in Int
      BY <2>1, <2>2, <2>3
    <2> HIDE DEF first
    <2> QED BY <2>1, <2>4
  <1> HIDE DEF first
  <1>3. (\A i \in 1..n : ~checks[i][1]) => met = {}
    OBVIOUS
  <1> HIDE DEF met
  <1> QED BY <1>1, <1>2, <1>3

\* Why a wallet row is bad.
LEMMA WalletChain ==
  ASSUME NEW w
  PROVE  WalletReason(w) =
           IF NullIfBlank(w.user_id) = None THEN "missing_user_id"
           ELSE IF w.balance = None \/ w.frozen_amount = None THEN "invalid_balance"
           ELSE IF Below(w.balance, 0) \/ Below(w.frozen_amount, 0) THEN "negative_balance"
           ELSE IF SnapshotTs(w) = None THEN "missing_snapshot_ts" ELSE None
  <1> DEFINE checks == << << NullIfBlank(w.user_id) = None, "missing_user_id" >>,
                          << w.balance = None \/ w.frozen_amount = None, "invalid_balance" >>,
                          << Below(w.balance, 0) \/ Below(w.frozen_amount, 0),
                             "negative_balance" >>,
                          << SnapshotTs(w) = None, "missing_snapshot_ts" >> >>
  <1>1. WalletReason(w) = FirstOf(checks)
    BY DEF WalletReason
  <1>2. /\ checks[1][2] = "missing_user_id" /\ checks[2][2] = "invalid_balance"
        /\ checks[3][2] = "negative_balance" /\ checks[4][2] = "missing_snapshot_ts"
    OBVIOUS
  <1>3. /\ checks[1][1] <=> NullIfBlank(w.user_id) = None
        /\ checks[2][1] <=> w.balance = None \/ w.frozen_amount = None
        /\ checks[3][1] <=> Below(w.balance, 0) \/ Below(w.frozen_amount, 0)
        /\ checks[4][1] <=> SnapshotTs(w) = None
    OBVIOUS
  <1>4. 4 \in Nat /\ DOMAIN checks = 1..4
    OBVIOUS
  <1> HIDE DEF checks
  <1>5. /\ (\A i \in 1..4 : ~checks[i][1]) => FirstOf(checks) = None
        /\ \A k \in 1..4 : checks[k][1] /\ (\A j \in 1..4 : j < k => ~checks[j][1]) =>
             FirstOf(checks) = checks[k][2]
    BY <1>4, FirstOfChecks
  <1>6. \A j \in 1..4 : j = 1 \/ j = 2 \/ j = 3 \/ j = 4
    OBVIOUS
  <1> QED BY <1>1, <1>2, <1>3, <1>5, <1>6

\* Wallets are judged and transformed alike.
LEMMA WalletTwins ==
  ASSUME NEW w \in WalletRaw, w.user_id # " "
  PROVE  TransformWalletRecord(w) =
           IF WalletReason(w) # None THEN Bad(WalletReason(w)) ELSE Good(WalletRow(w))
  <1>1. \A reason \in WalletReasons : reason # None
    BY ControlsGoldAssumption
  <1>2. /\ NullIfBlank(w.user_id) = None <=> ~Truthy(w.user_id)
        /\ w.balance = None \/ w.frozen_amount = None <=>
             {w.balance, w.frozen_amount} \cap {None} # {}
        /\ SnapshotTs(w) = DeriveSnapshotTs(w)
    BY DEF NullIfBlank, Truthy, SnapshotTs, DeriveSnapshotTs, OrElse
  <1>3. w.balance # None /\ w.frozen_amount # None =>
          (Below(w.balance, 0) \/ Below(w.frozen_amount, 0) <=>
             w.balance < 0 \/ w.frozen_amount < 0)
    BY DEF Below
  <1> QED BY <1>1, <1>2, <1>3, WalletChain DEF TransformWalletRecord, WalletRow, WalletReasons

\* A status that the rules do not allow.
StatusRefused(status) ==
  AllowedStatuses # {} /\ status # None /\ status \notin AllowedStatuses

\* Why a ledger row is bad.
LEMMA LedgerChain ==
  ASSUME NEW l, NEW rows
  PROVE  LedgerReason(l, rows) =
           IF NullIfBlank(l.tx_id) = None \/ NullIfBlank(l.wallet_id) = None
             THEN "missing_tx_or_wallet"
           ELSE IF EntryType(l) = None THEN "missing_entry_type"
           ELSE IF AllowedEntryTypes # {} /\ EntryType(l) \notin AllowedEntryTypes
             THEN "invalid_entry_type"
           ELSE IF l.amount = None THEN "invalid_amount"
           ELSE IF Below(l.amount, 1) THEN "non_positive_amount"
           ELSE IF EntryType(l) \notin DOMAIN EntryTypeSign THEN "amount_signed_unavailable"
           ELSE IF EventTime(l) = None THEN "missing_event_time"
           ELSE IF StatusRefused(StatusOf(l, rows)) THEN "invalid_status" ELSE None
  <1> DEFINE checks ==
        << << NullIfBlank(l.tx_id) = None \/ NullIfBlank(l.wallet_id) = None,
              "missing_tx_or_wallet" >>,
           << EntryType(l) = None, "missing_entry_type" >>,
           << AllowedEntryTypes # {} /\ EntryType(l) \notin AllowedEntryTypes,
              "invalid_entry_type" >>,
           << l.amount = None, "invalid_amount" >>,
           << Below(l.amount, 1), "non_positive_amount" >>,
           << EntryType(l) \notin DOMAIN EntryTypeSign, "amount_signed_unavailable" >>,
           << EventTime(l) = None, "missing_event_time" >>,
           << /\ AllowedStatuses # {} /\ StatusOf(l, rows) # None
              /\ StatusOf(l, rows) \notin AllowedStatuses, "invalid_status" >> >>
  <1>1. LedgerReason(l, rows) = FirstOf(checks)
    BY DEF LedgerReason
  <1>2. /\ checks[1][2] = "missing_tx_or_wallet" /\ checks[2][2] = "missing_entry_type"
        /\ checks[3][2] = "invalid_entry_type" /\ checks[4][2] = "invalid_amount"
        /\ checks[5][2] = "non_positive_amount" /\ checks[6][2] = "amount_signed_unavailable"
        /\ checks[7][2] = "missing_event_time" /\ checks[8][2] = "invalid_status"
    OBVIOUS
  <1>3. /\ checks[1][1] <=> NullIfBlank(l.tx_id) = None \/ NullIfBlank(l.wallet_id) = None
        /\ checks[2][1] <=> EntryType(l) = None
        /\ checks[3][1] <=> AllowedEntryTypes # {} /\ EntryType(l) \notin AllowedEntryTypes
        /\ checks[4][1] <=> l.amount = None
        /\ checks[5][1] <=> Below(l.amount, 1)
        /\ checks[6][1] <=> EntryType(l) \notin DOMAIN EntryTypeSign
        /\ checks[7][1] <=> EventTime(l) = None
        /\ checks[8][1] <=> StatusRefused(StatusOf(l, rows))
    BY DEF StatusRefused
  <1>4. 8 \in Nat /\ DOMAIN checks = 1..8
    OBVIOUS
  <1> HIDE DEF checks
  <1>5. /\ (\A i \in 1..8 : ~checks[i][1]) => FirstOf(checks) = None
        /\ \A k \in 1..8 : checks[k][1] /\ (\A j \in 1..8 : j < k => ~checks[j][1]) =>
             FirstOf(checks) = checks[k][2]
    BY <1>4, FirstOfChecks
  <1>6. \A j \in 1..8 : j = 1 \/ j = 2 \/ j = 3 \/ j = 4 \/ j = 5 \/ j = 6 \/ j = 7 \/ j = 8
    OBVIOUS
  <1>7. FirstOf(checks) =
          IF checks[1][1] THEN checks[1][2] ELSE IF checks[2][1] THEN checks[2][2]
          ELSE IF checks[3][1] THEN checks[3][2] ELSE IF checks[4][1] THEN checks[4][2]
          ELSE IF checks[5][1] THEN checks[5][2] ELSE IF checks[6][1] THEN checks[6][2]
          ELSE IF checks[7][1] THEN checks[7][2] ELSE IF checks[8][1] THEN checks[8][2] ELSE None
    BY <1>5, <1>6
  <1> QED BY <1>1, <1>2, <1>3, <1>7

\* What is used of numbers.
LEMMA Numbers ==
  /\ \A x \in Int : (x < 1) <=> (x <= 0)
  /\ \A x, y \in Int : x * y = y * x
  OBVIOUS

\* Signs are numbers.
LEMMA EntrySigns == \A t \in DOMAIN EntryTypeSign : EntryTypeSign[t] \in Int
  BY DEF EntryTypeSign

\* Given the status Python finds, ledger rows are judged and transformed alike.
LEMMA LedgerTwins ==
  ASSUME NEW l \in LedgerRaw, \A f \in {"tx_id", "wallet_id", "type", "entry_type"} : l[f] # " ",
         NEW rows, NEW lookup,
         l.related_id \in DOMAIN lookup <=> LookupStatus(l.related_id, rows) # None,
         l.related_id \in DOMAIN lookup => lookup[l.related_id] = LookupStatus(l.related_id, rows)
  PROVE  TransformLedgerRecord(l, lookup) =
           IF LedgerReason(l, rows) # None THEN Bad(LedgerReason(l, rows))
           ELSE Good(LedgerRow(l, rows))
  <1> DEFINE type == IF Truthy(l.type) THEN l.type ELSE l.entry_type
             time == IF l.created_at # None THEN l.created_at ELSE l.event_time
             status == IF l.related_id \in DOMAIN lookup THEN lookup[l.related_id] ELSE l.status
  <1>1. l.tx_id # " " /\ l.wallet_id # " " /\ l.type # " " /\ l.entry_type # " "
    OBVIOUS
  <1>2. /\ NullIfBlank(l.tx_id) = None <=> ~Truthy(l.tx_id)
        /\ NullIfBlank(l.wallet_id) = None <=> ~Truthy(l.wallet_id)
    BY <1>1 DEF NullIfBlank, Truthy
  <1>3. EntryType(l) = None <=> ~Truthy(type)
    BY <1>1 DEF EntryType, NullIfBlank, OrElse, Truthy
  <1>4. EntryType(l) # None => EntryType(l) = type
    BY <1>1 DEF EntryType, NullIfBlank, OrElse, Truthy
  <1>5. EventTime(l) = time
    BY DEF EventTime, OrElse
  <1>6. StatusOf(l, rows) = status
    BY DEF StatusOf, OrElse
  <1>7. l.amount # None => l.amount \in Int /\ (Below(l.amount, 1) <=> l.amount <= 0)
    <2>1. l.amount \in Optional(Int)
      BY DEF LedgerRaw
    <2> QED BY <2>1, Numbers DEF Optional, Below
  <1>8. l.amount \in Int /\ type \in DOMAIN EntryTypeSign =>
          EntryTypeSign[type] * l.amount = l.amount * EntryTypeSign[type]
    BY Numbers, EntrySigns
  <1>9. \A reason \in LedgerReasons : reason # None
    BY ControlsGoldAssumption
  <1>10. AllowedEntryTypes # {} /\ type \notin AllowedEntryTypes <=> ~Permits(AllowedEntryTypes, type)
    BY DEF Permits
  <1>11. StatusRefused(status) <=> status # None /\ ~Permits(AllowedStatuses, status)
    BY DEF StatusRefused, Permits
  <1>12. TransformLedgerRecord(l, lookup) =
           IF ~Truthy(l.tx_id) \/ ~Truthy(l.wallet_id) THEN Bad("missing_tx_or_wallet")
           ELSE IF ~Truthy(type) THEN Bad("missing_entry_type")
           ELSE IF ~Permits(AllowedEntryTypes, type) THEN Bad("invalid_entry_type")
           ELSE IF l.amount = None THEN Bad("invalid_amount")
           ELSE IF l.amount <= 0 THEN Bad("non_positive_amount")
           ELSE IF type \notin DOMAIN EntryTypeSign THEN Bad("amount_signed_unavailable")
           ELSE IF time = None THEN Bad("missing_event_time")
           ELSE IF status # None /\ ~Permits(AllowedStatuses, status) THEN Bad("invalid_status")
           ELSE Good([tx_id |-> l.tx_id, wallet_id |-> l.wallet_id, event_time |-> time,
                      event_date_kst |-> DateKst(time), entry_type |-> type,
                      amount |-> l.amount, amount_signed |-> EntryTypeSign[type] * l.amount,
                      related_id |-> l.related_id, status |-> status])
    BY DEF TransformLedgerRecord
  <1>13. LedgerRow(l, rows) =
           [tx_id |-> l.tx_id, wallet_id |-> l.wallet_id, event_time |-> EventTime(l),
            event_date_kst |-> DateKst(EventTime(l)), entry_type |-> EntryType(l),
            amount |-> l.amount, amount_signed |-> l.amount * EntryTypeSign[EntryType(l)],
            related_id |-> l.related_id, status |-> StatusOf(l, rows)]
    BY DEF LedgerRow
  <1> HIDE DEF type, time, status
  <1> QED BY <1>2, <1>3, <1>4, <1>5, <1>6, <1>7, <1>8, <1>9, <1>10, <1>11, <1>12, <1>13,
             LedgerChain DEF LedgerReasons

\* Spark and Python agree on what Silver makes of a row, in every state there
\* can be.
THEOREM SilverTwins == Spec => []SilverTwinsAgree
  <1>1. Init => OrdersInv
    BY FS_EmptySet DEF Init, OrdersInv
  <1>2. TypeOK /\ LocalsInv /\ OrdersInv /\ [Next]_vars => (TypeOK /\ LocalsInv /\ OrdersInv)'
    BY TypingNext, OrdersNext
  <1>3. LocalsInv /\ OrdersInv => SilverTwinsAgree
    <2> SUFFICES ASSUME LocalsInv, OrdersInv, feed # << >> PROVE SilverTwinsAgree
      BY DEF SilverTwinsAgree
    <2>1. feed \in Seq(Batches) /\ Batch \in Batches
      <3>1. feed \in Seq(Batches)
        BY DEF LocalsInv
      <3> HIDE DEF Batches
      <3> QED BY <3>1 DEF Batch
    <2>2. Batch.wallets \in SUBSET WalletRaw /\ Batch.ledger \in SUBSET LedgerRaw
      BY <2>1 DEF Batches
    <2>3. ASSUME NEW w \in Batch.wallets, ~Spaced(w, {"user_id"})
          PROVE  TransformWalletRecord(w) =
                   IF WalletReason(w) # None THEN Bad(WalletReason(w)) ELSE Good(WalletRow(w))
      BY <2>2, <2>3, WalletTwins DEF Spaced
    <2>4. ASSUME NEW listed \in SetToSeqs(Known), NEW l \in Batch.ledger, AsTheyCame(listed),
                 ~Spaced(l, {"tx_id", "wallet_id", "type", "entry_type"})
          PROVE  TransformLedgerRecord(l, BuildStatusLookup(listed)) =
                   IF LedgerReason(l, orders) # None THEN Bad(LedgerReason(l, orders))
                   ELSE Good(LedgerRow(l, orders))
      <3> DEFINE lookup == BuildStatusLookup(listed)
      <3>1. /\ l.related_id \in DOMAIN lookup <=> LookupStatus(l.related_id, orders) # None
            /\ l.related_id \in DOMAIN lookup =>
                 lookup[l.related_id] = LookupStatus(l.related_id, orders)
        BY <2>4, StatusFound
      <3>2. l \in LedgerRaw /\ \A f \in {"tx_id", "wallet_id", "type", "entry_type"} : l[f] # " "
        BY <2>2, <2>4 DEF Spaced
      <3> HIDE DEF lookup
      <3>3. TransformLedgerRecord(l, lookup) =
              IF LedgerReason(l, orders) # None THEN Bad(LedgerReason(l, orders))
              ELSE Good(LedgerRow(l, orders))
        BY <3>1, <3>2, LedgerTwins
      <3> QED BY <3>3 DEF lookup
    <2> QED BY <2>3, <2>4 DEF SilverTwinsAgree, Known
  <1> QED BY <1>1, <1>2, <1>3, TypingInit, PTL DEF Spec

-----------------------------------------------------------------------------
(* Sums *)

Picked(s) == CHOOSE x \in s : TRUE

\* The sums of the subsets of S, as TotalOf takes them up.
IsSum(g, S, amounts) ==
  \A s \in SUBSET S :
    g[s] = IF s = {} THEN 0 ELSE amounts[Picked(s)] + g[s \ {Picked(s)}]

\* There are such sums, and TotalOf is the one of all of S.
LEMMA TotalIsSum ==
  ASSUME NEW S, IsFiniteSet(S), NEW amounts \in [S -> Int]
  PROVE  \E g \in [SUBSET S -> Int] : IsSum(g, S, amounts) /\ TotalOf(amounts) = g[S]
  <1> DEFINE pick == [s \in SUBSET S |-> Picked(s)]
             op == [p \in S \X Int |-> amounts[p[1]] + p[2]]
             Body(g) == [s \in SUBSET S |->
               IF s = {} THEN 0 ELSE amounts[Picked(s)] + g[s \ {Picked(s)}]]
  <1>1. \A s \in SUBSET S : s # {} => Picked(s) \in s
    BY DEF Picked
  <1>2. op \in [S \X Int -> Int]
    OBVIOUS
  <1>3. PICK g \in [SUBSET S -> Int] : IsFold(g, S, pick, op, 0)
    <2>1. \A s \in SUBSET S : s # {} => pick[s] \in s
      BY <1>1
    <2>3. IsFiniteSet(S) /\ 0 \in Int
      OBVIOUS
    <2> HIDE DEF pick, op, Body
    <2>2. \E g \in [SUBSET S -> Int] : IsFold(g, S, pick, op, 0)
      BY <1>2, <2>1, <2>3, FoldExists
    <2> QED BY <2>2
  <1>4. IsSum(g, S, amounts)
    <2> SUFFICES ASSUME NEW s \in SUBSET S, s # {}
                 PROVE  g[s] = amounts[Picked(s)] + g[s \ {Picked(s)}]
      BY <1>3 DEF IsFold, IsSum
    <2>1. Picked(s) \in S /\ g[s \ {Picked(s)}] \in Int
      BY <1>1, <1>3
    <2>2. g[s] = op[<< pick[s], g[s \ {pick[s]}] >>]
      BY <1>3 DEF IsFold
    <2> QED BY <2>1, <2>2
  <1>5. g = Body(g)
    BY <1>3, <1>4 DEF IsSum
  <1>6. ASSUME NEW h, h = Body(h) PROVE h[S] = g[S]
    <2>1. \A s \in SUBSET S :
            h[s] = IF s = {} THEN 0 ELSE amounts[Picked(s)] + h[s \ {Picked(s)}]
      BY <1>6
    <2>2. Follows(h, g, S, pick)
      BY <1>1, <1>4, <2>1 DEF Follows, IsSum
    <2> HIDE DEF pick, op, Body
    <2>3. \A s \in SUBSET S : h[s] = g[s]
      BY <2>2, SameFold
    <2> QED BY <2>3
  <1>7. TotalOf(amounts) = (CHOOSE h : h = Body(h))[S]
    BY DEF TotalOf, MapThenSumSet, MapThenFoldSet, Picked
  <1>8. TotalOf(amounts) = g[S]
    <2> DEFINE h == CHOOSE h : h = Body(h)
    <2>1. h = Body(h)
      <3> HIDE DEF Body
      <3> QED BY <1>5
    <2> HIDE DEF h, Body
    <2> QED BY <1>6, <1>7, <2>1 DEF h
  <1> QED BY <1>4, <1>8

\* Two amounts can be added in either order.
LEMMA Exchange ==
  \A n, m, a, b, x, y \in Int :
    n = a + m /\ m = y + b /\ x = y + a => n = x + b
  OBVIOUS

\* Whatever member is taken out, what is left is less by its amount.
TakesAny(g, S, amounts) ==
  \A s \in SUBSET S : \A x \in s : g[s] = g[s \ {x}] + amounts[x]

\* A sum does not depend on what is taken up first.
LEMMA SumTakesAny ==
  ASSUME NEW S, IsFiniteSet(S), NEW amounts \in [S -> Int],
         NEW g, g \in [SUBSET S -> Int], IsSum(g, S, amounts)
  PROVE  TakesAny(g, S, amounts)
  <1> DEFINE Odd == { s \in SUBSET S : \E x \in s : g[s] # g[s \ {x}] + amounts[x] }
  <1> SUFFICES ASSUME Odd # {} PROVE FALSE
    BY DEF TakesAny
  <1>1. PICK s \in Odd : \A t \in SUBSET s : t # s => t \notin Odd
    <2>1. Odd \in SUBSET SUBSET S
      OBVIOUS
    <2> HIDE DEF Odd
    <2> QED BY <2>1, SmallestSubset
  <1>2. s \in SUBSET S
    BY <1>1
  <1>3. PICK x \in s : g[s] # g[s \ {x}] + amounts[x]
    BY <1>1
  <1> DEFINE c == Picked(s)
  <1>4. c \in s
    BY <1>3 DEF Picked
  <1> HIDE DEF c
  <1>5. g[s] = amounts[c] + g[s \ {c}]
    BY <1>2, <1>3 DEF IsSum, c
  <1>6. /\ amounts[c] \in Int /\ amounts[x] \in Int
        /\ g[s \ {c}] \in Int /\ g[s \ {x}] \in Int /\ g[(s \ {c}) \ {x}] \in Int
    BY <1>2, <1>3, <1>4
  <1>7. CASE c = x
    BY <1>3, <1>5, <1>6, <1>7
  <1>8. CASE c # x
    <2>1. s \ {c} \notin Odd /\ s \ {x} \notin Odd
      BY <1>1, <1>3, <1>4
    <2>2. g[s \ {c}] = g[(s \ {c}) \ {x}] + amounts[x]
      BY <1>2, <1>3, <1>8, <2>1
    <2>3. g[s \ {x}] = g[(s \ {x}) \ {c}] + amounts[c]
      BY <1>2, <1>4, <1>8, <2>1
    <2>4. (s \ {x}) \ {c} = (s \ {c}) \ {x}
      OBVIOUS
    <2>5. g[s \ {x}] = g[(s \ {c}) \ {x}] + amounts[c]
      BY <2>3, <2>4
    <2>6. g[s] # g[s \ {x}] + amounts[x]
      BY <1>3
    <2> HIDE DEF Odd
    <2> QED BY <1>5, <1>6, <2>2, <2>5, <2>6, Exchange
  <1> QED BY <1>7, <1>8

\* The sum over a set is that over the rest and the amount of a member.
LEMMA TotalGrows ==
  ASSUME NEW S, IsFiniteSet(S), NEW amounts \in [S -> Int], NEW x \in S
  PROVE  TotalOf(amounts) = TotalOf([y \in S \ {x} |-> amounts[y]]) + amounts[x]
  <1> DEFINE R == S \ {x}
             rest == [y \in R |-> amounts[y]]
             pick == [s \in SUBSET R |-> Picked(s)]
  <1>1. IsFiniteSet(R) /\ rest \in [R -> Int]
    BY FS_Subset
  <1>2. PICK g \in [SUBSET S -> Int] : IsSum(g, S, amounts) /\ TotalOf(amounts) = g[S]
    BY TotalIsSum
  <1>3. PICK h \in [SUBSET R -> Int] : IsSum(h, R, rest) /\ TotalOf(rest) = h[R]
    <2> HIDE DEF R, rest
    <2> QED BY <1>1, TotalIsSum
  <1>4. Follows(h, g, R, pick)
    <2>1. \A s \in SUBSET R : s # {} => Picked(s) \in s
      BY DEF Picked
    <2>2. \A s \in SUBSET R : s # {} => rest[Picked(s)] = amounts[Picked(s)] /\ s \in SUBSET S
      BY <2>1
    <2>3. \A s \in SUBSET R : s # {} => h[s] = amounts[Picked(s)] + h[s \ {Picked(s)}]
      BY <1>3, <2>2 DEF IsSum
    <2>4. \A s \in SUBSET R : s # {} => g[s] = amounts[Picked(s)] + g[s \ {Picked(s)}]
      BY <1>2, <2>2 DEF IsSum
    <2>5. h[{}] = 0 /\ g[{}] = 0
      BY <1>2, <1>3 DEF IsSum
    <2> HIDE DEF rest, R
    <2> QED BY <2>1, <2>3, <2>4, <2>5 DEF Follows
  <1>5. h[R] = g[R]
    <2> HIDE DEF R, pick
    <2> QED BY <1>1, <1>4, SameFold
  <1>6. g[S] = g[R] + amounts[x]
    <2>1. TakesAny(g, S, amounts)
      <3> HIDE DEF R, rest, pick
      <3> QED BY <1>2, SumTakesAny
    <2>2. S \in SUBSET S /\ x \in S
      OBVIOUS
    <2> QED BY <2>1, <2>2 DEF TakesAny
  <1> QED BY <1>2, <1>3, <1>5, <1>6

\* The sum of nothing is 0.
LEMMA TotalOfNothing == ASSUME NEW f \in [{} -> Int] PROVE TotalOf(f) = 0
  <1>1. PICK g \in [SUBSET {} -> Int] : IsSum(g, {}, f) /\ TotalOf(f) = g[{}]
    BY FS_EmptySet, TotalIsSum
  <1> QED BY <1>1 DEF IsSum

-----------------------------------------------------------------------------
(* Lists *)

\* A list of the members of a finite set, each of them once.
IsListing(list, S) ==
  /\ IsFiniteSet(S)
  /\ list \in [1..Cardinality(S) -> S]
  /\ \A i, j \in 1..Cardinality(S) : i # j => list[i] # list[j]

\* What it has at some positions.
At(list, s) == { list[i] : i \in s }

\* Both orders of a set list it.
LEMMA ListedIs ==
  ASSUME NEW S, IsFiniteSet(S), NEW reversed \in BOOLEAN
  PROVE  IsListing(Listed(S, reversed), S)
  <1> DEFINE n == Cardinality(S)
             f == SetToSeq(S)
  <1>1. n \in Nat
    BY FS_CardinalityType
  <1>2. \E g \in [1..n -> S] : IsInjective(g)
    <2>1. ExistsBijection(1..n, S)
      BY FS_CardinalityType
    <2>2. PICK g : g \in Injection(1..n, S)
      BY <2>1 DEF ExistsBijection, Bijection
    <2> QED BY <2>2 DEF Injection
  <1>3. f \in [1..n -> S] /\ IsInjective(f)
    BY <1>2 DEF SetToSeq
  <1>4. \A i, j \in 1..n : i # j => f[i] # f[j]
    BY <1>3 DEF IsInjective
  <1> HIDE DEF f
  <1>5. Len(f) = n
    BY <1>1, <1>3
  <1>6. Reverse(f) \in [1..n -> S] /\ \A i, j \in 1..n : i # j => Reverse(f)[i] # Reverse(f)[j]
    <2>1. Reverse(f) = [i \in 1..n |-> f[n - i + 1]]
      BY <1>5 DEF Reverse
    <2>2. \A i \in 1..n : n - i + 1 \in 1..n
      BY <1>1
    <2>3. \A i, j \in 1..n : i # j => n - i + 1 # n - j + 1
      BY <1>1
    <2> HIDE DEF n
    <2> QED BY <1>3, <1>4, <2>1, <2>2, <2>3
  <1>7. Listed(S, reversed) = IF reversed THEN Reverse(f) ELSE f
    BY DEF Listed, f
  <1> QED BY <1>3, <1>4, <1>6, <1>7 DEF IsListing

\* A list, position by position.
LEMMA ListingSteps ==
  ASSUME NEW list, NEW S, IsListing(list, S)
  PROVE  /\ DOMAIN list = 1..Cardinality(S) /\ Cardinality(S) \in Nat
         /\ At(list, {}) = {} /\ At(list, DOMAIN list) = S
         /\ \A s \in SUBSET DOMAIN list :
              /\ At(list, s) \in SUBSET S
              /\ s # {} => /\ Max(s) \in s /\ s \ {Max(s)} \in SUBSET DOMAIN list
                           /\ list[Max(s)] \in At(list, s)
                           /\ At(list, s \ {Max(s)}) = At(list, s) \ {list[Max(s)]}
  <1> DEFINE n == Cardinality(S)
  <1>1. n \in Nat /\ \A x \in S : \E i \in 1..n : list[i] = x
    <2>1. /\ IsFiniteSet(S) /\ list \in [1..n -> S]
          /\ \A i, j \in 1..n : i # j => list[i] # list[j]
      BY DEF IsListing
    <2> QED BY <2>1, ListHasAll
  <1>2. list \in [1..n -> S] /\ \A i, j \in 1..n : i # j => list[i] # list[j]
    BY DEF IsListing
  <1> HIDE DEF n
  <1>3. At(list, {}) = {} /\ At(list, 1..n) = S
    BY <1>1, <1>2 DEF At
  <1>4. ASSUME NEW s \in SUBSET (1..n), s # {}
        PROVE  /\ Max(s) \in s /\ s \ {Max(s)} \in SUBSET (1..n)
               /\ list[Max(s)] \in At(list, s)
               /\ At(list, s \ {Max(s)}) = At(list, s) \ {list[Max(s)]}
    <2>1. Max(s) \in s
      BY <1>1, <1>4, LastPosition
    <2> DEFINE m == Max(s)
    <2> HIDE DEF m
    <2>2. m \in s
      BY <2>1 DEF m
    <2>3. At(list, s \ {m}) = At(list, s) \ {list[m]}
      BY <1>2, <2>2 DEF At
    <2>4. list[m] \in At(list, s)
      BY <2>2 DEF At
    <2> QED BY <2>2, <2>3, <2>4 DEF m
  <1>5. \A s \in SUBSET (1..n) : At(list, s) \in SUBSET S
    BY <1>2 DEF At
  <1>6. DOMAIN list = 1..n
    BY <1>2
  <1> QED BY <1>1, <1>3, <1>4, <1>5, <1>6 DEF n

\* h follows c up the list: on no record, and on one more.
Climbs(h, c, list) ==
  /\ h[{}] = c[{}]
  /\ \A s \in SUBSET DOMAIN list :
       s # {} /\ h[s \ {Max(s)}] = c[At(list, s \ {Max(s)})] => h[s] = c[At(list, s)]

\* Then it arrives where c does.
LEMMA Arrives ==
  ASSUME NEW list, NEW S, IsListing(list, S), NEW c, NEW h, Climbs(h, c, list)
  PROVE  h[DOMAIN list] = c[S]
  <1> DEFINE D == DOMAIN list
             pick == [s \in SUBSET D |-> Max(s)]
             g == [s \in SUBSET D |-> c[At(list, s)]]
  <1>1. /\ D = 1..Cardinality(S) /\ Cardinality(S) \in Nat
        /\ At(list, {}) = {} /\ At(list, D) = S
        /\ \A s \in SUBSET D : s # {} => Max(s) \in s /\ s \ {Max(s)} \in SUBSET D
    BY ListingSteps
  <1>2. IsFiniteSet(D)
    BY <1>1, FS_Interval
  <1>3. Follows(h, g, D, pick)
    <2>1. h[{}] = g[{}]
      BY <1>1 DEF Climbs
    <2>2. ASSUME NEW s \in SUBSET D, s # {}
          PROVE  /\ pick[s] \in s
                 /\ h[s \ {pick[s]}] = g[s \ {pick[s]}] => h[s] = g[s]
      <3>1. pick[s] = Max(s) /\ Max(s) \in s /\ s \ {Max(s)} \in SUBSET D
        BY <1>1, <2>2
      <3>2. h[s \ {Max(s)}] = c[At(list, s \ {Max(s)})] => h[s] = c[At(list, s)]
        BY <2>2 DEF Climbs
      <3>3. g[s] = c[At(list, s)] /\ g[s \ {Max(s)}] = c[At(list, s \ {Max(s)})]
        BY <3>1
      <3> HIDE DEF g, pick, D
      <3> QED BY <3>1, <3>2, <3>3
    <2> HIDE DEF g, pick, D
    <2> QED BY <2>1, <2>2 DEF Follows
  <1>4. h[D] = g[D]
    <2> HIDE DEF g, pick, D
    <2>1. \A s \in SUBSET D : h[s] = g[s]
      BY <1>2, <1>3, SameFold
    <2> QED BY <2>1
  <1>5. g[D] = c[S]
    BY <1>1
  <1> QED BY <1>4, <1>5

-----------------------------------------------------------------------------
(* The loops over the ledger *)

\* Silver lets through rows whose identifiers are not blank, with a day and an
\* amount.
RowsInv ==
  /\ DataInv
  /\ \A w \in wallet_snapshot : NonBlank(w.user_id)
  /\ \A e \in ledger_entries :
       /\ NonBlank(e.tx_id) /\ NonBlank(e.wallet_id)
       /\ e.event_date_kst \in Int /\ e.amount \in Int /\ e.amount_signed \in Int

\* The rows of a wallet that flow on a day, and what flows in all wallets.
FlowsOn(rows, d, id) == { e \in rows : IsFlow(e, d) /\ e.wallet_id = id }
Signed(rows) == [e \in rows |-> e.amount_signed]
FlowsOf(rows, d) ==
  [id \in { e.wallet_id : e \in { x \in rows : IsFlow(x, d) } } |->
     TotalOf(Signed(FlowsOn(rows, d, id)))]

\* One more row is one more turn of the loop.
LEMMA FlowsGrow ==
  ASSUME RowsInv, NEW rows \in SUBSET ledger_entries, NEW x \in rows, NEW d
  PROVE  FlowsOf(rows, d) = IF IsFlow(x, d) THEN Flowed(FlowsOf(rows \ {x}, d), x)
                            ELSE FlowsOf(rows \ {x}, d)
  <1> DEFINE rest == rows \ {x}
             old == FlowsOf(rest, d)
             k == x.wallet_id
  <1>1. CASE ~IsFlow(x, d)
    <2>1. { e \in rows : IsFlow(e, d) } = { e \in rest : IsFlow(e, d) }
      BY <1>1
    <2>2. \A id : FlowsOn(rows, d, id) = FlowsOn(rest, d, id)
      BY <1>1 DEF FlowsOn
    <2> QED BY <1>1, <2>1, <2>2 DEF FlowsOf
  <1>2. CASE IsFlow(x, d)
    <2>1. DOMAIN old = { e.wallet_id : e \in { y \in rest : IsFlow(y, d) } }
      BY DEF FlowsOf
    <2>2. { e.wallet_id : e \in { y \in rows : IsFlow(y, d) } } = DOMAIN old \cup {k}
      BY <1>2, <2>1
    <2>3. \A id : id # k => FlowsOn(rows, d, id) = FlowsOn(rest, d, id)
      BY DEF FlowsOn
    <2>4. FlowsOn(rows, d, k) \ {x} = FlowsOn(rest, d, k) /\ x \in FlowsOn(rows, d, k)
      BY <1>2 DEF FlowsOn
    <2>5. /\ IsFiniteSet(FlowsOn(rows, d, k))
          /\ Signed(FlowsOn(rows, d, k)) \in [FlowsOn(rows, d, k) -> Int]
      <3>1. FlowsOn(rows, d, k) \in SUBSET ledger_entries
        BY DEF FlowsOn
      <3>2. IsFiniteSet(ledger_entries) /\ \A e \in ledger_entries : e.amount_signed \in Int
        BY DEF RowsInv, DataInv
      <3> QED BY <3>1, <3>2, FS_Subset DEF Signed
    <2>6. TotalOf(Signed(FlowsOn(rows, d, k)))
            = TotalOf(Signed(FlowsOn(rest, d, k))) + x.amount_signed
      <3> DEFINE S == FlowsOn(rows, d, k)
                 amounts == Signed(S)
      <3>1. TotalOf(amounts) = TotalOf([y \in S \ {x} |-> amounts[y]]) + amounts[x]
        <4> HIDE DEF amounts, S
        <4> QED BY <2>4, <2>5, TotalGrows DEF S, amounts
      <3>2. [y \in S \ {x} |-> amounts[y]] = Signed(FlowsOn(rest, d, k))
        BY <2>4 DEF Signed
      <3>3. amounts[x] = x.amount_signed
        BY <2>4 DEF Signed
      <3> QED BY <3>1, <3>2, <3>3
    <2>7. Get(old, k, 0) = TotalOf(Signed(FlowsOn(rest, d, k)))
      <3>1. CASE k \in DOMAIN old
        BY <3>1 DEF Get, FlowsOf
      <3>2. CASE k \notin DOMAIN old
        <4>1. FlowsOn(rest, d, k) = {}
          BY <2>1, <3>2 DEF FlowsOn
        <4>2. Signed({}) \in [{} -> Int]
          BY DEF Signed
        <4>3. TotalOf(Signed({})) = 0
          BY <4>2, TotalOfNothing
        <4> QED BY <3>2, <4>1, <4>3 DEF Get
      <3> QED BY <3>1, <3>2
    <2>8. Flowed(old, x) = [id \in DOMAIN old \cup {k} |->
                              IF id = k THEN Get(old, k, 0) + x.amount_signed ELSE old[id]]
      BY DEF Flowed, Put
    <2>9. \A id \in DOMAIN old : old[id] = TotalOf(Signed(FlowsOn(rest, d, id)))
      BY <2>1 DEF FlowsOf
    <2>10. FlowsOf(rows, d) =
             [id \in DOMAIN old \cup {k} |-> TotalOf(Signed(FlowsOn(rows, d, id)))]
      BY <2>2 DEF FlowsOf
    <2> HIDE DEF old, k, rest
    <2>11. FlowsOf(rows, d) = Flowed(old, x)
      BY <2>3, <2>6, <2>7, <2>8, <2>9, <2>10
    <2> QED BY <1>2, <2>11 DEF old, rest
  <1> QED BY <1>1, <1>2

\* What the loop comes to.
LEMMA FlowsAre ==
  ASSUME RowsInv, NEW list, IsListing(list, ledger_entries), NEW d
  PROVE  AggregateNetFlow(list, d) = FlowsOf(ledger_entries, d)
  <1> DEFINE S == ledger_entries
             D == DOMAIN list
             c == [T \in SUBSET S |-> FlowsOf(T, d)]
             g == [s \in SUBSET D |-> c[At(list, s)]]
             Step(v, x) == IF IsFlow(x, d) THEN Flowed(v, x) ELSE v
             Body(h) == [s \in SUBSET D |->
               IF s = {} THEN << >> ELSE Step(h[s \ {Max(s)}], list[Max(s)])]
  <1>1. c[{}] = << >>
    BY DEF FlowsOf
  <1>2. \A T \in SUBSET S : \A x \in T : c[T] = Step(c[T \ {x}], x)
    BY FlowsGrow
  <1>3. AggregateNetFlow(list, d) = (CHOOSE h : h = Body(h))[D]
    BY DEF AggregateNetFlow, FoldLeft, MapThenFoldSet
  <1>4. /\ At(list, {}) = {}
        /\ \A s \in SUBSET D :
             /\ At(list, s) \in SUBSET S
             /\ s # {} => /\ s \ {Max(s)} \in SUBSET D /\ list[Max(s)] \in At(list, s)
                          /\ At(list, s \ {Max(s)}) = At(list, s) \ {list[Max(s)]}
    BY ListingSteps
  <1> HIDE DEF c, D, Step
  <1>5. g = Body(g)
    <2> SUFFICES ASSUME NEW s \in SUBSET D
                 PROVE  c[At(list, s)] =
                          IF s = {} THEN << >> ELSE Step(g[s \ {Max(s)}], list[Max(s)])
      OBVIOUS
    <2>1. CASE s = {}
      BY <1>1, <1>4, <2>1
    <2>2. CASE s # {}
      <3>1. /\ At(list, s) \in SUBSET S /\ s \ {Max(s)} \in SUBSET D
            /\ list[Max(s)] \in At(list, s)
            /\ At(list, s \ {Max(s)}) = At(list, s) \ {list[Max(s)]}
        BY <1>4, <2>2
      <3>2. g[s \ {Max(s)}] = c[At(list, s) \ {list[Max(s)]}]
        BY <3>1
      <3>3. c[At(list, s)] = Step(c[At(list, s) \ {list[Max(s)]}], list[Max(s)])
        BY <1>2, <3>1
      <3> HIDE DEF g
      <3> QED BY <2>2, <3>2, <3>3
    <2> QED BY <2>1, <2>2
  <1>6. ASSUME NEW h, h = Body(h) PROVE h[D] = c[S]
    <2>1. \A s \in SUBSET D :
            h[s] = IF s = {} THEN << >> ELSE Step(h[s \ {Max(s)}], list[Max(s)])
      BY <1>6
    <2>2. Climbs(h, c, list)
      <3>1. h[{}] = c[{}]
        BY <1>1, <2>1
      <3>2. ASSUME NEW s \in SUBSET D, s # {},
                   h[s \ {Max(s)}] = c[At(list, s \ {Max(s)})]
            PROVE  h[s] = c[At(list, s)]
        <4>1. h[s] = Step(c[At(list, s \ {Max(s)})], list[Max(s)])
          BY <2>1, <3>2
        <4>2. c[At(list, s)] = Step(c[At(list, s) \ {list[Max(s)]}], list[Max(s)])
          BY <1>2, <1>4, <3>2
        <4> QED BY <1>4, <3>2, <4>1, <4>2
      <3> QED BY <3>1, <3>2 DEF Climbs, D
    <2> QED BY <2>2, Arrives DEF D
  <1>7. (CHOOSE h : h = Body(h))[D] = c[S]
    <2> DEFINE h == CHOOSE h : h = Body(h)
    <2>1. h = Body(h)
      <3> HIDE DEF Body
      <3> QED BY <1>5
    <2> HIDE DEF h, Body
    <2> QED BY <1>6, <2>1 DEF h
  <1> QED BY <1>3, <1>7 DEF c

\* The rows that issue up to a day, and what they issue.
IssuesTo(rows, d) == { e \in rows : IsIssue(e, d) }
Emitted(rows) == [e \in rows |-> e.amount * SupplyEntrySigns[e.entry_type]]

\* Here one more turn of the loop adds to a number.
LEMMA IssuesGrow ==
  ASSUME RowsInv, NEW rows \in SUBSET ledger_entries, NEW x \in rows, NEW d
  PROVE  TotalOf(Emitted(IssuesTo(rows, d))) =
           IF IsIssue(x, d)
           THEN TotalOf(Emitted(IssuesTo(rows \ {x}, d)))
                  + x.amount * SupplyEntrySigns[x.entry_type]
           ELSE TotalOf(Emitted(IssuesTo(rows \ {x}, d)))
  <1>1. CASE ~IsIssue(x, d)
    <2>1. IssuesTo(rows, d) = IssuesTo(rows \ {x}, d)
      BY <1>1 DEF IssuesTo
    <2> QED BY <1>1, <2>1
  <1>2. CASE IsIssue(x, d)
    <2> DEFINE S == IssuesTo(rows, d)
               amounts == Emitted(S)
    <2>1. x \in S /\ S \ {x} = IssuesTo(rows \ {x}, d)
      BY <1>2 DEF IssuesTo
    <2>2. IsFiniteSet(S)
      <3>1. S \in SUBSET ledger_entries /\ IsFiniteSet(ledger_entries)
        BY DEF IssuesTo, RowsInv, DataInv
      <3> QED BY <3>1, FS_Subset
    <2>3. amounts \in [S -> Int]
      <3> SUFFICES ASSUME NEW e \in S PROVE e.amount * SupplyEntrySigns[e.entry_type] \in Int
        BY DEF Emitted
      <3>1. e \in ledger_entries /\ e.entry_type \in DOMAIN SupplyEntrySigns
        BY DEF IssuesTo, IsIssue
      <3>2. e.amount \in Int
        BY <3>1 DEF RowsInv
      <3>3. SupplyEntrySigns[e.entry_type] \in Int
        BY <3>1 DEF SupplyEntrySigns
      <3> QED BY <3>2, <3>3
    <2>4. TotalOf(amounts) = TotalOf([y \in S \ {x} |-> amounts[y]]) + amounts[x]
      <3> HIDE DEF S, amounts
      <3> QED BY <2>1, <2>2, <2>3, TotalGrows
    <2>5. [y \in S \ {x} |-> amounts[y]] = Emitted(S \ {x})
      <3> HIDE DEF S
      <3> QED BY DEF Emitted
    <2>6. amounts[x] = x.amount * SupplyEntrySigns[x.entry_type]
      <3> HIDE DEF S
      <3> QED BY <2>1 DEF Emitted
    <2> QED BY <1>2, <2>1, <2>4, <2>5, <2>6
  <1> QED BY <1>1, <1>2

\* There is nothing to add up in no row.
LEMMA IssuesNone == ASSUME NEW d PROVE TotalOf(Emitted(IssuesTo({}, d))) = 0
  <1>1. IssuesTo({}, d) = {} /\ Emitted({}) \in [{} -> Int]
    BY DEF IssuesTo, Emitted
  <1> QED BY <1>1, TotalOfNothing

\* What it comes to.
LEMMA IssuesAre ==
  ASSUME RowsInv, NEW list, IsListing(list, ledger_entries), NEW d
  PROVE  AggregateSupplyEntries(list, d) = TotalOf(Emitted(IssuesTo(ledger_entries, d)))
  <1> DEFINE S == ledger_entries
             D == DOMAIN list
             c == [T \in SUBSET S |-> TotalOf(Emitted(IssuesTo(T, d)))]
             g == [s \in SUBSET D |-> c[At(list, s)]]
             Step(v, x) ==
               IF IsIssue(x, d) THEN v + x.amount * SupplyEntrySigns[x.entry_type] ELSE v
             Body(h) == [s \in SUBSET D |->
               IF s = {} THEN 0 ELSE Step(h[s \ {Max(s)}], list[Max(s)])]
  <1>1. c[{}] = 0
    BY IssuesNone
  <1>2. \A T \in SUBSET S : \A x \in T : c[T] = Step(c[T \ {x}], x)
    BY IssuesGrow
  <1>3. AggregateSupplyEntries(list, d) = (CHOOSE h : h = Body(h))[D]
    BY DEF AggregateSupplyEntries, FoldLeft, MapThenFoldSet
  <1>4. /\ At(list, {}) = {}
        /\ \A s \in SUBSET D :
             /\ At(list, s) \in SUBSET S
             /\ s # {} => /\ s \ {Max(s)} \in SUBSET D /\ list[Max(s)] \in At(list, s)
                          /\ At(list, s \ {Max(s)}) = At(list, s) \ {list[Max(s)]}
    BY ListingSteps
  <1> HIDE DEF c, D, Step
  <1>5. g = Body(g)
    <2> SUFFICES ASSUME NEW s \in SUBSET D
                 PROVE  c[At(list, s)] =
                          IF s = {} THEN 0 ELSE Step(g[s \ {Max(s)}], list[Max(s)])
      OBVIOUS
    <2>1. CASE s = {}
      BY <1>1, <1>4, <2>1
    <2>2. CASE s # {}
      <3>1. /\ At(list, s) \in SUBSET S /\ s \ {Max(s)} \in SUBSET D
            /\ list[Max(s)] \in At(list, s)
            /\ At(list, s \ {Max(s)}) = At(list, s) \ {list[Max(s)]}
        BY <1>4, <2>2
      <3>2. g[s \ {Max(s)}] = c[At(list, s) \ {list[Max(s)]}]
        BY <3>1
      <3>3. c[At(list, s)] = Step(c[At(list, s) \ {list[Max(s)]}], list[Max(s)])
        BY <1>2, <3>1
      <3> HIDE DEF g
      <3> QED BY <2>2, <3>2, <3>3
    <2> QED BY <2>1, <2>2
  <1>6. ASSUME NEW h, h = Body(h) PROVE h[D] = c[S]
    <2>1. \A s \in SUBSET D :
            h[s] = IF s = {} THEN 0 ELSE Step(h[s \ {Max(s)}], list[Max(s)])
      BY <1>6
    <2>2. Climbs(h, c, list)
      <3>1. h[{}] = c[{}]
        BY <1>1, <2>1
      <3>2. ASSUME NEW s \in SUBSET D, s # {},
                   h[s \ {Max(s)}] = c[At(list, s \ {Max(s)})]
            PROVE  h[s] = c[At(list, s)]
        <4>1. h[s] = Step(c[At(list, s \ {Max(s)})], list[Max(s)])
          BY <2>1, <3>2
        <4>2. c[At(list, s)] = Step(c[At(list, s) \ {list[Max(s)]}], list[Max(s)])
          BY <1>2, <1>4, <3>2
        <4> QED BY <1>4, <3>2, <4>1, <4>2
      <3> QED BY <3>1, <3>2 DEF Climbs, D
    <2> QED BY <2>2, Arrives DEF D
  <1>7. (CHOOSE h : h = Body(h))[D] = c[S]
    <2> DEFINE h == CHOOSE h : h = Body(h)
    <2>1. h = Body(h)
      <3> HIDE DEF Body
      <3> QED BY <1>5
    <2> HIDE DEF h, Body
    <2> QED BY <1>6, <2>1 DEF h
  <1> QED BY <1>3, <1>7 DEF c

\* The last balances of some users.
Ends(bounds, S) == [u \in S |-> bounds[u].end]

\* One more user adds the last balance of that user.
LEMMA EndsGrow ==
  ASSUME NEW users, IsFiniteSet(users), NEW bounds, \A u \in users : bounds[u].end \in Int,
         NEW S \in SUBSET users, NEW x \in S
  PROVE  TotalOf(Ends(bounds, S)) = TotalOf(Ends(bounds, S \ {x})) + bounds[x].end
  <1> DEFINE ends == Ends(bounds, S)
  <1>1. IsFiniteSet(S) /\ ends \in [S -> Int]
    BY FS_Subset DEF Ends
  <1>2. [u \in S \ {x} |-> ends[u]] = Ends(bounds, S \ {x}) /\ ends[x] = bounds[x].end
    BY DEF Ends
  <1> HIDE DEF ends
  <1>3. TotalOf(ends) = TotalOf([u \in S \ {x} |-> ends[u]]) + ends[x]
    BY <1>1, TotalGrows
  <1> QED BY <1>2, <1>3 DEF ends

\* Of nobody they are nothing.
LEMMA EndsNone == ASSUME NEW bounds PROVE TotalOf(Ends(bounds, {})) = 0
  <1>1. Ends(bounds, {}) \in [{} -> Int]
    BY DEF Ends
  <1> QED BY <1>1, TotalOfNothing

\* The sum over a list of users.
LEMMA EndsAre ==
  ASSUME NEW users, IsFiniteSet(users), NEW bounds, \A u \in users : bounds[u].end \in Int,
         NEW list, IsListing(list, users)
  PROVE  TotalOfEnds(bounds, list) = TotalOf(Ends(bounds, users))
  <1> DEFINE S == users
             D == DOMAIN list
             c == [T \in SUBSET S |-> TotalOf(Ends(bounds, T))]
             g == [s \in SUBSET D |-> c[At(list, s)]]
             Step(v, x) == v + bounds[x].end
             Body(h) == [s \in SUBSET D |->
               IF s = {} THEN 0 ELSE Step(h[s \ {Max(s)}], list[Max(s)])]
  <1>1. c[{}] = 0
    BY EndsNone
  <1>2. \A T \in SUBSET S : \A x \in T : c[T] = Step(c[T \ {x}], x)
    BY EndsGrow
  <1>3. TotalOfEnds(bounds, list) = (CHOOSE h : h = Body(h))[D]
    BY DEF TotalOfEnds, FoldLeft, MapThenFoldSet
  <1>4. /\ At(list, {}) = {}
        /\ \A s \in SUBSET D :
             /\ At(list, s) \in SUBSET S
             /\ s # {} => /\ s \ {Max(s)} \in SUBSET D /\ list[Max(s)] \in At(list, s)
                          /\ At(list, s \ {Max(s)}) = At(list, s) \ {list[Max(s)]}
    BY ListingSteps
  <1> HIDE DEF c, D, Step
  <1>5. g = Body(g)
    <2> SUFFICES ASSUME NEW s \in SUBSET D
                 PROVE  c[At(list, s)] =
                          IF s = {} THEN 0 ELSE Step(g[s \ {Max(s)}], list[Max(s)])
      OBVIOUS
    <2>1. CASE s = {}
      BY <1>1, <1>4, <2>1
    <2>2. CASE s # {}
      <3>1. /\ At(list, s) \in SUBSET S /\ s \ {Max(s)} \in SUBSET D
            /\ list[Max(s)] \in At(list, s)
            /\ At(list, s \ {Max(s)}) = At(list, s) \ {list[Max(s)]}
        BY <1>4, <2>2
      <3>2. g[s \ {Max(s)}] = c[At(list, s) \ {list[Max(s)]}]
        BY <3>1
      <3>3. c[At(list, s)] = Step(c[At(list, s) \ {list[Max(s)]}], list[Max(s)])
        BY <1>2, <3>1
      <3> HIDE DEF g
      <3> QED BY <2>2, <3>2, <3>3
    <2> QED BY <2>1, <2>2
  <1>6. ASSUME NEW h, h = Body(h) PROVE h[D] = c[S]
    <2>1. \A s \in SUBSET D :
            h[s] = IF s = {} THEN 0 ELSE Step(h[s \ {Max(s)}], list[Max(s)])
      BY <1>6
    <2>2. Climbs(h, c, list)
      <3>1. h[{}] = c[{}]
        BY <1>1, <2>1
      <3>2. ASSUME NEW s \in SUBSET D, s # {},
                   h[s \ {Max(s)}] = c[At(list, s \ {Max(s)})]
            PROVE  h[s] = c[At(list, s)]
        <4>1. h[s] = Step(c[At(list, s \ {Max(s)})], list[Max(s)])
          BY <2>1, <3>2
        <4>2. c[At(list, s)] = Step(c[At(list, s) \ {list[Max(s)]}], list[Max(s)])
          BY <1>2, <1>4, <3>2
        <4> QED BY <1>4, <3>2, <4>1, <4>2
      <3> QED BY <3>1, <3>2 DEF Climbs, D
    <2> QED BY <2>2, Arrives DEF D
  <1>7. (CHOOSE h : h = Body(h))[D] = c[S]
    <2> DEFINE h == CHOOSE h : h = Body(h)
    <2>1. h = Body(h)
      <3> HIDE DEF Body
      <3> QED BY <1>5
    <2> HIDE DEF h, Body
    <2> QED BY <1>6, <2>1 DEF h
  <1> QED BY <1>3, <1>7 DEF c

-----------------------------------------------------------------------------
(* The loops over the orders and over the groups of the ledger *)

\* The orders of a merchant on a day, and the counts of all merchants.
SoldBy(rows, d, name) == { o \in rows : IsOrderOf(o, d) /\ o.merchant_name = name }
WithStatus(rows, statuses) == { o \in rows : o.status \in statuses }
TalliesOf(rows, d, statuses) ==
  [name \in { o.merchant_name : o \in { x \in rows : IsOrderOf(x, d) } } |->
     << Cardinality(SoldBy(rows, d, name)),
        Cardinality(WithStatus(SoldBy(rows, d, name), statuses)) >>]

\* One more order is one more turn of the loop.
LEMMA TalliesGrow ==
  ASSUME OrdersInv, NEW rows \in SUBSET orders, NEW x \in rows, NEW d, NEW statuses
  PROVE  TalliesOf(rows, d, statuses) =
           IF IsOrderOf(x, d) THEN Tallied(TalliesOf(rows \ {x}, d, statuses), x, statuses)
           ELSE TalliesOf(rows \ {x}, d, statuses)
  <1> DEFINE rest == rows \ {x}
             old == TalliesOf(rest, d, statuses)
             k == x.merchant_name
  <1>1. CASE ~IsOrderOf(x, d)
    <2>1. { e \in rows : IsOrderOf(e, d) } = { e \in rest : IsOrderOf(e, d) }
      BY <1>1
    <2>2. \A name : SoldBy(rows, d, name) = SoldBy(rest, d, name)
      BY <1>1 DEF SoldBy
    <2> QED BY <1>1, <2>1, <2>2 DEF TalliesOf
  <1>2. CASE IsOrderOf(x, d)
    <2>1. DOMAIN old = { o.merchant_name : o \in { y \in rest : IsOrderOf(y, d) } }
      BY DEF TalliesOf
    <2>2. { o.merchant_name : o \in { y \in rows : IsOrderOf(y, d) } } = DOMAIN old \cup {k}
      BY <1>2, <2>1
    <2>3. \A name : name # k => SoldBy(rows, d, name) = SoldBy(rest, d, name)
      BY DEF SoldBy
    <2> DEFINE S == SoldBy(rows, d, k)
               T == SoldBy(rest, d, k)
    <2>4. /\ S = T \cup {x} /\ x \notin T
          /\ WithStatus(S, statuses) =
               WithStatus(T, statuses) \cup (IF x.status \in statuses THEN {x} ELSE {})
          /\ x \notin WithStatus(T, statuses)
      BY <1>2 DEF SoldBy, WithStatus
    <2>5. IsFiniteSet(T) /\ IsFiniteSet(WithStatus(T, statuses))
      <3>1. T \in SUBSET orders /\ WithStatus(T, statuses) \in SUBSET orders
        BY DEF SoldBy, WithStatus
      <3>2. IsFiniteSet(orders)
        BY DEF OrdersInv
      <3> QED BY <3>1, <3>2, FS_Subset
    <2> HIDE DEF S, T
    <2>6. Cardinality(S) = Cardinality(T) + 1
      BY <2>4, <2>5, FS_AddElement
    <2>7. Cardinality(WithStatus(S, statuses)) =
            Cardinality(WithStatus(T, statuses)) + IF x.status \in statuses THEN 1 ELSE 0
      <3>1. Cardinality(WithStatus(T, statuses)) \in Nat
        BY <2>5, FS_CardinalityType
      <3> DEFINE W == WithStatus(T, statuses)
      <3>2. Cardinality(W \cup {x}) = Cardinality(W) + 1
        <4> HIDE DEF W
        <4> QED BY <2>4, <2>5, FS_AddElement DEF W
      <3>3. CASE x.status \in statuses
        BY <2>4, <3>1, <3>2, <3>3
      <3>4. CASE x.status \notin statuses
        <4>1. WithStatus(S, statuses) = W
          BY <2>4, <3>4
        <4> HIDE DEF W
        <4> QED BY <3>1, <3>4, <4>1 DEF W
      <3> QED BY <3>3, <3>4
    <2>8. Get(old, k, << 0, 0 >>) = << Cardinality(T), Cardinality(WithStatus(T, statuses)) >>
      <3>1. CASE k \in DOMAIN old
        BY <3>1 DEF Get, TalliesOf, T
      <3>2. CASE k \notin DOMAIN old
        <4>1. T = {}
          BY <2>1, <3>2 DEF SoldBy, T
        <4>2. WithStatus({}, statuses) = {}
          BY DEF WithStatus
        <4> QED BY <3>2, <4>1, <4>2, FS_EmptySet DEF Get
      <3> QED BY <3>1, <3>2
    <2>9. Tallied(old, x, statuses) =
            [name \in DOMAIN old \cup {k} |->
               IF name = k THEN << Get(old, k, << 0, 0 >>)[1] + 1,
                                   Get(old, k, << 0, 0 >>)[2]
                                     + IF x.status \in statuses THEN 1 ELSE 0 >>
               ELSE old[name]]
      BY DEF Tallied, Put
    <2>10. \A name \in DOMAIN old :
             old[name] = << Cardinality(SoldBy(rest, d, name)),
                            Cardinality(WithStatus(SoldBy(rest, d, name), statuses)) >>
      BY <2>1 DEF TalliesOf
    <2>11. TalliesOf(rows, d, statuses) =
             [name \in DOMAIN old \cup {k} |->
                << Cardinality(SoldBy(rows, d, name)),
                   Cardinality(WithStatus(SoldBy(rows, d, name), statuses)) >>]
      BY <2>2 DEF TalliesOf
    <2>12. ASSUME NEW name \in DOMAIN old \cup {k}
           PROVE  << Cardinality(SoldBy(rows, d, name)),
                     Cardinality(WithStatus(SoldBy(rows, d, name), statuses)) >>
                    = IF name = k THEN << Get(old, k, << 0, 0 >>)[1] + 1,
                                          Get(old, k, << 0, 0 >>)[2]
                                            + IF x.status \in statuses THEN 1 ELSE 0 >>
                      ELSE old[name]
      <3>1. CASE name = k
        <4>1. SoldBy(rows, d, name) = S
          BY <3>1 DEF S
        <4> HIDE DEF k
        <4> QED BY <2>6, <2>7, <2>8, <3>1, <4>1
      <3>2. CASE name # k
        BY <2>3, <2>10, <2>12, <3>2
      <3> QED BY <3>1, <3>2
    <2> HIDE DEF old, k, rest
    <2>13. TalliesOf(rows, d, statuses) = Tallied(old, x, statuses)
      BY <2>9, <2>11, <2>12
    <2> QED BY <1>2, <2>13 DEF old, rest
  <1> QED BY <1>1, <1>2

\* What the loop comes to.
LEMMA TalliesAre ==
  ASSUME OrdersInv, NEW list, IsListing(list, orders), NEW d, NEW statuses
  PROVE  Tallies(list, d, statuses) = TalliesOf(orders, d, statuses)
  <1> DEFINE S == orders
             D == DOMAIN list
             c == [T \in SUBSET S |-> TalliesOf(T, d, statuses)]
             g == [s \in SUBSET D |-> c[At(list, s)]]
             Step(v, x) == IF IsOrderOf(x, d) THEN Tallied(v, x, statuses) ELSE v
             Body(h) == [s \in SUBSET D |->
               IF s = {} THEN << >> ELSE Step(h[s \ {Max(s)}], list[Max(s)])]
  <1>1. c[{}] = << >>
    BY DEF TalliesOf
  <1>2. \A T \in SUBSET S : \A x \in T : c[T] = Step(c[T \ {x}], x)
    BY TalliesGrow
  <1>3. Tallies(list, d, statuses) = (CHOOSE h : h = Body(h))[D]
    BY DEF Tallies, FoldLeft, MapThenFoldSet
  <1>4. /\ At(list, {}) = {}
        /\ \A s \in SUBSET D :
             /\ At(list, s) \in SUBSET S
             /\ s # {} => /\ s \ {Max(s)} \in SUBSET D /\ list[Max(s)] \in At(list, s)
                          /\ At(list, s \ {Max(s)}) = At(list, s) \ {list[Max(s)]}
    BY ListingSteps
  <1> HIDE DEF c, D, Step
  <1>5. g = Body(g)
    <2> SUFFICES ASSUME NEW s \in SUBSET D
                 PROVE  c[At(list, s)] =
                          IF s = {} THEN << >> ELSE Step(g[s \ {Max(s)}], list[Max(s)])
      OBVIOUS
    <2>1. CASE s = {}
      BY <1>1, <1>4, <2>1
    <2>2. CASE s # {}
      <3>1. /\ At(list, s) \in SUBSET S /\ s \ {Max(s)} \in SUBSET D
            /\ list[Max(s)] \in At(list, s)
            /\ At(list, s \ {Max(s)}) = At(list, s) \ {list[Max(s)]}
        BY <1>4, <2>2
      <3>2. g[s \ {Max(s)}] = c[At(list, s) \ {list[Max(s)]}]
        BY <3>1
      <3>3. c[At(list, s)] = Step(c[At(list, s) \ {list[Max(s)]}], list[Max(s)])
        BY <1>2, <3>1
      <3> HIDE DEF g
      <3> QED BY <2>2, <3>2, <3>3
    <2> QED BY <2>1, <2>2
  <1>6. ASSUME NEW h, h = Body(h) PROVE h[D] = c[S]
    <2>1. \A s \in SUBSET D :
            h[s] = IF s = {} THEN << >> ELSE Step(h[s \ {Max(s)}], list[Max(s)])
      BY <1>6
    <2>2. Climbs(h, c, list)
      <3>1. h[{}] = c[{}]
        BY <1>1, <2>1
      <3>2. ASSUME NEW s \in SUBSET D, s # {},
                   h[s \ {Max(s)}] = c[At(list, s \ {Max(s)})]
            PROVE  h[s] = c[At(list, s)]
        <4>1. h[s] = Step(c[At(list, s \ {Max(s)})], list[Max(s)])
          BY <2>1, <3>2
        <4>2. c[At(list, s)] = Step(c[At(list, s) \ {list[Max(s)]}], list[Max(s)])
          BY <1>2, <1>4, <3>2
        <4> QED BY <1>4, <3>2, <4>1, <4>2
      <3> QED BY <3>1, <3>2 DEF Climbs, D
    <2> QED BY <2>2, Arrives DEF D
  <1>7. (CHOOSE h : h = Body(h))[D] = c[S]
    <2> DEFINE h == CHOOSE h : h = Body(h)
    <2>1. h = Body(h)
      <3> HIDE DEF Body
      <3> QED BY <1>5
    <2> HIDE DEF h, Body
    <2> QED BY <1>6, <2>1 DEF h
  <1> QED BY <1>3, <1>7 DEF c

\* The rows of a group on a day, and what the loop keeps of all groups.
GroupOf(rows, d, id) == { e \in rows : EventKst(e) = d /\ e.related_id = id }
WalletsIn(rows) == { e.wallet_id : e \in rows }
Gathered(rows, d) ==
  [id \in { e.related_id : e \in { x \in rows : EventKst(x) = d /\ x.related_id # None } } |->
     [size |-> Cardinality(GroupOf(rows, d, id)),
      wallets |-> WalletsIn(GroupOf(rows, d, id))]]

\* One more row is one more turn of the loop.
LEMMA GroupsGrow ==
  ASSUME RowsInv, NEW rows \in SUBSET ledger_entries, NEW x \in rows, NEW d
  PROVE  Gathered(rows, d) =
           IF EventKst(x) = d /\ x.related_id # None THEN Grouped(Gathered(rows \ {x}, d), x)
           ELSE Gathered(rows \ {x}, d)
  <1> DEFINE rest == rows \ {x}
             old == Gathered(rest, d)
             k == x.related_id
  <1>1. CASE ~(EventKst(x) = d /\ x.related_id # None)
    <2>1. { e \in rows : EventKst(e) = d /\ e.related_id # None } =
            { e \in rest : EventKst(e) = d /\ e.related_id # None }
      BY <1>1
    <2>2. \A id : id # None => GroupOf(rows, d, id) = GroupOf(rest, d, id)
      BY <1>1 DEF GroupOf
    <2> QED BY <1>1, <2>1, <2>2 DEF Gathered
  <1>2. CASE EventKst(x) = d /\ x.related_id # None
    <2>1. DOMAIN old =
            { e.related_id : e \in { y \in rest : EventKst(y) = d /\ y.related_id # None } }
      BY DEF Gathered
    <2>2. { e.related_id : e \in { y \in rows : EventKst(y) = d /\ y.related_id # None } }
            = DOMAIN old \cup {k}
      BY <1>2, <2>1
    <2>3. \A id : id # k => GroupOf(rows, d, id) = GroupOf(rest, d, id)
      BY DEF GroupOf
    <2> DEFINE S == GroupOf(rows, d, k)
               T == GroupOf(rest, d, k)
    <2>4. S = T \cup {x} /\ x \notin T /\ WalletsIn(S) = WalletsIn(T) \cup {x.wallet_id}
      BY <1>2 DEF GroupOf, WalletsIn
    <2>5. IsFiniteSet(T)
      <3>1. T \in SUBSET ledger_entries
        BY DEF GroupOf
      <3>2. IsFiniteSet(ledger_entries)
        BY DEF RowsInv, DataInv
      <3> QED BY <3>1, <3>2, FS_Subset
    <2> HIDE DEF S, T
    <2>6. Cardinality(S) = Cardinality(T) + 1
      BY <2>4, <2>5, FS_AddElement
    <2>7. Get(old, k, [size |-> 0, wallets |-> {}]) =
            [size |-> Cardinality(T), wallets |-> WalletsIn(T)]
      <3>1. CASE k \in DOMAIN old
        BY <3>1 DEF Get, Gathered, T
      <3>2. CASE k \notin DOMAIN old
        <4>1. T = {}
          BY <1>2, <2>1, <3>2 DEF GroupOf, T
        <4>2. WalletsIn({}) = {}
          BY DEF WalletsIn
        <4> QED BY <3>2, <4>1, <4>2, FS_EmptySet DEF Get
      <3> QED BY <3>1, <3>2
    <2>8. Grouped(old, x) =
            [id \in DOMAIN old \cup {k} |->
               IF id = k
               THEN [size |-> Get(old, k, [size |-> 0, wallets |-> {}]).size + 1,
                     wallets |->
                       Get(old, k, [size |-> 0, wallets |-> {}]).wallets \cup {x.wallet_id}]
               ELSE old[id]]
      BY DEF Grouped, Put
    <2>9. \A id \in DOMAIN old :
            old[id] = [size |-> Cardinality(GroupOf(rest, d, id)),
                       wallets |-> WalletsIn(GroupOf(rest, d, id))]
      BY <2>1 DEF Gathered
    <2>10. Gathered(rows, d) =
             [id \in DOMAIN old \cup {k} |->
                [size |-> Cardinality(GroupOf(rows, d, id)),
                 wallets |-> WalletsIn(GroupOf(rows, d, id))]]
      BY <2>2 DEF Gathered
    <2>11. ASSUME NEW id \in DOMAIN old \cup {k}
           PROVE  [size |-> Cardinality(GroupOf(rows, d, id)),
                   wallets |-> WalletsIn(GroupOf(rows, d, id))]
                    = IF id = k
                      THEN [size |-> Get(old, k, [size |-> 0, wallets |-> {}]).size + 1,
                            wallets |-> Get(old, k, [size |-> 0, wallets |-> {}]).wallets
                                          \cup {x.wallet_id}]
                      ELSE old[id]
      <3>1. CASE id = k
        <4>1. GroupOf(rows, d, id) = S
          BY <3>1 DEF S
        <4>2. Get(old, k, [size |-> 0, wallets |-> {}]).size = Cardinality(T)
          BY <2>7
        <4>3. Get(old, k, [size |-> 0, wallets |-> {}]).wallets = WalletsIn(T)
          BY <2>7
        <4>4. /\ Cardinality(S) = Cardinality(T) + 1
              /\ WalletsIn(S) = WalletsIn(T) \cup {x.wallet_id}
          BY <2>4, <2>6
        <4> HIDE DEF k, S, T, old
        <4> QED BY <3>1, <4>1, <4>2, <4>3, <4>4
      <3>2. CASE id # k
        BY <2>3, <2>9, <2>11, <3>2
      <3> QED BY <3>1, <3>2
    <2> HIDE DEF old, k, rest
    <2>12. Gathered(rows, d) = Grouped(old, x)
      BY <2>8, <2>10, <2>11
    <2> QED BY <1>2, <2>12 DEF old, rest
  <1> QED BY <1>1, <1>2

\* What the loop comes to.
LEMMA GroupsAre ==
  ASSUME RowsInv, NEW list, IsListing(list, ledger_entries), NEW d
  PROVE  GroupsOf(list, d) = Gathered(ledger_entries, d)
  <1> DEFINE S == ledger_entries
             D == DOMAIN list
             c == [T \in SUBSET S |-> Gathered(T, d)]
             g == [s \in SUBSET D |-> c[At(list, s)]]
             Step(v, x) == IF EventKst(x) = d /\ x.related_id # None THEN Grouped(v, x) ELSE v
             Body(h) == [s \in SUBSET D |->
               IF s = {} THEN << >> ELSE Step(h[s \ {Max(s)}], list[Max(s)])]
  <1>1. c[{}] = << >>
    BY DEF Gathered
  <1>2. \A T \in SUBSET S : \A x \in T : c[T] = Step(c[T \ {x}], x)
    BY GroupsGrow
  <1>3. GroupsOf(list, d) = (CHOOSE h : h = Body(h))[D]
    BY DEF GroupsOf, FoldLeft, MapThenFoldSet
  <1>4. /\ At(list, {}) = {}
        /\ \A s \in SUBSET D :
             /\ At(list, s) \in SUBSET S
             /\ s # {} => /\ s \ {Max(s)} \in SUBSET D /\ list[Max(s)] \in At(list, s)
                          /\ At(list, s \ {Max(s)}) = At(list, s) \ {list[Max(s)]}
    BY ListingSteps
  <1> HIDE DEF c, D, Step
  <1>5. g = Body(g)
    <2> SUFFICES ASSUME NEW s \in SUBSET D
                 PROVE  c[At(list, s)] =
                          IF s = {} THEN << >> ELSE Step(g[s \ {Max(s)}], list[Max(s)])
      OBVIOUS
    <2>1. CASE s = {}
      BY <1>1, <1>4, <2>1
    <2>2. CASE s # {}
      <3>1. /\ At(list, s) \in SUBSET S /\ s \ {Max(s)} \in SUBSET D
            /\ list[Max(s)] \in At(list, s)
            /\ At(list, s \ {Max(s)}) = At(list, s) \ {list[Max(s)]}
        BY <1>4, <2>2
      <3>2. g[s \ {Max(s)}] = c[At(list, s) \ {list[Max(s)]}]
        BY <3>1
      <3>3. c[At(list, s)] = Step(c[At(list, s) \ {list[Max(s)]}], list[Max(s)])
        BY <1>2, <3>1
      <3> HIDE DEF g
      <3> QED BY <2>2, <3>2, <3>3
    <2> QED BY <2>1, <2>2
  <1>6. ASSUME NEW h, h = Body(h) PROVE h[D] = c[S]
    <2>1. \A s \in SUBSET D :
            h[s] = IF s = {} THEN << >> ELSE Step(h[s \ {Max(s)}], list[Max(s)])
      BY <1>6
    <2>2. Climbs(h, c, list)
      <3>1. h[{}] = c[{}]
        BY <1>1, <2>1
      <3>2. ASSUME NEW s \in SUBSET D, s # {},
                   h[s \ {Max(s)}] = c[At(list, s \ {Max(s)})]
            PROVE  h[s] = c[At(list, s)]
        <4>1. h[s] = Step(c[At(list, s \ {Max(s)})], list[Max(s)])
          BY <2>1, <3>2
        <4>2. c[At(list, s)] = Step(c[At(list, s) \ {list[Max(s)]}], list[Max(s)])
          BY <1>2, <1>4, <3>2
        <4> QED BY <1>4, <3>2, <4>1, <4>2
      <3> QED BY <3>1, <3>2 DEF Climbs, D
    <2> QED BY <2>2, Arrives DEF D
  <1>7. (CHOOSE h : h = Body(h))[D] = c[S]
    <2> DEFINE h == CHOOSE h : h = Body(h)
    <2>1. h = Body(h)
      <3> HIDE DEF Body
      <3> QED BY <1>5
    <2> HIDE DEF h, Body
    <2> QED BY <1>6, <2>1 DEF h
  <1> QED BY <1>3, <1>7 DEF c

-----------------------------------------------------------------------------
(* The loop over the snapshots *)

\* The first and the last of some snapshots, as Spark takes them.
Opening(own) == CHOOSE w \in own : \A v \in own : w.snapshot_ts <= v.snapshot_ts
Closing(own) == CHOOSE w \in own : \A v \in own : w.snapshot_ts >= v.snapshot_ts

\* Snapshots of one user.
OfOneUser(own) ==
  own \in SUBSET wallet_snapshot /\ \A v, w \in own : v.user_id = w.user_id

\* There are such snapshots.
LEMMA OpeningAndClosing ==
  ASSUME DataInv, NEW own \in SUBSET wallet_snapshot, own # {}
  PROVE  /\ Opening(own) \in own /\ \A v \in own : Opening(own).snapshot_ts <= v.snapshot_ts
         /\ Closing(own) \in own /\ \A v \in own : v.snapshot_ts <= Closing(own).snapshot_ts
  <1> DEFINE Before == { p \in own \X own : p[1].snapshot_ts <= p[2].snapshot_ts }
             After == { p \in own \X own : p[2].snapshot_ts <= p[1].snapshot_ts }
  <1>1. IsFiniteSet(own) /\ own # {} /\ \A w \in own : w.snapshot_ts \in Int
    BY FS_Subset DEF DataInv
  <1>2. \E w \in own : \A v \in own : << w, v >> \in Before
    <2>1. /\ \A v, w \in own : << v, w >> \in Before \/ << w, v >> \in Before
          /\ \A u, v, w \in own : << u, v >> \in Before /\ << v, w >> \in Before
               => << u, w >> \in Before
      BY <1>1
    <2> HIDE DEF Before
    <2> QED BY <1>1, <2>1, FirstExists
  <1>3. \E w \in own : \A v \in own : << w, v >> \in After
    <2>1. /\ \A v, w \in own : << v, w >> \in After \/ << w, v >> \in After
          /\ \A u, v, w \in own : << u, v >> \in After /\ << v, w >> \in After
               => << u, w >> \in After
      BY <1>1
    <2> HIDE DEF After
    <2> QED BY <1>1, <2>1, FirstExists
  <1>4. \E w \in own : \A v \in own : w.snapshot_ts <= v.snapshot_ts
    BY <1>2
  <1>5. \E w \in own : \A v \in own : w.snapshot_ts >= v.snapshot_ts
    BY <1>1, <1>3
  <1>6. Opening(own) \in own /\ \A v \in own : Opening(own).snapshot_ts <= v.snapshot_ts
    BY <1>4 DEF Opening
  <1>7. Closing(own) \in own /\ \A v \in own : Closing(own).snapshot_ts >= v.snapshot_ts
    BY <1>5 DEF Closing
  <1> QED BY <1>1, <1>6, <1>7

\* One more snapshot takes the place of the first or the last one, or does not.
LEMMA OpeningMoves ==
  ASSUME DataInv, SnapshotsApart, NEW own, OfOneUser(own), NEW x \in own, own \ {x} # {}
  PROVE  /\ Opening(own) = IF x.snapshot_ts < Opening(own \ {x}).snapshot_ts THEN x
                           ELSE Opening(own \ {x})
         /\ Closing(own) = IF x.snapshot_ts > Closing(own \ {x}).snapshot_ts THEN x
                           ELSE Closing(own \ {x})
  <1> DEFINE rest == own \ {x}
             f == Opening(own)
             l == Closing(own)
             rf == Opening(rest)
             rl == Closing(rest)
  <1>1. /\ own \in SUBSET wallet_snapshot /\ rest \in SUBSET wallet_snapshot
        /\ own # {} /\ rest # {}
    BY DEF OfOneUser
  <1>2. /\ f \in own /\ \A v \in own : f.snapshot_ts <= v.snapshot_ts
        /\ l \in own /\ \A v \in own : v.snapshot_ts <= l.snapshot_ts
    BY <1>1, OpeningAndClosing
  <1>3. /\ rf \in rest /\ \A v \in rest : rf.snapshot_ts <= v.snapshot_ts
        /\ rl \in rest /\ \A v \in rest : v.snapshot_ts <= rl.snapshot_ts
    <2> HIDE DEF rest
    <2> QED BY <1>1, OpeningAndClosing
  <1>4. \A v, w \in own : v.snapshot_ts = w.snapshot_ts => v = w
    BY DEF OfOneUser, SnapshotsApart, SameInstant
  <1>5. \A w \in own : w.snapshot_ts \in Int
    BY <1>1 DEF DataInv
  <1>6. rf \in own /\ rl \in own /\ rf # x /\ rl # x
    BY <1>3
  <1>7. (f = x \/ f \in rest) /\ (l = x \/ l \in rest)
    BY <1>2
  <1> HIDE DEF f, l, rf, rl, rest
  <1>8. f = IF x.snapshot_ts < rf.snapshot_ts THEN x ELSE rf
    BY <1>2, <1>3, <1>4, <1>5, <1>6, <1>7
  <1>9. l = IF x.snapshot_ts > rl.snapshot_ts THEN x ELSE rl
    BY <1>2, <1>3, <1>4, <1>5, <1>6, <1>7
  <1> QED BY <1>8, <1>9 DEF f, l, rf, rl, rest

\* The snapshots of a user on a day, and what the loop keeps of all users.
OwnOn(rows, d, u) == { w \in rows : IsSnapshot(w, d) /\ w.user_id = u }
BoundOf(own) ==
  [min_ts |-> Opening(own).snapshot_ts, max_ts |-> Closing(own).snapshot_ts,
   start |-> Opening(own).balance_total, end |-> Closing(own).balance_total]
BoundsOf(rows, d) ==
  [u \in { w.user_id : w \in { x \in rows : IsSnapshot(x, d) } } |-> BoundOf(OwnOn(rows, d, u))]

\* The bounds of a user after one more snapshot.
LEMMA BoundMoves ==
  ASSUME DataInv, SnapshotsApart, NEW own, OfOneUser(own), NEW x \in own, own \ {x} # {}
  PROVE  LET b == BoundOf(own \ {x})
             lo == IF x.snapshot_ts < b.min_ts
                   THEN [b EXCEPT !.min_ts = x.snapshot_ts, !.start = x.balance_total] ELSE b
         IN  BoundOf(own) =
               IF x.snapshot_ts > lo.max_ts
               THEN [lo EXCEPT !.max_ts = x.snapshot_ts, !.end = x.balance_total] ELSE lo
  <1> DEFINE rf == Opening(own \ {x})
             rl == Closing(own \ {x})
             b == BoundOf(own \ {x})
             first == x.snapshot_ts < rf.snapshot_ts
             last == x.snapshot_ts > rl.snapshot_ts
  <1>1. /\ Opening(own) = IF first THEN x ELSE rf
        /\ Closing(own) = IF last THEN x ELSE rl
    BY OpeningMoves
  <1>2. b = [min_ts |-> rf.snapshot_ts, max_ts |-> rl.snapshot_ts,
             start |-> rf.balance_total, end |-> rl.balance_total]
    BY DEF BoundOf
  <1> HIDE DEF rf, rl, b
  <1> DEFINE fields == {"min_ts", "max_ts", "start", "end"}
             moved == [b EXCEPT !.min_ts = x.snapshot_ts, !.start = x.balance_total]
             lo == IF x.snapshot_ts < b.min_ts THEN moved ELSE b
  <1>3. lo = [min_ts |-> IF first THEN x.snapshot_ts ELSE rf.snapshot_ts,
              max_ts |-> rl.snapshot_ts,
              start |-> IF first THEN x.balance_total ELSE rf.balance_total,
              end |-> rl.balance_total]
    <2>1. b.min_ts = rf.snapshot_ts
      BY <1>2
    <2>2. moved = [min_ts |-> x.snapshot_ts, max_ts |-> rl.snapshot_ts,
                   start |-> x.balance_total, end |-> rl.balance_total]
      <3>1. b = [f \in fields |-> b[f]]
        BY <1>2
      <3>2. moved = [f \in fields |-> IF f = "start" THEN x.balance_total
                                       ELSE IF f = "min_ts" THEN x.snapshot_ts ELSE b[f]]
        BY <3>1
      <3> QED BY <1>2, <3>2
    <2>3. lo = IF first THEN moved ELSE b
      BY <2>1
    <2> HIDE DEF moved, first, lo
    <2>4. CASE first
      BY <2>2, <2>3, <2>4
    <2>5. CASE ~first
      BY <1>2, <2>3, <2>5
    <2> QED BY <2>4, <2>5
  <1> HIDE DEF lo
  <1>4. (IF x.snapshot_ts > lo.max_ts
         THEN [lo EXCEPT !.max_ts = x.snapshot_ts, !.end = x.balance_total] ELSE lo)
          = [min_ts |-> IF first THEN x.snapshot_ts ELSE rf.snapshot_ts,
             max_ts |-> IF last THEN x.snapshot_ts ELSE rl.snapshot_ts,
             start |-> IF first THEN x.balance_total ELSE rf.balance_total,
             end |-> IF last THEN x.balance_total ELSE rl.balance_total]
    <2>1. CASE last
      BY <1>3, <2>1
    <2>2. CASE ~last
      BY <1>3, <2>2
    <2> QED BY <2>1, <2>2
  <1>5. BoundOf(own) =
          [min_ts |-> IF first THEN x.snapshot_ts ELSE rf.snapshot_ts,
           max_ts |-> IF last THEN x.snapshot_ts ELSE rl.snapshot_ts,
           start |-> IF first THEN x.balance_total ELSE rf.balance_total,
           end |-> IF last THEN x.balance_total ELSE rl.balance_total]
    BY <1>1 DEF BoundOf
  <1> QED BY <1>4, <1>5 DEF b, lo, moved

\* One more snapshot is one more turn of the loop.
LEMMA BoundsGrow ==
  ASSUME DataInv, SnapshotsApart, NEW rows \in SUBSET wallet_snapshot, NEW x \in rows, NEW d
  PROVE  BoundsOf(rows, d) = IF IsSnapshot(x, d) THEN Widened(BoundsOf(rows \ {x}, d), x)
                             ELSE BoundsOf(rows \ {x}, d)
  <1> DEFINE rest == rows \ {x}
             old == BoundsOf(rest, d)
             k == x.user_id
             S == OwnOn(rows, d, k)
             b == old[k]
             lo == IF x.snapshot_ts < b.min_ts
                   THEN [b EXCEPT !.min_ts = x.snapshot_ts, !.start = x.balance_total] ELSE b
             wide == IF x.snapshot_ts > lo.max_ts
                     THEN [lo EXCEPT !.max_ts = x.snapshot_ts, !.end = x.balance_total] ELSE lo
             single == [min_ts |-> x.snapshot_ts, max_ts |-> x.snapshot_ts,
                        start |-> x.balance_total, end |-> x.balance_total]
  <1>1. CASE ~IsSnapshot(x, d)
    <2>1. { w \in rows : IsSnapshot(w, d) } = { w \in rest : IsSnapshot(w, d) }
      BY <1>1
    <2>2. \A u : OwnOn(rows, d, u) = OwnOn(rest, d, u)
      BY <1>1 DEF OwnOn
    <2> QED BY <1>1, <2>1, <2>2 DEF BoundsOf
  <1>2. CASE IsSnapshot(x, d)
    <2>1. DOMAIN old = { w.user_id : w \in { y \in rest : IsSnapshot(y, d) } }
      BY DEF BoundsOf
    <2>2. { w.user_id : w \in { y \in rows : IsSnapshot(y, d) } } = DOMAIN old \cup {k}
      BY <1>2, <2>1
    <2>3. \A u : u # k => OwnOn(rows, d, u) = OwnOn(rest, d, u)
      BY DEF OwnOn
    <2>4. /\ x \in S /\ S \ {x} = OwnOn(rest, d, k) /\ OfOneUser(S)
          /\ k \in DOMAIN old <=> S \ {x} # {}
      BY <1>2, <2>1 DEF OwnOn, OfOneUser
    <2>5. \A u \in DOMAIN old : old[u] = BoundOf(OwnOn(rest, d, u))
      BY <2>1 DEF BoundsOf
    <2>6. BoundsOf(rows, d) = [u \in DOMAIN old \cup {k} |-> BoundOf(OwnOn(rows, d, u))]
      BY <2>2 DEF BoundsOf
    <2>7. Widened(old, x) = [u \in DOMAIN old \cup {k} |->
                               IF u = k THEN IF k \notin DOMAIN old THEN single ELSE wide
                               ELSE old[u]]
      BY DEF Widened, Put
    <2> HIDE DEF S, old
    <2>8. CASE k \notin DOMAIN old
      <3>1. S = {x}
        BY <2>4, <2>8
      <3>2. Opening(S) = x /\ Closing(S) = x
        <4>1. S \in SUBSET wallet_snapshot /\ S # {}
          BY <2>4 DEF OfOneUser
        <4> QED BY <3>1, <4>1, OpeningAndClosing
      <3>3. BoundOf(OwnOn(rows, d, k)) = single
        BY <3>2 DEF BoundOf, S
      <3> HIDE DEF single, k, rest
      <3> QED BY <1>2, <2>3, <2>5, <2>6, <2>7, <2>8, <3>3 DEF old, rest
    <2>9. CASE k \in DOMAIN old
      <3>1. b = BoundOf(S \ {x})
        BY <2>4, <2>5, <2>9
      <3>2. BoundOf(S) = wide
        <4>1. S \ {x} # {}
          BY <2>4, <2>9
        <4> HIDE DEF b
        <4> QED BY <2>4, <3>1, <4>1, BoundMoves
      <3>3. BoundOf(OwnOn(rows, d, k)) = wide
        BY <3>2 DEF S
      <3> HIDE DEF single, wide, k, rest
      <3> QED BY <1>2, <2>3, <2>5, <2>6, <2>7, <2>9, <3>3 DEF old, rest
    <2> QED BY <2>8, <2>9
  <1> QED BY <1>1, <1>2

\* What the loop comes to.
LEMMA BoundsAre ==
  ASSUME DataInv, SnapshotsApart, NEW list, IsListing(list, wallet_snapshot), NEW d
  PROVE  SelectSnapshotBounds(list, d) = BoundsOf(wallet_snapshot, d)
  <1> DEFINE S == wallet_snapshot
             D == DOMAIN list
             c == [T \in SUBSET S |-> BoundsOf(T, d)]
             g == [s \in SUBSET D |-> c[At(list, s)]]
             Step(v, x) == IF IsSnapshot(x, d) THEN Widened(v, x) ELSE v
             Body(h) == [s \in SUBSET D |->
               IF s = {} THEN << >> ELSE Step(h[s \ {Max(s)}], list[Max(s)])]
  <1>1. c[{}] = << >>
    BY DEF BoundsOf
  <1>2. \A T \in SUBSET S : \A x \in T : c[T] = Step(c[T \ {x}], x)
    BY BoundsGrow
  <1>3. SelectSnapshotBounds(list, d) = (CHOOSE h : h = Body(h))[D]
    BY DEF SelectSnapshotBounds, FoldLeft, MapThenFoldSet
  <1>4. /\ At(list, {}) = {}
        /\ \A s \in SUBSET D :
             /\ At(list, s) \in SUBSET S
             /\ s # {} => /\ s \ {Max(s)} \in SUBSET D /\ list[Max(s)] \in At(list, s)
                          /\ At(list, s \ {Max(s)}) = At(list, s) \ {list[Max(s)]}
    BY ListingSteps
  <1> HIDE DEF c, D, Step
  <1>5. g = Body(g)
    <2> SUFFICES ASSUME NEW s \in SUBSET D
                 PROVE  c[At(list, s)] =
                          IF s = {} THEN << >> ELSE Step(g[s \ {Max(s)}], list[Max(s)])
      OBVIOUS
    <2>1. CASE s = {}
      BY <1>1, <1>4, <2>1
    <2>2. CASE s # {}
      <3>1. /\ At(list, s) \in SUBSET S /\ s \ {Max(s)} \in SUBSET D
            /\ list[Max(s)] \in At(list, s)
            /\ At(list, s \ {Max(s)}) = At(list, s) \ {list[Max(s)]}
        BY <1>4, <2>2
      <3>2. g[s \ {Max(s)}] = c[At(list, s) \ {list[Max(s)]}]
        BY <3>1
      <3>3. c[At(list, s)] = Step(c[At(list, s) \ {list[Max(s)]}], list[Max(s)])
        BY <1>2, <3>1
      <3> HIDE DEF g
      <3> QED BY <2>2, <3>2, <3>3
    <2> QED BY <2>1, <2>2
  <1>6. ASSUME NEW h, h = Body(h) PROVE h[D] = c[S]
    <2>1. \A s \in SUBSET D :
            h[s] = IF s = {} THEN << >> ELSE Step(h[s \ {Max(s)}], list[Max(s)])
      BY <1>6
    <2>2. Climbs(h, c, list)
      <3>1. h[{}] = c[{}]
        BY <1>1, <2>1
      <3>2. ASSUME NEW s \in SUBSET D, s # {},
                   h[s \ {Max(s)}] = c[At(list, s \ {Max(s)})]
            PROVE  h[s] = c[At(list, s)]
        <4>1. h[s] = Step(c[At(list, s \ {Max(s)})], list[Max(s)])
          BY <2>1, <3>2
        <4>2. c[At(list, s)] = Step(c[At(list, s) \ {list[Max(s)]}], list[Max(s)])
          BY <1>2, <1>4, <3>2
        <4> QED BY <1>4, <3>2, <4>1, <4>2
      <3> QED BY <3>1, <3>2 DEF Climbs, D
    <2> QED BY <2>2, Arrives DEF D
  <1>7. (CHOOSE h : h = Body(h))[D] = c[S]
    <2> DEFINE h == CHOOSE h : h = Body(h)
    <2>1. h = Body(h)
      <3> HIDE DEF Body
      <3> QED BY <1>5
    <2> HIDE DEF h, Body
    <2> QED BY <1>6, <2>1 DEF h
  <1> QED BY <1>3, <1>7 DEF c

-----------------------------------------------------------------------------
(* The daily balances *)

\* Python finds the users of Spark, and the balances they start and end with.
LEMMA BoundsMeet ==
  ASSUME RowsInv, SnapshotsApart, NEW list, IsListing(list, wallet_snapshot), NEW d
  PROVE  LET bounds == SelectSnapshotBounds(list, d)
         IN  /\ DOMAIN bounds = Users(d, wallet_snapshot)
             /\ \A u \in Users(d, wallet_snapshot) :
                  /\ bounds[u].start = StartBalance(u, d, wallet_snapshot)
                  /\ bounds[u].end = EndBalance(u, d, wallet_snapshot)
  <1>1. SelectSnapshotBounds(list, d) = BoundsOf(wallet_snapshot, d)
    BY BoundsAre DEF RowsInv
  <1>2. { w \in wallet_snapshot : IsSnapshot(w, d) } = Snapshots(d, wallet_snapshot)
    BY DEF RowsInv, Snapshots, IsSnapshot, NonBlank, Filled
  <1>3. \A u : OwnOn(wallet_snapshot, d, u) =
                 { w \in Snapshots(d, wallet_snapshot) : w.user_id = u }
    BY <1>2 DEF OwnOn
  <1>4. DOMAIN BoundsOf(wallet_snapshot, d) = Users(d, wallet_snapshot)
    BY <1>2 DEF BoundsOf, Users
  <1>5. ASSUME NEW u \in Users(d, wallet_snapshot)
        PROVE  /\ BoundsOf(wallet_snapshot, d)[u].start = StartBalance(u, d, wallet_snapshot)
               /\ BoundsOf(wallet_snapshot, d)[u].end = EndBalance(u, d, wallet_snapshot)
    <2> DEFINE own == { w \in Snapshots(d, wallet_snapshot) : w.user_id = u }
    <2>1. BoundsOf(wallet_snapshot, d)[u] = BoundOf(own)
      BY <1>3, <1>4 DEF BoundsOf
    <2>2. Opening(own).balance_total = StartBalance(u, d, wallet_snapshot)
      BY DEF Opening, StartBalance
    <2>3. Closing(own).balance_total = EndBalance(u, d, wallet_snapshot)
      BY DEF Closing, EndBalance
    <2> HIDE DEF own
    <2> QED BY <2>1, <2>2, <2>3 DEF BoundOf
  <1> QED BY <1>1, <1>4, <1>5

\* The flow of a wallet is the same, also of one without a row.
LEMMA FlowsMeet ==
  ASSUME RowsInv, NEW list, IsListing(list, ledger_entries), NEW d, NEW u
  PROVE  Get(AggregateNetFlow(list, d), u, 0) = NetFlow(u, d, ledger_entries)
  <1> DEFINE own == FlowsOn(ledger_entries, d, u)
             flows == FlowsOf(ledger_entries, d)
  <1>1. AggregateNetFlow(list, d) = flows
    BY FlowsAre
  <1>2. { e \in EntriesOf(d, ledger_entries) : e.wallet_id = u /\ e.amount_signed # None } = own
    BY DEF EntriesOf, EntryDate, EventKst, FlowsOn, IsFlow, Filled, NonBlank, RowsInv
  <1>3. NetFlow(u, d, ledger_entries) = TotalOf(Signed(own))
    BY <1>2 DEF NetFlow, Signed
  <1>4. DOMAIN flows = { e.wallet_id : e \in { x \in ledger_entries : IsFlow(x, d) } }
    BY DEF FlowsOf
  <1>5. CASE u \in DOMAIN flows
    BY <1>1, <1>3, <1>5 DEF FlowsOf, Get
  <1>6. CASE u \notin DOMAIN flows
    <2>1. own = {}
      BY <1>4, <1>6 DEF FlowsOn
    <2>2. Signed({}) \in [{} -> Int]
      BY DEF Signed
    <2>3. TotalOf(Signed({})) = 0
      BY <2>2, TotalOfNothing
    <2> HIDE DEF own, flows
    <2> QED BY <1>1, <1>3, <1>6, <2>1, <2>3 DEF Get
  <1> QED BY <1>5, <1>6

\* So is what has been issued.
LEMMA SupplyMeets ==
  ASSUME RowsInv, NEW list, IsListing(list, ledger_entries), NEW d
  PROVE  AggregateSupplyEntries(list, d) = IssuedSupply(d, ledger_entries)
  <1>1. { e \in Issuing(ledger_entries) : EntryDate(e) # None /\ EntryDate(e) <= d }
          = IssuesTo(ledger_entries, d)
    BY DEF Issuing, EntryDate, EventKst, IssuesTo, IsIssue
  <1>2. IssuedSupply(d, ledger_entries) = TotalOf(Emitted(IssuesTo(ledger_entries, d)))
    BY <1>1 DEF IssuedSupply, Issued, Emitted
  <1> QED BY <1>2, IssuesAre

\* So is the sum of the balances users end with.
LEMMA TotalMeets ==
  ASSUME RowsInv, SnapshotsApart, NEW list, IsListing(list, wallet_snapshot), NEW d
  PROVE  LET bounds == SelectSnapshotBounds(list, d)
         IN  TotalOfEnds(bounds, SetToSeq(DOMAIN bounds)) = WalletTotal(d, wallet_snapshot)
  <1> DEFINE bounds == SelectSnapshotBounds(list, d)
             S == Users(d, wallet_snapshot)
             of == [w \in Snapshots(d, wallet_snapshot) |-> w.user_id]
  <1>1. DOMAIN bounds = S /\ \A u \in S : bounds[u].end = EndBalance(u, d, wallet_snapshot)
    BY BoundsMeet
  <1>2. IsFiniteSet(S)
    <2>1. IsFiniteSet(Snapshots(d, wallet_snapshot))
      BY FS_Subset DEF Snapshots, RowsInv, DataInv
    <2>2. IsFiniteSet({ of[w] : w \in Snapshots(d, wallet_snapshot) })
      BY <2>1, FiniteImage
    <2> QED BY <2>2 DEF Users
  <1>3. \A u \in S : EndBalance(u, d, wallet_snapshot) \in Int
    BY EndBalanceTyped DEF RowsInv
  <1>4. IsListing(SetToSeq(S), S)
    <2>1. IsListing(Listed(S, FALSE), S)
      <3> HIDE DEF S
      <3> QED BY <1>2, ListedIs
    <2> QED BY <2>1 DEF Listed
  <1>5. WalletTotal(d, wallet_snapshot) =
          TotalOf([u \in S |-> EndBalance(u, d, wallet_snapshot)])
    BY DEF WalletTotal
  <1> HIDE DEF bounds, S
  <1>6. TotalOfEnds(bounds, SetToSeq(S)) = TotalOf(Ends(bounds, S))
    <2>1. \A u \in S : bounds[u].end \in Int
      BY <1>1, <1>3
    <2> QED BY <1>2, <1>4, <2>1, EndsAre
  <1>7. Ends(bounds, S) = [u \in S |-> EndBalance(u, d, wallet_snapshot)]
    BY <1>1 DEF Ends
  <1> QED BY <1>1, <1>5, <1>6, <1>7 DEF bounds

\* Values are judged alike.
LEMMA SeverityMeets ==
  ASSUME NEW value, NEW rule
  PROVE  EvaluateSeverity(value, rule) = Severity(value, rule)
  BY DEF EvaluateSeverity, Severity

\* A day with one unranked tag at most has the same tag.
LEMMA TagMeets ==
  ASSUME NEW d, OneTag(d)
  PROVE  ResolveDqTag(TagsOf(d)) = DqTag(d, dq_status)
  <1> DEFINE tags == { s.dq_tag :
                       s \in { r \in dq_status : r.date_kst = d /\ NonBlank(r.dq_tag) } }
             given == { tag \in TagsOf(d) : Filled(tag) }
  <1>1. tags = given
    BY DEF OneTag, TagsOf, Filled, NonBlank
  <1>2. \A tag, other \in given :
          {tag, other} \cap {"SOURCE_STALE", "EVENT_DROP_SUSPECTED"} = {} => tag = other
    BY DEF OneTag
  <1> QED BY <1>1, <1>2 DEF ResolveDqTag, DqTag

\* Python comes to the rows and exceptions of the reconciliation.
LEMMA ReconTwins ==
  ASSUME RowsInv, SnapshotsApart, NEW d, OneTag(d), NEW by,
         NEW wallets, IsListing(wallets, wallet_snapshot),
         NEW ledger, IsListing(ledger, ledger_entries)
  PROVE  LET recon == BuildReconSnapshotFlow(wallets, ledger, d, None, by, TagsOf(d))
         IN  /\ recon[1] = Recon({d}, Silver, None, by)
             /\ recon[2] = ReconExceptions({d}, Silver, None, by)
  <1> DEFINE rule == SelectRule(by, "ledger.drift_abs")
             bounds == SelectSnapshotBounds(wallets, d)
             flows == AggregateNetFlow(ledger, d)
             row(u) ==
               LET delta == bounds[u].end - bounds[u].start
                   net == Get(flows, u, 0)
                   drift == Magnitude(delta - net)
               IN  [date_kst |-> d, user_id |-> u, delta_balance_total |-> delta,
                    net_flow_total |-> net, drift_abs |-> drift,
                    drift_pct |-> IF net # 0 THEN << drift, Magnitude(net) >> ELSE None,
                    dq_tag |-> ResolveDqTag(TagsOf(d)), run_id |-> None,
                    rule_id |-> IF rule # None THEN rule.rule_id ELSE None]
             rows == { row(u) : u \in DOMAIN bounds }
             x(r, severity) ==
               [date_kst |-> d, exception_type |-> "RECON_DRIFT_HIGH", severity |-> severity,
                metric |-> "drift_abs", metric_value |-> r.drift_abs,
                message |-> << r.user_id, r.delta_balance_total, r.net_flow_total,
                               r.drift_abs >>,
                run_id |-> None, rule_id |-> r.rule_id]
             recon == BuildReconSnapshotFlow(wallets, ledger, d, None, by, TagsOf(d))
             spark == Recon({d}, Silver, None, by)
  <1>1. /\ recon[1] = rows
        /\ recon[2] = { x(r, EvaluateSeverity(r.drift_abs, rule)) :
                          r \in { q \in rows : EvaluateSeverity(q.drift_abs, rule) # None } }
    BY DEF BuildReconSnapshotFlow
  <1>2. /\ Silver.wallets = wallet_snapshot /\ Silver.ledger = ledger_entries
        /\ Silver.opening = wallet_snapshot /\ Silver.closing = wallet_snapshot
        /\ Silver.dq_status = dq_status
    BY DEF Silver
  <1>3. spark = { ReconRow(u, d, Silver, None, rule) : u \in Users(d, wallet_snapshot) }
    BY <1>2 DEF Recon
  <1>4. DOMAIN bounds = Users(d, wallet_snapshot)
    BY BoundsMeet
  <1>5. ASSUME NEW u \in Users(d, wallet_snapshot)
        PROVE  row(u) = ReconRow(u, d, Silver, None, rule)
    <2>1. /\ bounds[u].start = StartBalance(u, d, wallet_snapshot)
          /\ bounds[u].end = EndBalance(u, d, wallet_snapshot)
      BY BoundsMeet
    <2>2. Get(flows, u, 0) = NetFlow(u, d, ledger_entries)
      BY FlowsMeet
    <2>3. ResolveDqTag(TagsOf(d)) = DqTag(d, dq_status)
      BY TagMeets
    <2> HIDE DEF bounds, flows, rule
    <2> QED BY <1>2, <2>1, <2>2, <2>3 DEF ReconRow
  <1>6. rows = spark
    <2> HIDE DEF row, bounds, rule, spark
    <2> QED BY <1>3, <1>4, <1>5
  <1>7. ReconExceptions({d}, Silver, None, by) =
          { [date_kst |-> r.date_kst, exception_type |-> "RECON_DRIFT_HIGH",
             severity |-> Severity(r.drift_abs, rule), metric |-> "drift_abs",
             metric_value |-> r.drift_abs,
             message |-> << r.user_id, r.delta_balance_total, r.net_flow_total,
                            r.drift_abs >>,
             run_id |-> None, rule_id |-> r.rule_id] :
               r \in { q \in spark : Severity(q.drift_abs, rule) # None } }
    BY DEF ReconExceptions
  <1>8. \A r \in spark : r.date_kst = d
    BY <1>3 DEF ReconRow
  <1> HIDE DEF rows, recon, spark, rule
  <1>9. recon[2] = ReconExceptions({d}, Silver, None, by)
    BY <1>1, <1>6, <1>7, <1>8, SeverityMeets
  <1> QED BY <1>1, <1>6, <1>9 DEF recon, spark

\* So it does to those of the supply.
LEMMA SupplyTwins ==
  ASSUME RowsInv, SnapshotsApart, NEW d, NEW by,
         NEW wallets, IsListing(wallets, wallet_snapshot),
         NEW ledger, IsListing(ledger, ledger_entries)
  PROVE  LET supply == BuildSupplyBalanceDaily(wallets, ledger, d, None, by)
         IN  /\ {supply[1]} = Supply({d}, Silver, None, by)
             /\ supply[2] = SupplyExceptions({d}, Silver, None, by)
  <1> DEFINE rule == SelectRule(by, "ledger.supply_diff_abs")
             bounds == SelectSnapshotBounds(wallets, d)
             issued == IssuedSupply(d, ledger_entries)
             total == WalletTotal(d, wallet_snapshot)
             diff == issued - total
             limit == Threshold(rule)
             rule_id == IF rule # None THEN rule.rule_id ELSE None
             row == [date_kst |-> d, issued_supply |-> issued, wallet_total_balance |-> total,
                     diff_amount |-> diff,
                     is_ok |-> IF limit = None THEN diff = 0 ELSE Magnitude(diff) <= limit,
                     run_id |-> None, rule_id |-> rule_id]
             found == Severity(Magnitude(diff), rule)
             x(severity) ==
               [date_kst |-> d, exception_type |-> "SUPPLY_MISMATCH", severity |-> severity,
                metric |-> "supply_diff_abs", metric_value |-> Magnitude(diff),
                message |-> << issued, total, diff >>, run_id |-> None, rule_id |-> rule_id]
             supply == BuildSupplyBalanceDaily(wallets, ledger, d, None, by)
             spark == SupplyRow(d, Silver, None, rule)
  <1>1. /\ TotalOfEnds(bounds, SetToSeq(DOMAIN bounds)) = total
        /\ AggregateSupplyEntries(ledger, d) = issued
    BY TotalMeets, SupplyMeets
  <1>2. issued \in Int /\ total \in Int
    BY IssuedTyped, WalletTotalTyped DEF RowsInv
  <1>3. supply = << row, IF EvaluateSeverity(Magnitude(diff), rule) = None THEN {}
                         ELSE {x(EvaluateSeverity(Magnitude(diff), rule))} >>
    <2> HIDE DEF issued, total
    <2> QED BY <1>1 DEF BuildSupplyBalanceDaily
  <1>4. spark = row
    <2>1. diff = 0 <=> issued = total
      <3> HIDE DEF issued, total
      <3> QED BY <1>2
    <2> HIDE DEF rule, limit
    <2> QED BY <2>1 DEF SupplyRow, Silver, limit
  <1>5. Supply({d}, Silver, None, by) = {spark}
    BY DEF Supply
  <1>6. SupplyExceptions({d}, Silver, None, by) = IF found = None THEN {} ELSE {x(found)}
    <2> HIDE DEF issued, total, rule
    <2>1. SupplyExceptions({d}, Silver, None, by) =
            { [date_kst |-> r.date_kst, exception_type |-> "SUPPLY_MISMATCH",
               severity |-> Severity(Magnitude(r.diff_amount), rule),
               metric |-> "supply_diff_abs", metric_value |-> Magnitude(r.diff_amount),
               message |-> << r.issued_supply, r.wallet_total_balance, r.diff_amount >>,
               run_id |-> None, rule_id |-> r.rule_id] :
                 r \in { q \in {row} : Severity(Magnitude(q.diff_amount), rule) # None } }
      BY <1>4, <1>5 DEF SupplyExceptions, rule
    <2>2. /\ row.date_kst = d /\ row.diff_amount = diff /\ row.rule_id = rule_id
          /\ row.issued_supply = issued /\ row.wallet_total_balance = total
      OBVIOUS
    <2> HIDE DEF row, diff, rule_id
    <2>3. SupplyExceptions({d}, Silver, None, by) =
            { x(Severity(Magnitude(r.diff_amount), rule)) :
                r \in { q \in {row} : Severity(Magnitude(q.diff_amount), rule) # None } }
      BY <2>1, <2>2
    <2> HIDE DEF x
    <2> QED BY <2>2, <2>3
  <1>7. EvaluateSeverity(Magnitude(diff), rule) = found
    BY SeverityMeets
  <1> HIDE DEF row, x, found, supply, spark
  <1>8. supply[1] = row /\ supply[2] = IF found = None THEN {} ELSE {x(found)}
    BY <1>3, <1>7
  <1> QED BY <1>4, <1>5, <1>6, <1>8 DEF supply

-----------------------------------------------------------------------------
(* What Silver lets through *)

\* A wallet row without a reason to be bad has a user.
LEMMA GoodWallet ==
  ASSUME NEW w, WalletReason(w) = None
  PROVE  NonBlank(WalletRow(w).user_id)
  <1>1. \A reason \in WalletReasons : reason # None
    BY ControlsGoldAssumption
  <1>2. NullIfBlank(w.user_id) # None
    BY <1>1, WalletChain DEF WalletReasons
  <1> QED BY <1>2 DEF WalletRow, NullIfBlank, NonBlank

\* A ledger row without one has identifiers, a day and amounts.
LEMMA GoodEntry ==
  ASSUME NEW l \in LedgerRaw, NEW rows, LedgerReason(l, rows) = None
  PROVE  LET e == LedgerRow(l, rows)
         IN  /\ NonBlank(e.tx_id) /\ NonBlank(e.wallet_id)
             /\ e.event_date_kst \in Int /\ e.amount \in Int /\ e.amount_signed \in Int
  <1>1. \A reason \in LedgerReasons : reason # None
    BY ControlsGoldAssumption
  <1>2. /\ NullIfBlank(l.tx_id) # None /\ NullIfBlank(l.wallet_id) # None
        /\ l.amount # None /\ EntryType(l) \in DOMAIN EntryTypeSign /\ EventTime(l) # None
    BY <1>1, LedgerChain DEF LedgerReasons
  <1>3. NonBlank(l.tx_id) /\ NonBlank(l.wallet_id)
    BY <1>2 DEF NullIfBlank, NonBlank
  <1>4. l.amount \in Int /\ EventTime(l) \in Int
    BY <1>2 DEF LedgerRaw, Optional, EventTime, OrElse
  <1>5. DateKst(EventTime(l)) \in Int
    BY <1>4, JobParamsAssumption DEF DateKst
  <1>6. l.amount * EntryTypeSign[EntryType(l)] \in Int
    <2>1. EntryTypeSign[EntryType(l)] \in Int
      BY <1>2, EntrySigns
    <2> QED BY <1>4, <2>1
  <1> QED BY <1>3, <1>4, <1>5, <1>6 DEF LedgerRow

\* Only such rows come to the tables.
LEMMA RowsNext ==
  ASSUME LocalsInv, RowsInv, [Next]_vars
  PROVE  RowsInv'
  <1>1. DataInv'
    BY DataNext DEF RowsInv
  <1>2. CASE UNCHANGED << wallet_snapshot, ledger_entries >>
    BY <1>1, <1>2 DEF RowsInv
  <1>3. CASE SilverMerges
    <2>1. PICK b \in Batches :
            /\ wallet_snapshot' = Upsert(wallet_snapshot, WalletSnapshot(b.wallets),
                                         LAMBDA w : << w.snapshot_ts, w.user_id >>)
            /\ ledger_entries' = Upsert(ledger_entries, LedgerEntries(b.ledger, orders),
                                        LAMBDA e : << e.tx_id, e.wallet_id >>)
      <3>1. feed \in Seq(Batches) /\ feed # << >>
        BY <1>3 DEF SilverMerges, LocalsInv
      <3>2. Batch \in Batches
        <4> HIDE DEF Batches
        <4> QED BY <3>1 DEF Batch
      <3> QED BY <1>3, <3>2 DEF SilverMerges
    <2> DEFINE wallets == WalletSnapshot(b.wallets)
               entries == LedgerEntries(b.ledger, orders)
    <2>2. /\ wallet_snapshot' \subseteq wallet_snapshot \cup wallets
          /\ ledger_entries' \subseteq ledger_entries \cup entries
      BY <2>1 DEF Upsert
    <2>3. \A w \in wallets : NonBlank(w.user_id)
      BY GoodWallet DEF WalletSnapshot
    <2>4. \A e \in entries :
            /\ NonBlank(e.tx_id) /\ NonBlank(e.wallet_id)
            /\ e.event_date_kst \in Int /\ e.amount \in Int /\ e.amount_signed \in Int
      <3>1. b.ledger \in SUBSET LedgerRaw
        BY DEF Batches
      <3> QED BY <3>1, GoodEntry DEF LedgerEntries
    <2> HIDE DEF wallets, entries
    <2> QED BY <1>1, <2>2, <2>3, <2>4 DEF RowsInv
  <1>4. CASE OrdersArrive \/ SyncRules \/ UNCHANGED vars
    BY <1>2, <1>4 DEF OrdersArrive, SyncRules, vars, upstream
  <1>5. ASSUME NEW a \in Attempts, Script(a) PROVE RowsInv'
    BY <1>2, <1>5 DEF Script, Start, LoadRules, FallBackToSeed, Write, WriteRefused, Fail,
                      upstream
  <1> QED BY <1>3, <1>4, <1>5 DEF Next

\* There are none at first.
LEMMA RowsInit == Init => RowsInv
  BY FS_EmptySet DEF Init, RowsInv, DataInv

\* Spark and Python agree on the balances, in every state there can be.
THEOREM BalanceTwins == Spec => []BalanceTwinsAgree
  <1>1. RowsInv => BalanceTwinsAgree
    <2> SUFFICES ASSUME RowsInv, SnapshotsApart, NEW d \in AllDates, NEW reversed \in BOOLEAN
                 PROVE  LET by      == SeedRules(seed)
                            wallets == Listed(wallet_snapshot, reversed)
                            ledger  == Listed(ledger_entries, reversed)
                            recon   ==
                              BuildReconSnapshotFlow(wallets, ledger, d, None, by, TagsOf(d))
                            supply  == BuildSupplyBalanceDaily(wallets, ledger, d, None, by)
                        IN  /\ OneTag(d) => /\ recon[1] = Recon({d}, Silver, None, by)
                                            /\ recon[2] = ReconExceptions({d}, Silver, None, by)
                            /\ {supply[1]} = Supply({d}, Silver, None, by)
                            /\ supply[2] = SupplyExceptions({d}, Silver, None, by)
      BY DEF BalanceTwinsAgree
    <2>1. /\ IsListing(Listed(wallet_snapshot, reversed), wallet_snapshot)
          /\ IsListing(Listed(ledger_entries, reversed), ledger_entries)
      BY ListedIs DEF RowsInv, DataInv
    <2> QED BY <2>1, ReconTwins, SupplyTwins
  <1>2. TypeOK /\ LocalsInv /\ RowsInv /\ [Next]_vars => (TypeOK /\ LocalsInv /\ RowsInv)'
    BY TypingNext, RowsNext
  <1> QED BY <1>1, <1>2, TypingInit, RowsInit, PTL DEF Spec

-----------------------------------------------------------------------------
(* The operational tables *)

\* The counts of failed and of refunded orders are the same.
LEMMA DailyTwins ==
  ASSUME OrdersInv, NEW raw, IsListing(raw, orders), NEW d, NEW statuses
  PROVE  BuildOpsPaymentDaily(raw, d, statuses, None) =
           OpsStatusDaily({d}, orders, statuses, None)
  <1> DEFINE tallies == TalliesOf(orders, d, statuses)
             row(name) == [date_kst |-> d, merchant_name |-> name,
                           total_cnt |-> tallies[name][1],
                           status_cnt |-> tallies[name][2], run_id |-> None]
  <1>1. Tallies(raw, d, statuses) = tallies
    BY TalliesAre
  <1>2. { o \in orders : IsOrderOf(o, d) } = OrdersOf(d, orders)
    BY DEF IsOrderOf, CreatedAt, OrdersOf, OrElse
  <1>3. DOMAIN tallies = Merchants(d, orders)
    BY <1>2 DEF TalliesOf, Merchants
  <1>4. ASSUME NEW name \in Merchants(d, orders)
        PROVE  row(name) = OpsRow(d, name, orders, statuses, None)
    <2>1. SoldBy(orders, d, name) = { o \in OrdersOf(d, orders) : o.merchant_name = name }
      BY <1>2 DEF SoldBy
    <2>2. tallies[name] = << Cardinality(SoldBy(orders, d, name)),
                             Cardinality(WithStatus(SoldBy(orders, d, name), statuses)) >>
      BY <1>3 DEF TalliesOf
    <2> HIDE DEF tallies
    <2> QED BY <2>1, <2>2 DEF OpsRow, WithStatus
  <1>5. BuildOpsPaymentDaily(raw, d, statuses, None) = { row(name) : name \in DOMAIN tallies }
    BY <1>1 DEF BuildOpsPaymentDaily
  <1>6. OpsStatusDaily({d}, orders, statuses, None) =
          { OpsRow(d, name, orders, statuses, None) : name \in Merchants(d, orders) }
    BY DEF OpsStatusDaily
  <1> HIDE DEF tallies, row
  <1> QED BY <1>3, <1>4, <1>5, <1>6

\* As many positions of a list as records.
LEMMA CountOfPositions ==
  ASSUME NEW list, NEW S, IsListing(list, S), NEW T \in SUBSET S
  PROVE  Cardinality({ i \in DOMAIN list : list[i] \in T }) = Cardinality(T)
  <1> DEFINE D == { i \in DOMAIN list : list[i] \in T }
             f == [i \in D |-> list[i]]
  <1>1. DOMAIN list = 1..Cardinality(S) /\ Cardinality(S) \in Nat /\ At(list, DOMAIN list) = S
    BY ListingSteps
  <1>2. \A i, j \in DOMAIN list : list[i] = list[j] => i = j
    BY <1>1 DEF IsListing
  <1>3. IsFiniteSet(D)
    <2>1. IsFiniteSet(DOMAIN list) /\ D \in SUBSET DOMAIN list
      BY <1>1, FS_Interval
    <2> HIDE DEF D
    <2> QED BY <2>1, FS_Subset
  <1>4. \A x \in T : \E i \in D : f[i] = x
    BY <1>1 DEF At
  <1>5. f \in Bijection(D, T)
    BY <1>2, <1>4 DEF Bijection, Injection, Surjection, IsInjective
  <1>6. ExistsBijection(D, T)
    BY <1>5 DEF ExistsBijection
  <1> HIDE DEF D
  <1> QED BY <1>3, <1>6, FS_Bijection DEF D

\* As many rows as identifiers, if there are no two rows of one.
LEMMA CountOfIds ==
  ASSUME NEW S \in SUBSET orders, IsFiniteSet(S),
         \A o, other \in S : o.order_id = other.order_id => o = other
  PROVE  Cardinality(S) = Cardinality({ o.order_id : o \in S })
  <1> DEFINE T == { o.order_id : o \in S }
             f == [o \in S |-> o.order_id]
  <1>1. f \in Bijection(S, T)
    BY DEF Bijection, Injection, Surjection, IsInjective
  <1>2. ExistsBijection(S, T)
    BY <1>1 DEF ExistsBijection
  <1> HIDE DEF T
  <1> QED BY <1>2, FS_Bijection DEF T

\* The day of a row of the ledger is the same for both.
LEMMA DayOfEntry ==
  ASSUME RowsInv, NEW e \in ledger_entries
  PROVE  EntryDate(e) = EventKst(e)
  BY NoneAssumption DEF RowsInv, EntryDate, EventKst

\* The quality of the pairing is the same, but for orders of several rows.
LEMMA PairingTwins ==
  ASSUME RowsInv, OrdersInv, NEW d,
         NEW ledger, IsListing(ledger, ledger_entries), NEW raw, IsListing(raw, orders)
  PROVE  LET pairing == PairingRow(d, ledger_entries, orders, None)
             single == \A o, other \in orders : o.order_id = other.order_id => o = other
         IN  BuildOpsLedgerPairingQualityDaily(ledger, d, raw, None)
               = IF single THEN pairing
                 ELSE [pairing EXCEPT !.joined =
                         Cardinality({ o.order_id : o \in orders }
                                       \cap RelatedIds(d, ledger_entries))]
  <1> DEFINE entries == EntriesOf(d, ledger_entries)
             ids == RelatedIds(d, ledger_entries)
             groups == Gathered(ledger_entries, d)
             pairing == PairingRow(d, ledger_entries, orders, None)
             single == \A o, other \in orders : o.order_id = other.order_id => o = other
             order_ids == { raw[i].order_id : i \in DOMAIN raw } \ {None}
             known == { o.order_id : o \in orders } \cap ids
             nulls == { e \in entries : e.related_id \in {None, ""} }
             pairs == { g \in ids : IsPair(g, d, ledger_entries) }
             python == BuildOpsLedgerPairingQualityDaily(ledger, d, raw, None)
  <1>1. entries = { e \in ledger_entries : EventKst(e) = d }
    BY DayOfEntry DEF EntriesOf
  <1>2. /\ \A i \in DOMAIN ledger : ledger[i] \in ledger_entries
        /\ At(raw, DOMAIN raw) = orders
    <2>1. DOMAIN ledger = 1..Cardinality(ledger_entries) /\ At(raw, DOMAIN raw) = orders
      BY ListingSteps
    <2> QED BY <2>1 DEF IsListing
  <1>3. Cardinality(On(d, ledger)) = Cardinality(entries)
    <2>1. On(d, ledger) = { i \in DOMAIN ledger : ledger[i] \in entries }
      BY <1>1, <1>2 DEF On
    <2>2. entries \in SUBSET ledger_entries
      BY <1>1
    <2> HIDE DEF entries
    <2> QED BY <2>1, <2>2, CountOfPositions
  <1>4. Cardinality({ i \in On(d, ledger) : ~Filled(ledger[i].related_id) }) =
          Cardinality(nulls)
    <2>1. { i \in On(d, ledger) : ~Filled(ledger[i].related_id) } =
            { i \in DOMAIN ledger : ledger[i] \in nulls }
      BY <1>1, <1>2 DEF On, Filled
    <2>2. nulls \in SUBSET ledger_entries
      BY <1>1
    <2> HIDE DEF nulls
    <2> QED BY <2>1, <2>2, CountOfPositions
  <1>5. GroupsOf(ledger, d) = groups
    BY GroupsAre
  <1>6. DOMAIN groups = ids
    BY <1>1 DEF Gathered, RelatedIds
  <1>7. \A g \in ids :
          groups[g].size = 2 /\ Cardinality({ w \in groups[g].wallets : Filled(w) }) = 2
            <=> IsPair(g, d, ledger_entries)
    <2> SUFFICES ASSUME NEW g \in ids
                 PROVE  IsPair(g, d, ledger_entries) <=>
                          /\ groups[g].size = 2
                          /\ Cardinality({ w \in groups[g].wallets : Filled(w) }) = 2
      OBVIOUS
    <2> DEFINE group == GroupOf(ledger_entries, d, g)
    <2>1. groups[g] = [size |-> Cardinality(group), wallets |-> WalletsIn(group)]
      BY <1>6 DEF Gathered
    <2>2. group = { e \in entries : e.related_id = g }
      BY <1>1 DEF GroupOf
    <2>3. { w \in WalletsIn(group) : Filled(w) } =
            { e.wallet_id : e \in { x \in group : NonBlank(x.wallet_id) } }
      BY DEF WalletsIn, GroupOf, RowsInv, Filled, NonBlank
    <2>4. groups[g].size = Cardinality(group) /\ groups[g].wallets = WalletsIn(group)
      <3> HIDE DEF groups, group
      <3> QED BY <2>1
    <2> HIDE DEF group
    <2>5. IsPair(g, d, ledger_entries) <=>
            /\ Cardinality(group) = 2
            /\ Cardinality({ w \in WalletsIn(group) : Filled(w) }) = 2
      BY <2>2, <2>3 DEF IsPair
    <2> QED BY <2>4, <2>5
  <1>8. { g \in ids : g \in order_ids } = known
    <2>1. { raw[i].order_id : i \in DOMAIN raw } = { o.order_id : o \in orders }
      BY <1>2 DEF At
    <2>2. None \notin ids
      BY DEF RelatedIds
    <2> HIDE DEF ids
    <2> QED BY <2>1, <2>2
  <1>9. python = [date_kst |-> d, entry_cnt |-> Cardinality(entries),
                  related_id_null |-> Cardinality(nulls), groups |-> Cardinality(ids),
                  pair_candidates |-> Cardinality(pairs),
                  joined |-> Cardinality(known), run_id |-> None]
    <2>1. { g \in ids : groups[g].size = 2
                          /\ Cardinality({ w \in groups[g].wallets : Filled(w) }) = 2 }
            = pairs
      BY <1>7
    <2> HIDE DEF entries, ids, groups, order_ids, known, nulls, pairs
    <2> QED BY <1>3, <1>4, <1>5, <1>6, <1>8, <2>1
            DEF BuildOpsLedgerPairingQualityDaily, order_ids
  <1>10. pairing = [date_kst |-> d, entry_cnt |-> Cardinality(entries),
                    related_id_null |-> Cardinality(nulls), groups |-> Cardinality(ids),
                    pair_candidates |-> Cardinality(pairs),
                    joined |-> Cardinality({ o \in orders : o.order_id \in ids }),
                    run_id |-> None]
    BY DEF PairingRow
  <1>11. single => Cardinality({ o \in orders : o.order_id \in ids }) = Cardinality(known)
    <2> SUFFICES ASSUME single
                 PROVE  Cardinality({ o \in orders : o.order_id \in ids }) = Cardinality(known)
      OBVIOUS
    <2> DEFINE S == { o \in orders : o.order_id \in ids }
    <2>1. S \in SUBSET orders /\ IsFiniteSet(S)
      BY FS_Subset DEF OrdersInv
    <2>2. { o.order_id : o \in S } = known
      OBVIOUS
    <2>3. \A o, other \in S : o.order_id = other.order_id => o = other
      OBVIOUS
    <2> HIDE DEF S, known
    <2>4. Cardinality(S) = Cardinality(known)
      BY <2>1, <2>2, <2>3, CountOfIds
    <2> QED BY <2>4 DEF S
  <1> HIDE DEF entries, ids, groups, known, nulls, pairs, python, pairing
  <1>12. python = [pairing EXCEPT !.joined = Cardinality(known)]
    <2> DEFINE fields == {"date_kst", "entry_cnt", "related_id_null", "groups",
                          "pair_candidates", "joined", "run_id"}
    <2>1. pairing = [f \in fields |-> pairing[f]]
      BY <1>10
    <2>2. [pairing EXCEPT !.joined = Cardinality(known)] =
            [f \in fields |-> IF f = "joined" THEN Cardinality(known) ELSE pairing[f]]
      BY <2>1
    <2>3. python = [f \in fields |-> python[f]]
      BY <1>9
    <2>4. \A f \in fields : python[f] = IF f = "joined" THEN Cardinality(known) ELSE pairing[f]
      BY <1>9, <1>10
    <2> HIDE DEF fields
    <2> QED BY <2>2, <2>3, <2>4
  <1>13. single => python = pairing
    BY <1>9, <1>10, <1>11
  <1> QED BY <1>12, <1>13 DEF python, known, ids, pairing

\* The transactions of a group, and the groups that pair a transaction.
TxsOf(d, g) == { e.tx_id : e \in { x \in Searchable(d, ledger_entries) : x.related_id = g } }
PairsOf(d, tx) ==
  { h \in RelatedIds(d, ledger_entries) :
      NonBlank(h) /\ Cardinality(TxsOf(d, h)) = 2 /\ tx \in TxsOf(d, h) }

\* What is left of two without one of them.
LEMMA OtherOfTwo ==
  ASSUME NEW S, IsFiniteSet(S), Cardinality(S) = 2, NEW x \in S
  PROVE  \E y : S \ {x} = {y}
  <1>1. IsFiniteSet(S \ {x}) /\ Cardinality(S \ {x}) = 1
    BY FS_RemoveElement
  <1> QED BY <1>1, FS_Singleton

\* What there is at most one of.
LEMMA AtMostOne ==
  ASSUME NEW S, IsFiniteSet(S), Cardinality(S) <= 1, NEW x \in S
  PROVE  S = {x}
  <1>1. Cardinality(S) \in Nat /\ Cardinality(S) # 0
    BY FS_CardinalityType, FS_EmptySet
  <1>2. \E y : S = {y}
    BY <1>1, FS_Singleton
  <1> QED BY <1>2

\* Of some groups there is one whose first place is last.
LEMMA LastGroup ==
  ASSUME NEW n \in Nat, NEW S, S # {}, NEW place, \A g \in S : place[g] \in 1..n
  PROVE  \E g \in S : \A h \in S : place[h] <= place[g]
  <1> DEFINE T == { place[g] : g \in S }
  <1>1. T \in SUBSET (1..n) /\ T # {}
    OBVIOUS
  <1>2. \E x \in T : \A y \in T : y <= x
    <2>1. IsFiniteSet(1..n)
      BY FS_Interval
    <2>2. T \in SUBSET Int /\ T # {}
      BY <1>1
    <2> HIDE DEF T
    <2> QED BY <1>1, <2>1, <2>2, FS_Subset, GreatestExists
  <1> QED BY <1>2

\* Python searches the rows Spark does.
LEMMA IndexedAre ==
  ASSUME RowsInv, NEW d, NEW ledger, IsListing(ledger, ledger_entries)
  PROVE  /\ { ledger[i] : i \in Indexed(ledger, d) } = Searchable(d, ledger_entries)
         /\ Indexed(ledger, d) \in SUBSET (1..Cardinality(ledger_entries))
         /\ Searchable(d, ledger_entries) = EntriesOf(d, ledger_entries)
  <1> DEFINE n == Cardinality(ledger_entries)
  <1>1. /\ DOMAIN ledger = 1..n
        /\ \A i \in 1..n : ledger[i] \in ledger_entries
        /\ \A e \in ledger_entries : \E i \in 1..n : ledger[i] = e
    <2>1. DOMAIN ledger = 1..n /\ At(ledger, DOMAIN ledger) = ledger_entries
      BY ListingSteps
    <2> QED BY <2>1 DEF At
  <1>2. /\ Searchable(d, ledger_entries) = { e \in ledger_entries : EventKst(e) = d }
        /\ EntriesOf(d, ledger_entries) = { e \in ledger_entries : EventKst(e) = d }
    BY DayOfEntry DEF Searchable, EntriesOf, RowsInv
  <1>3. Indexed(ledger, d) = { i \in 1..n : EventKst(ledger[i]) = d }
    BY <1>1 DEF Indexed, On, RowsInv, Filled, NonBlank
  <1> HIDE DEF n
  <1>4. { ledger[i] : i \in Indexed(ledger, d) } = Searchable(d, ledger_entries)
    BY <1>1, <1>2, <1>3
  <1> QED BY <1>2, <1>3, <1>4 DEF n

\* The pair Python finds of a transaction without a related id of spaces that is
\* in one pair at most.
LEMMA PairMeets ==
  ASSUME RowsInv, NEW d, NEW ledger, IsListing(ledger, ledger_entries), NEW tx,
         Cardinality(PairedTxIds(tx, d, ledger_entries)) <= 1,
         \A e \in ledger_entries : e.tx_id = tx => ~Spaced(e, {"related_id"})
  PROVE  LET found == PairedTxIds(tx, d, ledger_entries)
         IN  (IF found = {} THEN {None} ELSE found) = {PairedTx(tx, ledger, d)}
  <1> DEFINE members(g) == { i \in Indexed(ledger, d) : ledger[i].related_id = g }
             first(g) == CHOOSE i \in members(g) : \A j \in members(g) : i <= j
             ids(g) == { ledger[i].tx_id : i \in members(g) }
             names == { ledger[i].related_id :
                          i \in { k \in Indexed(ledger, d) : Filled(ledger[k].related_id) } }
             pairs == { g \in names : Cardinality(ids(g)) = 2 /\ tx \in ids(g) }
             last == CHOOSE g \in pairs : \A h \in pairs : first(h) <= first(g)
             found == PairedTxIds(tx, d, ledger_entries)
             n == Cardinality(ledger_entries)
  <1>1. /\ { ledger[i] : i \in Indexed(ledger, d) } = Searchable(d, ledger_entries)
        /\ Indexed(ledger, d) \in SUBSET (1..n)
        /\ Searchable(d, ledger_entries) = EntriesOf(d, ledger_entries)
    BY IndexedAre
  <1>2. PairedTx(tx, ledger, d) = IF pairs = {} THEN None ELSE CHOOSE o \in ids(last) : o # tx
    BY DEF PairedTx
  <1>3. \A g : ids(g) = TxsOf(d, g)
    BY <1>1 DEF TxsOf
  <1>4. names = { g \in RelatedIds(d, ledger_entries) : Filled(g) }
    BY <1>1, ZenonT(40) DEF RelatedIds, Filled
  <1>5. pairs = PairsOf(d, tx)
    <2>1. tx \notin TxsOf(d, " ")
      BY DEF TxsOf, Searchable, EntriesOf, Spaced
    <2>2. \A g : g # " " => (Filled(g) <=> NonBlank(g))
      BY DEF Filled, NonBlank
    <2>3. ~NonBlank(" ")
      BY DEF NonBlank
    <2> HIDE DEF ids, names
    <2> QED BY <1>3, <1>4, <2>1, <2>2, <2>3 DEF PairsOf
  <1>6. found = UNION { TxsOf(d, g) \ {tx} : g \in PairsOf(d, tx) }
    BY DEF PairedTxIds, PairsOf, TxsOf
  <1>7. CASE pairs = {}
    <2> HIDE DEF found, pairs
    <2>1. found = {}
      BY <1>5, <1>6, <1>7
    <2> QED BY <1>2, <1>7, <2>1 DEF found
  <1>8. CASE pairs # {}
    <2>1. last \in pairs
      <3> DEFINE place == [g \in pairs |-> first(g)]
      <3>1. ASSUME NEW g \in pairs PROVE place[g] \in 1..n
        <4>1. members(g) # {} /\ members(g) \in SUBSET (1..n)
          BY <1>1
        <4>2. \E i \in members(g) : \A j \in members(g) : i <= j
          <5> HIDE DEF members
          <5>1. members(g) \in SUBSET Nat
            BY <4>1
          <5> QED BY <4>1, <5>1, LeastNatural
        <4>3. first(g) \in members(g)
          <5> HIDE DEF members
          <5> QED BY <4>2
        <4> HIDE DEF members, first, pairs
        <4> QED BY <3>1, <4>1, <4>3
      <3> HIDE DEF pairs, first
      <3>2. \E g \in pairs : \A h \in pairs : place[h] <= place[g]
        <4>1. n \in Nat
          BY FS_CardinalityType DEF RowsInv, DataInv
        <4> HIDE DEF place, n
        <4> QED BY <1>8, <3>1, <4>1, LastGroup
      <3>3. \E g \in pairs : \A h \in pairs : first(h) <= first(g)
        BY <3>2
      <3> QED BY <3>3
    <2> HIDE DEF last, pairs, found
    <2> DEFINE T == TxsOf(d, last)
    <2>2. last \in PairsOf(d, tx) /\ Cardinality(T) = 2 /\ tx \in T
      BY <1>5, <2>1 DEF PairsOf
    <2>3. \A g : IsFiniteSet(TxsOf(d, g)) /\ IsFiniteSet(found)
      <3> DEFINE id == [e \in ledger_entries |-> e.tx_id]
                 all == { id[e] : e \in ledger_entries }
      <3>1. IsFiniteSet(ledger_entries)
        BY DEF RowsInv, DataInv
      <3>2. IsFiniteSet(all)
        <4> HIDE DEF id
        <4> QED BY <3>1, FiniteImage
      <3>3. \A g : TxsOf(d, g) \in SUBSET all
        BY DEF TxsOf, Searchable, EntriesOf
      <3> HIDE DEF all
      <3>4. found \in SUBSET all
        BY <1>6, <3>3
      <3> QED BY <3>2, <3>3, <3>4, FS_Subset
    <2>4. PICK y : T \ {tx} = {y}
      <3> HIDE DEF T
      <3> QED BY <2>2, <2>3, OtherOfTwo DEF T
    <2>5. (CHOOSE o \in T : o # tx) = y
      <3> HIDE DEF T
      <3> QED BY <2>4
    <2>6. found = {y}
      <3>1. y \in found
        <4> HIDE DEF T
        <4> QED BY <1>6, <2>2, <2>4 DEF T
      <3>2. Cardinality(found) <= 1
        BY DEF found
      <3> QED BY <2>3, <3>1, <3>2, AtMostOne
    <2>7. ids(last) = T
      BY <1>3
    <2> HIDE DEF ids, T
    <2>8. PairedTx(tx, ledger, d) = y
      BY <1>2, <1>8, <2>5, <2>7
    <2> QED BY <2>6, <2>8 DEF found
  <1> QED BY <1>7, <1>8

\* A transaction whose rows Spark does not multiply and both group alike.
Comparable(tx, d) ==
  /\ Cardinality(PairedTxIds(tx, d, ledger_entries)) <= 1
  /\ \A e \in ledger_entries : e.tx_id = tx => ~Spaced(e, {"related_id"})

\* The rows of such transactions are the same.
LEMMA AdminTwins ==
  ASSUME RowsInv, NEW d, NEW ledger, IsListing(ledger, ledger_entries)
  PROVE  { r \in BuildAdminTxSearch(ledger, d, None) : Comparable(r.tx_id, d) }
           = { r \in AdminTxSearch({d}, ledger_entries, None) : Comparable(r.tx_id, d) }
  <1> DEFINE python == BuildAdminTxSearch(ledger, d, None)
             spark == AdminTxSearch({d}, ledger_entries, None)
             row(e) == AdminRow(e, PairedTx(e.tx_id, ledger, d), d, None)
             found(e) == PairedTxIds(e.tx_id, d, ledger_entries)
             rowsOf(e) == { AdminRow(e, tx, d, None) :
                              tx \in IF found(e) = {} THEN {None} ELSE found(e) }
  <1>1. python = { row(ledger[i]) : i \in Indexed(ledger, d) }
    BY DEF BuildAdminTxSearch
  <1>2. spark = UNION { rowsOf(e) : e \in Searchable(d, ledger_entries) }
    BY DEF AdminTxSearch, AdminRowsOf
  <1>3. { ledger[i] : i \in Indexed(ledger, d) } = Searchable(d, ledger_entries)
    BY IndexedAre
  <1>4. ASSUME NEW e, Comparable(e.tx_id, d) PROVE rowsOf(e) = {row(e)}
    <2>1. (IF found(e) = {} THEN {None} ELSE found(e)) = {PairedTx(e.tx_id, ledger, d)}
      BY <1>4, PairMeets DEF Comparable
    <2> HIDE DEF found
    <2> QED BY <2>1
  <1>5. \A e : row(e).tx_id = e.tx_id /\ \A r \in rowsOf(e) : r.tx_id = e.tx_id
    BY DEF AdminRow
  <1> HIDE DEF python, spark, row, rowsOf
  <1>6. python = { row(e) : e \in Searchable(d, ledger_entries) }
    BY <1>1, <1>3
  <1>7. ASSUME NEW r, Comparable(r.tx_id, d) PROVE r \in python <=> r \in spark
    <2>1. ASSUME NEW e \in Searchable(d, ledger_entries)
          PROVE  r = row(e) <=> r \in rowsOf(e)
      BY <1>4, <1>5, <1>7
    <2> QED BY <1>2, <1>6, <2>1
  <1> QED BY <1>7 DEF python, spark

\* Spark and Python agree on the operational tables, in every state there can be.
THEOREM OpsTwins == Spec => []OpsTwinsAgree
  <1>1. RowsInv /\ OrdersInv => OpsTwinsAgree
    <2> SUFFICES ASSUME RowsInv, OrdersInv, NEW d \in AllDates, NEW reversed \in BOOLEAN
                 PROVE  LET ledger  == Listed(ledger_entries, reversed)
                            raw     == Listed(orders, reversed)
                            daily(statuses) ==
                              BuildOpsPaymentDaily(raw, d, statuses, None)
                                = OpsStatusDaily({d}, orders, statuses, None)
                            pairing == PairingRow(d, ledger_entries, orders, None)
                            single  ==
                              \A o, other \in orders : o.order_id = other.order_id => o = other
                            once(rows) ==
                              { r \in rows :
                                  /\ Cardinality(PairedTxIds(r.tx_id, d, ledger_entries)) <= 1
                                  /\ \A e \in ledger_entries :
                                       e.tx_id = r.tx_id => ~Spaced(e, {"related_id"}) }
                        IN  /\ daily(FailedStatuses) /\ daily(RefundedStatuses)
                            /\ BuildOpsLedgerPairingQualityDaily(ledger, d, raw, None)
                                 = IF single THEN pairing
                                   ELSE [pairing EXCEPT !.joined =
                                           Cardinality({ o.order_id : o \in orders }
                                                         \cap RelatedIds(d, ledger_entries))]
                            /\ once(BuildAdminTxSearch(ledger, d, None))
                                 = once(AdminTxSearch({d}, ledger_entries, None))
      BY DEF OpsTwinsAgree
    <2>1. /\ IsListing(Listed(ledger_entries, reversed), ledger_entries)
          /\ IsListing(Listed(orders, reversed), orders)
      BY ListedIs DEF RowsInv, DataInv, OrdersInv
    <2>2. \A statuses : BuildOpsPaymentDaily(Listed(orders, reversed), d, statuses, None)
                          = OpsStatusDaily({d}, orders, statuses, None)
      BY <2>1, DailyTwins
    <2> QED BY <2>1, <2>2, PairingTwins, AdminTwins DEF Comparable
  <1>2. Init => OrdersInv
    BY FS_EmptySet DEF Init, OrdersInv
  <1>3. TypeOK /\ LocalsInv /\ RowsInv /\ OrdersInv /\ [Next]_vars
          => (TypeOK /\ LocalsInv /\ RowsInv /\ OrdersInv)'
    BY TypingNext, RowsNext, OrdersNext
  <1> QED BY <1>1, <1>2, <1>3, TypingInit, RowsInit, PTL DEF Spec

=============================================================================
