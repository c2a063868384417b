--------------------------- MODULE MCControlsGold ---------------------------
(***************************************************************************)
(* Finite instances of ControlsGold, in half days.  One feed has a payment *)
(* between two wallets that is corrected, with a late charge, a repeated   *)
(* order and tags; one a transaction in two wallets and two pairs; one two *)
(* snapshots at one instant; one every kind of bad row and an order        *)
(* without a merchant.                                                     *)
(***************************************************************************)
EXTENDS ControlsGold, TLC

Wallet(user_id, balance, frozen_amount, ts) ==
  [user_id |-> user_id, balance |-> balance, frozen_amount |-> frozen_amount,
   source_extracted_at |-> None, ingested_at |-> ts]

Entry(tx_id, wallet_id, type, amount, related_id, ts) ==
  [tx_id |-> tx_id, wallet_id |-> wallet_id, type |-> type, entry_type |-> None,
   amount |-> amount, related_id |-> related_id, status |-> None,
   created_at |-> ts, event_time |-> None]

Order(order_id, merchant_name, status, created_at, ingested_at) ==
  [order_id |-> order_id, merchant_name |-> merchant_name, status |-> status,
   created_at |-> created_at, event_time |-> created_at, ingested_at |-> ingested_at]

Tag(date_kst, dq_tag) == [date_kst |-> date_kst, dq_tag |-> dq_tag]

Payments ==
  << [wallets   |-> { Wallet("u1", 10, 0, 2), Wallet("u1", 10, 1, 3), Wallet("u2", 3, 0, 3) },
      ledger    |-> { Entry("t1", "u1", "CHARGE", 5, None, 2),
                      Entry("t2", "u1", "PAYMENT", 3, "o1", 3),
                      Entry("t3", "u2", "RECEIVE", 3, "o1", 3) },
      orders    |-> { Order("o1", "m1", "PAID", 3, 3) },
      dq_status |-> { Tag(1, "DUP_SUSPECTED") }],
     [wallets   |-> { Wallet("u1", 8, 0, 3), Wallet("u1", 8, 0, 4) },
      ledger    |-> { Entry("t2", "u1", "PAYMENT", 4, "o1", 4),
                      Entry("t5", "u1", "HOLD", 1, "o1", 4),
                      Entry("t4", "u2", "MINT", 9, "", 2) },
      orders    |-> { Order("o1", "m1", "CANCELLED", 3, 4) },
      dq_status |-> { Tag(1, "SOURCE_STALE"), Tag(1, "EVENT_DROP_SUSPECTED") }] >>

SharedTx ==
  << [wallets   |-> { Wallet("u1", 5, 0, 2) },
      ledger    |-> { Entry("t1", "u1", "PAYMENT", 3, "o1", 2),
                      Entry("t1", "u2", "RECEIVE", 3, "o2", 2),
                      Entry("t2", "u2", "RECEIVE", 3, "o1", 3),
                      Entry("t3", "u1", "BURN", 1, "o2", 3) },
      orders    |-> { Order("o1", "m1", "REFUNDED", 2, 2) },
      dq_status |-> { Tag(1, "") }] >>

Faulty ==
  << [wallets   |-> { Wallet(" ", 1, 0, 2), Wallet("", 1, 0, 2), Wallet("u1", None, 0, 2),
                      Wallet("u1", 1, -1, 2), Wallet("u1", 1, 0, None), Wallet("u1", 2, 2, 4) },
      ledger    |-> { Entry(None, "u1", "CHARGE", 1, None, 2), Entry("t1", " ", "CHARGE", 1, None, 2),
                      Entry("t2", "u1", "", 1, None, 2), Entry("t3", "u1", "GIFT", 1, None, 2),
                      Entry("t4", "u1", "CHARGE", None, None, 2),
                      Entry("t5", "u1", "CHARGE", 0, None, 2),
                      Entry("t6", "u1", "LOAN", 1, None, 2),
                      Entry("t7", "u1", "CHARGE", 1, None, None),
                      Entry("t8", "u1", "CHARGE", 1, "o2", 2),
                      [Entry("t9", "u1", "", 1, "o1", 4) EXCEPT !.entry_type = "HOLD"] },
      orders    |-> { Order("o1", None, "PAID", 4, 4), Order("o2", "m1", "DISPUTED", 2, 2),
                      Order("o2", "m1", "PAID", 2, None), Order("o3", "m2", None, None, 2) },
      dq_status |-> {}] >>

Tied ==
  << [wallets   |-> { Wallet("u1", 5, 0, 3), Wallet("u1", 7, 0, 3) },
      ledger    |-> { Entry("t1", "u1", "CHARGE", 5, None, 3) },
      orders    |-> {},
      dq_status |-> {}] >>

MCFeeds       == { Payments, SharedTx, Tied, Faulty }
MCSharedFeeds == { SharedTx }

MCEntryTypes  == DOMAIN EntryTypeSign \cup {"LOAN"}
MCStatuses    == {"PAID", "PENDING", "FAILED", "CANCELLED", "REFUNDED"}
MCStatusOrder == << "CANCELLED", "DISPUTED", "FAILED", "PAID", "PENDING", "REFUNDED" >>

Drift  == "ledger.drift_abs"
SupplyDiff == "ledger.supply_diff_abs"

Item(rule_id, metric, threshold, crit, start, is_current) ==
  [rule_id |-> rule_id, metric |-> metric, threshold |-> threshold, crit |-> crit,
   warn |-> IF crit = None THEN None ELSE crit - 1, effective_start_ts |-> start,
   effective_end_ts |-> None, is_current |-> is_current]

SeedAtFirst == << Item("r1", Drift, 0, 1, None, None), Item("r2", SupplyDiff, 3, 20, None, None) >>
SeedClosing == << Item("r1", Drift, 0, 1, None, FALSE), Item("r3", Drift, 4, None, 2, TRUE),
                  Item("r2", SupplyDiff, 0, None, None, TRUE) >>
SeedDropping == << Item("r3", Drift, 4, None, 2, TRUE), Item("r2", SupplyDiff, 0, None, None, TRUE) >>

MCSeeds       == << SeedAtFirst, SeedDropping, SeedClosing >>
MCSharedSeeds == << SeedAtFirst >>

Backfill(lo, hi) ==
  [run_mode |-> "backfill", start_ts |-> None, end_ts |-> None,
   date_kst_start |-> lo, date_kst_end |-> hi]

MCRequests       == { Backfill(1, 2), Backfill(2, 2) }
MCSharedRequests == { Backfill(1, 1) }

AttemptSymmetry == Permutations(Attempts)
=============================================================================
