---------------------------- MODULE MCSilverRun ----------------------------
(***************************************************************************)
(* Finite instances of SilverRun.  The rows are those of the ledger, the   *)
(* source with every mechanism: two rows under one key, related to an      *)
(* order that may turn out to be disputed, and a row bad on its own.       *)
(***************************************************************************)
EXTENDS SilverRun, TLC

Row(id, source, key, related, status, good) ==
  [id |-> id, source |-> source, key |-> key, related |-> related,
   status |-> status, good |-> good]

Ledger    == Row("l1", "transaction_ledger_raw", "t1", "o1", None, TRUE)
Again     == Row("l2", "transaction_ledger_raw", "t1", "o1", None, TRUE)
BadLedger == Row("l3", "transaction_ledger_raw", "t2", None, None, FALSE)
Disputed  == Row("p3", "payment_orders_raw", "o1", None, "DISPUTED", TRUE)

MCFeed   == {Ledger, Again, BadLedger}
LateFeed == {Ledger, Disputed}
NoFeed   == {}

MCStatuses  == {"PAID"}
MCThreshold == << 1, 2 >>
MCBackfills == { << 0, 1 >> }
NoBackfills == {}

AttemptSymmetry == Permutations(Attempts)
=============================================================================
