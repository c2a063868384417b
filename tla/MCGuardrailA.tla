---------------------------- MODULE MCGuardrailA ----------------------------
(***************************************************************************)
(* Finite instances of GuardrailA.  One tick is the ten minutes of the     *)
(* default window.  The limits are small versions of those of              *)
(* mock_data/fixtures/dim_rule_scd2.json: a window is a WARN at once and a *)
(* CRITICAL from the second empty one, any contract violation is CRITICAL. *)
(***************************************************************************)
EXTENDS GuardrailA

MCRules ==
  [m \in {"freshness_sec", "dup_rate", "completeness_zero_windows",
          "contract_bad_records_rate"} |->
     CASE m = "freshness_sec"             -> [crit |-> <<3, 1>>, warn |-> <<2, 1>>, threshold |-> None]
       [] m = "dup_rate"                  -> [crit |-> None, warn |-> <<1, 2>>, threshold |-> None]
       [] m = "completeness_zero_windows" -> [crit |-> <<2, 1>>, warn |-> <<1, 1>>, threshold |-> <<2, 1>>]
       [] m = "contract_bad_records_rate" -> [crit |-> None, warn |-> None, threshold |-> <<1, 2>>]]

MCSourceOrder == << "ledger" >>
TwoSources    == << "ledger", "orders" >>

\* What operators ask for: a backfill of two windows that reports an end in the
\* middle of the second one.  At the first tick that end is still to come.
Backfills  == { [windows |-> << <<0, 1>>, <<1, 3>> >>, processed_end |-> 2] }
NoRequests == {}

\* The mark left by the run before the first attempt.
MCMark == 0

\* Attempts are interchangeable: they differ only in their run_id.
AttemptSymmetry == Permutations(Attempts)
=============================================================================
