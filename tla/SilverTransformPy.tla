------------------------- MODULE SilverTransformPy -------------------------
(***************************************************************************)
(* The plain Python statement of SilverTransform                           *)
(* (src/transforms/silver_controls.py): one record at a time, left at the  *)
(* first fault.  A result is << None, row >> or << reason, None >>.        *)
(***************************************************************************)
EXTENDS Integers, Sequences, SequencesExt, SilverTransform

\* Python's truth of a value that is None or a string.
Truthy(value) == value # None /\ value # ""

Bad(reason) == << reason, None >>
Good(row)   == << None, row >>

\* Timestamps are objects, and an object is true.
DeriveSnapshotTs(w) ==
  IF w.source_extracted_at # None THEN w.source_extracted_at ELSE w.ingested_at

TransformWalletRecord(w) ==
  IF ~Truthy(w.user_id) THEN Bad("missing_user_id")
  ELSE IF {w.balance, w.frozen_amount} \cap {None} # {} THEN Bad("invalid_balance")
  ELSE IF w.balance < 0 \/ w.frozen_amount < 0 THEN Bad("negative_balance")
  ELSE IF DeriveSnapshotTs(w) = None THEN Bad("missing_snapshot_ts")
  ELSE Good([snapshot_ts |-> DeriveSnapshotTs(w),
             snapshot_date_kst |-> DateKst(DeriveSnapshotTs(w)),
             user_id |-> w.user_id, balance_total |-> w.balance + w.frozen_amount])

\* The dict of statuses: a later record of the list replaces an earlier one.
Noted(lookup, o) ==
  IF o.order_id = None \/ o.status = None THEN lookup
  ELSE [id \in DOMAIN lookup \cup {o.order_id} |->
          IF id = o.order_id THEN o.status ELSE lookup[id]]

BuildStatusLookup(orders) == FoldLeft(Noted, << >>, orders)

\* resolve_allowed_values: no values, no check.
Permits(allowed, value) == allowed = {} \/ value \in allowed

TransformLedgerRecord(l, lookup) ==
  LET entry_type == IF Truthy(l.type) THEN l.type ELSE l.entry_type
      event_time == IF l.created_at # None THEN l.created_at ELSE l.event_time
      status     == IF l.related_id \in DOMAIN lookup THEN lookup[l.related_id] ELSE l.status
  IN  IF ~Truthy(l.tx_id) \/ ~Truthy(l.wallet_id) THEN Bad("missing_tx_or_wallet")
      ELSE IF ~Truthy(entry_type) THEN Bad("missing_entry_type")
      ELSE IF ~Permits(AllowedEntryTypes, entry_type) THEN Bad("invalid_entry_type")
      ELSE IF l.amount = None THEN Bad("invalid_amount")
      ELSE IF l.amount <= 0 THEN Bad("non_positive_amount")
      ELSE IF entry_type \notin DOMAIN EntryTypeSign THEN Bad("amount_signed_unavailable")
      ELSE IF event_time = None THEN Bad("missing_event_time")
      ELSE IF status # None /\ ~Permits(AllowedStatuses, status) THEN Bad("invalid_status")
      ELSE Good([tx_id |-> l.tx_id, wallet_id |-> l.wallet_id, event_time |-> event_time,
                 event_date_kst |-> DateKst(event_time), entry_type |-> entry_type,
                 amount |-> l.amount, amount_signed |-> EntryTypeSign[entry_type] * l.amount,
                 related_id |-> l.related_id, status |-> status])

=============================================================================
