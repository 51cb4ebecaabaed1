---------------------------- MODULE KVMigration ----------------------------
(***************************************************************************)
(* The ledger of KV migrations (hub/src/kv-migration-store.ts).  A         *)
(* migration binds the V1 rows it copies, collects an acknowledgement per  *)
(* copied row, is committed, and is finally allowed to delete V1 once full *)
(* scans saw no V1 row after a safety window.  A head names the migration  *)
(* whose epoch is served.                                                  *)
(*                                                                         *)
(* Every method is one storage transaction.  Callers may repeat, delay and *)
(* reorder their calls, and the times they pass are theirs.  Rows map a V1 *)
(* key to the digest of its content; the V2 key belongs to the V1 key.     *)
(***************************************************************************)
EXTENDS Naturals, Sequences, FiniteSetsExt

CONSTANTS Migration,    \* migration ids
          Epoch,        \* fencing epochs
          Key, Digest,
          RowSet,       \* rows a caller may bind
          ScanId,
          Found,        \* rows a full scan may find
          Required,     \* zero scans a caller may ask for
          MaxStamp,     \* bound: times a caller may pass
          Unset

ASSUME LedgerConstants ==
    /\ Epoch \subseteq Nat \ {0} /\ Required \subseteq Nat \ {0}
    /\ MaxStamp \in Nat
    /\ RowSet \cup Found \subseteq UNION {[keys -> Digest] : keys \in SUBSET Key}

VARIABLES head,       \* [migration, epoch] or Unset
          lineage     \* per migration its record or Unset

ledgerVars == <<head, lineage>>

Time == 0..MaxStamp

LedgerInit == head = Unset /\ lineage = [m \in Migration |-> Unset]

-----------------------------------------------------------------------------
(* Records *)

IsZero(scan) == DOMAIN scan.rows = {}

\* The scans at the end of the record that found nothing, none before t.
trailingZeroScansSince(rec, t) ==
    LET n == Len(rec.scans)
    IN  Max({k \in 0..n : \A i \in n - k + 1..n : IsZero(rec.scans[i]) /\ rec.scans[i].at >= t})

\* What a record must satisfy to be read back at all.
validStoredMigration(rec) ==
    /\ \A k \in rec.acks : k \in DOMAIN rec.rows
    /\ \A i, j \in 1..Len(rec.scans) :
         i < j => /\ rec.scans[i].id # rec.scans[j].id
                  /\ rec.scans[i].at < rec.scans[j].at
    /\ rec.zero = trailingZeroScansSince(rec, 0)
    /\ rec.status # "prepared" => Cardinality(rec.acks) = Cardinality(DOMAIN rec.rows)

Prepared(e, rows) ==
    [epoch |-> e, rows |-> rows, status |-> "prepared", acks |-> {}, scans |-> <<>>,
     zero |-> 0, window |-> Unset]

Readable(m) == lineage[m] # Unset /\ validStoredMigration(lineage[m])

activeEpochFor(m) == head # Unset => head = [migration |-> m, epoch |-> lineage[m].epoch]

\* The checks every method but prepare makes before it looks at the record.
Served(m, e) ==
    /\ Readable(m)
    /\ lineage[m].epoch = e
    /\ head # Unset
    /\ activeEpochFor(m)

PutRecord(m, rec) == lineage' = [lineage EXCEPT ![m] = rec] /\ UNCHANGED head

-----------------------------------------------------------------------------
(* Transactions; a call that is refused changes nothing *)

\* A new migration needs a later epoch than the head's, and the head's
\* migration must not be open.
Supersedes(e) ==
    head # Unset => /\ e > head.epoch
                   /\ Readable(head.migration)
                   /\ lineage[head.migration].status # "prepared"

prepare(m, e, rows) ==
    /\ lineage[m] = Unset
    /\ Supersedes(e)
    /\ lineage' = [lineage EXCEPT ![m] = Prepared(e, rows)]
    /\ head' = [migration |-> m, epoch |-> e]

acknowledgeApplied(m, e, k, observed) ==
    LET rec == lineage[m]
    IN  /\ Served(m, e)
        /\ rec.status = "prepared"
        /\ k \in DOMAIN rec.rows \ rec.acks
        /\ rec.rows[k] = observed
        /\ PutRecord(m, [rec EXCEPT !.acks = @ \cup {k}])

\* Faulty variant: scans are recorded in the order in which they arrive.
observeFullScan_anyTime(m, e, id, at, rows) ==
    LET rec == lineage[m]
        zero == IF DOMAIN rows = {} THEN rec.zero + 1 ELSE 0
    IN  /\ Served(m, e)
        /\ \A i \in 1..Len(rec.scans) : rec.scans[i].id # id
        /\ PutRecord(m, [rec EXCEPT !.scans = Append(@, [id |-> id, at |-> at, rows |-> rows]),
                              !.zero = zero])

\* A scan is recorded whatever it found, also when it found rows the
\* migration does not know, and whatever the status of the migration.
observeFullScan(m, e, id, at, rows) ==
    LET rec == lineage[m]
        n == Len(rec.scans)
        zero == IF DOMAIN rows = {} THEN rec.zero + 1 ELSE 0
    IN  /\ Served(m, e)
        /\ \A i \in 1..n : rec.scans[i].id # id
        /\ n > 0 => at > rec.scans[n].at
        /\ PutRecord(m, [rec EXCEPT !.scans = Append(@, [id |-> id, at |-> at, rows |-> rows]),
                              !.zero = zero])

\* Faulty variant: one acknowledgement is enough.
commit_partial(m, e) ==
    LET rec == lineage[m]
    IN  /\ Served(m, e)
        /\ rec.status = "prepared"
        /\ rec.acks # {}
        /\ PutRecord(m, [rec EXCEPT !.status = "committed"])

commit(m, e) ==
    LET rec == lineage[m]
    IN  /\ Served(m, e)
        /\ rec.status = "prepared"
        /\ DOMAIN rec.rows \subseteq rec.acks
        /\ PutRecord(m, [rec EXCEPT !.status = "committed"])

\* Faulty variant: the scans before the window count.
authorizeTombstone_anyScan(m, e, window, required, now) ==
    LET rec == lineage[m]
        fixed == [rec EXCEPT !.window = window]
        earned == now >= window /\ rec.zero >= required
    IN  /\ Served(m, e)
        /\ rec.status = "committed"
        /\ rec.window \in {Unset, window}
        /\ PutRecord(m, IF earned THEN [fixed EXCEPT !.status = "tombstone_authorized"] ELSE fixed)

\* The first call fixes the safety window, also when it is then refused.
authorizeTombstone(m, e, window, required, now) ==
    LET rec == lineage[m]
        fixed == [rec EXCEPT !.window = window]
        earned == now >= window /\ trailingZeroScansSince(rec, window) >= required
    IN  /\ Served(m, e)
        /\ rec.status = "committed"
        /\ rec.window \in {Unset, window}
        /\ PutRecord(m, IF earned THEN [fixed EXCEPT !.status = "tombstone_authorized"] ELSE fixed)

readDecision(m, source, k, observed) ==
    LET rec == lineage[m]
    IN  CASE lineage[m] = Unset -> "not_found"
          [] ~Readable(m) \/ head = Unset -> "invalid_state"
          [] ~activeEpochFor(m) -> "old_epoch_rejected"
          [] k \notin DOMAIN rec.rows -> "not_bound"
          [] observed \notin {Unset, rec.rows[k]} -> "stale_read_rejected"
          [] source = "v1" /\ rec.status = "tombstone_authorized" -> "tombstone_required"
          [] source = "v1" -> "v1_allowed"
          [] rec.status = "prepared" -> "pending"
          [] OTHER -> "v2_allowed"

-----------------------------------------------------------------------------

LedgerNext ==
    \E m \in Migration, e \in Epoch :
      \/ \E rows \in RowSet : prepare(m, e, rows)
      \/ \E k \in Key, d \in Digest : acknowledgeApplied(m, e, k, d)
      \/ \E id \in ScanId, at \in Time, rows \in Found : observeFullScan(m, e, id, at, rows)
      \/ commit(m, e)
      \/ \E window, now \in Time, required \in Required :
           authorizeTombstone(m, e, window, required, now)

-----------------------------------------------------------------------------
(* Properties *)

\* No sequence of accepted calls writes a record that the next call rejects
\* as invalid_state, which would close the migration for good; the head names
\* the latest epoch, and only its migration can be open.
NeverLocksItselfOut ==
    \A m \in Migration : lineage[m] # Unset =>
      /\ validStoredMigration(lineage[m])
      /\ head # Unset /\ lineage[m].epoch <= head.epoch
      /\ lineage[m].status = "prepared" \/ lineage[m].epoch = head.epoch => head.migration = m

\* V1 may be deleted only after a full scan at or after the safety window
\* found nothing, and after every bound row was acknowledged with its digest,
\* whatever the order in which windows, scans and commits were reported.
TombstoneIsEarned ==
    \A m \in Migration : lineage[m] # Unset /\ lineage[m].status = "tombstone_authorized" =>
      LET rec == lineage[m]
      IN  /\ rec.acks = DOMAIN rec.rows
          /\ \E i \in 1..Len(rec.scans) : IsZero(rec.scans[i]) /\ rec.scans[i].at >= rec.window

\* Of the migration in force every bound row can be read from V1 or from V2,
\* and from V2 only when its copy was acknowledged.
NoReadGap ==
    head # Unset =>
      \A k \in DOMAIN lineage[head.migration].rows :
        /\ \/ readDecision(head.migration, "v1", k, Unset) = "v1_allowed"
           \/ readDecision(head.migration, "v2", k, Unset) = "v2_allowed"
        /\ readDecision(head.migration, "v2", k, Unset) = "v2_allowed"
             => k \in lineage[head.migration].acks

\* The ledger is safe whatever is reported in whatever order: no accepted call
\* closes a migration, no row becomes unreadable and none is deleted early.
LedgerIsSafe == NeverLocksItselfOut /\ TombstoneIsEarned /\ NoReadGap
=============================================================================
