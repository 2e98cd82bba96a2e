------------------------------ MODULE RelayLog ------------------------------
(***************************************************************************)
(* The envelopes table of the relay (sync/internal/server/server.go and    *)
(* its migration) as a sequence of records, and the queries of             *)
(* syncEnvelopes on it, as pure operators.                                 *)
(*                                                                         *)
(* The cursor column is AUTOINCREMENT over all accounts and no row is ever *)
(* deleted, so a cursor is a position in the log.  A record has at least   *)
(* the fields acct, dev, seq, prev and hash.  Ciphertext, nonce and        *)
(* signature are opaque to the relay; the hash identifies the envelope.    *)
(***************************************************************************)
EXTENDS Naturals, Sequences, FiniteSets

CONSTANTS NoHash   \* an absent previous hash

\* Positions of a device's records, and of an account's.
DeviceRecords(log, acct, dev) ==
    {i \in DOMAIN log : log[i].acct = acct /\ log[i].dev = dev}

AccountRecords(log, acct) == {i \in DOMAIN log : log[i].acct = acct}

\* The record of a device with the highest sequence number.
LastRecord(log, acct, dev) ==
    LET mine == DeviceRecords(log, acct, dev)
    IN  CHOOSE i \in mine : \A j \in mine : log[j].seq <= log[i].seq

lastSequence(log, acct, dev) ==
    IF DeviceRecords(log, acct, dev) = {} THEN 0
    ELSE log[LastRecord(log, acct, dev)].seq

lastHash(log, acct, dev) ==
    IF DeviceRecords(log, acct, dev) = {} THEN NoHash
    ELSE log[LastRecord(log, acct, dev)].hash

Verdict_NoReplay(log, e) ==
    LET last == lastSequence(log, e.acct, e.dev)
    IN  IF e.seq <= last THEN "sequence_conflict"
        ELSE IF e.seq # last + 1 THEN "sequence_gap"
        ELSE IF e.prev # lastHash(log, e.acct, e.dev) THEN "previous_hash_mismatch"
        ELSE "append"

\* What the relay does with one uploaded envelope.  The row with the same
\* sequence number is unique by the table's UNIQUE constraint.
Verdict(log, e) ==
    LET mine == DeviceRecords(log, e.acct, e.dev)
        last == lastSequence(log, e.acct, e.dev)
    IN  IF \E i \in mine : log[i].seq = e.seq
        THEN IF \E i \in mine : log[i].seq = e.seq /\ log[i].hash = e.hash
             THEN "duplicate" ELSE "sequence_conflict"
        ELSE IF e.seq # last + 1
             THEN IF e.seq <= last THEN "sequence_conflict" ELSE "sequence_gap"
        ELSE IF e.prev # lastHash(log, e.acct, e.dev) THEN "previous_hash_mismatch"
        ELSE "append"

Accepted(verdict) == verdict \in {"append", "duplicate"}

\* The log after one uploaded envelope.
Upload(log, e) == IF Verdict(log, e) = "append" THEN Append(log, e) ELSE log

accountMaxCursor(log, acct) ==
    IF AccountRecords(log, acct) = {} THEN 0
    ELSE CHOOSE i \in AccountRecords(log, acct) :
            \A j \in AccountRecords(log, acct) : j <= i

-----------------------------------------------------------------------------
(* The download page after a cursor. *)

\* Positions of the account's records after the cursor.
Waiting(log, acct, cursor) == {i \in AccountRecords(log, acct) : i > cursor}

\* Where a page may end: with any waiting record among the first limit ones.
\* The byte cap of a page cuts it anywhere, as record sizes vary, but never
\* before the first record.
PageEnds(log, acct, cursor, limit) ==
    LET waiting == Waiting(log, acct, cursor)
    IN  IF waiting = {} THEN {cursor}
        ELSE {i \in waiting : Cardinality({j \in waiting : j <= i}) <= limit}

\* The records of the page that ends there.
PageRecords(log, acct, cursor, end) == {i \in Waiting(log, acct, cursor) : i <= end}

nextCursor_AccountMax(log, acct, end) == accountMaxCursor(log, acct)

\* The cursor handed out with the page: its last record's.
nextCursor(log, acct, end) == end
=============================================================================
