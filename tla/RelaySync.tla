----------------------------- MODULE RelaySync -----------------------------
(***************************************************************************)
(* POST /v1/sync in full: batches of several envelopes, in any order and   *)
(* with repetitions, cursors that the client chooses, and pages cut by a   *)
(* record limit and by bytes (sync/internal/server/server.go).             *)
(*                                                                         *)
(* SyncSystem uses the relay as the desktop worker does, one envelope at a *)
(* time, and lets a page end anywhere; this module is the handler itself.  *)
(* One transaction is one step.  An answer may be lost, so a client may    *)
(* send any batch again.                                                   *)
(***************************************************************************)
EXTENDS RelayLog

CONSTANTS
    Device, AccountOf,   \* devices, and the account that authentication gives them
    MaxSeq, Variant,     \* bound: a device signs Variant chains of MaxSeq[d] envelopes
    Size,                \* Size[v][s]: bytes of the ciphertext of a chain's envelope s
    maxDownloadBytes,    \* bytes in one page
    Limit,               \* record limits that clients ask for
    MaxBatch             \* bound on the envelopes of a batch

ASSUME ChainAssumption == MaxSeq \in [Device -> Nat] /\ MaxBatch \in Nat
ASSUME SizeAssumption ==
    /\ maxDownloadBytes \in Nat \ {0}
    /\ \A v \in Variant, d \in Device :
         \A s \in 1 .. MaxSeq[d] : Size[v][s] \in 1 .. maxDownloadBytes
    /\ Limit \subseteq Nat \ {0}
ASSUME AccountAssumption == DOMAIN AccountOf = Device

VARIABLES
    log,     \* the envelopes table
    ack,     \* devices.ack_cursor
    have,    \* have[d]: cursors of the records that d downloaded, in order
    page,    \* page[d]: next_cursor and has_more of the answer d follows
    stored   \* stored[d]: envelopes that were answered to d as accepted

vars == <<log, ack, have, page, stored>>

HashOf(d, s, v) == [dev |-> d, seq |-> s, chain |-> v]

\* A signed envelope that passes validateEnvelope for device d.
Signed(d, s, v) ==
    [acct |-> AccountOf[d], dev |-> d, seq |-> s, hash |-> HashOf(d, s, v),
     prev |-> IF s = 1 THEN NoHash ELSE HashOf(d, s - 1, v)]

Envelopes(d) == {Signed(d, s, v) : s \in 1 .. MaxSeq[d], v \in Variant}
Batches(d) == UNION {[1 .. n -> Envelopes(d)] : n \in 0 .. MaxBatch}

Init ==
    /\ log = << >>
    /\ ack = [d \in Device |-> 0]
    /\ have = [d \in Device |-> << >>]
    /\ page = [d \in Device |-> [cursor |-> 0, more |-> FALSE]]
    /\ stored = [d \in Device |-> {}]

-----------------------------------------------------------------------------
(* The batch. *)

SequencesOf(batch) == {batch[i].seq : i \in DOMAIN batch}

\* Two different envelopes under one sequence number.
Conflict(batch, s) ==
    \E i, j \in DOMAIN batch :
        batch[i].seq = s /\ batch[j].seq = s /\ batch[i].hash # batch[j].hash

unique_Unsorted(batch) == SelectSeq(batch, LAMBDA e : ~Conflict(batch, e.seq))

\* One envelope for each sequence number without a conflict, in their order.
unique(batch) ==
    LET top   == CHOOSE s \in SequencesOf(batch) \cup {0} : \A t \in SequencesOf(batch) : t <= s
        order == SelectSeq([s \in 1 .. top |-> s],
                           LAMBDA s : s \in SequencesOf(batch) /\ ~Conflict(batch, s))
    IN  [k \in DOMAIN order |->
            batch[CHOOSE i \in DOMAIN batch : batch[i].seq = order[k]]]

\* One more envelope, judged against the log that the ones before it left.
Judge(done, e) ==
    [log |-> Upload(done.log, e),
     accepted |-> IF Accepted(Verdict(done.log, e))
                  THEN done.accepted \cup {e} ELSE done.accepted]

\* The log after the envelopes of a batch, and the accepted ones.
AcceptEnvelopes(l, batch) ==
    LET todo == unique(batch)
        after[n \in 0 .. Len(todo)] ==
            IF n = 0 THEN [log |-> l, accepted |-> {}] ELSE Judge(after[n - 1], todo[n])
    IN  after[Len(todo)]

-----------------------------------------------------------------------------
(* The page. *)

Rows(l, P(_)) == SelectSeq([i \in DOMAIN l |-> i], P)
InOrder(l, acct, cursor) == Rows(l, LAMBDA i : i \in Waiting(l, acct, cursor))

Bytes(l, rows) ==
    LET sum[n \in 0 .. Len(rows)] ==
            IF n = 0 THEN 0 ELSE sum[n - 1] + Size[l[rows[n]].hash.chain][l[rows[n]].seq]
    IN  sum[Len(rows)]

outgoing_SkipLarge(l, acct, cursor, limit) ==
    LET rows == InOrder(l, acct, cursor)
        small == SelectSeq(rows, LAMBDA i : Size[l[i].hash.chain][l[i].seq] < maxDownloadBytes)
    IN  IF small = << >> THEN SubSeq(rows, 1, IF rows = << >> THEN 0 ELSE 1)
        ELSE SubSeq(small, 1, 1)

\* The longest run of waiting records within the limit and the byte cap; the
\* first record is always in it.
outgoing(l, acct, cursor, limit) ==
    LET rows == InOrder(l, acct, cursor)
        fits(n) == n <= limit /\ (n <= 1 \/ Bytes(l, SubSeq(rows, 1, n)) <= maxDownloadBytes)
    IN  SubSeq(rows, 1, CHOOSE n \in 0 .. Len(rows) :
                            fits(n) /\ \A k \in 0 .. Len(rows) : fits(k) => k <= n)

nextCursorOf(out, cursor) == IF out = << >> THEN cursor ELSE out[Len(out)]

\* The query reads one row more than the limit to see whether more follow.
hasMoreOf(l, acct, cursor, limit) ==
    LET rows == InOrder(l, acct, cursor)
    IN  Len(outgoing(l, acct, cursor, limit)) < IF Len(rows) < limit + 1 THEN Len(rows) ELSE limit + 1

-----------------------------------------------------------------------------
ValidCursors(l, acct, cursor, ackCursor) ==
    cursor <= accountMaxCursor(l, acct) /\ ackCursor <= accountMaxCursor(l, acct)

\* Raise the acknowledgement, read the page, commit and answer.  A client keeps
\* the page if it asked from where it stands.
Commit(d, done, cursor, ackCursor, limit) ==
    LET out == outgoing(done.log, AccountOf[d], cursor, limit)
    IN  /\ log' = done.log
        /\ ack' = [ack EXCEPT ![d] = IF @ < ackCursor THEN ackCursor ELSE @]
        /\ stored' = [stored EXCEPT ![d] = @ \cup done.accepted]
        /\ IF cursor = page[d].cursor
           THEN /\ page' = [page EXCEPT ![d] =
                       [cursor |-> nextCursorOf(out, cursor),
                        more |-> hasMoreOf(done.log, AccountOf[d], cursor, limit)]]
                /\ have' = [have EXCEPT ![d] = @ \o out]
           ELSE UNCHANGED <<page, have>>

syncEnvelopes_NoRollback(d, batch, cursor, ackCursor, limit) ==
    LET done == AcceptEnvelopes(log, batch)
    IN  IF ValidCursors(done.log, AccountOf[d], cursor, ackCursor)
        THEN Commit(d, done, cursor, ackCursor, limit)
        ELSE log' = done.log /\ UNCHANGED <<ack, have, page, stored>>

\* The handler: judge the envelopes, then check both cursors against the log
\* as it is with them.  A cursor past the account's records rolls all of it
\* back with invalid_cursor.
syncEnvelopes(d, batch, cursor, ackCursor, limit) ==
    LET done == AcceptEnvelopes(log, batch)
    IN  IF ValidCursors(done.log, AccountOf[d], cursor, ackCursor)
        THEN Commit(d, done, cursor, ackCursor, limit)
        ELSE UNCHANGED vars

Next ==
    \E d \in Device : \E batch \in Batches(d), limit \in Limit :
        \E cursor, ackCursor \in {0, page[d].cursor, Len(log) + MaxBatch} :
            syncEnvelopes(d, batch, cursor, ackCursor, limit)

Spec == Init /\ [][Next]_vars

-----------------------------------------------------------------------------
\* A device can bring any number of envelopes up to date in one request: a
\* batch that holds the next envelopes of its chain is accepted in full, in
\* whatever order it lists them.
ExtensionAccepted ==
    \A d \in Device, v \in Variant : \A batch \in Batches(d) :
        LET last == lastSequence(log, AccountOf[d], d)
            sent == {batch[i] : i \in DOMAIN batch}
            next == {Signed(d, last + k, v) : k \in 1 .. Cardinality(sent)}
        IN  sent = next /\ lastHash(log, AccountOf[d], d) \in {NoHash, HashOf(d, last, v)}
                => AcceptEnvelopes(log, batch).accepted = sent

\* The table holds exactly the envelopes that were answered as accepted, as one
\* chain from sequence number 1 for each device: a batch refused for its cursors
\* leaves none behind, and a repeated, partly stored or contradictory batch is
\* answered by what is stored.
StoredIsAccepted ==
    \A d \in Device :
        LET rows == Rows(log, LAMBDA i : i \in DeviceRecords(log, AccountOf[d], d))
        IN  /\ stored[d] = {log[rows[k]] : k \in DOMAIN rows}
            /\ \A k \in DOMAIN rows :
                 /\ log[rows[k]].seq = k
                 /\ log[rows[k]].prev = IF k = 1 THEN NoHash ELSE log[rows[k - 1]].hash

\* A client that follows next_cursor has every record of its account up to it,
\* once and in order.  From any cursor and with any limit, the page cut by bytes
\* is one that SyncSystem's relay may return, and has_more is FALSE exactly when
\* no record follows it.
PagesComplete ==
    \A d \in Device :
        LET acct == AccountOf[d]
        IN  /\ have[d] = Rows(log, LAMBDA i : i \in AccountRecords(log, acct) /\ i <= page[d].cursor)
            /\ \A limit \in Limit, cursor \in 0 .. Len(log) :
                 LET end == nextCursorOf(outgoing(log, acct, cursor, limit), cursor)
                 IN  /\ end \in PageEnds(log, acct, cursor, limit)
                     /\ hasMoreOf(log, acct, cursor, limit) <=> Waiting(log, acct, end) # {}
=============================================================================
