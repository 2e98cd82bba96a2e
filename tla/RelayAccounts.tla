--------------------------- MODULE RelayAccounts ---------------------------
(***************************************************************************)
(* Accounts, devices, pairings and keyrings of the relay: the handlers of  *)
(* sync/internal/server/server.go other than /v1/sync, over the tables of  *)
(* its migration.                                                          *)
(*                                                                         *)
(* An authenticated request runs in two parts: requireAuth looks the token *)
(* up and keeps the identity in the request, and the handler runs its      *)
(* statements later.  Other requests are served in between.  A statement   *)
(* and a SQLite transaction are atomic.  The answer to any request can be  *)
(* lost on its way.                                                        *)
(*                                                                         *)
(* A device row and its bearer token are drawn together and never reused,  *)
(* so the device names its token.  A client registers with its own public  *)
(* keys, so the client names its keys.  A sealed keyring of a pairing is   *)
(* named by the keys it is sealed for.                                     *)
(***************************************************************************)
EXTENDS Naturals, FiniteSets

CONSTANTS
    Account, Device, Pairing,  \* identifiers the relay can still draw
    Client,                    \* programs that register, by their public keys
    Request,                   \* authenticated requests in service at a time
    Epoch,                     \* key epochs that clients publish
    Box,                       \* sealed recovery keyrings
    pairingLifetime,           \* ticks before a pairing expires
    MaxTime,                   \* bound on the clock
    None                       \* no row, no request, a NULL column

ASSUME TimeAssumption == pairingLifetime \in Nat \ {0} /\ MaxTime \in Nat

\* Rows of the tables devices and pairings, and a request in service.
DeviceRow ==
    [account : Account, key : Client, via : Pairing \cup {None}, revoked : BOOLEAN]
PairingRow ==
    [account : Account, creator : Device, state : {"created", "joined", "approved", "claimed"},
     pending : Client \cup {None}, new_device : Device \cup {None},
     keyring : Client \cup {None}, expires : Nat]
Served ==
    [device : Device, step : {"handler"}] \cup
    [device : Device, step : {"compare"}, epoch : Epoch, box : Box]

ASSUME NoneAssumption ==
    /\ None \notin Client \cup Device \cup Box \cup Pairing
    /\ None \notin DeviceRow \cup PairingRow \cup Served

VARIABLES
    devices,   \* devices[d]: account, key, pairing that added it, revocation; or None
    pairings,  \* pairings[p]: account, creator, state, pending key, new device, client
               \* that the keyring is sealed for, expiry; or None
    keyrings,  \* keyrings[a][e]: the sealed keyring of an epoch
    now,       \* the relay's clock
    requests,  \* requests[r]: an authenticated request, not yet answered
    tokens,    \* tokens[c]: devices whose token reached client c
    shown,     \* shown[d][p]: pending keys that GET pairing last showed device d
    learned,   \* <<a, e, b>> that a client was told to be a published keyring
    overlapped \* accounts in which a device was revoked with its request in service

vars == <<devices, pairings, keyrings, now, requests, tokens, shown, learned, overlapped>>

Init ==
    /\ devices = [d \in Device |-> None]
    /\ pairings = [p \in Pairing |-> None]
    /\ keyrings = [a \in Account |-> [e \in Epoch |-> None]]
    /\ now = 0
    /\ requests = [r \in Request |-> None]
    /\ tokens = [c \in Client |-> {}]
    /\ shown = [d \in Device |-> [p \in Pairing |-> None]]
    /\ learned = {}
    /\ overlapped = {}

-----------------------------------------------------------------------------
Rows == {d \in Device : devices[d] # None}
Accounts == {devices[d].account : d \in Rows}
Active(a) == {d \in Rows : devices[d].account = a /\ ~devices[d].revoked}

\* Identifiers named by a pairing are drawn too.
Drawn == Rows \cup {pairings[p].new_device : p \in {q \in Pairing : pairings[q] # None}}

\* A randomly drawn device identifier never repeats.
Fresh == Device \ Drawn

Register(d, a, c, p) ==
    devices' = [devices EXCEPT ![d] = [account |-> a, key |-> c, via |-> p, revoked |-> FALSE]]

\* The client learns the token unless the answer is lost.
Answer(c, d) == tokens' \in {tokens, [tokens EXCEPT ![c] = @ \cup {d}]}

\* POST /v1/accounts: the account and its first device in one transaction.
createAccount(a, c, d) ==
    /\ a \notin Accounts /\ d \in Fresh
    /\ Register(d, a, c, None)
    /\ Answer(c, d)
    /\ UNCHANGED <<pairings, keyrings, now, requests, shown, learned, overlapped>>

\* POST /v1/accounts/{id}/recover by a client that holds the recovery key.
recoverAccount(a, c, d) ==
    /\ a \in Accounts /\ d \in Fresh
    /\ Register(d, a, c, None)
    /\ Answer(c, d)
    /\ UNCHANGED <<pairings, keyrings, now, requests, shown, learned, overlapped>>

-----------------------------------------------------------------------------
(* Authentication, and what every handler behind it does at the end. *)

requireAuth_AnyToken(c, d, r) ==
    /\ requests[r] = None /\ d \in tokens[c]
    /\ requests' = [requests EXCEPT ![r] = [device |-> d, step |-> "handler"]]
    /\ UNCHANGED <<devices, pairings, keyrings, now, tokens, shown, learned, overlapped>>

\* requireAuth: the row of the presented token, if it is not revoked.
requireAuth(c, d, r) ==
    /\ requests[r] = None /\ d \in tokens[c]
    /\ ~devices[d].revoked
    /\ requests' = [requests EXCEPT ![r] = [device |-> d, step |-> "handler"]]
    /\ UNCHANGED <<devices, pairings, keyrings, now, tokens, shown, learned, overlapped>>

InHandler(r) == requests[r] # None /\ requests[r].step = "handler"
Identity(r) == requests[r].device
AccountOf(r) == devices[Identity(r)].account
InService(d) == \E r \in Request : requests[r] # None /\ Identity(r) = d
Done(r) == requests' = [requests EXCEPT ![r] = None]

\* A handler that refuses its request, or only reads (GET /v1/devices).
Finish(r) ==
    /\ requests[r] # None
    /\ Done(r)
    /\ UNCHANGED <<devices, pairings, keyrings, now, tokens, shown, learned, overlapped>>

-----------------------------------------------------------------------------
(* Pairing. *)

Live(p) == pairings[p] # None /\ pairings[p].expires > now

createPairing(r, p) ==
    /\ InHandler(r) /\ pairings[p] = None
    /\ pairings' = [pairings EXCEPT ![p] =
           [account |-> AccountOf(r), creator |-> Identity(r),
            state |-> "created", pending |-> None, new_device |-> None,
            keyring |-> None, expires |-> now + pairingLifetime]]
    /\ Done(r)
    /\ UNCHANGED <<devices, keyrings, now, tokens, shown, learned, overlapped>>

joinPairing_AnyState(p, c) ==
    /\ Live(p) /\ pairings[p].state \in {"created", "joined"}
    /\ pairings' = [pairings EXCEPT ![p].state = "joined", ![p].pending = c]
    /\ UNCHANGED <<devices, keyrings, now, requests, tokens, shown, learned, overlapped>>

\* PUT /v1/pairings/{id} by a client that scanned the pairing secret.
joinPairing(p, c) ==
    /\ Live(p) /\ pairings[p].state = "created"
    /\ pairings' = [pairings EXCEPT ![p].state = "joined", ![p].pending = c]
    /\ UNCHANGED <<devices, keyrings, now, requests, tokens, shown, learned, overlapped>>

Creator(r, p) ==
    /\ pairings[p] # None
    /\ pairings[p].account = AccountOf(r) /\ pairings[p].creator = Identity(r)

\* GET /v1/pairings/{id}, answered to the creating device.
getPairing(r, p) ==
    /\ InHandler(r) /\ Creator(r, p)
    /\ shown' = [shown EXCEPT ![Identity(r)][p] = pairings[p].pending]
    /\ Done(r)
    /\ UNCHANGED <<devices, pairings, keyrings, now, tokens, learned, overlapped>>

approvePairing_Again(r, p, d) ==
    /\ InHandler(r) /\ Creator(r, p) /\ Live(p)
    /\ pairings[p].state \in {"joined", "approved", "claimed"}
    /\ shown[Identity(r)][p] # None /\ d \in Fresh
    /\ pairings' = [pairings EXCEPT ![p].state = "approved", ![p].new_device = d,
                                    ![p].keyring = shown[Identity(r)][p]]
    /\ Done(r)
    /\ UNCHANGED <<devices, keyrings, now, tokens, shown, learned, overlapped>>

\* POST /v1/pairings/{id}/approve with a keyring that the creator sealed for
\* the keys it was shown.
approvePairing(r, p, d) ==
    /\ InHandler(r) /\ Creator(r, p) /\ Live(p)
    /\ pairings[p].state = "joined"
    /\ shown[Identity(r)][p] # None /\ d \in Fresh
    /\ pairings' = [pairings EXCEPT ![p].state = "approved", ![p].new_device = d,
                                    ![p].keyring = shown[Identity(r)][p]]
    /\ Done(r)
    /\ UNCHANGED <<devices, keyrings, now, tokens, shown, learned, overlapped>>

\* POST /v1/pairings/{id}/claim by any client that knows the pairing secret:
\* the device row and the end of the pairing in one transaction, whose
\* concurrent runs SQLite refuses.
claimPairing(p, c) ==
    /\ Live(p) /\ pairings[p].state = "approved"
    /\ Register(pairings[p].new_device, pairings[p].account, pairings[p].pending, p)
    /\ pairings' = [pairings EXCEPT ![p].state = "claimed"]
    /\ Answer(c, pairings[p].new_device)
    /\ UNCHANGED <<keyrings, now, requests, shown, learned, overlapped>>

-----------------------------------------------------------------------------
(* Revocation and keyrings. *)

\* DELETE /v1/devices/{id}: any other device of the account.
revokeDevice(r, d) ==
    /\ InHandler(r) /\ d # Identity(r) /\ d \in Active(AccountOf(r))
    /\ devices' = [devices EXCEPT ![d].revoked = TRUE]
    /\ overlapped' = IF InService(d) THEN overlapped \cup {AccountOf(r)} ELSE overlapped
    /\ Done(r)
    /\ UNCHANGED <<pairings, keyrings, now, tokens, shown, learned>>

\* PUT /v1/keyring, first statement: INSERT OR IGNORE.  An inserted keyring is
\* answered at once, an ignored one is compared with the stored one.
putKeyring(r, e, b) ==
    /\ InHandler(r)
    /\ IF keyrings[AccountOf(r)][e] = None
       THEN /\ keyrings' = [keyrings EXCEPT ![AccountOf(r)][e] = b]
            /\ learned' = learned \cup {<<AccountOf(r), e, b>>}
            /\ Done(r)
       ELSE /\ requests' = [requests EXCEPT ![r] =
                   [device |-> Identity(r), step |-> "compare", epoch |-> e, box |-> b]]
            /\ UNCHANGED <<keyrings, learned>>
    /\ UNCHANGED <<devices, pairings, now, tokens, shown, overlapped>>

Comparing(r) == requests[r] # None /\ requests[r].step = "compare"

CompareKeyring_AnyBox(r) ==
    /\ Comparing(r)
    /\ learned' = learned \cup {<<AccountOf(r), requests[r].epoch, requests[r].box>>}
    /\ Done(r)
    /\ UNCHANGED <<devices, pairings, keyrings, now, tokens, shown, overlapped>>

\* PUT /v1/keyring, second statement: an equal keyring is a success, another
\* one is keyring_epoch_conflict (Finish).
CompareKeyring(r) ==
    /\ Comparing(r)
    /\ keyrings[AccountOf(r)][requests[r].epoch] = requests[r].box
    /\ learned' = learned \cup {<<AccountOf(r), requests[r].epoch, requests[r].box>>}
    /\ Done(r)
    /\ UNCHANGED <<devices, pairings, keyrings, now, tokens, shown, overlapped>>

\* GET /v1/keyring: every epoch of the account.
getKeyring(r) ==
    /\ InHandler(r)
    /\ learned' = learned \cup
           {<<AccountOf(r), e, keyrings[AccountOf(r)][e]>> :
               e \in {f \in Epoch : keyrings[AccountOf(r)][f] # None}}
    /\ Done(r)
    /\ UNCHANGED <<devices, pairings, keyrings, now, tokens, shown, overlapped>>

Tick ==
    /\ now < MaxTime
    /\ now' = now + 1
    /\ UNCHANGED <<devices, pairings, keyrings, requests, tokens, shown, learned, overlapped>>

-----------------------------------------------------------------------------
Handler(r) ==
    \/ Finish(r)
    \/ \E p \in Pairing :
           \/ createPairing(r, p)
           \/ getPairing(r, p)
           \/ \E d \in Device : approvePairing(r, p, d)
    \/ \E d \in Device : revokeDevice(r, d)
    \/ \E e \in Epoch, b \in Box : putKeyring(r, e, b)
    \/ CompareKeyring(r)
    \/ getKeyring(r)

Next ==
    \/ \E a \in Account, c \in Client, d \in Device :
           createAccount(a, c, d) \/ recoverAccount(a, c, d)
    \/ \E c \in Client, d \in Device, r \in Request : requireAuth(c, d, r)
    \/ \E p \in Pairing, c \in Client : joinPairing(p, c) \/ claimPairing(p, c)
    \/ \E r \in Request : Handler(r)
    \/ Tick

Spec == Init /\ [][Next]_vars

-----------------------------------------------------------------------------
\* The keyring attached to a pairing is sealed for the keys that will be
\* registered: nobody can join again between the creator's look at the pending
\* keys and the approval.
SealedForClaimant ==
    \A p \in Pairing :
        pairings[p] # None /\ pairings[p].state \in {"approved", "claimed"} =>
            pairings[p].keyring = pairings[p].pending

\* A pairing adds at most one device, the approved one, to the account of the
\* device that created it and with the joined keys, however often join,
\* approve and claim are repeated, and its token reaches one client at most.
PairingAddsOneDevice ==
    \A d \in Rows :
        LET p == devices[d].via
        IN  /\ p # None =>
                /\ pairings[p].state = "claimed" /\ pairings[p].new_device = d
                /\ devices[d].account = devices[pairings[p].creator].account
                /\ devices[d].key = pairings[p].pending
            /\ \A b, c \in Client : d \in tokens[b] \cap tokens[c] => b = c

\* Clients that published or read the keyring of an epoch agree on it, and it
\* is the one stored: concurrent publications of one epoch have one winner and
\* a repeated publication is answered like the first.
KeyringAgreement ==
    \A a \in Account, e \in Epoch, b \in Box : <<a, e, b>> \in learned => keyrings[a][e] = b

\* An account loses its last active device only if some device of it was
\* revoked while a request of that device was in service: a device cannot
\* revoke itself, and a revoked one is not authenticated again.
LockoutOnlyByOverlap ==
    \A a \in Accounts : Active(a) = {} => a \in overlapped
=============================================================================
