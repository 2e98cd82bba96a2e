------------------------ MODULE RelayAccountsProofs ------------------------
(***************************************************************************)
(* Pairing, keyrings and revocation, proved for any number of accounts,    *)
(* devices, pairings, clients and concurrent requests.                     *)
(***************************************************************************)
EXTENDS RelayAccounts, TLAPS

\* Columns of a pairing that are set together with its state.
Progressed(row) ==
    /\ row.pending = None <=> row.state = "created"
    /\ row.new_device = None <=> row.state \in {"created", "joined"}
    /\ row.keyring = None <=> row.state \in {"created", "joined"}

TypeOK ==
    /\ devices \in [Device -> DeviceRow \cup {None}]
    /\ pairings \in [Pairing -> PairingRow \cup {None}]
    /\ keyrings \in [Account -> [Epoch -> Box \cup {None}]]
    /\ now \in Nat
    /\ requests \in [Request -> Served \cup {None}]
    /\ tokens \in [Client -> SUBSET Device]
    /\ shown \in [Device -> [Pairing -> Client \cup {None}]]
    /\ learned \subseteq Account \X Epoch \X Box
    /\ overlapped \subseteq Account

\* The columns of a pairing follow its state, and it belongs to the account of
\* the device that created it.
PairingsOwned ==
    \A p \in Pairing : pairings[p] # None =>
        /\ Progressed(pairings[p])
        /\ pairings[p].creator \in Rows
        /\ devices[pairings[p].creator].account = pairings[p].account

\* What GET pairing showed is what is pending now.
ShownIsPending ==
    \A d \in Device, p \in Pairing : shown[d][p] # None =>
        pairings[p] # None /\ shown[d][p] = pairings[p].pending

\* An approved device is named by one pairing, and has no row before the claim.
DevicesReserved ==
    \A p \in Pairing : pairings[p] # None /\ pairings[p].new_device # None =>
        /\ pairings[p].state = "approved" => pairings[p].new_device \notin Rows
        /\ \A q \in Pairing : pairings[q] # None /\ pairings[q].new_device = pairings[p].new_device
              => p = q

\* A device that a pairing added is the one that the claimed pairing names.
AddedByClaim ==
    \A d \in Rows : devices[d].via # None =>
        LET p == pairings[devices[d].via]
        IN  /\ p # None /\ p.state = "claimed" /\ p.new_device = d
            /\ devices[d].account = p.account /\ devices[d].key = p.pending

\* A token that reached a client names a row, and reached no other client.
TokensOfRows ==
    \A c \in Client : \A d \in tokens[c] :
        d \in Rows /\ \A b \in Client : d \in tokens[b] => b = c

\* A request in service was authenticated as a device with a row; if it has
\* been revoked since, that was noted as an overlap.
ServedKnown ==
    \A r \in Request : requests[r] # None =>
        /\ Identity(r) \in Rows
        /\ devices[Identity(r)].revoked => AccountOf(r) \in overlapped

PairingInv == PairingsOwned /\ ShownIsPending /\ DevicesReserved /\ AddedByClaim /\ TokensOfRows

RelayInv ==
    /\ TypeOK /\ PairingInv /\ ServedKnown
    /\ SealedForClaimant /\ KeyringAgreement /\ LockoutOnlyByOverlap

-----------------------------------------------------------------------------
(* Types of what a handler reads. *)

\* The columns of a device row.
LEMMA DeviceColumns ==
    ASSUME TypeOK, NEW d \in Rows
    PROVE  /\ d \in Device /\ devices[d] \in DeviceRow /\ devices[d] # None
           /\ devices[d].account \in Account /\ devices[d].key \in Client
           /\ devices[d].via \in Pairing \cup {None} /\ devices[d].revoked \in BOOLEAN
<1>1. d \in Device /\ devices[d] \in DeviceRow /\ devices[d] # None
  BY DEF TypeOK, Rows
<1> QED
  BY <1>1 DEF DeviceRow

\* The columns of a pairing.
LEMMA PairingColumns ==
    ASSUME TypeOK, NEW p \in Pairing, pairings[p] # None
    PROVE  /\ pairings[p] \in PairingRow
           /\ pairings[p].account \in Account /\ pairings[p].creator \in Device
           /\ pairings[p].state \in {"created", "joined", "approved", "claimed"}
           /\ pairings[p].pending \in Client \cup {None}
           /\ pairings[p].new_device \in Device \cup {None}
           /\ pairings[p].keyring \in Client \cup {None} /\ pairings[p].expires \in Nat
<1>1. pairings[p] \in PairingRow
  BY DEF TypeOK
<1> QED
  BY <1>1 DEF PairingRow

\* The identity that requireAuth put in the request.
LEMMA RequestColumns ==
    ASSUME TypeOK, ServedKnown, NEW r \in Request, requests[r] # None
    PROVE  /\ requests[r] \in Served
           /\ Identity(r) \in Rows /\ Identity(r) \in Device /\ AccountOf(r) \in Account
           /\ Comparing(r) => requests[r].epoch \in Epoch /\ requests[r].box \in Box
<1>1. requests[r] \in Served /\ Identity(r) \in Rows
  BY DEF TypeOK, ServedKnown
<1>2. Identity(r) \in Device /\ AccountOf(r) \in Account
  BY <1>1, DeviceColumns DEF AccountOf
<1>3. Comparing(r) => requests[r].epoch \in Epoch /\ requests[r].box \in Box
  BY <1>1 DEF Comparing, Served
<1> QED
  BY <1>1, <1>2, <1>3

-----------------------------------------------------------------------------
(* What a step that leaves the tables of a property alone preserves. *)

\* Pairings, devices, tokens and what was shown did not change.
LEMMA PairingFrame ==
    ASSUME PairingInv, SealedForClaimant, UNCHANGED <<devices, pairings, tokens, shown>>
    PROVE  PairingInv' /\ SealedForClaimant'
<1>1. PairingsOwned' /\ ShownIsPending'
  BY DEF PairingInv, PairingsOwned, ShownIsPending, Rows, Progressed
<1>2. DevicesReserved' /\ AddedByClaim' /\ TokensOfRows'
  BY DEF PairingInv, DevicesReserved, AddedByClaim, TokensOfRows, Rows
<1> QED
  BY <1>1, <1>2 DEF PairingInv, SealedForClaimant

\* No account gained or lost a device.
LEMMA LockoutFrame ==
    ASSUME LockoutOnlyByOverlap, UNCHANGED <<devices, overlapped>>
    PROVE  LockoutOnlyByOverlap'
  BY DEF LockoutOnlyByOverlap, Accounts, Active, Rows

\* No keyring was stored or read.
LEMMA KeyringFrame ==
    ASSUME KeyringAgreement, UNCHANGED <<keyrings, learned>>
    PROVE  KeyringAgreement'
  BY DEF KeyringAgreement

\* A request was answered, and none else changed.
LEMMA ServedFrame ==
    ASSUME TypeOK, ServedKnown, NEW r \in Request, Done(r), UNCHANGED <<devices, overlapped>>
    PROVE  ServedKnown' /\ requests' \in [Request -> Served \cup {None}]
<1>1. requests' \in [Request -> Served \cup {None}]
  BY DEF TypeOK, Done
<1>2. \A q \in Request : requests'[q] # None => requests'[q] = requests[q]
  BY DEF TypeOK, Done
<1> QED
  BY <1>1, <1>2 DEF ServedKnown, Identity, AccountOf, Rows

-----------------------------------------------------------------------------
(* One lemma for each handler. *)

\* A fresh identifier has no row and no pairing names it.
LEMMA FreshDevice ==
    ASSUME NEW d \in Fresh
    PROVE  /\ d \in Device /\ d \notin Rows /\ devices[d] = None
           /\ \A p \in Pairing : pairings[p] # None => pairings[p].new_device # d
  BY DEF Fresh, Drawn, Rows

\* A registration leaves the rows of other devices as they are.
LEMMA Registered ==
    ASSUME TypeOK, NEW d \in Device, NEW a \in Account, NEW c \in Client,
           NEW p \in Pairing \cup {None}, Register(d, a, c, p)
    PROVE  /\ devices' \in [Device -> DeviceRow \cup {None}]
           /\ Rows' = Rows \cup {d}
           /\ devices'[d].account = a /\ devices'[d].key = c /\ devices'[d].via = p
           /\ ~devices'[d].revoked
           /\ \A x \in Device : x # d => devices'[x] = devices[x]
<1> DEFINE row == [account |-> a, key |-> c, via |-> p, revoked |-> FALSE]
<1>0. row \in DeviceRow
  BY DEF DeviceRow
<1>1. row \in DeviceRow /\ row # None
  BY <1>0, NoneAssumption, Zenon
<1>2. devices' = [devices EXCEPT ![d] = row] /\ devices \in [Device -> DeviceRow \cup {None}]
  BY DEF Register, TypeOK
<1>3. devices'[d] = row /\ \A x \in Device : x # d => devices'[x] = devices[x]
  BY <1>2
<1>4. devices' \in [Device -> DeviceRow \cup {None}]
  BY <1>1, <1>2
<1>5. Rows' = Rows \cup {d}
  BY <1>1, <1>3 DEF Rows
<1> QED
  BY <1>3, <1>4, <1>5

\* Creating or recovering an account.
LEMMA RegisterStep ==
    ASSUME RelayInv, NEW a \in Account, NEW c \in Client, NEW d \in Device,
           createAccount(a, c, d) \/ recoverAccount(a, c, d)
    PROVE  RelayInv'
<1>1. /\ d \in Fresh /\ Register(d, a, c, None) /\ Answer(c, d)
      /\ UNCHANGED <<pairings, keyrings, now, requests, shown, learned, overlapped>>
  BY DEF createAccount, recoverAccount
<1>2. TypeOK /\ PairingInv /\ ServedKnown
  BY DEF RelayInv
<1>3. /\ d \notin Rows /\ \A p \in Pairing : pairings[p] # None => pairings[p].new_device # d
  BY <1>1, FreshDevice
<1>4. /\ devices' \in [Device -> DeviceRow \cup {None}]
      /\ Rows' = Rows \cup {d} /\ Rows \subseteq Device
      /\ devices'[d].account = a /\ devices'[d].via = None /\ ~devices'[d].revoked
      /\ \A x \in Device : x # d => devices'[x] = devices[x]
  BY <1>1, <1>2, Registered DEF Rows
<1>5. \A x \in Rows : devices'[x] = devices[x]
  BY <1>3, <1>4
<1>6. /\ tokens' \in [Client -> SUBSET Device]
      /\ \A b \in Client : b # c => tokens'[b] = tokens[b]
      /\ tokens'[c] \in {tokens[c], tokens[c] \cup {d}}
  BY <1>1, <1>2, ZenonT(30) DEF Answer, TypeOK
<1>7. TypeOK'
  BY <1>1, <1>2, <1>4, <1>6 DEF TypeOK
<1>8. PairingsOwned' /\ ShownIsPending'
  BY <1>1, <1>2, <1>4, <1>5 DEF PairingInv, PairingsOwned, ShownIsPending, Progressed
<1>9. DevicesReserved'
  BY <1>1, <1>2, <1>3, <1>4 DEF PairingInv, DevicesReserved
<1>10. AddedByClaim'
  BY <1>1, <1>2, <1>4, <1>5 DEF PairingInv, AddedByClaim
<1>11. TokensOfRows'
  BY <1>2, <1>3, <1>4, <1>6 DEF PairingInv, TokensOfRows
<1>12. ServedKnown'
  BY <1>1, <1>2, <1>4, <1>5 DEF ServedKnown, Identity, AccountOf
<1>13. SealedForClaimant' /\ KeyringAgreement'
  BY <1>1 DEF RelayInv, SealedForClaimant, KeyringAgreement
<1>14. LockoutOnlyByOverlap'
  <2> SUFFICES ASSUME NEW b \in Accounts', Active(b)' = {}
               PROVE  b \in overlapped'
    BY DEF LockoutOnlyByOverlap
  <2>1. b # a
    BY <1>4 DEF Active
  <2>2. b \in Accounts
    BY <1>4, <1>5, <2>1 DEF Accounts
  <2>3. Active(b) = {}
    BY <1>4, <1>5 DEF Active
  <2> QED
    BY <1>1, <2>2, <2>3 DEF RelayInv, LockoutOnlyByOverlap
<1> QED
  BY <1>7, <1>8, <1>9, <1>10, <1>11, <1>12, <1>13, <1>14 DEF RelayInv, PairingInv

\* requireAuth: the device has a row and is not revoked at this moment.
LEMMA AuthStep ==
    ASSUME RelayInv, NEW c \in Client, NEW d \in Device, NEW r \in Request, requireAuth(c, d, r)
    PROVE  RelayInv'
<1>1. TypeOK /\ PairingInv /\ ServedKnown
  BY DEF RelayInv
<1> DEFINE served == [device |-> d, step |-> "handler"]
<1>2. /\ requests' = [requests EXCEPT ![r] = served] /\ d \in tokens[c] /\ ~devices[d].revoked
      /\ UNCHANGED <<devices, pairings, keyrings, now, tokens, shown, learned, overlapped>>
  BY DEF requireAuth
<1>3. served \in Served /\ served.device = d
  BY DEF Served
<1>4. /\ requests' \in [Request -> Served \cup {None}] /\ requests'[r].device = d
      /\ \A q \in Request : q # r => requests'[q] = requests[q]
  BY <1>1, <1>2, <1>3 DEF TypeOK
<1>5. d \in Rows
  BY <1>1, <1>2 DEF PairingInv, TokensOfRows
<1>6. TypeOK'
  BY <1>1, <1>2, <1>4 DEF TypeOK
<1>7. ServedKnown'
  BY <1>1, <1>2, <1>4, <1>5 DEF ServedKnown, Identity, AccountOf, Rows
<1> QED
  BY <1>1, <1>2, <1>6, <1>7, PairingFrame, KeyringFrame, LockoutFrame DEF RelayInv

\* A request that ends and leaves the tables as they are.
LEMMA FinishStep ==
    ASSUME RelayInv, NEW r \in Request, Finish(r)
    PROVE  RelayInv'
<1>1. /\ TypeOK /\ PairingInv /\ ServedKnown /\ Done(r)
      /\ UNCHANGED <<devices, pairings, keyrings, now, tokens, shown, learned, overlapped>>
  BY DEF RelayInv, Finish
<1>2. ServedKnown' /\ requests' \in [Request -> Served \cup {None}]
  BY <1>1, ServedFrame
<1>3. TypeOK'
  BY <1>1, <1>2 DEF TypeOK
<1> QED
  BY <1>1, <1>2, <1>3, PairingFrame, KeyringFrame, LockoutFrame DEF RelayInv

\* POST /v1/pairings.
LEMMA CreatePairingStep ==
    ASSUME RelayInv, NEW r \in Request, NEW p \in Pairing, createPairing(r, p)
    PROVE  RelayInv'
<1> DEFINE row == [account |-> AccountOf(r), creator |-> Identity(r),
                   state |-> "created", pending |-> None, new_device |-> None,
                   keyring |-> None, expires |-> now + pairingLifetime]
<1>1. /\ TypeOK /\ PairingInv /\ ServedKnown /\ Done(r) /\ requests[r] # None
      /\ pairings[p] = None /\ pairings' = [pairings EXCEPT ![p] = row]
      /\ UNCHANGED <<devices, keyrings, now, tokens, shown, learned, overlapped>>
  BY DEF RelayInv, createPairing, InHandler
<1>2. ServedKnown' /\ requests' \in [Request -> Served \cup {None}]
  BY <1>1, ServedFrame
<1>3. Identity(r) \in Rows /\ Identity(r) \in Device /\ AccountOf(r) \in Account
  BY <1>1, RequestColumns
<1>4. row \in PairingRow
  <2>1. now + pairingLifetime \in Nat
    BY <1>1, TimeAssumption DEF TypeOK
  <2> QED
    BY <1>3, <2>1 DEF PairingRow
<1>5. /\ pairings' \in [Pairing -> PairingRow \cup {None}] /\ pairings'[p] = row
      /\ \A q \in Pairing : q # p => pairings'[q] = pairings[q]
  BY <1>1, <1>4, Zenon DEF TypeOK
<1>6. TypeOK'
  BY <1>1, <1>2, <1>5 DEF TypeOK
<1>7. PairingsOwned'
  BY <1>1, <1>3, <1>5 DEF PairingInv, PairingsOwned, Progressed, Rows, AccountOf
<1>8. ShownIsPending' /\ DevicesReserved' /\ TokensOfRows'
  BY <1>1, <1>5, SMTT(30) DEF PairingInv, ShownIsPending, DevicesReserved, TokensOfRows, Rows
<1>9. AddedByClaim'
  <2>1. \A d \in Rows : devices[d].via # None => devices[d].via \in Pairing /\ devices[d].via # p
    BY <1>1, DeviceColumns DEF PairingInv, AddedByClaim
  <2> QED
    BY <1>1, <1>5, <2>1 DEF PairingInv, AddedByClaim, Rows
<1>10. SealedForClaimant'
  BY <1>5 DEF RelayInv, SealedForClaimant
<1> QED
  BY <1>1, <1>2, <1>6, <1>7, <1>8, <1>9, <1>10, KeyringFrame, LockoutFrame
  DEF RelayInv, PairingInv

\* A change of one pairing's columns leaves the other pairings alone.
LEMMA PairingChanged ==
    ASSUME TypeOK, NEW p \in Pairing, NEW row \in PairingRow,
           pairings' = [pairings EXCEPT ![p] = row]
    PROVE  /\ pairings' \in [Pairing -> PairingRow \cup {None}]
           /\ pairings'[p] = row /\ pairings'[p] # None
           /\ \A q \in Pairing : q # p => pairings'[q] = pairings[q]
<1>1. pairings \in [Pairing -> PairingRow \cup {None}] /\ row # None
  BY NoneAssumption DEF TypeOK
<1> QED
  BY <1>1

\* PUT /v1/pairings/{id}: nothing was pending, so nothing was shown.
LEMMA JoinStep ==
    ASSUME RelayInv, NEW p \in Pairing, NEW c \in Client, joinPairing(p, c)
    PROVE  RelayInv'
<1> DEFINE row == [pairings[p] EXCEPT !.state = "joined", !.pending = c]
<1>1. /\ TypeOK /\ PairingInv /\ pairings[p] # None /\ pairings[p].state = "created"
      /\ pairings' = [pairings EXCEPT ![p] = row]
      /\ UNCHANGED <<devices, keyrings, now, requests, tokens, shown, learned, overlapped>>
  BY Zenon DEF RelayInv, joinPairing, Live
<1>2. row \in PairingRow
  BY <1>1, PairingColumns, Zenon DEF PairingRow
<1>3. /\ row.account = pairings[p].account /\ row.creator = pairings[p].creator
      /\ row.state = "joined" /\ row.pending = c
      /\ row.new_device = pairings[p].new_device /\ row.keyring = pairings[p].keyring
  BY <1>1, PairingColumns DEF PairingRow
<1>4. /\ pairings' \in [Pairing -> PairingRow \cup {None}]
      /\ pairings'[p] = row /\ pairings'[p] # None
      /\ \A q \in Pairing : q # p => pairings'[q] = pairings[q]
  BY <1>1, <1>2, PairingChanged, Zenon
<1>5. Progressed(pairings[p]) /\ pairings[p].pending = None /\ pairings[p].new_device = None
  BY <1>1 DEF PairingInv, PairingsOwned, Progressed
<1> HIDE DEF row
<1>6. TypeOK'
  BY <1>1, <1>4 DEF TypeOK
<1>7. PairingsOwned'
  BY <1>1, <1>3, <1>4, <1>5, NoneAssumption DEF PairingInv, PairingsOwned, Progressed, Rows
<1>8. ShownIsPending'
  BY <1>1, <1>4, <1>5 DEF PairingInv, ShownIsPending
<1>9. DevicesReserved' /\ TokensOfRows'
  BY <1>1, <1>3, <1>4, <1>5 DEF PairingInv, DevicesReserved, TokensOfRows, Rows
<1>10. AddedByClaim'
  <2>1. \A d \in Rows : devices[d].via # None => devices[d].via \in Pairing /\ devices[d].via # p
    BY <1>1, DeviceColumns DEF PairingInv, AddedByClaim
  <2> QED
    BY <1>1, <1>4, <2>1 DEF PairingInv, AddedByClaim, Rows
<1>11. SealedForClaimant'
  BY <1>3, <1>4 DEF RelayInv, SealedForClaimant
<1>12. ServedKnown'
  BY <1>1 DEF RelayInv, ServedKnown, Identity, AccountOf, Rows
<1> QED
  BY <1>1, <1>6, <1>7, <1>8, <1>9, <1>10, <1>11, <1>12, KeyringFrame, LockoutFrame
  DEF RelayInv, PairingInv

\* GET /v1/pairings/{id} shows the pending keys.
LEMMA GetPairingStep ==
    ASSUME RelayInv, NEW r \in Request, NEW p \in Pairing, getPairing(r, p)
    PROVE  RelayInv'
<1>1. /\ TypeOK /\ PairingInv /\ ServedKnown /\ Done(r) /\ requests[r] # None
      /\ pairings[p] # None
      /\ shown' = [shown EXCEPT ![Identity(r)][p] = pairings[p].pending]
      /\ UNCHANGED <<devices, pairings, keyrings, now, tokens, learned, overlapped>>
  BY DEF RelayInv, getPairing, InHandler, Creator
<1>2. ServedKnown' /\ requests' \in [Request -> Served \cup {None}]
  BY <1>1, ServedFrame
<1>3. Identity(r) \in Device /\ pairings[p].pending \in Client \cup {None}
  BY <1>1, RequestColumns, PairingColumns
<1>4. /\ shown' \in [Device -> [Pairing -> Client \cup {None}]]
      /\ \A d \in Device, q \in Pairing :
            \/ shown'[d][q] = shown[d][q]
            \/ q = p /\ shown'[d][q] = pairings[p].pending
  BY <1>1, <1>3 DEF TypeOK
<1>5. TypeOK'
  BY <1>1, <1>2, <1>4, Zenon DEF TypeOK
<1>6. ShownIsPending'
  BY <1>1, <1>4 DEF PairingInv, ShownIsPending
<1>7. PairingsOwned' /\ DevicesReserved' /\ AddedByClaim' /\ TokensOfRows'
  <2>1. PairingsOwned'
    BY <1>1 DEF PairingInv, PairingsOwned, Progressed, Rows
  <2>2. DevicesReserved' /\ AddedByClaim' /\ TokensOfRows'
    BY <1>1 DEF PairingInv, DevicesReserved, AddedByClaim, TokensOfRows, Rows
  <2> QED
    BY <2>1, <2>2
<1>8. SealedForClaimant'
  BY <1>1 DEF RelayInv, SealedForClaimant
<1> QED
  BY <1>1, <1>2, <1>5, <1>6, <1>7, <1>8, KeyringFrame, LockoutFrame DEF RelayInv, PairingInv

\* POST /v1/pairings/{id}/approve: the keyring is sealed for the keys that were
\* shown, which are the pending ones, and the new device is fresh.
LEMMA ApproveStep ==
    ASSUME RelayInv, NEW r \in Request, NEW p \in Pairing, NEW d \in Device,
           approvePairing(r, p, d)
    PROVE  RelayInv'
<1> DEFINE seal == shown[Identity(r)][p]
           row == [pairings[p] EXCEPT !.state = "approved", !.new_device = d, !.keyring = seal]
<1>1. /\ TypeOK /\ PairingInv /\ ServedKnown /\ Done(r) /\ requests[r] # None
      /\ pairings[p] # None /\ pairings[p].state = "joined" /\ seal # None /\ d \in Fresh
      /\ pairings' = [pairings EXCEPT ![p] = row]
      /\ UNCHANGED <<devices, keyrings, now, tokens, shown, learned, overlapped>>
  BY Zenon DEF RelayInv, approvePairing, InHandler, Creator
<1>2. ServedKnown' /\ requests' \in [Request -> Served \cup {None}]
  BY <1>1, ServedFrame
<1>3. Identity(r) \in Device
  BY <1>1, RequestColumns
<1>4. seal = pairings[p].pending /\ seal \in Client
  BY <1>1, <1>3 DEF PairingInv, ShownIsPending, TypeOK
<1>5. row \in PairingRow
  BY <1>1, <1>4, PairingColumns, ZenonT(30) DEF PairingRow
<1>6. /\ row.account = pairings[p].account /\ row.creator = pairings[p].creator
      /\ row.state = "approved" /\ row.pending = pairings[p].pending
      /\ row.new_device = d /\ row.keyring = seal
  BY <1>1, PairingColumns DEF PairingRow
<1>7. /\ pairings' \in [Pairing -> PairingRow \cup {None}]
      /\ pairings'[p] = row /\ pairings'[p] # None
      /\ \A q \in Pairing : q # p => pairings'[q] = pairings[q]
  BY <1>1, <1>5, PairingChanged, Zenon
<1>8. d \notin Rows /\ \A q \in Pairing : pairings[q] # None => pairings[q].new_device # d
  BY <1>1, FreshDevice
<1> HIDE DEF row, seal
<1>9. TypeOK'
  BY <1>1, <1>2, <1>7 DEF TypeOK
<1>10. PairingsOwned'
  BY <1>1, <1>4, <1>6, <1>7, NoneAssumption, SMTT(30)
  DEF PairingInv, PairingsOwned, Progressed, Rows
<1>11. ShownIsPending'
  BY <1>1, <1>6, <1>7 DEF PairingInv, ShownIsPending
<1>12. DevicesReserved' /\ TokensOfRows'
  BY <1>1, <1>6, <1>7, <1>8, SMTT(30) DEF PairingInv, DevicesReserved, TokensOfRows, Rows
<1>13. AddedByClaim'
  <2>1. \A x \in Rows : devices[x].via # None => devices[x].via \in Pairing /\ devices[x].via # p
    BY <1>1, DeviceColumns DEF PairingInv, AddedByClaim
  <2> QED
    BY <1>1, <1>7, <2>1 DEF PairingInv, AddedByClaim, Rows
<1>14. SealedForClaimant'
  BY <1>4, <1>6, <1>7 DEF RelayInv, SealedForClaimant
<1> QED
  BY <1>1, <1>2, <1>9, <1>10, <1>11, <1>12, <1>13, <1>14, KeyringFrame, LockoutFrame
  DEF RelayInv, PairingInv

\* POST /v1/pairings/{id}/claim: the reserved device gets its row.
LEMMA ClaimStep ==
    ASSUME RelayInv, NEW p \in Pairing, NEW c \in Client, claimPairing(p, c)
    PROVE  RelayInv'
<1> DEFINE d == pairings[p].new_device
           a == pairings[p].account
           row == [pairings[p] EXCEPT !.state = "claimed"]
<1>1. /\ TypeOK /\ PairingInv /\ ServedKnown
      /\ pairings[p] # None /\ pairings[p].state = "approved"
      /\ Register(d, a, pairings[p].pending, p) /\ Answer(c, d)
      /\ pairings' = [pairings EXCEPT ![p] = row]
      /\ UNCHANGED <<keyrings, now, requests, shown, learned, overlapped>>
  BY DEF RelayInv, claimPairing, Live
<1>2. d # None /\ pairings[p].pending # None /\ pairings[p].creator \in Rows
  BY <1>1 DEF PairingInv, PairingsOwned, Progressed
<1>3. d \in Device /\ a \in Account /\ pairings[p].pending \in Client
  BY <1>1, <1>2, PairingColumns
<1>4. d \notin Rows /\ \A q \in Pairing : pairings[q] # None /\ pairings[q].new_device = d => p = q
  BY <1>1, <1>2 DEF PairingInv, DevicesReserved
<1>5. row \in PairingRow
  BY <1>1, PairingColumns DEF PairingRow
<1>6. /\ row.account = a /\ row.creator = pairings[p].creator
      /\ row.state = "claimed" /\ row.pending = pairings[p].pending
      /\ row.new_device = d /\ row.keyring = pairings[p].keyring
  BY <1>1, PairingColumns DEF PairingRow
<1>7. /\ pairings' \in [Pairing -> PairingRow \cup {None}]
      /\ pairings'[p] = row /\ pairings'[p] # None
      /\ \A q \in Pairing : q # p => pairings'[q] = pairings[q]
  BY <1>1, <1>5, PairingChanged, Zenon
<1>8. /\ devices' \in [Device -> DeviceRow \cup {None}]
      /\ Rows' = Rows \cup {d} /\ Rows \subseteq Device
      /\ devices'[d].account = a /\ devices'[d].key = pairings[p].pending
      /\ devices'[d].via = p /\ ~devices'[d].revoked
      /\ \A x \in Device : x # d => devices'[x] = devices[x]
  BY <1>1, <1>3, Registered DEF Rows
<1>9. \A x \in Rows : devices'[x] = devices[x]
  BY <1>4, <1>8
<1>10. /\ tokens' \in [Client -> SUBSET Device]
       /\ \A b \in Client : b # c => tokens'[b] = tokens[b]
       /\ tokens'[c] \in {tokens[c], tokens[c] \cup {d}}
  BY <1>1, <1>3 DEF Answer, TypeOK
<1> HIDE DEF row
<1>11. TypeOK'
  BY <1>1, <1>7, <1>8, <1>10, Zenon DEF TypeOK
<1>12. PairingsOwned'
  <2> SUFFICES ASSUME NEW q \in Pairing, pairings'[q] # None
               PROVE  /\ Progressed(pairings'[q]) /\ pairings'[q].creator \in Rows'
                      /\ devices'[pairings'[q].creator].account = pairings'[q].account
    BY DEF PairingsOwned
  <2>1. /\ pairings[q] # None /\ pairings'[q].creator = pairings[q].creator
        /\ pairings'[q].account = pairings[q].account
    BY <1>1, <1>6, <1>7
  <2>2. Progressed(pairings'[q])
    BY <1>1, <1>6, <1>7 DEF PairingInv, PairingsOwned, Progressed
  <2> QED
    BY <1>1, <1>8, <1>9, <2>1, <2>2 DEF PairingInv, PairingsOwned
<1>13. ShownIsPending'
  BY <1>1, <1>6, <1>7 DEF PairingInv, ShownIsPending
<1>14. DevicesReserved'
  <2>1. \A q \in Pairing : pairings'[q] # None =>
           pairings[q] # None /\ pairings'[q].new_device = pairings[q].new_device
    BY <1>1, <1>6, <1>7
  <2>2. \A q \in Pairing : pairings'[q] # None /\ pairings'[q].state = "approved" =>
           pairings[q].state = "approved" /\ q # p
    BY <1>6, <1>7, Zenon
  <2> QED
    BY <1>1, <1>4, <1>8, <2>1, <2>2 DEF PairingInv, DevicesReserved
<1>15. AddedByClaim'
  <2>1. \A x \in Rows : devices[x].via # None => devices[x].via \in Pairing /\ devices[x].via # p
    BY <1>1, DeviceColumns, Zenon DEF PairingInv, AddedByClaim
  <2> QED
    BY <1>1, <1>6, <1>7, <1>8, <1>9, <2>1, SMTT(30) DEF PairingInv, AddedByClaim
<1>16. TokensOfRows'
  BY <1>1, <1>4, <1>8, <1>10, SMTT(30) DEF PairingInv, TokensOfRows
<1>17. ServedKnown'
  BY <1>1, <1>8, <1>9, Zenon DEF ServedKnown, Identity, AccountOf
<1>18. SealedForClaimant'
  BY <1>1, <1>6, <1>7 DEF RelayInv, SealedForClaimant
<1>19. LockoutOnlyByOverlap'
  <2> SUFFICES ASSUME NEW b \in Accounts', Active(b)' = {}
               PROVE  b \in overlapped'
    BY DEF LockoutOnlyByOverlap
  <2>1. b # a
    BY <1>8 DEF Active
  <2>2. b \in Accounts
    BY <1>8, <1>9, <2>1 DEF Accounts
  <2>3. Active(b) = {}
    BY <1>8, <1>9 DEF Active
  <2> QED
    BY <1>1, <2>2, <2>3 DEF RelayInv, LockoutOnlyByOverlap
<1> QED
  BY <1>1, <1>11, <1>12, <1>13, <1>14, <1>15, <1>16, <1>17, <1>18, <1>19, KeyringFrame
  DEF RelayInv, PairingInv

\* DELETE /v1/devices/{id}: the revoking device is another one.  It stays, or it
\* was itself revoked while this request was in service.
LEMMA RevokeStep ==
    ASSUME RelayInv, NEW r \in Request, NEW d \in Device, revokeDevice(r, d)
    PROVE  RelayInv'
<1> DEFINE row == [devices[d] EXCEPT !.revoked = TRUE]
           a == AccountOf(r)
<1>1. /\ TypeOK /\ PairingInv /\ ServedKnown /\ Done(r) /\ requests[r] # None
      /\ d # Identity(r) /\ d \in Active(a)
      /\ devices' = [devices EXCEPT ![d] = row]
      /\ overlapped' = IF InService(d) THEN overlapped \cup {a} ELSE overlapped
      /\ UNCHANGED <<pairings, keyrings, now, tokens, shown, learned>>
  BY DEF RelayInv, revokeDevice, InHandler
<1>2. Identity(r) \in Rows /\ Identity(r) \in Device /\ a \in Account
  BY <1>1, RequestColumns
<1>3. d \in Rows /\ devices[d].account = a
  BY <1>1 DEF Active
<1>4. row \in DeviceRow /\ row.account = a /\ row.key = devices[d].key
      /\ row.via = devices[d].via /\ row.revoked = TRUE
  BY <1>1, <1>3, DeviceColumns, Zenon DEF DeviceRow
<1>5. /\ devices' \in [Device -> DeviceRow \cup {None}]
      /\ devices'[d] = row /\ \A x \in Device : x # d => devices'[x] = devices[x]
  BY <1>1, <1>4 DEF TypeOK
<1> HIDE DEF row
<1>6. Rows' = Rows /\ Rows \subseteq Device
  BY <1>3, <1>4, <1>5, NoneAssumption DEF Rows
<1>7. \A x \in Rows : /\ devices'[x].account = devices[x].account
                      /\ devices'[x].key = devices[x].key /\ devices'[x].via = devices[x].via
  BY <1>3, <1>4, <1>5, <1>6
<1>8. /\ requests' \in [Request -> Served \cup {None}]
      /\ \A q \in Request : requests'[q] # None => requests'[q] = requests[q]
  BY <1>1 DEF TypeOK, Done
<1>9. overlapped \subseteq overlapped' /\ (InService(d) => a \in overlapped')
      /\ overlapped' \subseteq Account
  BY <1>1, <1>2 DEF TypeOK
<1>10. TypeOK'
  BY <1>1, <1>5, <1>8, <1>9, Zenon DEF TypeOK
<1>11. PairingsOwned' /\ ShownIsPending'
  BY <1>1, <1>6, <1>7 DEF PairingInv, PairingsOwned, ShownIsPending, Progressed
<1>12. DevicesReserved' /\ TokensOfRows'
  BY <1>1, <1>6, Zenon DEF PairingInv, DevicesReserved, TokensOfRows
<1>13. AddedByClaim'
  BY <1>1, <1>6, <1>7 DEF PairingInv, AddedByClaim
<1>14. ServedKnown'
  <2> SUFFICES ASSUME NEW q \in Request, requests'[q] # None
               PROVE  /\ requests'[q].device \in Rows'
                      /\ devices'[requests'[q].device].revoked =>
                            devices'[requests'[q].device].account \in overlapped'
    BY DEF ServedKnown, Identity, AccountOf
  <2>1. requests[q] # None /\ requests'[q].device = Identity(q)
    BY <1>8, Zenon DEF Identity
  <2>2. /\ Identity(q) \in Rows
        /\ devices[Identity(q)].revoked => devices[Identity(q)].account \in overlapped
    BY <1>1, <2>1 DEF ServedKnown, AccountOf
  <2>3. CASE Identity(q) = d
    <3>1. InService(d)
      BY <2>1, <2>3 DEF InService
    <3> QED
      BY <1>3, <1>6, <1>7, <1>9, <2>1, <2>3, <3>1
  <2>4. CASE Identity(q) # d
    BY <1>5, <1>6, <1>9, <2>1, <2>2, <2>4, Zenon
  <2> QED
    BY <2>3, <2>4
<1>15. SealedForClaimant'
  BY <1>1 DEF RelayInv, SealedForClaimant
<1>16. LockoutOnlyByOverlap'
  <2> SUFFICES ASSUME NEW b \in Accounts', Active(b)' = {}
               PROVE  b \in overlapped'
    BY DEF LockoutOnlyByOverlap
  <2>1. CASE b = a
    <3>1. devices[Identity(r)].revoked
      BY <1>1, <1>2, <1>5, <1>6, <2>1 DEF Active, AccountOf
    <3> QED
      BY <1>1, <1>9, <2>1, <3>1, Zenon DEF ServedKnown
  <2>2. CASE b # a
    <3>1. b \in Accounts
      BY <1>6, <1>7 DEF Accounts
    <3>2. Active(b) = {}
      BY <1>3, <1>5, <1>6, <2>2 DEF Active
    <3> QED
      BY <1>9, <3>1, <3>2 DEF RelayInv, LockoutOnlyByOverlap
  <2> QED
    BY <2>1, <2>2
<1> QED
  BY <1>1, <1>10, <1>11, <1>12, <1>13, <1>14, <1>15, <1>16, KeyringFrame
  DEF RelayInv, PairingInv

\* PUT /v1/keyring: a keyring is stored where there was none.
LEMMA PutKeyringStep ==
    ASSUME RelayInv, NEW r \in Request, NEW e \in Epoch, NEW b \in Box, putKeyring(r, e, b)
    PROVE  RelayInv'
<1> DEFINE a == AccountOf(r)
<1>1. /\ TypeOK /\ PairingInv /\ ServedKnown /\ requests[r] # None
      /\ UNCHANGED <<devices, pairings, now, tokens, shown, overlapped>>
  BY DEF RelayInv, putKeyring, InHandler
<1>2. Identity(r) \in Rows /\ Identity(r) \in Device /\ a \in Account
  BY <1>1, RequestColumns
<1>3. CASE keyrings[a][e] = None
  <2>1. /\ keyrings' = [keyrings EXCEPT ![a][e] = b]
        /\ learned' = learned \cup {<<a, e, b>>} /\ Done(r)
    BY <1>3 DEF putKeyring
  <2>2. ServedKnown' /\ requests' \in [Request -> Served \cup {None}]
    BY <1>1, <2>1, ServedFrame
  <2>3. /\ keyrings' \in [Account -> [Epoch -> Box \cup {None}]] /\ keyrings'[a][e] = b
        /\ \A x \in Account, f \in Epoch :
              x # a \/ f # e => keyrings'[x][f] = keyrings[x][f]
    BY <1>1, <1>2, <2>1 DEF TypeOK
  <2>4. TypeOK'
    BY <1>1, <1>2, <2>1, <2>2, <2>3 DEF TypeOK
  <2>5. KeyringAgreement'
    <3> SUFFICES ASSUME NEW x \in Account, NEW f \in Epoch, NEW k \in Box,
                        <<x, f, k>> \in learned'
                 PROVE  keyrings'[x][f] = k
      BY DEF KeyringAgreement
    <3>1. CASE <<x, f, k>> = <<a, e, b>>
      BY <2>3, <3>1
    <3>2. CASE <<x, f, k>> # <<a, e, b>>
      <4>1. keyrings[x][f] = k /\ k # None
        BY <2>1, <3>2, NoneAssumption DEF RelayInv, KeyringAgreement
      <4> QED
        BY <1>3, <2>3, <4>1
    <3> QED
      BY <3>1, <3>2
  <2> QED
    BY <1>1, <2>2, <2>4, <2>5, PairingFrame, LockoutFrame DEF RelayInv
<1>4. CASE keyrings[a][e] # None
  <2> DEFINE served == [device |-> Identity(r), step |-> "compare", epoch |-> e, box |-> b]
  <2>1. requests' = [requests EXCEPT ![r] = served] /\ UNCHANGED <<keyrings, learned>>
    BY <1>4, Zenon DEF putKeyring
  <2>2. served \in Served /\ served.device = Identity(r)
    BY <1>2 DEF Served
  <2>3. /\ requests' \in [Request -> Served \cup {None}]
        /\ requests'[r].device = requests[r].device
        /\ \A q \in Request : q # r => requests'[q] = requests[q]
    BY <1>1, <2>1, <2>2, Zenon DEF TypeOK, Identity
  <2>4. TypeOK'
    BY <1>1, <2>1, <2>3, Zenon DEF TypeOK
  <2>5. ServedKnown'
    BY <1>1, <2>3, Zenon DEF ServedKnown, Identity, AccountOf, Rows
  <2> QED
    BY <1>1, <2>1, <2>4, <2>5, PairingFrame, KeyringFrame, LockoutFrame DEF RelayInv
<1> QED
  BY <1>3, <1>4

\* What a request learns of its account's stored keyrings.
LEMMA LearnStep ==
    ASSUME RelayInv, NEW r \in Request, requests[r] # None, Done(r),
           learned \subseteq learned', learned' \subseteq Account \X Epoch \X Box,
           \A a \in Account, e \in Epoch, b \in Box :
               <<a, e, b>> \in learned' \ learned => keyrings[a][e] = b,
           UNCHANGED <<devices, pairings, keyrings, now, tokens, shown, overlapped>>
    PROVE  RelayInv'
<1>1. TypeOK /\ PairingInv /\ ServedKnown
  BY Zenon DEF RelayInv
<1>2. ServedKnown' /\ requests' \in [Request -> Served \cup {None}]
  BY <1>1, ServedFrame
<1>3. TypeOK'
  BY <1>1, <1>2, Zenon DEF TypeOK
<1>4. KeyringAgreement'
  BY SMTT(30) DEF RelayInv, KeyringAgreement
<1> QED
  BY <1>1, <1>2, <1>3, <1>4, PairingFrame, LockoutFrame, Zenon DEF RelayInv

\* PUT /v1/keyring, second statement: the stored keyring is equal.
LEMMA CompareKeyringStep ==
    ASSUME RelayInv, NEW r \in Request, CompareKeyring(r)
    PROVE  RelayInv'
<1> DEFINE told == <<AccountOf(r), requests[r].epoch, requests[r].box>>
<1>1. /\ Comparing(r) /\ requests[r] # None /\ Done(r)
      /\ keyrings[AccountOf(r)][requests[r].epoch] = requests[r].box
      /\ learned' = learned \cup {told}
      /\ UNCHANGED <<devices, pairings, keyrings, now, tokens, shown, overlapped>>
  BY Zenon DEF CompareKeyring, Comparing
<1>2. AccountOf(r) \in Account /\ requests[r].epoch \in Epoch /\ requests[r].box \in Box
  BY <1>1, RequestColumns DEF RelayInv
<1>3. learned \subseteq learned' /\ learned' \subseteq Account \X Epoch \X Box
  BY <1>1, <1>2, SMTT(30) DEF RelayInv, TypeOK
<1>4. \A a \in Account, e \in Epoch, b \in Box :
         <<a, e, b>> \in learned' \ learned => keyrings[a][e] = b
  BY <1>1
<1> QED
  BY <1>1, <1>3, <1>4, LearnStep

\* GET /v1/keyring.
LEMMA GetKeyringStep ==
    ASSUME RelayInv, NEW r \in Request, getKeyring(r)
    PROVE  RelayInv'
<1> DEFINE a == AccountOf(r)
           stored == {f \in Epoch : keyrings[a][f] # None}
           told == {<<a, e, keyrings[a][e]>> : e \in stored}
<1>1. /\ requests[r] # None /\ Done(r) /\ learned' = learned \cup told
      /\ UNCHANGED <<devices, pairings, keyrings, now, tokens, shown, overlapped>>
  BY Zenon DEF getKeyring, InHandler
<1>2. a \in Account
  BY <1>1, RequestColumns DEF RelayInv
<1>3. \A e \in stored : keyrings[a][e] \in Box
  BY <1>2 DEF RelayInv, TypeOK
<1>4. told \subseteq Account \X Epoch \X Box
  BY <1>2, <1>3, SMTT(30)
<1>5. learned \subseteq learned' /\ learned' \subseteq Account \X Epoch \X Box
  BY <1>1, <1>4, Zenon DEF RelayInv, TypeOK
<1>6. \A x \in Account, e \in Epoch, b \in Box :
         <<x, e, b>> \in learned' \ learned => keyrings[x][e] = b
  BY <1>1
<1> QED
  BY <1>1, <1>5, <1>6, LearnStep, Zenon

-----------------------------------------------------------------------------
(* The induction. *)

\* Every step of the relay preserves the invariant.
LEMMA RelayInvStep ==
    ASSUME RelayInv, [Next]_vars
    PROVE  RelayInv'
<1>1. ASSUME NEW a \in Account, NEW c \in Client, NEW d \in Device,
             createAccount(a, c, d) \/ recoverAccount(a, c, d)
      PROVE  RelayInv'
  BY <1>1, RegisterStep
<1>2. ASSUME NEW c \in Client, NEW d \in Device, NEW r \in Request, requireAuth(c, d, r)
      PROVE  RelayInv'
  BY <1>2, AuthStep
<1>3. ASSUME NEW p \in Pairing, NEW c \in Client, joinPairing(p, c)
      PROVE  RelayInv'
  BY <1>3, JoinStep
<1>4. ASSUME NEW p \in Pairing, NEW c \in Client, claimPairing(p, c)
      PROVE  RelayInv'
  BY <1>4, ClaimStep
<1>5. ASSUME NEW r \in Request, Handler(r)
      PROVE  RelayInv'
  <2>1. CASE Finish(r)
    BY <2>1, FinishStep
  <2>2. ASSUME NEW p \in Pairing, createPairing(r, p)
        PROVE  RelayInv'
    BY <2>2, CreatePairingStep
  <2>3. ASSUME NEW p \in Pairing, getPairing(r, p)
        PROVE  RelayInv'
    BY <2>3, GetPairingStep
  <2>4. ASSUME NEW p \in Pairing, NEW d \in Device, approvePairing(r, p, d)
        PROVE  RelayInv'
    BY <2>4, ApproveStep
  <2>5. ASSUME NEW d \in Device, revokeDevice(r, d)
        PROVE  RelayInv'
    BY <2>5, RevokeStep
  <2>6. ASSUME NEW e \in Epoch, NEW b \in Box, putKeyring(r, e, b)
        PROVE  RelayInv'
    BY <2>6, PutKeyringStep
  <2>7. CASE CompareKeyring(r)
    BY <2>7, CompareKeyringStep
  <2>8. CASE getKeyring(r)
    BY <2>8, GetKeyringStep
  <2> QED
    BY <1>5, <2>1, <2>2, <2>3, <2>4, <2>5, <2>6, <2>7, <2>8 DEF Handler
<1>6. ASSUME Tick \/ UNCHANGED vars
      PROVE  RelayInv'
  <2>1. UNCHANGED <<devices, pairings, keyrings, requests, tokens, shown, learned, overlapped>>
    BY <1>6 DEF Tick, vars
  <2>2. TypeOK'
    BY <1>6, <2>1, SMTT(30) DEF RelayInv, TypeOK, Tick, vars
  <2>3. ServedKnown'
    BY <2>1 DEF RelayInv, ServedKnown, Identity, AccountOf, Rows
  <2> QED
    BY <2>1, <2>2, <2>3, PairingFrame, KeyringFrame, LockoutFrame DEF RelayInv
<1> QED
  BY <1>1, <1>2, <1>3, <1>4, <1>5, <1>6 DEF Next

\* An empty relay satisfies it.
LEMMA RelayInvInit ==
    ASSUME Init
    PROVE  RelayInv
<1>1. TypeOK
  BY DEF Init, TypeOK
<1>2. Rows = {}
  BY DEF Init, Rows
<1>3. PairingInv
  BY <1>2, Zenon DEF Init, PairingInv, PairingsOwned, ShownIsPending, DevicesReserved, AddedByClaim,
              TokensOfRows
<1>4. ServedKnown /\ SealedForClaimant /\ KeyringAgreement
  BY Zenon DEF Init, ServedKnown, SealedForClaimant, KeyringAgreement
<1>5. LockoutOnlyByOverlap
  BY <1>2 DEF LockoutOnlyByOverlap, Accounts
<1> QED
  BY <1>1, <1>3, <1>4, <1>5 DEF RelayInv

\* Types, pairings, requests in service, keyrings and revocation together: the
\* inductive invariant of all handlers of the relay.
THEOREM RelayInvariant == Spec => []RelayInv
<1>1. Init => RelayInv
  BY RelayInvInit
<1>2. RelayInv /\ [Next]_vars => RelayInv'
  BY RelayInvStep, Zenon
<1> QED
  BY <1>1, <1>2, PTL DEF Spec

\* What the invariant says of a device that a pairing added.
LEMMA AddsOneDevice ==
    ASSUME RelayInv
    PROVE  PairingAddsOneDevice
<1> SUFFICES ASSUME NEW d \in Rows
             PROVE  LET p == devices[d].via
                    IN  /\ p # None =>
                            /\ pairings[p].state = "claimed" /\ pairings[p].new_device = d
                            /\ devices[d].account = devices[pairings[p].creator].account
                            /\ devices[d].key = pairings[p].pending
                        /\ \A b, c \in Client : d \in tokens[b] \cap tokens[c] => b = c
  BY DEF PairingAddsOneDevice
<1>1. devices[d].via \in Pairing \cup {None}
  BY DeviceColumns, Zenon DEF RelayInv
<1>2. \A b, c \in Client : d \in tokens[b] \cap tokens[c] => b = c
  BY DEF RelayInv, PairingInv, TokensOfRows
<1> QED
  BY <1>1, <1>2, Zenon DEF RelayInv, PairingInv, PairingsOwned, AddedByClaim

\* The keyring that a pairing carries is sealed for the keys that the claim
\* registers, whatever joins, looks and approvals interleave.
THEOREM PairingSealed == Spec => []SealedForClaimant
<1>1. RelayInv => SealedForClaimant
  BY DEF RelayInv
<1> QED
  BY <1>1, RelayInvariant, PTL

\* A pairing adds at most one device, the approved one, with the joined keys and
\* to the creator's account, and one client at most holds its token.
THEOREM PairingAddsOne == Spec => []PairingAddsOneDevice
<1>1. RelayInv => PairingAddsOneDevice
  BY AddsOneDevice
<1> QED
  BY <1>1, RelayInvariant, PTL

\* All who published or read the keyring of an epoch were told the stored one.
THEOREM KeyringsAgree == Spec => []KeyringAgreement
<1>1. RelayInv => KeyringAgreement
  BY DEF RelayInv
<1> QED
  BY <1>1, RelayInvariant, PTL

\* An account loses its last active device only by a revocation that overlaps a
\* request of the revoked device.
THEOREM LockoutNeedsOverlap == Spec => []LockoutOnlyByOverlap
<1>1. RelayInv => LockoutOnlyByOverlap
  BY DEF RelayInv
<1> QED
  BY <1>1, RelayInvariant, PTL
=============================================================================
