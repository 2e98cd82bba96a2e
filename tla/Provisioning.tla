---------------------------- MODULE Provisioning ----------------------------
(***************************************************************************)
(* Account creation by the desktop agent, in the order that                *)
(* initAccountForSyntheticProtocolTest exercises: preflight, account,      *)
(* keyring, encrypted database, credential, recovery key.  The exported    *)
(* InitAccount is disabled because a failure in the middle cannot be       *)
(* rolled back; this is what such failures leave behind.  The calls of the *)
(* secret store are steps of DesktopAgent, which hands in their results.   *)
(***************************************************************************)
EXTENDS Naturals

CONSTANTS
    NotFound,   \* no file, no credential
    Partial     \* a database that is bound to no device

VARIABLES
    attempt,      \* attempts so far; the account of an attempt has its number
    step,         \* step of the running attempt
    accounts,     \* accounts on the relay
    keyrings,     \* accounts whose recovery keyring is on the relay
    database,     \* NotFound, Partial, or the account whose device it is bound to
    shown         \* accounts whose recovery key was displayed

ProvisionInit ==
    /\ attempt = 0 /\ step = "idle"
    /\ accounts = {} /\ keyrings = {} /\ shown = {} /\ database = NotFound

-----------------------------------------------------------------------------
Begin ==
    /\ step = "idle"
    /\ attempt' = attempt + 1 /\ step' = "preflight"
    /\ UNCHANGED <<accounts, keyrings, database, shown>>

\* An attempt stops if a credential or a database is there already.
Preflight(loaded) ==
    /\ step = "preflight"
    /\ step' = IF loaded = NotFound /\ database = NotFound THEN "account" ELSE "idle"
    /\ UNCHANGED <<attempt, accounts, keyrings, database, shown>>

\* The relay's answer may be lost after it created the account.
CreateAccount ==
    /\ step = "account"
    /\ accounts' = accounts \cup {attempt}
    /\ step' \in {"keyring", "idle"}
    /\ UNCHANGED <<attempt, keyrings, database, shown>>

PutKeyring_SaveFirst ==
    /\ step = "keyring"
    /\ keyrings' = keyrings \cup {attempt}
    /\ step' \in {"bundle", "idle"}
    /\ UNCHANGED <<attempt, accounts, database, shown>>

PutKeyring ==
    /\ step = "keyring"
    /\ keyrings' = keyrings \cup {attempt}
    /\ step' \in {"database", "idle"}
    /\ UNCHANGED <<attempt, accounts, database, shown>>

\* initializeEncryptedStore looks at the path again; a failure may leave a file
\* that is bound to no device, or to this one.
InitializeStore ==
    /\ step = "database"
    /\ IF database # NotFound THEN step' = "idle" /\ UNCHANGED database
       ELSE \/ database' = attempt /\ step' \in {"bundle", "idle"}
            \/ database' = Partial /\ step' = "idle"
    /\ UNCHANGED <<attempt, accounts, keyrings, shown>>

BeginSave ==
    /\ step = "bundle"
    /\ step' = "credential"
    /\ UNCHANGED <<attempt, accounts, keyrings, database, shown>>

SaveCredential(saved) ==
    /\ step = "credential"
    /\ step' = IF saved THEN "recovery" ELSE "idle"
    /\ UNCHANGED <<attempt, accounts, keyrings, database, shown>>

EncodeRecoveryKey ==
    /\ step = "recovery"
    /\ shown' = shown \cup {attempt}
    /\ step' = "idle"
    /\ UNCHANGED <<attempt, accounts, keyrings, database>>

\* A step fails without an effect, or the process is killed before it.
Abandon ==
    /\ step # "idle"
    /\ step' = "idle"
    /\ UNCHANGED <<attempt, accounts, keyrings, database, shown>>

\* Removal by the user.
RemoveDatabase ==
    /\ step = "idle" /\ database # NotFound
    /\ database' = NotFound
    /\ UNCHANGED <<attempt, step, accounts, keyrings, shown>>

\* OpenForDevice binds an unbound database.
OpenForDevice(credential) ==
    /\ database' = IF database = Partial THEN credential ELSE database
    /\ UNCHANGED <<attempt, step, accounts, keyrings, shown>>
=============================================================================
