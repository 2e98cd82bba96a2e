---------------------------- MODULE DesktopAgent ----------------------------
(***************************************************************************)
(* The desktop agent of one user: run processes (AgentLoop) and an         *)
(* account set-up (Provisioning) share the secret store (SecretStore) and  *)
(* the database.  Each synchronisation begins with a load of the           *)
(* credential, and the set-up loads before its first step and saves after  *)
(* the database exists.  Loops run before, during and after the set-up.    *)
(***************************************************************************)
EXTENDS AgentLoop

CONSTANTS
    Setup,        \* the process that creates the account
    NotFound,     \* no credential or database
    Saved, Failed, Pending,   \* results of a call of the secret store
    Partial,      \* a database that is bound to no device
    MaxAttempt    \* bound on attempts to create an account

ASSUME SetupAssumption == Setup \notin Process \cup {NoProcess} /\ MaxAttempt \in Nat
ASSUME ResultAssumption ==
    /\ {NotFound, Saved, Failed, Pending, Partial} \cap Nat = {}
    /\ NotFound \notin {Saved, Failed, Pending, Partial}
    /\ Saved \notin {Failed, Pending} /\ Failed # Pending

VARIABLES
    platform, item, files, call,                          \* SecretStore
    attempt, step, accounts, keyrings, database, shown,   \* Provisioning
    refused   \* whether a database or the relay refused the stored credential

Secrets == INSTANCE SecretStore WITH Caller <- Process \cup {Setup}
Account == INSTANCE Provisioning

storeVars == <<item, files, call>>
provisionVars == <<attempt, step, accounts, keyrings, database, shown>>
vars == <<loopVars, platform, storeVars, provisionVars, refused>>

Init == LoopInit /\ Secrets!StoreInit /\ Account!ProvisionInit /\ refused = FALSE

-----------------------------------------------------------------------------
(* A run process. *)

\* What the loop does by itself; a synchronisation begins with Secrets.Load.
Loop(p) ==
    /\ \/ Check(p) /\ IF at'[p] = "sync" THEN Secrets!BeginLoad(p) ELSE UNCHANGED storeVars
       \/ (Fire(p) \/ Done(p)) /\ UNCHANGED storeVars
    /\ UNCHANGED <<platform, provisionVars, refused>>

\* SyncOnce, after the load: without a credential or a database it fails; a
\* database of another device and the relay, for an account that it does not
\* have, refuse; otherwise the synchronisation succeeds or fails.
SyncOnce(p) ==
    LET credential == call[p].result
    IN  /\ at[p] = "sync" /\ call[p].at = "done"
        /\ Secrets!End(p)
        /\ IF credential \in {NotFound, Failed} \/ database = NotFound
           THEN Fail(p) /\ UNCHANGED <<provisionVars, refused>>
           ELSE /\ Account!OpenForDevice(credential)
                /\ IF database' = credential /\ credential \in accounts
                   THEN (Succeed(p) \/ Fail(p)) /\ UNCHANGED refused
                   ELSE Fail(p) /\ refused' = TRUE
        /\ UNCHANGED platform

StartOrCancel(p) ==
    /\ Start(p) \/ Cancel(p)
    /\ UNCHANGED <<platform, storeVars, provisionVars, refused>>

KillRun(p) ==
    /\ Kill(p)
    /\ Secrets!End(p)
    /\ UNCHANGED <<platform, provisionVars, refused>>

StoreCall(c) ==
    /\ Secrets!StoreStep(c)
    /\ UNCHANGED <<loopVars, platform, provisionVars, refused>>

-----------------------------------------------------------------------------
(* The set-up process, which has a context of its own. *)

SetupStep ==
    /\ \/ attempt < MaxAttempt /\ Account!Begin /\ Secrets!BeginLoad(Setup)
       \/ /\ call[Setup].at = "done"
          /\ \/ Account!Preflight(call[Setup].result)
             \/ Account!SaveCredential(call[Setup].result = Saved)
          /\ Secrets!End(Setup)
       \/ Account!BeginSave /\ Secrets!BeginSave(Setup, attempt)
       \/ /\ Account!CreateAccount \/ Account!PutKeyring \/ Account!InitializeStore
                 \/ Account!EncodeRecoveryKey
          /\ UNCHANGED storeVars
       \/ Account!Abandon /\ Secrets!End(Setup)
       \/ Account!RemoveDatabase /\ item = Secrets!NoItem /\ UNCHANGED storeVars
    /\ cancelled' = IF step' = "idle" THEN cancelled \ {Setup} ELSE cancelled
    /\ UNCHANGED <<at, lock, backoff, left, failures, idle, platform, refused>>

CancelSetup ==
    /\ step # "idle"
    /\ cancelled' = cancelled \cup {Setup}
    /\ UNCHANGED <<at, lock, backoff, left, failures, idle, platform, storeVars,
                   provisionVars, refused>>

Time == Tick /\ UNCHANGED <<platform, storeVars, provisionVars, refused>>

Next ==
    \/ \E p \in Process : Loop(p) \/ SyncOnce(p) \/ StartOrCancel(p) \/ KillRun(p)
    \/ \E c \in Process \cup {Setup} : StoreCall(c)
    \/ SetupStep \/ CancelSetup \/ Time

\* System calls and requests end, the scheduler runs every process, and time
\* passes.  Nobody has to start, cancel or kill a process.
Fairness ==
    /\ \A p \in Process : WF_vars(Loop(p)) /\ WF_vars(SyncOnce(p)) /\ WF_vars(StoreCall(p))
    /\ WF_vars(Time)

Spec == Init /\ [][Next]_vars /\ Fairness

-----------------------------------------------------------------------------
Stored == item.value

\* Whatever step of whichever attempt failed, was cancelled or killed, a stored
\* credential is complete: its account is on the relay with a recovery keyring,
\* its database is bound to its device, its recovery key is the only one that
\* was shown, and no synchronisation of a loop that runs meanwhile is refused.
\* "Reject an unsafe or pre-existing path before the first relay write": an
\* attempt that is to create an account has no database or credential of an
\* earlier one beside it.
CredentialIsComplete ==
    /\ Stored # NotFound =>
           Stored \in accounts \cap keyrings /\ database = Stored
    /\ shown \subseteq {Stored}
    /\ ~refused
    /\ step = "account" => database = NotFound /\ Stored = NotFound

\* The store's calls are atomic for their callers.  A load returns what the
\* store held at some moment of the call, and all of it: never a part of a
\* credential, or NotFound while there was one throughout.  "Do not turn a
\* successful OS commit into an ambiguous cancellation error" (Save): the set-up
\* goes on to the recovery key if, and only if, its credential is stored.
CallsAreAtomic ==
    /\ \A c \in Process \cup {Setup} : call[c].result \notin {Pending, Failed, Saved} =>
           call[c].result \in call[c].seen \cap (1 .. MaxAttempt \cup {NotFound})
    /\ step = "credential" /\ call[Setup].result = Failed => Stored # attempt
    /\ call[Setup].result = Saved \/ step = "recovery" => Stored = attempt
=============================================================================
