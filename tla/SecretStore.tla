---------------------------- MODULE SecretStore ----------------------------
(***************************************************************************)
(* The credential of a profile in the operating system's secret store:     *)
(* DPAPI files that are replaced by a rename (secret_store_windows.go) and *)
(* Keychain items that are updated or else added (secret_store_darwin.go). *)
(* Calls of several processes overlap, contexts are cancelled, system      *)
(* calls fail and processes are killed.                                    *)
(***************************************************************************)
EXTENDS Naturals

CONSTANTS
    Caller,      \* processes that use the store, one call at a time
    NotFound,    \* no credential is stored
    Saved, Failed, Pending   \* other results of a call

VARIABLES
    platform,    \* "windows" or "darwin"
    cancelled,   \* callers whose context is done
    item,        \* the stored credential, with the number of its file
    files,       \* number of files created so far
    call         \* call[c]: the call of c, its step, credential and result, and the
                 \* credentials that were stored while it runs

NoItem == [value |-> NotFound, file |-> 0]
NoCall == [at |-> "none", value |-> NoItem, result |-> Pending, seen |-> {}]

StoreInit ==
    /\ platform \in {"windows", "darwin"}
    /\ item = NoItem /\ files = 0 /\ call = [c \in Caller |-> NoCall]

\* Replace the item, which the running calls see, and return to c.
Commit(c, new, r) ==
    /\ item' = new
    /\ call' = [b \in Caller |->
           IF b = c THEN [call[b] EXCEPT !.at = "done", !.result = r]
           ELSE IF call[b].at = "none" THEN call[b]
           ELSE [call[b] EXCEPT !.seen = @ \cup {new.value}]]

Step(c, next) == call' = [call EXCEPT ![c].at = next] /\ UNCHANGED item

Return(c, r) ==
    /\ call' = [call EXCEPT ![c].at = "done", ![c].result = r]
    /\ UNCHANGED item

-----------------------------------------------------------------------------
BeginLoad(c) ==
    /\ call[c] = NoCall
    /\ call' = [call EXCEPT ![c].at = IF platform = "windows" THEN "lstat" ELSE "copy",
                            ![c].seen = {item.value}]
    /\ UNCHANGED <<item, files>>

BeginSave(c, v) ==
    /\ call[c] = NoCall
    /\ call' = [call EXCEPT ![c].at = IF platform = "windows" THEN "write" ELSE "update",
                            ![c].value.value = v, ![c].seen = {item.value}]
    /\ UNCHANGED <<item, files>>

\* The caller has its result, or has died.
End(c) == call' = [call EXCEPT ![c] = NoCall] /\ UNCHANGED <<item, files>>

\* The context is checked when a call begins, before the rename of a save and
\* after the value of a load was read.
CheckContext(c) ==
    /\ c \in cancelled
    /\ call[c].at \in {"write", "update", "rename", "lstat", "copy", "loaded"}
    /\ Return(c, Failed)
    /\ UNCHANGED files

(* Windows: a temporary file, then a rename. *)

WriteTemporary(c) ==
    /\ call[c].at = "write"
    /\ files' = files + 1
    /\ call' = [call EXCEPT ![c].at = "rename", ![c].value.file = files']
    /\ UNCHANGED item

moveReplace_ThenContext(c) ==
    /\ call[c].at = "rename"
    /\ Commit(c, call[c].value, IF c \in cancelled THEN Failed ELSE Saved)
    /\ UNCHANGED files

moveReplace(c) ==
    /\ call[c].at = "rename"
    /\ Commit(c, call[c].value, Saved)
    /\ UNCHANGED files

Lstat(c) ==
    /\ call[c].at = "lstat"
    /\ IF item = NoItem THEN Return(c, NotFound)
       ELSE call' = [call EXCEPT ![c].at = "open", ![c].value = item] /\ UNCHANGED item
    /\ UNCHANGED files

\* Open: the file may be gone, or another one than lstat saw.
OpenFile(c) ==
    /\ call[c].at = "open"
    /\ IF item.file # call[c].value.file THEN Return(c, Failed)
       ELSE call' = [call EXCEPT ![c].at = "loaded", ![c].value = item] /\ UNCHANGED item
    /\ UNCHANGED files

(* Darwin: one call of the Keychain each, but two for the first save. *)

SecItemUpdate(c) ==
    /\ call[c].at = "update"
    /\ IF item = NoItem THEN Step(c, "add") ELSE Commit(c, call[c].value, Saved)
    /\ UNCHANGED files

\* Another call may have added the item: a duplicate is an error.
SecItemAdd(c) ==
    /\ call[c].at = "add"
    /\ IF item = NoItem THEN Commit(c, call[c].value, Saved) ELSE Return(c, Failed)
    /\ UNCHANGED files

SecItemCopyMatching(c) ==
    /\ call[c].at = "copy"
    /\ IF item = NoItem THEN Return(c, NotFound)
       ELSE call' = [call EXCEPT ![c].at = "loaded", ![c].value = item] /\ UNCHANGED item
    /\ UNCHANGED files

(* Both. *)

Loaded(c) ==
    /\ call[c].at = "loaded"
    /\ Return(c, call[c].value.value)
    /\ UNCHANGED files

\* A system call fails without an effect.
SystemCallFails(c) ==
    /\ call[c].at \notin {"none", "done"}
    /\ Return(c, Failed)
    /\ UNCHANGED files

Windows(c) == WriteTemporary(c) \/ moveReplace(c) \/ Lstat(c) \/ OpenFile(c)
Darwin(c) == SecItemUpdate(c) \/ SecItemAdd(c) \/ SecItemCopyMatching(c)
StoreStep(c) == CheckContext(c) \/ Windows(c) \/ Darwin(c) \/ Loaded(c) \/ SystemCallFails(c)
=============================================================================
