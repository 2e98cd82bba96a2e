------------------------- MODULE DesktopAgentProofs -------------------------
(***************************************************************************)
(* The credential of the desktop agent is complete and the calls of the    *)
(* secret store are atomic, for any number of run processes and attempts   *)
(* to create an account, on either platform, wherever a process fails, is  *)
(* cancelled or is killed.                                                 *)
(*                                                                         *)
(* The induction rests on two facts.  The set-up is the only caller that   *)
(* saves, and its preflight loads first: a credential is stored once, and  *)
(* a running call has seen nothing else than that or its absence           *)
(* (CallInv).  The set-up reaches its save only with the account, the      *)
(* keyring and the database of the same attempt (SetupInv).                *)
(***************************************************************************)
EXTENDS DesktopAgent, TLAPS

Credential == 1 .. MaxAttempt \cup {NotFound}
Item == [value : Credential, file : Nat]
Loading == {"lstat", "copy", "open", "loaded"}
Saving == {"write", "rename", "update", "add"}
Call == [at : Loading \cup Saving \cup {"none", "done"}, value : Item,
         result : Credential \cup {Saved, Failed, Pending}, seen : SUBSET Credential]
SetupStepName == {"idle", "preflight", "account", "keyring", "database", "bundle",
                  "credential", "recovery"}

TypeOK ==
    /\ item \in Item /\ files \in Nat
    /\ call \in [Process \cup {Setup} -> Call]
    /\ attempt \in 0 .. MaxAttempt /\ step \in SetupStepName
    /\ shown \subseteq 1 .. MaxAttempt
    /\ database \in Credential \cup {Partial}

\* A call d has seen what was stored while it ran, at most the one credential
\* that is stored now, and its result, if it is one, is among that.
CallInv(d) ==
    /\ d.seen \subseteq {NotFound, Stored}
    /\ d.at \in Loading => Stored \in d.seen
    /\ d.at = "loaded" => d.value.value \in d.seen
    /\ d.at = "done" <=> d.result # Pending
    /\ d.result \notin {Pending, Failed, Saved} => d.result \in d.seen

\* A run process only loads.
RunCall(d) == d.at \notin Saving /\ d.result # Saved

\* The call of the set-up, by its step.
SetupCall(d) ==
    /\ step = "preflight" =>
           /\ d.at \in Loading \cup {"done"} /\ d.result # Saved
           /\ d.seen \subseteq {Stored}
    /\ step = "credential" =>
           /\ d.at \in Saving \cup {"done"} /\ d.result \in {Pending, Saved, Failed}
           /\ d.at \in Saving => d.value.value = attempt
           /\ Stored = IF d.result = Saved THEN attempt ELSE NotFound
    /\ step \notin {"preflight", "credential"} => d = Secrets!NoCall

\* What an attempt has done before each of its steps.
SetupInv ==
    /\ step # "idle" => attempt \in 1 .. MaxAttempt
    /\ step \in {"account", "keyring", "database", "bundle"} => Stored = NotFound
    /\ step \in {"keyring", "database", "bundle", "credential", "recovery"} => attempt \in accounts
    /\ step \in {"database", "bundle", "credential", "recovery"} => attempt \in keyrings
    /\ step \in {"bundle", "credential", "recovery"} => database = attempt
    /\ step = "recovery" => Stored = attempt

AgentInv ==
    /\ TypeOK /\ SetupInv /\ CredentialIsComplete
    /\ \A c \in Process \cup {Setup} : CallInv(call[c])
    /\ \A p \in Process : RunCall(call[p])
    /\ SetupCall(call[Setup])

-----------------------------------------------------------------------------
(* A call of the secret store. *)

\* A step that replaces the call of c by d, and leaves the credential and the
\* set-up as they are, has to look at d alone.
LEMMA CallStep ==
    ASSUME AgentInv, NEW c \in Process \cup {Setup}, NEW d \in Call,
           call' = [call EXCEPT ![c] = d], CallInv(d),
           c \in Process => RunCall(d), c = Setup => SetupCall(d),
           UNCHANGED <<item, provisionVars, refused>>, files' \in Nat
    PROVE  AgentInv'
<1>1. TypeOK' /\ SetupInv' /\ CredentialIsComplete'
  BY DEF AgentInv, TypeOK, SetupInv, CredentialIsComplete, Stored, provisionVars
<1>2. Setup \notin Process
  BY SetupAssumption
<1>3. \A b \in Process \cup {Setup} : call'[b] = IF b = c THEN d ELSE call[b]
  BY DEF AgentInv, TypeOK
<1>4. ASSUME NEW b \in Process \cup {Setup} PROVE CallInv(call[b])'
  BY <1>3 DEF AgentInv, CallInv, Stored
<1>5. ASSUME NEW p \in Process PROVE RunCall(call[p])'
  BY <1>3, <1>2 DEF AgentInv, RunCall
<1>6. SetupCall(call[Setup])'
  BY <1>3 DEF AgentInv, SetupCall, Stored, provisionVars, Secrets!NoCall, Secrets!NoItem
<1> QED
  BY <1>1, <1>4, <1>5, <1>6 DEF AgentInv

\* A running call returns: an error, or what a load has seen.
LEMMA ReturnStep ==
    ASSUME AgentInv, NEW c \in Process \cup {Setup},
           NEW r \in Credential \cup {Failed}, Secrets!Return(c, r),
           call[c].at \notin {"none", "done"},
           r # Failed => call[c].at \in Loading /\ r \in call[c].seen,
           UNCHANGED <<provisionVars, refused, files>>
    PROVE  AgentInv'
<1> DEFINE d == [call[c] EXCEPT !.at = "done", !.result = r]
<1>1. call[c] \in Call /\ CallInv(call[c]) /\ call' = [call EXCEPT ![c] = d]
  BY Zenon DEF AgentInv, TypeOK, Secrets!Return, Call
<1>2. /\ d \in Call /\ d.at = "done" /\ d.result = r
      /\ d.seen = call[c].seen /\ d.value = call[c].value
  BY <1>1, Zenon DEF Call
<1>3. r \notin {Pending, Saved}
  BY ResultAssumption DEF Credential
<1> HIDE DEF d
<1>4. CallInv(d) /\ RunCall(d)
  BY <1>1, <1>2, <1>3 DEF CallInv, RunCall, Loading, Saving
<1>5. CASE c # Setup
  BY <1>1, <1>2, <1>4, <1>5, CallStep, Zenon DEF AgentInv, TypeOK, Secrets!Return
<1>6. CASE c = Setup
  <2>1. SetupCall(call[c]) /\ step \in {"preflight", "credential"}
    BY <1>6 DEF AgentInv, SetupCall, Secrets!NoCall
  <2>2. call[c].result = Pending
    BY <1>1 DEF CallInv
  <2>3. step = "credential" => r = Failed
    BY <2>1 DEF SetupCall, Loading, Saving
  <2>4. SetupCall(d)
    BY <1>2, <1>3, <2>1, <2>2, <2>3, ResultAssumption DEF SetupCall, Saving
  <2> QED
    BY <1>1, <1>2, <1>4, <2>4, CallStep, Zenon DEF AgentInv, TypeOK, Secrets!Return
<1> QED
  BY <1>5, <1>6

\* A load goes on to its next step with the item of this moment; a save goes on
\* with the same credential.
LEMMA AdvanceStep ==
    ASSUME AgentInv, NEW c \in Process \cup {Setup},
           NEW a \in Loading \cup Saving, NEW v \in Item,
           call' = [call EXCEPT ![c].at = a, ![c].value = v],
           \/ call[c].at \in Loading /\ a \in Loading /\ v = item
           \/ call[c].at \in Saving /\ a \in Saving /\ v.value = call[c].value.value,
           UNCHANGED <<item, provisionVars, refused>>, files' \in Nat
    PROVE  AgentInv'
<1> DEFINE d == [call[c] EXCEPT !.at = a, !.value = v]
<1>1. call[c] \in Call /\ CallInv(call[c]) /\ call' = [call EXCEPT ![c] = d]
  BY Zenon DEF AgentInv, TypeOK, Call
<1>2. /\ d \in Call /\ d.at = a /\ d.value = v
      /\ d.seen = call[c].seen /\ d.result = call[c].result
  BY <1>1, Zenon DEF Call
<1> HIDE DEF d
<1>3. call[c].result = Pending
  BY <1>1 DEF CallInv, Loading, Saving
<1>4. CallInv(d)
  BY <1>1, <1>2, <1>3 DEF CallInv, Stored, Loading, Saving
<1>5. c \in Process => RunCall(d)
  BY <1>2 DEF AgentInv, RunCall, Loading, Saving
<1>6. ASSUME c = Setup PROVE SetupCall(d)
  <2>1. SetupCall(call[c]) /\ step \in {"preflight", "credential"}
    BY <1>6 DEF AgentInv, SetupCall, Secrets!NoCall, Loading, Saving
  <2> QED
    BY <1>2, <2>1 DEF SetupCall, Loading, Saving
<1> QED
  BY <1>1, <1>2, <1>4, <1>5, <1>6, CallStep, Zenon

\* Only the set-up saves, and it stores the credential of its attempt where
\* there was none.
LEMMA SavesOnce ==
    ASSUME AgentInv, NEW c \in Process \cup {Setup}, call[c].at \in Saving
    PROVE  /\ c = Setup /\ step = "credential" /\ Stored = NotFound
           /\ call[c].value.value = attempt /\ attempt \in 1 .. MaxAttempt
<1>1. c = Setup
  BY DEF AgentInv, RunCall
<1>2. step = "credential"
  BY <1>1 DEF AgentInv, SetupCall, Secrets!NoCall, Loading, Saving
<1>3. call[c].result = Pending
  BY DEF AgentInv, CallInv, Saving
<1> QED
  BY <1>1, <1>2, <1>3, ResultAssumption DEF AgentInv, SetupCall, SetupInv

\* moveReplace, SecItemUpdate or SecItemAdd puts the credential of the attempt in
\* place, and the running calls see it.
LEMMA CommitStep ==
    ASSUME AgentInv, NEW c \in Process \cup {Setup}, call[c].at \in Saving,
           Secrets!Commit(c, call[c].value, Saved),
           UNCHANGED <<provisionVars, refused, files>>
    PROVE  AgentInv'
<1>1. /\ c = Setup /\ step = "credential" /\ Stored = NotFound
      /\ call[c].value.value = attempt /\ attempt \in 1 .. MaxAttempt
  BY SavesOnce
<1>2. /\ item' = call[c].value /\ Stored' = attempt
      /\ step' = "credential" /\ attempt' = attempt
  BY <1>1, Zenon DEF Secrets!Commit, Stored, provisionVars
<1>3. \A b \in Process \cup {Setup} : call[b] \in Call /\ CallInv(call[b])
  BY DEF AgentInv, TypeOK
<1>4. Setup \notin Process /\ attempt # NotFound /\ attempt \in Credential
  BY <1>1, SetupAssumption, ResultAssumption DEF Credential
<1> DEFINE mine == [call[c] EXCEPT !.at = "done", !.result = Saved]
           other(b) == [call[b] EXCEPT !.seen = @ \cup {attempt}]
           After(b) == IF b = c THEN mine
                       ELSE IF call[b].at = "none" THEN call[b] ELSE other(b)
<1>5. call' = [b \in Process \cup {Setup} |-> After(b)]
  BY <1>1, Zenon DEF Secrets!Commit
<1>6. /\ mine \in Call /\ mine.at = "done" /\ mine.result = Saved
      /\ mine.seen = call[c].seen
  BY <1>3, Zenon DEF Call
<1>7. ASSUME NEW b \in Process \cup {Setup}
      PROVE  /\ other(b) \in Call /\ other(b).at = call[b].at
             /\ other(b).result = call[b].result /\ other(b).value = call[b].value
             /\ other(b).seen = call[b].seen \cup {attempt}
  BY <1>3, <1>4 DEF Call
<1> HIDE DEF mine, other
<1>8. call' \in [Process \cup {Setup} -> Call]
  BY <1>3, <1>5, <1>6, <1>7
<1>9. TypeOK'
  BY <1>2, <1>3, <1>8 DEF AgentInv, TypeOK, provisionVars, Call
<1>10. SetupInv'
  BY <1>1, <1>2 DEF AgentInv, SetupInv, provisionVars
<1>11. CredentialIsComplete'
  <2>1. shown = {}
    BY <1>1, ResultAssumption DEF AgentInv, TypeOK, CredentialIsComplete
  <2> QED
    BY <1>1, <1>2, <2>1 DEF AgentInv, SetupInv, CredentialIsComplete, provisionVars
<1>12. ASSUME NEW b \in Process \cup {Setup} PROVE CallInv(call[b])'
  <2>1. call'[b] = After(b)
    BY <1>5
  <2>2. CASE b = c
    BY <1>1, <1>2, <1>3, <1>6, <2>1, <2>2, ResultAssumption DEF CallInv, Loading
  <2>3. CASE b # c /\ call[b].at = "none"
    BY <1>1, <1>2, <1>3, <2>1, <2>3 DEF CallInv, Loading
  <2>4. CASE b # c /\ call[b].at # "none"
    BY <1>1, <1>2, <1>3, <1>7, <2>1, <2>4 DEF CallInv
  <2> QED
    BY <2>2, <2>3, <2>4
<1>13. ASSUME NEW p \in Process PROVE RunCall(call[p])'
  <2>1. call'[p] = IF call[p].at = "none" THEN call[p] ELSE other(p)
    BY <1>1, <1>4, <1>5
  <2> QED
    BY <1>7, <2>1 DEF AgentInv, RunCall
<1>14. SetupCall(call[Setup])'
  <2>1. call'[Setup] = mine
    BY <1>1, <1>5
  <2> QED
    BY <1>2, <1>6, <2>1 DEF SetupCall, Saving
<1> QED
  BY <1>9, <1>10, <1>11, <1>12, <1>13, <1>14 DEF AgentInv

\* Every step of a call, on either platform, is one of the above.
LEMMA StoreCallStep ==
    ASSUME AgentInv, NEW c \in Process \cup {Setup}, StoreCall(c)
    PROVE  AgentInv'
<1> USE DEF StoreCall
<1>1. UNCHANGED <<provisionVars, refused>>
  OBVIOUS
<1>2. call[c] \in Call /\ CallInv(call[c]) /\ item \in Item /\ files \in Nat
  BY DEF AgentInv, TypeOK
<1>3. Failed \notin Credential
  BY ResultAssumption DEF Credential
<1>4. CASE Secrets!CheckContext(c)
  BY <1>1, <1>4, ReturnStep DEF Secrets!CheckContext
<1>5. CASE Secrets!SystemCallFails(c)
  BY <1>1, <1>5, ReturnStep DEF Secrets!SystemCallFails
<1>6. CASE Secrets!Loaded(c)
  <2>1. call[c].value.value \in Credential /\ call[c].value.value \in call[c].seen
    BY <1>2, <1>6 DEF Secrets!Loaded, CallInv, Call, Item
  <2> QED
    BY <1>1, <1>6, <2>1, ReturnStep DEF Secrets!Loaded, Loading
<1>7. CASE Secrets!WriteTemporary(c)
  <2> DEFINE v == [call[c].value EXCEPT !.file = files + 1]
  <2>1. call[c].value \in Item /\ files' = files + 1 /\ files' \in Nat
    BY <1>2, <1>7 DEF Secrets!WriteTemporary, Call
  <2>2. v \in Item /\ v.value = call[c].value.value
    BY <1>2, <2>1 DEF Item
  <2>3. call' = [call EXCEPT ![c].at = "rename", ![c].value = v]
    <3>1. [call[c] EXCEPT !.at = "rename", !.value.file = files + 1]
              = [call[c] EXCEPT !.at = "rename", !.value = v]
      BY <1>2 DEF Call
    <3>2. call' = [call EXCEPT ![c] =
                      [call[c] EXCEPT !.at = "rename", !.value.file = files + 1]]
      BY <2>1, <1>7, Zenon DEF Secrets!WriteTemporary, AgentInv, TypeOK
    <3> QED
      BY <3>1, <3>2, Zenon DEF AgentInv, TypeOK
  <2>4. call[c].at \in Saving /\ "rename" \in Saving /\ UNCHANGED item
    BY <1>7 DEF Secrets!WriteTemporary, Saving
  <2> HIDE DEF v, StoreCall
  <2> QED
    BY <1>1, <2>1, <2>2, <2>3, <2>4, AdvanceStep, Zenon
<1>8. CASE Secrets!moveReplace(c)
  BY <1>1, <1>8, CommitStep DEF Secrets!moveReplace, Saving
<1>9. ASSUME Secrets!Lstat(c) \/ Secrets!SecItemCopyMatching(c) PROVE AgentInv'
  <2>1. call[c].at \in Loading /\ item.value \in call[c].seen
    BY <1>2, <1>9 DEF Secrets!Lstat, Secrets!SecItemCopyMatching, CallInv, Loading, Stored
  <2>2. CASE item = Secrets!NoItem
    <3>1. NotFound \in call[c].seen /\ NotFound \in Credential
      BY <2>1, <2>2 DEF Secrets!NoItem, Credential
    <3>2. Secrets!Return(c, NotFound) /\ UNCHANGED files
      BY <1>9, <2>2 DEF Secrets!Lstat, Secrets!SecItemCopyMatching
    <3> QED
      BY <1>1, <2>1, <3>1, <3>2, ReturnStep DEF Loading
  <2>3. CASE item # Secrets!NoItem
    <3>1. PICK a \in {"open", "loaded"} :
             /\ call' = [call EXCEPT ![c].at = a, ![c].value = item]
             /\ UNCHANGED <<item, files>>
      BY <1>9, <2>3 DEF Secrets!Lstat, Secrets!SecItemCopyMatching
    <3> QED
      BY <1>1, <1>2, <2>1, <3>1, AdvanceStep, Zenon DEF Loading
  <2> QED
    BY <2>2, <2>3
<1>10. CASE Secrets!OpenFile(c)
  <2>1. CASE item.file # call[c].value.file
    BY <1>1, <1>10, <2>1, ReturnStep DEF Secrets!OpenFile
  <2>2. CASE item.file = call[c].value.file
    BY <1>1, <1>2, <1>10, <2>2, AdvanceStep DEF Secrets!OpenFile, Loading
  <2> QED
    BY <2>1, <2>2
<1>11. CASE Secrets!SecItemUpdate(c)
  <2>1. CASE item # Secrets!NoItem
    BY <1>1, <1>11, <2>1, CommitStep DEF Secrets!SecItemUpdate, Saving
  <2>2. CASE item = Secrets!NoItem
    <3>1. /\ call' = [call EXCEPT ![c].at = "add", ![c].value = call[c].value]
          /\ call[c].value \in Item /\ UNCHANGED <<item, files>>
      BY <1>2, <1>11, <2>2 DEF Secrets!SecItemUpdate, Secrets!Step, Call, AgentInv, TypeOK
    <3> QED
      BY <1>1, <1>2, <1>11, <3>1, AdvanceStep, Zenon DEF Secrets!SecItemUpdate, Saving
  <2> QED
    BY <2>1, <2>2
<1>12. CASE Secrets!SecItemAdd(c)
  <2>1. CASE item = Secrets!NoItem
    BY <1>1, <1>12, <2>1, CommitStep DEF Secrets!SecItemAdd, Saving
  <2>2. CASE item # Secrets!NoItem
    BY <1>1, <1>12, <2>2, ReturnStep, Zenon DEF Secrets!SecItemAdd
  <2> QED
    BY <2>1, <2>2
<1> QED
  BY <1>4, <1>5, <1>6, <1>7, <1>8, <1>9, <1>10, <1>11, <1>12
     DEF Secrets!StoreStep, Secrets!Windows, Secrets!Darwin

-----------------------------------------------------------------------------
(* A run process. *)

\* A caller without a call.
LEMMA NoCallInv ==
    ASSUME AgentInv
    PROVE  Secrets!NoCall \in Call /\ CallInv(Secrets!NoCall) /\ RunCall(Secrets!NoCall)
  BY ResultAssumption
     DEF Secrets!NoCall, Secrets!NoItem, Call, Item, Credential, CallInv, RunCall,
         Loading, Saving

\* A call that begins to load sees what is stored.
LEMMA LoadInv ==
    ASSUME AgentInv, NEW a \in {"lstat", "copy"}, NEW d,
           d = [Secrets!NoCall EXCEPT !.at = a, !.seen = {item.value}]
    PROVE  /\ d \in Call /\ CallInv(d) /\ RunCall(d)
           /\ d.at = a /\ d.result = Pending /\ d.seen = {Stored}
<1>1. /\ d.at = a /\ d.seen = {item.value} /\ d.result = Pending
      /\ d = [at |-> a, value |-> Secrets!NoItem, result |-> Pending, seen |-> {item.value}]
  BY Zenon DEF Secrets!NoCall
<1>2. d \in Call
  BY <1>1 DEF AgentInv, TypeOK, Secrets!NoItem, Call, Item, Credential, Loading
<1>3. CallInv(d) /\ RunCall(d)
  BY <1>1, ResultAssumption DEF CallInv, RunCall, Stored, Loading, Saving
<1> QED
  BY <1>1, <1>2, <1>3 DEF Stored

\* A run process has its result, or dies.
LEMMA EndStep ==
    ASSUME AgentInv, NEW p \in Process, Secrets!End(p), UNCHANGED <<provisionVars, refused>>
    PROVE  AgentInv'
<1>1. p # Setup /\ files' \in Nat
  BY SetupAssumption DEF Secrets!End, AgentInv, TypeOK
<1> QED
  BY <1>1, NoCallInv, CallStep, Zenon DEF Secrets!End

\* Nothing of the store or the set-up changes.
LEMMA QuietStep ==
    ASSUME AgentInv, UNCHANGED <<storeVars, provisionVars, refused>>
    PROVE  AgentInv'
<1>1. TypeOK' /\ SetupInv' /\ CredentialIsComplete'
  BY DEF AgentInv, TypeOK, SetupInv, CredentialIsComplete, Stored, storeVars, provisionVars
<1>2. \A c \in Process \cup {Setup} : CallInv(call[c])'
  BY DEF AgentInv, CallInv, Stored, storeVars
<1>3. \A p \in Process : RunCall(call[p])'
  BY DEF AgentInv, RunCall, storeVars
<1>4. SetupCall(call[Setup])'
  BY DEF AgentInv, SetupCall, Stored, storeVars, provisionVars, Secrets!NoCall, Secrets!NoItem
<1> QED
  BY <1>1, <1>2, <1>3, <1>4 DEF AgentInv

\* runLoop by itself touches the store only to begin a load.
LEMMA LoopStep ==
    ASSUME AgentInv, NEW p \in Process, Loop(p)
    PROVE  AgentInv'
<1>1. CASE UNCHANGED storeVars
  BY <1>1, QuietStep DEF Loop
<1>2. CASE Secrets!BeginLoad(p)
  <2>1. p # Setup /\ files' \in Nat /\ UNCHANGED item
    BY <1>2, SetupAssumption DEF Secrets!BeginLoad, AgentInv, TypeOK
  <2>2. PICK a \in {"lstat", "copy"} :
           call' = [call EXCEPT ![p] = [Secrets!NoCall EXCEPT !.at = a, !.seen = {item.value}]]
    BY <1>2, Zenon DEF Secrets!BeginLoad, AgentInv, TypeOK
  <2> DEFINE d == [Secrets!NoCall EXCEPT !.at = a, !.seen = {item.value}]
  <2>3. d \in Call /\ CallInv(d) /\ RunCall(d)
    BY LoadInv, Zenon
  <2> HIDE DEF d
  <2> QED
    BY <2>1, <2>2, <2>3, CallStep, Zenon DEF Loop, d
<1> QED
  BY <1>1, <1>2 DEF Loop

\* A load of a run process ends with the stored credential, which is complete:
\* the database is its own and the relay has its account.
LEMMA SyncOnceStep ==
    ASSUME AgentInv, NEW p \in Process, SyncOnce(p)
    PROVE  AgentInv'
<1> DEFINE credential == call[p].result
<1>1. CASE credential \in {NotFound, Failed} \/ database = NotFound
  BY <1>1, EndStep DEF SyncOnce
<1>2. CASE ~(credential \in {NotFound, Failed} \/ database = NotFound)
  <2>1. credential \notin {Pending, Saved}
    BY DEF AgentInv, CallInv, RunCall, SyncOnce
  <2>2. credential = Stored /\ Stored # NotFound
    BY <1>2, <2>1 DEF AgentInv, CallInv
  <2>3. Stored \in 1 .. MaxAttempt
    BY <2>2 DEF AgentInv, TypeOK, Item, Credential, Stored
  <2>4. database = credential /\ credential \in accounts /\ database # Partial
    BY <2>2, <2>3, ResultAssumption DEF AgentInv, CredentialIsComplete
  <2>5. UNCHANGED <<provisionVars, refused>>
    BY <1>2, <2>4 DEF SyncOnce, Account!OpenForDevice, provisionVars
  <2> QED
    BY <2>5, EndStep DEF SyncOnce
<1> QED
  BY <1>1, <1>2

-----------------------------------------------------------------------------
(* The set-up. *)

\* What the other calls keep when the set-up begins or ends one of its own.
LEMMA SetupCalls ==
    ASSUME AgentInv, NEW d \in Call, CallInv(d),
           call' = [call EXCEPT ![Setup] = d], UNCHANGED <<item, files>>
    PROVE  /\ call' \in [Process \cup {Setup} -> Call] /\ call'[Setup] = d
           /\ \A c \in Process \cup {Setup} : CallInv(call[c])'
           /\ \A p \in Process : RunCall(call[p])'
<1>1. \A b \in Process \cup {Setup} : call'[b] = IF b = Setup THEN d ELSE call[b]
  BY DEF AgentInv, TypeOK
<1>2. call' \in [Process \cup {Setup} -> Call] /\ call'[Setup] = d
  BY <1>1 DEF AgentInv, TypeOK
<1>3. ASSUME NEW b \in Process \cup {Setup} PROVE CallInv(call[b])'
  BY <1>1 DEF AgentInv, CallInv, Stored
<1>4. ASSUME NEW p \in Process PROVE RunCall(call[p])'
  BY <1>1, SetupAssumption DEF AgentInv, RunCall
<1> QED
  BY <1>2, <1>3, <1>4

\* An attempt begins with a load.
LEMMA BeginStep ==
    ASSUME AgentInv, attempt < MaxAttempt, Account!Begin, Secrets!BeginLoad(Setup),
           UNCHANGED refused
    PROVE  AgentInv'
<1>1. PICK a \in {"lstat", "copy"} :
         call' = [call EXCEPT ![Setup] = [Secrets!NoCall EXCEPT !.at = a, !.seen = {item.value}]]
  BY Zenon DEF Secrets!BeginLoad, AgentInv, TypeOK
<1> DEFINE d == [Secrets!NoCall EXCEPT !.at = a, !.seen = {item.value}]
<1>2. /\ d \in Call /\ CallInv(d) /\ RunCall(d)
      /\ d.at = a /\ d.result = Pending /\ d.seen = {Stored}
  BY LoadInv, Zenon
<1>3. call' = [call EXCEPT ![Setup] = d] /\ UNCHANGED <<item, files>>
  BY <1>1, Zenon DEF Secrets!BeginLoad
<1> HIDE DEF d
<1>4. /\ call' \in [Process \cup {Setup} -> Call] /\ call'[Setup] = d
      /\ \A c \in Process \cup {Setup} : CallInv(call[c])'
      /\ \A p \in Process : RunCall(call[p])'
  BY <1>2, <1>3, SetupCalls, Zenon
<1>5. /\ step' = "preflight" /\ attempt' = attempt + 1 /\ attempt' \in 1 .. MaxAttempt
      /\ UNCHANGED <<accounts, keyrings, database, shown, refused>> /\ Stored' = Stored
  BY <1>3, SetupAssumption DEF Account!Begin, AgentInv, TypeOK, Stored
<1>6. TypeOK' /\ SetupInv'
  BY <1>3, <1>4, <1>5 DEF AgentInv, TypeOK, SetupInv, SetupStepName
<1>7. CredentialIsComplete'
  BY <1>5 DEF AgentInv, CredentialIsComplete
<1>8. SetupCall(call[Setup])'
  BY <1>2, <1>4, <1>5, ResultAssumption DEF SetupCall, Loading
<1> QED
  BY <1>4, <1>6, <1>7, <1>8 DEF AgentInv

\* The set-up ends its call and goes on, or stops.
LEMMA EndSetupStep ==
    ASSUME AgentInv, Secrets!End(Setup), UNCHANGED refused,
           UNCHANGED <<attempt, accounts, keyrings, database, shown>>,
           \/ step' = "idle"
           \/ /\ step = "preflight" /\ step' = "account" /\ database = NotFound
              /\ call[Setup].result = NotFound
           \/ step = "credential" /\ step' = "recovery" /\ call[Setup].result = Saved
    PROVE  AgentInv'
<1>1. /\ call' \in [Process \cup {Setup} -> Call] /\ call'[Setup] = Secrets!NoCall
      /\ \A c \in Process \cup {Setup} : CallInv(call[c])'
      /\ \A p \in Process : RunCall(call[p])'
  BY NoCallInv, SetupCalls, Zenon DEF Secrets!End
<1>2. UNCHANGED <<item, files>> /\ Stored' = Stored
  BY DEF Secrets!End, Stored
<1>3. ASSUME step = "preflight", step' = "account", call[Setup].result = NotFound
      PROVE  Stored = NotFound
  BY <1>3, ResultAssumption DEF AgentInv, CallInv, SetupCall
<1>4. TypeOK'
  BY <1>1, <1>2 DEF AgentInv, TypeOK, SetupStepName
<1>5. SetupInv'
  BY <1>2, <1>3 DEF AgentInv, SetupInv, SetupCall
<1>6. CredentialIsComplete'
  BY <1>2, <1>3 DEF AgentInv, CredentialIsComplete
<1>7. SetupCall(call[Setup])'
  BY <1>1 DEF SetupCall, Secrets!NoCall, Secrets!NoItem
<1> QED
  BY <1>1, <1>4, <1>5, <1>6, <1>7 DEF AgentInv

\* The save of the credential begins.
LEMMA BeginSaveStep ==
    ASSUME AgentInv, Account!BeginSave, Secrets!BeginSave(Setup, attempt), UNCHANGED refused
    PROVE  AgentInv'
<1>1. /\ step = "bundle" /\ step' = "credential"
      /\ UNCHANGED <<attempt, accounts, keyrings, database, shown, item, files, refused>>
      /\ Stored' = Stored
  BY DEF Account!BeginSave, Secrets!BeginSave, Stored
<1>2. Stored = NotFound /\ attempt \in 1 .. MaxAttempt
  BY <1>1 DEF AgentInv, SetupInv
<1>3. PICK a \in {"write", "update"} :
         call' = [call EXCEPT ![Setup].at = a, ![Setup].value.value = attempt,
                              ![Setup].seen = {item.value}]
  BY Zenon DEF Secrets!BeginSave
<1> DEFINE v == [Secrets!NoCall.value EXCEPT !.value = attempt]
           d == [Secrets!NoCall EXCEPT !.at = a, !.value = v, !.seen = {item.value}]
<1>4. Secrets!NoCall \in Call /\ Secrets!NoCall.result = Pending
  BY NoCallInv DEF Secrets!NoCall
<1>5. call' = [call EXCEPT ![Setup] = d]
  <2>1. [Secrets!NoCall EXCEPT !.at = a, !.value.value = attempt, !.seen = {item.value}] = d
    BY <1>4 DEF Call
  <2>2. call' = [call EXCEPT ![Setup] =
          [call[Setup] EXCEPT !.at = a, !.value.value = attempt, !.seen = {item.value}]]
    BY <1>3, Zenon DEF AgentInv, TypeOK
  <2> QED
    BY <2>1, <2>2, Zenon DEF Secrets!BeginSave
<1>6. v \in Item /\ v.value = attempt
  BY <1>2, <1>4 DEF Call, Item, Credential
<1> HIDE DEF v
<1>7. /\ d \in Call /\ d.at = a /\ d.result = Pending /\ d.value.value = attempt
      /\ d.seen = {Stored}
  BY <1>4, <1>6, Zenon DEF AgentInv, TypeOK, Call, Item, Saving, Stored
<1> HIDE DEF d
<1>8. CallInv(d)
  BY <1>7 DEF CallInv, Loading
<1>9. /\ call' \in [Process \cup {Setup} -> Call] /\ call'[Setup] = d
      /\ \A c \in Process \cup {Setup} : CallInv(call[c])'
      /\ \A p \in Process : RunCall(call[p])'
  BY <1>1, <1>5, <1>7, <1>8, SetupCalls, Zenon
<1>10. TypeOK' /\ SetupInv' /\ CredentialIsComplete'
  BY <1>1, <1>9, SMTT(30) DEF AgentInv, TypeOK, SetupInv, CredentialIsComplete, SetupStepName
<1>11. SetupCall(call[Setup])'
  BY <1>1, <1>2, <1>7, <1>9, ResultAssumption DEF SetupCall, Saving
<1> QED
  BY <1>9, <1>10, <1>11 DEF AgentInv

\* The steps of an attempt between its calls of the secret store, and the
\* removal of the database of one that ended.
LEMMA BetweenCalls ==
    ASSUME AgentInv, UNCHANGED <<storeVars, refused>>,
           \/ Account!CreateAccount \/ Account!PutKeyring
           \/ Account!InitializeStore \/ Account!EncodeRecoveryKey
           \/ Account!RemoveDatabase /\ item = Secrets!NoItem
    PROVE  AgentInv'
<1>1. Stored' = Stored /\ call' = call /\ attempt' = attempt
  BY DEF Stored, storeVars, Account!CreateAccount, Account!PutKeyring,
         Account!InitializeStore, Account!EncodeRecoveryKey, Account!RemoveDatabase
<1>2. step \notin {"preflight", "credential"} /\ step' \notin {"preflight", "credential"}
  BY Zenon DEF Account!CreateAccount, Account!PutKeyring, Account!InitializeStore,
         Account!EncodeRecoveryKey, Account!RemoveDatabase
<1>3. SetupCall(call[Setup])'
  BY <1>1, <1>2, Zenon DEF AgentInv, SetupCall, Secrets!NoCall, Secrets!NoItem
<1>4. /\ \A c \in Process \cup {Setup} : CallInv(call[c])'
      /\ \A p \in Process : RunCall(call[p])'
  BY <1>1 DEF AgentInv, CallInv, RunCall
<1>5. step # "idle" => attempt \in 1 .. MaxAttempt /\ attempt \in Credential
  BY DEF AgentInv, SetupInv, Credential
<1>6. TypeOK' /\ SetupInv' /\ CredentialIsComplete'
  <2>1. CASE Account!CreateAccount
    BY <1>1, <1>5, <2>1 DEF Account!CreateAccount, AgentInv, TypeOK, SetupInv,
       CredentialIsComplete, SetupStepName, storeVars
  <2>2. CASE Account!PutKeyring
    BY <1>1, <1>5, <2>2 DEF Account!PutKeyring, AgentInv, TypeOK, SetupInv,
       CredentialIsComplete, SetupStepName, storeVars
  <2>3. CASE Account!InitializeStore
    BY <1>1, <1>5, <2>3 DEF Account!InitializeStore, AgentInv, TypeOK, SetupInv,
       CredentialIsComplete, SetupStepName, storeVars
  <2>4. CASE Account!EncodeRecoveryKey
    BY <1>1, <1>5, <2>4 DEF Account!EncodeRecoveryKey, AgentInv, TypeOK, SetupInv,
       CredentialIsComplete, SetupStepName, storeVars
  <2>5. CASE Account!RemoveDatabase /\ item = Secrets!NoItem
    <3>1. Stored = NotFound
      BY <2>5 DEF Stored, Secrets!NoItem
    <3> QED
      BY <1>1, <2>5, <3>1 DEF Account!RemoveDatabase, AgentInv, TypeOK, SetupInv,
         CredentialIsComplete, SetupStepName, storeVars, Credential
  <2> QED
    BY <2>1, <2>2, <2>3, <2>4, <2>5
<1> QED
  BY <1>3, <1>4, <1>6 DEF AgentInv

\* Every step of the set-up is one of the above.
LEMMA SetupStepStep ==
    ASSUME AgentInv, SetupStep
    PROVE  AgentInv'
<1>1. CASE attempt < MaxAttempt /\ Account!Begin /\ Secrets!BeginLoad(Setup)
  BY <1>1, BeginStep, Zenon DEF SetupStep
<1>2. CASE Secrets!End(Setup) /\ (\/ Account!Preflight(call[Setup].result)
                                  \/ Account!SaveCredential(call[Setup].result = Saved)
                                  \/ Account!Abandon)
  BY <1>2, EndSetupStep, Zenon
  DEF SetupStep, Account!Preflight, Account!SaveCredential, Account!Abandon
<1>3. CASE Account!BeginSave /\ Secrets!BeginSave(Setup, attempt)
  BY <1>3, BeginSaveStep DEF SetupStep
<1>4. CASE UNCHANGED storeVars /\ (\/ Account!CreateAccount \/ Account!PutKeyring
                                   \/ Account!InitializeStore \/ Account!EncodeRecoveryKey
                                   \/ Account!RemoveDatabase /\ item = Secrets!NoItem)
  BY <1>4, BetweenCalls DEF SetupStep
<1>5. \/ attempt < MaxAttempt /\ Account!Begin /\ Secrets!BeginLoad(Setup)
      \/ /\ \/ Account!Preflight(call[Setup].result)
            \/ Account!SaveCredential(call[Setup].result = Saved)
         /\ Secrets!End(Setup)
      \/ Account!BeginSave /\ Secrets!BeginSave(Setup, attempt)
      \/ /\ Account!CreateAccount \/ Account!PutKeyring \/ Account!InitializeStore
                \/ Account!EncodeRecoveryKey
         /\ UNCHANGED storeVars
      \/ Account!Abandon /\ Secrets!End(Setup)
      \/ Account!RemoveDatabase /\ item = Secrets!NoItem /\ UNCHANGED storeVars
  BY Zenon DEF SetupStep
<1> QED
  BY <1>1, <1>2, <1>3, <1>4, <1>5, Zenon

-----------------------------------------------------------------------------
(* The theorems. *)

\* AgentInv holds of every reachable state.
THEOREM AgentInvariant == Spec => []AgentInv
<1>1. ASSUME Init PROVE AgentInv
  <2> USE <1>1 DEF Init, Secrets!StoreInit, Account!ProvisionInit
  <2>1. item = Secrets!NoItem /\ item \in Item /\ Stored = NotFound
    BY DEF Secrets!NoItem, Item, Credential, Stored
  <2>2. Secrets!NoCall \in Call
    BY Zenon DEF Secrets!NoCall, Secrets!NoItem, Call, Item, Credential
  <2>3. CallInv(Secrets!NoCall) /\ RunCall(Secrets!NoCall)
    BY ResultAssumption DEF Secrets!NoCall, CallInv, RunCall, Loading, Saving
  <2>4. TypeOK
    BY <2>1, <2>2, SetupAssumption DEF TypeOK, Credential, SetupStepName
  <2>5. SetupInv /\ CredentialIsComplete /\ SetupCall(Secrets!NoCall)
    BY <2>1 DEF SetupInv, CredentialIsComplete, SetupCall
  <2> QED
    BY <2>3, <2>4, <2>5 DEF AgentInv
<1>2. ASSUME AgentInv, [Next]_vars PROVE AgentInv'
  <2>1. ASSUME NEW p \in Process, Loop(p) PROVE AgentInv'
    BY <1>2, <2>1, LoopStep
  <2>2. ASSUME NEW p \in Process, SyncOnce(p) PROVE AgentInv'
    BY <1>2, <2>2, SyncOnceStep
  <2>3. ASSUME NEW p \in Process, StartOrCancel(p) PROVE AgentInv'
    BY <1>2, <2>3, QuietStep DEF StartOrCancel
  <2>4. ASSUME NEW p \in Process, KillRun(p) PROVE AgentInv'
    BY <1>2, <2>4, EndStep DEF KillRun
  <2>5. ASSUME NEW c \in Process \cup {Setup}, StoreCall(c) PROVE AgentInv'
    BY <1>2, <2>5, StoreCallStep
  <2>6. CASE SetupStep
    BY <1>2, <2>6, SetupStepStep
  <2>7. CASE CancelSetup \/ Time
    BY <1>2, <2>7, QuietStep DEF CancelSetup, Time
  <2>8. CASE UNCHANGED vars
    BY <1>2, <2>8, QuietStep DEF vars
  <2> QED
    BY <1>2, <2>1, <2>2, <2>3, <2>4, <2>5, <2>6, <2>7, <2>8 DEF Next
<1> QED
  BY <1>1, <1>2, PTL DEF Spec

\* Whatever step of whichever attempt fails, is cancelled or killed, a stored
\* credential has its account, its keyring and its own database, no other
\* recovery key was shown, and no synchronisation with it is refused
\* (initAccountForSyntheticProtocolTest, Agent.SyncOnce).
THEOREM StoredCredentialComplete == Spec => []CredentialIsComplete
<1>1. AgentInv => CredentialIsComplete
  BY DEF AgentInv
<1> QED
  BY <1>1, AgentInvariant, PTL

\* Load returns what was stored at some moment of the call, and Save reports
\* success exactly if the credential is stored, on both platforms
\* (windowsSecretStore, darwinSecretStore).
THEOREM StoreCallsAtomic == Spec => []CallsAreAtomic
<1>1. ASSUME AgentInv PROVE CallsAreAtomic
  <2>1. ASSUME NEW c \in Process \cup {Setup}, call[c].result \notin {Pending, Failed, Saved}
        PROVE  call[c].result \in call[c].seen \cap (1 .. MaxAttempt \cup {NotFound})
    BY <1>1, <2>1, Zenon DEF AgentInv, TypeOK, CallInv, Call, Credential
  <2>2. step = "credential" /\ call[Setup].result = Failed => Stored # attempt
    BY <1>1, ResultAssumption, SMTT(30) DEF AgentInv, SetupCall, SetupInv
  <2>3. call[Setup].result = Saved \/ step = "recovery" => Stored = attempt
    BY <1>1, ResultAssumption DEF AgentInv, SetupCall, SetupInv, Secrets!NoCall
  <2> QED
    BY <2>1, <2>2, <2>3, Zenon DEF CallsAreAtomic
<1> QED
  BY <1>1, AgentInvariant, PTL
=============================================================================
