----------------------------- MODULE AgentLoop -----------------------------
(***************************************************************************)
(* The desktop agent's background loop (runLoop): one process of a user    *)
(* holds the lock, synchronises, waits for the interval or, after a        *)
(* failure, for a growing backoff, and stops when it is cancelled.  A      *)
(* time.Duration is a signed machine word; here it has Word positive       *)
(* values.  DesktopAgent says when a synchronisation fails.                *)
(***************************************************************************)
EXTENDS Integers

CONSTANTS
    Process,       \* agent processes of the user
    NoProcess,     \* nobody holds the lock
    Interval, MinBackoff, MaxBackoff,   \* RunOptions
    Word,          \* durations are less than Word
    Percent,       \* percentages that jitter draws
    MaxFailures    \* failures in a row that are counted

ASSUME OptionsAssumption ==
    /\ {Interval, MinBackoff, MaxBackoff} \subseteq 1 .. Word - 1
    /\ MinBackoff <= MaxBackoff
ASSUME PercentAssumption == Percent \subseteq 90 .. 110
ASSUME BoundAssumption == NoProcess \notin Process /\ MaxFailures \in Nat

VARIABLES
    at,          \* at[p]: the step of process p
    lock,        \* the process that holds the lock
    cancelled,   \* processes whose context is done
    backoff,     \* the delay after the next failure
    left,        \* time until the timer fires; not positive: it has fired
    failures,    \* failures in a row
    idle         \* time since the last synchronisation ended

loopVars == <<at, lock, cancelled, backoff, left, failures, idle>>

-----------------------------------------------------------------------------
Wrap(x) == ((x + Word) % (2 * Word)) - Word
Truncate(x) == IF x >= 0 THEN x \div 100 ELSE -((-x) \div 100)

jitter_NoBase(duration, percent) == Truncate(Wrap(duration * (percent - 90)))

jitter(duration, percent) == Truncate(Wrap(duration * percent))

Doubled(delay) == IF delay < MaxBackoff \div 2 THEN 2 * delay ELSE MaxBackoff

LoopInit ==
    /\ at = [p \in Process |-> "off"] /\ lock = NoProcess /\ cancelled = {}
    /\ backoff = MinBackoff /\ left = 0 /\ failures = 0 /\ idle = 0

\* Leave the loop: the deferred Release.
Stop(p) ==
    /\ at' = [at EXCEPT ![p] = "off"]
    /\ lock' = IF lock = p THEN NoProcess ELSE lock
    /\ cancelled' = cancelled \ {p}

\* A process takes the lock or ends with ErrAlreadyRunning.
Start(p) ==
    /\ at[p] = "off"
    /\ IF lock = NoProcess
       THEN /\ lock' = p /\ at' = [at EXCEPT ![p] = "check"]
            /\ backoff' = MinBackoff /\ left' = 0 /\ failures' = 0 /\ idle' = 0
       ELSE UNCHANGED <<lock, at, backoff, left, failures, idle>>
    /\ UNCHANGED cancelled

Check_NoContext(p) ==
    /\ at[p] = "check"
    /\ at' = [at EXCEPT ![p] = "sync"]
    /\ UNCHANGED <<lock, cancelled, backoff, left, failures, idle>>

Check(p) ==
    /\ at[p] = "check"
    /\ IF p \in cancelled THEN Stop(p)
       ELSE at' = [at EXCEPT ![p] = "sync"] /\ UNCHANGED <<lock, cancelled>>
    /\ UNCHANGED <<backoff, left, failures, idle>>

Wait(p, delay) ==
    /\ at' = [at EXCEPT ![p] = "wait"]
    /\ \E percent \in Percent : left' = jitter(delay, percent)
    /\ idle' = 0
    /\ UNCHANGED <<lock, cancelled>>

Succeed(p) ==
    /\ at[p] = "sync"
    /\ backoff' = MinBackoff /\ failures' = 0
    /\ Wait(p, Interval)

\* The synchronisation ended with an error.
Fail(p) ==
    /\ at[p] = "sync"
    /\ backoff' = Doubled(backoff)
    /\ failures' = IF failures < MaxFailures THEN failures + 1 ELSE failures
    /\ Wait(p, backoff)

Fire(p) ==
    /\ at[p] = "wait" /\ left <= 0
    /\ at' = [at EXCEPT ![p] = "check"]
    /\ UNCHANGED <<lock, cancelled, backoff, left, failures, idle>>

\* The select takes the context's channel, also if the timer has fired too.
Done(p) ==
    /\ at[p] = "wait" /\ p \in cancelled
    /\ Stop(p)
    /\ UNCHANGED <<backoff, left, failures, idle>>

-----------------------------------------------------------------------------
(* The environment. *)

Cancel(p) ==
    /\ at[p] # "off"
    /\ cancelled' = cancelled \cup {p}
    /\ UNCHANGED <<at, lock, backoff, left, failures, idle>>

\* The operating system drops the lock of a process that dies.
Kill(p) ==
    /\ at[p] # "off"
    /\ Stop(p)
    /\ UNCHANGED <<backoff, left, failures, idle>>

Tick ==
    /\ \E p \in Process : at[p] = "wait" /\ left > 0
    /\ left' = left - 1 /\ idle' = idle + 1
    /\ UNCHANGED <<at, lock, cancelled, backoff, failures>>

-----------------------------------------------------------------------------
Larger(a, b) == IF a > b THEN a ELSE b
Smaller(a, b) == IF a < b THEN a ELSE b

\* Two synchronisations of a loop are as far apart as jitter of 90 to 110
\* percent allows: neither a busy loop nor a loop that sleeps for long.  The
\* delay after failures in a row at least doubles with each of them until it is
\* the largest one, is never larger, and a success starts it over.
AttemptsSpaced ==
    \A p \in Process :
        /\ at[p] # "off" => idle <= (Larger(Interval, MaxBackoff) * 110) \div 100
        /\ at[p] = "wait" =>
               /\ left <= 0 => idle >= (Smaller(Interval, MinBackoff) * 90) \div 100
               /\ backoff >= Smaller(MinBackoff * 2 ^ failures, MaxBackoff)
               /\ backoff <= (IF failures = 0 THEN MinBackoff ELSE MaxBackoff)

\* A loop synchronises again after every wait unless it ends, and once it is
\* cancelled, before a synchronisation, during one or while it waits, it ends
\* and frees the lock.
RunsUntilCancelled ==
    \A p \in Process :
        /\ at[p] = "wait" ~> at[p] \in {"sync", "off"}
        /\ p \in cancelled ~> lock # p
=============================================================================
