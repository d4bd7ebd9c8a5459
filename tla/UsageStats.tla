----------------------------- MODULE UsageStats -----------------------------
(***************************************************************************)
(* The usage limits of one creditor: the numbers of accounts and transfers *)
(* it has, and of the operations it has made within a period.              *)
(*                                                                         *)
(* A request asks whether it is allowed, does its work, and records it, in *)
(* a transaction each.  Of the stored procedures that record something, the*)
(* UPDATE and the INSERT are apart, for a row that does not exist can not  *)
(* be locked.  They commit asynchronously: a crash of the database loses   *)
(* what has been committed since the log was last flushed, and any other   *)
(* commit flushes it.                                                      *)
(***************************************************************************)
EXTENDS Integers, FiniteSets

CONSTANTS
    Workers,        \* the requests of the creditor that are processed at once
    Kinds,          \* what is counted: "accounts", "transfers"
    MaxCount,       \* APP_MAX_CREDITOR_ACCOUNTS, APP_MAX_CREDITOR_TRANSFERS
    MaxEvents,      \* APP_MAX_CREDITOR_RECONFIGS, APP_MAX_CREDITOR_INITIATIONS
    CLEAR_HOURS,    \* APP_CREDITOR_DOS_STATS_CLEAR_HOURS
    MAX_SMALLINT,   \* 32767
    MaxHour,        \* bound: of the clock
    MaxFaults       \* bound: of the crashes

\* "should fit int16" (__init__.py:284)
ASSUME UsageStatsAssumption ==
    /\ IsFiniteSet(Workers) /\ Kinds # {}
    /\ MAX_SMALLINT \in Nat /\ Cardinality(Workers) <= MAX_SMALLINT
    /\ MaxCount \in 1..MAX_SMALLINT /\ MaxEvents \in 1..MAX_SMALLINT
    /\ CLEAR_HOURS \in Nat

VARIABLES
    hour,           \* current_epoch
    usage_stats,    \* the row in the usage_stats table
    flushed_stats,  \* what is left of the row after a crash
    things,         \* the real numbers of accounts and transfers
    worker,         \* the requests
    inserting,      \* the workers whose UPDATE has found no row
    collisions,     \* ghost: the updates that unique_violation has swallowed
    faults          \* the crashes so far

usage_vars == <<hour, usage_stats, flushed_stats, things, worker, inserting,
                collisions, faults>>

Usage ==
    [exists: BOOLEAN, count: [Kinds -> Int], events: [Kinds -> Int],
     reset_at: [Kinds -> Nat]]

\* The server defaults of the columns, without a row as well.
NoUsage ==
    [exists |-> FALSE, count |-> [k \in Kinds |-> 0],
     events |-> [k \in Kinds |-> 0], reset_at |-> [k \in Kinds |-> 0]]

Stages == {"idle", "allowed", "created", "reconfiguring", "decrementing",
           "deleting", "undoing"}

Idle == [stage |-> "idle", kind |-> CHOOSE k \in Kinds : TRUE]

UsageInit ==
    /\ hour = 0
    /\ usage_stats = NoUsage
    /\ flushed_stats = NoUsage
    /\ things = [k \in Kinds |-> 0]
    /\ worker = [w \in Workers |-> Idle]
    /\ inserting = {}
    /\ collisions = 0
    /\ faults = 0

IsAt(w, stage) == worker[w].stage = stage

Enter(w, stage, k) ==
    worker' = [worker EXCEPT ![w] = [stage |-> stage, kind |-> k]]

Finish(w) == worker' = [worker EXCEPT ![w] = Idle]

NextHour ==
    /\ hour < MaxHour
    /\ hour' = hour + 1
    /\ UNCHANGED <<usage_stats, flushed_stats, things, worker, inserting,
                   collisions, faults>>

-----------------------------------------------------------------------------
(* The stored procedures                                                   *)

IsWithinPeriod(k) == hour < usage_stats.reset_at[k]

RecentEvents(k) == IF IsWithinPeriod(k) THEN usage_stats.events[k] ELSE 0

is_reconfig_allowed(k) == RecentEvents(k) < MaxEvents

\* Slip: the check lets one more through.
IsBelowOrAtLimit(k) == usage_stats.count[k] <= MaxCount /\ is_reconfig_allowed(k)

is_creation_allowed(k) ==
    usage_stats.count[k] < MaxCount /\ is_reconfig_allowed(k)

Least(a, b) == IF a < b THEN a ELSE b
Greatest(a, b) == IF a < b THEN b ELSE a

Increment(k, row) ==
    [row EXCEPT !.count[k] = Least(@ + 1, MAX_SMALLINT)]

Decrement(k, row) ==
    [row EXCEPT !.count[k] = Greatest(@ - 1, -MAX_SMALLINT - 1)]

AddEvent(k, row) ==
    IF hour < row.reset_at[k]
      THEN [row EXCEPT !.events[k] = Least(@ + 1, MAX_SMALLINT)]
      ELSE [row EXCEPT !.events[k] = 1, !.reset_at[k] = hour + CLEAR_HOURS]

\* What the worker has to record.
Recorded(w) ==
    LET k == worker[w].kind
    IN  CASE IsAt(w, "created") -> Increment(k, AddEvent(k, usage_stats))
          [] IsAt(w, "reconfiguring") -> AddEvent(k, usage_stats)
          [] IsAt(w, "decrementing") -> Decrement(k, usage_stats)
          [] OTHER -> Increment(k, usage_stats)

\* Afterwards a request is done, unless it is going to delete something.
AfterRecord(w) ==
    IF IsAt(w, "decrementing") THEN Enter(w, "deleting", worker[w].kind)
    ELSE Finish(w)

HasToRecord(w) ==
    worker[w].stage \in {"created", "reconfiguring", "decrementing", "undoing"}

\* The UPDATE.
UpdateUsage(w) ==
    /\ HasToRecord(w)
    /\ w \notin inserting
    /\ IF usage_stats.exists
         THEN /\ usage_stats' = Recorded(w)
              /\ AfterRecord(w)
              /\ UNCHANGED inserting
         ELSE /\ inserting' = inserting \cup {w}
              /\ UNCHANGED <<usage_stats, worker>>
    /\ UNCHANGED <<hour, flushed_stats, things, collisions, faults>>

\* The INSERT.  A unique_violation is ignored, and so is what had to be
\* recorded.
InsertUsage(w) ==
    /\ w \in inserting
    /\ inserting' = inserting \ {w}
    /\ AfterRecord(w)
    /\ IF usage_stats.exists
         THEN /\ collisions' = collisions + 1
              /\ UNCHANGED usage_stats
         ELSE /\ usage_stats' = [Recorded(w) EXCEPT !.exists = TRUE]
              /\ UNCHANGED collisions
    /\ UNCHANGED <<hour, flushed_stats, things, faults>>

-----------------------------------------------------------------------------
(* The requests                                                            *)

AllowCreation(w, k) ==
    /\ IsAt(w, "idle")
    /\ is_creation_allowed(k)
    /\ Enter(w, "allowed", k)
    /\ UNCHANGED <<hour, usage_stats, flushed_stats, things, inserting,
                   collisions, faults>>

\* create_new_account, initiate_running_transfer: committed synchronously.
Create(w) ==
    /\ IsAt(w, "allowed")
    /\ things' = [things EXCEPT ![worker[w].kind] = @ + 1]
    /\ Enter(w, "created", worker[w].kind)
    /\ flushed_stats' = usage_stats
    /\ UNCHANGED <<hour, usage_stats, inserting, collisions, faults>>

\* The account or the transfer exists already, the PIN is wrong ...
RefuseCreation(w) ==
    /\ IsAt(w, "allowed")
    /\ Finish(w)
    /\ UNCHANGED <<hour, usage_stats, flushed_stats, things, inserting,
                   collisions, faults>>

\* A change of an account's configuration, or of the PIN.
Reconfigure(w, k) ==
    /\ k = "accounts"
    /\ IsAt(w, "idle")
    /\ is_reconfig_allowed(k)
    /\ Enter(w, "reconfiguring", k)
    /\ UNCHANGED <<hour, usage_stats, flushed_stats, things, inserting,
                   collisions, faults>>

\* "We decremented the account number before trying to delete the account"
BeginDeletion(w, k) ==
    /\ IsAt(w, "idle")
    /\ Enter(w, "decrementing", k)
    /\ UNCHANGED <<hour, usage_stats, flushed_stats, things, inserting,
                   collisions, faults>>

\* Slip: the finally clause does not ask whether the deletion succeeded.
AlwaysUndone(w) == Enter(w, "undoing", worker[w].kind)

AfterDeletion(w) == Finish(w)

Delete(w) ==
    /\ IsAt(w, "deleting")
    /\ things[worker[w].kind] > 0
    /\ things' = [things EXCEPT ![worker[w].kind] = @ - 1]
    /\ AfterDeletion(w)
    /\ flushed_stats' = usage_stats
    /\ UNCHANGED <<hour, usage_stats, inserting, collisions, faults>>

\* "Now if the deletion has been unsuccessful, we should increment the
\* account number again."
FailToDelete(w) ==
    /\ IsAt(w, "deleting")
    /\ Enter(w, "undoing", worker[w].kind)
    /\ UNCHANGED <<hour, usage_stats, flushed_stats, things, inserting,
                   collisions, faults>>

-----------------------------------------------------------------------------
(* Crashes                                                                 *)

\* The web server's process dies, or the connection to the database does.
CrashWorker(w) ==
    /\ ~IsAt(w, "idle")
    /\ faults < MaxFaults
    /\ faults' = faults + 1
    /\ Finish(w)
    /\ inserting' = inserting \ {w}
    /\ UNCHANGED <<hour, usage_stats, flushed_stats, things, collisions>>

\* The WAL writer.
FlushLog ==
    /\ flushed_stats' = usage_stats
    /\ UNCHANGED <<hour, usage_stats, things, worker, inserting, collisions,
                   faults>>

\* The requests that are being processed fail with the database.
CrashDatabase ==
    /\ faults < MaxFaults
    /\ faults' = faults + 1
    /\ usage_stats' = flushed_stats
    /\ worker' = [w \in Workers |-> Idle]
    /\ inserting' = {}
    /\ UNCHANGED <<hour, flushed_stats, things, collisions>>

-----------------------------------------------------------------------------
UsageNext ==
    \/ NextHour
    \/ \E w \in Workers :
          \/ UpdateUsage(w) \/ InsertUsage(w)
          \/ \E k \in Kinds : \/ AllowCreation(w, k)
                              \/ Reconfigure(w, k)
                              \/ BeginDeletion(w, k)
          \/ Create(w) \/ RefuseCreation(w)
          \/ Delete(w) \/ FailToDelete(w)
          \/ CrashWorker(w)
    \/ FlushLog
    \/ CrashDatabase

UsageSpec == UsageInit /\ [][UsageNext]_usage_vars

-----------------------------------------------------------------------------
\* The counters fit their columns, even when they drift away from the real
\* numbers, and who inserts a row has something to record.
UsageTypeOK ==
    /\ hour \in Nat /\ faults \in Nat /\ collisions \in Nat
    /\ usage_stats \in Usage /\ flushed_stats \in Usage
    /\ things \in [Kinds -> Nat]
    /\ worker \in [Workers -> [stage: Stages, kind: Kinds]]
    /\ inserting \subseteq {w \in Workers : HasToRecord(w)}
    /\ \A k \in Kinds :
          /\ usage_stats.count[k] \in -MAX_SMALLINT - 1 .. MAX_SMALLINT
          /\ usage_stats.events[k] \in 0 .. MAX_SMALLINT

WorkersAt(k, stages) ==
    {w \in Workers : worker[w].kind = k /\ worker[w].stage \in stages}

\* Those who still have to increment the counter, or to decrement the real
\* number: the counter is behind the real number for each of them.
Unsettled(k) == WorkersAt(k, {"created", "deleting", "undoing"})

\* "In case of a crash, the difference between the recorded number of accounts
\* and the real number of accounts will always be in users' favor"
\* (routes/accounts.py:315): in whatever order requests are processed and
\* whoever crashes, except that every collision of two first INSERTs may cost
\* the creditor one.
UsersFavor ==
    \A k \in Kinds : usage_stats.count[k] <= things[k] + collisions

\* The same, with what is on its way, and after a crash of the database.
FavorInv ==
    \A k \in Kinds :
        /\ usage_stats.count[k] + Cardinality(Unsettled(k)) <= things[k] + collisions
        /\ flushed_stats.count[k] <= things[k] + collisions

\* As long as nothing crashes and collides, the requests that are processed at
\* the same time exceed a limit by no more than their number less one.  A counter
\* at the end of its column would count deletions only, so the limits must be
\* below it.
LimitIsKept ==
    /\ faults + collisions = 0
    /\ Greatest(MaxCount, MaxEvents) + Cardinality(Workers) - 1 <= MAX_SMALLINT
    =>  \A k \in Kinds :
            /\ things[k] <= MaxCount + Cardinality(Workers) - 1
            /\ usage_stats.events[k] <= MaxEvents + Cardinality(Workers) - 1

=============================================================================
