--------------------------- MODULE AccountLedger ---------------------------
(***************************************************************************)
(* The ledger of one account: how the transfers committed by a remote      *)
(* accounting authority reach the `account_data` row and the               *)
(* `ledger_entry` table.                                                   *)
(*                                                                         *)
(* The authority numbers the transfers of an account, each one pointing to *)
(* its predecessor, and reports them in AccountTransfer messages; it       *)
(* reports the account's state in AccountUpdate messages.  Messages are    *)
(* lost, duplicated and reordered.  Four kinds of database transactions    *)
(* work on the account's row, and are interleaved here:                    *)
(*                                                                         *)
(*   - the message handlers: process_account_transfer_signal (a FOR SHARE  *)
(*     lock held between its read and its insert),                         *)
(*     process_account_update_signal, process_account_purge_signal;        *)
(*   - the ledger processor: process_pending_ledger_update, which books    *)
(*     committed transfers one after the other under an exclusive lock;    *)
(*   - the table scanners, which work from stale rows;                     *)
(*   - the Web API, which deletes (from an unlocked read) and re-creates   *)
(*     the account.                                                        *)
(*                                                                         *)
(* Transactions run at READ COMMITTED, the PostgreSQL default: nothing in  *)
(* the repository chooses another isolation level.  The configuration and  *)
(* information columns that the same handlers write are never read by the  *)
(* ledger code and are left out.                                           *)
(***************************************************************************)
EXTENDS PrincipalCorrection, FiniteSets

CONSTANTS
    Amounts,           \* the amounts the authority may transfer
    AccountIds,        \* the account IDs the authority may assign
    Consumers,         \* the threads that handle AccountTransfer messages
    BURST_COUNT,       \* APP_PROCESS_LEDGER_UPDATES_BURST
    MAX_TRANSFER_DELAY,\* APP_MAX_TRANSFER_DELAY_DAYS
    LOG_RETENTION,     \* APP_LOG_RETENTION_DAYS
    LEDGER_RETENTION,  \* APP_LEDGER_RETENTION_DAYS
    LEDGER_UPDATE_LAG  \* TD_HOUR in AccountScanner

CONSTANTS  \* bounds of the model
    MaxNumber,         \* the largest transfer number
    MaxDate,           \* the last creation date of a server account
    MaxChange,         \* the number of reported changes of a server account
    MaxGeneration,     \* how many times the account is created
    MaxCommitTime,     \* the authority is active up to this time
    MaxTime,           \* the end of time
    MaxCrashes         \* how many transactions die

ASSUME LedgerAssumptions ==
    /\ Amounts \subseteq Principal \ {0}
    /\ AccountIds \subseteq Nat \ {0}
    /\ BURST_COUNT \in Nat \ {0}
    /\ MAX_TRANSFER_DELAY \in Nat
    /\ LOG_RETENTION \in Nat
    /\ LEDGER_RETENTION \in Nat
    /\ LEDGER_UPDATE_LAG \in Nat
    /\ {MaxNumber, MaxDate, MaxChange, MaxGeneration, MaxCommitTime,
        MaxTime, MaxCrashes} \subseteq Nat
    /\ AccountIds # {}
    /\ MaxDate # 0

VARIABLES
    now,                    \* the time, in days
    \* the accounting authority (external)
    srv,                    \* the server account
    transfers,              \* every AccountTransfer message ever sent
    updates,                \* every AccountUpdate message ever sent
    \* the database
    data,                   \* the row of account_data
    committed_transfer,     \* the table committed_transfer
    pending_ledger_update,  \* whether the account is in pending_ledger_update
    ledger_entry,           \* the table ledger_entry, never garbage-collected
    uid_seq,                \* object_update_id_seq
    historic_entry_id,      \* creditor.largest_historic_ledger_entry_id
    log,                    \* the latest log entry about the ledger object
    transfer_log,           \* the log entries about committed transfers
    \* open transactions
    readers,                \* process_account_transfer_signal
    work,                   \* process_pending_ledger_update
    repair,                 \* AccountScanner: a repair decided on, not made
    deletion,               \* delete_account
    crashes

srvVars == <<srv, transfers, updates>>
vars == <<now, srv, transfers, updates, data, committed_transfer,
          pending_ledger_update, ledger_entry, uid_seq, historic_entry_id,
          log, transfer_log, readers, work, repair, deletion, crashes>>

-----------------------------------------------------------------------------
(* Types *)

DATE0 == 0          \* the creation date of an account not yet on a server
NullTs == -1        \* NULL in a timestamp column
NullNumber == 0     \* NULL in the transfer columns of a ledger entry

Time == 0 .. MaxTime

Transfer ==
    [creation_date : 1 .. MaxDate, transfer_number : 1 .. MaxNumber,
     previous_transfer_number : 0 .. MaxNumber, acquired_amount : Amounts,
     principal : Principal, committed_at : Time]

AccountUpdate ==
    [creation_date : 1 .. MaxDate, last_change : Nat, principal : Principal,
     account_id : AccountIds, last_transfer_number : 0 .. MaxNumber,
     last_transfer_committed_at : Time]

AccountData ==
    [exists : BOOLEAN, generation : Nat, has_server_account : BOOLEAN,
     creation_date : 0 .. MaxDate, last_change : Nat, principal : Principal,
     account_id : AccountIds \cup {0}, last_transfer_number : 0 .. MaxNumber,
     last_transfer_committed_at : Time,
     ledger_principal : Principal, ledger_last_entry_id : Nat,
     ledger_last_transfer_number : 0 .. MaxNumber,
     ledger_pending_transfer_ts : Time \cup {NullTs},
     ledger_latest_update_id : Nat, ledger_latest_update_ts : Time]

LedgerEntry ==
    [generation : Nat, entry_id : Nat, acquired_amount : Int, principal : Int,
     creation_date : 0 .. MaxDate, transfer_number : 0 .. MaxNumber]

LogEntry ==
    [generation : Nat, object_update_id : Nat, is_deleted : BOOLEAN,
     data_principal : Principal, data_next_entry_id : Nat]

NoLogEntry ==
    [generation |-> 0, object_update_id |-> 0, is_deleted |-> FALSE,
     data_principal |-> 0, data_next_entry_id |-> 0]

\* The message of an idle handler.
NoTransfer ==
    [creation_date |-> 0, transfer_number |-> 0,
     previous_transfer_number |-> 0, acquired_amount |-> 0, principal |-> 0,
     committed_at |-> 0]

IdleReader ==
    [active |-> FALSE, message |-> NoTransfer, ledger_date |-> 0,
     ledger_last_transfer_number |-> 0]

Reader ==
    [active : {TRUE}, message : Transfer, ledger_date : 0 .. MaxDate,
     ledger_last_transfer_number : 0 .. MaxNumber]
      \cup {IdleReader}

NoAccount ==
    [exists |-> FALSE, generation |-> 0, has_server_account |-> FALSE,
     creation_date |-> DATE0, last_change |-> 0, principal |-> 0,
     account_id |-> 0, last_transfer_number |-> 0,
     last_transfer_committed_at |-> 0,
     ledger_principal |-> 0, ledger_last_entry_id |-> 0,
     ledger_last_transfer_number |-> 0, ledger_pending_transfer_ts |-> NullTs,
     ledger_latest_update_id |-> 0, ledger_latest_update_ts |-> 0]

IdleWork ==
    [active |-> FALSE, data |-> NoAccount, todo |-> {}, is_last |-> FALSE,
     entries |-> {}, log_entry |-> NoLogEntry]

-----------------------------------------------------------------------------
(* Locks on the row of account_data.  FOR SHARE is compatible with itself; *)
(* FOR NO KEY UPDATE, and the deletion of the row, with nothing else.      *)

SharedLockFree == ~work.active

\* Slip: readers take no lock.
IgnoringSharedLocks == ~work.active

ExclusiveLockFree == ~work.active /\ \A c \in Consumers : ~readers[c].active
NoOpenTransaction == ExclusiveLockFree /\ ~repair /\ ~deletion.active

-----------------------------------------------------------------------------
(* The ledger operators *)

\* Slip: a difference with the reported principal goes unnoticed.
NoCorrectingEntry(row, acquired_amount, principal) == {}

\* Entries of kind "correcting" carry no transfer.
make_correcting_ledger_entry_if_necessary(row, acquired_amount, principal) ==
    IF principal - acquired_amount \in Principal
      THEN {[generation |-> row.generation,
             entry_id |-> row.ledger_last_entry_id + c.n,
             acquired_amount |-> c.acquired_amount,
             principal |-> c.principal,
             creation_date |-> DATE0,
             transfer_number |-> NullNumber]
               : c \in Corrections(row.ledger_principal,
                                   principal - acquired_amount)}
      ELSE {}

\* The log entry that describes the ledger of a row.
LedgerLogEntry(row) ==
    [generation |-> row.generation,
     object_update_id |-> row.ledger_latest_update_id,
     is_deleted |-> FALSE,
     data_principal |-> row.ledger_principal,
     data_next_entry_id |-> row.ledger_last_entry_id + 1]

\* The row, the new ledger entries and the log entry (if any) that result
\* from moving the ledger to `transfer_number` and `principal`.
update_ledger(row, transfer_number, acquired_amount, principal, always_log) ==
    LET corrections ==
          make_correcting_ledger_entry_if_necessary(row, acquired_amount,
                                                    principal)
        last_correction == row.ledger_last_entry_id + Cardinality(corrections)
        entry ==
          [generation |-> row.generation,
           entry_id |-> last_correction + 1,
           acquired_amount |-> acquired_amount,
           principal |-> principal,
           creation_date |-> row.creation_date,
           transfer_number |-> transfer_number]
        entries ==
          corrections \cup (IF acquired_amount # 0 THEN {entry} ELSE {})
        is_logged == entries # {} \/ always_log
        new_row ==
          [row EXCEPT
             !.ledger_last_entry_id =
                 IF acquired_amount # 0 THEN last_correction + 1
                                        ELSE last_correction,
             !.ledger_principal = principal,
             !.ledger_last_transfer_number = transfer_number,
             !.ledger_latest_update_id = IF is_logged THEN @ + 1 ELSE @,
             !.ledger_latest_update_ts = IF is_logged THEN now ELSE @]
    IN  [data |-> new_row,
         entries |-> entries,
         log_entry |-> IF is_logged THEN LedgerLogEntry(new_row)
                                    ELSE NoLogEntry]

\* Slip: the arguments are swapped, and the first log entry is kept.
KeepFirst(entry, default) == IF default # NoLogEntry THEN default ELSE entry

Coalesce(entry, default) == IF entry # NoLogEntry THEN entry ELSE default

\* The primary key of ledger_entry: no entry ID is used twice.
HasFreeKeys(entries) ==
    \A e \in entries, f \in ledger_entry : e.entry_id # f.entry_id

\* Write a row, its new ledger entries and its log entry.  The transaction
\* fails as a whole on a reused entry ID.
StoreLedger(row, entries, entry) ==
    /\ HasFreeKeys(entries)
    /\ data' = row
    /\ ledger_entry' = ledger_entry \cup entries
    /\ log' = Coalesce(entry, log)

-----------------------------------------------------------------------------
(* The accounting authority (external).  It never sends a transfer twice   *)
(* under different numbers, and creates an account anew with a later date. *)

Snapshot(account) ==
    [creation_date |-> account.creation_date,
     last_change |-> account.last_change,
     principal |-> account.principal,
     account_id |-> account.account_id,
     last_transfer_number |-> account.last_transfer_number,
     last_transfer_committed_at |-> account.last_transfer_committed_at]

NewServerAccount(date, id) ==
    [exists |-> TRUE, creation_date |-> date, last_change |-> 1,
     principal |-> 0, account_id |-> id, last_transfer_number |-> 0,
     last_transfer_committed_at |-> 0]

\* Every change is reported by an AccountUpdate message.
ServerChange(account) ==
    /\ now <= MaxCommitTime
    /\ account.last_change <= MaxChange
    /\ srv' = account
    /\ updates' = updates \cup {Snapshot(account)}

\* A transfer is committed and reported.  Numbers may have gaps.
ServerTransfer(amount, number) ==
    LET principal == contain_principal_overflow(srv.principal + amount)
    IN  /\ srv.exists
        /\ number > srv.last_transfer_number
        /\ ServerChange([srv EXCEPT !.last_change = @ + 1,
                                    !.principal = principal,
                                    !.last_transfer_number = number,
                                    !.last_transfer_committed_at = now])
        /\ transfers' = transfers \cup
             {[creation_date |-> srv.creation_date,
               transfer_number |-> number,
               previous_transfer_number |-> srv.last_transfer_number,
               acquired_amount |-> amount,
               principal |-> principal,
               committed_at |-> now]}

\* A negligible transfer: the principal changes, and no AccountTransfer
\* message is sent.
ServerNegligibleTransfer(amount) ==
    /\ srv.exists
    /\ ServerChange([srv EXCEPT !.last_change = @ + 1,
                                !.principal = contain_principal_overflow(
                                                @ + amount)])
    /\ UNCHANGED transfers

ServerChangesAccountId(id) ==
    /\ srv.exists
    /\ id # srv.account_id
    /\ ServerChange([srv EXCEPT !.last_change = @ + 1, !.account_id = id])
    /\ UNCHANGED transfers

\* The server account is removed.  This is reported by an AccountPurge.
ServerPurge ==
    /\ srv.exists
    /\ now <= MaxCommitTime
    /\ srv' = [srv EXCEPT !.exists = FALSE]
    /\ UNCHANGED <<transfers, updates>>

ServerRecreate(id) ==
    /\ ~srv.exists
    /\ srv.creation_date < MaxDate
    /\ ServerChange(NewServerAccount(srv.creation_date + 1, id))
    /\ UNCHANGED transfers

PurgedDates == {d \in 1 .. MaxDate : d < srv.creation_date
                                       \/ (d = srv.creation_date /\ ~srv.exists)}

Server ==
    /\ \/ \E amount \in Amounts, number \in 1 .. MaxNumber :
            ServerTransfer(amount, number)
       \/ \E amount \in Amounts : ServerNegligibleTransfer(amount)
       \/ \E id \in AccountIds : ServerChangesAccountId(id)
       \/ ServerPurge
       \/ \E id \in AccountIds : ServerRecreate(id)
    /\ UNCHANGED <<now, data, committed_transfer, pending_ledger_update,
                   ledger_entry, uid_seq, historic_entry_id, log,
                   transfer_log, readers, work, repair, deletion, crashes>>

\* Time is counted in days: a transaction is over before the next one.
Tick ==
    /\ now < MaxTime
    /\ NoOpenTransaction
    /\ now' = now + 1
    /\ UNCHANGED <<srv, transfers, updates, data, committed_transfer,
                   pending_ledger_update, ledger_entry, uid_seq,
                   historic_entry_id, log, transfer_log, readers, work,
                   repair, deletion, crashes>>

-----------------------------------------------------------------------------
(* process_account_transfer_signal, in two steps *)

\* The message is not too old, its transfer is not in the table yet, and the
\* row of the account is read under a FOR SHARE lock.
ReadLedgerData(c, t) ==
    /\ ~readers[c].active
    /\ now - t.committed_at <= LOG_RETENTION
    /\ t \notin committed_transfer
    /\ data.exists
    /\ SharedLockFree
    /\ readers' = [readers EXCEPT ![c] =
                     [active |-> TRUE, message |-> t,
                      ledger_date |-> data.creation_date,
                      ledger_last_transfer_number |->
                          data.ledger_last_transfer_number]]
    /\ UNCHANGED <<now, srv, transfers, updates, data, committed_transfer,
                   pending_ledger_update, ledger_entry, uid_seq,
                   historic_entry_id, log, transfer_log, work, repair,
                   deletion, crashes>>

\* The transfer is inserted and logged, and continues the ledger or not.
InsertCommittedTransfer(c) ==
    LET r == readers[c]
        t == r.message
    IN  /\ r.active
        /\ t \notin committed_transfer
        /\ committed_transfer' = committed_transfer \cup {t}
        /\ transfer_log' = transfer_log \cup {[transfer |-> t,
                                               added_at |-> now]}
        /\ pending_ledger_update' =
             (pending_ledger_update
                \/ /\ t.creation_date = r.ledger_date
                   /\ t.previous_transfer_number
                        = r.ledger_last_transfer_number)
        /\ readers' = [readers EXCEPT ![c] = IdleReader]
        /\ UNCHANGED <<now, srv, transfers, updates, data, ledger_entry,
                       uid_seq, historic_entry_id, log, work, repair,
                       deletion, crashes>>

\* Another consumer was faster with the same message: the insert fails, and
\* the retry finds the row and returns.
AbandonDuplicateTransfer(c) ==
    /\ readers[c].active
    /\ readers[c].message \in committed_transfer
    /\ readers' = [readers EXCEPT ![c] = IdleReader]
    /\ UNCHANGED <<now, srv, transfers, updates, data, committed_transfer,
                   pending_ledger_update, ledger_entry, uid_seq,
                   historic_entry_id, log, transfer_log, work, repair,
                   deletion, crashes>>

\* The consumer dies: its transaction is rolled back, and the message, which
\* has not been acknowledged, will be delivered again.
CrashTransferSignal(c) ==
    /\ readers[c].active
    /\ crashes < MaxCrashes
    /\ crashes' = crashes + 1
    /\ readers' = [readers EXCEPT ![c] = IdleReader]
    /\ UNCHANGED <<now, srv, transfers, updates, data, committed_transfer,
                   pending_ledger_update, ledger_entry, uid_seq,
                   historic_entry_id, log, transfer_log, work, repair,
                   deletion>>

-----------------------------------------------------------------------------
(* process_account_update_signal and process_account_purge_signal *)

\* The order of account changes: creation date, then the change itself.
IsNewerEvent(m) ==
    \/ m.creation_date > data.creation_date
    \/ /\ m.creation_date = data.creation_date
       /\ m.last_change > data.last_change

\* The columns that mirror the server account.
WithServerState(row, m) ==
    [row EXCEPT !.has_server_account = TRUE,
                !.creation_date = m.creation_date,
                !.last_change = m.last_change,
                !.principal = m.principal,
                !.account_id = m.account_id,
                !.last_transfer_number = m.last_transfer_number,
                !.last_transfer_committed_at = m.last_transfer_committed_at]

process_account_update_signal(m) ==
    LET is_new_server_account == m.creation_date > data.creation_date
        is_account_id_changed == m.account_id # data.account_id
        row == WithServerState(data, m)
        reset == update_ledger(
                   [row EXCEPT !.ledger_pending_transfer_ts = NullTs],
                   0, 0, 0, TRUE)
        relog == update_ledger(row, row.ledger_last_transfer_number, 0,
                               row.ledger_principal, TRUE)
        update == IF is_new_server_account THEN reset ELSE relog
    IN  /\ data.exists
        /\ ExclusiveLockFree
        /\ IsNewerEvent(m)
        /\ IF is_new_server_account \/ is_account_id_changed
             THEN /\ StoreLedger(update.data, update.entries,
                                 update.log_entry)
                  /\ uid_seq' = uid_seq + 1
                  /\ pending_ledger_update' = TRUE
             ELSE /\ data' = row
                  /\ UNCHANGED <<ledger_entry, log, uid_seq,
                                 pending_ledger_update>>
        /\ UNCHANGED <<now, srv, transfers, updates, committed_transfer,
                       historic_entry_id, transfer_log, readers, work,
                       repair, deletion, crashes>>

process_account_purge_signal(date) ==
    /\ data.exists
    /\ data.has_server_account
    /\ data.creation_date <= date
    /\ ExclusiveLockFree
    /\ data' = [data EXCEPT !.has_server_account = FALSE, !.principal = 0]
    /\ UNCHANGED <<now, srv, transfers, updates, committed_transfer,
                   pending_ledger_update, ledger_entry, uid_seq,
                   historic_entry_id, log, transfer_log, readers, work,
                   repair, deletion, crashes>>

-----------------------------------------------------------------------------
(* process_pending_ledger_update: a transaction that works on a copy of    *)
(* the row, one committed transfer at a time, and then stores it.          *)

\* Slip: the last transfer of the ledger is taken again.
TransfersFromLast ==
    {t \in committed_transfer :
        /\ t.creation_date = data.creation_date
        /\ t.transfer_number >= data.ledger_last_transfer_number}

PendingTransfers ==
    {t \in committed_transfer :
        /\ t.creation_date = data.creation_date
        /\ t.transfer_number > data.ledger_last_transfer_number}

\* The first BURST_COUNT transfers, in the order of their numbers.
IsBurst(burst, pending) ==
    /\ burst \subseteq pending
    /\ \A t \in burst, u \in pending \ burst :
          t.transfer_number < u.transfer_number
    /\ Cardinality(burst) <= BURST_COUNT
    /\ burst # pending => Cardinality(burst) = BURST_COUNT

BeginLedgerUpdate ==
    /\ pending_ledger_update
    /\ data.exists
    /\ ExclusiveLockFree
    /\ \E burst \in SUBSET PendingTransfers :
          /\ IsBurst(burst, PendingTransfers)
          /\ work' = [active |-> TRUE, data |-> data, todo |-> burst,
                      is_last |-> Cardinality(burst) < BURST_COUNT,
                      entries |-> {}, log_entry |-> NoLogEntry]
    /\ UNCHANGED <<now, srv, transfers, updates, data, committed_transfer,
                   pending_ledger_update, ledger_entry, uid_seq,
                   historic_entry_id, log, transfer_log, readers, repair,
                   deletion, crashes>>

IsNext(t) ==
    /\ t \in work.todo
    /\ \A u \in work.todo : t.transfer_number <= u.transfer_number

\* Slip: a gap is never waited for.
GapIsSkipped(t) == FALSE

\* A predecessor is missing, and it is too early to give it up.
IsMissingPredecessor(t) ==
    /\ t.previous_transfer_number # work.data.ledger_last_transfer_number
    /\ t.committed_at >= now - MAX_TRANSFER_DELAY

BookTransfer(t) ==
    LET update == update_ledger(work.data, t.transfer_number,
                                t.acquired_amount, t.principal, FALSE)
    IN  /\ work.active
        /\ IsNext(t)
        /\ ~IsMissingPredecessor(t)
        /\ work' = [work EXCEPT
                      !.data = update.data,
                      !.todo = @ \ {t},
                      !.entries = @ \cup update.entries,
                      !.log_entry = Coalesce(update.log_entry, @)]
        /\ UNCHANGED <<now, srv, transfers, updates, data,
                       committed_transfer, pending_ledger_update,
                       ledger_entry, uid_seq, historic_entry_id, log,
                       transfer_log, readers, repair, deletion, crashes>>

\* Slip: the sequence is left behind when a ledger update is committed.
NextUpdateIdKept(update_id) == uid_seq

\* nextval() is called until it reaches the update ID of the ledger.
NextUpdateId(update_id) ==
    IF uid_seq + 1 >= update_id THEN uid_seq + 1 ELSE update_id

\* Commit: the row, the entries, the log entry, the sequence.  The record in
\* pending_ledger_update is deleted, unless a full burst was processed.  On
\* a reused entry ID everything is rolled back.
CommitLedgerUpdate(row, entries, log_entry, is_done) ==
    /\ \/ /\ StoreLedger(row, entries, log_entry)
          /\ uid_seq' = IF log_entry # NoLogEntry
                          THEN NextUpdateId(row.ledger_latest_update_id)
                          ELSE uid_seq
          /\ pending_ledger_update' = ~is_done
       \/ /\ ~HasFreeKeys(entries)
          /\ UNCHANGED <<data, ledger_entry, log, uid_seq,
                         pending_ledger_update>>
    /\ work' = IdleWork
    /\ UNCHANGED <<now, srv, transfers, updates, committed_transfer,
                   historic_entry_id, transfer_log, readers, repair,
                   deletion, crashes>>

\* Slip: the ledger is moved to the number last reported, though it may be
\* ahead of the report.
IsReportOld(row) == row.last_transfer_committed_at < now - MAX_TRANSFER_DELAY

\* The last transfers known to the server have not come, and are too old to
\* be waited for.
IsMissingLastTransfer(row) ==
    /\ row.ledger_pending_transfer_ts = NullTs
    /\ row.last_transfer_number > row.ledger_last_transfer_number
    /\ row.last_transfer_committed_at < now - MAX_TRANSFER_DELAY

\* The end of the transaction, with the repair of the ledger's tail.
CompleteLedgerUpdate(row, is_done) ==
    LET fix == update_ledger(row, row.last_transfer_number, 0, row.principal,
                             FALSE)
    IN  IF is_done /\ IsMissingLastTransfer(row)
          THEN CommitLedgerUpdate(fix.data, work.entries \cup fix.entries,
                                  Coalesce(fix.log_entry, work.log_entry),
                                  TRUE)
          ELSE CommitLedgerUpdate(row, work.entries, work.log_entry, is_done)

StopAtMissingTransfer(t) ==
    /\ work.active
    /\ IsNext(t)
    /\ IsMissingPredecessor(t)
    /\ CompleteLedgerUpdate(
         [work.data EXCEPT !.ledger_pending_transfer_ts = t.committed_at],
         TRUE)

FinishLedgerUpdate ==
    /\ work.active
    /\ work.todo = {}
    /\ CompleteLedgerUpdate(
         [work.data EXCEPT !.ledger_pending_transfer_ts = NullTs],
         work.is_last)

\* The processor dies: the transaction is rolled back, except for the
\* sequence, which is not transactional.
CrashLedgerUpdate ==
    /\ work.active
    /\ crashes < MaxCrashes
    /\ crashes' = crashes + 1
    /\ work' = IdleWork
    /\ uid_seq' \in {uid_seq, uid_seq + 1}
    /\ UNCHANGED <<now, srv, transfers, updates, data, committed_transfer,
                   pending_ledger_update, ledger_entry, historic_entry_id,
                   log, transfer_log, readers, repair, deletion>>

-----------------------------------------------------------------------------
(* The table scanners *)

\* AccountScanner._update_ledgers_if_necessary and ._update_ledger: the row
\* is filtered again under the lock, rows locked by others are skipped.
ScannerUpdatesLedger ==
    LET corrections == make_correcting_ledger_entry_if_necessary(
                         data, 0, data.principal)
        row == [data EXCEPT
                  !.ledger_last_entry_id = @ + Cardinality(corrections),
                  !.ledger_principal = data.principal,
                  !.ledger_latest_update_id = @ + 1,
                  !.ledger_latest_update_ts = now]
    IN  /\ data.exists
        /\ data.last_transfer_number = data.ledger_last_transfer_number
        /\ data.ledger_principal # data.principal
        /\ data.ledger_latest_update_ts < now - LEDGER_UPDATE_LAG
        /\ ExclusiveLockFree
        /\ StoreLedger(row, corrections, LedgerLogEntry(row))
        /\ uid_seq' = uid_seq + 1
        /\ UNCHANGED <<now, srv, transfers, updates, committed_transfer,
                       pending_ledger_update, historic_entry_id,
                       transfer_log, readers, work, repair, deletion,
                       crashes>>

\* Slip: only the pending transfer's time counts.
NeedsRepairWhenPending(row) ==
    /\ row.last_transfer_number > row.ledger_last_transfer_number
    /\ row.ledger_pending_transfer_ts # NullTs
    /\ row.ledger_pending_transfer_ts < now - MAX_TRANSFER_DELAY

needs_repair(row) ==
    /\ row.last_transfer_number > row.ledger_last_transfer_number
    /\ IF row.ledger_pending_transfer_ts # NullTs
         THEN row.ledger_pending_transfer_ts < now - MAX_TRANSFER_DELAY
         ELSE row.last_transfer_committed_at < now - MAX_TRANSFER_DELAY

\* AccountScanner._schedule_ledger_repairs_if_necessary decides from a row
\* it has read without a lock ...
ScannerDecidesOnRepair ==
    /\ data.exists
    /\ ~repair
    /\ needs_repair(data)
    /\ repair' = TRUE
    /\ UNCHANGED <<now, srv, transfers, updates, data, committed_transfer,
                   pending_ledger_update, ledger_entry, uid_seq,
                   historic_entry_id, log, transfer_log, readers, work,
                   deletion, crashes>>

\* ... and inserts the pending_ledger_update record later.  The foreign key
\* rejects it when the account has been deleted.
ScannerSchedulesRepair ==
    /\ repair
    /\ repair' = FALSE
    /\ pending_ledger_update' = data.exists
    /\ UNCHANGED <<now, srv, transfers, updates, data, committed_transfer,
                   ledger_entry, uid_seq, historic_entry_id, log,
                   transfer_log, readers, work, deletion, crashes>>

\* Slip: committed transfers are kept as long as messages are accepted.
GarbageAfterMessages(t) == t.committed_at < now - LOG_RETENTION + 1

IsGarbage(t) ==
    LET longest == IF LOG_RETENTION > LEDGER_RETENTION THEN LOG_RETENTION
                                                       ELSE LEDGER_RETENTION
    IN  t.committed_at < now - (MAX_TRANSFER_DELAY + longest)

\* CommittedTransferScanner, on one block of rows.
CollectCommittedTransfers ==
    /\ \E t \in committed_transfer : IsGarbage(t)
    /\ committed_transfer' = {t \in committed_transfer : ~IsGarbage(t)}
    /\ UNCHANGED <<now, srv, transfers, updates, data, pending_ledger_update,
                   ledger_entry, uid_seq, historic_entry_id, log,
                   transfer_log, readers, work, repair, deletion, crashes>>

-----------------------------------------------------------------------------
(* create_new_account and delete_account.  Both hold the lock on the row   *)
(* of the creditor.                                                        *)

\* The row of a new account.  Entry IDs continue after a gap, update IDs
\* come from the sequence.
NewAccountData(generation) ==
    [NoAccount EXCEPT !.exists = TRUE,
                      !.generation = generation,
                      !.ledger_last_entry_id = historic_entry_id + 1,
                      !.ledger_latest_update_id = uid_seq + 1,
                      !.ledger_latest_update_ts = now]

create_new_account ==
    /\ ~data.exists
    /\ data.generation < MaxGeneration
    /\ data' = NewAccountData(data.generation + 1)
    /\ uid_seq' = uid_seq + 1
    /\ UNCHANGED <<now, srv, transfers, updates, committed_transfer,
                   pending_ledger_update, ledger_entry, historic_entry_id,
                   log, transfer_log, readers, work, repair, deletion,
                   crashes>>

\* delete_account reads the row without a lock; all the reasons to refuse
\* the deletion are passed.
ReadAccountToDelete ==
    /\ data.exists
    /\ data.generation < MaxGeneration
    /\ ~deletion.active
    /\ deletion' = [active |-> TRUE,
                    ledger_last_entry_id |-> data.ledger_last_entry_id]
    /\ UNCHANGED <<now, srv, transfers, updates, data, committed_transfer,
                   pending_ledger_update, ledger_entry, uid_seq,
                   historic_entry_id, log, transfer_log, readers, work,
                   repair, crashes>>

\* The DELETE waits for the row's lock, and removes the dependent rows.
DeleteAccount ==
    /\ deletion.active
    /\ ExclusiveLockFree
    /\ data' = [NoAccount EXCEPT !.generation = data.generation]
    /\ historic_entry_id' =
         IF deletion.ledger_last_entry_id > historic_entry_id
           THEN deletion.ledger_last_entry_id
           ELSE historic_entry_id
    /\ pending_ledger_update' = FALSE
    /\ uid_seq' = uid_seq + 1
    /\ log' = [NoLogEntry EXCEPT !.generation = data.generation,
                                 !.object_update_id = uid_seq + 1,
                                 !.is_deleted = TRUE]
    /\ deletion' = [active |-> FALSE, ledger_last_entry_id |-> 0]
    /\ UNCHANGED <<now, srv, transfers, updates, committed_transfer,
                   ledger_entry, transfer_log, readers, work, repair,
                   crashes>>

-----------------------------------------------------------------------------
(* The specification *)

Init ==
    /\ now = 0
    /\ \E id \in AccountIds :
          /\ srv = NewServerAccount(1, id)
          /\ updates = {Snapshot(NewServerAccount(1, id))}
    /\ transfers = {}
    /\ historic_entry_id = 0
    /\ data = [NoAccount EXCEPT !.exists = TRUE, !.generation = 1,
                                !.ledger_last_entry_id = 1,
                                !.ledger_latest_update_id = 1]
    /\ uid_seq = 1
    /\ committed_transfer = {}
    /\ pending_ledger_update = FALSE
    /\ ledger_entry = {}
    /\ log = NoLogEntry
    /\ transfer_log = {}
    /\ readers = [c \in Consumers |-> IdleReader]
    /\ work = IdleWork
    /\ repair = FALSE
    /\ deletion = [active |-> FALSE, ledger_last_entry_id |-> 0]
    /\ crashes = 0

LedgerProcessor ==
    \/ BeginLedgerUpdate
    \/ \E t \in work.todo : BookTransfer(t) \/ StopAtMissingTransfer(t)
    \/ FinishLedgerUpdate

Scanner ==
    \/ ScannerUpdatesLedger
    \/ ScannerDecidesOnRepair
    \/ ScannerSchedulesRepair
    \/ CollectCommittedTransfers

MessageHandlers ==
    \/ \E c \in Consumers :
          \/ \E t \in transfers : ReadLedgerData(c, t)
          \/ InsertCommittedTransfer(c)
          \/ AbandonDuplicateTransfer(c)
          \/ CrashTransferSignal(c)
    \/ \E m \in updates : process_account_update_signal(m)
    \/ \E d \in PurgedDates : process_account_purge_signal(d)

WebApi == create_new_account \/ ReadAccountToDelete \/ DeleteAccount

Next ==
    \/ Server
    \/ Tick
    \/ MessageHandlers
    \/ LedgerProcessor
    \/ CrashLedgerUpdate
    \/ Scanner
    \/ WebApi

Spec == Init /\ [][Next]_vars

-----------------------------------------------------------------------------
(* Fairness.  The ledger processor and the scanners run in endless loops.  *)
(* A consumer finishes what it has begun.  The authority repeats the       *)
(* current state of every account in periodic AccountUpdate messages, so   *)
(* the latest one arrives at some time; AccountTransfer messages may all   *)
(* be lost.  Time passes.                                                  *)

Fairness ==
    /\ WF_vars(LedgerProcessor)
    /\ WF_vars(ScannerUpdatesLedger)
    /\ WF_vars(ScannerDecidesOnRepair)
    /\ WF_vars(ScannerSchedulesRepair)
    /\ WF_vars(\E c \in Consumers : InsertCommittedTransfer(c)
                                      \/ AbandonDuplicateTransfer(c))
    /\ WF_vars(srv.exists /\ process_account_update_signal(Snapshot(srv)))
    /\ WF_vars(Tick)

FairSpec == Spec /\ Fairness

-----------------------------------------------------------------------------
(* Properties *)

\* Every variable keeps its type: no column leaves its range.
TypeOK ==
    /\ now \in Time
    /\ srv \in [exists : BOOLEAN, creation_date : 1 .. MaxDate,
                last_change : Nat, principal : Principal,
                account_id : AccountIds,
                last_transfer_number : 0 .. MaxNumber,
                last_transfer_committed_at : Time]
    /\ transfers \subseteq Transfer
    /\ updates \subseteq AccountUpdate
    /\ data \in AccountData
    /\ committed_transfer \subseteq Transfer
    /\ pending_ledger_update \in BOOLEAN
    /\ ledger_entry \subseteq LedgerEntry
    /\ uid_seq \in Nat
    /\ historic_entry_id \in Nat
    /\ log \in LogEntry
    /\ transfer_log \subseteq [transfer : Transfer, added_at : Time]
    /\ readers \in [Consumers -> Reader]
    /\ work \in [active : BOOLEAN, data : AccountData,
                 todo : SUBSET Transfer, is_last : BOOLEAN,
                 entries : SUBSET LedgerEntry, log_entry : LogEntry]
    /\ repair \in BOOLEAN
    /\ deletion \in [active : BOOLEAN, ledger_last_entry_id : Nat]
    /\ crashes \in Nat

\* A committed transfer that continues the ledger is never left behind: the
\* account is queued in pending_ledger_update.  The FOR SHARE lock taken by
\* process_account_transfer_signal exists for this.
NoStrandedTransfer ==
    data.exists =>
      \A t \in committed_transfer :
          /\ t.creation_date = data.creation_date
          /\ t.previous_transfer_number = data.ledger_last_transfer_number
          => pending_ledger_update

\* A transfer is given up, and left out of the ledger, only when it is older
\* than MAX_TRANSFER_DELAY: neither a gap between committed transfers, nor a
\* missing tail is skipped sooner.
Booked(t) ==
    \E e \in ledger_entry :
        /\ e.generation = data.generation
        /\ e.creation_date = t.creation_date
        /\ e.transfer_number = t.transfer_number

MissingTransfersAreOld ==
    data.exists =>
      \A t \in transfers :
          /\ t.creation_date = data.creation_date
          /\ t.transfer_number <= data.ledger_last_transfer_number
          => Booked(t) \/ t.committed_at < now - MAX_TRANSFER_DELAY

\* The ledger is a chain: every entry continues the principal of the entry
\* before it (0 at first), and the row shows the principal of the last one.
LedgerIsChain ==
    LET mine == {e \in ledger_entry : e.generation = data.generation}
        before(e) == {f \in mine : f.entry_id = e.entry_id - 1}
    IN  data.exists =>
          /\ \A e \in mine :
                IF before(e) = {}
                  THEN e.principal = e.acquired_amount
                  ELSE \A f \in before(e) :
                          e.principal = f.principal + e.acquired_amount
          /\ IF mine = {}
               THEN data.ledger_principal = 0
               ELSE \E e \in mine :
                      /\ e.entry_id = data.ledger_last_entry_id
                      /\ e.principal = data.ledger_principal

\* Amounts and principals in the ledger fit in their 64-bit columns, and the
\* amounts of correcting entries can be negated.
LedgerFitsColumns ==
    \A e \in ledger_entry :
        /\ e.principal \in Principal
        /\ e.acquired_amount \in Principal
        /\ e.creation_date = DATE0 => e.acquired_amount # MIN_INT64

\* Transfers are booked in the order the server committed them, each one at
\* most once in the life of an account row.
BookedInOrder ==
    \A e, f \in ledger_entry :
        /\ e.generation = f.generation
        /\ e.creation_date # DATE0
        /\ f.creation_date # DATE0
        /\ e.entry_id < f.entry_id
        => \/ e.creation_date < f.creation_date
           \/ /\ e.creation_date = f.creation_date
              /\ e.transfer_number < f.transfer_number

\* The latest log entry about the ledger tells a client exactly what it will
\* find: the update ID, the principal and the next entry ID.
LedgerLogIsCurrent ==
    data.exists =>
      IF log.generation = data.generation
        THEN log = LedgerLogEntry(data)
        ELSE /\ data.ledger_principal = 0
             /\ \A e \in ledger_entry : e.generation # data.generation

\* Update IDs of the ledger object only grow, also when the account gets
\* deleted and created again: this is what object_update_id_seq is for.
UpdateIdsGrow ==
    [][log' # log => log'.object_update_id > log.object_update_id]_vars

\* A committed transfer is logged once, although its message may come again
\* when the garbage collector has already removed its row.
TransferLoggedOnce ==
    \A a, b \in transfer_log : a.transfer = b.transfer => a = b

\* "When an account has been deleted and recreated again, the first ledger
\* entry ID for the new account is guaranteed to be larger than the last
\* entry ID for the deleted account, and the difference is guaranteed to be
\* at least 2" (schemas/accounts.py).
EntryIdGap ==
    data.exists =>
      \A e \in ledger_entry :
          e.generation < data.generation
            => e.entry_id < data.ledger_last_entry_id

\* The ledger never moves back, unless a new server account resets it or the
\* account is created anew.
LedgerMovesForward ==
    [][/\ data'.exists
       /\ data'.generation = data.generation
       /\ data'.creation_date = data.creation_date
       => data'.ledger_last_transfer_number
            >= data.ledger_last_transfer_number]_vars

\* When the authority becomes quiet, the ledger catches up with the server
\* account for good, even if every AccountTransfer message has been lost.
\* (At the end of time, the scanner may still be waiting until the latest
\* update of the ledger is LEDGER_UPDATE_LAG old.)
LedgerCatchesUp ==
    <>[](srv.exists /\ data.exists =>
           /\ data.creation_date = srv.creation_date
           /\ data.ledger_last_transfer_number = srv.last_transfer_number
           /\ \/ data.ledger_principal = srv.principal
              \/ data.ledger_latest_update_ts >= MaxTime - LEDGER_UPDATE_LAG)

-----------------------------------------------------------------------------
(* The inductive invariant behind NoStrandedTransfer and                   *)
(* MissingTransfersAreOld.                                                 *)

IsOld(t) == t.committed_at < now - MAX_TRANSFER_DELAY

\* What the authority guarantees: numbers are unique, predecessors are
\* adjacent, and time does not run backwards.
TransfersAreOrdered ==
    /\ \A t \in transfers :
          /\ t.previous_transfer_number < t.transfer_number
          /\ t.creation_date <= srv.creation_date
          /\ t.creation_date = srv.creation_date =>
               /\ t.transfer_number <= srv.last_transfer_number
               /\ t.committed_at <= srv.last_transfer_committed_at
    /\ \A t, u \in transfers :
          t.creation_date = u.creation_date =>
            /\ t.transfer_number = u.transfer_number => t = u
            /\ t.transfer_number < u.transfer_number =>
                 /\ t.transfer_number <= u.previous_transfer_number
                 /\ t.committed_at <= u.committed_at
    /\ srv.last_transfer_committed_at <= now

\* A report of the state of the server account is not ahead of the account,
\* and is not older than the transfers it counts.
IsReport(r) ==
    /\ r.creation_date <= srv.creation_date
    /\ r.creation_date = srv.creation_date =>
         r.last_transfer_number <= srv.last_transfer_number
    /\ \A t \in transfers :
          /\ t.creation_date = r.creation_date
          /\ t.transfer_number <= r.last_transfer_number
          => t.committed_at <= r.last_transfer_committed_at

ReportsAreTrue ==
    /\ \A m \in updates : IsReport(m)
    /\ IsReport(data)

\* Only transfers that have been sent are in the database.
TransfersAreSent ==
    /\ committed_transfer \subseteq transfers
    /\ work.todo \subseteq transfers
    /\ \A c \in Consumers : readers[c].active => readers[c].message \in transfers

\* What a transaction has read is what the row holds until it ends.
LocksAreHeld ==
    /\ \A c \in Consumers : readers[c].active =>
         /\ ~work.active
         /\ data.exists
         /\ readers[c].ledger_date = data.creation_date
         /\ readers[c].ledger_last_transfer_number
              = data.ledger_last_transfer_number
    /\ work.active =>
         /\ data.exists
         /\ work.data.exists
         /\ work.data.generation = data.generation
         /\ work.data.creation_date = data.creation_date
         /\ work.data.last_transfer_number = data.last_transfer_number
         /\ work.data.last_transfer_committed_at
              = data.last_transfer_committed_at
    /\ deletion.active => data.exists

\* The transfers of the current burst are the next ones to book.  A transfer
\* that is not among them comes later, and only if the burst was full.
BurstIsNext ==
    work.active =>
      /\ data.ledger_last_transfer_number
           <= work.data.ledger_last_transfer_number
      /\ \A t \in work.todo :
            /\ t.creation_date = data.creation_date
            /\ t.transfer_number > work.data.ledger_last_transfer_number
      /\ \A u \in committed_transfer \ work.todo :
            /\ u.creation_date = data.creation_date
            /\ u.transfer_number > work.data.ledger_last_transfer_number
            => /\ ~work.is_last
               /\ \A t \in work.todo : t.transfer_number < u.transfer_number

\* Everything up to the number of a ledger is booked, or has been given up.
IsAccountedFor(row, entries) ==
    /\ row.creation_date = srv.creation_date =>
         row.ledger_last_transfer_number <= srv.last_transfer_number
    /\ \A t \in transfers :
          /\ t.creation_date = row.creation_date
          /\ t.transfer_number <= row.ledger_last_transfer_number
          => \/ IsOld(t)
             \/ \E e \in entries :
                   /\ e.generation = row.generation
                   /\ e.creation_date = t.creation_date
                   /\ e.transfer_number = t.transfer_number

LedgersAreAccountedFor ==
    /\ IsAccountedFor(data, ledger_entry)
    /\ work.active =>
         IsAccountedFor(work.data, ledger_entry \cup work.entries)

\* The safety of the ledger, in inductive form: what process_account_transfer_-
\* signal, process_pending_ledger_update and their interleavings preserve.
LedgerInv ==
    /\ TransfersAreOrdered
    /\ ReportsAreTrue
    /\ TransfersAreSent
    /\ LocksAreHeld
    /\ BurstIsNext
    /\ LedgersAreAccountedFor
    /\ NoStrandedTransfer

=============================================================================
