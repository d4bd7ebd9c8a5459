------------------------- MODULE CreditorLifecycle -------------------------
(***************************************************************************)
(* The life of one creditor ID: it is reserved, activated, deactivated and *)
(* garbage-collected, and may be reserved again.                           *)
(*                                                                         *)
(* Most transactions hold a lock on the creditor's row (_get_creditor with *)
(* lock=True, a FOR NO KEY UPDATE lock).  initiate_running_transfer does   *)
(* not: it reads the row, and inserts the transfer later.  The scanner     *)
(* decides on rows that it has read before, and filters them again when it *)
(* locks them, skipping the rows that are locked.                          *)
(***************************************************************************)
EXTENDS Naturals, FiniteSets

CONSTANTS
    Debtors,                \* the accounts that may be created
    TransferUuids,          \* the running transfers that may be initiated
    INACTIVE_RETENTION,     \* APP_INACTIVE_CREDITOR_RETENTION_DAYS
    DEACTIVATED_RETENTION,  \* APP_DEACTIVATED_CREDITOR_RETENTION_DAYS
    MaxReservations,        \* bound: of the reservation IDs
    MaxLogId,               \* bound: of the entries in the log
    MaxDay                  \* bound: of the calendar

ASSUME CreditorLifecycleAssumption ==
    /\ INACTIVE_RETENTION \in Nat
    /\ DEACTIVATED_RETENTION \in Nat
    /\ MaxReservations \in Nat /\ MaxLogId \in Nat /\ MaxDay \in Nat

VARIABLES
    today,              \* the calendar
    creditor,           \* the row in the creditor table
    has_pin_info,       \* whether there is a row in pin_info
    accounts,           \* the creditor's accounts
    running_transfers,  \* the creditor's running transfers
    log_entry_ids,      \* the entries in the log, with their reservation
    reservations,       \* the sequence of reservation IDs
    activations,        \* ActivateCreditor messages, never lost in here
    creating,           \* create_new_account: the creditor's row is locked
    initiating,         \* initiate_running_transfer: the creditor has been read
    scanned             \* a row that the scanner has read

lifecycle_vars == <<today, creditor, has_pin_info, accounts,
    running_transfers, log_entry_ids, reservations, activations, creating,
    initiating, scanned>>

\* No row.  reservation_id stays here when the row's is set to NULL.
NoCreditor ==
    [exists |-> FALSE, is_activated |-> FALSE, is_deactivated |-> FALSE,
     reservation_id |-> 0, created_at |-> 0, deactivation_date |-> 0,
     last_log_entry_id |-> 0]

CreditorRow ==
    [exists: BOOLEAN, is_activated: BOOLEAN, is_deactivated: BOOLEAN,
     reservation_id: Nat, created_at: Nat, deactivation_date: Nat,
     last_log_entry_id: Nat]

LifecycleInit ==
    /\ today = 0
    /\ creditor = NoCreditor
    /\ has_pin_info = FALSE
    /\ accounts = {}
    /\ running_transfers = {}
    /\ log_entry_ids = {}
    /\ reservations = 0
    /\ activations = {}
    /\ creating = {}
    /\ initiating = {}
    /\ scanned = NoCreditor

IsActive == creditor.exists /\ creditor.is_activated /\ ~creditor.is_deactivated

\* Slip: the creditor's row is read without a lock.
IsRowRead == TRUE

IsRowLockFree == creating = {}

NextDay ==
    /\ today < MaxDay
    /\ today' = today + 1
    /\ UNCHANGED <<creditor, has_pin_info, accounts, running_transfers,
                   log_entry_ids, reservations, activations, creating,
                   initiating, scanned>>

-----------------------------------------------------------------------------
(* Reservation and activation                                              *)

LargestLogId == CHOOSE i \in {e.id : e \in log_entry_ids} :
                    \A e \in log_entry_ids : e.id <= i

\* Slip: the new log goes on where the old one has ended.
NoGapAfterRelic == IF log_entry_ids = {} THEN 0 ELSE LargestLogId

\* Entries of a log that has belonged to a deleted creditor may still be
\* there: the new log starts behind them, with a gap.
FirstLogEntryId == IF log_entry_ids = {} THEN 0 ELSE LargestLogId + 1

\* Bound: the scanner gets the time to delete what has been reserved.
HasTimeFor(retention) == today + retention + 1 <= MaxDay

reserve_creditor ==
    /\ ~creditor.exists
    /\ reservations < MaxReservations
    /\ HasTimeFor(INACTIVE_RETENTION)
    /\ reservations' = reservations + 1
    /\ creditor' =
           [exists |-> TRUE, is_activated |-> FALSE, is_deactivated |-> FALSE,
            reservation_id |-> reservations + 1, created_at |-> today,
            deactivation_date |-> 0, last_log_entry_id |-> FirstLogEntryId]
    /\ UNCHANGED <<today, has_pin_info, accounts, running_transfers,
                   log_entry_ids, activations, creating, initiating, scanned>>

\* Whoever has made the reservation asks for the activation: by a message or
\* by a request, which arrive sooner or later, and maybe repeatedly.
RequestActivation(id) ==
    /\ id \in 1..reservations
    /\ activations' = activations \cup {id}
    /\ UNCHANGED <<today, creditor, has_pin_info, accounts,
                   running_transfers, log_entry_ids, reservations, creating,
                   initiating, scanned>>

IsValidReservation(id) ==
    /\ creditor.exists
    /\ ~creditor.is_activated
    /\ ~creditor.is_deactivated
    /\ creditor.reservation_id = id

\* On an activated creditor, and on an invalid ID, nothing happens.
activate_creditor(id) ==
    /\ id \in activations
    /\ IsRowLockFree
    /\ IsValidReservation(id)
    /\ creditor' = [creditor EXCEPT !.is_activated = TRUE]
    /\ has_pin_info' = TRUE
    /\ UNCHANGED <<today, accounts, running_transfers, log_entry_ids,
                   reservations, activations, creating, initiating, scanned>>

-----------------------------------------------------------------------------
(* Deactivation                                                            *)

\* Everything that belongs to the creditor is deleted, as far as it has been
\* committed.
deactivate_creditor ==
    /\ IsActive
    /\ IsRowLockFree
    /\ HasTimeFor(DEACTIVATED_RETENTION)
    /\ creditor' = [creditor EXCEPT !.is_deactivated = TRUE,
                                    !.deactivation_date = today]
    /\ has_pin_info' = FALSE
    /\ accounts' = {}
    /\ running_transfers' = {}
    /\ UNCHANGED <<today, log_entry_ids, reservations, activations, creating,
                   initiating, scanned>>

-----------------------------------------------------------------------------
(* What an active creditor does                                            *)

\* create_new_account reads the row, and locks it ...
BeginAccount(d) ==
    /\ creating = {}
    /\ IsActive
    /\ d \notin accounts
    /\ creating' = {d}
    /\ UNCHANGED <<today, creditor, has_pin_info, accounts,
                   running_transfers, log_entry_ids, reservations,
                   activations, initiating, scanned>>

\* ... and commits.  Without a row there would be a foreign key violation.
InsertAccount(d) ==
    /\ d \in creating
    /\ creating' = {}
    /\ accounts' = IF creditor.exists THEN accounts \cup {d} ELSE accounts
    /\ UNCHANGED <<today, creditor, has_pin_info, running_transfers,
                   log_entry_ids, reservations, activations, initiating,
                   scanned>>

delete_account(d) ==
    /\ d \in accounts
    /\ IsRowLockFree
    /\ accounts' = accounts \ {d}
    /\ UNCHANGED <<today, creditor, has_pin_info, running_transfers,
                   log_entry_ids, reservations, activations, creating,
                   initiating, scanned>>

\* Entries are added to the log under the lock, while the creditor exists.
AddLogEntry ==
    /\ creditor.exists
    /\ IsRowLockFree
    /\ creditor.last_log_entry_id < MaxLogId
    /\ creditor' = [creditor EXCEPT !.last_log_entry_id = @ + 1]
    /\ log_entry_ids' = log_entry_ids \cup
           {[id |-> creditor.last_log_entry_id + 1,
             reservation |-> creditor.reservation_id]}
    /\ UNCHANGED <<today, has_pin_info, accounts, running_transfers,
                   reservations, activations, creating, initiating, scanned>>

\* LogEntryScanner knows nothing of creditors, only of time.
DeleteLogEntries ==
    /\ \E e \in log_entry_ids :
           log_entry_ids' = {f \in log_entry_ids : f.id > e.id}
    /\ UNCHANGED <<today, creditor, has_pin_info, accounts,
                   running_transfers, reservations, activations, creating,
                   initiating, scanned>>

\* initiate_running_transfer finds an active creditor, without a lock.
BeginTransfer(t) ==
    /\ IsActive
    /\ t \notin initiating \cup running_transfers
    /\ initiating' = initiating \cup {t}
    /\ UNCHANGED <<today, creditor, has_pin_info, accounts,
                   running_transfers, log_entry_ids, reservations,
                   activations, creating, scanned>>

\* The INSERT takes a KEY SHARE lock, for which nobody else has to wait.
InsertTransfer(t) ==
    /\ t \in initiating
    /\ initiating' = initiating \ {t}
    /\ running_transfers' = IF creditor.exists THEN running_transfers \cup {t}
                            ELSE running_transfers
    /\ UNCHANGED <<today, creditor, has_pin_info, accounts, log_entry_ids,
                   reservations, activations, creating, scanned>>

delete_transfer(t) ==
    /\ t \in running_transfers
    /\ running_transfers' = running_transfers \ {t}
    /\ UNCHANGED <<today, creditor, has_pin_info, accounts, log_entry_ids,
                   reservations, activations, creating, initiating, scanned>>

-----------------------------------------------------------------------------
(* CreditorScanner                                                         *)

\* Slip: the wrong flag is tested.
DeactivatedForLongTime(row) ==
    row.is_deactivated /\ row.created_at + INACTIVE_RETENTION < today

not_activated_for_long_time(row) ==
    /\ row.exists
    /\ ~row.is_activated
    /\ row.created_at + INACTIVE_RETENTION < today

deactivated_long_time_ago(row) ==
    /\ row.exists
    /\ row.is_deactivated
    /\ row.deactivation_date + DEACTIVATED_RETENTION < today

ScanCreditor ==
    /\ creditor.exists
    /\ scanned' = creditor
    /\ UNCHANGED <<today, creditor, has_pin_info, accounts,
                   running_transfers, log_entry_ids, reservations,
                   activations, creating, initiating>>

\* Slip: the scanner believes the row that it has read.
IsStillThere(row) ==
    /\ not_activated_for_long_time(row) \/ deactivated_long_time_ago(row)
    /\ creditor.exists

\* The filters are those that the row has passed when it was read: a row that
\* was not activated must not be activated now.
IsFoundAgain(row) ==
    \/ not_activated_for_long_time(row) /\ not_activated_for_long_time(creditor)
    \/ deactivated_long_time_ago(row) /\ deactivated_long_time_ago(creditor)

\* What refers to the creditor is deleted with it (ON DELETE CASCADE).
DeleteCreditor ==
    /\ IsFoundAgain(scanned)
    /\ IsRowLockFree
    /\ creditor' = NoCreditor
    /\ has_pin_info' = FALSE
    /\ accounts' = {}
    /\ running_transfers' = {}
    /\ scanned' = NoCreditor
    /\ UNCHANGED <<today, log_entry_ids, reservations, activations, creating,
                   initiating>>

-----------------------------------------------------------------------------
CreditorScanner == ScanCreditor \/ DeleteCreditor

LifecycleNext ==
    \/ NextDay
    \/ reserve_creditor
    \/ \E id \in 1..MaxReservations :
           RequestActivation(id) \/ activate_creditor(id)
    \/ deactivate_creditor
    \/ \E d \in Debtors : BeginAccount(d) \/ InsertAccount(d) \/ delete_account(d)
    \/ AddLogEntry
    \/ DeleteLogEntries
    \/ \E t \in TransferUuids :
           BeginTransfer(t) \/ InsertTransfer(t) \/ delete_transfer(t)
    \/ CreditorScanner

LifecycleSpec == LifecycleInit /\ [][LifecycleNext]_lifecycle_vars

-----------------------------------------------------------------------------
\* The log is never ahead of last_log_entry_id, nor an old row of the creditor
\* ahead of the sequence of reservations.
LifecycleTypeOK ==
    /\ today \in Nat
    /\ creditor \in CreditorRow
    /\ scanned \in CreditorRow
    /\ has_pin_info \in BOOLEAN
    /\ accounts \subseteq Debtors
    /\ running_transfers \subseteq TransferUuids
    /\ log_entry_ids \subseteq [id: Nat, reservation: Nat]
    /\ reservations \in Nat
    /\ activations \subseteq 1..reservations
    /\ creating \subseteq Debtors
    /\ initiating \subseteq TransferUuids
    /\ creditor.is_deactivated => creditor.is_activated
    /\ creditor.reservation_id <= reservations
    /\ creditor.exists =>
           \A e \in log_entry_ids : e.id <= creditor.last_log_entry_id

\* There is a PIN exactly as long as the creditor is active, and accounts only
\* while it is: neither a late activation nor an account that is being created
\* leaves anything to a creditor that has been deactivated or deleted.
BelongingsNeedActiveCreditor ==
    /\ has_pin_info <=> IsActive
    /\ accounts \cup creating # {} => IsActive

\* Whoever activates the creditor has got its present reservation, however
\* late the message comes, and however often the ID has been reserved.
ActivatedByReservation ==
    creditor.is_activated => creditor.reservation_id \in activations

\* What a creditor may do, and what it has, depends on a valid activation.
ActiveIsLegitimate == BelongingsNeedActiveCreditor /\ ActivatedByReservation

\* The logs of one creditor ID do not mix: an entry is behind all entries of
\* earlier reservations that still exist, and does not follow any of them
\* immediately ("a gap").
LogsDoNotMix ==
    \A e, f \in log_entry_ids :
        e.reservation < f.reservation => e.id + 1 < f.id

\* The scanner never deletes an active creditor, nor one whose time has not
\* come, whatever has happened since it has read the row: a reservation is good
\* for INACTIVE_RETENTION (CreditorReservationSchema.validUntil).
CreditorsAreKept ==
    [][creditor.exists /\ ~creditor'.exists =>
         IF creditor.is_deactivated
           THEN creditor.deactivation_date + DEACTIVATED_RETENTION < today
           ELSE /\ ~creditor.is_activated
                /\ creditor.created_at + INACTIVE_RETENTION < today
      ]_lifecycle_vars

\* A creditor that is not activated, or has been deactivated, does not stay
\* for ever.
AbandonedAreDeleted ==
    \A id \in 1..MaxReservations :
        (creditor.exists /\ creditor.reservation_id = id)
            ~> (IsActive \/ creditor.reservation_id # id)

\* "When a creditor gets deactivated, all its belonging objects (account,
\* transfers, etc.) are removed" (models/creditors.py:73).
DeactivatedIsEmpty ==
    creditor.is_deactivated => accounts = {} /\ running_transfers = {}

=============================================================================
