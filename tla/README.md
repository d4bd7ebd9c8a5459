# Formal models of the Creditors Agent (swpt_creditors)

This directory holds TLA+ models of `src/swpt_creditors`, the reference
implementation of a Swaptacular *creditors agent*: a Python/PostgreSQL
application that manages the users' accounts with remote currencies (debtors).
The models are written from the source code. TLC checks them on small
instances, and TLAPS checks the proofs about them. `PROJECT.json` maps every
definition to the lines it stands for, and lists the runs, the hazards and the
disagreements between code and documentation that were found.

- [1. The system](#1-the-system)
- [2. The modules](#2-the-modules)
- [3. The runs](#3-the-runs)
- [4. Fairness](#4-fairness)
- [5. What is proved](#5-what-is-proved)
- [6. Findings](#6-findings)
- [7. What is not modelled](#7-what-is-not-modelled)
- [8. What could come next](#8-what-could-come-next)
- [9. How to run](#9-how-to-run)

## 1. The system

A creditors agent stands between the creditors (users of the Web API), the
accounting authorities that keep the accounts (other programs, which it talks
to in messages only), and a trade agent. All state is in one PostgreSQL
database. It is changed by short transactions of processes which know nothing
of each other:

```
  Web API (routes/) ----+                          +---- message consumer (actors.py)
                        |      PostgreSQL          |        AccountUpdate, AccountPurge,
  ledger processor -----+-- account_data           |        AccountTransfer, RejectedConfig,
  log processor --------+-- committed_transfer ... +        Prepared-/Rejected-/FinalizedTransfer
  scanners -------------+-- outbox (signalbus) -----------> ConfigureAccount, PrepareTransfer,
                                                            FinalizeTransfer, UpdatedLedger, ...
```

Nothing in the code chooses an isolation level, so transactions run at READ
COMMITTED: a statement sees what is committed when it begins, and a row that
has been read without a lock may have changed when it is written. Row locks
(`FOR SHARE`, `FOR NO KEY UPDATE`), primary keys and foreign keys are the only
synchronisation, and the models are explicit about each of them. Transactions
that fail on them are retried by the `@atomic` decorator, and messages are
acknowledged after the commit; so messages may be handled twice, at the same
time or one after the other.

| Component (code) | State | Operations | Hard behaviour | Correct when |
|---|---|---|---|---|
| **Account ledger** (`procedures/account_updates.py`, `procedures/transfers.py`, `table_scanners.py`) | ledger columns of `account_data`, `committed_transfer`, `pending_ledger_update`, `ledger_entry`, `object_update_id_seq` | `process_account_transfer_signal`, `process_account_update_signal`, `process_account_purge_signal`, `process_pending_ledger_update`, AccountScanner, CommittedTransferScanner | lost, late, repeated messages; four kinds of transactions on one row; giving up missing transfers; a new server account under the same debtor; crashes | transfers are booked once, in order; none that has arrived is forgotten; none is given up early; the ledger is an unbroken chain; it catches up in the end |
| **Correcting entries** (`make_correcting_ledger_entry_if_necessary`, `_update_ledger`) | – | a loop that splits a difference into storable entries | differences do not fit in 64 bits | no overflow; the loop ends at the right principal |
| **Direct transfers** (`procedures/transfers.py`, `routes/transfers.py`) | `running_transfer`, the outbox | initiate, cancel, delete; Rejected-, Prepared-, FinalizedTransfer | unlocked reads in the handlers; several prepared transfers for one request; deletion while the authority holds an amount | success means paid; paid once; nothing stays locked; every transfer gets an outcome |
| **Account life cycle** (`procedures/accounts.py`) | `account`, `account_data`, `creditor.largest_historic_ledger_entry_id` | `create_new_account`, `delete_account` | unlocked read before the DELETE; pegs | entry IDs and update IDs grow across deletions |
| **Account configuration** (`procedures/account_updates.py`, `accounts.py`) | config and info columns | `update_account_config`, ConfigureAccount, RejectedConfig, AccountUpdate, AccountPurge, config scanner | late answers to old configurations; answers about deleted accounts; lost messages | an old message never marks a newer configuration as rejected or effectual; "safe for deletion" is true; problems are reported; orphaned server accounts are discarded |
| **Optimistic updates** (`procedures/common.py: allow_update`) | `*_latest_update_id` | PATCH of display, exchange, knowledge | two clients at once; checks on rows that are not locked; accounts deleted and created again | an update ID never stands for two contents; names are unique; pegs exist |
| **Creditor log** (`models/creditors.py`, stored procedure `process_pending_log_entries`) | `pending_log_entry`, `log_entry`, `last_log_entry_id` | append, process, forget, read | entries out of the order of the changes; two queries for a page | IDs are consecutive; a client that follows the log misses nothing and never goes back |
| **Creditor life cycle** (`procedures/creditors.py`, CreditorScanner) | `creditor`, `agent_config` | reserve, activate, deactivate, scan | scanner against activation; an ID that is used again | an active creditor is not collected; the logs of one ID do not mix; what is abandoned is collected |
| **PIN protection** (`models/creditors.py: PinInfo`) | `pin_info` | verify, change, reset | two kinds of failure counters; unlocked reads | a blocked PIN stays blocked; guesses are limited |
| **Usage limits** (stored procedures) | `usage_stats` and similar | count, check, release | counted in other transactions than the objects; asynchronous commits; 16-bit columns | the counters never err against the user by more than is known; limits are not exceeded by much |
| **Scanners** (`table_scanners.py`) | – | see above | work from stale rows | a stale row does no harm |
| **Message consumer, signalbus, Web API, schemas, CLI, sharding** | outbox tables | conversion and delivery | at-least-once delivery, any order | see above |

How they interact: message handlers and the Web API write rows, log entries
(`pending_log_entry`) and outgoing messages in one transaction. The handlers
leave work for the ledger processor in `pending_ledger_update`; the scanners
leave work there too when messages seem to be lost. The Web API and the
handlers share the rows `account_data` and `running_transfer`.

`PROJECT.json` lists the hazards of all the components with their lines, and
the properties that watch over each of them.

## 2. The modules

| Module | Subject | Extends, or refines | Proofs |
|---|---|---|---|
| `PrincipalCorrection` | 64-bit principals and correcting entries in closed form | – | `PrincipalCorrectionProofs` (lemmas) |
| `CorrectionLoop` | the loop that makes those entries | PrincipalCorrection; its result is the closed form | `ComponentsProofs` |
| `AccountLedger` | the ledger of one account | PrincipalCorrection | `AccountLedgerProofs`, `LedgerSafetyProofs`, `LedgerChainProofs` |
| `DirectTransfers` | running transfers and the two-phase commit | – | `DirectTransfersProofs` |
| `AccountConfig` | configuration and information of one account | – | `AccountProofs` |
| `AccountObjects` | optimistic updates of display and exchange | – | `AccountProofs` |
| `CreditorLog` | the log of one creditor and a client that follows it | refines `Replica` | `CreditorLogProofs` |
| `Replica` | what the log promises: copies that catch up | – | – |
| `CreditorLifecycle` | one creditor ID, reserved again and again | – | `ComponentsProofs` |
| `PinInfo`, `UsageStats` | the PIN, the usage limits of one creditor | – | `ComponentsProofs` |
| `MCAccountLedger`, `MCComponents` | instances for TLC | AccountLedger; the smaller components | `ComponentsProofs`: each component of MCComponents behaves as specified |

An action is a transaction wherever the code holds locks from its first read to
the commit. Where it reads without a lock, the read is one action and the
commit another, and what has been read is in a variable meanwhile (`deletion`,
`session`, `scanned`, `initiating`, ...). `READ COMMITTED` is nothing else: each
statement is a step of its own unless a lock forbids that others come between.

### PrincipalCorrection, CorrectionLoop

`PrincipalCorrection` has the 64-bit principals (the width is the constant
`MAX_INT64`), `contain_principal_overflow`, and the correcting ledger entries
in closed form: `Corrections(from, to)`. `CorrectionLoop` is the loop of
`make_correcting_ledger_entry_if_necessary` (and of the scanner's
`_update_ledger`), one entry per step. Its result *is* `Corrections`
(`LoopIsRight`), so AccountLedger may use the closed form.

### AccountLedger

One account, of one creditor with one debtor. Rows and messages are records,
tables are sets, and one account suffices because no ledger operation touches
two accounts (exception: the entry and update IDs, which come from the creditor
and from a sequence; other accounts only make these numbers bigger).

| In the module | In the code |
|---|---|
| `srv`, `transfers`, `updates`, the actions `Server...` | the accounting authority (external). It numbers an account's transfers, each one points to its predecessor, the numbers may have gaps, negligible transfers change the principal and are not reported; accounts are purged and re-created with a later date |
| `data` | the row of `account_data`: the mirrored server state and the ledger columns. `generation` tells the lives of the account apart |
| `ReadLedgerData`, `InsertCommittedTransfer`, `AbandonDuplicateTransfer`, `CrashTransferSignal` | `process_account_transfer_signal`: read under a `FOR SHARE` lock, insert and commit; or a primary-key conflict; or a dead process |
| `process_account_update_signal`, `process_account_purge_signal` | one step each: they lock the row first and hold the lock to the end |
| `BeginLedgerUpdate`, `BookTransfer`, `StopAtMissingTransfer`, `FinishLedgerUpdate`, `CrashLedgerUpdate` | `process_pending_ledger_update` under an exclusive lock, one committed transfer at a time on the copy `work`; `CompleteLedgerUpdate` is the tail shared by both ways out of the loop: the repair of the tail, then the commit |
| `update_ledger`, `make_correcting_ledger_entry_if_necessary`, `Coalesce` | the functions of these names (`Coalesce` is `log_entry or ...`: only the last log entry of a burst is stored) |
| `ScannerUpdatesLedger`, `ScannerDecidesOnRepair`, `ScannerSchedulesRepair`, `CollectCommittedTransfers` | AccountScanner and CommittedTransferScanner. What is decided from a stale row is a step of its own |
| `create_new_account`, `ReadAccountToDelete`, `DeleteAccount` | the Web API's part in the ledger's life |

A delivered message stays in `transfers` or `updates`, so it may be handled
never, once, often, and in any order. The loss of messages is the absence of
fairness for `ReadLedgerData`. Time is a counter of days. `Tick` waits until
no transaction is open: transactions take seconds and delays are counted in
days.

The stored procedure that does the same work as `process_pending_ledger_update`
(migration `dd24bce84ed1`) has no `burst_count`; it is the case of a
`BURST_COUNT` above the number of transfers.

### DirectTransfers

The rows of `running_transfer`, the messages that have ever been sent in each
direction, and the two-phase commit at the authority (external). Every handler
is two steps, because `_find_running_transfer` reads the row without a lock:
`find_running_transfer` (read) and `process_..._direct_transfer_signal`
(commit). The ORM writes by primary key, and only the columns that have
changed relative to what was read (`WrittenErrorCode`); when the row is gone the
transaction fails (`RollBack`). `cancel_running_transfer` locks the row and is
one step. A consumer that dies between its steps has the effect of a message
delivered again, which is in the model.

Clients use a UUID for one transfer only (the code relies on that: a deleted
transfer's UUID may be initiated again, but then old answers would be taken for
the new transfer's).

### AccountConfig

The configuration of one account here (`account_data`), the server account at
the authority, and the messages between them, each of which stays in a set: it
may arrive late, repeatedly, in any order or not at all. `config_data` and
`negligible_amount` are one value, `config_flags` are the one flag that the code
itself looks at (scheduled for deletion), and `HugeNegligible` is the
configuration of an account that is discarded.

| In the module | In the code |
|---|---|
| `create_new_account`, `update_account_config` | the functions of these names; each of them sends a ConfigureAccount with the row's timestamp and `seqnum` |
| `DeleteAccountUnsafely`; `FindDeletionSafe`, `DeleteAccountSafely` | `delete_account`. Whether the deletion is safe is read without a lock, so the safe one is two steps |
| `Configure`, `CreateServerAccount`, `ChangeBalance`, `RejectConfig`, `PurgeServerAccount` | the authority (external) |
| `process_account_update_signal`, `process_account_purge_signal`, `process_rejected_config_signal` | the message handlers, under the lock of the row |
| `FindNoAccount`, `_discard_orphaned_account` | the handler of an AccountUpdate that finds no row, and the message it sends afterwards: there is no row to lock, so the account may be created in between |
| `Heartbeat` | the periodic AccountUpdate with the latest state |
| `_set_config_error` | AccountScanner; the UPDATE filters again what the scan has found |
| `logged_info` | a ghost: `AccountInfo` as of its last entry in the log |

Timestamps: AccountUpdates that come late carry the timestamp 0, those of a
heartbeat the present time. An account is not created at the very tick of a
message about an earlier one (the code's timestamps are microseconds). The
`ttl` of AccountUpdates makes the consumer drop messages; that is a loss. The
clock does not run backwards, so the protection of `update_account_config` against
that case (the maximum of the present and the last timestamp) is not exercised.

What one sees in this model, and may want to know: `update_account_config` does
not reset `config_error`, so the error of an earlier configuration stays visible
until the new one becomes effectual. And `_discard_orphaned_account` takes its
timestamp after the row was not found; an account that is created in between
gets a server account whose configuration is discarded by a later-stamped
message, until the scanner reports that the configuration is not effectual.

### AccountObjects

Several accounts of one creditor, with the debtor's name (`AccountDisplay`) and
the currency peg (`AccountExchange`). `BeginUpdate` locks the row of the object,
checks the update ID (`allow_update`) and what it can check; `UpdateObject`
commits. Rows of *other* accounts are not locked, so the commit may find that
the name is taken or that the peg is gone: then the unique index and the foreign
key make it fail (`IsConsistent`, `RollBack`). `BeginDeletionOf` and
`DeleteObjects` are `delete_account`, under the lock of the creditor's row. An update of
the knowledge is an update of a display that leaves the name alone.

An update ID of a new object comes from `object_update_id_seq`, of an updated
one from the client; every update moves the sequence, and this is why IDs are
not used again when an account is deleted and re-created
(`VersionsAreUnique`).

### CreditorLog, Replica

Accounts are created and deleted under the lock of the creditor's row and written
to the log directly. Other changes leave a row in `pending_log_entry`, and
`process_pending_log_entries` (`LockCreditor`, `AddPendingLogEntry` in any
order, `CommitLogEntries`) moves them to the log later. The `processor` counts
`last` and `list_id` as the stored procedure counts `last_log_entry_id` and
`transfers_list_latest_update_id` in its record `cr`. So the log is not in the
order of the changes. `get_log_entries` is two queries (`RequestLogEntries`,
`get_log_entries`), between which entries may be added.

The client does what the API's documentation tells it to do: it takes the link
to the log from its wallet, reads all objects, and follows the log page by page
(`IgnoreLogEntry`, `ApplyLogEntry`, `FetchObject`). Responses get lost and the
processor dies (`LosePage`, `CrashProcessor`); the garbage collector deletes what
the client has read (`DeleteStaledLogEntries`; it is assumed that a client
comes back within the retention interval of the log).

`Replica` is the abstract specification: objects whose versions grow, and
copies that move forward only, never past their objects, and get there in the
end. `Sync == INSTANCE Replica` maps `object` and `copy` to themselves and
forgets everything else, that is to say, the log. `CopiesMoveForward` and
`CopiesCatchUp` say that CreditorLog implements it.

### CreditorLifecycle

One creditor ID that is reserved, activated, deactivated, garbage-collected and
reserved again. `create_new_account` keeps the creditor's row locked between
`BeginAccount` and `InsertAccount`; `initiate_running_transfer` does not between
`BeginTransfer` and `InsertTransfer`. `ScanCreditor` and `DeleteCreditor` are the
scanner, which filters again when it locks. Log entries outlive their creditor,
and `FirstLogEntryId` lets the log of the next one begin behind them.

`deactivate_creditor` is one step. That its deletions of accounts may hit
the foreign key of pegs (`_delete_creditor_accounts` deletes the accounts one by
one, and the key has no ON DELETE clause) is not modelled: there are no pegs in
this module.

### PinInfo

The row of `pin_info` with the methods of the class. `verify_pin_value` reads
without a lock (`BeginVerification`) and writes the columns that have changed
when it commits; `update_pin_info` locks first. A failed attempt is committed
too (`Saved`), or the counters would count nothing. The HMAC of a PIN is the PIN.
The exponential limit is the constant function `MaxAfa`.

With overlapping attempts a failure may be counted once instead of twice, for
both write the same number; `FailuresAreLimited` excludes that case (`overlapped`),
`BlockedStaysBlocked` does not. Blocking changes the status without a new update ID
and without an entry in the log.

### UsageStats

The row of `usage_stats`, with two kinds of counters. A request asks, does its
work, and records it, in a transaction each. The stored procedures are an UPDATE
and, if there is no row, an INSERT, which another request may have done before:
the `unique_violation` is swallowed, and with it what had to be recorded
(`collisions` counts that). They commit asynchronously, so that a crash of the
database loses what has not been flushed (`flushed_stats`); any synchronous
commit flushes.

### MCComponents

The six smaller components for TLC. They share no state. To check them in one
run, the component that steps is chosen in the initial state and all others
keep their initial values: the behaviours are those of the six
specifications, one after the other, and not their product.

### Slips

Each module has some definitions whose comment begins with "Slip:". They are
not part of the specification. Each is the mutated form of the definition after
it, with a plausible mistake; `PROJECT.json` ("mutants") says which property
notices it.

## 3. The runs

| Run | Instance | Shows |
|---|---|---|
| `AccountLedger.cfg` | 3 transfers, 4 changes, bursts of 2, 3 days, a crash | `NoStrandedTransfer`, `MissingTransfersAreOld`, `BookedInOrder`, `LedgerMovesForward`, and the inductive `LedgerInv` |
| `LedgerLifecycle.cfg` | 2 consumers, 2 server accounts, the account is deleted and created again, 3 days with garbage collection | `LedgerIsChain`, `LedgerLogIsCurrent`, `TransferLoggedOnce`, `UpdateIdsGrow` |
| `LedgerLiveness.cfg` | 2 transfers, gaps, bursts of 1, amounts from limit to limit of 2-bit principals; all AccountTransfer messages may be lost | `LedgerCatchesUp`; `LedgerFitsColumns` when a correction takes several entries |
| `EntryIdGap.cfg` | 2 transfers, the account is deleted and created again | violation of `EntryIdGap`, see 6 |
| `DirectTransfers.cfg` | 2 consumers, 2 prepared transfers for one transfer, answers that make no sense | `SuccessIsPaid`, `OutcomeIsLogged` |
| `TransferPayment.cfg` | 1 consumer, 3 prepared transfers, fair | `PaidOnce`, `NoMixedInstructions`, `LockedAmountsAreReleased`, `TransfersAreFinalized` |
| `CancelRace.cfg`, `TransferUpdateId.cfg` | 1 consumer, 1 prepared transfer | violations, see 6 |
| `CreditorLog.cfg` | 1 account that is re-created, 1 transfer, pages of 2, a failure | `NothingMissed`, `ListsAreComplete`, `LogIsConsecutive`, and the refinement: `CopiesMoveForward`, `CopiesCatchUp` |
| `Components.cfg` | the six smaller components | `LoopIsRight`; `ActiveIsLegitimate`, `LogsDoNotMix`, `CreditorsAreKept`; `UsersFavor`, `LimitIsKept`; `FailuresAreLimited`, `BlockedStaysBlocked`; `EffectualIsCurrent`, `InfoIsTrue`; `VersionsAreUnique`, `ObjectsAreConsistent`; `ComponentsTypeOK`, the types of all of them with the check constraints of their tables |
| `ComponentsLiveness.cfg` | CorrectionLoop, CreditorLifecycle, AccountConfig, fair | `Terminates`; `AbandonedAreDeleted`; `ProblemsAreReported`, `OrphansAreDiscarded`, and `LateMessagesAreIgnored` when configurations are rejected |
| `DeactivationRace.cfg` | as CreditorLifecycle in Components.cfg | violation of `DeactivatedIsEmpty`, see 6 |

Why the bounds are enough to be interesting:

- *Numbers and bursts (ledger).* With three transfers and a burst of two, a
  burst can be full and leave a rest, full and leave nothing, or not be full; a
  gap may come before, in, or after the burst. Numbers are chosen freely by the
  authority, so a missing number may or may not mean a missing transfer.
- *Time (ledger).* `MAX_TRANSFER_DELAY = 0` makes a transfer old on the next
  day. In `AccountLedger.cfg` the authority is active on two days, so old and
  young missing transfers come together. In `LedgerLifecycle.cfg` messages are
  accepted for one day more (`LOG_RETENTION = 1`), and the garbage collector's
  limit is reached on the third.
- *Principals.* `LedgerLiveness.cfg` has `MAX_INT64 = 1` and the amounts 1 and
  -2, so one unreported change can move the principal from its upper limit 1
  to its lower limit -1. The correction takes two entries; a single one of -2
  would be the amount that cannot be negated. `Components.cfg` has all pairs of
  4-bit principals, where corrections of three entries occur, and `LoopRight` (see
  5) is about every width.
- *Changes (ledger).* `MaxChange` counts what one server account reports. One
  more than the number of transfers leaves room for a negligible transfer,
  which makes correcting entries necessary.
- *Prepared transfers.* The handlers tell the chosen prepared transfer from
  all others, so the third one in `TransferPayment.cfg` is there for two
  unwanted ones that meet.
- *Log.* Three update IDs are a creation, an update and a deletion, or a
  deletion and a re-creation; six entries are three pages, full ones and others. One
  account and one transfer have entries of both kinds (direct and pending), which
  is what overtaking needs, and both have a list.
- *Creditors.* Two reservations are an old and a new creditor of one ID; three
  log entries are an old one, the gap, and a new one; on four days there
  is time for a reservation, a deactivation, and both retention intervals.
- *Usage.* Two requests at the limit 1 overrun it; columns that end at 3 saturate.
  One hour is enough for a period to end, one crash for the loss of a record.
- *PIN.* A PIN of four digits is blocked after three consecutive or
  accumulated failures here (`SmallMaxAfa`), the other one after four, so that the
  PIN may be replaced by one with another limit. One concurrent session against
  `update_pin_info` suffices for each unlocked read; any number of them is in
  `ComponentsProofs`.
- *Configuration.* `MaxSeqnum = 1` gives an account two configurations; accounts
  created later have others. Two changes of the server account without a message are a
  second creation after a purge, or a change of the balance in between. In
  `Components.cfg` nothing is rejected; in `ComponentsLiveness.cfg` one
  configuration is, and there is one change and one tick less.
- *Objects.* Two accounts and one name, so that two requests may give it to both, and
  either may be the other's peg; seven update IDs are the creation of both
  accounts and three more changes.

`CHECK_DEADLOCK FALSE` is set everywhere: the counters of the models are
bounded, `CorrectionLoop` ends, and a settled transfer has nothing to do.

`PaidOnce` and `NoMixedInstructions` are checked with **one** consumer thread,
which is the default of `PROTOCOL_BROKER_THREADS`. With two consumers both are
violated: when `PrepareTransfer` is delivered twice, and the authority prepares
two transfers for it, two consumers can both read a row without a transfer ID,
and both commit. The sample configurations in the repository set more than
one thread, so the assumption is a real one.

`UsersFavor` counts the collisions of first INSERTs: each of them may cost the
user one, and they happen only before the creditor has a row; the comment in the code ("always
in users' favor") leaves them out. `LimitIsKept` assumes limits that are below the end of the
column by at least the number of concurrent requests less one; with higher
limits the counter saturates, deletions drive it down, and it no longer limits
anything.

## 4. Fairness

`AccountLedger!Fairness`: the ledger processor and the scanners are endless
loops (`cli.py`), each of which comes back to every row: weak fairness for
each. A consumer that has begun a transaction ends it. The authority repeats
the state of every account in periodic AccountUpdate messages, so a message
with the latest state arrives at some time (weak fairness for this message
only; for AccountTransfer messages there is none). Time passes. Nothing is
assumed of crashes, of the authority's other activity, or of the Web API.

`DirectTransfers!Fairness`: a broker delivers each message until it is
acknowledged, but a consumer may be busy with another one whenever it tries;
so strong fairness for the delivery of each message (grouped by prepared
transfer), weak fairness for the end of a handler that has begun, and weak
fairness for the authority to answer what it was asked. Nothing is assumed of
the Web API.

`CreditorLog!FairSpec`: the processor of pending entries is an endless loop,
and the client goes on following the log (a client that does not has no right
to an up-to-date copy). The number of crashes and lost responses is bounded.

`MCComponents!FairSpec`: the loop of corrections goes on as long as its condition
holds. Time passes. CreditorScanner and AccountScanner come back to every row,
and a transaction that has locked the creditor's row ends. Heartbeats arrive as
long as there is a server account (`APP_MAX_HEARTBEAT_DELAY_DAYS` supposes just
that). ConfigureAccount messages may all be lost, except for those that discard
an orphan: they are sent again with each heartbeat, until one arrives.

Where time is bounded the bound would end the game before the scanner has come:
`LedgerCatchesUp` excludes the wait for `LEDGER_UPDATE_LAG` at the end of time
explicitly, and in the other models the actions that begin something leave the
time to finish it (`HasTimeFor`, `HasTimeToReport`).

## 5. What is proved

Eight modules of proofs. Nothing is assumed of the constants but the named
assumptions of the modules: `MAX_INT64` is positive; delays and bounds are
natural numbers; amounts fit in a column and are not 0; `BURST_COUNT` is
positive; a PIN has 4 to 10 digits; the usage limits fit in their columns, and
so does the number of concurrent requests; a PIN has at least one attempt. The bounds of the models (`MaxNumber`,
`MaxTime`, ...) are arbitrary there, so a theorem holds for every size of
the instance.

**PrincipalCorrectionProofs.** The arithmetic of corrections, for columns of
every width: a difference of two principals takes at most three entries, and
each of them goes from one principal to another and fits in its column. The
closed form takes a division; the proofs need that the number of entries is the
rounded-up quotient of the difference and `MAX_INT64`.

**AccountLedgerProofs.** `TypeCorrect`: no column leaves its type, whatever the
authority reports. Types suffice here, because `update_ledger` preserves the
type of a row (`UpdateLedgerType`); the non-trivial part is that the entries of
a correction are finitely many and the principal is contained.

**LedgerSafetyProofs.** `LedgerCorrect`: the inductive invariant `LedgerInv`.
Neither of the properties one wants is inductive. Its conjuncts say

| Conjunct | Why it is needed |
|---|---|
| `TransfersAreOrdered` | what the authority guarantees: numbers are unique, a predecessor is adjacent, time does not run backwards. So whatever a transfer jumps over is older than the transfer (`Predecessor`) |
| `ReportsAreTrue` | an AccountUpdate, and the row that mirrors one, does not run ahead of the authority and is not older than the transfers it counts. So the repair of the tail jumps over nothing that is young |
| `TransfersAreSent` | only transfers that have been sent are in the database |
| `LocksAreHeld` | what a transaction has read is still in the row when it commits; this is where the locks count |
| `BurstIsNext` | a committed transfer outside the burst comes after it, and only if the burst is full. So the record in `pending_ledger_update` may be deleted after a burst that is not full |
| `LedgersAreAccountedFor` | all the transfers up to the number of a ledger (of the row, and of the processor's copy) are booked or old |
| `NoStrandedTransfer` | a committed transfer that continues the ledger has its account queued |

The proof has one lemma for each action. What a transaction may rely on is
collected in two lemmas: `BystanderKeepsInv` for those that leave the row alone
and `OwnerKeepsInv` for those that end with no lock left. Consequences:
`StrandedCorrect` (`NoStrandedTransfer`), `MissingCorrect`
(`MissingTransfersAreOld`) and `ForwardCorrect` (the action property
`LedgerMovesForward`), for any number of consumers, transfers and re-created
accounts, any size of bursts and any delay.

**LedgerChainProofs.** What the ledger contains. `ChainCorrect`: `ChainInv` is
inductive on top of `LedgerInv`. Its core, `IsDescribed`, is about a row, a set of
entries and a log entry, and holds of the stored ones (`RowIsDescribed`) and of
those that the ledger processor works on (`WorkIsDescribed`):

| Conjunct | Why it is needed |
|---|---|
| `IsChain` | an entry continues the one with the preceding ID, or begins the ledger, and the one with the last ID has the row's principal. So a correction, which is told by the row, continues the chain |
| `AreInOrder`, `AreUpTo` | no booked transfer is beyond the row's creation date and last transfer number. So the next one to be booked is the last in the order |
| `Fits` | entries fit in their columns, and no correction is the amount that cannot be negated |
| `IsLoggedBy` | the latest log entry describes the row; before the first one, the ledger is empty |
| `HistoryIsKept` | entries of deleted accounts stay as they are, and the sequence of update IDs is ahead of the log and of the row, which counts its update IDs by itself; so a new account goes on behind the old one |
| `StepsAreContained` | the authority's transfers lead from one principal to another |

`ChainContinues` is the lemma that all actions share: entries that lead on from the
end of a chain make a longer chain. The closed form of the corrections does that
by `CorrectedSteps`. From the invariant follow `IsChainCorrect`, `FitsCorrect`,
`OrderCorrect`, `LogCorrect`, and `UpdateIdsCorrect` (the action property
`UpdateIdsGrow`). `LoggedOnceCorrect` has an invariant of its own, `LoggingInv`:
a transfer that has been logged has its row still, or its message is too old; and
what a consumer that has begun has received is not too old. So it finds the row.

**DirectTransfersProofs.** `TypeCorrect`; `TransfersCorrect` (`TransferInv`,
inductive), from which `SuccessCorrect` (`SuccessIsPaid`) and `OutcomeCorrect`
(`OutcomeIsLogged`) follow, for any number of consumers. The strengthening
says that the messages fit each other (`AnswersFitRequests`), that a row and every
copy of it that a handler holds have the update ID that goes with their state
(`RowsAreProper`), and that a row a handler has not found is not there when it
commits (`ReadsWereTrue`), which is all that handlers without locks can rely
on. Under the assumption `OneConsumer` (one consumer thread), `ChoiceCorrect`
proves `ChoiceInv`, and with it `PaidOnceCorrect` and `InstructionsCorrect`:
then what a handler has read is still in the row (`ReadsAreCurrent`), and the
answers agree with the transfer ID in the row.

**AccountProofs**, about AccountConfig. `ConfigCorrect`: the inductive `ConfigInv`, from which
`ConfigTypesCorrect`, `EffectualCorrect`, `InfoCorrect` and (as an action property) `LateCorrect`
follow. The messages determine what the row may believe:

| Conjunct | Why it is needed |
|---|---|
| `StatesAreOrdered` | `last_change` tells the states of the server account apart. So two reports that look equally recent are the same report, and ignoring one of them loses nothing |
| `PurgesAreComplete` | every server account but the present one has been purged. So a row without a server account, of which one has been heard, has lost it for good |
| `RowInv` | the row knows of nothing that has not happened (`IsHeardOf`); it is effectual exactly for the state it was told of (`IsEffectualFor`); and its configuration is later than all others that have been sent for the account (`IsLatestConfig`), since `seqnum` grows within an account and the timestamp between accounts. So a new configuration cannot be mistaken for one that is known at the authority |
| `DeletionInv` | what `delete_account` has read without a lock stays true: purges are not undone |
| `InfoIsLogged` | what AccountInfo shows is what the last log entry announced |

**AccountProofs**, about AccountObjects. `ObjectsCorrect`: the inductive `ObjectsInv`; from it
`VersionsCorrect` and `ConsistencyCorrect`. Locks exclude each other
(`LocksAreExclusive`), hence what an update was allowed to do it may still do
when it commits (`UpdatesAreNext`); no version is newer than the object
(`VersionsAreOld`) or than the sequence; and a deleted account has neither
name nor peg (`DeletedAreEmpty`), so it blocks nobody else's.

**ComponentsProofs**, about CorrectionLoop. `LoopInv` is inductive
(`LoopCorrect`): after `k` rounds the entries made are the first `k` of the closed
form, and the ledger is at the principal that the closed form gives for `k`.
From it `LoopRight`: every principal and amount fits in its column, for every
width of the columns, and when the loop ends, its result is exactly
`Corrections`.

**ComponentsProofs**, about CreditorLifecycle. `LifecycleCorrect`: the inductive `LifecycleInv`;
from it `LifecycleTypesCorrect`, `ActivationCorrect`, `LogsCorrect`, and
`KeptCorrect` (an action property). `LogEndsWithOwnEntries` says that the
creditor's own entries are the last ones and that `last_log_entry_id` is beyond
all others by at least one, which is the gap. `LargestLogId` exists because the
IDs are bounded (a conjunct of `LifecycleTypes`); this uses that `<` is
well-founded.

**ComponentsProofs**, about PinInfo. `PinCorrect`: the inductive `PinInv`. Every
row that a session has read was sound, and a failed attempt changes, besides
counters, at most the status, the PIN and its length together, to "blocked" and
none; so whatever such an attempt writes over a row that has changed meanwhile,
the check constraints of the table hold. `BlockedCorrect`: no interleaving of
attempts opens a blocked PIN. `FailuresCorrect` (`FailuresAreLimited`): as long as
attempts do not overlap, the counters of the row follow the failures
(`CountersInv`). The limit on those in a row is that of `cfa`. The accumulated ones
take an argument about periods (`IsAccumulated`): `afa` counts the failures since
`afa_last_reset`, at most the longest limit less one is left from the period before
the reset, and every period of that length meets no more than these two; hence
the bound of twice as many.

**ComponentsProofs**, about UsageStats. `UsageCorrect`: the inductive `UsageInv`;
`FavorInv`, its core, counts the requests that have still to be recorded or to
delete something (`Unsettled`, by its cardinality), for the row and for what a
crash would leave of it. Saturation of the counter is harmless as long as the
number of requests fits in the column. `FavorCorrect` (`UsersFavor`) follows.
`LimitsCorrect` (`LimitIsKept`) has the inductive `LimitInv`: as long as nothing
fails, what exists and what may still be created by requests that have been
allowed is no more than the limit and all the other requests, because a
request is allowed only when the counter has not reached the limit, and the
counter is behind by no more than the requests that are `Unsettled`; and the
same for the operations of a period (`LimitsOf`).

**ComponentsProofs**, about the composition. `ComponentsAsSpecified`: the steps
of MCComponents are steps of each component or leave it alone, so that every
theorem about a component holds of what TLC checks; `ComponentsTypesCorrect`
(`ComponentsTypeOK`) is one that is about all of them.

**CreditorLogProofs.** `LogIsSound`: the inductive `LogInv`. The properties are
conjuncts of it; the others say what they rest on.

| Conjunct | Why it is needed |
|---|---|
| `EntriesOK` | every entry, in the log or on its way, tells of a state that its object has had or has now (`IsTrue`). So an entry that is applied late takes no copy past its object |
| `LogOK` | the IDs of the entries after the client's cursor are those up to `last_log_entry_id` (`AreNumbered`), whatever has been collected before it |
| `ProcessorOK` | what the processor has added is numbered from the end of the log on, and is what the pending rows and the list ask for; it holds the lock, so the log has not moved |
| `CopiesOK` | a copy that is as new as its object is the same |
| `ClientOK` | the cursor, the page and the request of the client are behind each other and behind the log |

Pages are the first entries behind the cursor, selected by cardinality;
`FirstEntriesPrecede` says what this means, and from it follows that a page leaves
out nothing that comes before its last entry. `NothingIsMissed`,
`ListsStayComplete` and `LogStaysConsecutive` follow, and `LogImplementsReplica`:
every step of CreditorLog is a step that `Replica` allows, or a stutter
(`CopiesMoveForward`).

All safety invariants and action properties that the passing runs check are
proved. Only model-checked: liveness under fairness (`LedgerCatchesUp`,
`LockedAmountsAreReleased`, `TransfersAreFinalized`, `CopiesCatchUp`, `Terminates`,
`AbandonedAreDeleted`, `ProblemsAreReported`, `OrphansAreDiscarded`), which is out
of the prover's reach.

## 6. Findings

- **EntryIdGap** (`accounts.py:148`). The documentation of
  `AccountLedger` in `schemas/accounts.py` promises a gap of two between the
  entry IDs of a deleted and a re-created account. `delete_account` takes the
  last entry ID from an unlocked read; entries that the ledger processor adds
  before the DELETE are not counted, and the new account may begin at an ID
  which was used. (While old entries are still there, the primary key of
  `ledger_entry` would make the next booking fail and be repeated; in the
  model `HasFreeKeys` does that.)
- **CanceledIsNotPaid** (`transfers.py:341`). A cancellation that is committed
  between the read and the commit of
  `process_prepared_direct_transfer_signal` is confirmed to the client, and
  the transfer is committed all the same.
- **UpdateIdGrows** (`transfers.py:302`). A rejection handled at the same time
  as a cancellation overwrites its outcome under the same update ID, so a
  client that has seen the first one will not fetch the second.
- **DeactivatedIsEmpty** (`transfers.py:77`). `initiate_running_transfer` finds
  an active creditor without locking its row. When the creditor is deactivated
  before the INSERT, the transfer stays with a deactivated creditor, contrary
  to the comment at `models/creditors.py:73`, until the creditor is
  garbage-collected.

All of them depend on READ COMMITTED; under SERIALIZABLE one of the two
transactions would fail and be retried.

## 7. What is not modelled

- Data: display texts, notes, URIs, hashes, amounts in messages of direct
  transfers (a message matches what was asked or it does not), JSON, HTTP,
  authentication, pagination other than the log's. The schemas are the wording
  of the API; what a page of the log, an entry, or a PIN must have is in the
  modules that need it.
- Decoding and validation of messages in `actors.py`: pure conversion, and what
  is refused there is never seen by a handler.
- In AccountLedger: the drop of AccountUpdate messages whose `ttl` has passed (it
  is a loss); LedgerEntryScanner, which deletes old ledger entries (nothing reads
  them back); the reasons for which `delete_account` refuses (any deletion is
  allowed here, which is more behaviour; the reasons are in AccountConfig and
  AccountObjects); `nextval` calls for other objects.
- In AccountConfig: interest rates, limits and debtor information, which are
  copied from messages and shown.
- Signals to the trade agent (UpdatedLedger, UpdatedPolicy, UpdatedFlags), which
  is another program.
- Sharding: the splitting of a shard and the deletion of the parent shard's records
  are administration done when servers are set up.
- Command line and process supervision, apart from the endless loops; migrations
  other than the stored procedures: administration.

## 8. What could come next

An abstract specification of the ledger (a list of booked transfers that grows)
that AccountLedger refines, for which `ChainInv` has what is needed; the safety
part of the arguments for liveness (that each of them has a measure which no step
but the environment's can increase); two creditors with the order of their locks,
once an operation touches two of them.

## 9. How to run

```
tlc -config AccountLedger.cfg MCAccountLedger.tla
tlc -config DirectTransfers.cfg DirectTransfers.tla
tlc -config CreditorLog.cfg CreditorLog.tla
tlc -config Components.cfg MCComponents.tla
tlc -config DeactivationRace.cfg CreditorLifecycle.tla
tlapm LedgerSafetyProofs.tla
tlapm ComponentsProofs.tla
```

and so on: the module of each configuration is in `PROJECT.json` ("runs"). No run
takes more than a few minutes with two workers.
