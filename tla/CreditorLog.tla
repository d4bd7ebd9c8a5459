---------------------------- MODULE CreditorLog ----------------------------
(***************************************************************************)
(* The log of one creditor and a client that follows it.                   *)
(*                                                                         *)
(* Adding to the log takes a lock on the creditor's row.  The creation and *)
(* the deletion of an account hold it anyway and write to the log          *)
(* themselves; every other change only leaves a row in pending_log_entry,  *)
(* in the transaction that makes the change, and a background process      *)
(* moves those rows to the log, all that are there at once.  So the log is *)
(* not in the order of the changes: the deletion of an account may precede *)
(* an update that has been made before it, and the stored procedure reads  *)
(* the pending rows without an ORDER BY.                                   *)
(*                                                                         *)
(* An account stands for the seven objects that are created, deleted and   *)
(* logged with it; CreateAccount, UpdateAccount... are the log side of     *)
(* procedures/accounts.py, CreateTransfer... of procedures/transfers.py.   *)
(***************************************************************************)
EXTENDS Naturals, FiniteSets, FiniteSetsExt

CONSTANTS
    Accounts,           \* mutable objects that may be re-created
    Transfers,          \* mutable objects that are deleted for good
    EntriesPerPage,     \* APP_LOG_ENTRIES_PER_PAGE
    MaxUpdateId,        \* bound: of object_update_id_seq
    MaxLogEntryId,      \* bound: of the entries in the log
    MaxFailures         \* bound: of crashes and lost responses

ASSUME CreditorLogAssumption ==
    /\ EntriesPerPage \in Nat \ {0}
    /\ MaxUpdateId \in Nat \ {0}
    /\ MaxLogEntryId \in Nat /\ MaxFailures \in Nat
    /\ Accounts \cap Transfers = {}
    /\ {"AccountsList", "TransfersList"} \cap (Accounts \cup Transfers) = {}

VARIABLES
    object,             \* exists, and latest_update_id, of each object
    uid_seq,            \* object_update_id_seq
    pending_log_entry,  \* the table, the rows of this creditor
    log_entry,          \* the table, the rows of this creditor
    last_log_entry_id,  \* creditor.last_log_entry_id
    processor,          \* the transaction of process_pending_log_entries
    unread,             \* objects that the client has not read yet
    copy,               \* what the client knows of each object
    members,            \* what the client has found in each list
    cursor,             \* the "prev" of the client's next request
    request,            \* last_log_entry_id, as the request has read it
    page,               \* the entries that the client has to process
    failures            \* how often a process or the network has failed

vars == <<object, uid_seq, pending_log_entry, log_entry,
          last_log_entry_id, processor, unread, copy, members, cursor,
          request, page, failures>>

server == <<object, uid_seq, pending_log_entry, log_entry,
            last_log_entry_id, processor, failures>>
client == <<unread, copy, members, cursor, request, page>>

Lists == {"AccountsList", "TransfersList"}
Objects == Accounts \cup Transfers \cup Lists

State == [exists: BOOLEAN, version: Nat]
Unknown == [exists |-> FALSE, version |-> 0]

\* A transfer is "deleted permanently": nothing comes after it.
Forever == MaxUpdateId + 1

\* NULL as object_update_id: the object is immutable, or has been deleted
\* permanently.
NoUpdateId == 0

\* BaseLogEntry: object_type and object_uri, object_update_id, is_deleted.
PendingEntry(o, update_id, is_deleted) ==
    [object |-> o, update_id |-> update_id, is_deleted |-> is_deleted]

PendingLogEntry ==
    [object: Objects, update_id: Nat, is_deleted: BOOLEAN]

LogEntry == [entry_id: Nat, object: Objects, update_id: Nat,
             is_deleted: BOOLEAN]

\* _add_log_entry gives the entry its ID.
AsLogEntry(id, e) ==
    [entry_id |-> id, object |-> e.object, update_id |-> e.update_id,
     is_deleted |-> e.is_deleted]

\* What is in a list now.
Members(l) ==
    {o \in (IF l = "AccountsList" THEN Accounts ELSE Transfers) :
        object[o].exists}

\* The transaction has its own creditor's row (cr in the stored procedure):
\* last is cr.last_log_entry_id, list_id cr.transfers_list_latest_update_id.
Idle == [is_locking |-> FALSE, todo |-> {}, done |-> {}, added |-> {},
         last |-> 0, list_id |-> 0]

NoRequest == [is_read |-> FALSE, last |-> 0]
NoPage == [is_read |-> FALSE, entries |-> {}, next |-> 0]

Init ==
    /\ object = [o \in Objects |-> IF o \in Lists
                                     THEN [exists |-> TRUE, version |-> 1]
                                     ELSE Unknown]
    /\ uid_seq = 0
    /\ pending_log_entry = {}
    /\ log_entry = {}
    /\ last_log_entry_id = 0
    /\ processor = Idle
    /\ unread = Objects \cup {"Wallet"}
    /\ copy = [o \in Objects |-> Unknown]
    /\ members = [l \in Lists |-> {}]
    /\ cursor = 0
    /\ request = NoRequest
    /\ page = NoPage
    /\ failures = 0

\* Bound: every change adds two entries to the log at most.
HasRoom ==
    last_log_entry_id + 2 * Cardinality(pending_log_entry) + 2 <= MaxLogEntryId

-----------------------------------------------------------------------------
(* Accounts: the creditor's row is locked, the log is written directly.    *)

\* Slip: the log is written without the lock on the creditor's row.
IsNotLocked == TRUE

IsCreditorLockFree == ~processor.is_locking

\* The creditor's row is written with the entries: the list of accounts has
\* got a new update ID.
LogAccount(a, state, is_deleted) ==
    LET list_id == object["AccountsList"].version + 1
        account_entry == PendingEntry(a, state.version, is_deleted)
        list_entry == PendingEntry("AccountsList", list_id, FALSE)
        first == IF is_deleted THEN list_entry ELSE account_entry
        second == IF is_deleted THEN account_entry ELSE list_entry
    IN  /\ object' = [object EXCEPT ![a] = state,
                                    !["AccountsList"].version = list_id]
        /\ log_entry' = log_entry \cup
               {AsLogEntry(last_log_entry_id + 1, first),
                AsLogEntry(last_log_entry_id + 2, second)}
        /\ last_log_entry_id' = last_log_entry_id + 2

CreateAccount(a) ==
    /\ HasRoom
    /\ IsCreditorLockFree
    /\ ~object[a].exists
    /\ uid_seq < MaxUpdateId
    /\ uid_seq' = uid_seq + 1
    /\ LogAccount(a, [exists |-> TRUE, version |-> uid_seq + 1], FALSE)
    /\ UNCHANGED <<pending_log_entry, processor>>
    /\ UNCHANGED <<client, failures>>

DeleteAccount(a) ==
    /\ HasRoom
    /\ IsCreditorLockFree
    /\ object[a].exists
    /\ uid_seq < MaxUpdateId
    /\ uid_seq' = uid_seq + 1
    /\ LogAccount(a, [exists |-> FALSE, version |-> uid_seq + 1], TRUE)
    /\ UNCHANGED <<pending_log_entry, processor>>
    /\ UNCHANGED <<client, failures>>

\* Slip: the sequence is not moved by an update.
SequenceKept == uid_seq

\* db.session.scalar(uid_seq): an object that is re-created later takes its
\* ID from the sequence, which has to keep up with the updates.
SequenceMoved == uid_seq + 1

\* An update of the account or of an object that belongs to it.
UpdateAccount(a) ==
    /\ HasRoom
    /\ object[a].exists
    /\ uid_seq < MaxUpdateId
    /\ uid_seq' = SequenceMoved
    /\ object' = [object EXCEPT ![a].version = @ + 1]
    /\ pending_log_entry' = pending_log_entry \cup
           {PendingEntry(a, object[a].version + 1, FALSE)}
    /\ UNCHANGED <<log_entry, last_log_entry_id, processor>>
    /\ UNCHANGED <<client, failures>>

-----------------------------------------------------------------------------
(* Transfers: the creditor's row is not locked.                            *)

ChangeTransfer(t, state, update_id, is_deleted) ==
    /\ HasRoom
    /\ object' = [object EXCEPT ![t] = state]
    /\ pending_log_entry' = pending_log_entry \cup
           {PendingEntry(t, update_id, is_deleted)}
    /\ UNCHANGED <<uid_seq, log_entry, last_log_entry_id, processor>>
    /\ UNCHANGED <<client, failures>>

\* The client makes a new UUID for each transfer.
CreateTransfer(t) ==
    /\ object[t] = Unknown
    /\ ChangeTransfer(t, [exists |-> TRUE, version |-> 1], 1, FALSE)

FinalizeTransfer(t) ==
    /\ object[t] = [exists |-> TRUE, version |-> 1]
    /\ 2 <= MaxUpdateId
    /\ ChangeTransfer(t, [exists |-> TRUE, version |-> 2], 2, FALSE)

DeleteTransfer(t) ==
    /\ object[t].exists
    /\ ChangeTransfer(t, [exists |-> FALSE, version |-> Forever],
                      NoUpdateId, TRUE)

-----------------------------------------------------------------------------
(* process_pending_log_entries: one transaction under the creditor's lock. *)
(* Rows that are added meanwhile are left to the next one.                 *)

LockCreditor ==
    /\ ~processor.is_locking
    /\ pending_log_entry # {}
    /\ processor' = [Idle EXCEPT !.is_locking = TRUE,
                                 !.todo = pending_log_entry,
                                 !.last = last_log_entry_id,
                                 !.list_id = object["TransfersList"].version]
    /\ UNCHANGED <<object, uid_seq, pending_log_entry, log_entry,
                   last_log_entry_id>>
    /\ UNCHANGED <<client, failures>>

\* Slip: only new transfers change the list.
IsNewTransfer(e) == e.object \in Transfers /\ e.update_id = 1

\* A transfer has been created or deleted.
ChangesTransfersList(e) ==
    e.object \in Transfers /\ (e.is_deleted \/ e.update_id \in {1, NoUpdateId})

NextEntryId == processor.last + 1

\* _add_transfers_list_update_log_entry
ListEntry == PendingEntry("TransfersList", processor.list_id + 1, FALSE)

\* What is added to the log for a pending entry.
LogEntriesFor(e) ==
    {AsLogEntry(NextEntryId, e)} \cup
        (IF ChangesTransfersList(e)
           THEN {AsLogEntry(NextEntryId + 1, ListEntry)} ELSE {})

AddPendingLogEntry(e) ==
    LET list_changes == IF ChangesTransfersList(e) THEN 1 ELSE 0
    IN  /\ e \in processor.todo
        /\ processor' =
               [processor EXCEPT !.todo = @ \ {e},
                                 !.done = @ \cup {e},
                                 !.added = @ \cup LogEntriesFor(e),
                                 !.last = @ + 1 + list_changes,
                                 !.list_id = @ + list_changes]
        /\ UNCHANGED <<object, uid_seq, pending_log_entry, log_entry,
                       last_log_entry_id>>
        /\ UNCHANGED <<client, failures>>

CommitLogEntries ==
    /\ processor.is_locking
    /\ processor.todo = {}
    /\ log_entry' = log_entry \cup processor.added
    /\ last_log_entry_id' = processor.last
    /\ object' = [object EXCEPT !["TransfersList"].version =
                                    processor.list_id]
    /\ pending_log_entry' = pending_log_entry \ processor.done
    /\ processor' = Idle
    /\ UNCHANGED <<uid_seq>>
    /\ UNCHANGED <<client, failures>>

\* The process dies; everything is rolled back.
CrashProcessor ==
    /\ processor.is_locking
    /\ failures < MaxFailures
    /\ failures' = failures + 1
    /\ processor' = Idle
    /\ UNCHANGED <<object, uid_seq, pending_log_entry, log_entry,
                   last_log_entry_id>>
    /\ UNCHANGED client

-----------------------------------------------------------------------------
(* The retention of the log.                                               *)

\* What the client has still to process, once it is in the log.
InLogAhead ==
    IF page.is_read
      THEN page.entries \cup {e \in log_entry : e.entry_id > page.next}
      ELSE {e \in log_entry : e.entry_id > cursor}

\* LogEntryScanner deletes entries that are older than the retention
\* interval (90 days, which the wallet tells the client as logRetentionDays).
\* It is assumed that the client has come to read them by then.
DeleteStaledLogEntries ==
    /\ \E e \in log_entry : e.entry_id <= cursor
    /\ log_entry' = {e \in log_entry : e.entry_id > cursor}
    /\ UNCHANGED <<object, uid_seq, pending_log_entry, last_log_entry_id,
                   processor>>
    /\ UNCHANGED <<client, failures>>

-----------------------------------------------------------------------------
(* The client.  It takes the link to the log from its wallet, then reads   *)
(* every object, then follows the log.                                     *)

OpenWallet ==
    /\ "Wallet" \in unread
    /\ cursor' = last_log_entry_id
    /\ unread' = Objects
    /\ UNCHANGED <<copy, members, request, page, failures>>
    /\ UNCHANGED server

\* What the client finds at the URI of an object.
Read(o) ==
    /\ copy' = [copy EXCEPT ![o] = IF object[o].exists THEN object[o] ELSE @]
    /\ members' = [l \in Lists |-> IF l = o THEN Members(l) ELSE members[l]]

\* The lists come first: they tell which objects there are.
ReadObject(o) ==
    /\ "Wallet" \notin unread
    /\ o \in unread
    /\ o \in Lists \/ unread \cap Lists = {}
    /\ unread' = unread \ {o}
    /\ Read(o)
    /\ UNCHANGED <<cursor, request, page, failures>>
    /\ UNCHANGED server

\* The two queries of get_log_entries: under READ COMMITTED, each of them
\* sees what has been committed before it.
RequestLogEntries ==
    /\ unread = {}
    /\ ~request.is_read /\ ~page.is_read
    /\ request' = [is_read |-> TRUE, last |-> last_log_entry_id]
    /\ UNCHANGED <<unread, copy, members, cursor, page>>
    /\ UNCHANGED server

\* Slip: the ID of the last entry is read after the entries.
LastReadLate(entries) == last_log_entry_id

\* A full page has a "next" link; the link "forthcoming" of the last page is
\* to last_log_entry_id, which has been read first.
NextCursor(entries) ==
    IF Cardinality(entries) < EntriesPerPage THEN request.last
    ELSE Max({e.entry_id : e \in entries})

\* The first entries of a set, in the order of their IDs.
FirstEntries(entries, count) ==
    {e \in entries :
        Cardinality({f \in entries : f.entry_id <= e.entry_id}) <= count}

get_log_entries ==
    LET entries == FirstEntries({e \in log_entry : e.entry_id > cursor},
                                EntriesPerPage)
    IN  /\ request.is_read
        /\ page' = [is_read |-> TRUE, entries |-> entries,
                    next |-> NextCursor(entries)]
        /\ request' = NoRequest
        /\ UNCHANGED <<unread, copy, members, cursor>>
        /\ UNCHANGED server

\* The response is lost, or the client crashes before it has saved the page.
LosePage ==
    /\ request.is_read \/ page.is_read
    /\ failures < MaxFailures
    /\ failures' = failures + 1
    /\ request' = NoRequest
    /\ page' = NoPage
    /\ UNCHANGED <<unread, copy, members, cursor>>
    /\ UNCHANGED <<object, uid_seq, pending_log_entry, log_entry,
                   last_log_entry_id, processor>>

\* A deletion without an update ID is final.
EntryState(e) ==
    IF e.update_id = NoUpdateId THEN [exists |-> FALSE, version |-> Forever]
    ELSE [exists |-> ~e.is_deleted, version |-> e.update_id]

IsNews(e) == EntryState(e).version > copy[e.object].version

\* get_data_dict: ledgers and finalized transfers are logged with their data.
HasData(e) ==
    /\ ~e.is_deleted
    /\ e.object \in Accounts \/ (e.object \in Transfers /\ e.update_id > 1)

\* The entries of the page are processed one by one.
IsAt(e) == page.is_read /\ e \in FirstEntries(page.entries, 1)

SkipEntry(e) == page' = [page EXCEPT !.entries = @ \ {e}]

IgnoreLogEntry(e) ==
    /\ IsAt(e)
    /\ ~IsNews(e)
    /\ SkipEntry(e)
    /\ UNCHANGED <<unread, copy, members, cursor, request>>
    /\ UNCHANGED server

\* The entry tells that the object is gone, or what has become of it.
ApplyLogEntry(e) ==
    /\ IsAt(e)
    /\ IsNews(e)
    /\ e.is_deleted \/ (HasData(e) /\ copy[e.object].exists)
    /\ copy' = [copy EXCEPT ![e.object] = EntryState(e)]
    /\ SkipEntry(e)
    /\ UNCHANGED <<unread, members, cursor, request>>
    /\ UNCHANGED server

\* The client asks for the object.  When there is no such object any more,
\* the log tells so elsewhere.
FetchObject(e) ==
    /\ IsAt(e)
    /\ IsNews(e)
    /\ ~e.is_deleted
    /\ Read(e.object)
    /\ SkipEntry(e)
    /\ UNCHANGED <<unread, cursor, request, failures>>
    /\ UNCHANGED server

FinishPage ==
    /\ page.is_read
    /\ page.entries = {}
    /\ cursor' = page.next
    /\ page' = NoPage
    /\ UNCHANGED <<unread, copy, members, request>>
    /\ UNCHANGED server

-----------------------------------------------------------------------------
Processor ==
    \/ LockCreditor
    \/ \E e \in processor.todo : AddPendingLogEntry(e)
    \/ CommitLogEntries

Client ==
    \/ OpenWallet
    \/ \E o \in Objects : ReadObject(o)
    \/ RequestLogEntries
    \/ get_log_entries
    \/ \E e \in page.entries :
           IgnoreLogEntry(e) \/ ApplyLogEntry(e) \/ FetchObject(e)
    \/ FinishPage

Next ==
    \/ \E a \in Accounts : CreateAccount(a) \/ UpdateAccount(a) \/ DeleteAccount(a)
    \/ \E t \in Transfers :
           CreateTransfer(t) \/ FinalizeTransfer(t) \/ DeleteTransfer(t)
    \/ Processor
    \/ CrashProcessor
    \/ DeleteStaledLogEntries
    \/ Client
    \/ LosePage

Spec == Init /\ [][Next]_vars

\* The processes of the server are restarted in endless loops, and the client
\* goes on following the log; failures do not go on for ever (MaxFailures).
FairSpec ==
    /\ Spec
    /\ WF_vars(Processor)
    /\ WF_vars(Client)

-----------------------------------------------------------------------------
\* Accounts never get ahead of the sequence that numbers the next ones.
TypeOK ==
    /\ object \in [Objects -> State]
    /\ uid_seq \in Nat
    /\ \A a \in Accounts : object[a].version <= uid_seq
    /\ pending_log_entry \in SUBSET PendingLogEntry
    /\ log_entry \in SUBSET LogEntry
    /\ last_log_entry_id \in Nat
    /\ processor \in [is_locking: BOOLEAN, todo: SUBSET PendingLogEntry,
                      done: SUBSET PendingLogEntry, added: SUBSET LogEntry,
                      last: Nat, list_id: Nat]
    /\ unread \in SUBSET (Objects \cup {"Wallet"})
    /\ copy \in [Objects -> State]
    /\ members \in [Lists -> SUBSET Objects]
    /\ cursor \in Nat
    /\ request \in [is_read: BOOLEAN, last: Nat]
    /\ failures \in Nat
    /\ page \in [is_read: BOOLEAN, entries: SUBSET LogEntry, next: Nat]

\* Everything that the client will still read.
Ahead == pending_log_entry \cup InLogAhead

\* The client will be told something of o that is newer than its copy.
IsAnnounced(o) ==
    \E e \in Ahead :
        /\ e.object = o
        /\ IsNews(e)
        /\ EntryState(e).version >= object[o].version

BothAbsent(o) == ~object[o].exists /\ ~copy[o].exists

\* A copy that the client has made either is the object's present state, or
\* an entry that tells so is on its way: in the page, in the log behind the
\* cursor, or among the pending entries; whatever the order in which they
\* get to the log, and although the object may be re-created.
NothingMissed ==
    \A o \in Objects \ unread :
        copy[o] = object[o] \/ BothAbsent(o) \/ IsAnnounced(o)

\* The lists that the client has read are complete, or it will be told.  The
\* list of transfers gets its update ID later, with the entry in the log.
ListsAreComplete ==
    \A l \in Lists \ unread :
        \/ members[l] = Members(l)
        \/ \E e \in InLogAhead : e.object = l /\ IsNews(e)
        \/ /\ l = "TransfersList"
           /\ \E e \in pending_log_entry : ChangesTransfersList(e)

\* Everything keeps its type, and behind the cursor the IDs in the log follow
\* one another (LogEntrySchema, schemas/creditors.py:495: "equal to the ID of
\* the previous log entry plus one"), each of them belonging to one entry.
LogIsConsecutive ==
    /\ TypeOK
    /\ \A id \in (cursor + 1)..last_log_entry_id :
           \E e \in log_entry : e.entry_id = id
    /\ \A e \in log_entry : e.entry_id <= last_log_entry_id
    /\ \A e1, e2 \in log_entry : e1.entry_id = e2.entry_id => e1 = e2

\* The client and the server, without the log: what the log is for.
Sync == INSTANCE Replica WITH Versions <- 1..Forever

\* Copies only move forward, to states that their objects have had or to the
\* present one ...
CopiesMoveForward == Sync!Safety

\* ... and in the end they get there.
CopiesCatchUp == Sync!Arrival

=============================================================================
