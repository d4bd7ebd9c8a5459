------------------------ MODULE AccountLedgerProofs ------------------------
(***************************************************************************)
(* Theorems about AccountLedger, for every value of its constants.         *)
(***************************************************************************)
EXTENDS AccountLedger, FiniteSetTheorems, TLAPS

-----------------------------------------------------------------------------
(* The ledger operators *)

\* A contained amount fits in a column.
LEMMA ContainInRange ==
    ASSUME NEW value \in Int
    PROVE  contain_principal_overflow(value) \in Principal
  BY MaxIntAssumption DEF contain_principal_overflow, Principal, MIN_INT64

\* The number of correcting entries is a natural number.
LEMMA CorrectionCountType ==
    ASSUME NEW amount \in Int
    PROVE  CorrectionCount(amount) \in Nat
  <1> DEFINE n == Abs(amount) + MAX_INT64 - 1
  <1>1. n \in Nat /\ MAX_INT64 \in Nat /\ MAX_INT64 > 0
    BY MaxIntAssumption DEF Abs
  <1>2. \A x, y \in Nat : y > 0 => x \div y \in Nat
    BY SMT
  <1>3. n \div MAX_INT64 \in Nat
    BY <1>1, <1>2
  <1> QED
    BY <1>3 DEF CorrectionCount

\* The values of a function on a finite set are finitely many.
LEMMA FiniteRange ==
    ASSUME NEW S, IsFiniteSet(S), NEW f
    PROVE  IsFiniteSet({f[x] : x \in S})
  <1> DEFINE T == {f[x] : x \in S}
             g == [x \in S |-> f[x]]
  <1>1. g \in Surjection(S, T)
    BY DEF Surjection
  <1> QED
    BY <1>1, FS_Surjection

\* Correcting entries are finitely many, and made of integers.
LEMMA CorrectionsType ==
    ASSUME NEW from \in Int, NEW to \in Int
    PROVE  /\ IsFiniteSet(Corrections(from, to))
           /\ Corrections(from, to) \subseteq
                [n : Nat, acquired_amount : Int, principal : Int]
  <1> DEFINE K == 1 .. CorrectionCount(to - from)
             f == [k \in K |->
                     [n |-> k,
                      acquired_amount |-> CorrectedPrincipal(from, to, k)
                        - CorrectedPrincipal(from, to, k - 1),
                      principal |-> CorrectedPrincipal(from, to, k)]]
  <1>1. CorrectionCount(to - from) \in Nat
    BY CorrectionCountType
  <1>2. \A k \in Int : CorrectedPrincipal(from, to, k) \in Int
    BY MaxIntAssumption DEF CorrectedPrincipal
  <1>3. \A k \in K : f[k] \in [n : Nat, acquired_amount : Int, principal : Int]
    BY <1>1, <1>2
  <1>4. IsFiniteSet(K)
    BY <1>1, FS_Interval
  <1>5. Corrections(from, to) = {f[k] : k \in K}
    BY DEF Corrections
  <1> HIDE DEF f, K
  <1>6. IsFiniteSet({f[k] : k \in K})
    BY <1>4, FiniteRange
  <1> QED
    BY <1>3, <1>5, <1>6

\* The correcting entries of a row.
LEMMA CorrectingEntriesType ==
    ASSUME NEW row \in AccountData, NEW acquired_amount \in Int,
           NEW principal \in Principal
    PROVE  LET corrections == make_correcting_ledger_entry_if_necessary(
                                row, acquired_amount, principal)
           IN  /\ corrections \subseteq LedgerEntry
               /\ Cardinality(corrections) \in Nat
               /\ \A e \in corrections : e.creation_date = DATE0
  <1> DEFINE from == row.ledger_principal
             to == principal - acquired_amount
             C == Corrections(from, to)
             f == [c \in C |->
                     [generation |-> row.generation,
                      entry_id |-> row.ledger_last_entry_id + c.n,
                      acquired_amount |-> c.acquired_amount,
                      principal |-> c.principal,
                      creation_date |-> DATE0,
                      transfer_number |-> NullNumber]]
             corrections == make_correcting_ledger_entry_if_necessary(
                                row, acquired_amount, principal)
  <1>1. from \in Int /\ to \in Int
    BY MaxIntAssumption DEF AccountData, Principal, MIN_INT64
  <1>2. /\ IsFiniteSet(C)
        /\ C \subseteq [n : Nat, acquired_amount : Int, principal : Int]
    BY <1>1, CorrectionsType
  <1>3. \/ corrections = {f[c] : c \in C}
        \/ corrections = {}
    BY DEF make_correcting_ledger_entry_if_necessary
  <1>4. \A c \in C : f[c] \in LedgerEntry /\ f[c].creation_date = DATE0
    BY <1>2, LedgerAssumptions DEF AccountData, LedgerEntry, DATE0, NullNumber
  <1> HIDE DEF f, C, corrections
  <1>5. IsFiniteSet({f[c] : c \in C})
    BY <1>2, FiniteRange
  <1>6. IsFiniteSet(corrections)
    BY <1>3, <1>5, FS_EmptySet
  <1>7. Cardinality(corrections) \in Nat
    BY <1>6, FS_CardinalityType
  <1>8. corrections \subseteq LedgerEntry
        /\ \A e \in corrections : e.creation_date = DATE0
    BY <1>3, <1>4
  <1> QED
    BY <1>7, <1>8 DEF corrections

\* What update_ledger returns: a row that differs only in its ledger columns,
\* with the entry of the transfer among the new entries.
LEMMA UpdateLedgerType ==
    ASSUME now \in Time, NEW row \in AccountData,
           NEW number \in 0 .. MaxNumber, NEW amount \in Int,
           NEW principal \in Principal, NEW always_log \in BOOLEAN
    PROVE  LET u == update_ledger(row, number, amount, principal, always_log)
           IN  /\ u.data \in AccountData
               /\ u.entries \subseteq LedgerEntry
               /\ u.log_entry \in LogEntry
               /\ u.data.exists = row.exists
               /\ u.data.generation = row.generation
               /\ u.data.creation_date = row.creation_date
               /\ u.data.last_transfer_number = row.last_transfer_number
               /\ u.data.last_transfer_committed_at
                    = row.last_transfer_committed_at
               /\ u.data.ledger_last_transfer_number = number
               /\ amount # 0 => \E e \in u.entries :
                                   /\ e.generation = row.generation
                                   /\ e.creation_date = row.creation_date
                                   /\ e.transfer_number = number
  <1> DEFINE u == update_ledger(row, number, amount, principal, always_log)
             corrections ==
               make_correcting_ledger_entry_if_necessary(row, amount, principal)
             last_correction ==
               row.ledger_last_entry_id + Cardinality(corrections)
             entry ==
               [generation |-> row.generation,
                entry_id |-> last_correction + 1,
                acquired_amount |-> amount,
                principal |-> principal,
                creation_date |-> row.creation_date,
                transfer_number |-> number]
             entries ==
               corrections \cup (IF amount # 0 THEN {entry} ELSE {})
             is_logged == entries # {} \/ always_log
             new_row ==
               [row EXCEPT
                  !.ledger_last_entry_id =
                      IF amount # 0 THEN last_correction + 1
                                    ELSE last_correction,
                  !.ledger_principal = principal,
                  !.ledger_last_transfer_number = number,
                  !.ledger_latest_update_id = IF is_logged THEN @ + 1 ELSE @,
                  !.ledger_latest_update_ts = IF is_logged THEN now ELSE @]
  <1>1. /\ corrections \subseteq LedgerEntry
        /\ Cardinality(corrections) \in Nat
    BY CorrectingEntriesType
  <1>2. /\ u.data = new_row
        /\ u.entries = entries
        /\ u.log_entry = IF is_logged THEN LedgerLogEntry(new_row)
                                      ELSE NoLogEntry
    BY DEF update_ledger
  <1> HIDE DEF corrections, u
  <1>3. last_correction \in Nat
    BY <1>1 DEF AccountData
  <1> HIDE DEF last_correction
  <1>4. principal \in Int
    BY MaxIntAssumption DEF Principal, MIN_INT64
  <1>5. entry \in LedgerEntry
    BY <1>3, <1>4 DEF AccountData, LedgerEntry
  <1>6. entries \subseteq LedgerEntry
    BY <1>1, <1>5
  <1>7. amount # 0 => entry \in entries
    OBVIOUS
  <1> HIDE DEF entries
  <1>8. is_logged \in BOOLEAN
    OBVIOUS
  <1> HIDE DEF is_logged
  <1>9. /\ new_row \in AccountData
        /\ new_row.exists = row.exists
        /\ new_row.generation = row.generation
        /\ new_row.creation_date = row.creation_date
        /\ new_row.last_transfer_number = row.last_transfer_number
        /\ new_row.last_transfer_committed_at = row.last_transfer_committed_at
        /\ new_row.ledger_last_transfer_number = number
    <2> DEFINE id == IF amount # 0 THEN last_correction + 1
                                   ELSE last_correction
               up == IF is_logged THEN row.ledger_latest_update_id + 1
                                  ELSE row.ledger_latest_update_id
               ts == IF is_logged THEN now ELSE row.ledger_latest_update_ts
    <2>1. id \in Nat
      BY <1>3
    <2>2. up \in Nat
      BY DEF AccountData
    <2>3. ts \in Time
      BY DEF AccountData
    <2>4. new_row = [row EXCEPT !.ledger_last_entry_id = id,
                                !.ledger_principal = principal,
                                !.ledger_last_transfer_number = number,
                                !.ledger_latest_update_id = up,
                                !.ledger_latest_update_ts = ts]
      OBVIOUS
    <2> HIDE DEF id, up, ts, new_row
    <2>5. new_row \in AccountData
      BY <2>1, <2>2, <2>3, <2>4 DEF AccountData
    <2>6. /\ new_row.exists = row.exists
          /\ new_row.generation = row.generation
          /\ new_row.creation_date = row.creation_date
          /\ new_row.last_transfer_number = row.last_transfer_number
          /\ new_row.last_transfer_committed_at
               = row.last_transfer_committed_at
          /\ new_row.ledger_last_transfer_number = number
      BY <2>4 DEF AccountData
    <2> QED
      BY <2>5, <2>6
  <1> HIDE DEF new_row
  <1>10. u.log_entry \in LogEntry
    <2>1. LedgerLogEntry(new_row) \in LogEntry
      BY <1>9 DEF AccountData, LogEntry, LedgerLogEntry
    <2>2. NoLogEntry \in LogEntry
      BY MaxIntAssumption DEF NoLogEntry, LogEntry, Principal, MIN_INT64
    <2> QED
      BY <1>2, <2>1, <2>2
  <1>11. amount # 0 => \E e \in u.entries :
                          /\ e.generation = row.generation
                          /\ e.creation_date = row.creation_date
                          /\ e.transfer_number = number
    BY <1>2, <1>7
  <1> HIDE DEF entry
  <1> QED
    BY <1>2, <1>6, <1>9, <1>10, <1>11 DEF u

-----------------------------------------------------------------------------
(* Type correctness *)

\* The types of the constants, one by one.
LEMMA ConstantTypes ==
    /\ Amounts \subseteq Int
    /\ \A amount \in Amounts : amount # 0
    /\ MAX_TRANSFER_DELAY \in Nat
    /\ MaxNumber \in Nat
    /\ MaxDate \in Nat
    /\ MaxTime \in Nat
    /\ 1 .. MaxNumber \subseteq 0 .. MaxNumber
    /\ 1 .. MaxDate \subseteq 0 .. MaxDate
  <1>1. Principal \subseteq Int
    BY MaxIntAssumption DEF Principal, MIN_INT64
  <1>2. Amounts \subseteq Int /\ \A amount \in Amounts : amount # 0
    BY <1>1, LedgerAssumptions
  <1>3. /\ MAX_TRANSFER_DELAY \in Nat
        /\ MaxNumber \in Nat
        /\ MaxDate \in Nat
        /\ MaxTime \in Nat
    BY LedgerAssumptions
  <1> QED
    BY <1>2, <1>3

\* 0 is a value of every numeric column.
LEMMA ZeroInRange ==
    /\ 0 \in Principal
    /\ Principal \subseteq Int
    /\ 0 \in Time
    /\ Time \subseteq Nat
    /\ 0 \in 0 .. MaxNumber
    /\ 0 \in 0 .. MaxDate
  BY MaxIntAssumption, LedgerAssumptions DEF Principal, MIN_INT64, Time

\* The values of idle transactions and absent rows have their types.
LEMMA IdleTypes ==
    /\ NoAccount \in AccountData
    /\ NoLogEntry \in LogEntry
    /\ IdleReader \in Reader
    /\ IdleWork \in [active : BOOLEAN, data : AccountData,
                     todo : SUBSET Transfer, is_last : BOOLEAN,
                     entries : SUBSET LedgerEntry, log_entry : LogEntry]
  <1>1. NoAccount \in AccountData
    BY ZeroInRange DEF NoAccount, AccountData, DATE0
  <1>2. NoLogEntry \in LogEntry
    BY ZeroInRange DEF NoLogEntry, LogEntry
  <1>3. IdleReader \in Reader
    BY DEF Reader
  <1>4. IdleWork \in [active : BOOLEAN, data : AccountData,
                      todo : SUBSET Transfer, is_last : BOOLEAN,
                      entries : SUBSET LedgerEntry, log_entry : LogEntry]
    BY <1>1, <1>2 DEF IdleWork
  <1> QED
    BY <1>1, <1>2, <1>3, <1>4

\* The account of the authority keeps its type, whatever it does.
ServerAccount ==
    [exists : BOOLEAN, creation_date : 1 .. MaxDate,
     last_change : Nat, principal : Principal,
     account_id : AccountIds,
     last_transfer_number : 0 .. MaxNumber,
     last_transfer_committed_at : Time]

LEMMA SnapshotType ==
    ASSUME NEW account \in ServerAccount
    PROVE  Snapshot(account) \in AccountUpdate
  BY DEF ServerAccount, Snapshot, AccountUpdate

LEMMA ServerType ==
    ASSUME TypeOK, Server
    PROVE  TypeOK'
  <1>1. /\ now \in Time
        /\ srv \in ServerAccount
        /\ updates \subseteq AccountUpdate
        /\ transfers \subseteq Transfer
    BY DEF TypeOK, ServerAccount
  <1>2. /\ srv' \in ServerAccount
        /\ updates' \subseteq AccountUpdate
        /\ transfers' \subseteq Transfer
    <2>1. ASSUME NEW amount \in Amounts, NEW number \in 1 .. MaxNumber,
                 ServerTransfer(amount, number)
          PROVE  /\ srv' \in ServerAccount
                 /\ updates' \subseteq AccountUpdate
                 /\ transfers' \subseteq Transfer
      <3> DEFINE p == contain_principal_overflow(srv.principal + amount)
                 n == srv.last_change + 1
      <3>1. p \in Principal /\ n \in Nat
        <4>1. srv.principal \in Principal /\ n \in Nat
          BY <1>1 DEF ServerAccount
        <4>2. srv.principal \in Int /\ amount \in Int
          BY <4>1, ZeroInRange, ConstantTypes
        <4>3. srv.principal + amount \in Int
          BY <4>2
        <4> QED
          BY <4>1, <4>3, ContainInRange
      <3> HIDE DEF p, n
      <3>2. srv' = [srv EXCEPT !.last_change = n,
                               !.principal = p,
                               !.last_transfer_number = number,
                               !.last_transfer_committed_at = now]
            /\ updates' = updates \cup {Snapshot(srv')}
        BY <2>1 DEF ServerTransfer, ServerChange, p, n
      <3>3. srv' \in ServerAccount
        <4>1. number \in 0 .. MaxNumber
          BY ConstantTypes
        <4> QED
          BY <1>1, <3>1, <3>2, <4>1 DEF ServerAccount
      <3>4. transfers' = transfers \cup
             {[creation_date |-> srv.creation_date,
               transfer_number |-> number,
               previous_transfer_number |-> srv.last_transfer_number,
               acquired_amount |-> amount,
               principal |-> p,
               committed_at |-> now]}
        BY <2>1 DEF ServerTransfer, p
      <3>5. transfers' \subseteq Transfer
        BY <1>1, <3>1, <3>4 DEF ServerAccount, Transfer
      <3> QED
        BY <1>1, <3>2, <3>3, <3>5, SnapshotType
    <2>2. ASSUME NEW amount \in Amounts, ServerNegligibleTransfer(amount)
          PROVE  /\ srv' \in ServerAccount
                 /\ updates' \subseteq AccountUpdate
                 /\ transfers' \subseteq Transfer
      <3> DEFINE p == contain_principal_overflow(srv.principal + amount)
                 n == srv.last_change + 1
      <3>1. p \in Principal /\ n \in Nat
        <4>1. srv.principal \in Principal /\ n \in Nat
          BY <1>1 DEF ServerAccount
        <4>2. srv.principal \in Int /\ amount \in Int
          BY <4>1, ZeroInRange, ConstantTypes
        <4>3. srv.principal + amount \in Int
          BY <4>2
        <4> QED
          BY <4>1, <4>3, ContainInRange
      <3> HIDE DEF p, n
      <3>2. srv' = [srv EXCEPT !.last_change = n, !.principal = p]
            /\ updates' = updates \cup {Snapshot(srv')}
        BY <2>2 DEF ServerNegligibleTransfer, ServerChange, p, n
      <3>3. srv' \in ServerAccount
        BY <1>1, <3>1, <3>2 DEF ServerAccount
      <3> QED
        BY <1>1, <2>2, <3>2, <3>3, SnapshotType DEF ServerNegligibleTransfer
    <2>3. ASSUME NEW id \in AccountIds, ServerChangesAccountId(id)
          PROVE  /\ srv' \in ServerAccount
                 /\ updates' \subseteq AccountUpdate
                 /\ transfers' \subseteq Transfer
      <3> DEFINE n == srv.last_change + 1
      <3>0. n \in Nat
        BY <1>1 DEF ServerAccount
      <3>1. srv' = [srv EXCEPT !.last_change = n, !.account_id = id]
            /\ updates' = updates \cup {Snapshot(srv')}
        BY <2>3 DEF ServerChangesAccountId, ServerChange
      <3> HIDE DEF n
      <3>2. srv' \in ServerAccount
        BY <1>1, <3>0, <3>1 DEF ServerAccount
      <3> QED
        BY <1>1, <2>3, <3>1, <3>2, SnapshotType DEF ServerChangesAccountId
    <2>4. CASE ServerPurge
      BY <1>1, <2>4 DEF ServerPurge, ServerAccount
    <2>5. ASSUME NEW id \in AccountIds, ServerRecreate(id)
          PROVE  /\ srv' \in ServerAccount
                 /\ updates' \subseteq AccountUpdate
                 /\ transfers' \subseteq Transfer
      <3>1. srv' = NewServerAccount(srv.creation_date + 1, id)
            /\ updates' = updates \cup {Snapshot(srv')}
            /\ srv.creation_date < MaxDate
        BY <2>5 DEF ServerRecreate, ServerChange
      <3>2. srv' \in ServerAccount
        BY <1>1, <3>1, ZeroInRange, LedgerAssumptions
           DEF ServerAccount, NewServerAccount
      <3> QED
        BY <1>1, <2>5, <3>1, <3>2, SnapshotType DEF ServerRecreate
    <2> QED
      BY <2>1, <2>2, <2>3, <2>4, <2>5 DEF Server
  <1>3. UNCHANGED <<now, data, committed_transfer, pending_ledger_update,
                    ledger_entry, uid_seq, historic_entry_id, log,
                    transfer_log, readers, work, repair, deletion, crashes>>
    BY DEF Server
  <1> QED
    BY <1>2, <1>3 DEF TypeOK, ServerAccount

\* The type of the ledger processor's transaction.
Work ==
    [active : BOOLEAN, data : AccountData, todo : SUBSET Transfer,
     is_last : BOOLEAN, entries : SUBSET LedgerEntry, log_entry : LogEntry]

LEMMA WorkFields ==
    ASSUME TypeOK
    PROVE  /\ work \in Work
           /\ work.data \in AccountData
           /\ work.todo \subseteq Transfer
           /\ work.is_last \in BOOLEAN
           /\ work.entries \subseteq LedgerEntry
           /\ work.log_entry \in LogEntry
  BY DEF TypeOK, Work

LEMMA CoalesceType ==
    ASSUME NEW entry \in LogEntry, NEW default \in LogEntry
    PROVE  Coalesce(entry, default) \in LogEntry
  BY DEF Coalesce

LEMMA StoreLedgerType ==
    ASSUME TypeOK, NEW row \in AccountData, NEW entries \in SUBSET LedgerEntry,
           NEW entry \in LogEntry, StoreLedger(row, entries, entry)
    PROVE  /\ data' \in AccountData
           /\ ledger_entry' \subseteq LedgerEntry
           /\ log' \in LogEntry
  BY CoalesceType DEF TypeOK, StoreLedger

LEMMA NextUpdateIdType ==
    ASSUME TypeOK, NEW row \in AccountData
    PROVE  NextUpdateId(row.ledger_latest_update_id) \in Nat
  <1>1. row.ledger_latest_update_id \in Nat /\ uid_seq \in Nat
    BY DEF AccountData, TypeOK
  <1> QED
    BY <1>1 DEF NextUpdateId

LEMMA CommitLedgerUpdateType ==
    ASSUME TypeOK, NEW row \in AccountData, NEW entries \in SUBSET LedgerEntry,
           NEW entry \in LogEntry, NEW is_done \in BOOLEAN,
           CommitLedgerUpdate(row, entries, entry, is_done)
    PROVE  TypeOK'
  <1>1. /\ data' \in AccountData
        /\ ledger_entry' \subseteq LedgerEntry
        /\ log' \in LogEntry
        /\ uid_seq' \in Nat
        /\ pending_ledger_update' \in BOOLEAN
    <2>1. ASSUME StoreLedger(row, entries, entry),
                 \/ uid_seq' = NextUpdateId(row.ledger_latest_update_id)
                 \/ uid_seq' = uid_seq,
                 pending_ledger_update' = ~is_done
          PROVE  /\ data' \in AccountData
                 /\ ledger_entry' \subseteq LedgerEntry
                 /\ log' \in LogEntry
                 /\ uid_seq' \in Nat
                 /\ pending_ledger_update' \in BOOLEAN
      <3>1. uid_seq' \in Nat
        <4>1. uid_seq \in Nat
          BY DEF TypeOK
        <4> QED
          BY <2>1, <4>1, NextUpdateIdType
      <3>2. pending_ledger_update' \in BOOLEAN
        BY <2>1, Zenon
      <3>3. /\ data' \in AccountData
            /\ ledger_entry' \subseteq LedgerEntry
            /\ log' \in LogEntry
        BY <2>1, StoreLedgerType
      <3> QED
        BY <3>1, <3>2, <3>3, Zenon
    <2>2. ASSUME UNCHANGED <<data, ledger_entry, log, uid_seq,
                             pending_ledger_update>>
          PROVE  /\ data' \in AccountData
                 /\ ledger_entry' \subseteq LedgerEntry
                 /\ log' \in LogEntry
                 /\ uid_seq' \in Nat
                 /\ pending_ledger_update' \in BOOLEAN
      BY <2>2 DEF TypeOK
    <2>3. \/ /\ StoreLedger(row, entries, entry)
             /\ \/ uid_seq' = NextUpdateId(row.ledger_latest_update_id)
                \/ uid_seq' = uid_seq
             /\ pending_ledger_update' = ~is_done
          \/ UNCHANGED <<data, ledger_entry, log, uid_seq,
                         pending_ledger_update>>
      BY Zenon DEF CommitLedgerUpdate
    <2> QED
      BY <2>1, <2>2, <2>3, Zenon
  <1>2. /\ work' = IdleWork
        /\ UNCHANGED <<now, srv, transfers, updates, committed_transfer,
                       historic_entry_id, transfer_log, readers, repair,
                       deletion, crashes>>
    BY DEF CommitLedgerUpdate
  <1> QED
    BY <1>1, <1>2, IdleTypes DEF TypeOK

LEMMA CompleteLedgerUpdateType ==
    ASSUME TypeOK, NEW row \in AccountData, NEW is_done \in BOOLEAN,
           CompleteLedgerUpdate(row, is_done)
    PROVE  TypeOK'
  <1> DEFINE fix == update_ledger(row, row.last_transfer_number, 0,
                                  row.principal, FALSE)
             entries == work.entries \cup fix.entries
             entry == Coalesce(fix.log_entry, work.log_entry)
  <1>1. \/ CommitLedgerUpdate(fix.data, entries, entry, TRUE)
        \/ CommitLedgerUpdate(row, work.entries, work.log_entry, is_done)
    BY DEF CompleteLedgerUpdate
  <1>2. /\ row.last_transfer_number \in 0 .. MaxNumber
        /\ row.principal \in Principal
        /\ now \in Time
    BY DEF AccountData, TypeOK
  <1>3. /\ fix.data \in AccountData
        /\ fix.entries \subseteq LedgerEntry
        /\ fix.log_entry \in LogEntry
    <2>1. 0 \in Int /\ FALSE \in BOOLEAN
      OBVIOUS
    <2> QED
      BY <1>2, <2>1, UpdateLedgerType, Zenon
  <1>4. entries \subseteq LedgerEntry /\ entry \in LogEntry
    BY <1>3, WorkFields, CoalesceType
  <1> HIDE DEF fix, entries, entry
  <1> QED
    BY <1>1, <1>3, <1>4, WorkFields, CommitLedgerUpdateType

\* process_pending_ledger_update keeps the types.
LEMMA LedgerProcessorType ==
    ASSUME TypeOK, LedgerProcessor
    PROVE  TypeOK'
  <1>1. CASE BeginLedgerUpdate
    <2>1. PICK burst \in SUBSET PendingTransfers :
             work' = [active |-> TRUE, data |-> data, todo |-> burst,
                      is_last |-> Cardinality(burst) < BURST_COUNT,
                      entries |-> {}, log_entry |-> NoLogEntry]
      BY <1>1 DEF BeginLedgerUpdate
    <2>2. burst \subseteq Transfer /\ data \in AccountData
      BY DEF PendingTransfers, TypeOK
    <2>3. work' \in Work
      BY <2>1, <2>2, IdleTypes DEF Work
    <2> QED
      BY <1>1, <2>3 DEF BeginLedgerUpdate, TypeOK, Work
  <1>2. ASSUME NEW t \in work.todo, BookTransfer(t)
        PROVE  TypeOK'
    <2> DEFINE u == update_ledger(work.data, t.transfer_number,
                                  t.acquired_amount, t.principal, FALSE)
               todo == work.todo \ {t}
               entries == work.entries \cup u.entries
               entry == Coalesce(u.log_entry, work.log_entry)
    <2>1. t \in Transfer /\ now \in Time
      BY WorkFields DEF TypeOK
    <2>2. /\ t.transfer_number \in 0 .. MaxNumber
          /\ t.acquired_amount \in Int
          /\ t.principal \in Principal
      BY <2>1, ConstantTypes DEF Transfer
    <2>3. /\ u.data \in AccountData
          /\ u.entries \subseteq LedgerEntry
          /\ u.log_entry \in LogEntry
      BY <2>1, <2>2, WorkFields, UpdateLedgerType
    <2>4. /\ todo \subseteq Transfer
          /\ entries \subseteq LedgerEntry
          /\ entry \in LogEntry
      BY <2>3, WorkFields, CoalesceType
    <2>5. work' = [work EXCEPT !.data = u.data, !.todo = todo,
                               !.entries = entries, !.log_entry = entry]
      BY <1>2 DEF BookTransfer
    <2> HIDE DEF u, todo, entries, entry
    <2>6. work' \in Work
      BY <2>3, <2>4, <2>5, WorkFields DEF Work
    <2> QED
      BY <1>2, <2>6 DEF BookTransfer, TypeOK, Work
  <1>3. ASSUME NEW t \in work.todo, StopAtMissingTransfer(t)
        PROVE  TypeOK'
    <2> DEFINE row == [work.data EXCEPT
                         !.ledger_pending_transfer_ts = t.committed_at]
    <2>1. t.committed_at \in Time
      BY WorkFields DEF Transfer
    <2>2. row \in AccountData
      BY <2>1, WorkFields DEF AccountData
    <2>3. CompleteLedgerUpdate(row, TRUE)
      BY <1>3 DEF StopAtMissingTransfer
    <2> HIDE DEF row
    <2> QED
      BY <2>2, <2>3, CompleteLedgerUpdateType
  <1>4. CASE FinishLedgerUpdate
    <2> DEFINE row == [work.data EXCEPT !.ledger_pending_transfer_ts = NullTs]
    <2>1. row \in AccountData
      BY WorkFields DEF AccountData
    <2>2. CompleteLedgerUpdate(row, work.is_last)
      BY <1>4 DEF FinishLedgerUpdate
    <2> HIDE DEF row
    <2> QED
      BY <2>1, <2>2, WorkFields, CompleteLedgerUpdateType
  <1> QED
    BY <1>1, <1>2, <1>3, <1>4 DEF LedgerProcessor

\* process_account_transfer_signal keeps the types.
LEMMA TransferSignalType ==
    ASSUME TypeOK, NEW c \in Consumers,
           \/ \E t \in transfers : ReadLedgerData(c, t)
           \/ InsertCommittedTransfer(c)
           \/ AbandonDuplicateTransfer(c)
           \/ CrashTransferSignal(c)
    PROVE  TypeOK'
  <1>1. readers \in [Consumers -> Reader] /\ readers[c] \in Reader
    BY DEF TypeOK
  <1>2. ASSUME readers' = [readers EXCEPT ![c] = IdleReader]
        PROVE  readers' \in [Consumers -> Reader]
    BY <1>1, <1>2, IdleTypes
  <1>3. ASSUME NEW t \in transfers, ReadLedgerData(c, t)
        PROVE  TypeOK'
    <2> DEFINE r == [active |-> TRUE, message |-> t,
                     ledger_date |-> data.creation_date,
                     ledger_last_transfer_number |->
                         data.ledger_last_transfer_number]
    <2>1. t \in Transfer
      BY DEF TypeOK
    <2>2. r \in Reader
      BY <2>1 DEF TypeOK, AccountData, Reader
    <2>3. readers' = [readers EXCEPT ![c] = r]
      BY <1>3 DEF ReadLedgerData
    <2> HIDE DEF r
    <2>4. readers' \in [Consumers -> Reader]
      BY <1>1, <2>2, <2>3
    <2> QED
      BY <1>3, <2>4 DEF ReadLedgerData, TypeOK
  <1>4. CASE InsertCommittedTransfer(c)
    <2> DEFINE t == readers[c].message
    <2>1. readers[c].active
      BY <1>4 DEF InsertCommittedTransfer
    <2>2. t \in Transfer
      <3>1. ~IdleReader.active
        BY DEF IdleReader
      <3>2. readers[c] # IdleReader
        BY <2>1, <3>1
      <3> QED
        BY <1>1, <3>2 DEF Reader
    <2>3. /\ committed_transfer' = committed_transfer \cup {t}
          /\ transfer_log' = transfer_log \cup {[transfer |-> t,
                                                  added_at |-> now]}
      BY <1>4 DEF InsertCommittedTransfer
    <2> HIDE DEF t
    <2>4. /\ committed_transfer' \subseteq Transfer
          /\ transfer_log' \subseteq [transfer : Transfer, added_at : Time]
      BY <2>2, <2>3 DEF TypeOK
    <2>5. pending_ledger_update' \in BOOLEAN
      BY <1>4, Zenon DEF InsertCommittedTransfer
    <2>6. readers' \in [Consumers -> Reader]
      BY <1>2, <1>4 DEF InsertCommittedTransfer
    <2> QED
      BY <1>4, <2>4, <2>5, <2>6 DEF InsertCommittedTransfer, TypeOK
  <1>5. CASE AbandonDuplicateTransfer(c)
    BY <1>2, <1>5 DEF AbandonDuplicateTransfer, TypeOK
  <1>6. CASE CrashTransferSignal(c)
    <2>1. readers' \in [Consumers -> Reader]
      BY <1>2, <1>6 DEF CrashTransferSignal
    <2>2. crashes' \in Nat
      BY <1>6 DEF CrashTransferSignal, TypeOK
    <2> QED
      BY <1>6, <2>1, <2>2 DEF CrashTransferSignal, TypeOK
  <1> QED
    BY <1>3, <1>4, <1>5, <1>6

\* process_account_update_signal and process_account_purge_signal keep the
\* types.
LEMMA ServerStateType ==
    ASSUME TypeOK, NEW m \in updates
    PROVE  WithServerState(data, m) \in AccountData
  <1>1. m \in AccountUpdate /\ data \in AccountData
    BY DEF TypeOK
  <1>2. m.creation_date \in 0 .. MaxDate
    BY <1>1, ConstantTypes DEF AccountUpdate
  <1> QED
    BY <1>1, <1>2 DEF WithServerState, AccountData, AccountUpdate

LEMMA UpdateSignalType ==
    ASSUME TypeOK, NEW m \in updates, process_account_update_signal(m)
    PROVE  TypeOK'
  <1> DEFINE row == WithServerState(data, m)
             fresh == [row EXCEPT !.ledger_pending_transfer_ts = NullTs]
             reset == update_ledger(fresh, 0, 0, 0, TRUE)
             relog == update_ledger(row, row.ledger_last_transfer_number, 0,
                                    row.ledger_principal, TRUE)
             n == uid_seq + 1
  <1>1. row \in AccountData
    BY ServerStateType
  <1>2. \/ /\ \/ StoreLedger(reset.data, reset.entries, reset.log_entry)
             \/ StoreLedger(relog.data, relog.entries, relog.log_entry)
          /\ uid_seq' = n
          /\ pending_ledger_update' = TRUE
       \/ /\ data' = row
          /\ UNCHANGED <<ledger_entry, log, uid_seq, pending_ledger_update>>
    BY Zenon DEF process_account_update_signal
  <1>3. UNCHANGED <<now, srv, transfers, updates, committed_transfer,
                    historic_entry_id, transfer_log, readers, work,
                    repair, deletion, crashes>>
    BY DEF process_account_update_signal
  <1> HIDE DEF row
  <1>4. fresh \in AccountData
    BY <1>1 DEF AccountData
  <1> HIDE DEF fresh
  <1>5. /\ row.ledger_last_transfer_number \in 0 .. MaxNumber
        /\ row.ledger_principal \in Principal
        /\ now \in Time
        /\ 0 \in Int /\ TRUE \in BOOLEAN
        /\ n \in Nat
    BY <1>1 DEF AccountData, TypeOK
  <1>6. /\ reset.data \in AccountData
        /\ reset.entries \subseteq LedgerEntry
        /\ reset.log_entry \in LogEntry
    BY <1>4, <1>5, ZeroInRange, UpdateLedgerType, Zenon
  <1>7. /\ relog.data \in AccountData
        /\ relog.entries \subseteq LedgerEntry
        /\ relog.log_entry \in LogEntry
    BY <1>1, <1>5, UpdateLedgerType, Zenon
  <1> HIDE DEF reset, relog, n
  <1>8. /\ data' \in AccountData
        /\ ledger_entry' \subseteq LedgerEntry
        /\ log' \in LogEntry
        /\ uid_seq' \in Nat
        /\ pending_ledger_update' \in BOOLEAN
    <2>1. CASE StoreLedger(reset.data, reset.entries, reset.log_entry)
               /\ uid_seq' = n /\ pending_ledger_update' = TRUE
      BY <1>5, <1>6, <2>1, StoreLedgerType
    <2>2. CASE StoreLedger(relog.data, relog.entries, relog.log_entry)
               /\ uid_seq' = n /\ pending_ledger_update' = TRUE
      BY <1>5, <1>7, <2>2, StoreLedgerType
    <2>3. CASE data' = row /\ UNCHANGED <<ledger_entry, log, uid_seq,
                                          pending_ledger_update>>
      BY <1>1, <2>3 DEF TypeOK
    <2> QED
      BY <1>2, <2>1, <2>2, <2>3, Zenon
  <1> QED
    BY <1>3, <1>8 DEF TypeOK

LEMMA PurgeSignalType ==
    ASSUME TypeOK, NEW d, process_account_purge_signal(d)
    PROVE  TypeOK'
  <1>1. data' \in AccountData
    BY ZeroInRange DEF process_account_purge_signal, TypeOK, AccountData
  <1> QED
    BY <1>1 DEF process_account_purge_signal, TypeOK

\* The table scanners keep the types.
LEMMA ScannerType ==
    ASSUME TypeOK, Scanner
    PROVE  TypeOK'
  <1>1. CASE ScannerUpdatesLedger
    <2> DEFINE corrections == make_correcting_ledger_entry_if_necessary(
                                data, 0, data.principal)
               id == data.ledger_last_entry_id + Cardinality(corrections)
               up == data.ledger_latest_update_id + 1
               row == [data EXCEPT !.ledger_last_entry_id = id,
                                   !.ledger_principal = data.principal,
                                   !.ledger_latest_update_id = up,
                                   !.ledger_latest_update_ts = now]
    <2>1. /\ StoreLedger(row, corrections, LedgerLogEntry(row))
          /\ uid_seq' = uid_seq + 1
      BY <1>1 DEF ScannerUpdatesLedger
    <2>2. /\ data \in AccountData
          /\ data.principal \in Principal
          /\ data.ledger_last_entry_id \in Nat
          /\ up \in Nat
          /\ now \in Time
          /\ 0 \in Int
      BY DEF TypeOK, AccountData
    <2>3. /\ corrections \subseteq LedgerEntry
          /\ Cardinality(corrections) \in Nat
      BY <2>2, CorrectingEntriesType
    <2>4. id \in Nat
      BY <2>2, <2>3
    <2> HIDE DEF id, up, corrections
    <2>5. row \in AccountData
      BY <2>2, <2>4 DEF AccountData
    <2> HIDE DEF row
    <2>6. LedgerLogEntry(row) \in LogEntry
      BY <2>5 DEF AccountData, LogEntry, LedgerLogEntry
    <2>7. /\ data' \in AccountData
          /\ ledger_entry' \subseteq LedgerEntry
          /\ log' \in LogEntry
      BY <2>1, <2>3, <2>5, <2>6, StoreLedgerType
    <2>8. uid_seq' \in Nat
      BY <2>1 DEF TypeOK
    <2> QED
      BY <1>1, <2>7, <2>8 DEF ScannerUpdatesLedger, TypeOK
  <1>2. CASE ScannerDecidesOnRepair
    BY <1>2 DEF ScannerDecidesOnRepair, TypeOK
  <1>3. CASE ScannerSchedulesRepair
    <2>1. data.exists \in BOOLEAN
      BY DEF TypeOK, AccountData
    <2> QED
      BY <1>3, <2>1 DEF ScannerSchedulesRepair, TypeOK
  <1>4. CASE CollectCommittedTransfers
    BY <1>4 DEF CollectCommittedTransfers, TypeOK
  <1> QED
    BY <1>1, <1>2, <1>3, <1>4 DEF Scanner

\* create_new_account and delete_account keep the types.
LEMMA WebApiType ==
    ASSUME TypeOK, WebApi
    PROVE  TypeOK'
  <1>1. CASE create_new_account
    <2> DEFINE g == data.generation + 1
               id == historic_entry_id + 1
               n == uid_seq + 1
    <2>1. g \in Nat /\ id \in Nat /\ n \in Nat /\ now \in Time
      BY DEF TypeOK, AccountData
    <2>2. /\ data' = [NoAccount EXCEPT !.exists = TRUE,
                                       !.generation = g,
                                       !.ledger_last_entry_id = id,
                                       !.ledger_latest_update_id = n,
                                       !.ledger_latest_update_ts = now]
          /\ uid_seq' = n
      BY <1>1 DEF create_new_account, NewAccountData
    <2> HIDE DEF g, id, n
    <2>3. data' \in AccountData
      BY <2>1, <2>2, IdleTypes DEF AccountData
    <2> QED
      BY <1>1, <2>1, <2>2, <2>3 DEF create_new_account, TypeOK
  <1>2. CASE ReadAccountToDelete
    BY <1>2 DEF ReadAccountToDelete, TypeOK, AccountData
  <1>3. CASE DeleteAccount
    <2> DEFINE n == uid_seq + 1
    <2>1. /\ data.generation \in Nat
          /\ n \in Nat
          /\ historic_entry_id' \in Nat
          /\ deletion' \in [active : BOOLEAN, ledger_last_entry_id : Nat]
      BY <1>3 DEF DeleteAccount, TypeOK, AccountData
    <2>2. /\ data' = [NoAccount EXCEPT !.generation = data.generation]
          /\ uid_seq' = n
          /\ log' = [NoLogEntry EXCEPT !.generation = data.generation,
                                       !.object_update_id = n,
                                       !.is_deleted = TRUE]
      BY <1>3 DEF DeleteAccount
    <2> HIDE DEF n
    <2>3. data' \in AccountData
      BY <2>1, <2>2, IdleTypes DEF AccountData
    <2>4. log' \in LogEntry
      BY <2>1, <2>2, IdleTypes DEF LogEntry
    <2> QED
      BY <1>3, <2>1, <2>2, <2>3, <2>4 DEF DeleteAccount, TypeOK
  <1> QED
    BY <1>1, <1>2, <1>3 DEF WebApi

LEMMA InitType == Init => TypeOK
  <1> SUFFICES ASSUME Init PROVE TypeOK
    OBVIOUS
  <1>1. srv \in ServerAccount /\ updates \subseteq AccountUpdate
    <2>1. PICK id \in AccountIds :
             /\ srv = NewServerAccount(1, id)
             /\ updates = {Snapshot(NewServerAccount(1, id))}
      BY DEF Init
    <2>2. 1 \in 1 .. MaxDate
      BY LedgerAssumptions
    <2>3. srv \in ServerAccount
      BY <2>1, <2>2, ZeroInRange DEF NewServerAccount, ServerAccount
    <2> QED
      BY <2>1, <2>3, SnapshotType
  <1>2. data \in AccountData
    BY IdleTypes DEF Init, AccountData
  <1>3. readers \in [Consumers -> Reader]
    BY IdleTypes DEF Init
  <1> QED
    BY <1>1, <1>2, <1>3, IdleTypes, ZeroInRange DEF Init, TypeOK, ServerAccount

LEMMA NextType ==
    ASSUME TypeOK, [Next]_vars
    PROVE  TypeOK'
  <1>1. CASE Server
    BY <1>1, ServerType
  <1>2. CASE Tick
    <2>1. now' \in Time
      BY <1>2, ConstantTypes DEF Tick, TypeOK, Time
    <2> QED
      BY <1>2, <2>1 DEF Tick, TypeOK
  <1>3. CASE MessageHandlers
    BY <1>3, TransferSignalType, UpdateSignalType, PurgeSignalType
       DEF MessageHandlers
  <1>4. CASE LedgerProcessor
    BY <1>4, LedgerProcessorType
  <1>5. CASE CrashLedgerUpdate
    <2>1. uid_seq' \in Nat /\ crashes' \in Nat
      BY <1>5 DEF CrashLedgerUpdate, TypeOK
    <2> QED
      BY <1>5, <2>1, IdleTypes DEF CrashLedgerUpdate, TypeOK
  <1>6. CASE Scanner
    BY <1>6, ScannerType
  <1>7. CASE WebApi
    BY <1>7, WebApiType
  <1>8. CASE UNCHANGED vars
    BY <1>8 DEF vars, TypeOK
  <1> QED
    BY <1>1, <1>2, <1>3, <1>4, <1>5, <1>6, <1>7, <1>8 DEF Next

\* No column of the database ever leaves its type: in particular the
\* principal of the ledger stays within its 64 bits, whatever the authority
\* reports and in whatever order.
THEOREM TypeCorrect == Spec => []TypeOK
  <1>1. Init => TypeOK
    BY InitType
  <1>2. TypeOK /\ [Next]_vars => TypeOK'
    BY NextType
  <1> QED
    BY <1>1, <1>2, PTL DEF Spec

=============================================================================
