------------------------ MODULE LedgerSafetyProofs ------------------------
(***************************************************************************)
(* The safety of AccountLedger: LedgerInv is an invariant, for every       *)
(* number of transfers and consumers, every size of bursts and every       *)
(* delay.                                                                  *)
(***************************************************************************)
EXTENDS AccountLedgerProofs

-----------------------------------------------------------------------------
(* The numbers among the fields of rows and messages *)

LEMMA Ranges ==
    /\ 0 .. MaxNumber \subseteq Nat
    /\ 1 .. MaxNumber \subseteq Nat \ {0}
    /\ 0 .. MaxDate \subseteq Nat
    /\ 1 .. MaxDate \subseteq Nat \ {0}
    /\ Time \subseteq Nat
    /\ MAX_TRANSFER_DELAY \in Nat
  BY ConstantTypes, ZeroInRange

LEMMA TransferNumbers ==
    ASSUME TypeOK, NEW t \in transfers
    PROVE  /\ t.creation_date \in Nat /\ t.creation_date > 0
           /\ t.transfer_number \in Nat /\ t.transfer_number > 0
           /\ t.previous_transfer_number \in Nat
           /\ t.committed_at \in Nat
  <1>1. t \in Transfer
    BY DEF TypeOK
  <1>2. /\ t.creation_date \in 1 .. MaxDate
        /\ t.transfer_number \in 1 .. MaxNumber
        /\ t.previous_transfer_number \in 0 .. MaxNumber
        /\ t.committed_at \in Time
    BY <1>1 DEF Transfer
  <1>3. /\ t.creation_date \in Nat \ {0}
        /\ t.transfer_number \in Nat \ {0}
        /\ t.previous_transfer_number \in Nat
        /\ t.committed_at \in Nat
    BY <1>2, Ranges, Zenon
  <1> QED
    BY <1>3

LEMMA UpdateNumbers ==
    ASSUME TypeOK, NEW m \in updates
    PROVE  /\ m.creation_date \in Nat
           /\ m.last_transfer_number \in Nat
           /\ m.last_transfer_committed_at \in Nat
  <1>1. m \in AccountUpdate
    BY DEF TypeOK
  <1>2. /\ m.creation_date \in 1 .. MaxDate
        /\ m.last_transfer_number \in 0 .. MaxNumber
        /\ m.last_transfer_committed_at \in Time
    BY <1>1 DEF AccountUpdate
  <1> QED
    BY <1>2, Ranges, Zenon

LEMMA ServerNumbers ==
    ASSUME TypeOK
    PROVE  /\ srv.creation_date \in Nat /\ srv.creation_date > 0
           /\ srv.last_transfer_number \in Nat
           /\ srv.last_transfer_committed_at \in Nat
           /\ now \in Nat
  <1>1. /\ srv.creation_date \in 1 .. MaxDate
        /\ srv.last_transfer_number \in 0 .. MaxNumber
        /\ srv.last_transfer_committed_at \in Time
        /\ now \in Time
    BY DEF TypeOK
  <1>2. /\ srv.creation_date \in Nat \ {0}
        /\ srv.last_transfer_number \in Nat
        /\ srv.last_transfer_committed_at \in Nat
        /\ now \in Nat
    BY <1>1, Ranges, Zenon
  <1> QED
    BY <1>2

LEMMA RowNumbers ==
    ASSUME NEW row \in AccountData
    PROVE  /\ row.creation_date \in Nat
           /\ row.last_transfer_number \in Nat
           /\ row.last_transfer_committed_at \in Nat
           /\ row.ledger_last_transfer_number \in Nat
  <1>1. /\ row.creation_date \in 0 .. MaxDate
        /\ row.last_transfer_number \in 0 .. MaxNumber
        /\ row.last_transfer_committed_at \in Time
        /\ row.ledger_last_transfer_number \in 0 .. MaxNumber
    BY DEF AccountData
  <1> QED
    BY <1>1, Ranges, Zenon

-----------------------------------------------------------------------------
(* The authority and the clock *)

\* The three ways in which the authority moves on.
LEMMA ServerSummary ==
    ASSUME TypeOK, Server
    PROVE  /\ \/ /\ transfers' = transfers
                 /\ srv'.creation_date = srv.creation_date
                 /\ srv'.last_transfer_number = srv.last_transfer_number
                 /\ srv'.last_transfer_committed_at
                      = srv.last_transfer_committed_at
              \/ /\ transfers' = transfers
                 /\ srv'.creation_date = srv.creation_date + 1
                 /\ srv'.last_transfer_number = 0
                 /\ srv'.last_transfer_committed_at = 0
              \/ \E t : /\ transfers' = transfers \cup {t}
                        /\ t.creation_date = srv.creation_date
                        /\ t.transfer_number \in Nat
                        /\ t.transfer_number > srv.last_transfer_number
                        /\ t.previous_transfer_number
                             = srv.last_transfer_number
                        /\ t.committed_at = now
                        /\ srv'.creation_date = srv.creation_date
                        /\ srv'.last_transfer_number = t.transfer_number
                        /\ srv'.last_transfer_committed_at = now
           /\ \A m \in updates' : m \notin updates =>
                /\ m.creation_date = srv'.creation_date
                /\ m.last_transfer_number = srv'.last_transfer_number
                /\ m.last_transfer_committed_at
                     = srv'.last_transfer_committed_at
  <1>1. srv \in ServerAccount
    BY DEF TypeOK, ServerAccount
  <1>2. \A m \in updates' : m \notin updates =>
           /\ m.creation_date = srv'.creation_date
           /\ m.last_transfer_number = srv'.last_transfer_number
           /\ m.last_transfer_committed_at = srv'.last_transfer_committed_at
    <2>1. \/ \E account : ServerChange(account)
          \/ updates' = updates
      BY DEF Server, ServerTransfer, ServerNegligibleTransfer,
             ServerChangesAccountId, ServerPurge, ServerRecreate
    <2> QED
      BY <2>1 DEF ServerChange, Snapshot
  <1>3. ASSUME NEW amount \in Amounts, NEW number \in 1 .. MaxNumber,
               ServerTransfer(amount, number)
        PROVE  \E t : /\ transfers' = transfers \cup {t}
                      /\ t.creation_date = srv.creation_date
                      /\ t.transfer_number \in Nat
                      /\ t.transfer_number > srv.last_transfer_number
                      /\ t.previous_transfer_number = srv.last_transfer_number
                      /\ t.committed_at = now
                      /\ srv'.creation_date = srv.creation_date
                      /\ srv'.last_transfer_number = t.transfer_number
                      /\ srv'.last_transfer_committed_at = now
    <2> DEFINE principal == contain_principal_overflow(srv.principal + amount)
               change == srv.last_change + 1
               t == [creation_date |-> srv.creation_date,
                     transfer_number |-> number,
                     previous_transfer_number |-> srv.last_transfer_number,
                     acquired_amount |-> amount,
                     principal |-> principal,
                     committed_at |-> now]
    <2>1. /\ number > srv.last_transfer_number
          /\ srv' = [srv EXCEPT !.last_change = change,
                                !.principal = principal,
                                !.last_transfer_number = number,
                                !.last_transfer_committed_at = now]
          /\ transfers' = transfers \cup {t}
      BY <1>3 DEF ServerTransfer, ServerChange
    <2> HIDE DEF principal, change
    <2>2. /\ srv'.creation_date = srv.creation_date
          /\ srv'.last_transfer_number = number
          /\ srv'.last_transfer_committed_at = now
      BY <1>1, <2>1 DEF ServerAccount
    <2>3. number \in Nat
      BY ConstantTypes
    <2>4. WITNESS t
    <2> QED
      BY <2>1, <2>2, <2>3
  <1>4. ASSUME NEW amount \in Amounts, ServerNegligibleTransfer(amount)
        PROVE  /\ transfers' = transfers
               /\ srv'.creation_date = srv.creation_date
               /\ srv'.last_transfer_number = srv.last_transfer_number
               /\ srv'.last_transfer_committed_at
                    = srv.last_transfer_committed_at
    <2> DEFINE principal == contain_principal_overflow(srv.principal + amount)
               change == srv.last_change + 1
    <2>1. /\ srv' = [srv EXCEPT !.last_change = change,
                                !.principal = principal]
          /\ transfers' = transfers
      BY <1>4 DEF ServerNegligibleTransfer, ServerChange
    <2> HIDE DEF principal, change
    <2> QED
      BY <1>1, <2>1 DEF ServerAccount
  <1>5. ASSUME NEW id \in AccountIds, ServerChangesAccountId(id)
        PROVE  /\ transfers' = transfers
               /\ srv'.creation_date = srv.creation_date
               /\ srv'.last_transfer_number = srv.last_transfer_number
               /\ srv'.last_transfer_committed_at
                    = srv.last_transfer_committed_at
    <2> DEFINE change == srv.last_change + 1
    <2>1. /\ srv' = [srv EXCEPT !.last_change = change, !.account_id = id]
          /\ transfers' = transfers
      BY <1>5 DEF ServerChangesAccountId, ServerChange
    <2> HIDE DEF change
    <2> QED
      BY <1>1, <2>1 DEF ServerAccount
  <1>6. ASSUME ServerPurge
        PROVE  /\ transfers' = transfers
               /\ srv'.creation_date = srv.creation_date
               /\ srv'.last_transfer_number = srv.last_transfer_number
               /\ srv'.last_transfer_committed_at
                    = srv.last_transfer_committed_at
    BY <1>1, <1>6 DEF ServerPurge, ServerAccount
  <1>7. ASSUME NEW id \in AccountIds, ServerRecreate(id)
        PROVE  /\ transfers' = transfers
               /\ srv'.creation_date = srv.creation_date + 1
               /\ srv'.last_transfer_number = 0
               /\ srv'.last_transfer_committed_at = 0
    BY <1>7 DEF ServerRecreate, ServerChange, NewServerAccount
  <1> QED
    BY <1>2, <1>3, <1>4, <1>5, <1>6, <1>7 DEF Server

\* The authority keeps its promises.
LEMMA ServerKeepsOrder ==
    ASSUME TypeOK, TransfersAreOrdered, Server
    PROVE  TransfersAreOrdered'
  <1> USE DEF TransfersAreOrdered
  <1>1. now' = now
    BY DEF Server
  <1>2. CASE /\ transfers' = transfers
             /\ srv'.creation_date = srv.creation_date
             /\ srv'.last_transfer_number = srv.last_transfer_number
             /\ srv'.last_transfer_committed_at
                  = srv.last_transfer_committed_at
    BY <1>1, <1>2
  <1>3. CASE /\ transfers' = transfers
             /\ srv'.creation_date = srv.creation_date + 1
             /\ srv'.last_transfer_number = 0
             /\ srv'.last_transfer_committed_at = 0
    <2>1. \A t \in transfers : t.creation_date < srv'.creation_date
      BY <1>3, ServerNumbers, TransferNumbers
    <2>2. \A t \in transfers : t.creation_date # srv'.creation_date
                                 /\ t.creation_date <= srv'.creation_date
      BY <1>3, <2>1, ServerNumbers, TransferNumbers
    <2>3. srv'.last_transfer_committed_at <= now
      BY <1>3, ServerNumbers
    <2> QED
      BY <1>1, <1>3, <2>2, <2>3
  <1>4. ASSUME NEW u, transfers' = transfers \cup {u},
               u.creation_date = srv.creation_date,
               u.transfer_number \in Nat,
               u.transfer_number > srv.last_transfer_number,
               u.previous_transfer_number = srv.last_transfer_number,
               u.committed_at = now,
               srv'.creation_date = srv.creation_date,
               srv'.last_transfer_number = u.transfer_number,
               srv'.last_transfer_committed_at = now
        PROVE  TransfersAreOrdered'
    <2>1. \A t \in transfers' :
             /\ t.previous_transfer_number < t.transfer_number
             /\ t.creation_date <= srv'.creation_date
             /\ t.creation_date = srv'.creation_date =>
                  /\ t.transfer_number <= srv'.last_transfer_number
                  /\ t.committed_at <= srv'.last_transfer_committed_at
      BY <1>4, ServerNumbers, TransferNumbers
    <2>2. \A t \in transfers :
             t.creation_date = u.creation_date =>
               /\ t.transfer_number < u.transfer_number
               /\ t.transfer_number <= u.previous_transfer_number
               /\ t.committed_at <= u.committed_at
      BY <1>4, ServerNumbers, TransferNumbers
    <2>3. \A t, v \in transfers' :
             t.creation_date = v.creation_date =>
               /\ t.transfer_number = v.transfer_number => t = v
               /\ t.transfer_number < v.transfer_number =>
                    /\ t.transfer_number <= v.previous_transfer_number
                    /\ t.committed_at <= v.committed_at
      BY <1>4, <2>2, TransferNumbers
    <2>4. srv'.last_transfer_committed_at <= now'
      BY <1>1, <1>4, ServerNumbers
    <2> QED
      BY <2>1, <2>3, <2>4
  <1> QED
    BY <1>2, <1>3, <1>4, ServerSummary

\* What has been reported stays true, and says nothing of later transfers.
LEMMA ServerKeepsReports ==
    ASSUME TypeOK, TransfersAreOrdered, ReportsAreTrue, Server
    PROVE  ReportsAreTrue'
  <1>1. TransfersAreOrdered'
    BY ServerKeepsOrder
  <1>2. data' = data /\ data \in AccountData
    BY DEF Server, TypeOK
  <1>3. ASSUME NEW r, IsReport(r), r.creation_date \in Nat,
               r.last_transfer_number \in Nat
        PROVE  /\ r.creation_date <= srv'.creation_date
               /\ r.creation_date = srv'.creation_date =>
                    r.last_transfer_number <= srv'.last_transfer_number
               /\ \A t \in transfers' :
                    /\ t.creation_date = r.creation_date
                    /\ t.transfer_number <= r.last_transfer_number
                    => t.committed_at <= r.last_transfer_committed_at
    BY <1>3, ServerSummary, ServerNumbers, TransferNumbers DEF IsReport
  <1>4. ASSUME NEW m \in updates', m \notin updates
        PROVE  /\ m.creation_date <= srv'.creation_date
               /\ m.creation_date = srv'.creation_date =>
                    m.last_transfer_number <= srv'.last_transfer_number
               /\ \A t \in transfers' :
                    /\ t.creation_date = m.creation_date
                    /\ t.transfer_number <= m.last_transfer_number
                    => t.committed_at <= m.last_transfer_committed_at
    <2>1. /\ m.creation_date = srv'.creation_date
          /\ m.last_transfer_number = srv'.last_transfer_number
          /\ m.last_transfer_committed_at = srv'.last_transfer_committed_at
      BY <1>4, ServerSummary
    <2>2. srv'.creation_date \in Nat /\ srv'.last_transfer_number \in Nat
      BY ServerSummary, ServerNumbers
    <2> QED
      BY <1>1, <2>1, <2>2 DEF TransfersAreOrdered
  <1>5. \A m \in updates' : IsReport(m)'
    BY <1>3, <1>4, UpdateNumbers DEF ReportsAreTrue, IsReport
  <1>6. IsReport(data)'
    BY <1>2, <1>3, RowNumbers DEF ReportsAreTrue, IsReport
  <1> QED
    BY <1>5, <1>6 DEF ReportsAreTrue

\* A ledger that does not run ahead of the server account is not concerned by
\* what the authority does next.
LEMMA ServerKeepsLedgers ==
    ASSUME TypeOK, TransfersAreOrdered, NEW row \in AccountData, NEW entries,
           Server, row.creation_date <= srv.creation_date,
           IsAccountedFor(row, entries)
    PROVE  /\ row.creation_date = srv'.creation_date =>
                row.ledger_last_transfer_number <= srv'.last_transfer_number
           /\ \A t \in transfers' :
                /\ t.creation_date = row.creation_date
                /\ t.transfer_number <= row.ledger_last_transfer_number
                => \/ t.committed_at < now' - MAX_TRANSFER_DELAY
                   \/ \E e \in entries :
                         /\ e.generation = row.generation
                         /\ e.creation_date = t.creation_date
                         /\ e.transfer_number = t.transfer_number
  <1>1. now' = now
    BY DEF Server
  <1>2. \A t \in transfers' : t \notin transfers =>
           /\ t.creation_date = srv.creation_date
           /\ t.transfer_number \in Nat
           /\ t.transfer_number > srv.last_transfer_number
    BY ServerSummary
  <1>3. \A t \in transfers' :
           /\ t.creation_date = row.creation_date
           /\ t.transfer_number <= row.ledger_last_transfer_number
           => t \in transfers
    BY <1>2, ServerNumbers, RowNumbers DEF IsAccountedFor
  <1>4. row.creation_date = srv'.creation_date =>
           row.ledger_last_transfer_number <= srv'.last_transfer_number
    BY ServerSummary, ServerNumbers, RowNumbers DEF IsAccountedFor
  <1> QED
    BY <1>1, <1>3, <1>4 DEF IsAccountedFor, IsOld

LEMMA ServerKeepsInv ==
    ASSUME TypeOK, LedgerInv, Server
    PROVE  LedgerInv'
  <1>1. TransfersAreOrdered'
    BY ServerKeepsOrder DEF LedgerInv
  <1>2. ReportsAreTrue'
    BY ServerKeepsReports DEF LedgerInv
  <1>3. UNCHANGED <<now, data, committed_transfer, pending_ledger_update,
                    ledger_entry, readers, work, deletion>>
    BY DEF Server
  <1>4. transfers \subseteq transfers'
    BY ServerSummary
  <1>5. TransfersAreSent'
    BY <1>3, <1>4 DEF LedgerInv, TransfersAreSent
  <1>6. LocksAreHeld' /\ BurstIsNext' /\ NoStrandedTransfer'
    BY <1>3 DEF LedgerInv, LocksAreHeld, BurstIsNext, NoStrandedTransfer
  <1>7. LedgersAreAccountedFor'
    <2>1. data \in AccountData /\ work.data \in AccountData
      BY DEF TypeOK
    <2>2. data.creation_date <= srv.creation_date
      BY DEF LedgerInv, ReportsAreTrue, IsReport
    <2>3. work.active => work.data.creation_date = data.creation_date
      BY DEF LedgerInv, LocksAreHeld
    <2>4. IsAccountedFor(data, ledger_entry)'
      BY <1>3, <2>1, <2>2, ServerKeepsLedgers
         DEF LedgerInv, LedgersAreAccountedFor, IsAccountedFor, IsOld
    <2>5. ASSUME work.active
          PROVE  IsAccountedFor(work.data, ledger_entry \cup work.entries)'
      <3> DEFINE row == work.data
                 entries == ledger_entry \cup work.entries
      <3>1. IsAccountedFor(row, entries)
        BY <2>5 DEF LedgerInv, LedgersAreAccountedFor
      <3>2. row \in AccountData /\ row.creation_date <= srv.creation_date
        BY <2>1, <2>2, <2>3, <2>5
      <3>3. row' = row /\ entries' = entries
        BY <1>3
      <3> HIDE DEF row, entries
      <3>4. IsAccountedFor(row, entries)'
        BY <3>1, <3>2, <3>3, ServerKeepsLedgers
           DEF LedgerInv, IsAccountedFor, IsOld
      <3> QED
        BY <3>4 DEF row, entries
    <2> QED
      BY <1>3, <2>4, <2>5 DEF LedgersAreAccountedFor
  <1> QED
    BY <1>1, <1>2, <1>5, <1>6, <1>7 DEF LedgerInv

LEMMA TickKeepsInv ==
    ASSUME TypeOK, LedgerInv, Tick
    PROVE  LedgerInv'
  <1>1. /\ now' = now + 1
        /\ UNCHANGED <<srv, transfers, updates, data, committed_transfer,
                       pending_ledger_update, ledger_entry, readers, work,
                       deletion>>
    BY DEF Tick
  <1>2. TransfersAreOrdered'
    BY <1>1, ServerNumbers DEF LedgerInv, TransfersAreOrdered
  <1>3. ReportsAreTrue'
    BY <1>1 DEF LedgerInv, ReportsAreTrue, IsReport
  <1>4. TransfersAreSent' /\ LocksAreHeld' /\ BurstIsNext'
          /\ NoStrandedTransfer'
    BY <1>1 DEF LedgerInv, TransfersAreSent, LocksAreHeld, BurstIsNext,
                NoStrandedTransfer
  <1>5. \A t \in transfers : IsOld(t) => IsOld(t)'
    BY <1>1, ServerNumbers, TransferNumbers, Ranges DEF IsOld
  <1>6. LedgersAreAccountedFor'
    BY <1>1, <1>5 DEF LedgerInv, LedgersAreAccountedFor, IsAccountedFor
  <1> QED
    BY <1>2, <1>3, <1>4, <1>6 DEF LedgerInv

-----------------------------------------------------------------------------
(* What all the database transactions have in common: they happen at one   *)
(* time, and leave the authority alone.                                    *)

IsTransaction ==
    /\ now' = now
    /\ srv' = srv
    /\ transfers' = transfers
    /\ updates' = updates

\* The facts about the world outside that every transaction preserves.
LEMMA TransactionKeepsWorld ==
    ASSUME LedgerInv, IsTransaction
    PROVE  /\ TransfersAreOrdered'
           /\ \A m \in updates' : IsReport(m)'
  BY DEF LedgerInv, IsTransaction, TransfersAreOrdered, ReportsAreTrue, IsReport

\* Only the server columns of a row make it a true report.
LEMMA SameReport ==
    ASSUME NEW r, NEW s, IsReport(r),
           s.creation_date = r.creation_date,
           s.last_transfer_number = r.last_transfer_number,
           s.last_transfer_committed_at = r.last_transfer_committed_at
    PROVE  IsReport(s)
  BY DEF IsReport

\* Only three columns of a row tell what it has accounted for; new entries do
\* no harm.
LEMMA SameAccount ==
    ASSUME NEW r, NEW s, NEW entries, NEW more, IsAccountedFor(r, entries),
           s.generation = r.generation,
           s.creation_date = r.creation_date,
           s.ledger_last_transfer_number = r.ledger_last_transfer_number,
           entries \subseteq more
    PROVE  IsAccountedFor(s, more)
  BY DEF IsAccountedFor

\* A transaction that leaves the row, its ledger and the work on them alone.
LEMMA BystanderKeepsInv ==
    ASSUME TypeOK, LedgerInv, IsTransaction,
           UNCHANGED <<data, ledger_entry, work>>,
           committed_transfer' \subseteq transfers,
           work.active => committed_transfer' \subseteq committed_transfer,
           \A c \in Consumers : readers'[c].active =>
              /\ readers'[c].message \in transfers
              /\ ~work.active
              /\ data.exists
              /\ readers'[c].ledger_date = data.creation_date
              /\ readers'[c].ledger_last_transfer_number
                   = data.ledger_last_transfer_number,
           deletion'.active => data.exists,
           NoStrandedTransfer'
    PROVE  LedgerInv'
  <1>1. TransfersAreOrdered'
    BY TransactionKeepsWorld
  <1>2. ReportsAreTrue'
    BY TransactionKeepsWorld
       DEF LedgerInv, IsTransaction, ReportsAreTrue, IsReport
  <1>3. TransfersAreSent'
    BY DEF LedgerInv, IsTransaction, TransfersAreSent
  <1>4. LocksAreHeld'
    BY DEF LedgerInv, LocksAreHeld
  <1>5. BurstIsNext'
    BY DEF LedgerInv, BurstIsNext
  <1>6. LedgersAreAccountedFor'
    BY DEF LedgerInv, IsTransaction, LedgersAreAccountedFor, IsAccountedFor,
           IsOld
  <1> QED
    BY <1>1, <1>2, <1>3, <1>4, <1>5, <1>6 DEF LedgerInv

\* A transaction that ends with no lock on the row left.
LEMMA OwnerKeepsInv ==
    ASSUME TypeOK, LedgerInv, IsTransaction,
           UNCHANGED committed_transfer,
           ~work'.active, work'.todo \subseteq transfers,
           \A c \in Consumers : ~readers'[c].active,
           deletion'.active => data'.exists,
           IsReport(data'),
           IsAccountedFor(data', ledger_entry'),
           NoStrandedTransfer'
    PROVE  LedgerInv'
  <1>1. TransfersAreOrdered'
    BY TransactionKeepsWorld
  <1>2. IsReport(data)'
    BY DEF IsTransaction, IsReport
  <1>3. ReportsAreTrue'
    BY <1>2, TransactionKeepsWorld DEF ReportsAreTrue
  <1>4. TransfersAreSent'
    BY DEF LedgerInv, IsTransaction, TransfersAreSent
  <1>5. LocksAreHeld' /\ BurstIsNext'
    BY DEF LocksAreHeld, BurstIsNext
  <1>6. LedgersAreAccountedFor'
    BY DEF IsTransaction, LedgersAreAccountedFor, IsAccountedFor, IsOld
  <1> QED
    BY <1>1, <1>3, <1>4, <1>5, <1>6 DEF LedgerInv

-----------------------------------------------------------------------------
(* process_account_transfer_signal *)

\* The read, the crash and the retry change nothing but the reader.
LEMMA ReadKeepsInv ==
    ASSUME TypeOK, LedgerInv, NEW c \in Consumers,
           \/ \E t \in transfers : ReadLedgerData(c, t)
           \/ AbandonDuplicateTransfer(c)
           \/ CrashTransferSignal(c)
    PROVE  LedgerInv'
  <1> DEFINE Holds(r) ==
               r.active =>
                 /\ r.message \in transfers
                 /\ ~work.active
                 /\ data.exists
                 /\ r.ledger_date = data.creation_date
                 /\ r.ledger_last_transfer_number
                      = data.ledger_last_transfer_number
  <1>1. readers \in [Consumers -> Reader]
    BY DEF TypeOK
  <1>2. \A d \in Consumers : Holds(readers[d])
    BY DEF LedgerInv, LocksAreHeld, TransfersAreSent
  <1>3. ASSUME NEW r, Holds(r), readers' = [readers EXCEPT ![c] = r]
        PROVE  \A d \in Consumers : Holds(readers'[d])
    BY <1>1, <1>2, <1>3
  <1>4. \A d \in Consumers : Holds(readers'[d])
    <2>1. ASSUME NEW t \in transfers, ReadLedgerData(c, t)
          PROVE  \A d \in Consumers : Holds(readers'[d])
      <3> DEFINE r == [active |-> TRUE, message |-> t,
                       ledger_date |-> data.creation_date,
                       ledger_last_transfer_number |->
                           data.ledger_last_transfer_number]
      <3>1. Holds(r) /\ readers' = [readers EXCEPT ![c] = r]
        BY <2>1 DEF ReadLedgerData, SharedLockFree
      <3> HIDE DEF r, Holds
      <3> QED
        BY <3>1, <1>3
    <2>2. ASSUME readers' = [readers EXCEPT ![c] = IdleReader]
          PROVE  \A d \in Consumers : Holds(readers'[d])
      <3>1. Holds(IdleReader)
        BY DEF IdleReader
      <3> HIDE DEF Holds
      <3> QED
        BY <2>2, <3>1, <1>3
    <2> HIDE DEF Holds
    <2> QED
      BY <2>1, <2>2 DEF AbandonDuplicateTransfer, CrashTransferSignal
  <1>5. IsTransaction /\ UNCHANGED <<data, ledger_entry, work, deletion,
                                     committed_transfer,
                                     pending_ledger_update>>
    BY DEF ReadLedgerData, AbandonDuplicateTransfer, CrashTransferSignal,
           IsTransaction
  <1>6. NoStrandedTransfer'
    BY <1>5 DEF LedgerInv, NoStrandedTransfer
  <1>7. /\ committed_transfer' \subseteq transfers
        /\ deletion'.active => data.exists
    BY <1>5 DEF LedgerInv, TransfersAreSent, LocksAreHeld
  <1> QED
    BY <1>4, <1>5, <1>6, <1>7, BystanderKeepsInv

\* The insert.  The row is still as it has been read, because of the lock:
\* if the transfer continues the ledger, then the account gets queued.
LEMMA InsertKeepsInv ==
    ASSUME TypeOK, LedgerInv, NEW c \in Consumers, InsertCommittedTransfer(c)
    PROVE  LedgerInv'
  <1> DEFINE t == readers[c].message
             continues ==
               /\ t.creation_date = readers[c].ledger_date
               /\ t.previous_transfer_number
                    = readers[c].ledger_last_transfer_number
  <1>1. /\ readers[c].active
        /\ committed_transfer' = committed_transfer \cup {t}
        /\ continues => pending_ledger_update'
        /\ pending_ledger_update => pending_ledger_update'
        /\ readers' = [readers EXCEPT ![c] = IdleReader]
    BY DEF InsertCommittedTransfer
  <1>2. IsTransaction /\ UNCHANGED <<data, ledger_entry, work, deletion>>
    BY DEF InsertCommittedTransfer, IsTransaction
  <1>3. /\ t \in transfers
        /\ ~work.active
        /\ readers[c].ledger_date = data.creation_date
        /\ readers[c].ledger_last_transfer_number
             = data.ledger_last_transfer_number
    BY <1>1 DEF LedgerInv, TransfersAreSent, LocksAreHeld
  <1>4. NoStrandedTransfer'
    BY <1>1, <1>2, <1>3 DEF LedgerInv, NoStrandedTransfer
  <1>5. \A d \in Consumers :
           readers'[d].active => d # c /\ readers'[d] = readers[d]
    BY <1>1 DEF TypeOK, IdleReader
  <1>6. \A d \in Consumers : readers'[d].active =>
           /\ readers'[d].message \in transfers
           /\ ~work.active
           /\ data.exists
           /\ readers'[d].ledger_date = data.creation_date
           /\ readers'[d].ledger_last_transfer_number
                = data.ledger_last_transfer_number
    BY <1>5 DEF LedgerInv, TransfersAreSent, LocksAreHeld
  <1>7. /\ committed_transfer' \subseteq transfers
        /\ deletion'.active => data.exists
    BY <1>1, <1>2, <1>3 DEF LedgerInv, TransfersAreSent, LocksAreHeld
  <1> QED
    BY <1>2, <1>3, <1>4, <1>6, <1>7, BystanderKeepsInv

-----------------------------------------------------------------------------
(* process_account_update_signal and process_account_purge_signal *)

\* With the exclusive lock nobody else is at work on the row.
LEMMA LockedRow ==
    ASSUME LedgerInv, ExclusiveLockFree, UNCHANGED <<readers, work>>
    PROVE  /\ ~work'.active
           /\ work'.todo \subseteq transfers
           /\ \A c \in Consumers : ~readers'[c].active
  BY DEF LedgerInv, ExclusiveLockFree, TransfersAreSent

LEMMA PurgeKeepsInv ==
    ASSUME TypeOK, LedgerInv, NEW d, process_account_purge_signal(d)
    PROVE  LedgerInv'
  <1>1. /\ IsTransaction
        /\ ExclusiveLockFree
        /\ UNCHANGED <<committed_transfer, pending_ledger_update,
                       ledger_entry, readers, work, deletion>>
        /\ data' = [data EXCEPT !.has_server_account = FALSE, !.principal = 0]
    BY DEF process_account_purge_signal, IsTransaction
  <1>2. data \in AccountData
    BY DEF TypeOK
  <1>3. /\ data'.exists = data.exists
        /\ data'.generation = data.generation
        /\ data'.creation_date = data.creation_date
        /\ data'.last_transfer_number = data.last_transfer_number
        /\ data'.last_transfer_committed_at = data.last_transfer_committed_at
        /\ data'.ledger_last_transfer_number
             = data.ledger_last_transfer_number
    BY <1>1, <1>2 DEF AccountData
  <1>4. IsReport(data') /\ IsAccountedFor(data', ledger_entry')
    BY <1>1, <1>3, SameReport, SameAccount
       DEF LedgerInv, ReportsAreTrue, LedgersAreAccountedFor
  <1>5. NoStrandedTransfer'
    BY <1>1, <1>3 DEF LedgerInv, NoStrandedTransfer
  <1>6. deletion'.active => data'.exists
    BY <1>1, <1>3 DEF LedgerInv, LocksAreHeld
  <1> QED
    BY <1>1, <1>4, <1>5, <1>6, LockedRow, OwnerKeepsInv

\* What update_ledger returns: a row that differs only in its ledger columns.
MovesLedger(update, row, number) ==
    /\ update.data.exists = row.exists
    /\ update.data.generation = row.generation
    /\ update.data.creation_date = row.creation_date
    /\ update.data.last_transfer_number = row.last_transfer_number
    /\ update.data.last_transfer_committed_at
         = row.last_transfer_committed_at
    /\ update.data.ledger_last_transfer_number = number

LEMMA UpdateMovesLedger ==
    ASSUME now \in Time, NEW row \in AccountData,
           NEW number \in 0 .. MaxNumber, NEW amount \in Int,
           NEW principal \in Principal, NEW always_log \in BOOLEAN
    PROVE  MovesLedger(update_ledger(row, number, amount, principal,
                                     always_log), row, number)
  BY UpdateLedgerType DEF MovesLedger

\* An empty ledger has nothing to account for.
LEMMA EmptyLedger ==
    ASSUME TypeOK, NEW row, row.ledger_last_transfer_number = 0, NEW entries
    PROVE  IsAccountedFor(row, entries)
  BY ServerNumbers, TransferNumbers DEF IsAccountedFor

\* A later report replaces the server columns; it resets the ledger if it is
\* about a new server account.
LEMMA UpdateKeepsInv ==
    ASSUME TypeOK, LedgerInv, NEW m \in updates,
           process_account_update_signal(m)
    PROVE  LedgerInv'
  <1> DEFINE row == WithServerState(data, m)
             fresh == [row EXCEPT !.ledger_pending_transfer_ts = NullTs]
             reset == update_ledger(fresh, 0, 0, 0, TRUE)
             relog == update_ledger(row, row.ledger_last_transfer_number, 0,
                                    row.ledger_principal, TRUE)
             SameExcept(new) ==
               /\ new.exists = data.exists
               /\ new.generation = data.generation
               /\ new.creation_date = m.creation_date
               /\ new.last_transfer_number = m.last_transfer_number
               /\ new.last_transfer_committed_at
                    = m.last_transfer_committed_at
  <1>1. /\ IsTransaction
        /\ ExclusiveLockFree
        /\ data.exists
        /\ IsNewerEvent(m)
        /\ UNCHANGED <<committed_transfer, readers, work, deletion>>
    BY DEF process_account_update_signal, IsTransaction
  <1>2. \/ /\ StoreLedger(reset.data, reset.entries, reset.log_entry)
           /\ pending_ledger_update'
        \/ /\ m.creation_date <= data.creation_date
           /\ StoreLedger(relog.data, relog.entries, relog.log_entry)
           /\ pending_ledger_update'
        \/ /\ m.creation_date <= data.creation_date
           /\ data' = row
           /\ UNCHANGED <<ledger_entry, pending_ledger_update>>
    <2>1. /\ data.creation_date \in Nat
          /\ m.creation_date \in Nat
      BY RowNumbers, UpdateNumbers DEF TypeOK
    <2>2. ~(m.creation_date > data.creation_date)
            => m.creation_date <= data.creation_date
      BY <2>1
    <2>3. CASE m.creation_date > data.creation_date
      BY <2>3, Zenon DEF process_account_update_signal
    <2>4. CASE ~(m.creation_date > data.creation_date)
      BY <2>2, <2>4, Zenon DEF process_account_update_signal
    <2> QED
      BY <2>3, <2>4, Zenon
  <1>3. row \in AccountData
    BY ServerStateType
  <1>4. /\ SameExcept(row)
        /\ row.ledger_last_transfer_number = data.ledger_last_transfer_number
    BY DEF WithServerState, TypeOK, AccountData
  <1> HIDE DEF row
  <1>5. fresh \in AccountData /\ SameExcept(fresh)
    BY <1>3, <1>4 DEF AccountData
  <1> HIDE DEF fresh
  <1>6. /\ row.ledger_last_transfer_number \in 0 .. MaxNumber
        /\ row.ledger_principal \in Principal
        /\ now \in Time
        /\ 0 \in Int /\ TRUE \in BOOLEAN
    BY <1>3 DEF AccountData, TypeOK
  <1>7. MovesLedger(reset, fresh, 0)
    BY <1>5, <1>6, ZeroInRange, UpdateMovesLedger, Zenon
  <1>8. MovesLedger(relog, row, row.ledger_last_transfer_number)
    BY <1>3, <1>6, UpdateMovesLedger, Zenon
  <1> HIDE DEF reset, relog
  <1>9. /\ SameExcept(data')
        /\ \/ /\ data'.ledger_last_transfer_number = 0
              /\ pending_ledger_update'
           \/ /\ m.creation_date <= data.creation_date
              /\ data'.ledger_last_transfer_number
                   = data.ledger_last_transfer_number
              /\ pending_ledger_update => pending_ledger_update'
        /\ ledger_entry \subseteq ledger_entry'
    BY <1>2, <1>4, <1>5, <1>7, <1>8 DEF StoreLedger, MovesLedger
  <1>10. IsReport(data')
    BY <1>9, SameReport DEF LedgerInv, ReportsAreTrue
  <1>11. m.creation_date <= data.creation_date
           => m.creation_date = data.creation_date
    BY <1>1, RowNumbers, UpdateNumbers DEF IsNewerEvent, TypeOK
  <1>12. IsAccountedFor(data', ledger_entry')
    <2>1. CASE data'.ledger_last_transfer_number = 0
      BY <2>1, EmptyLedger
    <2>2. CASE /\ m.creation_date = data.creation_date
               /\ data'.ledger_last_transfer_number
                    = data.ledger_last_transfer_number
      BY <1>9, <2>2, SameAccount DEF LedgerInv, LedgersAreAccountedFor
    <2> QED
      BY <1>9, <1>11, <2>1, <2>2
  <1>13. NoStrandedTransfer'
    BY <1>1, <1>9, <1>11 DEF LedgerInv, NoStrandedTransfer
  <1>14. deletion'.active => data'.exists
    BY <1>1, <1>9
  <1> QED
    BY <1>1, <1>10, <1>12, <1>13, <1>14, LockedRow, OwnerKeepsInv

-----------------------------------------------------------------------------
(* The table scanners *)

LEMMA ScannerKeepsInv ==
    ASSUME TypeOK, LedgerInv, Scanner
    PROVE  LedgerInv'
  <1> DEFINE ReadersHold ==
               \A c \in Consumers : readers[c].active =>
                  /\ readers[c].message \in transfers
                  /\ ~work.active
                  /\ data.exists
                  /\ readers[c].ledger_date = data.creation_date
                  /\ readers[c].ledger_last_transfer_number
                       = data.ledger_last_transfer_number
  <1>1. ReadersHold /\ (deletion.active => data.exists)
    BY DEF LedgerInv, LocksAreHeld, TransfersAreSent
  <1>2. IsTransaction
    BY DEF Scanner, ScannerUpdatesLedger, ScannerDecidesOnRepair,
           ScannerSchedulesRepair, CollectCommittedTransfers, IsTransaction
  <1>3. CASE ScannerUpdatesLedger
    <2> DEFINE corrections == make_correcting_ledger_entry_if_necessary(
                                data, 0, data.principal)
               id == data.ledger_last_entry_id + Cardinality(corrections)
               up == data.ledger_latest_update_id + 1
               row == [data EXCEPT !.ledger_last_entry_id = id,
                                   !.ledger_principal = data.principal,
                                   !.ledger_latest_update_id = up,
                                   !.ledger_latest_update_ts = now]
    <2>1. /\ data' = row
          /\ ledger_entry' = ledger_entry \cup corrections
      BY <1>3 DEF ScannerUpdatesLedger, StoreLedger
    <2>2. /\ ExclusiveLockFree
          /\ UNCHANGED <<committed_transfer, pending_ledger_update, readers,
                         work, deletion>>
      BY <1>3 DEF ScannerUpdatesLedger
    <2> HIDE DEF corrections, id, up
    <2>3. data \in AccountData
      BY DEF TypeOK
    <2>4. /\ data'.exists = data.exists
          /\ data'.generation = data.generation
          /\ data'.creation_date = data.creation_date
          /\ data'.last_transfer_number = data.last_transfer_number
          /\ data'.last_transfer_committed_at
               = data.last_transfer_committed_at
          /\ data'.ledger_last_transfer_number
               = data.ledger_last_transfer_number
      BY <2>1, <2>3 DEF AccountData
    <2> HIDE DEF row
    <2>5. IsReport(data') /\ IsAccountedFor(data', ledger_entry')
      BY <2>1, <2>4, SameReport, SameAccount
         DEF LedgerInv, ReportsAreTrue, LedgersAreAccountedFor
    <2>6. NoStrandedTransfer'
      BY <2>2, <2>4 DEF LedgerInv, NoStrandedTransfer
    <2>7. deletion'.active => data'.exists
      BY <1>1, <2>2, <2>4
    <2> QED
      BY <1>2, <2>2, <2>5, <2>6, <2>7, LockedRow, OwnerKeepsInv
  <1>4. CASE ScannerDecidesOnRepair \/ ScannerSchedulesRepair
    <2>1. UNCHANGED <<data, ledger_entry, work, committed_transfer, readers,
                      deletion>>
      BY <1>4 DEF ScannerDecidesOnRepair, ScannerSchedulesRepair
    <2>2. NoStrandedTransfer'
      BY <1>4 DEF ScannerDecidesOnRepair, ScannerSchedulesRepair, LedgerInv,
                  NoStrandedTransfer
    <2>3. committed_transfer' \subseteq transfers
      BY <2>1 DEF LedgerInv, TransfersAreSent
    <2> QED
      BY <1>1, <1>2, <2>1, <2>2, <2>3, BystanderKeepsInv
  <1>5. CASE CollectCommittedTransfers
    <2>1. /\ UNCHANGED <<data, ledger_entry, work, readers, deletion,
                         pending_ledger_update>>
          /\ committed_transfer' \subseteq committed_transfer
      BY <1>5 DEF CollectCommittedTransfers
    <2>2. NoStrandedTransfer'
      BY <2>1 DEF LedgerInv, NoStrandedTransfer
    <2>3. committed_transfer' \subseteq transfers
      BY <2>1 DEF LedgerInv, TransfersAreSent
    <2> QED
      BY <1>1, <1>2, <2>1, <2>2, <2>3, BystanderKeepsInv
  <1> QED
    BY <1>3, <1>4, <1>5 DEF Scanner

-----------------------------------------------------------------------------
(* create_new_account and delete_account *)

LEMMA WebApiKeepsInv ==
    ASSUME TypeOK, LedgerInv, WebApi
    PROVE  LedgerInv'
  <1>1. IsTransaction
    BY DEF WebApi, create_new_account, ReadAccountToDelete, DeleteAccount,
           IsTransaction
  <1>2. \A c \in Consumers : readers[c].active =>
           /\ readers[c].message \in transfers
           /\ ~work.active
           /\ data.exists
           /\ readers[c].ledger_date = data.creation_date
           /\ readers[c].ledger_last_transfer_number
                = data.ledger_last_transfer_number
    BY DEF LedgerInv, LocksAreHeld, TransfersAreSent
  <1>3. ASSUME NEW row, row.creation_date = 0, row.last_transfer_number = 0
        PROVE  IsReport(row)
    BY <1>3, ServerNumbers, TransferNumbers DEF IsReport
  <1>4. CASE create_new_account
    <2>1. /\ ~data.exists
          /\ data' = NewAccountData(data.generation + 1)
          /\ UNCHANGED <<committed_transfer, readers, work, deletion>>
      BY <1>4 DEF create_new_account
    <2>2. ExclusiveLockFree /\ ~deletion.active
      BY <2>1 DEF LedgerInv, LocksAreHeld, ExclusiveLockFree
    <2>3. /\ data'.creation_date = 0
          /\ data'.last_transfer_number = 0
          /\ data'.ledger_last_transfer_number = 0
      BY <2>1 DEF NewAccountData, NoAccount, DATE0
    <2>4. \A t \in committed_transfer : t.creation_date # 0
      BY TransferNumbers DEF LedgerInv, TransfersAreSent
    <2>5. NoStrandedTransfer'
      BY <2>1, <2>3, <2>4 DEF NoStrandedTransfer
    <2> QED
      BY <1>1, <1>3, <2>1, <2>2, <2>3, <2>5, EmptyLedger, LockedRow,
         OwnerKeepsInv
  <1>5. CASE ReadAccountToDelete
    <2>1. /\ data.exists
          /\ UNCHANGED <<data, ledger_entry, work, readers,
                         committed_transfer, pending_ledger_update>>
      BY <1>5 DEF ReadAccountToDelete
    <2>2. NoStrandedTransfer'
      BY <2>1 DEF LedgerInv, NoStrandedTransfer
    <2>3. committed_transfer' \subseteq transfers
      BY <2>1 DEF LedgerInv, TransfersAreSent
    <2> QED
      BY <1>1, <1>2, <2>1, <2>2, <2>3, BystanderKeepsInv
  <1>6. CASE DeleteAccount
    <2>1. /\ ExclusiveLockFree
          /\ data' = [NoAccount EXCEPT !.generation = data.generation]
          /\ ~deletion'.active
          /\ UNCHANGED <<committed_transfer, readers, work>>
      BY <1>6 DEF DeleteAccount
    <2>2. /\ ~data'.exists
          /\ data'.creation_date = 0
          /\ data'.last_transfer_number = 0
          /\ data'.ledger_last_transfer_number = 0
      BY <2>1 DEF NoAccount, DATE0
    <2>3. NoStrandedTransfer'
      BY <2>2 DEF NoStrandedTransfer
    <2> QED
      BY <1>1, <1>3, <2>1, <2>2, <2>3, EmptyLedger, LockedRow, OwnerKeepsInv
  <1> QED
    BY <1>4, <1>5, <1>6 DEF WebApi

-----------------------------------------------------------------------------
(* process_pending_ledger_update *)

\* The first burst: what is left out of it comes later.
LEMMA BeginKeepsInv ==
    ASSUME TypeOK, LedgerInv, BeginLedgerUpdate
    PROVE  LedgerInv'
  <1>1. PICK burst \in SUBSET PendingTransfers :
           /\ IsBurst(burst, PendingTransfers)
           /\ work' = [active |-> TRUE, data |-> data, todo |-> burst,
                       is_last |-> Cardinality(burst) < BURST_COUNT,
                       entries |-> {}, log_entry |-> NoLogEntry]
    BY DEF BeginLedgerUpdate
  <1>2. /\ work'.active
        /\ work'.data = data
        /\ work'.todo = burst
        /\ work'.is_last => burst = PendingTransfers
        /\ work'.entries = {}
    <2>1. burst # PendingTransfers => ~(Cardinality(burst) < BURST_COUNT)
      BY <1>1, LedgerAssumptions DEF IsBurst
    <2> QED
      BY <1>1, <2>1
  <1>3. /\ IsTransaction
        /\ ExclusiveLockFree
        /\ data.exists
        /\ UNCHANGED <<data, committed_transfer, pending_ledger_update,
                       ledger_entry, readers, deletion>>
    BY DEF BeginLedgerUpdate, IsTransaction
  <1>4. TransfersAreOrdered'
    BY <1>3, TransactionKeepsWorld
  <1>5. ReportsAreTrue'
    BY <1>3, TransactionKeepsWorld
       DEF LedgerInv, IsTransaction, ReportsAreTrue, IsReport
  <1>6. TransfersAreSent'
    BY <1>1, <1>2, <1>3
       DEF LedgerInv, IsTransaction, TransfersAreSent, PendingTransfers
  <1>7. LocksAreHeld'
    BY <1>2, <1>3 DEF LedgerInv, LocksAreHeld, ExclusiveLockFree
  <1>8. BurstIsNext'
    <2>1. \A u \in committed_transfer \ burst :
             /\ u.creation_date = data.creation_date
             /\ u.transfer_number > data.ledger_last_transfer_number
             => /\ burst # PendingTransfers
                /\ \A t \in burst : t.transfer_number < u.transfer_number
      BY <1>1 DEF PendingTransfers, IsBurst
    <2>2. \A t \in burst :
             /\ t.creation_date = data.creation_date
             /\ t.transfer_number > data.ledger_last_transfer_number
      BY DEF PendingTransfers
    <2>3. data.ledger_last_transfer_number <= data.ledger_last_transfer_number
      BY RowNumbers DEF TypeOK
    <2> QED
      BY <1>2, <1>3, <2>1, <2>2, <2>3 DEF BurstIsNext
  <1>9. IsAccountedFor(data, ledger_entry)'
    BY <1>3 DEF LedgerInv, IsTransaction, LedgersAreAccountedFor,
                IsAccountedFor, IsOld
  <1>10. LedgersAreAccountedFor'
    BY <1>2, <1>3, <1>9 DEF LedgersAreAccountedFor, IsAccountedFor
  <1>11. NoStrandedTransfer'
    BY <1>3 DEF LedgerInv, NoStrandedTransfer
  <1> QED
    BY <1>4, <1>5, <1>6, <1>7, <1>8, <1>10, <1>11 DEF LedgerInv

\* Between a transfer and an earlier one lies the predecessor it names.
LEMMA Predecessor ==
    ASSUME TypeOK, TransfersAreOrdered, NEW t \in transfers,
           NEW u \in transfers, u.creation_date = t.creation_date, u # t,
           u.transfer_number <= t.transfer_number
    PROVE  /\ u.transfer_number < t.transfer_number
           /\ u.transfer_number <= t.previous_transfer_number
           /\ u.committed_at <= t.committed_at
  BY TransferNumbers DEF TransfersAreOrdered

\* The entry of a booked transfer is among the new entries.
HasEntry(entries, generation, creation_date, transfer_number) ==
    \E e \in entries :
        /\ e.generation = generation
        /\ e.creation_date = creation_date
        /\ e.transfer_number = transfer_number

LEMMA UpdateHasEntry ==
    ASSUME now \in Time, NEW row \in AccountData,
           NEW number \in 0 .. MaxNumber, NEW amount \in Int, amount # 0,
           NEW principal \in Principal, NEW always_log \in BOOLEAN
    PROVE  HasEntry(update_ledger(row, number, amount, principal,
                                  always_log).entries,
                    row.generation, row.creation_date, number)
  BY UpdateLedgerType DEF HasEntry

\* A step forward: the next transfer is booked.  If it is not the successor
\* of the last one, then all that lies between is older than it, and too old.
LEMMA BookKeepsInv ==
    ASSUME TypeOK, LedgerInv, NEW t \in work.todo, BookTransfer(t)
    PROVE  LedgerInv'
  <1> DEFINE update == update_ledger(work.data, t.transfer_number,
                                     t.acquired_amount, t.principal, FALSE)
             todo == work.todo \ {t}
             entries == work.entries \cup update.entries
             entry == Coalesce(update.log_entry, work.log_entry)
             last == work.data.ledger_last_transfer_number
  <1>1. /\ work.active
        /\ IsNext(t)
        /\ ~IsMissingPredecessor(t)
        /\ work' = [work EXCEPT !.data = update.data, !.todo = todo,
                                !.entries = entries, !.log_entry = entry]
    BY DEF BookTransfer
  <1>2. /\ IsTransaction
        /\ UNCHANGED <<data, committed_transfer, pending_ledger_update,
                       ledger_entry, readers, deletion>>
    BY DEF BookTransfer, IsTransaction
  <1>3. /\ work.data \in AccountData
        /\ t \in transfers
        /\ t \in Transfer
        /\ now \in Time
        /\ last \in Nat
    BY RowNumbers DEF LedgerInv, TransfersAreSent, TypeOK
  <1>4. /\ t.transfer_number \in 0 .. MaxNumber
        /\ t.acquired_amount \in Int
        /\ t.acquired_amount # 0
        /\ t.principal \in Principal
        /\ FALSE \in BOOLEAN
    BY <1>3, ConstantTypes DEF Transfer
  <1>5. MovesLedger(update, work.data, t.transfer_number)
    BY <1>3, <1>4, UpdateMovesLedger, Zenon
  <1>6. HasEntry(update.entries, work.data.generation,
                 work.data.creation_date, t.transfer_number)
    BY <1>3, <1>4, UpdateHasEntry, Zenon
  <1> HIDE DEF update
  <1>7. /\ work'.active
        /\ work'.data = update.data
        /\ work'.todo = todo
        /\ work'.entries = entries
        /\ work'.is_last = work.is_last
    BY <1>1 DEF TypeOK
  <1> HIDE DEF entry
  <1>8. /\ \A c \in Consumers : ~readers[c].active
        /\ data.exists
        /\ work.data.exists
        /\ work.data.generation = data.generation
        /\ work.data.creation_date = data.creation_date
        /\ work.data.last_transfer_number = data.last_transfer_number
        /\ work.data.last_transfer_committed_at
             = data.last_transfer_committed_at
    BY <1>1 DEF LedgerInv, LocksAreHeld
  <1>9. /\ t.creation_date = data.creation_date
        /\ t.transfer_number > last
        /\ data.ledger_last_transfer_number <= last
        /\ \A u \in work.todo : u.creation_date = data.creation_date
        /\ \A u \in committed_transfer \ work.todo :
              /\ u.creation_date = data.creation_date
              /\ u.transfer_number > last
              => /\ ~work.is_last
                 /\ \A v \in work.todo : v.transfer_number < u.transfer_number
    BY <1>1 DEF LedgerInv, BurstIsNext
  <1>10. TransfersAreOrdered'
    BY <1>2, TransactionKeepsWorld
  <1>11. ReportsAreTrue'
    BY <1>2, TransactionKeepsWorld
       DEF LedgerInv, IsTransaction, ReportsAreTrue, IsReport
  <1>12. TransfersAreSent'
    BY <1>2, <1>7 DEF LedgerInv, IsTransaction, TransfersAreSent
  <1>13. LocksAreHeld'
    BY <1>2, <1>5, <1>7, <1>8 DEF LedgerInv, LocksAreHeld, MovesLedger
  <1>14. BurstIsNext'
    <2>1. \A u \in todo : u.transfer_number > t.transfer_number
      <3>1. ASSUME NEW u \in todo
            PROVE  u.transfer_number > t.transfer_number
        <4>1. u \in transfers /\ u # t /\ u.creation_date = t.creation_date
          BY <1>9 DEF LedgerInv, TransfersAreSent
        <4>2. t.transfer_number <= u.transfer_number
          BY <1>1 DEF IsNext
        <4> QED
          BY <1>3, <4>1, <4>2, Predecessor, TransferNumbers DEF LedgerInv
      <3> QED
        BY <3>1
    <2>2. ASSUME NEW u \in committed_transfer, u \notin todo,
                 u.creation_date = data.creation_date,
                 u.transfer_number > t.transfer_number
          PROVE  /\ ~work.is_last
                 /\ \A v \in todo : v.transfer_number < u.transfer_number
      <3>1. u \in transfers
        BY DEF LedgerInv, TransfersAreSent
      <3>2. u # t
        BY <1>3, <2>2, TransferNumbers
      <3>3. u.transfer_number > last
        BY <1>3, <1>9, <2>2, <3>1, TransferNumbers
      <3> QED
        BY <1>9, <2>2, <3>2, <3>3
    <2>3. data.ledger_last_transfer_number <= t.transfer_number
      BY <1>3, <1>9, RowNumbers, TransferNumbers DEF TypeOK
    <2> QED
      BY <1>2, <1>5, <1>7, <1>9, <2>1, <2>2, <2>3 DEF BurstIsNext, MovesLedger
  <1>15. LedgersAreAccountedFor'
    <2>1. IsAccountedFor(data, ledger_entry)'
      BY <1>2 DEF LedgerInv, IsTransaction, LedgersAreAccountedFor,
                  IsAccountedFor, IsOld
    <2>2. t.creation_date = srv.creation_date
             => t.transfer_number <= srv.last_transfer_number
      BY <1>3 DEF LedgerInv, TransfersAreOrdered
    <2>3. ASSUME NEW u \in transfers, u.creation_date = t.creation_date,
                 u.transfer_number <= t.transfer_number
          PROVE  \/ IsOld(u)
                 \/ HasEntry(ledger_entry \cup entries, data.generation,
                             u.creation_date, u.transfer_number)
      <3>1. CASE u.transfer_number <= last
        BY <1>1, <1>8, <1>9, <2>3, <3>1
           DEF LedgerInv, LedgersAreAccountedFor, IsAccountedFor, HasEntry
      <3>2. CASE u = t
        BY <1>6, <1>8, <1>9, <3>2 DEF HasEntry
      <3>3. CASE u # t /\ u.transfer_number > last
        <4>1. /\ u.transfer_number <= t.previous_transfer_number
              /\ u.committed_at <= t.committed_at
          BY <1>3, <2>3, <3>3, Predecessor DEF LedgerInv
        <4>2. t.previous_transfer_number # last
          BY <1>3, <3>3, <4>1, TransferNumbers
        <4>3. ~(t.committed_at >= now - MAX_TRANSFER_DELAY)
          BY <1>1, <4>2 DEF IsMissingPredecessor
        <4> QED
          BY <1>3, <4>1, <4>3, TransferNumbers, ServerNumbers, Ranges
             DEF IsOld
      <3> QED
        BY <1>3, <3>1, <3>2, <3>3, TransferNumbers
    <2>4. IsAccountedFor(work.data, ledger_entry \cup work.entries)'
      <3> HIDE DEF entries
      <3>1. /\ transfers' = transfers /\ srv' = srv /\ now' = now
            /\ ledger_entry' = ledger_entry
            /\ work'.data.generation = data.generation
            /\ work'.data.creation_date = t.creation_date
            /\ work'.data.ledger_last_transfer_number = t.transfer_number
        BY <1>2, <1>5, <1>7, <1>8, <1>9 DEF IsTransaction, MovesLedger
      <3>2. IsAccountedFor(work'.data, ledger_entry \cup work'.entries)
        BY <1>7, <2>2, <2>3, <3>1 DEF IsAccountedFor, HasEntry
      <3> QED
        BY <3>1, <3>2 DEF IsAccountedFor, IsOld
    <2> QED
      BY <2>1, <2>4 DEF LedgersAreAccountedFor
  <1>16. NoStrandedTransfer'
    BY <1>2 DEF LedgerInv, NoStrandedTransfer
  <1> QED
    BY <1>10, <1>11, <1>12, <1>13, <1>14, <1>15, <1>16 DEF LedgerInv

\* What the end of the transaction needs: the row to be stored is a true one,
\* and nothing continues its ledger if the account is taken off the queue.
LEMMA CommitKeepsInv ==
    ASSUME TypeOK, LedgerInv, work.active,
           NEW row, NEW entries, NEW entry, NEW is_done \in BOOLEAN,
           CommitLedgerUpdate(row, entries, entry, is_done),
           row.exists = data.exists,
           IsReport(row),
           IsAccountedFor(row, ledger_entry \cup entries),
           is_done => \A u \in committed_transfer :
                         ~ /\ u.creation_date = row.creation_date
                           /\ u.previous_transfer_number
                                = row.ledger_last_transfer_number
    PROVE  LedgerInv' /\ (data' = row \/ data' = data)
  <1>1. /\ IsTransaction
        /\ work' = IdleWork
        /\ UNCHANGED <<committed_transfer, readers, deletion>>
    BY DEF CommitLedgerUpdate, IsTransaction
  <1>2. \/ /\ data' = row
           /\ ledger_entry' = ledger_entry \cup entries
           /\ pending_ledger_update' = ~is_done
        \/ UNCHANGED <<data, ledger_entry, pending_ledger_update>>
    BY Zenon DEF CommitLedgerUpdate, StoreLedger
  <1>3. ~work'.active /\ work'.todo \subseteq transfers
    BY <1>1 DEF IdleWork
  <1>4. /\ \A c \in Consumers : ~readers'[c].active
        /\ deletion'.active => data'.exists
    BY <1>1, <1>2 DEF LedgerInv, LocksAreHeld
  <1>5. IsReport(data') /\ IsAccountedFor(data', ledger_entry')
    BY <1>2 DEF LedgerInv, ReportsAreTrue, LedgersAreAccountedFor
  <1>6. NoStrandedTransfer'
    <2>1. CASE data' = row /\ pending_ledger_update' = ~is_done
      BY <1>1, <2>1 DEF NoStrandedTransfer
    <2>2. CASE UNCHANGED <<data, pending_ledger_update>>
      BY <1>1, <2>2 DEF LedgerInv, NoStrandedTransfer
    <2> QED
      BY <1>2, <2>1, <2>2
  <1> QED
    BY <1>1, <1>2, <1>3, <1>4, <1>5, <1>6, OwnerKeepsInv

\* No transfer that is already committed continues the ledger, when the work
\* on it ends: either the predecessor of the next one is missing, or the last
\* one is booked.
LEMMA NothingContinues ==
    ASSUME TypeOK, LedgerInv, work.active,
           \/ \E t \in work.todo : IsNext(t) /\ IsMissingPredecessor(t)
           \/ work.todo = {} /\ work.is_last
    PROVE  \A u \in committed_transfer :
              u.creation_date = data.creation_date =>
                /\ u.previous_transfer_number
                     # work.data.ledger_last_transfer_number
                /\ work.todo = {} =>
                     u.transfer_number <= work.data.ledger_last_transfer_number
  <1> DEFINE last == work.data.ledger_last_transfer_number
  <1>1. /\ last \in Nat
        /\ \A t \in work.todo :
              /\ t.creation_date = data.creation_date
              /\ t.transfer_number > last
        /\ \A u \in committed_transfer \ work.todo :
              /\ u.creation_date = data.creation_date
              /\ u.transfer_number > last
              => /\ ~work.is_last
                 /\ \A t \in work.todo : t.transfer_number < u.transfer_number
    BY RowNumbers DEF LedgerInv, BurstIsNext, TypeOK
  <1>2. SUFFICES ASSUME NEW u \in committed_transfer,
                        u.creation_date = data.creation_date
                 PROVE  /\ u.previous_transfer_number # last
                        /\ work.todo = {} => u.transfer_number <= last
    OBVIOUS
  <1>3. /\ u \in transfers
        /\ work.todo \subseteq transfers
        /\ u.transfer_number \in Nat
        /\ u.previous_transfer_number < u.transfer_number
    BY TransferNumbers DEF LedgerInv, TransfersAreSent, TransfersAreOrdered
  <1>4. ASSUME NEW t \in work.todo, IsNext(t), IsMissingPredecessor(t)
        PROVE  u.previous_transfer_number # last
    <2>1. SUFFICES ASSUME u.previous_transfer_number = last
                   PROVE  FALSE
      OBVIOUS
    <2>2. u # t
      BY <1>4, <2>1 DEF IsMissingPredecessor
    <2>3. t.transfer_number <= u.transfer_number
      <3>1. CASE u \in work.todo
        BY <1>4, <3>1 DEF IsNext
      <3>2. CASE u \notin work.todo
        BY <1>1, <1>2, <1>3, <2>1, <3>2, TransferNumbers
      <3> QED
        BY <3>1, <3>2
    <2>4. t.transfer_number <= u.previous_transfer_number
      BY <1>1, <1>2, <1>3, <2>2, <2>3, Predecessor DEF LedgerInv
    <2> QED
      BY <1>1, <1>3, <2>1, <2>4, TransferNumbers
  <1>5. CASE work.todo = {} /\ work.is_last
    BY <1>1, <1>2, <1>3, <1>5, TransferNumbers
  <1> QED
    BY <1>4, <1>5

\* The end of the transaction, with or without the repair of the tail: what
\* the repair jumps over is not later than an old report.
LEMMA CompleteKeepsInv ==
    ASSUME TypeOK, LedgerInv, work.active,
           NEW ts \in Time \cup {NullTs}, NEW is_done \in BOOLEAN,
           CompleteLedgerUpdate(
             [work.data EXCEPT !.ledger_pending_transfer_ts = ts], is_done),
           is_done =>
             \A u \in committed_transfer :
                u.creation_date = data.creation_date =>
                  /\ u.previous_transfer_number
                       # work.data.ledger_last_transfer_number
                  /\ ts = NullTs =>
                       u.transfer_number
                         <= work.data.ledger_last_transfer_number
    PROVE  /\ LedgerInv'
           /\ data'.ledger_last_transfer_number
                >= data.ledger_last_transfer_number
  <1> DEFINE row == [work.data EXCEPT !.ledger_pending_transfer_ts = ts]
             fix == update_ledger(row, row.last_transfer_number, 0,
                                  row.principal, FALSE)
             fixed_entries == work.entries \cup fix.entries
             fixed_entry == Coalesce(fix.log_entry, work.log_entry)
             last == work.data.ledger_last_transfer_number
  <1>1. work.data \in AccountData /\ data \in AccountData
    BY DEF TypeOK
  <1>2. /\ row \in AccountData
        /\ row.exists = data.exists
        /\ row.generation = data.generation
        /\ row.creation_date = data.creation_date
        /\ row.last_transfer_number = data.last_transfer_number
        /\ row.last_transfer_committed_at = data.last_transfer_committed_at
        /\ row.ledger_last_transfer_number = last
        /\ row.ledger_pending_transfer_ts = ts
    <2>1. /\ work.data.exists = data.exists
          /\ work.data.generation = data.generation
          /\ work.data.creation_date = data.creation_date
          /\ work.data.last_transfer_number = data.last_transfer_number
          /\ work.data.last_transfer_committed_at
               = data.last_transfer_committed_at
      BY DEF LedgerInv, LocksAreHeld
    <2> QED
      BY <1>1, <2>1 DEF AccountData
  <1>3. /\ last \in Nat
        /\ data.ledger_last_transfer_number \in Nat
        /\ data.ledger_last_transfer_number <= last
        /\ row.last_transfer_number \in Nat
        /\ row.last_transfer_committed_at \in Nat
    BY <1>1, <1>2, RowNumbers DEF LedgerInv, BurstIsNext
  <1>4. \/ /\ is_done
           /\ IsMissingLastTransfer(row)
           /\ CommitLedgerUpdate(fix.data, fixed_entries, fixed_entry, TRUE)
        \/ CommitLedgerUpdate(row, work.entries, work.log_entry, is_done)
    BY Zenon DEF CompleteLedgerUpdate
  <1> HIDE DEF row, fixed_entry
  <1>5. /\ row.last_transfer_number \in 0 .. MaxNumber
        /\ row.principal \in Principal
        /\ now \in Time
        /\ 0 \in Int /\ FALSE \in BOOLEAN
    BY <1>2 DEF AccountData, TypeOK
  <1>6. MovesLedger(fix, row, row.last_transfer_number)
    BY <1>2, <1>5, UpdateMovesLedger, Zenon
  <1> HIDE DEF fix
  <1>7. IsReport(data)
    BY DEF LedgerInv, ReportsAreTrue
  <1>8. CASE CommitLedgerUpdate(row, work.entries, work.log_entry, is_done)
    <2>1. IsReport(row)
      BY <1>2, <1>7, SameReport
    <2>2. IsAccountedFor(row, ledger_entry \cup work.entries)
      <3>1. /\ row.generation = work.data.generation
            /\ row.creation_date = work.data.creation_date
        BY <1>2 DEF LedgerInv, LocksAreHeld
      <3> QED
        BY <1>2, <3>1, SameAccount DEF LedgerInv, LedgersAreAccountedFor
    <2>3. LedgerInv' /\ (data' = row \/ data' = data)
      BY <1>2, <1>8, <2>1, <2>2, CommitKeepsInv
    <2> QED
      BY <1>2, <1>3, <2>3
  <1>9. CASE /\ is_done
             /\ IsMissingLastTransfer(row)
             /\ CommitLedgerUpdate(fix.data, fixed_entries, fixed_entry, TRUE)
    <2>1. /\ ts = NullTs
          /\ row.last_transfer_number > last
          /\ row.last_transfer_committed_at < now - MAX_TRANSFER_DELAY
      BY <1>2, <1>9 DEF IsMissingLastTransfer
    <2>2. /\ fix.data.exists = data.exists
          /\ fix.data.generation = data.generation
          /\ fix.data.creation_date = data.creation_date
          /\ fix.data.last_transfer_number = data.last_transfer_number
          /\ fix.data.last_transfer_committed_at
               = data.last_transfer_committed_at
          /\ fix.data.ledger_last_transfer_number = row.last_transfer_number
      BY <1>2, <1>6 DEF MovesLedger
    <2>3. IsReport(fix.data)
      BY <1>7, <2>2, SameReport
    <2>4. \A t \in transfers :
             /\ t.creation_date = data.creation_date
             /\ t.transfer_number <= row.last_transfer_number
             => IsOld(t)
      BY <1>2, <1>3, <1>7, <2>1, TransferNumbers, ServerNumbers, Ranges
         DEF IsReport, IsOld
    <2>5. IsAccountedFor(fix.data, ledger_entry \cup fixed_entries)
      BY <1>2, <1>7, <2>2, <2>4 DEF IsReport, IsAccountedFor
    <2>6. \A u \in committed_transfer :
             ~ /\ u.creation_date = fix.data.creation_date
               /\ u.previous_transfer_number
                    = fix.data.ledger_last_transfer_number
      <3>1. \A u \in committed_transfer :
               /\ u \in transfers
               /\ u.transfer_number \in Nat
               /\ u.previous_transfer_number \in Nat
               /\ u.previous_transfer_number < u.transfer_number
        BY TransferNumbers DEF LedgerInv, TransfersAreSent,
                               TransfersAreOrdered
      <3>2. \A u \in committed_transfer :
               u.creation_date = data.creation_date
                 => u.transfer_number <= last
        BY <1>9, <2>1
      <3> QED
        BY <1>3, <2>1, <2>2, <3>1, <3>2
    <2>7. LedgerInv' /\ (data' = fix.data \/ data' = data)
      <3>1. TRUE \in BOOLEAN
        OBVIOUS
      <3>2. fix.data.exists = data.exists
        BY <2>2
      <3> HIDE DEF fixed_entries
      <3> QED
        BY <1>9, <2>3, <2>5, <2>6, <3>1, <3>2, CommitKeepsInv, Zenon
    <2> QED
      BY <1>3, <2>1, <2>2, <2>7
  <1> QED
    BY <1>4, <1>8, <1>9

\* A transaction that ends.
LEMMA EndKeepsInv ==
    ASSUME TypeOK, LedgerInv,
           \/ \E t \in work.todo : StopAtMissingTransfer(t)
           \/ FinishLedgerUpdate
    PROVE  /\ LedgerInv'
           /\ data'.ledger_last_transfer_number
                >= data.ledger_last_transfer_number
  <1>1. ASSUME NEW t \in work.todo, StopAtMissingTransfer(t)
        PROVE  /\ LedgerInv'
               /\ data'.ledger_last_transfer_number
                    >= data.ledger_last_transfer_number
    <2>1. /\ work.active
          /\ IsNext(t)
          /\ IsMissingPredecessor(t)
          /\ CompleteLedgerUpdate(
               [work.data EXCEPT !.ledger_pending_transfer_ts
                                     = t.committed_at], TRUE)
      BY <1>1 DEF StopAtMissingTransfer
    <2>2. t \in transfers
      BY DEF LedgerInv, TransfersAreSent
    <2>3. /\ t.committed_at \in Time \cup {NullTs}
          /\ t.committed_at # NullTs
      <3>1. t.committed_at \in Time
        BY <2>2 DEF TypeOK, Transfer
      <3> QED
        BY <3>1, Ranges DEF NullTs
    <2>4. \A u \in committed_transfer :
             u.creation_date = data.creation_date =>
               u.previous_transfer_number
                 # work.data.ledger_last_transfer_number
      BY <2>1, NothingContinues
    <2> QED
      BY <2>1, <2>3, <2>4, CompleteKeepsInv
  <1>2. ASSUME FinishLedgerUpdate
        PROVE  /\ LedgerInv'
               /\ data'.ledger_last_transfer_number
                    >= data.ledger_last_transfer_number
    <2>1. /\ work.active
          /\ work.todo = {}
          /\ CompleteLedgerUpdate(
               [work.data EXCEPT !.ledger_pending_transfer_ts = NullTs],
               work.is_last)
      BY <1>2 DEF FinishLedgerUpdate
    <2>2. work.is_last =>
            \A u \in committed_transfer :
               u.creation_date = data.creation_date =>
                 /\ u.previous_transfer_number
                      # work.data.ledger_last_transfer_number
                 /\ u.transfer_number
                      <= work.data.ledger_last_transfer_number
      BY <2>1, NothingContinues
    <2>3. work.is_last \in BOOLEAN /\ NullTs \in Time \cup {NullTs}
      BY DEF TypeOK
    <2> QED
      BY <2>1, <2>2, <2>3, CompleteKeepsInv
  <1> QED
    BY <1>1, <1>2

LEMMA CrashKeepsInv ==
    ASSUME TypeOK, LedgerInv, CrashLedgerUpdate
    PROVE  LedgerInv'
  <1>1. /\ IsTransaction
        /\ work.active
        /\ work' = IdleWork
        /\ UNCHANGED <<data, committed_transfer, pending_ledger_update,
                       ledger_entry, readers, deletion>>
    BY DEF CrashLedgerUpdate, IsTransaction
  <1>2. ~work'.active /\ work'.todo \subseteq transfers
    BY <1>1 DEF IdleWork
  <1>3. /\ \A c \in Consumers : ~readers'[c].active
        /\ deletion'.active => data'.exists
    BY <1>1 DEF LedgerInv, LocksAreHeld
  <1>4. IsReport(data') /\ IsAccountedFor(data', ledger_entry')
    BY <1>1 DEF LedgerInv, ReportsAreTrue, LedgersAreAccountedFor
  <1>5. NoStrandedTransfer'
    BY <1>1 DEF LedgerInv, NoStrandedTransfer
  <1> QED
    BY <1>1, <1>2, <1>3, <1>4, <1>5, OwnerKeepsInv

-----------------------------------------------------------------------------
(* The theorems *)

LEMMA InitInv == Init => LedgerInv
  <1> SUFFICES ASSUME Init PROVE LedgerInv
    OBVIOUS
  <1>1. TypeOK
    BY InitType
  <1>2. /\ transfers = {}
        /\ committed_transfer = {}
        /\ data.exists
        /\ data.creation_date = 0
        /\ data.last_transfer_number = 0
        /\ data.ledger_last_transfer_number = 0
        /\ ~work.active
        /\ work.todo = {}
        /\ \A c \in Consumers : ~readers[c].active
    BY DEF Init, NoAccount, DATE0, IdleWork, IdleReader
  <1>3. PICK id \in AccountIds :
           /\ srv = NewServerAccount(1, id)
           /\ updates = {Snapshot(NewServerAccount(1, id))}
    BY DEF Init
  <1>4. /\ srv.creation_date = 1
        /\ srv.last_transfer_number = 0
        /\ srv.last_transfer_committed_at = 0
        /\ now = 0
        /\ \A m \in updates : /\ m.creation_date = 1
                              /\ m.last_transfer_number = 0
    BY <1>3 DEF Init, NewServerAccount, Snapshot
  <1>5. TransfersAreOrdered /\ ReportsAreTrue
    BY <1>2, <1>4 DEF TransfersAreOrdered, ReportsAreTrue, IsReport
  <1>6. /\ TransfersAreSent
        /\ LocksAreHeld
        /\ BurstIsNext
        /\ NoStrandedTransfer
    BY <1>2 DEF TransfersAreSent, LocksAreHeld, BurstIsNext,
                NoStrandedTransfer, Init
  <1>7. LedgersAreAccountedFor
    BY <1>1, <1>2, EmptyLedger DEF LedgersAreAccountedFor
  <1> QED
    BY <1>5, <1>6, <1>7 DEF LedgerInv

LEMMA NextKeepsInv ==
    ASSUME TypeOK, LedgerInv, [Next]_vars
    PROVE  LedgerInv'
  <1>1. CASE Server
    BY <1>1, ServerKeepsInv
  <1>2. CASE Tick
    BY <1>2, TickKeepsInv
  <1>3. CASE MessageHandlers
    BY <1>3, ReadKeepsInv, InsertKeepsInv, UpdateKeepsInv, PurgeKeepsInv
       DEF MessageHandlers
  <1>4. CASE LedgerProcessor
    BY <1>4, BeginKeepsInv, BookKeepsInv, EndKeepsInv DEF LedgerProcessor
  <1>5. CASE CrashLedgerUpdate
    BY <1>5, CrashKeepsInv
  <1>6. CASE Scanner
    BY <1>6, ScannerKeepsInv
  <1>7. CASE WebApi
    BY <1>7, WebApiKeepsInv
  <1>8. CASE UNCHANGED vars
    BY <1>8 DEF vars, LedgerInv, TransfersAreOrdered, ReportsAreTrue, IsReport,
                TransfersAreSent, LocksAreHeld, BurstIsNext,
                LedgersAreAccountedFor, IsAccountedFor, IsOld,
                NoStrandedTransfer
  <1> QED
    BY <1>1, <1>2, <1>3, <1>4, <1>5, <1>6, <1>7, <1>8 DEF Next

\* The message handlers, the ledger processor, the scanners and the Web API
\* preserve together what each of them relies on.
THEOREM LedgerCorrect == Spec => []LedgerInv
  <1>1. TypeOK /\ LedgerInv /\ [Next]_vars => LedgerInv'
    BY NextKeepsInv
  <1> QED
    BY <1>1, InitInv, TypeCorrect, PTL DEF Spec

\* Thanks to the FOR SHARE lock in process_account_transfer_signal, a
\* committed transfer that continues the ledger always has its account queued
\* for the ledger processor.
THEOREM StrandedCorrect == Spec => []NoStrandedTransfer
  <1>1. LedgerInv => NoStrandedTransfer
    BY DEF LedgerInv
  <1> QED
    BY <1>1, LedgerCorrect, PTL

\* process_pending_ledger_update never leaves out of the ledger a transfer
\* that is younger than the maximal delay, whether it jumps over a gap or
\* repairs the tail, and however stale the row's server columns are.
THEOREM MissingCorrect == Spec => []MissingTransfersAreOld
  <1>1. LedgerInv => MissingTransfersAreOld
    BY DEF LedgerInv, LedgersAreAccountedFor, IsAccountedFor,
           MissingTransfersAreOld, IsOld, Booked
  <1> QED
    BY <1>1, LedgerCorrect, PTL

\* The steps that move the ledger back: to none, unless the account is another
\* one or follows another server account.
LEMMA NextMovesForward ==
    ASSUME TypeOK, LedgerInv, [Next]_vars,
           data'.exists,
           data'.generation = data.generation,
           data'.creation_date = data.creation_date
    PROVE  data'.ledger_last_transfer_number
             >= data.ledger_last_transfer_number
  <1>1. /\ data \in AccountData
        /\ data.ledger_last_transfer_number \in Nat
        /\ data.generation \in Nat
        /\ data.creation_date \in Nat
    BY RowNumbers DEF TypeOK, AccountData
  <1>2. SUFFICES \/ data'.ledger_last_transfer_number
                      = data.ledger_last_transfer_number
                 \/ data'.ledger_last_transfer_number
                      >= data.ledger_last_transfer_number
    BY <1>1
  <1>3. CASE Server \/ Tick \/ CrashLedgerUpdate \/ UNCHANGED vars
    BY <1>3 DEF Server, Tick, CrashLedgerUpdate, vars
  <1>4. ASSUME NEW m \in updates, process_account_update_signal(m)
        PROVE  data'.ledger_last_transfer_number
                 = data.ledger_last_transfer_number
    <2> DEFINE row == WithServerState(data, m)
               fresh == [row EXCEPT !.ledger_pending_transfer_ts = NullTs]
               reset == update_ledger(fresh, 0, 0, 0, TRUE)
               relog == update_ledger(row, row.ledger_last_transfer_number, 0,
                                      row.ledger_principal, TRUE)
    <2>1. \/ /\ m.creation_date > data.creation_date
             /\ StoreLedger(reset.data, reset.entries, reset.log_entry)
          \/ StoreLedger(relog.data, relog.entries, relog.log_entry)
          \/ data' = row
      BY <1>4, Zenon DEF process_account_update_signal
    <2>2. row \in AccountData
      BY ServerStateType
    <2>3. /\ row.creation_date = m.creation_date
          /\ row.ledger_last_transfer_number
               = data.ledger_last_transfer_number
      BY <1>1 DEF WithServerState, AccountData
    <2> HIDE DEF row
    <2>4. /\ fresh \in AccountData
          /\ fresh.creation_date = m.creation_date
      BY <2>2, <2>3 DEF AccountData
    <2> HIDE DEF fresh
    <2>5. /\ row.ledger_last_transfer_number \in 0 .. MaxNumber
          /\ row.ledger_principal \in Principal
          /\ now \in Time
          /\ 0 \in Int /\ TRUE \in BOOLEAN
      BY <2>2 DEF AccountData, TypeOK
    <2>6. MovesLedger(reset, fresh, 0)
      BY <2>4, <2>5, ZeroInRange, UpdateMovesLedger, Zenon
    <2>7. MovesLedger(relog, row, row.ledger_last_transfer_number)
      BY <2>2, <2>5, UpdateMovesLedger, Zenon
    <2> HIDE DEF reset, relog
    <2>8. CASE /\ m.creation_date > data.creation_date
               /\ data' = reset.data
      BY <1>1, <2>4, <2>6, <2>8, UpdateNumbers DEF MovesLedger
    <2>9. CASE data' = relog.data \/ data' = row
      BY <2>3, <2>7, <2>9 DEF MovesLedger
    <2> QED
      BY <2>1, <2>8, <2>9 DEF StoreLedger
  <1>5. CASE MessageHandlers
    <2>1. ASSUME NEW d, process_account_purge_signal(d)
          PROVE  data'.ledger_last_transfer_number
                   = data.ledger_last_transfer_number
      BY <1>1, <2>1 DEF process_account_purge_signal, AccountData
    <2> QED
      BY <1>4, <1>5, <2>1 DEF MessageHandlers, ReadLedgerData,
         InsertCommittedTransfer, AbandonDuplicateTransfer,
         CrashTransferSignal
  <1>6. CASE LedgerProcessor
    BY <1>6, EndKeepsInv DEF LedgerProcessor, BeginLedgerUpdate, BookTransfer
  <1>7. CASE Scanner
    <2>1. CASE ScannerUpdatesLedger
      <3> DEFINE id == data.ledger_last_entry_id + Cardinality(
                         make_correcting_ledger_entry_if_necessary(
                           data, 0, data.principal))
                 up == data.ledger_latest_update_id + 1
      <3>1. data' = [data EXCEPT !.ledger_last_entry_id = id,
                                 !.ledger_principal = data.principal,
                                 !.ledger_latest_update_id = up,
                                 !.ledger_latest_update_ts = now]
        BY <2>1 DEF ScannerUpdatesLedger, StoreLedger
      <3> HIDE DEF id, up
      <3> QED
        BY <1>1, <3>1 DEF AccountData
    <2> QED
      BY <1>7, <2>1 DEF Scanner, ScannerDecidesOnRepair,
         ScannerSchedulesRepair, CollectCommittedTransfers
  <1>8. CASE WebApi
    <2>1. CASE create_new_account
      <3>1. data' = NewAccountData(data.generation + 1)
        BY <2>1 DEF create_new_account
      <3>2. data'.generation = data.generation + 1
        BY <3>1 DEF NewAccountData, NoAccount
      <3> QED
        BY <1>1, <3>2
    <2>2. CASE DeleteAccount
      <3>1. ~data'.exists
        BY <2>2 DEF DeleteAccount, NoAccount
      <3> QED
        BY <3>1
    <2> QED
      BY <1>8, <2>1, <2>2 DEF WebApi, ReadAccountToDelete
  <1> QED
    BY <1>3, <1>5, <1>6, <1>7, <1>8 DEF Next

\* The ledger never moves back while the account follows one server account.
THEOREM ForwardCorrect == Spec => LedgerMovesForward
  <1>1. ASSUME TypeOK, LedgerInv, [Next]_vars
        PROVE  [/\ data'.exists
                /\ data'.generation = data.generation
                /\ data'.creation_date = data.creation_date
                => data'.ledger_last_transfer_number
                     >= data.ledger_last_transfer_number]_vars
    BY <1>1, NextMovesForward
  <1>2. TypeOK /\ LedgerInv /\ [Next]_vars
          => [/\ data'.exists
              /\ data'.generation = data.generation
              /\ data'.creation_date = data.creation_date
              => data'.ledger_last_transfer_number
                   >= data.ledger_last_transfer_number]_vars
    BY <1>1
  <1> QED
    BY <1>2, TypeCorrect, LedgerCorrect, PTL DEF Spec, LedgerMovesForward

=============================================================================
