-------------------------- MODULE ComponentsProofs --------------------------
(***************************************************************************)
(* Proofs about the components that MCComponents checks on small           *)
(* instances: the loop that makes correcting ledger entries, for columns   *)
(* of every width; the life of a creditor ID, for any number of            *)
(* reservations, accounts, transfers and days; its PIN, for any PINs and   *)
(* concurrent attempts; and its usage limits, for any limits, requests and *)
(* crashes.  AccountProofs is about the others.  At the end, what is       *)
(* proved about each component is carried over to their composition.       *)
(***************************************************************************)
EXTENDS MCComponents, AccountProofs, PrincipalCorrectionProofs,
        FiniteSetTheorems, WellFoundedInduction, TLAPS

-----------------------------------------------------------------------------
(* The loop of correcting entries                                          *)

LEMMA LoopInit == LoopStart => LoopInv
  <1> SUFFICES ASSUME LoopStart
               PROVE  LoopInv
    OBVIOUS
  <1>1. from \in Principal /\ previous_principal \in Principal
    BY DEF LoopStart
  <1>2. {e \in Corrections(from, previous_principal) : e.n <= 0} = {}
    BY <1>1, CorrectedEnds DEF Corrections
  <1> QED
    BY <1>1, <1>2, CorrectedEnds DEF LoopStart, LoopInv

LEMMA LoopStep ==
    ASSUME LoopInv, [LoopNext]_loop_vars
    PROVE  LoopInv'
  <1>1. CASE UNCHANGED loop_vars
    BY <1>1 DEF loop_vars, LoopInv
  <1>2. ASSUME MakeCorrectingEntry
        PROVE  LoopInv'
    <2> DEFINE x == from
               y == previous_principal
               k == ledger_last_entry_id
               count == CorrectionCount(y - x)
               safe == contain_principal_overflow(correction_amount)
    <2>1. /\ x \in Principal /\ y \in Principal
          /\ k \in 0 .. count
          /\ ledger_principal = CorrectedPrincipal(x, y, k)
          /\ correction_amount = y - ledger_principal
          /\ entries = {e \in Corrections(x, y) : e.n <= k}
      BY DEF LoopInv
    <2>2. count \in Nat
      BY <2>1, CorrectedEnds
    <2>3. k # count
      <3>1. x \in Int /\ y \in Int
        BY <2>1, DifferenceBounds
      <3>2. correction_amount # 0
        BY <1>2 DEF MakeCorrectingEntry, IsIncomplete
      <3> QED
        BY <2>1, <3>1, <3>2, CorrectedEnds
    <2>4. k + 1 \in 1 .. count /\ k \in Nat /\ (k + 1) - 1 = k
      BY <2>1, <2>2, <2>3
    <2>5. /\ CorrectedPrincipal(x, y, k) \in Principal
          /\ CorrectedPrincipal(x, y, k + 1) \in Principal
          /\ CorrectedPrincipal(x, y, k + 1) - CorrectedPrincipal(x, y, k)
               = safe
      <3>1. /\ CorrectedPrincipal(x, y, (k + 1) - 1) \in Principal
            /\ CorrectedPrincipal(x, y, k + 1) \in Principal
            /\ CorrectedPrincipal(x, y, k + 1)
                 - CorrectedPrincipal(x, y, (k + 1) - 1)
                 = contain_principal_overflow(
                     y - CorrectedPrincipal(x, y, (k + 1) - 1))
        BY <2>1, <2>4, CorrectedSteps
      <3> QED
        BY <2>1, <2>4, <3>1
    <2>6. /\ ledger_principal + safe = CorrectedPrincipal(x, y, k + 1)
          /\ correction_amount - safe = y - CorrectedPrincipal(x, y, k + 1)
      <3>1. /\ ledger_principal \in Int /\ y \in Int
            /\ CorrectedPrincipal(x, y, k + 1) \in Int
        BY <2>1, <2>5, DifferenceBounds
      <3> HIDE DEF safe, count
      <3> QED
        BY <2>1, <2>5, <3>1
    <2>7. {e \in Corrections(x, y) : e.n <= k + 1}
            = {e \in Corrections(x, y) : e.n <= k} \cup
              {[n |-> k + 1, acquired_amount |-> safe,
                principal |-> CorrectedPrincipal(x, y, k + 1)]}
      <3> DEFINE entry(j) ==
                   [n |-> j,
                    acquired_amount |-> CorrectedPrincipal(x, y, j)
                                          - CorrectedPrincipal(x, y, j - 1),
                    principal |-> CorrectedPrincipal(x, y, j)]
      <3>1. Corrections(x, y) = {entry(j) : j \in 1 .. count}
        BY DEF Corrections
      <3>2. entry(k + 1) = [n |-> k + 1, acquired_amount |-> safe,
                            principal |-> CorrectedPrincipal(x, y, k + 1)]
        BY <2>4, <2>5
      <3>3. \A j : entry(j).n = j
        OBVIOUS
      <3> HIDE DEF entry, safe, count
      <3>4. entry(k + 1) \in Corrections(x, y) /\ entry(k + 1).n <= k + 1
        BY <2>4, <3>1, <3>3
      <3>5. \A e \in Corrections(x, y) :
               e.n <= k + 1 => e.n <= k \/ e = entry(k + 1)
        BY <2>2, <2>4, <3>1, <3>3
      <3>6. \A e \in Corrections(x, y) : e.n <= k => e.n <= k + 1
        BY <2>2, <2>4, <3>1, <3>3
      <3> QED
        BY <3>2, <3>4, <3>5, <3>6
    <2>8. /\ correction_amount' = correction_amount - safe
          /\ ledger_principal' = ledger_principal + safe
          /\ ledger_last_entry_id' = k + 1
          /\ entries' = entries \cup
               {[n |-> k + 1, acquired_amount |-> safe,
                 principal |-> ledger_principal + safe]}
          /\ from' = x /\ previous_principal' = y
      BY <1>2 DEF MakeCorrectingEntry
    <2> HIDE DEF safe
    <2>9. entries' = {e \in Corrections(x, y) : e.n <= k + 1}
      BY <2>1, <2>6, <2>7, <2>8
    <2>10. k + 1 \in 0 .. count
      BY <2>2, <2>4
    <2> QED
      BY <2>1, <2>6, <2>8, <2>9, <2>10 DEF LoopInv
  <1> QED
    BY <1>1, <1>2 DEF LoopNext

\* After any number of rounds the loop has made the first entries of the
\* closed form Corrections, for columns of every width.
THEOREM LoopCorrect == LoopSpec => []LoopInv
  <1>1. LoopStart => LoopInv
    BY LoopInit
  <1>2. LoopInv /\ [LoopNext]_loop_vars => LoopInv'
    BY LoopStep
  <1> QED
    BY <1>1, <1>2, PTL DEF LoopSpec

-----------------------------------------------------------------------------
(* What the loop promises *)

\* The principals and the amounts of make_correcting_ledger_entry_if_-
\* necessary always fit in their columns.
THEOREM LoopDoesNotOverflow == LoopSpec => []NoOverflow
  <1>1. ASSUME LoopInv
        PROVE  NoOverflow
    <2> DEFINE x == from
               y == previous_principal
               count == CorrectionCount(y - x)
    <2>1. /\ x \in Principal /\ y \in Principal
          /\ ledger_last_entry_id \in 0 .. count
          /\ ledger_principal = CorrectedPrincipal(x, y, ledger_last_entry_id)
          /\ entries \subseteq Corrections(x, y)
      BY <1>1 DEF LoopInv
    <2>2. \A k \in 1 .. count :
             /\ CorrectedPrincipal(x, y, k) \in Principal
             /\ CorrectedPrincipal(x, y, k) - CorrectedPrincipal(x, y, k - 1)
                  \in -MAX_INT64 .. MAX_INT64
      BY <2>1, CorrectedSteps
    <2>3. ledger_principal \in Principal
      <3>1. CASE ledger_last_entry_id = 0
        BY <2>1, <3>1, CorrectedEnds
      <3>2. CASE ledger_last_entry_id # 0
        <4>1. count \in Nat
          BY <2>1, CorrectedEnds
        <4>2. ledger_last_entry_id \in 1 .. count
          BY <2>1, <3>2, <4>1
        <4> QED
          BY <2>1, <2>2, <4>2
      <3> QED
        BY <3>1, <3>2
    <2>4. \A e \in Corrections(x, y) :
             /\ e.principal \in Principal
             /\ e.acquired_amount \in -MAX_INT64 .. MAX_INT64
      BY <2>2 DEF Corrections
    <2> QED
      BY <2>1, <2>3, <2>4 DEF NoOverflow
  <1> QED
    BY <1>1, LoopCorrect, PTL

\* When the loop ends, the ledger is where it has to be, and the entries are
\* those with which AccountLedger computes.
THEOREM LoopArrives == LoopSpec => []ArrivesByCorrections
  <1>1. ASSUME LoopInv
        PROVE  ArrivesByCorrections
    <2> SUFFICES ASSUME correction_amount = 0
                 PROVE  /\ ledger_principal = previous_principal
                        /\ entries = Corrections(from, previous_principal)
      BY DEF ArrivesByCorrections
    <2> DEFINE x == from
               y == previous_principal
               k == ledger_last_entry_id
               count == CorrectionCount(y - x)
    <2>1. /\ x \in Principal /\ y \in Principal
          /\ k \in 0 .. count
          /\ ledger_principal = CorrectedPrincipal(x, y, k)
          /\ correction_amount = y - ledger_principal
          /\ entries = {e \in Corrections(x, y) : e.n <= k}
      BY <1>1 DEF LoopInv
    <2>2. count \in Nat /\ x \in Int /\ y \in Int
      BY <2>1, CorrectedEnds, DifferenceBounds
    <2>3. k = count
      <3>1. SUFFICES ASSUME k + 1 \in 1 .. count, (k + 1) - 1 = k
                     PROVE  FALSE
        BY <2>1, <2>2
      <3>2. y - CorrectedPrincipal(x, y, (k + 1) - 1) # 0
        BY <2>1, <3>1, CorrectedSteps
      <3> QED
        BY <2>1, <3>1, <3>2
    <2>4. ledger_principal = y
      BY <2>1, <2>3, CorrectedEnds
    <2>5. \A e \in Corrections(x, y) : e.n <= count
      BY <2>2 DEF Corrections
    <2> QED
      BY <2>1, <2>3, <2>4, <2>5
  <1> QED
    BY <1>1, LoopCorrect, PTL

\* The closed form of AccountLedger is right, and fits its columns.
THEOREM LoopRight == LoopSpec => []LoopIsRight
  BY LoopDoesNotOverflow, LoopArrives, PTL DEF LoopIsRight

-----------------------------------------------------------------------------
(* The life of a creditor ID                                               *)

\* LifecycleTypeOK without what it says of last_log_entry_id, and with what
\* makes LargestLogId a number.
LifecycleTypes ==
    /\ today \in Nat
    /\ creditor \in CreditorRow
    /\ scanned \in CreditorRow
    /\ has_pin_info \in BOOLEAN
    /\ accounts \subseteq Debtors
    /\ running_transfers \subseteq TransferUuids
    /\ log_entry_ids \subseteq [id: Nat, reservation: Nat]
    /\ \E bound \in Nat : \A e \in log_entry_ids : e.id <= bound
    /\ reservations \in Nat
    /\ activations \subseteq 1..reservations
    /\ creating \subseteq Debtors
    /\ initiating \subseteq TransferUuids
    /\ creditor.is_deactivated => creditor.is_activated
    /\ creditor.reservation_id <= reservations

\* The creditor's own entries are at the end of the log, behind a gap.
LogEndsWithOwnEntries ==
    \A e \in log_entry_ids :
        /\ e.reservation <= reservations
        /\ creditor.exists =>
               /\ e.id <= creditor.last_log_entry_id
               /\ e.reservation <= creditor.reservation_id
               /\ e.reservation < creditor.reservation_id =>
                      e.id < creditor.last_log_entry_id

LifecycleInv ==
    /\ LifecycleTypes
    /\ BelongingsNeedActiveCreditor
    /\ ActivatedByReservation
    /\ LogEndsWithOwnEntries
    /\ LogsDoNotMix

\* The inductive invariant in two parts, which have their own lemmas.
OwnInv == LifecycleTypes /\ BelongingsNeedActiveCreditor /\ ActivatedByReservation
LogInv == LogEndsWithOwnEntries /\ LogsDoNotMix

-----------------------------------------------------------------------------
(* The largest of the IDs                                                  *)

LEMMA LargestExists ==
    ASSUME NEW S \in SUBSET Nat, S # {}, NEW bound \in Nat,
           \A i \in S : i <= bound
    PROVE  \E m \in S : \A i \in S : i <= m
  <1> DEFINE T == {n \in Nat : \E i \in S : n = bound - i}
  <1>1. T \in SUBSET Nat /\ T # {}
    <2>1. PICK i \in S : TRUE
      OBVIOUS
    <2>2. bound - i \in Nat
      BY <2>1
    <2> QED
      BY <2>1, <2>2
  <1>2. PICK n \in T : \A k \in T : n <= k
    <2> HIDE DEF T
    <2>1. PICK n \in T : \A k \in T : <<k, n>> \notin OpToRel(<, Nat)
      BY <1>1, WFMin, NatLessThanWellFounded, Zenon
    <2>2. \A k \in T : ~(k < n)
      BY <1>1, <2>1 DEF OpToRel
    <2>3. n \in Nat /\ \A k \in T : k \in Nat
      BY <1>1
    <2> QED
      BY <2>2, <2>3
  <1>3. PICK m \in S : n = bound - m
    BY <1>2
  <1>4. ASSUME NEW i \in S
        PROVE  i <= m
    <2>1. bound - i \in T
      OBVIOUS
    <2>2. bound - m <= bound - i
      BY <1>2, <1>3, <2>1
    <2> QED
      BY <2>2
  <1> QED
    BY <1>4

LEMMA LargestLogIdIsLargest ==
    ASSUME LifecycleTypes, log_entry_ids # {}
    PROVE  /\ LargestLogId \in Nat
           /\ \A e \in log_entry_ids : e.id <= LargestLogId
  <1> DEFINE ids == {e.id : e \in log_entry_ids}
  <1>1. PICK bound \in Nat : \A e \in log_entry_ids : e.id <= bound
    BY DEF LifecycleTypes
  <1>2. ids \in SUBSET Nat /\ ids # {}
    BY DEF LifecycleTypes
  <1>3. \A i \in ids : i <= bound
    BY <1>1
  <1> HIDE DEF ids
  <1>4. \E m \in ids : \A i \in ids : i <= m
    BY <1>1, <1>2, <1>3, LargestExists
  <1>5. \E m \in ids : \A e \in log_entry_ids : e.id <= m
    BY <1>4 DEF ids
  <1>6. /\ LargestLogId \in ids
        /\ \A e \in log_entry_ids : e.id <= LargestLogId
    BY <1>5 DEF LargestLogId, ids
  <1> QED
    BY <1>2, <1>6

\* The new log starts behind all entries, and not immediately behind them.
LEMMA FirstIsBehind ==
    ASSUME LifecycleTypes
    PROVE  /\ FirstLogEntryId \in Nat
           /\ \A e \in log_entry_ids : e.id < FirstLogEntryId
  <1>1. CASE log_entry_ids = {}
    BY <1>1 DEF FirstLogEntryId
  <1>2. CASE log_entry_ids # {}
    <2>1. \A e \in log_entry_ids : e.id \in Nat
      BY DEF LifecycleTypes
    <2> QED
      BY <1>2, <2>1, LargestLogIdIsLargest DEF FirstLogEntryId
  <1> QED
    BY <1>1, <1>2

-----------------------------------------------------------------------------
LEMMA NoCreditorIsRow ==
    /\ NoCreditor \in CreditorRow
    /\ NoCreditor.is_deactivated = FALSE /\ NoCreditor.is_activated = FALSE
    /\ NoCreditor.reservation_id = 0 /\ NoCreditor.exists = FALSE
  BY DEF NoCreditor, CreditorRow

LEMMA LifecycleInitInv == LifecycleInit => LifecycleInv
  <1> SUFFICES ASSUME LifecycleInit
               PROVE  LifecycleInv
    OBVIOUS
  <1>2. LifecycleTypes
    <2>1. \E bound \in Nat : \A e \in log_entry_ids : e.id <= bound
      <3>1. 0 \in Nat /\ \A e \in log_entry_ids : e.id <= 0
        BY DEF LifecycleInit
      <3> QED
        BY <3>1
    <2>2. creditor.is_deactivated => creditor.is_activated
      BY NoCreditorIsRow DEF LifecycleInit
    <2>3. creditor.reservation_id <= reservations
      BY NoCreditorIsRow DEF LifecycleInit
    <2> QED
      BY <2>1, <2>2, <2>3, NoCreditorIsRow DEF LifecycleInit, LifecycleTypes
  <1>3. /\ BelongingsNeedActiveCreditor /\ ActivatedByReservation
        /\ LogEndsWithOwnEntries /\ LogsDoNotMix
    BY DEF LifecycleInit, NoCreditor, BelongingsNeedActiveCreditor, IsActive,
           ActivatedByReservation, LogEndsWithOwnEntries, LogsDoNotMix
  <1> QED
    BY <1>2, <1>3 DEF LifecycleInv

\* Steps that leave the creditor's row alone, and add nothing to the log.
LEMMA KeepsLog ==
    ASSUME LifecycleInv, creditor' = creditor, reservations' = reservations,
           log_entry_ids' \subseteq log_entry_ids
    PROVE  LogInv'
  BY DEF LifecycleInv, LogInv, LogEndsWithOwnEntries, LogsDoNotMix

LEMMA ReserveInv == LifecycleInv /\ reserve_creditor => LifecycleInv'
  <1> SUFFICES ASSUME LifecycleInv, reserve_creditor
               PROVE  LifecycleInv'
    OBVIOUS
  <1>1. /\ FirstLogEntryId \in Nat
        /\ \A e \in log_entry_ids : e.id < FirstLogEntryId
    BY FirstIsBehind DEF LifecycleInv
  <1>2. LifecycleTypes'
    <2>0. reservations \in Nat /\ today \in Nat
      BY DEF LifecycleInv, LifecycleTypes
    <2>1. /\ creditor' \in CreditorRow
          /\ creditor'.reservation_id = reservations + 1
          /\ creditor'.is_deactivated = FALSE
      BY <1>1, <2>0 DEF reserve_creditor, CreditorRow
    <2>2. 1..reservations \subseteq 1..reservations'
      BY DEF LifecycleInv, LifecycleTypes, reserve_creditor
    <2> QED
      BY <2>1, <2>2 DEF LifecycleInv, LifecycleTypes, reserve_creditor
  <1>3. BelongingsNeedActiveCreditor' /\ ActivatedByReservation'
    BY DEF LifecycleInv, BelongingsNeedActiveCreditor, ActivatedByReservation,
           reserve_creditor, IsActive
  <1>4. LogEndsWithOwnEntries'
    <2> SUFFICES ASSUME NEW e \in log_entry_ids
                 PROVE  /\ e.reservation <= reservations'
                        /\ e.id <= creditor'.last_log_entry_id
                        /\ e.reservation <= creditor'.reservation_id
                        /\ e.id < creditor'.last_log_entry_id
      BY DEF LogEndsWithOwnEntries, reserve_creditor
    <2>1. e.id \in Nat /\ e.reservation \in Nat /\ reservations \in Nat
      BY DEF LifecycleInv, LifecycleTypes
    <2>2. e.reservation <= reservations
      BY DEF LifecycleInv, LogEndsWithOwnEntries
    <2>3. /\ creditor'.last_log_entry_id = FirstLogEntryId
          /\ creditor'.reservation_id = reservations + 1
          /\ reservations' = reservations + 1
      BY DEF reserve_creditor
    <2> QED
      BY <1>1, <2>1, <2>2, <2>3
  <1>5. LogsDoNotMix'
    BY DEF LifecycleInv, LogsDoNotMix, reserve_creditor
  <1> QED
    BY <1>2, <1>3, <1>4, <1>5 DEF LifecycleInv

LEMMA ActivateInv ==
    ASSUME LifecycleInv, NEW id \in 1..MaxReservations, activate_creditor(id)
    PROVE  LifecycleInv'
  <1> USE DEF activate_creditor
  <1>1. LifecycleTypes'
    BY DEF LifecycleInv, LifecycleTypes, CreditorRow, IsValidReservation
  <1>2. BelongingsNeedActiveCreditor' /\ ActivatedByReservation'
    BY DEF LifecycleInv, LifecycleTypes, CreditorRow, BelongingsNeedActiveCreditor,
           ActivatedByReservation, IsActive, IsValidReservation
  <1>3. LogEndsWithOwnEntries' /\ LogsDoNotMix'
    BY DEF LifecycleInv, LifecycleTypes, CreditorRow, LogEndsWithOwnEntries, LogsDoNotMix
  <1> QED
    BY <1>1, <1>2, <1>3 DEF LifecycleInv

LEMMA DeactivateInv == LifecycleInv /\ deactivate_creditor => LifecycleInv'
  <1> SUFFICES ASSUME LifecycleInv, deactivate_creditor
               PROVE  LifecycleInv'
    OBVIOUS
  <1> USE DEF deactivate_creditor
  <1>1. LifecycleTypes'
    BY DEF LifecycleInv, LifecycleTypes, CreditorRow, IsActive
  <1>2. BelongingsNeedActiveCreditor' /\ ActivatedByReservation'
    BY DEF LifecycleInv, LifecycleTypes, CreditorRow, BelongingsNeedActiveCreditor,
           ActivatedByReservation, IsActive, IsRowLockFree
  <1>3. LogEndsWithOwnEntries' /\ LogsDoNotMix'
    BY DEF LifecycleInv, LifecycleTypes, CreditorRow, LogEndsWithOwnEntries, LogsDoNotMix
  <1> QED
    BY <1>1, <1>2, <1>3 DEF LifecycleInv

\* The row of the new entry has the next ID, behind all others.
LEMMA AddLogEntryInv == LifecycleInv /\ AddLogEntry => LifecycleInv'
  <1> SUFFICES ASSUME LifecycleInv, AddLogEntry
               PROVE  LifecycleInv'
    OBVIOUS
  <1> DEFINE new == [id |-> creditor.last_log_entry_id + 1,
                     reservation |-> creditor.reservation_id]
  <1>1. /\ creditor.last_log_entry_id \in Nat /\ creditor.reservation_id \in Nat
        /\ creditor.reservation_id <= reservations /\ reservations \in Nat
        /\ \A e \in log_entry_ids : e.id \in Nat /\ e.reservation \in Nat
    BY DEF LifecycleInv, LifecycleTypes, CreditorRow
  <1>2. /\ log_entry_ids' = log_entry_ids \cup {new}
        /\ creditor' = [creditor EXCEPT !.last_log_entry_id = @ + 1]
        /\ creditor.exists /\ reservations' = reservations
    BY DEF AddLogEntry
  <1>3. /\ creditor' \in CreditorRow
        /\ creditor'.exists
        /\ creditor'.is_activated = creditor.is_activated
        /\ creditor'.is_deactivated = creditor.is_deactivated
        /\ creditor'.reservation_id = creditor.reservation_id
        /\ creditor'.last_log_entry_id = creditor.last_log_entry_id + 1
    BY <1>1, <1>2 DEF LifecycleInv, LifecycleTypes, CreditorRow
  <1>4. LifecycleTypes'
    <2>1. log_entry_ids' \subseteq [id: Nat, reservation: Nat]
      BY <1>1, <1>2 DEF LifecycleInv, LifecycleTypes
    <2>2. \E bound \in Nat : \A e \in log_entry_ids' : e.id <= bound
      <3>1. \A e \in log_entry_ids : e.id <= creditor.last_log_entry_id
        BY <1>2 DEF LifecycleInv, LogEndsWithOwnEntries
      <3>2. \A e \in log_entry_ids' : e.id <= creditor.last_log_entry_id + 1
        BY <1>1, <1>2, <3>1
      <3> QED
        BY <1>1, <3>2
    <2> QED
      BY <1>1, <1>3, <2>1, <2>2 DEF LifecycleInv, LifecycleTypes, AddLogEntry
  <1>5. BelongingsNeedActiveCreditor' /\ ActivatedByReservation'
    BY <1>2, <1>3 DEF LifecycleInv, BelongingsNeedActiveCreditor,
        ActivatedByReservation, IsActive, AddLogEntry
  <1>6. \A e \in log_entry_ids :
            /\ e.reservation <= creditor.reservation_id
            /\ e.id <= creditor.last_log_entry_id
            /\ e.reservation < creditor.reservation_id =>
                   e.id < creditor.last_log_entry_id
    BY <1>2 DEF LifecycleInv, LogEndsWithOwnEntries
  <1>7. LogEndsWithOwnEntries'
    BY <1>1, <1>2, <1>3, <1>6 DEF LogEndsWithOwnEntries
  <1>8. LogsDoNotMix'
    BY <1>1, <1>2, <1>6 DEF LifecycleInv, LogsDoNotMix
  <1> QED
    BY <1>4, <1>5, <1>7, <1>8 DEF LifecycleInv

LEMMA DeleteCreditorInv == LifecycleInv /\ DeleteCreditor => LifecycleInv'
  <1> SUFFICES ASSUME LifecycleInv, DeleteCreditor
               PROVE  LifecycleInv'
    OBVIOUS
  <1> USE DEF DeleteCreditor, NoCreditor
  <1>1. LifecycleTypes'
    <2> HIDE DEF NoCreditor
    <2>1. creditor' \in CreditorRow /\ scanned' \in CreditorRow
      BY NoCreditorIsRow
    <2>2. creditor'.is_deactivated => creditor'.is_activated
      BY NoCreditorIsRow
    <2>3. creditor'.reservation_id <= reservations'
      BY NoCreditorIsRow DEF LifecycleInv, LifecycleTypes
    <2> QED
      BY <2>1, <2>2, <2>3 DEF LifecycleInv, LifecycleTypes
  <1>2. BelongingsNeedActiveCreditor' /\ ActivatedByReservation'
    BY DEF LifecycleInv, BelongingsNeedActiveCreditor, ActivatedByReservation,
           IsActive, IsRowLockFree
  <1>3. LogEndsWithOwnEntries' /\ LogsDoNotMix'
    BY DEF LifecycleInv, LogEndsWithOwnEntries, LogsDoNotMix
  <1> QED
    BY <1>1, <1>2, <1>3 DEF LifecycleInv

\* The operations of an active creditor on its accounts and transfers.
LEMMA BelongingsInv ==
    ASSUME LifecycleInv,
           \/ \E d \in Debtors :
                 BeginAccount(d) \/ InsertAccount(d) \/ delete_account(d)
           \/ \E t \in TransferUuids :
                 BeginTransfer(t) \/ InsertTransfer(t) \/ delete_transfer(t)
    PROVE  LifecycleInv'
  <1> USE DEF BeginAccount, InsertAccount, delete_account, BeginTransfer,
              InsertTransfer, delete_transfer
  <1>1. LifecycleTypes'
    BY DEF LifecycleInv, LifecycleTypes
  <1>2. BelongingsNeedActiveCreditor' /\ ActivatedByReservation'
    BY DEF LifecycleInv, BelongingsNeedActiveCreditor, ActivatedByReservation, IsActive
  <1>3. LogInv'
    BY KeepsLog
  <1> QED
    BY <1>1, <1>2, <1>3 DEF LifecycleInv, LogInv

\* The calendar, the requests for activation, and the scanners.
LEMMA LifecycleOtherInv ==
    ASSUME LifecycleInv,
           \/ NextDay
           \/ \E id \in 1..MaxReservations : RequestActivation(id)
           \/ DeleteLogEntries
           \/ ScanCreditor
           \/ UNCHANGED lifecycle_vars
    PROVE  LifecycleInv'
  <1> USE DEF NextDay, RequestActivation, DeleteLogEntries, ScanCreditor, lifecycle_vars
  <1>1. LifecycleTypes'
    <2>1. log_entry_ids' \subseteq log_entry_ids
      OBVIOUS
    <2>2. \E bound \in Nat : \A e \in log_entry_ids' : e.id <= bound
      BY <2>1 DEF LifecycleInv, LifecycleTypes
    <2>3. activations' \subseteq 1..reservations'
      BY DEF LifecycleInv, LifecycleTypes
    <2>4. /\ creditor' \in CreditorRow /\ scanned' \in CreditorRow /\ today' \in Nat
          /\ creditor' = creditor /\ reservations' = reservations
      BY DEF LifecycleInv, LifecycleTypes
    <2> QED
      BY <2>1, <2>2, <2>3, <2>4 DEF LifecycleInv, LifecycleTypes
  <1>2. BelongingsNeedActiveCreditor' /\ ActivatedByReservation'
    BY DEF LifecycleInv, BelongingsNeedActiveCreditor, ActivatedByReservation, IsActive
  <1>3. LogInv'
    BY KeepsLog
  <1> QED
    BY <1>1, <1>2, <1>3 DEF LifecycleInv, LogInv

LEMMA LifecycleNextInv == LifecycleInv /\ [LifecycleNext]_lifecycle_vars => LifecycleInv'
  BY ReserveInv, ActivateInv, DeactivateInv, AddLogEntryInv, DeleteCreditorInv,
     BelongingsInv, LifecycleOtherInv
  DEF LifecycleNext, CreditorScanner

-----------------------------------------------------------------------------
\* Activations may be late and repeated, rows read long ago, entries left from
\* earlier reservations: LifecycleInv holds.
THEOREM LifecycleCorrect == LifecycleSpec => []LifecycleInv
  BY LifecycleInitInv, LifecycleNextInv, PTL DEF LifecycleSpec

\* The types, and: the log is never ahead of last_log_entry_id.
THEOREM LifecycleTypesCorrect == LifecycleSpec => []LifecycleTypeOK
  <1>1. LifecycleInv => LifecycleTypeOK
    BY DEF LifecycleInv, LifecycleTypes, LogEndsWithOwnEntries, LifecycleTypeOK
  <1> QED
    BY <1>1, LifecycleCorrect, PTL

\* A late activation never makes a creditor active that has been reserved
\* again, and nothing with a lock on the creditor's row survives deactivation.
THEOREM ActivationCorrect == LifecycleSpec => []ActiveIsLegitimate
  <1>1. LifecycleInv => ActiveIsLegitimate
    BY DEF LifecycleInv, ActiveIsLegitimate
  <1> QED
    BY <1>1, LifecycleCorrect, PTL

\* The entries of a creditor never follow those of an earlier one that had
\* the same ID.
THEOREM LogsCorrect == LifecycleSpec => []LogsDoNotMix
  <1>1. LifecycleInv => LogsDoNotMix
    BY DEF LifecycleInv
  <1> QED
    BY <1>1, LifecycleCorrect, PTL

\* The scanner deletes no active creditor, however old what it has read.
THEOREM KeptCorrect == LifecycleSpec => CreditorsAreKept
  <1> DEFINE Kept ==
        creditor.exists /\ ~creditor'.exists =>
          IF creditor.is_deactivated
            THEN creditor.deactivation_date + DEACTIVATED_RETENTION < today
            ELSE /\ ~creditor.is_activated
                 /\ creditor.created_at + INACTIVE_RETENTION < today
  <1>1. LifecycleInv /\ [LifecycleNext]_lifecycle_vars => [Kept]_lifecycle_vars
    <2> SUFFICES ASSUME LifecycleInv, LifecycleNext, creditor.exists, ~creditor'.exists
                 PROVE  Kept
      OBVIOUS
    <2>1. creditor \in CreditorRow /\ (creditor.is_deactivated => creditor.is_activated)
      BY DEF LifecycleInv, LifecycleTypes
    <2>2. DeleteCreditor
      BY <2>1 DEF LifecycleNext, CreditorScanner, CreditorRow, NextDay,
         reserve_creditor, RequestActivation, activate_creditor,
         deactivate_creditor, BeginAccount, InsertAccount, delete_account,
         AddLogEntry, DeleteLogEntries, BeginTransfer, InsertTransfer,
         delete_transfer, ScanCreditor, IsActive, IsValidReservation
    <2> QED
      BY <2>1, <2>2 DEF DeleteCreditor, IsFoundAgain, not_activated_for_long_time,
         deactivated_long_time_ago
  <1> QED
    BY <1>1, LifecycleCorrect, PTL DEF LifecycleSpec, CreditorsAreKept

-----------------------------------------------------------------------------
(* The PIN                                                                 *)

\* The check constraints of one row.
IsSoundRow(row) ==
    /\ row \in PinInfoRow
    /\ row.status = "on" => row.pin # NoPin
    /\ row.pin_length = IF row.pin = NoPin THEN 0 ELSE PinLength[row.pin]

\* Every session has read a row that was sound.
PinInv ==
    /\ PinTypeOK
    /\ \A s \in PinSessions : IsSoundRow(pin_session[s].row)

\* What _block makes of a row, and all that a failed attempt does otherwise.
IsCountedRow(old, new) ==
    /\ new \in PinInfoRow
    /\ new.latest_update_id = old.latest_update_id
    /\ \/ new.status = old.status /\ new.pin = old.pin /\ new.pin_length = old.pin_length
       \/ new.status = "blocked" /\ new.pin = NoPin /\ new.pin_length = 0

LEMMA FirstPinInfoIsSound == IsSoundRow(FirstPinInfo)
  BY DEF IsSoundRow, FirstPinInfo, PinInfoRow, StatusNames

LEMMA BlockCounts ==
    ASSUME NEW row \in PinInfoRow, pin_day \in Nat
    PROVE  IsCountedRow(row, _block(row))
  BY DEF _block, IsCountedRow, PinInfoRow, StatusNames

\* Rows are counted one after the other.
LEMMA CountedTwice ==
    ASSUME NEW a, NEW b, NEW c, IsCountedRow(a, b), IsCountedRow(b, c)
    PROVE  IsCountedRow(a, c)
  BY DEF IsCountedRow

LEMMA IncrementCfaCounts ==
    ASSUME NEW row \in PinInfoRow, pin_day \in Nat
    PROVE  IsCountedRow(row, _increment_cfa(row))
  <1> DEFINE counted == [row EXCEPT !.cfa = @ + 1]
  <1>1. counted \in PinInfoRow /\ IsCountedRow(row, counted)
    BY DEF IsCountedRow, PinInfoRow
  <1>2. _increment_cfa(row) \in {counted, _block(counted)}
    BY DEF _increment_cfa
  <1> HIDE DEF counted
  <1>3. IsCountedRow(counted, _block(counted))
    BY <1>1, BlockCounts
  <1> QED
    BY <1>1, <1>2, <1>3, CountedTwice

LEMMA IncrementAfaCounts ==
    ASSUME NEW row \in PinInfoRow, pin_day \in Nat
    PROVE  IsCountedRow(row, _increment_afa(row))
  <1> DEFINE reset == _reset_afa_if_necessary(row)
             counted == [reset EXCEPT !.afa = @ + 1]
  <1>1. reset \in PinInfoRow /\ IsCountedRow(row, reset)
    BY DEF IsCountedRow, PinInfoRow, _reset_afa_if_necessary
  <1> HIDE DEF reset
  <1>2. counted \in PinInfoRow /\ IsCountedRow(reset, counted)
    BY <1>1 DEF IsCountedRow, PinInfoRow
  <1>3. _increment_afa(row) \in {counted, _block(counted)}
    BY DEF _increment_afa, reset
  <1> HIDE DEF counted
  <1>4. IsCountedRow(counted, _block(counted))
    BY <1>2, BlockCounts
  <1> QED
    BY <1>1, <1>2, <1>3, <1>4, CountedTwice

LEMMA TryValueCounts ==
    ASSUME NEW row \in PinInfoRow, NEW value, pin_day \in Nat
    PROVE  IsCountedRow(row, try_value(row, value))
  <1>1. IsCountedRow(row, _register_failed_attempt(row))
    <2>1. IsCountedRow(row, _increment_cfa(row)) /\ _increment_cfa(row) \in PinInfoRow
      BY IncrementCfaCounts DEF IsCountedRow
    <2>2. IsCountedRow(_increment_cfa(row), _increment_afa(_increment_cfa(row)))
      BY <2>1, IncrementAfaCounts
    <2> QED
      BY <2>1, <2>2, CountedTwice DEF _register_failed_attempt
  <1>2. IsCountedRow(row, [row EXCEPT !.cfa = 0]) /\ IsCountedRow(row, row)
    BY DEF IsCountedRow, PinInfoRow
  <1> QED
    BY <1>1, <1>2 DEF try_value

\* A failed attempt blocks only a row that has a PIN.
LEMMA BlockedHadPin ==
    ASSUME NEW row, NEW value, IsSoundRow(row),
           try_value(row, value).status # row.status \/ try_value(row, value).pin # row.pin
    PROVE  row.status = "on" /\ row.pin # NoPin
  BY DEF try_value, IsFailedAttempt, IsRequired, IsBlocked, IsAccepted, IsSoundRow,
         PinInfoRow, StatusNames

\* The columns that a session writes fit the row, whatever the row has become
\* since the session has read it.
LEMMA WrittenIsSound ==
    ASSUME NEW row, NEW value, IsSoundRow(row), IsSoundRow(pin_info), pin_day \in Nat
    PROVE  /\ IsSoundRow(Saved(row, value))
           /\ Saved(row, value).status \in {pin_info.status, "blocked"}
           /\ row = pin_info => Saved(row, value) = try_value(row, value)
  <1> DEFINE new == try_value(row, value)
  <1>1. IsCountedRow(row, new) /\ row \in PinInfoRow /\ pin_info \in PinInfoRow
    BY TryValueCounts DEF IsSoundRow
  <1>2. new.status # row.status \/ new.pin # row.pin => row.status = "on" /\ row.pin # NoPin
    BY BlockedHadPin
  <1> HIDE DEF new
  <1>3. /\ Saved(row, value) \in PinInfoRow
        /\ Saved(row, value).status = IF new.status = row.status THEN pin_info.status
                                      ELSE new.status
        /\ Saved(row, value).pin = IF new.pin = row.pin THEN pin_info.pin ELSE new.pin
        /\ Saved(row, value).pin_length =
               IF new.pin_length = row.pin_length THEN pin_info.pin_length
               ELSE new.pin_length
    BY <1>1 DEF Saved, Written, new, IsCountedRow, PinInfoRow
  <1>4. row.pin # NoPin => row.pin_length # 0
    BY PinInfoAssumption DEF IsSoundRow, PinInfoRow
  <1>5. row = pin_info => Saved(row, value) = new
    BY <1>1 DEF Saved, Written, new, IsCountedRow, PinInfoRow
  <1> QED
    BY <1>1, <1>2, <1>3, <1>4, <1>5 DEF IsSoundRow, IsCountedRow, new

LEMMA SetValueIsSound ==
    ASSUME NEW row \in PinInfoRow, NEW status \in StatusNames, NEW new_pin \in Values,
           IsValidPinInfo(status, new_pin)
    PROVE  IsSoundRow([set_value(row, new_pin) EXCEPT
                          !.status = status, !.latest_update_id = @ + 1])
  <1> DEFINE length == IF new_pin = NoPin THEN 0 ELSE PinLength[new_pin]
             set == set_value(row, new_pin)
             new == [set EXCEPT !.status = status, !.latest_update_id = @ + 1]
  <1>1. length \in Nat
    BY PinInfoAssumption DEF Values
  <1>2. set \in PinInfoRow /\ set.pin = new_pin /\ set.pin_length = length
    BY <1>1, Zenon DEF set_value, PinInfoRow, Values
  <1> HIDE DEF set, length
  <1>3. set.latest_update_id + 1 \in Nat
    BY <1>2 DEF PinInfoRow
  <1>4. /\ new \in PinInfoRow /\ new.status = status
        /\ new.pin = set.pin /\ new.pin_length = set.pin_length
    BY <1>2, <1>3, Zenon DEF PinInfoRow
  <1> HIDE DEF new
  <1>5. IsSoundRow(new)
    BY <1>2, <1>4 DEF IsSoundRow, IsValidPinInfo, length
  <1> QED
    BY <1>5 DEF new, set

LEMMA PinInitInv == PinInit => PinInv
  <1> SUFFICES ASSUME PinInit
               PROVE  PinInv
    OBVIOUS
  <1>1. FirstPinInfo \in PinInfoRow /\ IsSoundRow(FirstPinInfo)
    BY FirstPinInfoIsSound DEF IsSoundRow
  <1>2. pin_session \in [PinSessions -> [busy: BOOLEAN, row: PinInfoRow, value: Values]]
    BY <1>1 DEF PinInit, NoSession, Values
  <1>3. \A s \in PinSessions : pin_session[s].row = FirstPinInfo
    BY DEF PinInit, NoSession
  <1> QED
    BY <1>1, <1>2, <1>3 DEF PinInit, PinInv, PinTypeOK, IsSoundRow

\* What the sessions have read stays sound.
LEMMA EndedVerification ==
    ASSUME PinInv, NEW s \in PinSessions,
           pin_session' = [pin_session EXCEPT ![s] = NoSession]
    PROVE  /\ pin_session' \in
                  [PinSessions -> [busy: BOOLEAN, row: PinInfoRow, value: Values]]
           /\ \A t \in PinSessions : IsSoundRow(pin_session'[t].row)
  <1>1. NoSession \in [busy: BOOLEAN, row: PinInfoRow, value: Values]
    BY FirstPinInfoIsSound DEF NoSession, IsSoundRow, Values
  <1>2. NoSession.row = FirstPinInfo
    BY DEF NoSession
  <1> QED
    BY <1>1, <1>2, FirstPinInfoIsSound DEF PinInv, PinTypeOK

\* The row, and what counts the failures, after an attempt.
LEMMA AttemptInv ==
    ASSUME PinInv, NEW row, NEW value, IsSoundRow(row),
           pin_info' = Saved(row, value), CountAttempt(row, value),
           UNCHANGED pin_day, resets' \in Nat, overlapped' \in BOOLEAN,
           pin_session' \in
               [PinSessions -> [busy: BOOLEAN, row: PinInfoRow, value: Values]],
           \A t \in PinSessions : IsSoundRow(pin_session'[t].row)
    PROVE  PinInv'
  <1>1. IsSoundRow(pin_info) /\ pin_day \in Nat /\ failures \in Nat
    BY DEF PinInv, PinTypeOK, IsSoundRow
  <1>2. IsSoundRow(pin_info')
    BY <1>1, WrittenIsSound
  <1>3. failures' \in Nat
    BY <1>1 DEF CountAttempt
  <1> QED
    BY <1>1, <1>2, <1>3 DEF PinInv, PinTypeOK, IsSoundRow

LEMMA PinNextInv == PinInv /\ [PinNext]_pin_vars => PinInv'
  <1> SUFFICES ASSUME PinInv, [PinNext]_pin_vars
               PROVE  PinInv'
    OBVIOUS
  <1>1. ASSUME NEW s \in PinSessions, NEW value \in Values, BeginVerification(s, value)
        PROVE  PinInv'
    <2>1. [busy |-> TRUE, row |-> pin_info, value |-> value]
              \in [busy: BOOLEAN, row: PinInfoRow, value: Values]
      BY DEF PinInv, PinTypeOK
    <2>2. \A t \in PinSessions : pin_session'[t].row \in {pin_info, pin_session[t].row}
      BY <1>1 DEF BeginVerification, PinInv, PinTypeOK
    <2>3. IsSoundRow(pin_info)
      BY DEF PinInv, PinTypeOK, IsSoundRow
    <2>4. \A t \in PinSessions : IsSoundRow(pin_session'[t].row)
      BY <2>2, <2>3 DEF PinInv
    <2> QED
      BY <1>1, <2>1, <2>4 DEF BeginVerification, PinInv, PinTypeOK
  <1>2. ASSUME NEW s \in PinSessions, verify_pin_value(s)
        PROVE  PinInv'
    <2>1. IsSoundRow(pin_session[s].row)
      BY DEF PinInv
    <2>2. overlapped' \in BOOLEAN /\ resets' \in Nat
      BY <1>2 DEF verify_pin_value, PinInv, PinTypeOK
    <2> QED
      BY <1>2, <2>1, <2>2, EndedVerification, AttemptInv DEF verify_pin_value
  <1>3. ASSUME NEW s \in PinSessions, AbortVerification(s)
        PROVE  PinInv'
    BY <1>3, EndedVerification DEF AbortVerification, PinInv, PinTypeOK
  <1>4. ASSUME NEW status \in StatusNames, NEW new_pin \in Values, NEW value \in Values,
               NEW pin_reset_mode \in BOOLEAN,
               update_pin_info(status, new_pin, pin_reset_mode, value)
        PROVE  PinInv'
    <2>1. /\ pin_info \in PinInfoRow /\ IsSoundRow(pin_info) /\ pin_day \in Nat
          /\ resets' \in Nat
      BY <1>4 DEF PinInv, PinTypeOK, IsSoundRow, update_pin_info
    <2>2. CASE pin_reset_mode \/ IsAccepted(pin_info, value)
      <3> DEFINE row == IF pin_reset_mode THEN pin_info ELSE try_value(pin_info, value)
      <3>1. row \in PinInfoRow
        BY <2>1, TryValueCounts DEF IsCountedRow
      <3>2. /\ pin_info' = [set_value(row, new_pin) EXCEPT
                               !.status = status, !.latest_update_id = @ + 1]
            /\ failures' = 0
            /\ IsValidPinInfo(status, new_pin)
            /\ UNCHANGED <<pin_day, pin_session, overlapped>>
        BY <1>4, <2>2 DEF update_pin_info
      <3> HIDE DEF row
      <3>3. IsSoundRow(pin_info')
        BY <3>1, <3>2, SetValueIsSound
      <3> QED
        BY <2>1, <3>2, <3>3 DEF PinInv, PinTypeOK, IsSoundRow
    <2>3. CASE ~(pin_reset_mode \/ IsAccepted(pin_info, value))
      <3>1. /\ pin_info' = Saved(pin_info, value) /\ CountAttempt(pin_info, value)
            /\ UNCHANGED <<pin_day, pin_session, overlapped>>
        BY <1>4, <2>3 DEF update_pin_info
      <3>2. /\ pin_session' \in
                   [PinSessions -> [busy: BOOLEAN, row: PinInfoRow, value: Values]]
            /\ \A t \in PinSessions : IsSoundRow(pin_session'[t].row)
            /\ overlapped' \in BOOLEAN
        BY <3>1 DEF PinInv, PinTypeOK
      <3> QED
        BY <2>1, <3>1, <3>2, AttemptInv
    <2> QED
      BY <2>2, <2>3
  <1>5. CASE NextPinDay \/ UNCHANGED pin_vars
    BY <1>5 DEF NextPinDay, pin_vars, PinInv, PinTypeOK
  <1> QED
    BY <1>1, <1>2, <1>3, <1>4, <1>5 DEF PinNext, ChangePin

\* The check constraints hold, and a PIN that is "on" is there, whatever old
\* rows the sessions have read.
THEOREM PinCorrect == PinSpec => []PinInv
  BY PinInitInv, PinNextInv, PTL DEF PinSpec

\* Nothing but PIN reset mode opens a blocked PIN.
THEOREM BlockedCorrect == PinSpec => BlockedStaysBlocked
  <1> DEFINE Stays ==
        pin_info.status = "blocked" /\ pin_info'.status # "blocked" => resets' > resets
  <1>1. PinInv /\ [PinNext]_pin_vars => [Stays]_pin_vars
    <2> SUFFICES ASSUME PinInv, PinNext, pin_info.status = "blocked",
                        pin_info'.status # "blocked"
                 PROVE  resets' > resets
      OBVIOUS
    <2>1. IsSoundRow(pin_info) /\ pin_day \in Nat /\ resets \in Nat
      BY DEF PinInv, PinTypeOK, IsSoundRow
    <2>2. ASSUME NEW s \in PinSessions, verify_pin_value(s)
          PROVE  FALSE
      BY <2>1, <2>2, WrittenIsSound DEF verify_pin_value, PinInv
    <2>3. PICK status \in StatusNames, new_pin \in Values, value \in Values,
               pin_reset_mode \in BOOLEAN :
                   update_pin_info(status, new_pin, pin_reset_mode, value)
      BY <2>2 DEF PinNext, ChangePin, NextPinDay, BeginVerification, AbortVerification
    <2>4. CASE pin_reset_mode
      BY <2>1, <2>3, <2>4 DEF update_pin_info
    <2>5. CASE ~pin_reset_mode
      <3>1. ~IsAccepted(pin_info, value)
        BY DEF IsAccepted, IsBlocked
      <3>2. pin_info' = Saved(pin_info, value)
        BY <2>3, <2>5, <3>1 DEF update_pin_info
      <3> QED
        BY <2>1, <3>2, WrittenIsSound
    <2> QED
      BY <2>4, <2>5
  <1> QED
    BY <1>1, PinCorrect, PTL DEF PinSpec, BlockedStaysBlocked

-----------------------------------------------------------------------------
(* The failures, as long as attempts do not overlap.                       *)

\* The wrong PINs that have been entered from one day to another.
Failed(attempts, first, last) ==
    {f \in attempts : first <= f.day /\ f.day <= last}

\* The accumulated failures of a row are those since afa_last_reset, and as
\* many as the longest limit allows may be left from the period before it.
IsAccumulated(attempts, afa, since, current, limit) ==
    /\ IsFiniteSet(attempts)
    /\ attempts \subseteq [n: Nat, day: Nat]
    /\ since <= current
    /\ \A f \in attempts : f.day <= current /\ f.day < since + PIN_RESET_DAYS
    /\ afa <= limit - 1
    /\ Cardinality(Failed(attempts, since, since + PIN_RESET_DAYS - 1)) <= afa
    /\ Cardinality(Failed(attempts, since - PIN_RESET_DAYS, since - 1))
           <= limit - 1
    /\ \A d \in Nat :
           Cardinality(Failed(attempts, d, d + PIN_RESET_DAYS - 1))
               <= 2 * (limit - 1)

\* The ghosts follow the counters of the row.
CountersInv ==
    /\ failures <= pin_info.cfa
    /\ pin_info.status = "on" => pin_info.cfa < _get_max_cfa(pin_info)
    /\ Pins # {} => IsAccumulated(failed_attempts, pin_info.afa,
                                  pin_info.afa_last_reset, pin_day, LongestLimit)

FailuresInv == ~overlapped => CountersInv

\* A PIN has at least three attempts, and there is a longest limit.
LEMMA LongestLimitType ==
    ASSUME Pins # {}
    PROVE  /\ LongestLimit \in Nat \ {0}
           /\ \A p \in Pins : MaxAfa[PinLength[p]] <= LongestLimit
  <1> DEFINE limits == {MaxAfa[PinLength[p]] : p \in Pins}
             bound == MaxAfa[4] + MaxAfa[5] + MaxAfa[6] + MaxAfa[7] + MaxAfa[8]
                        + MaxAfa[9] + MaxAfa[10]
  <1>1. \A n \in 4..10 : MaxAfa[n] \in Nat /\ MaxAfa[n] > 0
    BY PinInfoAssumption
  <1>2. bound \in Nat /\ \A n \in 4..10 : MaxAfa[n] <= bound
    <2>1. /\ MaxAfa[4] \in Nat /\ MaxAfa[5] \in Nat /\ MaxAfa[6] \in Nat
          /\ MaxAfa[7] \in Nat /\ MaxAfa[8] \in Nat /\ MaxAfa[9] \in Nat
          /\ MaxAfa[10] \in Nat
      BY <1>1
    <2>2. /\ MaxAfa[4] <= bound /\ MaxAfa[5] <= bound /\ MaxAfa[6] <= bound
          /\ MaxAfa[7] <= bound /\ MaxAfa[8] <= bound /\ MaxAfa[9] <= bound
          /\ MaxAfa[10] <= bound /\ bound \in Nat
      BY <2>1
    <2>3. \A n \in 4..10 : n = 4 \/ n = 5 \/ n = 6 \/ n = 7 \/ n = 8 \/ n = 9 \/ n = 10
      OBVIOUS
    <2> HIDE DEF bound
    <2> QED
      BY <2>2, <2>3
  <1> HIDE DEF bound
  <1>3. /\ limits \in SUBSET Nat /\ limits # {}
        /\ \A m \in limits : m <= bound /\ m > 0
    BY <1>1, <1>2, PinInfoAssumption
  <1> HIDE DEF limits
  <1>4. \E m \in limits : \A i \in limits : i <= m
    BY <1>2, <1>3, LargestExists
  <1>5. \E m \in limits : \A p \in Pins : MaxAfa[PinLength[p]] <= m
    BY <1>4 DEF limits
  <1>6. LongestLimit \in limits /\ \A p \in Pins : MaxAfa[PinLength[p]] <= LongestLimit
    BY <1>5 DEF LongestLimit, limits
  <1>7. LongestLimit \in Nat \ {0}
    <2>1. \A m \in limits : m \in Nat \ {0}
      BY <1>3
    <2> QED
      BY <1>6, <2>1
  <1> QED
    BY <1>6, <1>7

\* What a failed attempt makes of a row that it does not block.
IsAddedTo(old, new) ==
    /\ new.status = old.status /\ new.pin_length = old.pin_length
    /\ new.cfa = old.cfa + 1 /\ new.cfa < _get_max_cfa(old)
    /\ new.afa < MaxAfa[old.pin_length]
    /\ IF old.afa_last_reset + PIN_RESET_DAYS <= pin_day
         THEN new.afa = 1 /\ new.afa_last_reset = pin_day
         ELSE new.afa = old.afa + 1 /\ new.afa_last_reset = old.afa_last_reset

IsBlockedToday(new) ==
    /\ new.status = "blocked" /\ new.afa = 0 /\ new.afa_last_reset = pin_day
    /\ new.cfa \in Nat

LEMMA BlockIsToday ==
    ASSUME NEW row \in PinInfoRow, pin_day \in Nat
    PROVE  /\ IsBlockedToday(_block(row))
           /\ _block(row).pin_length = 0
           /\ _block(row) \in PinInfoRow
  BY DEF IsBlockedToday, _block, PinInfoRow, StatusNames

\* A failed attempt is counted twice, and blocks the PIN at each of its limits.
LEMMA FailedRow ==
    ASSUME NEW row \in PinInfoRow, row.pin_length \in 0..10, pin_day \in Nat
    PROVE  \/ IsBlockedToday(_register_failed_attempt(row))
           \/ IsAddedTo(row, _register_failed_attempt(row))
  <1> DEFINE counted == [row EXCEPT !.cfa = @ + 1]
             first == _increment_cfa(row)
             reset == _reset_afa_if_necessary(first)
             second == [reset EXCEPT !.afa = @ + 1]
             new == _register_failed_attempt(row)
  <1>1. /\ counted \in PinInfoRow /\ counted.cfa = row.cfa + 1
        /\ counted.status = row.status /\ counted.pin_length = row.pin_length
        /\ counted.afa = row.afa /\ counted.afa_last_reset = row.afa_last_reset
    BY DEF PinInfoRow
  <1>2. first = IF counted.cfa >= _get_max_cfa(row) THEN _block(counted) ELSE counted
    BY DEF _increment_cfa
  <1>3. new = IF second.afa >= _get_max_afa(first) THEN _block(second) ELSE second
    BY DEF _register_failed_attempt, _increment_afa
  <1> HIDE DEF counted
  <1>4. first \in PinInfoRow
    BY <1>1, <1>2, BlockIsToday
  <1> HIDE DEF first
  <1>5. /\ reset \in PinInfoRow
        /\ reset.status = first.status /\ reset.pin_length = first.pin_length
        /\ reset.cfa = first.cfa
        /\ IF first.afa_last_reset + PIN_RESET_DAYS <= pin_day
             THEN reset.afa = 0 /\ reset.afa_last_reset = pin_day
             ELSE reset.afa = first.afa /\ reset.afa_last_reset = first.afa_last_reset
    BY <1>4 DEF _reset_afa_if_necessary, PinInfoRow
  <1> HIDE DEF reset
  <1>6. /\ second \in PinInfoRow /\ second.afa = reset.afa + 1
        /\ second.status = reset.status /\ second.pin_length = reset.pin_length
        /\ second.cfa = reset.cfa
        /\ second.afa_last_reset = reset.afa_last_reset
    BY <1>5 DEF PinInfoRow
  <1> HIDE DEF second, new
  <1>7. CASE second.afa >= _get_max_afa(first)
    BY <1>3, <1>6, <1>7, BlockIsToday DEF new
  <1>8. CASE ~(second.afa >= _get_max_afa(first)) /\ counted.cfa >= _get_max_cfa(row)
    <2>1. /\ IsBlockedToday(first) /\ first.pin_length = 0
      BY <1>1, <1>2, <1>8, BlockIsToday
    <2>2. _get_max_afa(first) = 0
      BY <2>1, PinInfoAssumption DEF _get_max_afa
    <2>3. second.afa \in Nat
      BY <1>6 DEF PinInfoRow
    <2> QED
      BY <1>8, <2>2, <2>3
  <1>9. CASE ~(second.afa >= _get_max_afa(first)) /\ ~(counted.cfa >= _get_max_cfa(row))
    <2>1. first = counted /\ new = second
      BY <1>2, <1>3, <1>9
    <2>2. counted.cfa < _get_max_cfa(row)
      <3>1. counted.cfa \in Int /\ _get_max_cfa(row) \in Int
        BY <1>1 DEF PinInfoRow, _get_max_cfa
      <3> QED
        BY <1>9, <3>1
    <2>3. second.afa < MaxAfa[row.pin_length]
      <3>1. _get_max_afa(first) = MaxAfa[row.pin_length]
        BY <1>1, <2>1 DEF _get_max_afa
      <3>2. MaxAfa[row.pin_length] \in Nat
        BY PinInfoAssumption
      <3>3. second.afa \in Nat
        BY <1>6 DEF PinInfoRow
      <3> QED
        BY <1>9, <3>1, <3>2, <3>3
    <2>4. IsAddedTo(row, new)
      BY <1>1, <1>5, <1>6, <2>1, <2>2, <2>3 DEF IsAddedTo
    <2> QED
      BY <2>4 DEF new
  <1> QED
    BY <1>7, <1>8, <1>9


\* No failure is counted.
LEMMA NothingAccumulated ==
    ASSUME NEW current \in Nat, NEW limit \in Nat \ {0}
    PROVE  IsAccumulated({}, 0, current, current, limit)
  <1>1. \A a, b : Failed({}, a, b) = {}
    BY DEF Failed
  <1>2. Cardinality({}) = 0 /\ IsFiniteSet({})
    BY FS_EmptySet
  <1>3. \A a, b : Cardinality(Failed({}, a, b)) = 0
    BY <1>1, <1>2
  <1>4. limit - 1 \in Nat /\ 0 <= limit - 1 /\ 0 <= 2 * (limit - 1)
    OBVIOUS
  <1> QED
    BY <1>2, <1>3, <1>4 DEF IsAccumulated

\* One more day, without a failure.
LEMMA AccumulatedNextDay ==
    ASSUME NEW attempts, NEW afa, NEW since \in Nat, NEW current \in Nat, NEW limit,
           IsAccumulated(attempts, afa, since, current, limit)
    PROVE  IsAccumulated(attempts, afa, since, current + 1, limit)
  BY DEF IsAccumulated

LEMMA FailedSize ==
    ASSUME NEW attempts, IsFiniteSet(attempts), NEW a, NEW b
    PROVE  /\ IsFiniteSet(Failed(attempts, a, b))
           /\ Cardinality(Failed(attempts, a, b)) \in Nat
           /\ \A S : S \subseteq Failed(attempts, a, b) =>
                  /\ Cardinality(S) \in Nat
                  /\ Cardinality(S) <= Cardinality(Failed(attempts, a, b))
  <1>1. IsFiniteSet(Failed(attempts, a, b))
    BY FS_Subset DEF Failed
  <1> QED
    BY <1>1, FS_Subset, FS_CardinalityType

\* One more failure.
LEMMA AddFailure ==
    ASSUME NEW attempts, IsFiniteSet(attempts), NEW e, NEW a, NEW b
    PROVE  /\ Cardinality(Failed(attempts \cup {e}, a, b)) \in Nat
           /\ Cardinality(Failed(attempts \cup {e}, a, b))
                  <= Cardinality(Failed(attempts, a, b)) + 1
           /\ ~(a <= e.day /\ e.day <= b) =>
                  Failed(attempts \cup {e}, a, b) = Failed(attempts, a, b)
  <1> DEFINE S == Failed(attempts, a, b)
             T == Failed(attempts \cup {e}, a, b)
  <1>1. IsFiniteSet(S) /\ Cardinality(S) \in Nat
    BY FailedSize
  <1>2. T \in {S, S \cup {e}}
    BY DEF Failed
  <1>3. ~(a <= e.day /\ e.day <= b) => T = S
    BY DEF Failed
  <1> HIDE DEF S, T
  <1>4. /\ Cardinality(S \cup {e}) \in {Cardinality(S), Cardinality(S) + 1}
    BY <1>1, FS_AddElement
  <1>5. /\ Cardinality(T) \in Nat
        /\ Cardinality(T) <= Cardinality(S) + 1
    BY <1>1, <1>2, <1>4
  <1> QED
    BY <1>3, <1>5 DEF S, T

\* A failure today, in the period that is being counted.
LEMMA AccumulateMore ==
    ASSUME NEW attempts, NEW afa \in Nat, NEW since \in Nat, NEW current \in Nat,
           NEW limit \in Nat \ {0},
           IsAccumulated(attempts, afa, since, current, limit),
           NEW e \in [n: Nat, day: Nat], e.day = current,
           afa + 1 <= limit - 1, ~(since + PIN_RESET_DAYS <= current)
    PROVE  /\ \A f \in attempts \cup {e} :
                  f.day <= current /\ f.day < since + PIN_RESET_DAYS
           /\ Cardinality(Failed(attempts \cup {e}, since, since + PIN_RESET_DAYS - 1))
                  <= afa + 1
           /\ Cardinality(Failed(attempts \cup {e}, since - PIN_RESET_DAYS, since - 1))
                  <= limit - 1
  <1> DEFINE P == PIN_RESET_DAYS
             A == attempts \cup {e}
  <1>1. P \in Nat /\ P > 0
    BY PinInfoAssumption
  <1>2. /\ IsFiniteSet(attempts) /\ since <= current
        /\ attempts \subseteq [n: Nat, day: Nat]
        /\ \A f \in attempts : f.day <= current /\ f.day < since + P
        /\ Cardinality(Failed(attempts, since, since + P - 1)) <= afa
        /\ Cardinality(Failed(attempts, since - P, since - 1)) <= limit - 1
    BY DEF IsAccumulated
  <1>3. Cardinality(Failed(A, since, since + P - 1)) <= afa + 1
    <2> DEFINE b == since + P - 1
               old == Cardinality(Failed(attempts, since, b))
               new == Cardinality(Failed(A, since, b))
    <2>1. new \in Nat /\ new <= old + 1
      BY <1>2, AddFailure
    <2>2. old \in Nat /\ old <= afa
      BY <1>2, FailedSize
    <2> HIDE DEF old, new
    <2>3. new <= afa + 1
      BY <2>1, <2>2
    <2> QED
      BY <2>3 DEF new
  <1>4. Failed(A, since - P, since - 1) = Failed(attempts, since - P, since - 1)
    <2> DEFINE a == since - P
               b == since - 1
    <2>1. ~(e.day <= b) /\ a \in Int /\ b \in Int
      BY <1>1, <1>2
    <2> HIDE DEF a, b
    <2>2. Failed(A, a, b) = Failed(attempts, a, b)
      BY <1>2, <2>1, AddFailure
    <2> QED
      BY <2>2 DEF a, b
  <1>5. \A f \in A : f.day <= current /\ f.day < since + P
    <2>1. current < since + P /\ current <= current
      BY <1>1
    <2> QED
      BY <1>2, <2>1
  <1> QED
    BY <1>2, <1>3, <1>4, <1>5

\* A failure today, when the counter is reset: the failures that it has
\* counted become those of the period before.
LEMMA AccumulateFirst ==
    ASSUME NEW attempts, NEW afa \in Nat, NEW since \in Nat, NEW current \in Nat,
           NEW limit \in Nat \ {0},
           IsAccumulated(attempts, afa, since, current, limit),
           NEW e \in [n: Nat, day: Nat], e.day = current,
           since + PIN_RESET_DAYS <= current
    PROVE  /\ \A f \in attempts \cup {e} :
                  f.day <= current /\ f.day < current + PIN_RESET_DAYS
           /\ Cardinality(Failed(attempts \cup {e}, current, current + PIN_RESET_DAYS - 1))
                  <= 1
           /\ Cardinality(Failed(attempts \cup {e}, current - PIN_RESET_DAYS, current - 1))
                  <= limit - 1
  <1> DEFINE P == PIN_RESET_DAYS
             A == attempts \cup {e}
  <1>1. P \in Nat /\ P > 0
    BY PinInfoAssumption
  <1>2. /\ IsFiniteSet(attempts) /\ since <= current
        /\ attempts \subseteq [n: Nat, day: Nat]
        /\ \A f \in attempts : f.day <= current /\ f.day < since + P
        /\ afa <= limit - 1
        /\ Cardinality(Failed(attempts, since, since + P - 1)) <= afa
    BY DEF IsAccumulated
  <1>3. \A f \in attempts : f.day \in Nat /\ f.day < current /\ f.day <= since + P - 1
    BY <1>1, <1>2
  <1>4. Cardinality(Failed(A, current, current + P - 1)) <= 1
    <2>1. Failed(attempts, current, current + P - 1) = {}
      BY <1>3 DEF Failed
    <2>2. Cardinality(Failed(attempts, current, current + P - 1)) = 0
      BY <2>1, FS_EmptySet
    <2>3. Cardinality(Failed(A, current, current + P - 1))
              <= Cardinality(Failed(attempts, current, current + P - 1)) + 1
      BY <1>2, AddFailure
    <2> QED
      BY <2>2, <2>3
  <1>5. Cardinality(Failed(A, current - P, current - 1)) <= limit - 1
    <2>1. ~(e.day <= current - 1)
      OBVIOUS
    <2>2. Failed(A, current - P, current - 1) = Failed(attempts, current - P, current - 1)
      BY <1>2, <2>1, AddFailure
    <2>3. \A f \in attempts : current - P <= f.day => since <= f.day
      BY <1>1, <1>3
    <2>4. Failed(attempts, current - P, current - 1)
              \subseteq Failed(attempts, since, since + P - 1)
      BY <1>3, <2>3 DEF Failed
    <2> DEFINE before == Cardinality(Failed(attempts, current - P, current - 1))
               counted == Cardinality(Failed(attempts, since, since + P - 1))
    <2>5. before \in Nat /\ counted \in Nat /\ before <= counted
      BY <1>2, <2>4, FailedSize
    <2>6. counted <= afa
      BY <1>2
    <2> HIDE DEF before, counted
    <2>7. before <= limit - 1
      BY <1>2, <2>5, <2>6
    <2> QED
      BY <2>2, <2>7 DEF before
  <1>6. \A f \in A : f.day <= current /\ f.day < current + P
    BY <1>1, <1>3
  <1> QED
    BY <1>4, <1>5, <1>6

\* No day of a period of PIN_RESET_DAYS with a failure today is outside of the
\* two last periods of the counter.
LEMMA AccumulatedPeriods ==
    ASSUME NEW attempts, NEW afa \in Nat, NEW since \in Nat, NEW current \in Nat,
           NEW limit \in Nat \ {0}, NEW d \in Nat, IsFiniteSet(attempts),
           attempts \subseteq [n: Nat, day: Nat], since <= current,
           current < since + PIN_RESET_DAYS,
           \A f \in attempts : f.day <= current,
           afa <= limit - 1, current <= d + PIN_RESET_DAYS - 1,
           Cardinality(Failed(attempts, since, since + PIN_RESET_DAYS - 1)) <= afa,
           Cardinality(Failed(attempts, since - PIN_RESET_DAYS, since - 1))
               <= limit - 1
    PROVE  Cardinality(Failed(attempts, d, d + PIN_RESET_DAYS - 1))
               <= 2 * (limit - 1)
  <1> DEFINE P == PIN_RESET_DAYS
             old == Failed(attempts, since - P, since - 1)
             new == Failed(attempts, since, since + P - 1)
             all == Failed(attempts, d, d + P - 1)
  <1>1. P \in Nat /\ P > 0
    BY PinInfoAssumption
  <1>2. all \subseteq old \cup new
    <2>1. \A f \in attempts : /\ f.day \in Nat /\ f.day <= current
                              /\ f.day >= since => f.day <= since + P - 1
                              /\ f.day >= d => f.day >= since - P
                              /\ f.day >= since \/ f.day <= since - 1
      BY <1>1
    <2> QED
      BY <2>1 DEF Failed
  <1>3. /\ IsFiniteSet(old) /\ IsFiniteSet(new)
        /\ Cardinality(old) \in Nat /\ Cardinality(new) \in Nat
    BY FailedSize
  <1>4. Cardinality(old) <= limit - 1 /\ Cardinality(new) <= limit - 1
    BY <1>3
  <1> HIDE DEF old, new, all
  <1>5. IsFiniteSet(old \cup new) /\ IsFiniteSet(old \cap new)
    BY <1>3, FS_Union, FS_Subset
  <1>6. Cardinality(old \cup new) =
            Cardinality(old) + Cardinality(new) - Cardinality(old \cap new)
    BY <1>3, FS_Union
  <1>7. /\ Cardinality(old \cap new) \in Nat /\ Cardinality(old \cup new) \in Nat
        /\ Cardinality(all) \in Nat
        /\ Cardinality(all) <= Cardinality(old \cup new)
    BY <1>2, <1>5, FS_Subset, FS_CardinalityType
  <1>8. Cardinality(all) <= 2 * (limit - 1)
    BY <1>3, <1>4, <1>6, <1>7
  <1> QED
    BY <1>8 DEF all

\* A failure today that does not reach the limit.
LEMMA AccumulatedFailure ==
    ASSUME NEW attempts, NEW afa \in Nat, NEW since \in Nat, NEW current \in Nat,
           NEW limit \in Nat \ {0},
           IsAccumulated(attempts, afa, since, current, limit),
           NEW e \in [n: Nat, day: Nat], e.day = current,
           NEW more \in Nat, NEW reset \in Nat, more <= limit - 1,
           IF since + PIN_RESET_DAYS <= current
             THEN more = 1 /\ reset = current
             ELSE more = afa + 1 /\ reset = since
    PROVE  IsAccumulated(attempts \cup {e}, more, reset, current, limit)
  <1> DEFINE P == PIN_RESET_DAYS
             A == attempts \cup {e}
  <1>1. P \in Nat /\ P > 0
    BY PinInfoAssumption
  <1>2. /\ IsFiniteSet(attempts) /\ since <= current
        /\ attempts \subseteq [n: Nat, day: Nat]
        /\ \A d \in Nat : Cardinality(Failed(attempts, d, d + P - 1))
                              <= 2 * (limit - 1)
    BY DEF IsAccumulated
  <1>3. IsFiniteSet(A) /\ A \subseteq [n: Nat, day: Nat]
    BY <1>2, FS_AddElement
  <1>4. reset <= current /\ current < reset + P
    BY <1>1, <1>2
  <1>5. /\ \A f \in A : f.day <= current /\ f.day < reset + P
        /\ Cardinality(Failed(A, reset, reset + P - 1)) <= more
        /\ Cardinality(Failed(A, reset - P, reset - 1)) <= limit - 1
    <2>1. CASE since + P <= current
      <3>1. more = 1 /\ reset = current
        BY <2>1
      <3>2. /\ \A f \in A : f.day <= current /\ f.day < current + P
            /\ Cardinality(Failed(A, current, current + P - 1)) <= 1
            /\ Cardinality(Failed(A, current - P, current - 1)) <= limit - 1
        BY <2>1, AccumulateFirst
      <3> QED
        BY <3>1, <3>2
    <2>2. CASE ~(since + P <= current)
      <3>1. more = afa + 1 /\ reset = since /\ afa + 1 <= limit - 1
        BY <2>2
      <3>2. /\ \A f \in A : f.day <= current /\ f.day < since + P
            /\ Cardinality(Failed(A, since, since + P - 1)) <= afa + 1
            /\ Cardinality(Failed(A, since - P, since - 1)) <= limit - 1
        BY <2>2, <3>1, AccumulateMore
      <3> QED
        BY <3>1, <3>2
    <2> QED
      BY <2>1, <2>2
  <1>6. ASSUME NEW d \in Nat
        PROVE  Cardinality(Failed(A, d, d + P - 1)) <= 2 * (limit - 1)
    <2>1. CASE current <= d + P - 1
      BY <1>3, <1>4, <1>5, <2>1, AccumulatedPeriods
    <2>2. CASE ~(current <= d + P - 1)
      <3> DEFINE b == d + P - 1
      <3>0. ~(e.day <= b)
        BY <2>2
      <3> HIDE DEF b
      <3>1. Failed(A, d, b) = Failed(attempts, d, b)
        BY <1>2, <3>0, AddFailure
      <3> USE DEF b
      <3> QED
        BY <1>2, <3>1
    <2> QED
      BY <2>1, <2>2
  <1> QED
    BY <1>3, <1>4, <1>5, <1>6 DEF IsAccumulated

\* The row that has a PIN.
LEMMA OnHasPin ==
    ASSUME PinInv
    PROVE  /\ pin_info \in PinInfoRow /\ pin_day \in Nat /\ failures \in Nat
           /\ pin_info.pin_length \in 0..10
           /\ pin_info.status = "on" =>
                 /\ Pins # {}
                 /\ pin_info.pin_length \in 4..10
                 /\ MaxAfa[pin_info.pin_length] \in Nat
                 /\ MaxAfa[pin_info.pin_length] <= LongestLimit
                 /\ _get_max_cfa(pin_info) >= 3
  <1>1. /\ pin_info \in PinInfoRow /\ pin_day \in Nat /\ failures \in Nat
        /\ pin_info.status = "on" => pin_info.pin # NoPin
        /\ pin_info.pin_length = IF pin_info.pin = NoPin THEN 0
                                 ELSE PinLength[pin_info.pin]
        /\ pin_info.pin \in Pins \cup {NoPin}
    BY DEF PinInv, PinTypeOK, PinInfoRow
  <1>2. pin_info.pin_length \in 0..10
    BY <1>1, PinInfoAssumption
  <1>3. ASSUME pin_info.status = "on"
        PROVE  /\ Pins # {}
               /\ pin_info.pin_length \in 4..10
               /\ MaxAfa[pin_info.pin_length] \in Nat
               /\ MaxAfa[pin_info.pin_length] <= LongestLimit
    BY <1>1, <1>3, LongestLimitType, PinInfoAssumption
  <1>4. ASSUME pin_info.status = "on"
        PROVE  _get_max_cfa(pin_info) >= 3
    <2>1. \A n \in 4..10 : (3 * n - 6) \div 2 >= 3
      OBVIOUS
    <2> QED
      BY <1>3, <1>4, <2>1 DEF _get_max_cfa
  <1> QED
    BY <1>1, <1>2, <1>3, <1>4

\* A failure that does not block the PIN ...
LEMMA CountedFailure ==
    ASSUME PinInv, CountersInv, pin_info.status = "on",
           IsAddedTo(pin_info, pin_info'), pin_info' \in PinInfoRow,
           failures' = failures + 1, pin_day' = pin_day, NEW e,
           e \in [n: Nat, day: {pin_day}],
           failed_attempts' = failed_attempts \cup {e}
    PROVE  CountersInv'
  <1>1. /\ pin_info \in PinInfoRow /\ pin_day \in Nat /\ Pins # {}
        /\ MaxAfa[pin_info.pin_length] \in Nat
        /\ MaxAfa[pin_info.pin_length] <= LongestLimit
        /\ failures \in Nat
    BY OnHasPin
  <1>2. /\ LongestLimit \in Nat \ {0}
        /\ pin_info.afa \in Nat /\ pin_info'.afa \in Nat /\ pin_info.cfa \in Nat
        /\ pin_info.afa_last_reset \in Nat /\ pin_info'.afa_last_reset \in Nat
        /\ e \in [n: Nat, day: Nat] /\ e.day = pin_day
    BY <1>1, LongestLimitType DEF PinInfoRow
  <1>3. /\ failures' <= pin_info'.cfa
        /\ pin_info'.status = "on" => pin_info'.cfa < _get_max_cfa(pin_info')
    BY <1>1, <1>2 DEF IsAddedTo, _get_max_cfa, CountersInv
  <1>4. pin_info'.afa <= LongestLimit - 1
    <2> DEFINE max == MaxAfa[pin_info.pin_length]
               afa == pin_info'.afa
    <2>1. afa < max
      BY DEF IsAddedTo
    <2>2. afa \in Nat /\ max \in Nat /\ max <= LongestLimit
      BY <1>1, <1>2
    <2> HIDE DEF max, afa
    <2>3. afa <= LongestLimit - 1
      BY <1>2, <2>1, <2>2
    <2> QED
      BY <2>3 DEF afa
  <1>5. IF pin_info.afa_last_reset + PIN_RESET_DAYS <= pin_day
          THEN pin_info'.afa = 1 /\ pin_info'.afa_last_reset = pin_day
          ELSE /\ pin_info'.afa = pin_info.afa + 1
               /\ pin_info'.afa_last_reset = pin_info.afa_last_reset
    BY DEF IsAddedTo
  <1>6. IsAccumulated(failed_attempts, pin_info.afa, pin_info.afa_last_reset,
                      pin_day, LongestLimit)
    BY <1>1 DEF CountersInv
  <1>7. IsAccumulated(failed_attempts \cup {e}, pin_info'.afa,
                      pin_info'.afa_last_reset, pin_day, LongestLimit)
    BY <1>1, <1>2, <1>4, <1>5, <1>6, AccumulatedFailure
  <1> QED
    BY <1>3, <1>7 DEF CountersInv

\* ... and one that does: the counters begin again.
LEMMA BlockedFailure ==
    ASSUME PinInv, IsBlockedToday(pin_info'), failures' = 0,
           failed_attempts' = {}, pin_day' = pin_day
    PROVE  CountersInv'
  <1>1. pin_day \in Nat
    BY OnHasPin
  <1>2. Pins # {} => IsAccumulated({}, 0, pin_day, pin_day, LongestLimit)
    BY <1>1, LongestLimitType, NothingAccumulated
  <1> QED
    BY <1>2 DEF CountersInv, IsBlockedToday

\* The accumulated failures stay, and the consecutive ones too, or they begin
\* again.
LEMMA SameAccumulated ==
    ASSUME PinInv, CountersInv, UNCHANGED failed_attempts,
           pin_day' \in {pin_day, pin_day + 1},
           pin_info'.afa = pin_info.afa,
           pin_info'.afa_last_reset = pin_info.afa_last_reset,
           failures' <= pin_info'.cfa,
           pin_info'.status = "on" => pin_info'.cfa < _get_max_cfa(pin_info')
    PROVE  CountersInv'
  <1>1. pin_day \in Nat /\ pin_info.afa_last_reset \in Nat
    BY OnHasPin DEF PinInfoRow
  <1>2. Pins # {} => IsAccumulated(failed_attempts, pin_info.afa,
                                   pin_info.afa_last_reset, pin_day', LongestLimit)
    BY <1>1, AccumulatedNextDay DEF CountersInv
  <1> QED
    BY <1>2 DEF CountersInv

\* What an attempt leaves, when it has seen the row as it is.
LEMMA AttemptCounters ==
    ASSUME PinInv, CountersInv, NEW value, CountAttempt(pin_info, value),
           pin_info' = try_value(pin_info, value), pin_day' = pin_day,
           pin_info' \in PinInfoRow
    PROVE  CountersInv'
  <1>1. CASE IsFailedAttempt(pin_info, value)
    <2>1. /\ pin_info.status = "on"
          /\ pin_info' = _register_failed_attempt(pin_info)
      BY <1>1 DEF try_value, IsFailedAttempt, IsBlocked, IsRequired, PinInv,
                  PinTypeOK, PinInfoRow, StatusNames
    <2>2. IsBlockedToday(pin_info') \/ IsAddedTo(pin_info, pin_info')
      BY <2>1, FailedRow, OnHasPin
    <2>3. CASE IsBlockedToday(pin_info')
      <3>1. failures' = 0 /\ failed_attempts' = {}
        BY <1>1, <2>3 DEF CountAttempt, IsBlocked, IsBlockedToday
      <3> QED
        BY <2>3, <3>1, BlockedFailure
    <2>4. CASE IsAddedTo(pin_info, pin_info')
      <3> DEFINE e == [n |-> Cardinality(failed_attempts), day |-> pin_day]
      <3>1. ~IsBlocked(pin_info')
        BY <2>1, <2>4 DEF IsAddedTo, IsBlocked
      <3>2. failures' = failures + 1 /\ failed_attempts' = failed_attempts \cup {e}
        BY <1>1, <3>1 DEF CountAttempt
      <3>3. e \in [n: Nat, day: {pin_day}]
        <4>1. Pins # {}
          BY <2>1, OnHasPin
        <4> QED
          BY <4>1, FS_CardinalityType DEF CountersInv, IsAccumulated
      <3> HIDE DEF e
      <3> QED
        BY <2>1, <2>4, <3>2, <3>3, CountedFailure
    <2> QED
      BY <2>2, <2>3, <2>4
  <1>2. CASE ~IsFailedAttempt(pin_info, value)
    <2>1. /\ pin_info'.afa = pin_info.afa
          /\ pin_info'.afa_last_reset = pin_info.afa_last_reset
          /\ pin_info'.status = pin_info.status
          /\ pin_info'.pin_length = pin_info.pin_length
          /\ pin_info'.cfa = IF IsAccepted(pin_info, value) THEN 0 ELSE pin_info.cfa
          /\ failures' = IF IsAccepted(pin_info, value) THEN 0 ELSE failures
          /\ UNCHANGED failed_attempts
      BY <1>2 DEF try_value, CountAttempt, PinInv, PinTypeOK, PinInfoRow
    <2>2. _get_max_cfa(pin_info') = _get_max_cfa(pin_info)
      BY <2>1 DEF _get_max_cfa
    <2>3. /\ failures' <= pin_info'.cfa
          /\ pin_info'.status = "on" => pin_info'.cfa < _get_max_cfa(pin_info)
      <3>1. CASE IsAccepted(pin_info, value)
        <4>1. pin_info.status = "on" => /\ _get_max_cfa(pin_info) >= 3
                                        /\ pin_info.cfa < _get_max_cfa(pin_info)
          BY OnHasPin DEF CountersInv
        <4>2. _get_max_cfa(pin_info) \in Int
          BY OnHasPin DEF _get_max_cfa
        <4> QED
          BY <2>1, <3>1, <4>1, <4>2
      <3>2. CASE ~IsAccepted(pin_info, value)
        BY <2>1, <3>2 DEF CountersInv
      <3> QED
        BY <3>1, <3>2
    <2> QED
      BY <2>1, <2>2, <2>3, SameAccumulated
  <1> QED
    BY <1>1, <1>2

\* A change of the PIN leaves the accumulated failures alone.
LEMMA ChangedPinCounters ==
    ASSUME PinInv, CountersInv, NEW row \in PinInfoRow,
           row.afa = pin_info.afa, row.afa_last_reset = pin_info.afa_last_reset,
           NEW status \in StatusNames, NEW new_pin \in Values,
           IsValidPinInfo(status, new_pin),
           pin_info' = [set_value(row, new_pin) EXCEPT
                           !.status = status, !.latest_update_id = @ + 1],
           failures' = 0, UNCHANGED <<failed_attempts, pin_day>>
    PROVE  CountersInv'
  <1>1. /\ pin_info'.afa = pin_info.afa
        /\ pin_info'.afa_last_reset = pin_info.afa_last_reset
        /\ pin_info'.cfa = 0 /\ pin_info'.status = status
        /\ pin_info'.pin_length = IF new_pin = NoPin THEN 0 ELSE PinLength[new_pin]
    BY DEF set_value, PinInfoRow
  <1>2. pin_info'.status = "on" => 0 < _get_max_cfa(pin_info')
    <2>1. ASSUME status = "on"
          PROVE  pin_info'.pin_length \in 4..10
      BY <1>1, <2>1, PinInfoAssumption DEF IsValidPinInfo, Values
    <2>2. \A n \in 4..10 : 0 < (3 * n - 6) \div 2
      OBVIOUS
    <2> QED
      BY <1>1, <2>1, <2>2 DEF _get_max_cfa
  <1> QED
    BY <1>1, <1>2, SameAccumulated

LEMMA FailuresInitInv == PinInit => FailuresInv
  <1> SUFFICES ASSUME PinInit
               PROVE  CountersInv
    BY DEF FailuresInv
  <1>1. Pins # {} => IsAccumulated({}, 0, 0, 0, LongestLimit)
    BY LongestLimitType, NothingAccumulated
  <1> QED
    BY <1>1 DEF PinInit, FirstPinInfo, CountersInv

LEMMA FailuresNextInv ==
    PinInv /\ PinInv' /\ FailuresInv /\ [PinNext]_pin_vars => FailuresInv'
  <1> SUFFICES ASSUME PinInv, PinInv', FailuresInv, [PinNext]_pin_vars, ~overlapped'
               PROVE  CountersInv'
    BY DEF FailuresInv
  <1>1. pin_info' \in PinInfoRow /\ pin_info \in PinInfoRow /\ pin_day \in Nat
    BY DEF PinInv, PinTypeOK
  <1>2. ASSUME UNCHANGED <<pin_info, failures, failed_attempts, overlapped>>,
               pin_day' \in {pin_day, pin_day + 1}
        PROVE  CountersInv'
    <2>1. CountersInv
      BY <1>2 DEF FailuresInv
    <2>2. /\ pin_info'.afa = pin_info.afa
          /\ pin_info'.afa_last_reset = pin_info.afa_last_reset
          /\ failures' <= pin_info'.cfa
          /\ pin_info'.status = "on" => pin_info'.cfa < _get_max_cfa(pin_info')
      BY <1>2, <2>1 DEF CountersInv, _get_max_cfa
    <2> QED
      BY <1>2, <2>1, <2>2, SameAccumulated
  <1>3. ASSUME NEW s \in PinSessions, verify_pin_value(s)
        PROVE  CountersInv'
    <2>1. pin_session[s].row = pin_info /\ ~overlapped
      BY <1>3 DEF verify_pin_value, PinInv, PinTypeOK
    <2>2. /\ pin_info' = Saved(pin_info, pin_session[s].value)
          /\ CountAttempt(pin_info, pin_session[s].value)
          /\ pin_day' = pin_day
      BY <1>3, <2>1 DEF verify_pin_value
    <2>3. pin_info' = try_value(pin_info, pin_session[s].value)
      BY <1>1, <2>1, <2>2, WrittenIsSound DEF PinInv
    <2> QED
      BY <1>1, <2>1, <2>2, <2>3, AttemptCounters DEF FailuresInv
  <1>4. ASSUME NEW status \in StatusNames, NEW new_pin \in Values,
               NEW value \in Values, NEW pin_reset_mode \in BOOLEAN,
               update_pin_info(status, new_pin, pin_reset_mode, value)
        PROVE  CountersInv'
    <2>1. ~overlapped /\ CountersInv /\ IsValidPinInfo(status, new_pin)
          /\ pin_day' = pin_day
      BY <1>4 DEF update_pin_info, FailuresInv
    <2>2. CASE pin_reset_mode
      BY <1>1, <1>4, <2>1, <2>2, ChangedPinCounters DEF update_pin_info
    <2>3. CASE ~pin_reset_mode /\ IsAccepted(pin_info, value)
      <3> DEFINE row == try_value(pin_info, value)
      <3>1. row = [pin_info EXCEPT !.cfa = 0]
        BY <2>3 DEF try_value, IsAccepted, IsFailedAttempt
      <3>2. /\ row \in PinInfoRow /\ row.afa = pin_info.afa
            /\ row.afa_last_reset = pin_info.afa_last_reset
        BY <1>1, <3>1 DEF PinInfoRow
      <3>3. /\ pin_info' = [set_value(row, new_pin) EXCEPT
                               !.status = status, !.latest_update_id = @ + 1]
            /\ failures' = 0 /\ UNCHANGED <<failed_attempts, pin_day>>
        BY <1>4, <2>3 DEF update_pin_info
      <3> HIDE DEF row
      <3> QED
        BY <2>1, <3>2, <3>3, ChangedPinCounters
    <2>4. CASE ~pin_reset_mode /\ ~IsAccepted(pin_info, value)
      <3>1. pin_info' = Saved(pin_info, value) /\ CountAttempt(pin_info, value)
        BY <1>4, <2>4 DEF update_pin_info
      <3>2. IsSoundRow(pin_info)
        BY DEF PinInv, PinTypeOK, IsSoundRow
      <3>3. pin_info' = try_value(pin_info, value)
        BY <1>1, <3>1, <3>2, WrittenIsSound
      <3> QED
        BY <1>1, <2>1, <3>1, <3>3, AttemptCounters
    <2> QED
      BY <2>2, <2>3, <2>4
  <1>5. CASE NextPinDay
    BY <1>2, <1>5 DEF NextPinDay
  <1>6. ASSUME NEW s \in PinSessions, NEW value \in Values, BeginVerification(s, value)
        PROVE  CountersInv'
    BY <1>2, <1>6 DEF BeginVerification
  <1>7. ASSUME NEW s \in PinSessions, AbortVerification(s)
        PROVE  CountersInv'
    BY <1>2, <1>7 DEF AbortVerification
  <1>8. CASE UNCHANGED pin_vars
    BY <1>2, <1>8 DEF pin_vars
  <1> QED
    BY <1>3, <1>4, <1>5, <1>6, <1>7, <1>8 DEF PinNext, ChangePin

\* The failures of a PIN that is on are limited, as long as the attempts do not
\* overlap: consecutively by its length, and, whatever PINs have been set, in
\* each period of PIN_RESET_DAYS by twice what the longest PIN allows.
THEOREM FailuresCorrect == PinSpec => []FailuresAreLimited
  <1>1. PinInv /\ FailuresInv => FailuresAreLimited
    <2> SUFFICES ASSUME PinInv, CountersInv, pin_info.status = "on"
                 PROVE  /\ failures < _get_max_cfa(pin_info)
                        /\ \A d \in 0..MaxPinDay :
                              Cardinality({f \in failed_attempts :
                                              f.day \in d .. d + PIN_RESET_DAYS - 1})
                                  <= 2 * (LongestLimit - 1)
      BY DEF FailuresAreLimited, FailuresInv
    <2>1. failures < _get_max_cfa(pin_info)
      <3>1. /\ failures \in Nat /\ pin_info.cfa \in Nat
            /\ _get_max_cfa(pin_info) \in Int
        BY OnHasPin DEF PinInfoRow, _get_max_cfa
      <3>2. failures <= pin_info.cfa /\ pin_info.cfa < _get_max_cfa(pin_info)
        BY DEF CountersInv
      <3> QED
        BY <3>1, <3>2
    <2>2. ASSUME NEW d \in 0..MaxPinDay
          PROVE  Cardinality({f \in failed_attempts :
                                 f.day \in d .. d + PIN_RESET_DAYS - 1})
                     <= 2 * (LongestLimit - 1)
      <3>1. /\ d \in Nat /\ PIN_RESET_DAYS \in Nat
            /\ d + PIN_RESET_DAYS - 1 \in Int
        BY PinInfoAssumption
      <3>2. Pins # {}
        BY OnHasPin
      <3>3. /\ \A f \in failed_attempts : f.day \in Nat
            /\ Cardinality(Failed(failed_attempts, d, d + PIN_RESET_DAYS - 1))
                   <= 2 * (LongestLimit - 1)
        BY <3>1, <3>2 DEF CountersInv, IsAccumulated
      <3>4. {f \in failed_attempts : f.day \in d .. d + PIN_RESET_DAYS - 1}
                = Failed(failed_attempts, d, d + PIN_RESET_DAYS - 1)
        BY <3>1, <3>3 DEF Failed
      <3> QED
        BY <3>3, <3>4
    <2> QED
      BY <2>1, <2>2
  <1>2. PinSpec => []FailuresInv
    BY PinCorrect, FailuresInitInv, FailuresNextInv, PTL DEF PinSpec
  <1> QED
    BY <1>1, <1>2, PinCorrect, PTL

-----------------------------------------------------------------------------
(* The usage limits                                                        *)

Counter == -MAX_SMALLINT - 1 .. MAX_SMALLINT

\* A row whose counters fit their columns.
FitsColumns(row) ==
    /\ row \in Usage
    /\ \A k \in Kinds : row.count[k] \in Counter /\ row.events[k] \in 0 .. MAX_SMALLINT

UsageInv ==
    /\ UsageTypeOK
    /\ FitsColumns(flushed_stats)
    /\ FavorInv

\* Whether a request is one of Unsettled(k).
IsUnsettled(request, k) ==
    request.kind = k /\ request.stage \in {"created", "deleting", "undoing"}

WorkerType == [stage: Stages, kind: Kinds]

LEMMA IdleIsWorker == Idle \in WorkerType /\ \A k \in Kinds : ~IsUnsettled(Idle, k)
  BY UsageStatsAssumption DEF Idle, WorkerType, Stages, IsUnsettled

\* The counters of different kinds have nothing to do with each other.
LEMMA IncrementRow ==
    ASSUME NEW row, FitsColumns(row), NEW k \in Kinds
    PROVE  /\ FitsColumns(Increment(k, row))
           /\ Increment(k, row).count[k] <= row.count[k] + 1
           /\ \A j \in Kinds \ {k} : Increment(k, row).count[j] = row.count[j]
  BY UsageStatsAssumption DEF FitsColumns, Increment, Usage, Counter, Least

LEMMA DecrementRow ==
    ASSUME NEW row, FitsColumns(row), NEW k \in Kinds
    PROVE  /\ FitsColumns(Decrement(k, row))
           /\ \/ Decrement(k, row).count[k] = row.count[k] - 1
              \/ Decrement(k, row).count[k] = -MAX_SMALLINT - 1
           /\ \A j \in Kinds \ {k} : Decrement(k, row).count[j] = row.count[j]
  BY UsageStatsAssumption DEF FitsColumns, Decrement, Usage, Counter, Greatest

LEMMA AddEventRow ==
    ASSUME NEW row, FitsColumns(row), NEW k \in Kinds, hour \in Nat
    PROVE  FitsColumns(AddEvent(k, row)) /\ AddEvent(k, row).count = row.count
  <1>1. CASE hour < row.reset_at[k]
    BY <1>1, UsageStatsAssumption DEF FitsColumns, AddEvent, Usage, Counter, Least
  <1>2. CASE ~(hour < row.reset_at[k])
    <2> DEFINE counted == [row EXCEPT !.events[k] = 1]
    <2>1. FitsColumns(counted) /\ counted.count = row.count
      BY UsageStatsAssumption DEF FitsColumns, Usage, Counter
    <2>2. AddEvent(k, row) = [counted EXCEPT !.reset_at[k] = hour + CLEAR_HOURS]
      BY <1>2 DEF AddEvent
    <2> HIDE DEF counted
    <2> QED
      BY <2>1, <2>2, UsageStatsAssumption DEF FitsColumns, Usage
  <1> QED
    BY <1>1, <1>2

LEMMA ExistingRow ==
    ASSUME NEW row, FitsColumns(row)
    PROVE  /\ FitsColumns([row EXCEPT !.exists = TRUE])
           /\ [row EXCEPT !.exists = TRUE].count = row.count
  BY DEF FitsColumns, Usage

\* The requests that are not settled are few enough for the columns.
LEMMA UnsettledSize ==
    ASSUME NEW k
    PROVE  /\ IsFiniteSet(Unsettled(k)) /\ Cardinality(Unsettled(k)) \in Nat
           /\ Cardinality(Unsettled(k)) <= MAX_SMALLINT
  <1>1. Unsettled(k) \in SUBSET Workers
    BY DEF Unsettled, WorkersAt
  <1>2. /\ IsFiniteSet(Unsettled(k))
        /\ Cardinality(Unsettled(k)) <= Cardinality(Workers)
        /\ Cardinality(Workers) \in Nat
    BY <1>1, UsageStatsAssumption, FS_Subset, FS_CardinalityType
  <1>3. Cardinality(Unsettled(k)) \in Nat
    BY <1>2, FS_CardinalityType
  <1> QED
    BY <1>2, <1>3, UsageStatsAssumption

\* How the number of unsettled requests changes when one request does.
LEMMA SettleOne ==
    ASSUME worker \in [Workers -> WorkerType], NEW w \in Workers, NEW new,
           worker' = [worker EXCEPT ![w] = new], NEW k
    PROVE  Cardinality(Unsettled(k))' =
               Cardinality(Unsettled(k))
               + (IF IsUnsettled(new, k) THEN 1 ELSE 0)
               - (IF IsUnsettled(worker[w], k) THEN 1 ELSE 0)
  <1> DEFINE U == Unsettled(k)
  <1>1. w \in U <=> IsUnsettled(worker[w], k)
    BY DEF Unsettled, WorkersAt, IsUnsettled
  <1>2. Unsettled(k)' = IF IsUnsettled(new, k) THEN (U \ {w}) \cup {w} ELSE U \ {w}
    BY DEF Unsettled, WorkersAt, IsUnsettled
  <1>3. IsFiniteSet(U) /\ Cardinality(U) \in Nat
    BY UnsettledSize
  <1> HIDE DEF U
  <1>4. /\ IsFiniteSet(U \ {w})
        /\ Cardinality(U \ {w}) = IF w \in U THEN Cardinality(U) - 1 ELSE Cardinality(U)
    BY <1>3, FS_RemoveElement
  <1>5. Cardinality((U \ {w}) \cup {w}) = Cardinality(U \ {w}) + 1
    BY <1>4, FS_AddElement
  <1>6. Cardinality(Unsettled(k)') =
            Cardinality(U) + (IF IsUnsettled(new, k) THEN 1 ELSE 0)
                           - (IF IsUnsettled(worker[w], k) THEN 1 ELSE 0)
    BY <1>1, <1>2, <1>3, <1>4, <1>5
  <1> QED
    BY <1>6 DEF U

\* What FavorInv and UsageTypeOK say of one kind.
LEMMA KindTypes ==
    ASSUME UsageInv, NEW k \in Kinds
    PROVE  /\ usage_stats.count[k] \in Int /\ flushed_stats.count[k] \in Int
           /\ things[k] \in Nat /\ collisions \in Nat
           /\ Cardinality(Unsettled(k)) \in Nat
           /\ usage_stats.count[k] + Cardinality(Unsettled(k)) <= things[k] + collisions
           /\ flushed_stats.count[k] <= things[k] + collisions
  BY UnsettledSize DEF UsageInv, UsageTypeOK, Usage, FitsColumns, FavorInv

-----------------------------------------------------------------------------
LEMMA UsageInitInv == UsageInit => UsageInv
  <1> SUFFICES ASSUME UsageInit
               PROVE  UsageInv
    OBVIOUS
  <1>1. FitsColumns(NoUsage) /\ \A k \in Kinds : NoUsage.count[k] = 0
    BY UsageStatsAssumption DEF NoUsage, FitsColumns, Usage, Counter
  <1>2. worker \in [Workers -> WorkerType]
    BY IdleIsWorker DEF UsageInit
  <1>3. \A k \in Kinds : Unsettled(k) = {}
    BY IdleIsWorker DEF UsageInit, Unsettled, WorkersAt, IsUnsettled
  <1>4. UsageTypeOK
    BY <1>1, <1>2 DEF UsageInit, UsageTypeOK, FitsColumns, Counter, WorkerType
  <1>5. FavorInv
    BY <1>1, <1>3, FS_EmptySet DEF UsageInit, FavorInv
  <1> QED
    BY <1>1, <1>4, <1>5 DEF UsageInv, UsageInit

\* When a request goes on as new, things of the kind k may change like this.
IsMoveOf(w, new, k) ==
    LET before == IF IsUnsettled(worker[w], k) THEN 1 ELSE 0
        after == IF IsUnsettled(new, k) THEN 1 ELSE 0
    IN  /\ things'[k] - things[k] >= after - before
        /\ \/ things'[k] >= things[k]
           \/ /\ before = 1
              /\ things'[k] = things[k] - 1
              /\ flushed_stats' = usage_stats

\* A request that goes on to another stage, and changes the real numbers or not.
LEMMA MoveInv ==
    ASSUME UsageInv, NEW w \in Workers, NEW new \in WorkerType,
           worker' = [worker EXCEPT ![w] = new],
           inserting' = inserting \ {w} \/ (inserting' = inserting /\ ~HasToRecord(w)),
           UNCHANGED <<hour, usage_stats, collisions>>,
           faults' \in Nat, things' \in [Kinds -> Nat],
           flushed_stats' \in {usage_stats, flushed_stats},
           \A k \in Kinds : IsMoveOf(w, new, k)
    PROVE  UsageInv'
  <1>1. worker \in [Workers -> WorkerType] /\ worker' \in [Workers -> WorkerType]
    BY DEF UsageInv, UsageTypeOK, WorkerType
  <1>2. inserting' \subseteq {v \in Workers : HasToRecord(v)}'
    BY <1>1 DEF UsageInv, UsageTypeOK, HasToRecord
  <1>3. UsageTypeOK'
    BY <1>1, <1>2 DEF UsageInv, UsageTypeOK, FitsColumns, WorkerType
  <1>4. FitsColumns(flushed_stats)'
    BY DEF UsageInv, UsageTypeOK, FitsColumns, Counter
  <1>5. FavorInv'
    <2> SUFFICES ASSUME NEW k \in Kinds
                 PROVE  /\ usage_stats.count[k] + Cardinality(Unsettled(k))'
                               <= things'[k] + collisions
                        /\ flushed_stats'.count[k] <= things'[k] + collisions
      BY DEF FavorInv
    <2> DEFINE before == IF IsUnsettled(worker[w], k) THEN 1 ELSE 0
               after == IF IsUnsettled(new, k) THEN 1 ELSE 0
    <2>1. Cardinality(Unsettled(k))' = Cardinality(Unsettled(k)) + after - before
      BY <1>1, SettleOne
    <2>2. /\ things'[k] - things[k] >= after - before
          /\ \/ things'[k] >= things[k]
             \/ before = 1 /\ things'[k] = things[k] - 1 /\ flushed_stats' = usage_stats
      BY DEF IsMoveOf
    <2>3. before \in {0, 1} /\ after \in {0, 1} /\ things'[k] \in Nat
      OBVIOUS
    <2>4. before = 1 => Cardinality(Unsettled(k)) >= 1
      <3>1. before = 1 => Unsettled(k) # {}
        BY DEF Unsettled, WorkersAt, IsUnsettled
      <3>2. Cardinality(Unsettled(k)) = 0 <=> Unsettled(k) = {}
        BY UnsettledSize, FS_EmptySet
      <3> QED
        BY <3>1, <3>2, UnsettledSize
    <2> HIDE DEF before, after
    <2> QED
      BY <2>1, <2>2, <2>3, <2>4, KindTypes
  <1> QED
    BY <1>3, <1>4, <1>5 DEF UsageInv

\* What a request records, for each kind: the counter follows the request.
LEMMA RecordedRow ==
    ASSUME UsageInv, NEW w \in Workers, HasToRecord(w), AfterRecord(w)
    PROVE  /\ FitsColumns(Recorded(w))
           /\ \A k \in Kinds :
                 Recorded(w).count[k] + Cardinality(Unsettled(k))' <= things[k] + collisions
  <1> DEFINE kind == worker[w].kind
             new == IF IsAt(w, "decrementing") THEN [stage |-> "deleting", kind |-> kind]
                    ELSE Idle
  <1>1. /\ worker \in [Workers -> WorkerType] /\ kind \in Kinds /\ hour \in Nat
        /\ FitsColumns(usage_stats)
    BY DEF UsageInv, UsageTypeOK, WorkerType, FitsColumns, Counter
  <1>2. worker' = [worker EXCEPT ![w] = new]
    BY DEF AfterRecord, Enter, Finish
  <1>3. worker[w].stage \in {"created", "reconfiguring", "decrementing", "undoing"}
    BY DEF HasToRecord
  <1>4. /\ FitsColumns(AddEvent(kind, usage_stats))
        /\ AddEvent(kind, usage_stats).count = usage_stats.count
    BY <1>1, AddEventRow
  <1>5. FitsColumns(Recorded(w))
    BY <1>1, <1>3, <1>4, IncrementRow, DecrementRow DEF Recorded, IsAt
  <1>6. ASSUME NEW k \in Kinds
        PROVE  Recorded(w).count[k] + Cardinality(Unsettled(k))' <= things[k] + collisions
    <2> DEFINE before == IF IsUnsettled(worker[w], k) THEN 1 ELSE 0
               after == IF IsUnsettled(new, k) THEN 1 ELSE 0
    <2>1. Cardinality(Unsettled(k))' = Cardinality(Unsettled(k)) + after - before
      BY <1>1, <1>2, SettleOne
    <2>2. Cardinality(Unsettled(k))' <= MAX_SMALLINT /\ Cardinality(Unsettled(k))' \in Nat
      <3>1. Unsettled(k)' \in SUBSET Workers
        BY DEF Unsettled, WorkersAt
      <3> QED
        BY <3>1, UsageStatsAssumption, FS_Subset, FS_CardinalityType
    <2>3. Recorded(w).count[k] \in Int
      BY <1>5 DEF FitsColumns, Usage
    <2>4. ~IsUnsettled(Idle, k)
      BY IdleIsWorker
    <2>5. CASE kind # k
      <3>1. before = 0 /\ after = 0
        BY <2>4, <2>5 DEF IsUnsettled
      <3>2. Recorded(w) \in {Increment(kind, AddEvent(kind, usage_stats)),
                              AddEvent(kind, usage_stats),
                              Decrement(kind, usage_stats),
                              Increment(kind, usage_stats)}
        BY <1>3 DEF Recorded, IsAt
      <3>3. Recorded(w).count[k] = usage_stats.count[k]
        <4>1. /\ Increment(kind, AddEvent(kind, usage_stats)).count[k]
                    = AddEvent(kind, usage_stats).count[k]
              /\ Increment(kind, usage_stats).count[k] = usage_stats.count[k]
          BY <1>1, <1>4, <2>5, IncrementRow
        <4>2. Decrement(kind, usage_stats).count[k] = usage_stats.count[k]
          BY <1>1, <2>5, DecrementRow
        <4> QED
          BY <1>4, <3>2, <4>1, <4>2
      <3> QED
        BY <2>1, <3>1, <3>3, KindTypes
    <2>6. CASE kind = k /\ worker[w].stage \in {"created", "undoing"}
      <3>1. before = 1 /\ after = 0
        BY <2>4, <2>6 DEF IsUnsettled, IsAt
      <3>2. Recorded(w).count[k] <= usage_stats.count[k] + 1
        BY <1>1, <1>4, <2>6, IncrementRow DEF Recorded, IsAt
      <3> QED
        BY <2>1, <2>3, <3>1, <3>2, KindTypes
    <2>7. CASE kind = k /\ worker[w].stage = "reconfiguring"
      <3>1. before = 0 /\ after = 0
        BY <2>4, <2>7 DEF IsUnsettled, IsAt
      <3>2. Recorded(w).count[k] = usage_stats.count[k]
        BY <1>1, <1>4, <2>7 DEF Recorded, IsAt
      <3> QED
        BY <2>1, <3>1, <3>2, KindTypes
    <2>8. CASE kind = k /\ worker[w].stage = "decrementing"
      <3>1. before = 0 /\ after = 1
        BY <2>8 DEF IsUnsettled, IsAt
      <3>2. Recorded(w) = Decrement(kind, usage_stats)
        BY <2>8 DEF Recorded, IsAt
      <3>3. \/ Recorded(w).count[k] = usage_stats.count[k] - 1
            \/ Recorded(w).count[k] = -MAX_SMALLINT - 1
        BY <1>1, <2>8, <3>2, DecrementRow
      <3> QED
        BY <2>1, <2>2, <3>1, <3>3, KindTypes, UsageStatsAssumption
    <2> QED
      BY <1>3, <2>5, <2>6, <2>7, <2>8
  <1> QED
    BY <1>5, <1>6

\* The types after a request has recorded something, or has lost it.
LEMMA AfterRecordTypes ==
    ASSUME UsageInv, NEW w \in Workers, AfterRecord(w),
           inserting' = inserting \ {w} \/ (inserting' = inserting /\ w \notin inserting)
    PROVE  /\ worker' \in [Workers -> WorkerType]
           /\ inserting' \subseteq {v \in Workers : HasToRecord(v)}'
  <1>1. worker \in [Workers -> WorkerType] /\ inserting \subseteq {v \in Workers : HasToRecord(v)}
    BY DEF UsageInv, UsageTypeOK, WorkerType
  <1>2. PICK new \in WorkerType : worker' = [worker EXCEPT ![w] = new]
    BY <1>1, IdleIsWorker DEF AfterRecord, Enter, Finish, WorkerType, Stages
  <1> QED
    BY <1>1, <1>2 DEF HasToRecord

LEMMA RecordInv ==
    ASSUME UsageInv, NEW w \in Workers, UpdateUsage(w) \/ InsertUsage(w)
    PROVE  UsageInv'
  <1>1. HasToRecord(w)
    BY DEF UpdateUsage, InsertUsage, UsageInv, UsageTypeOK
  <1>2. CASE UpdateUsage(w) /\ ~usage_stats.exists
    <2>1. /\ UNCHANGED <<hour, usage_stats, flushed_stats, things, worker, collisions, faults>>
          /\ inserting' = inserting \cup {w}
      BY <1>2 DEF UpdateUsage
    <2>2. UsageTypeOK'
      BY <1>1, <2>1 DEF UsageInv, UsageTypeOK, HasToRecord
    <2> QED
      BY <2>1, <2>2 DEF UsageInv, FitsColumns, FavorInv, Unsettled, WorkersAt
  <1>3. CASE InsertUsage(w) /\ usage_stats.exists
    <2>1. /\ UNCHANGED <<hour, usage_stats, flushed_stats, things, faults>>
          /\ collisions' = collisions + 1 /\ AfterRecord(w)
          /\ inserting' = inserting \ {w}
      BY <1>3 DEF InsertUsage
    <2>2. UsageTypeOK'
      <3>1. /\ worker' \in [Workers -> WorkerType]
            /\ inserting' \subseteq {v \in Workers : HasToRecord(v)}'
        BY <2>1, AfterRecordTypes
      <3>2. collisions' \in Nat
        BY <2>1 DEF UsageInv, UsageTypeOK
      <3> QED
        BY <2>1, <3>1, <3>2 DEF UsageInv, UsageTypeOK, WorkerType
    <2>3. FavorInv'
      <3> SUFFICES ASSUME NEW k \in Kinds
                   PROVE  /\ usage_stats.count[k] + Cardinality(Unsettled(k))'
                                 <= things[k] + collisions + 1
                          /\ flushed_stats.count[k] <= things[k] + collisions + 1
        BY <2>1, KindTypes DEF FavorInv
      <3>1. PICK new : worker' = [worker EXCEPT ![w] = new]
        BY <2>1 DEF AfterRecord, Enter, Finish
      <3>2. Cardinality(Unsettled(k))' =
                Cardinality(Unsettled(k)) + (IF IsUnsettled(new, k) THEN 1 ELSE 0)
                                          - (IF IsUnsettled(worker[w], k) THEN 1 ELSE 0)
        BY <3>1, SettleOne DEF UsageInv, UsageTypeOK, WorkerType
      <3> QED
        BY <3>2, KindTypes
    <2> QED
      BY <2>1, <2>2, <2>3 DEF UsageInv, FitsColumns
  <1>4. CASE \/ UpdateUsage(w) /\ usage_stats.exists
             \/ InsertUsage(w) /\ ~usage_stats.exists
    <2>1. /\ UNCHANGED <<hour, flushed_stats, things, collisions, faults>>
          /\ AfterRecord(w)
          /\ inserting' = inserting \ {w} \/ (inserting' = inserting /\ w \notin inserting)
          /\ usage_stats' \in {Recorded(w), [Recorded(w) EXCEPT !.exists = TRUE]}
      BY <1>4 DEF UpdateUsage, InsertUsage
    <2>2. FitsColumns(usage_stats') /\ usage_stats'.count = Recorded(w).count
      BY <1>1, <2>1, RecordedRow, ExistingRow
    <2>3. UsageTypeOK'
      BY <2>1, <2>2, AfterRecordTypes
      DEF UsageInv, UsageTypeOK, WorkerType, FitsColumns, Counter
    <2>4. FavorInv'
      BY <1>1, <2>1, <2>2, RecordedRow DEF UsageInv, FavorInv
    <2> QED
      BY <2>1, <2>3, <2>4 DEF UsageInv, FitsColumns
  <1> QED
    BY <1>2, <1>3, <1>4

\* What a request does besides recording.
LEMMA RequestInv ==
    ASSUME UsageInv, NEW w \in Workers,
           \/ \E k \in Kinds : \/ AllowCreation(w, k) \/ Reconfigure(w, k)
                               \/ BeginDeletion(w, k)
           \/ RefuseCreation(w) \/ FailToDelete(w) \/ CrashWorker(w)
    PROVE  UsageInv'
  <1>1. worker[w] \in WorkerType /\ things \in [Kinds -> Nat] /\ faults \in Nat
    BY DEF UsageInv, UsageTypeOK, WorkerType
  <1>2. PICK new \in WorkerType :
            /\ worker' = [worker EXCEPT ![w] = new]
            /\ \A k \in Kinds : IsUnsettled(new, k) => IsUnsettled(worker[w], k)
    BY <1>1, IdleIsWorker
    DEF AllowCreation, Reconfigure, BeginDeletion, RefuseCreation, FailToDelete,
        CrashWorker, IsAt, Enter, Finish, WorkerType, Stages, IsUnsettled
  <1>3. /\ UNCHANGED <<hour, usage_stats, collisions, things, flushed_stats>>
        /\ inserting' = inserting \ {w} \/ (inserting' = inserting /\ ~HasToRecord(w))
        /\ faults' \in Nat
    BY <1>1 DEF AllowCreation, Reconfigure, BeginDeletion, RefuseCreation,
       FailToDelete, CrashWorker, IsAt, HasToRecord
  <1>4. \A k \in Kinds : IsMoveOf(w, new, k)
    BY <1>1, <1>2, <1>3 DEF IsMoveOf
  <1> QED
    BY <1>1, <1>2, <1>3, <1>4, MoveInv

LEMMA CreateInv ==
    ASSUME UsageInv, NEW w \in Workers, Create(w)
    PROVE  UsageInv'
  <1> DEFINE kind == worker[w].kind
             new == [stage |-> "created", kind |-> kind]
  <1>1. /\ worker[w] \in WorkerType /\ things \in [Kinds -> Nat] /\ faults \in Nat
        /\ kind \in Kinds /\ new \in WorkerType
    BY DEF UsageInv, UsageTypeOK, WorkerType, Stages
  <1>2. /\ worker' = [worker EXCEPT ![w] = new]
        /\ things' = [things EXCEPT ![kind] = @ + 1]
        /\ UNCHANGED <<hour, usage_stats, collisions, inserting, faults>>
        /\ flushed_stats' = usage_stats /\ ~HasToRecord(w)
    BY DEF Create, Enter, IsAt, HasToRecord
  <1>3. \A k \in Kinds : IsUnsettled(new, k) => k = kind
    BY DEF IsUnsettled
  <1> HIDE DEF new
  <1>4. things' \in [Kinds -> Nat] /\ \A k \in Kinds :
            things'[k] = IF k = kind THEN things[k] + 1 ELSE things[k]
    BY <1>1, <1>2
  <1>5. \A k \in Kinds : IsMoveOf(w, new, k)
    BY <1>1, <1>3, <1>4 DEF IsMoveOf
  <1> QED
    BY <1>1, <1>2, <1>4, <1>5, MoveInv

LEMMA DeleteInv ==
    ASSUME UsageInv, NEW w \in Workers, Delete(w)
    PROVE  UsageInv'
  <1> DEFINE kind == worker[w].kind
  <1>1. /\ worker[w] \in WorkerType /\ things \in [Kinds -> Nat] /\ faults \in Nat
        /\ kind \in Kinds /\ Idle \in WorkerType
    BY IdleIsWorker DEF UsageInv, UsageTypeOK, WorkerType
  <1>2. /\ worker' = [worker EXCEPT ![w] = Idle]
        /\ things[kind] > 0 /\ things' = [things EXCEPT ![kind] = @ - 1]
        /\ UNCHANGED <<hour, usage_stats, collisions, inserting, faults>>
        /\ flushed_stats' = usage_stats /\ ~HasToRecord(w)
    BY DEF Delete, AfterDeletion, Finish, IsAt, HasToRecord
  <1>3. IsUnsettled(worker[w], kind) /\ \A k \in Kinds : ~IsUnsettled(Idle, k)
    BY IdleIsWorker DEF Delete, IsAt, IsUnsettled
  <1>4. \A k \in Kinds : k # kind => ~IsUnsettled(worker[w], k)
    BY DEF IsUnsettled
  <1>5. things' \in [Kinds -> Nat] /\ \A k \in Kinds :
            things'[k] = IF k = kind THEN things[k] - 1 ELSE things[k]
    BY <1>1, <1>2
  <1>6. \A k \in Kinds : IsMoveOf(w, Idle, k)
    BY <1>1, <1>2, <1>3, <1>4, <1>5 DEF IsMoveOf
  <1> QED
    BY <1>1, <1>2, <1>5, <1>6, MoveInv

\* After a crash of the database nobody is unsettled, and what is left of the
\* row is as old as the last creation or deletion, or younger.
LEMMA CrashDatabaseInv == UsageInv /\ CrashDatabase => UsageInv'
  <1> SUFFICES ASSUME UsageInv, CrashDatabase
               PROVE  UsageInv'
    OBVIOUS
  <1> USE DEF CrashDatabase
  <1>1. worker' \in [Workers -> WorkerType]
    BY IdleIsWorker
  <1>2. UsageTypeOK'
    BY <1>1 DEF UsageInv, UsageTypeOK, WorkerType, FitsColumns, Counter
  <1>3. \A k \in Kinds : Cardinality(Unsettled(k))' = 0
    <2>1. \A k \in Kinds : Unsettled(k)' = {}
      BY IdleIsWorker DEF Unsettled, WorkersAt, IsUnsettled
    <2> QED
      BY <2>1, FS_EmptySet
  <1>4. FavorInv'
    BY <1>3, KindTypes DEF FavorInv
  <1> QED
    BY <1>2, <1>4 DEF UsageInv, FitsColumns

LEMMA UsageOtherInv ==
    ASSUME UsageInv, NextHour \/ FlushLog \/ UNCHANGED usage_vars
    PROVE  UsageInv'
  <1> USE DEF NextHour, FlushLog, usage_vars
  <1>1. /\ UNCHANGED <<usage_stats, things, worker, inserting, collisions, faults>>
        /\ flushed_stats' \in {usage_stats, flushed_stats}
        /\ hour' \in Nat
    BY DEF UsageInv, UsageTypeOK
  <1>2. UsageTypeOK'
    BY <1>1 DEF UsageInv, UsageTypeOK, HasToRecord
  <1>3. FitsColumns(flushed_stats)'
    BY <1>1 DEF UsageInv, UsageTypeOK, FitsColumns, Counter
  <1>4. FavorInv'
    <2>1. \A k : Unsettled(k)' = Unsettled(k)
      BY <1>1 DEF Unsettled, WorkersAt
    <2>2. ASSUME NEW k \in Kinds
          PROVE  /\ usage_stats.count[k] + Cardinality(Unsettled(k)) <= things[k] + collisions
                 /\ flushed_stats'.count[k] <= things[k] + collisions
      BY <1>1, KindTypes
    <2> QED
      BY <1>1, <2>1, <2>2 DEF FavorInv
  <1> QED
    BY <1>2, <1>3, <1>4 DEF UsageInv

LEMMA UsageNextInv == UsageInv /\ [UsageNext]_usage_vars => UsageInv'
  <1> SUFFICES ASSUME UsageInv, [UsageNext]_usage_vars
               PROVE  UsageInv'
    OBVIOUS
  <1>1. ASSUME NEW w \in Workers, UpdateUsage(w) \/ InsertUsage(w)
        PROVE  UsageInv'
    BY <1>1, RecordInv
  <1>2. ASSUME NEW w \in Workers,
               \/ \E k \in Kinds : \/ AllowCreation(w, k) \/ Reconfigure(w, k)
                                   \/ BeginDeletion(w, k)
               \/ RefuseCreation(w) \/ FailToDelete(w) \/ CrashWorker(w)
        PROVE  UsageInv'
    BY <1>2, RequestInv
  <1>3. ASSUME NEW w \in Workers, Create(w)
        PROVE  UsageInv'
    BY <1>3, CreateInv
  <1>4. ASSUME NEW w \in Workers, Delete(w)
        PROVE  UsageInv'
    BY <1>4, DeleteInv
  <1> QED
    BY <1>1, <1>2, <1>3, <1>4, CrashDatabaseInv, UsageOtherInv DEF UsageNext

\* The counters fit their columns and are never too high for what is on its
\* way, whatever fails.
THEOREM UsageCorrect == UsageSpec => []UsageInv
  BY UsageInitInv, UsageNextInv, PTL DEF UsageSpec

\* "In users' favor": a counter exceeds the real number by no more than the
\* collisions of first INSERTs.
THEOREM FavorCorrect == UsageSpec => []UsersFavor
  <1>1. UsageInv => UsersFavor
    BY KindTypes DEF UsersFavor
  <1> QED
    BY <1>1, UsageCorrect, PTL

-----------------------------------------------------------------------------
(* The limits, as long as nothing fails.                                   *)

\* The premise of LimitIsKept.
NothingFails ==
    /\ faults + collisions = 0
    /\ Greatest(MaxCount, MaxEvents) + Cardinality(Workers) - 1 <= MAX_SMALLINT

\* Requests that may still create something, and those that may still have to
\* record an event.
Allowed(k) == WorkersAt(k, {"allowed"})
Eventful(k) == WorkersAt(k, {"allowed", "created", "reconfiguring"})

\* The counter is not behind what it counts, except for the unsettled requests;
\* and every request that has been allowed has found the limit not reached.
LimitsOf(k) ==
    /\ things[k] <= usage_stats.count[k] + Cardinality(Unsettled(k))
    /\ things[k] + Cardinality(Allowed(k)) <= MaxCount + Cardinality(Workers) - 1
    /\ RecentEvents(k) + Cardinality(Eventful(k))
           <= MaxEvents + Cardinality(Workers) - 1
    /\ usage_stats.events[k] <= MaxEvents + Cardinality(Workers) - 1

LimitInv == NothingFails => \A k \in Kinds : LimitsOf(k)

IsOneOf(request, k, stages) == request.kind = k /\ request.stage \in stages

LEMMA WorkersAtSize ==
    ASSUME NEW k, NEW stages
    PROVE  /\ IsFiniteSet(WorkersAt(k, stages))
           /\ Cardinality(WorkersAt(k, stages)) \in Nat
           /\ Cardinality(WorkersAt(k, stages)) <= Cardinality(Workers)
           /\ \A w \in WorkersAt(k, stages) : Cardinality(WorkersAt(k, stages)) >= 1
  <1> DEFINE S == WorkersAt(k, stages)
  <1>1. S \in SUBSET Workers
    BY DEF WorkersAt
  <1>2. /\ IsFiniteSet(S) /\ Cardinality(S) <= Cardinality(Workers)
        /\ Cardinality(S) \in Nat
    BY <1>1, UsageStatsAssumption, FS_Subset, FS_CardinalityType
  <1> HIDE DEF S
  <1>3. \A w \in S : Cardinality(S) # 0
    BY <1>2, FS_EmptySet
  <1> QED
    BY <1>2, <1>3 DEF S

\* How the number of requests at some stages changes when one request moves.
LEMMA MoveOne ==
    ASSUME worker \in [Workers -> WorkerType], NEW w \in Workers, NEW new,
           worker' = [worker EXCEPT ![w] = new], NEW k, NEW stages
    PROVE  Cardinality(WorkersAt(k, stages)') =
               Cardinality(WorkersAt(k, stages))
               + (IF IsOneOf(new, k, stages) THEN 1 ELSE 0)
               - (IF IsOneOf(worker[w], k, stages) THEN 1 ELSE 0)
  <1> DEFINE S == WorkersAt(k, stages)
  <1>1. w \in S <=> IsOneOf(worker[w], k, stages)
    BY DEF WorkersAt, IsOneOf
  <1>2. S' = IF IsOneOf(new, k, stages) THEN (S \ {w}) \cup {w} ELSE S \ {w}
    BY DEF WorkersAt, IsOneOf
  <1>3. IsFiniteSet(S) /\ Cardinality(S) \in Nat
    BY WorkersAtSize
  <1> HIDE DEF S
  <1>4. /\ IsFiniteSet(S \ {w})
        /\ Cardinality(S \ {w}) = IF w \in S THEN Cardinality(S) - 1 ELSE Cardinality(S)
    BY <1>3, FS_RemoveElement
  <1>5. Cardinality((S \ {w}) \cup {w}) = Cardinality(S \ {w}) + 1
    BY <1>4, FS_AddElement
  <1>6. Cardinality(S') =
            Cardinality(S) + (IF IsOneOf(new, k, stages) THEN 1 ELSE 0)
                           - (IF IsOneOf(worker[w], k, stages) THEN 1 ELSE 0)
    BY <1>1, <1>2, <1>3, <1>4, <1>5
  <1> QED
    BY <1>6 DEF S

OnlyMoves(w) == worker' = [worker EXCEPT ![w] = worker'[w]]

LEMMA EnterMoves ==
    ASSUME UsageInv, NEW w \in Workers, NEW stage, NEW k, Enter(w, stage, k)
    PROVE  /\ OnlyMoves(w)
           /\ worker'[w].stage = stage /\ worker'[w].kind = k
  BY DEF Enter, OnlyMoves, UsageInv, UsageTypeOK

LEMMA FinishMoves ==
    ASSUME UsageInv, NEW w \in Workers, Finish(w)
    PROVE  OnlyMoves(w) /\ worker'[w].stage = "idle"
  BY DEF Finish, Idle, OnlyMoves, UsageInv, UsageTypeOK

\* The numbers of requests before and after one of them moves.
LEMMA MovedSizes ==
    ASSUME UsageInv, NEW w \in Workers, OnlyMoves(w), NEW k \in Kinds
    PROVE  /\ Cardinality(Unsettled(k)') =
                  Cardinality(Unsettled(k))
                  + (IF IsOneOf(worker'[w], k, {"created", "deleting", "undoing"})
                       THEN 1 ELSE 0)
                  - (IF IsOneOf(worker[w], k, {"created", "deleting", "undoing"})
                       THEN 1 ELSE 0)
           /\ Cardinality(Allowed(k)') =
                  Cardinality(Allowed(k))
                  + (IF IsOneOf(worker'[w], k, {"allowed"}) THEN 1 ELSE 0)
                  - (IF IsOneOf(worker[w], k, {"allowed"}) THEN 1 ELSE 0)
           /\ Cardinality(Eventful(k)') =
                  Cardinality(Eventful(k))
                  + (IF IsOneOf(worker'[w], k, {"allowed", "created", "reconfiguring"})
                       THEN 1 ELSE 0)
                  - (IF IsOneOf(worker[w], k,
                                {"allowed", "created", "reconfiguring"})
                       THEN 1 ELSE 0)
  BY MoveOne DEF OnlyMoves, UsageInv, UsageTypeOK, WorkerType, Unsettled, Allowed, Eventful

LEMMA LimitTypes ==
    ASSUME UsageInv, NEW k \in Kinds
    PROVE  /\ things[k] \in Nat /\ usage_stats.count[k] \in Int
           /\ usage_stats.events[k] \in Nat /\ usage_stats.reset_at[k] \in Nat
           /\ RecentEvents(k) \in Nat /\ hour \in Nat
           /\ Cardinality(Unsettled(k)) \in Nat
           /\ Cardinality(Allowed(k)) \in Nat
           /\ Cardinality(Eventful(k)) \in Nat
           /\ Cardinality(Workers) \in Nat
           /\ MaxCount \in Nat \ {0} /\ MaxEvents \in Nat \ {0}
  <1>1. /\ Cardinality(Unsettled(k)) \in Nat
        /\ Cardinality(Allowed(k)) \in Nat
        /\ Cardinality(Eventful(k)) \in Nat
    BY WorkersAtSize DEF Unsettled, Allowed, Eventful
  <1>2. Cardinality(Workers) \in Nat
    BY UsageStatsAssumption, FS_CardinalityType
  <1>3. /\ things[k] \in Nat /\ usage_stats.count[k] \in Int
        /\ usage_stats.events[k] \in Nat /\ usage_stats.reset_at[k] \in Nat
        /\ hour \in Nat
    BY UsageStatsAssumption DEF UsageInv, UsageTypeOK, Usage
  <1> QED
    BY <1>1, <1>2, <1>3, UsageStatsAssumption DEF RecentEvents

LEMMA LimitInit == UsageInit => LimitInv
  <1> SUFFICES ASSUME UsageInit, NEW k \in Kinds
               PROVE  LimitsOf(k)
    BY DEF LimitInv
  <1>1. /\ WorkersAt(k, {"created", "deleting", "undoing"}) = {}
        /\ WorkersAt(k, {"allowed"}) = {}
        /\ WorkersAt(k, {"allowed", "created", "reconfiguring"}) = {}
    <2>1. \A w \in Workers : worker[w].stage = "idle"
      BY DEF UsageInit, Idle
    <2> QED
      BY <2>1 DEF WorkersAt
  <1>2. /\ Cardinality(Unsettled(k)) = 0 /\ Cardinality(Allowed(k)) = 0
        /\ Cardinality(Eventful(k)) = 0
    BY <1>1, FS_EmptySet DEF Unsettled, Allowed, Eventful
  <1>3. /\ things[k] = 0 /\ usage_stats.count[k] = 0
        /\ usage_stats.events[k] = 0 /\ RecentEvents(k) = 0
    BY DEF UsageInit, NoUsage, RecentEvents
  <1>4. /\ MaxCount \in Nat \ {0} /\ MaxEvents \in Nat \ {0}
        /\ Cardinality(Workers) \in Nat
    BY UsageStatsAssumption, FS_CardinalityType
  <1>5. /\ 0 <= MaxCount + Cardinality(Workers) - 1
        /\ 0 <= MaxEvents + Cardinality(Workers) - 1
    BY <1>4
  <1> QED
    BY <1>2, <1>3, <1>5 DEF LimitsOf

\* A request is allowed: it has found the limit not reached, and with it no
\* more than all of them are on their way.
LEMMA AllowedSize ==
    ASSUME UsageInv, NEW w \in Workers, NEW k \in Kinds,
           IsAt(w, "idle"), Enter(w, "allowed", k)
    PROVE  Cardinality(Allowed(k)') + Cardinality(Unsettled(k)')
               <= Cardinality(Workers)
  <1> DEFINE A == Allowed(k)'
             U == Unsettled(k)'
  <1>1. /\ A \cap U = {} /\ A \cup U \in SUBSET Workers
        /\ A \in SUBSET Workers /\ U \in SUBSET Workers
    BY DEF Allowed, Unsettled, WorkersAt
  <1> HIDE DEF A, U
  <1>2. IsFiniteSet(A) /\ IsFiniteSet(U) /\ IsFiniteSet(A \cup U)
    BY <1>1, UsageStatsAssumption, FS_Subset
  <1>3. Cardinality(A \cup U) <= Cardinality(Workers)
    BY <1>1, UsageStatsAssumption, FS_Subset
  <1>4. Cardinality(A \cup U) =
            Cardinality(A) + Cardinality(U) - Cardinality(A \cap U)
    BY <1>2, FS_Union
  <1>5. /\ Cardinality(A \cap U) = 0
        /\ Cardinality(A) \in Nat /\ Cardinality(U) \in Nat
    BY <1>1, <1>2, FS_EmptySet, FS_CardinalityType
  <1> QED
    BY <1>3, <1>4, <1>5 DEF A, U

LEMMA AllowLimits ==
    ASSUME UsageInv, NEW w \in Workers, NEW j \in Kinds, NEW k \in Kinds,
           AllowCreation(w, j), LimitsOf(k)
    PROVE  LimitsOf(k)'
  <1>1. /\ OnlyMoves(w)
        /\ worker'[w].stage = "allowed" /\ worker'[w].kind = j
        /\ worker[w].stage = "idle"
    BY EnterMoves DEF AllowCreation, IsAt
  <1>5. /\ UNCHANGED <<hour, usage_stats, things>>
        /\ usage_stats.count[j] < MaxCount /\ RecentEvents(j) < MaxEvents
    BY DEF AllowCreation, is_creation_allowed, is_reconfig_allowed
  <1>2. RecentEvents(k)' = RecentEvents(k)
    BY <1>5 DEF RecentEvents, IsWithinPeriod
  <1>3. CASE k # j
    <2>1. /\ Cardinality(Unsettled(k)') = Cardinality(Unsettled(k))
          /\ Cardinality(Allowed(k)') = Cardinality(Allowed(k))
          /\ Cardinality(Eventful(k)') = Cardinality(Eventful(k))
      BY <1>1, <1>3, MovedSizes, LimitTypes DEF IsOneOf
    <2> QED
      BY <1>5, <1>2, <2>1 DEF LimitsOf
  <1>4. CASE k = j
    <2>1. Cardinality(Unsettled(k)') = Cardinality(Unsettled(k))
      BY <1>1, MovedSizes, LimitTypes DEF IsOneOf
    <2>2. Cardinality(Allowed(k)') + Cardinality(Unsettled(k))
              <= Cardinality(Workers)
      BY <1>4, <2>1, AllowedSize DEF AllowCreation
    <2>3. Cardinality(Eventful(k)') <= Cardinality(Workers)
      <3>1. Eventful(k)' \in SUBSET Workers
        BY DEF Eventful, WorkersAt
      <3> QED
        BY <3>1, UsageStatsAssumption, FS_Subset
    <2>4. /\ Cardinality(Eventful(k)') \in Nat
          /\ Cardinality(Allowed(k)') \in Nat
      BY <1>1, MovedSizes, LimitTypes DEF IsOneOf
    <2>5. things[k] + Cardinality(Allowed(k)')
              <= MaxCount + Cardinality(Workers) - 1
      BY <1>5, <1>4, <2>2, <2>4, LimitTypes DEF LimitsOf
    <2>6. RecentEvents(k) + Cardinality(Eventful(k)')
              <= MaxEvents + Cardinality(Workers) - 1
      BY <1>5, <1>4, <2>3, <2>4, LimitTypes
    <2> QED
      BY <1>5, <1>2, <2>1, <2>5, <2>6 DEF LimitsOf
  <1> QED
    BY <1>3, <1>4

LEMMA ReconfigureLimits ==
    ASSUME UsageInv, NEW w \in Workers, NEW j \in Kinds, NEW k \in Kinds,
           Reconfigure(w, j), LimitsOf(k)
    PROVE  LimitsOf(k)'
  <1>1. /\ OnlyMoves(w)
        /\ worker'[w].stage = "reconfiguring" /\ worker'[w].kind = j
        /\ worker[w].stage = "idle"
    BY EnterMoves DEF Reconfigure, IsAt
  <1>5. /\ UNCHANGED <<hour, usage_stats, things>>
        /\ RecentEvents(j) < MaxEvents
    BY DEF Reconfigure, is_reconfig_allowed
  <1>2. RecentEvents(k)' = RecentEvents(k)
    BY <1>5 DEF RecentEvents, IsWithinPeriod
  <1>3. /\ Cardinality(Unsettled(k)') = Cardinality(Unsettled(k))
        /\ Cardinality(Allowed(k)') = Cardinality(Allowed(k))
    BY <1>1, MovedSizes, LimitTypes DEF IsOneOf
  <1>4. RecentEvents(k) + Cardinality(Eventful(k)')
            <= MaxEvents + Cardinality(Workers) - 1
    <2>1. CASE k # j
      <3>1. Cardinality(Eventful(k)') = Cardinality(Eventful(k))
        BY <1>1, <2>1, MovedSizes, LimitTypes DEF IsOneOf
      <3> QED
        BY <3>1 DEF LimitsOf
    <2>2. CASE k = j
      <3>1. Eventful(k)' \in SUBSET Workers
        BY DEF Eventful, WorkersAt
      <3>2. Cardinality(Eventful(k)') <= Cardinality(Workers)
        BY <3>1, UsageStatsAssumption, FS_Subset
      <3>3. Cardinality(Eventful(k)') \in Nat
        BY <1>1, MovedSizes, LimitTypes DEF IsOneOf
      <3> QED
        BY <1>5, <2>2, <3>2, <3>3, LimitTypes
    <2> QED
      BY <2>1, <2>2
  <1> QED
    BY <1>2, <1>3, <1>4, <1>5 DEF LimitsOf

\* The stages that a request leaves without recording anything.
LEMMA QuietLimits ==
    ASSUME UsageInv, NEW w \in Workers, NEW k \in Kinds, LimitsOf(k),
           \/ RefuseCreation(w) \/ FailToDelete(w)
           \/ \E j \in Kinds : BeginDeletion(w, j)
    PROVE  LimitsOf(k)'
  <1>1. /\ OnlyMoves(w)
        /\ \/ worker[w].stage = "allowed" /\ worker'[w].stage = "idle"
           \/ /\ worker[w].stage = "deleting" /\ worker'[w].stage = "undoing"
              /\ worker'[w].kind = worker[w].kind
           \/ worker[w].stage = "idle" /\ worker'[w].stage = "decrementing"
    BY EnterMoves, FinishMoves
       DEF RefuseCreation, FailToDelete, BeginDeletion, IsAt
  <1>2. UNCHANGED <<hour, usage_stats, things>>
    BY DEF RefuseCreation, FailToDelete, BeginDeletion
  <1>3. RecentEvents(k)' = RecentEvents(k)
    BY <1>2 DEF RecentEvents, IsWithinPeriod
  <1>4. /\ Cardinality(Unsettled(k)') = Cardinality(Unsettled(k))
        /\ Cardinality(Allowed(k)') \in Int
        /\ Cardinality(Allowed(k)') <= Cardinality(Allowed(k))
        /\ Cardinality(Eventful(k)') \in Int
        /\ Cardinality(Eventful(k)') <= Cardinality(Eventful(k))
    BY <1>1, MovedSizes, LimitTypes DEF IsOneOf
  <1>5. /\ things[k] + Cardinality(Allowed(k)')
               <= MaxCount + Cardinality(Workers) - 1
        /\ RecentEvents(k) + Cardinality(Eventful(k)')
               <= MaxEvents + Cardinality(Workers) - 1
    BY <1>4, LimitTypes DEF LimitsOf
  <1> QED
    BY <1>2, <1>3, <1>4, <1>5 DEF LimitsOf

\* What has been allowed is created, what has been subtracted is deleted.
LEMMA RealLimits ==
    ASSUME UsageInv, NEW w \in Workers, NEW k \in Kinds, LimitsOf(k),
           Create(w) \/ Delete(w)
    PROVE  LimitsOf(k)'
  <1>1. /\ things \in [Kinds -> Nat] /\ worker[w].kind \in Kinds
    BY DEF UsageInv, UsageTypeOK
  <1>2. /\ UNCHANGED <<hour, usage_stats>>
        /\ RecentEvents(k)' = RecentEvents(k)
    BY DEF Create, Delete, RecentEvents, IsWithinPeriod
  <1>3. CASE Create(w)
    <2>1. /\ OnlyMoves(w)
          /\ worker[w].stage = "allowed" /\ worker'[w].stage = "created"
          /\ worker'[w].kind = worker[w].kind
          /\ things' = [things EXCEPT ![worker[w].kind] = @ + 1]
      BY <1>3, EnterMoves DEF Create, IsAt
    <2>2. Cardinality(Eventful(k)') = Cardinality(Eventful(k))
      BY <2>1, MovedSizes, LimitTypes DEF IsOneOf
    <2>3. CASE k # worker[w].kind
      <3>1. /\ Cardinality(Unsettled(k)') = Cardinality(Unsettled(k))
            /\ Cardinality(Allowed(k)') = Cardinality(Allowed(k))
            /\ things'[k] = things[k]
        BY <1>1, <2>1, <2>3, MovedSizes, LimitTypes DEF IsOneOf
      <3> QED
        BY <1>2, <2>2, <3>1 DEF LimitsOf
    <2>4. CASE k = worker[w].kind
      <3>1. /\ Cardinality(Unsettled(k)') = Cardinality(Unsettled(k)) + 1
            /\ Cardinality(Allowed(k)') = Cardinality(Allowed(k)) - 1
            /\ things'[k] = things[k] + 1
        BY <1>1, <2>1, <2>4, MovedSizes, LimitTypes DEF IsOneOf
      <3>2. /\ things'[k] <= usage_stats.count[k] + Cardinality(Unsettled(k)')
            /\ things'[k] + Cardinality(Allowed(k)')
                   <= MaxCount + Cardinality(Workers) - 1
        BY <3>1, LimitTypes DEF LimitsOf
      <3> QED
        BY <1>2, <2>2, <3>2 DEF LimitsOf
    <2> QED
      BY <2>3, <2>4
  <1>4. CASE Delete(w)
    <2>1. /\ OnlyMoves(w)
          /\ worker[w].stage = "deleting" /\ worker'[w].stage = "idle"
          /\ things' = [things EXCEPT ![worker[w].kind] = @ - 1]
      BY <1>4, FinishMoves DEF Delete, AfterDeletion, IsAt
    <2>2. /\ Cardinality(Eventful(k)') = Cardinality(Eventful(k))
          /\ Cardinality(Allowed(k)') = Cardinality(Allowed(k))
      BY <2>1, MovedSizes, LimitTypes DEF IsOneOf
    <2>3. CASE k # worker[w].kind
      <3>1. /\ Cardinality(Unsettled(k)') = Cardinality(Unsettled(k))
            /\ things'[k] = things[k]
        BY <1>1, <2>1, <2>3, MovedSizes, LimitTypes DEF IsOneOf
      <3> QED
        BY <1>2, <2>2, <3>1 DEF LimitsOf
    <2>4. CASE k = worker[w].kind
      <3>1. /\ Cardinality(Unsettled(k)') = Cardinality(Unsettled(k)) - 1
            /\ things'[k] = things[k] - 1
        BY <1>1, <2>1, <2>4, MovedSizes, LimitTypes DEF IsOneOf
      <3>2. /\ things'[k] <= usage_stats.count[k] + Cardinality(Unsettled(k)')
            /\ things'[k] + Cardinality(Allowed(k))
                   <= MaxCount + Cardinality(Workers) - 1
        BY <3>1, LimitTypes DEF LimitsOf
      <3> QED
        BY <1>2, <2>2, <3>2 DEF LimitsOf
    <2> QED
      BY <2>3, <2>4
  <1> QED
    BY <1>3, <1>4

\* The events of a row, and its counters, one kind at a time.
LEMMA AddEventEvents ==
    ASSUME UsageInv, NEW j \in Kinds, NEW k \in Kinds
    PROVE  /\ AddEvent(j, usage_stats).count = usage_stats.count
           /\ k = j => AddEvent(j, usage_stats).events[k] <= RecentEvents(k) + 1
           /\ k # j =>
                 /\ AddEvent(j, usage_stats).events[k] = usage_stats.events[k]
                 /\ AddEvent(j, usage_stats).reset_at[k] = usage_stats.reset_at[k]
  <1>1. /\ usage_stats \in Usage /\ usage_stats.events[j] \in Nat
        /\ usage_stats.events[j] <= MAX_SMALLINT /\ MAX_SMALLINT \in Nat
    BY UsageStatsAssumption DEF UsageInv, UsageTypeOK
  <1>2. CASE IsWithinPeriod(j)
    <2>1. AddEvent(j, usage_stats) =
              [usage_stats EXCEPT !.events[j] = Least(@ + 1, MAX_SMALLINT)]
      BY <1>2 DEF AddEvent, IsWithinPeriod
    <2>2. Least(usage_stats.events[j] + 1, MAX_SMALLINT) <= usage_stats.events[j] + 1
      BY <1>1 DEF Least
    <2> QED
      BY <1>1, <1>2, <2>1, <2>2 DEF Usage, RecentEvents
  <1>3. CASE ~IsWithinPeriod(j)
    <2>1. AddEvent(j, usage_stats) =
              [usage_stats EXCEPT !.events[j] = 1,
                                  !.reset_at[j] = hour + CLEAR_HOURS]
      BY <1>3 DEF AddEvent, IsWithinPeriod
    <2> QED
      BY <1>1, <1>3, <2>1 DEF Usage, RecentEvents
  <1> QED
    BY <1>2, <1>3

LEMMA IncrementCount ==
    ASSUME NEW row \in Usage, NEW j \in Kinds, NEW k \in Kinds
    PROVE  /\ Increment(j, row).events = row.events
           /\ Increment(j, row).reset_at = row.reset_at
           /\ k # j => Increment(j, row).count[k] = row.count[k]
           /\ k = j /\ row.count[k] < MAX_SMALLINT =>
                  Increment(j, row).count[k] = row.count[k] + 1
  BY UsageStatsAssumption DEF Increment, Usage, Least

LEMMA DecrementCount ==
    ASSUME NEW row \in Usage, NEW j \in Kinds, NEW k \in Kinds
    PROVE  /\ Decrement(j, row).events = row.events
           /\ Decrement(j, row).reset_at = row.reset_at
           /\ k # j => Decrement(j, row).count[k] = row.count[k]
           /\ k = j => Decrement(j, row).count[k] >= row.count[k] - 1
  BY UsageStatsAssumption DEF Decrement, Usage, Greatest

\* What a request records of each kind.
RecordsEvent(w, k) == IsOneOf(worker[w], k, {"created", "reconfiguring"})

LEMMA RecordedOf ==
    ASSUME UsageInv, NEW w \in Workers, HasToRecord(w), NEW k \in Kinds
    PROVE  /\ RecordsEvent(w, k) =>
                  Recorded(w).events[k] <= RecentEvents(k) + 1
           /\ ~RecordsEvent(w, k) =>
                  /\ Recorded(w).events[k] = usage_stats.events[k]
                  /\ Recorded(w).reset_at[k] = usage_stats.reset_at[k]
           /\ IsOneOf(worker[w], k, {"created", "undoing"})
                /\ usage_stats.count[k] < MAX_SMALLINT =>
                  Recorded(w).count[k] = usage_stats.count[k] + 1
           /\ IsOneOf(worker[w], k, {"decrementing"}) =>
                  Recorded(w).count[k] >= usage_stats.count[k] - 1
           /\ ~IsOneOf(worker[w], k, {"created", "undoing", "decrementing"}) =>
                  Recorded(w).count[k] = usage_stats.count[k]
  <1> DEFINE j == worker[w].kind
             added == AddEvent(j, usage_stats)
  <1>1. j \in Kinds /\ usage_stats \in Usage /\ hour \in Nat
    BY DEF UsageInv, UsageTypeOK
  <1>2. /\ added \in Usage
        /\ added.count = usage_stats.count
        /\ k = j => added.events[k] <= RecentEvents(k) + 1
        /\ k # j => /\ added.events[k] = usage_stats.events[k]
                    /\ added.reset_at[k] = usage_stats.reset_at[k]
    <2>1. FitsColumns(usage_stats)
      BY DEF UsageInv, UsageTypeOK, FitsColumns, Counter
    <2> QED
      BY <1>1, <2>1, AddEventEvents, AddEventRow DEF FitsColumns
  <1> HIDE DEF added, j
  <1>3. CASE worker[w].stage = "created"
    <2>1. Recorded(w) = Increment(j, added)
      BY <1>3 DEF Recorded, IsAt, j, added
    <2> QED
      BY <1>1, <1>2, <1>3, <2>1, IncrementCount DEF IsOneOf, RecordsEvent, j
  <1>4. CASE worker[w].stage = "reconfiguring"
    <2>1. Recorded(w) = added
      BY <1>4 DEF Recorded, IsAt, j, added
    <2> QED
      BY <1>2, <1>4, <2>1 DEF IsOneOf, RecordsEvent, j
  <1>5. CASE worker[w].stage = "decrementing"
    <2>1. Recorded(w) = Decrement(j, usage_stats)
      BY <1>5 DEF Recorded, IsAt, j
    <2> QED
      BY <1>1, <1>5, <2>1, DecrementCount DEF IsOneOf, RecordsEvent, j
  <1>6. CASE worker[w].stage = "undoing"
    <2>1. Recorded(w) = Increment(j, usage_stats)
      BY <1>6 DEF Recorded, IsAt, j
    <2> QED
      BY <1>1, <1>6, <2>1, IncrementCount DEF IsOneOf, RecordsEvent, j
  <1> QED
    BY <1>3, <1>4, <1>5, <1>6 DEF HasToRecord

\* A request records what it has done.  The counter is below the end of its
\* column, for it is below the real number.
LEMMA RecordLimits ==
    ASSUME UsageInv, UsageInv', NEW w \in Workers, NEW k \in Kinds,
           NothingFails, LimitsOf(k), HasToRecord(w), AfterRecord(w),
           UNCHANGED <<hour, things>>,
           usage_stats'.count = Recorded(w).count,
           usage_stats'.events = Recorded(w).events,
           usage_stats'.reset_at = Recorded(w).reset_at
    PROVE  LimitsOf(k)'
  <1>1. /\ OnlyMoves(w)
        /\ IF worker[w].stage = "decrementing"
             THEN /\ worker'[w].stage = "deleting"
                  /\ worker'[w].kind = worker[w].kind
             ELSE worker'[w].stage = "idle"
    BY EnterMoves, FinishMoves DEF AfterRecord, IsAt
  <1>2. worker[w].stage \in {"created", "reconfiguring", "decrementing", "undoing"}
    BY DEF HasToRecord
  <1>3. Cardinality(Allowed(k)') = Cardinality(Allowed(k))
    BY <1>1, <1>2, MovedSizes, LimitTypes DEF IsOneOf
  <1>4. /\ usage_stats'.count[k] \in Int /\ usage_stats'.events[k] \in Nat
        /\ RecentEvents(k)' \in Nat /\ RecentEvents(k)' <= usage_stats'.events[k]
    BY LimitTypes DEF RecentEvents, UsageInv, UsageTypeOK, Usage
  <1>5. /\ RecentEvents(k)' + Cardinality(Eventful(k)')
               <= MaxEvents + Cardinality(Workers) - 1
        /\ usage_stats'.events[k] <= MaxEvents + Cardinality(Workers) - 1
    <2>1. CASE RecordsEvent(w, k)
      <3>1. /\ Cardinality(Eventful(k)') = Cardinality(Eventful(k)) - 1
            /\ Cardinality(Eventful(k)') \in Nat
        <4>1. Cardinality(Eventful(k)') = Cardinality(Eventful(k)) - 1
          BY <1>1, <2>1, MovedSizes, LimitTypes DEF IsOneOf, RecordsEvent
        <4>2. w \in Eventful(k)
          BY <2>1 DEF Eventful, WorkersAt, RecordsEvent, IsOneOf
        <4>3. Cardinality(Eventful(k)) >= 1
          BY <4>2, WorkersAtSize DEF Eventful
        <4> QED
          BY <4>1, <4>3, LimitTypes
      <3>2. usage_stats'.events[k] <= RecentEvents(k) + 1
        BY <2>1, RecordedOf
      <3> QED
        BY <1>4, <3>1, <3>2, LimitTypes DEF LimitsOf
    <2>2. CASE ~RecordsEvent(w, k)
      <3>1. Cardinality(Eventful(k)') = Cardinality(Eventful(k))
        BY <1>1, <1>2, <2>2, MovedSizes, LimitTypes DEF IsOneOf, RecordsEvent
      <3>2. /\ usage_stats'.events[k] = usage_stats.events[k]
            /\ usage_stats'.reset_at[k] = usage_stats.reset_at[k]
        BY <2>2, RecordedOf
      <3>3. RecentEvents(k)' = RecentEvents(k)
        BY <3>2 DEF RecentEvents, IsWithinPeriod
      <3> QED
        BY <3>1, <3>2, <3>3 DEF LimitsOf
    <2> QED
      BY <2>1, <2>2
  <1>6. things[k] <= usage_stats'.count[k] + Cardinality(Unsettled(k)')
    <2>1. CASE IsOneOf(worker[w], k, {"created", "undoing"})
      <3>1. /\ Cardinality(Unsettled(k)') = Cardinality(Unsettled(k)) - 1
            /\ Cardinality(Unsettled(k)) >= 1
        <4>1. Cardinality(Unsettled(k)') = Cardinality(Unsettled(k)) - 1
          BY <1>1, <2>1, MovedSizes, LimitTypes DEF IsOneOf
        <4>2. w \in Unsettled(k)
          BY <2>1 DEF Unsettled, WorkersAt, IsOneOf
        <4>3. Cardinality(Unsettled(k)) >= 1
          BY <4>2, WorkersAtSize DEF Unsettled
        <4> QED
          BY <4>1, <4>3
      <3>2. usage_stats.count[k] < MAX_SMALLINT
        <4>1. /\ collisions = 0
              /\ MaxCount + Cardinality(Workers) - 1 <= MAX_SMALLINT
          BY LimitTypes, UsageStatsAssumption
             DEF NothingFails, Greatest, UsageInv, UsageTypeOK
        <4>2. usage_stats.count[k] + Cardinality(Unsettled(k)) <= things[k]
          BY <4>1, KindTypes
        <4> QED
          BY <3>1, <4>1, <4>2, LimitTypes, UsageStatsAssumption DEF LimitsOf
      <3>3. usage_stats'.count[k] = usage_stats.count[k] + 1
        BY <2>1, <3>2, RecordedOf
      <3> QED
        BY <3>1, <3>3, LimitTypes DEF LimitsOf
    <2>2. CASE IsOneOf(worker[w], k, {"decrementing"})
      <3>1. Cardinality(Unsettled(k)') = Cardinality(Unsettled(k)) + 1
        BY <1>1, <2>2, MovedSizes, LimitTypes DEF IsOneOf
      <3>2. usage_stats'.count[k] >= usage_stats.count[k] - 1
        BY <2>2, RecordedOf
      <3> QED
        BY <1>4, <3>1, <3>2, LimitTypes DEF LimitsOf
    <2>3. CASE ~IsOneOf(worker[w], k, {"created", "undoing", "decrementing"})
      <3>1. Cardinality(Unsettled(k)') = Cardinality(Unsettled(k))
        BY <1>1, <1>2, <2>3, MovedSizes, LimitTypes DEF IsOneOf
      <3>2. usage_stats'.count[k] = usage_stats.count[k]
        BY <2>3, RecordedOf
      <3> QED
        BY <3>1, <3>2 DEF LimitsOf
    <2> QED
      BY <2>1, <2>2, <2>3 DEF IsOneOf
  <1> QED
    BY <1>3, <1>5, <1>6 DEF LimitsOf

\* Steps that move no request.
LEMMA StillLimits ==
    ASSUME UsageInv, UsageInv', NEW k \in Kinds, LimitsOf(k),
           UNCHANGED <<usage_stats, things, worker>>,
           hour' \in {hour, hour + 1}
    PROVE  LimitsOf(k)'
  <1>1. /\ Unsettled(k)' = Unsettled(k) /\ Allowed(k)' = Allowed(k)
        /\ Eventful(k)' = Eventful(k)
    BY DEF Unsettled, Allowed, Eventful, WorkersAt
  <1>2. RecentEvents(k)' <= RecentEvents(k) /\ RecentEvents(k)' \in Nat
    BY LimitTypes DEF RecentEvents, IsWithinPeriod
  <1>3. RecentEvents(k)' + Cardinality(Eventful(k))
            <= MaxEvents + Cardinality(Workers) - 1
    BY <1>2, LimitTypes DEF LimitsOf
  <1> QED
    BY <1>1, <1>3 DEF LimitsOf

LEMMA ZeroSum ==
    ASSUME NEW a \in Nat, NEW b \in Nat, a + b = 0
    PROVE  a = 0 /\ b = 0
  OBVIOUS

LEMMA LimitNext ==
    ASSUME UsageInv, UsageInv', LimitInv, [UsageNext]_usage_vars
    PROVE  LimitInv'
  <1> SUFFICES ASSUME NothingFails', NEW k \in Kinds
               PROVE  LimitsOf(k)'
    BY DEF LimitInv
  <1>1. faults = 0 /\ faults' = 0 /\ collisions = 0 /\ collisions' = 0
    <2>1. /\ faults \in Nat /\ faults' \in Nat
          /\ collisions \in Nat /\ collisions' \in Nat
      BY DEF UsageInv, UsageTypeOK
    <2>2. faults' = 0 /\ collisions' = 0
      <3>1. faults' + collisions' = 0
        BY DEF NothingFails
      <3> QED
        BY <2>1, <3>1, ZeroSum
    <2>3. faults' \in {faults, faults + 1} /\ collisions' \in {collisions, collisions + 1}
      BY DEF UsageNext, NextHour, UpdateUsage, InsertUsage, AllowCreation,
         Reconfigure, BeginDeletion, Create, RefuseCreation, Delete,
         FailToDelete, CrashWorker, FlushLog, CrashDatabase, usage_vars
    <2> QED
      BY <2>1, <2>2, <2>3
  <1>2. NothingFails /\ LimitsOf(k)
    BY <1>1 DEF NothingFails, LimitInv
  <1>3. ASSUME NEW w \in Workers, UpdateUsage(w)
        PROVE  LimitsOf(k)'
    <2>1. CASE usage_stats.exists
      BY <1>2, <1>3, <2>1, RecordLimits DEF UpdateUsage
    <2>2. CASE ~usage_stats.exists
      BY <1>2, <1>3, <2>2, StillLimits DEF UpdateUsage
    <2> QED
      BY <2>1, <2>2
  <1>4. ASSUME NEW w \in Workers, InsertUsage(w)
        PROVE  LimitsOf(k)'
    <2>1. ~usage_stats.exists
      BY <1>1, <1>4 DEF InsertUsage
    <2>2. HasToRecord(w) /\ AfterRecord(w) /\ UNCHANGED <<hour, things>>
          /\ usage_stats' = [Recorded(w) EXCEPT !.exists = TRUE]
      BY <1>4, <2>1 DEF InsertUsage, UsageInv, UsageTypeOK
    <2>3. Recorded(w) \in Usage
      BY <2>2, RecordedRow DEF FitsColumns
    <2>4. /\ usage_stats'.count = Recorded(w).count
          /\ usage_stats'.events = Recorded(w).events
          /\ usage_stats'.reset_at = Recorded(w).reset_at
      BY <2>2, <2>3 DEF Usage
    <2> QED
      BY <1>2, <2>2, <2>4, RecordLimits
  <1>5. ASSUME NEW w \in Workers, NEW j \in Kinds,
               AllowCreation(w, j) \/ Reconfigure(w, j) \/ BeginDeletion(w, j)
        PROVE  LimitsOf(k)'
    BY <1>2, <1>5, AllowLimits, ReconfigureLimits, QuietLimits
  <1>6. ASSUME NEW w \in Workers,
               Create(w) \/ Delete(w) \/ RefuseCreation(w) \/ FailToDelete(w)
        PROVE  LimitsOf(k)'
    BY <1>2, <1>6, RealLimits, QuietLimits
  <1>7. ASSUME CrashDatabase \/ \E w \in Workers : CrashWorker(w)
        PROVE  LimitsOf(k)'
    BY <1>1, <1>7 DEF CrashDatabase, CrashWorker
  <1>8. ASSUME NextHour \/ FlushLog \/ UNCHANGED usage_vars
        PROVE  LimitsOf(k)'
    BY <1>2, <1>8, StillLimits DEF NextHour, FlushLog, usage_vars
  <1> QED
    BY <1>3, <1>4, <1>5, <1>6, <1>7, <1>8 DEF UsageNext

\* Without crashes and collisions, requests that are processed at the same time
\* exceed a limit by no more than their number less one: of things that exist,
\* and of operations within a period.
THEOREM LimitsCorrect == UsageSpec => []LimitIsKept
  <1>1. UsageInv /\ LimitInv => LimitIsKept
    <2> SUFFICES ASSUME UsageInv, NothingFails, NEW k \in Kinds, LimitsOf(k)
                 PROVE  /\ things[k] <= MaxCount + Cardinality(Workers) - 1
                        /\ usage_stats.events[k]
                               <= MaxEvents + Cardinality(Workers) - 1
      BY DEF LimitIsKept, LimitInv, NothingFails
    <2> QED
      BY LimitTypes DEF LimitsOf
  <1> QED
    BY <1>1, LimitInit, LimitNext, UsageCorrect, PTL DEF UsageSpec

-----------------------------------------------------------------------------
(* The composition                                                         *)

\* Whichever component makes the steps, the steps of the composition are steps
\* of each component or leave it alone.
LEMMA StepsOfComponents ==
    ASSUME [Next]_all_vars
    PROVE  /\ [LoopNext]_loop_vars
           /\ [LifecycleNext]_lifecycle_vars
           /\ [UsageNext]_usage_vars
           /\ [PinNext]_pin_vars
           /\ [ConfigNext]_config_vars
           /\ [ObjectsNext]_object_vars
  <1>1. CASE UNCHANGED all_vars
    BY <1>1 DEF all_vars
  <1>2. CASE Next
    BY <1>2 DEF Next
  <1> QED
    BY <1>1, <1>2

\* Every component of the composition behaves as it is specified: what has been
\* proved of its own specification holds of the composition.
THEOREM ComponentsAsSpecified ==
    Spec => /\ LoopSpec
            /\ LifecycleSpec
            /\ UsageSpec
            /\ PinSpec
            /\ ConfigSpec
            /\ ObjectsSpec
  <1>1. Init => /\ LoopStart /\ LifecycleInit /\ UsageInit
                /\ PinInit /\ ConfigInit /\ ObjectsInit
    BY DEF Init
  <1> QED
    BY <1>1, StepsOfComponents, PTL
    DEF Spec, LoopSpec, LifecycleSpec, UsageSpec, PinSpec, ConfigSpec, ObjectsSpec

\* Every variable of the components keeps its type, with the bounds of the
\* counters and the relations of the columns that the tables promise by
\* constraints.
THEOREM ComponentsTypesCorrect == Spec => []ComponentsTypeOK
  <1>1. UsageInv => UsageTypeOK
    BY DEF UsageInv
  <1>2. PinInv => PinTypeOK
    BY DEF PinInv
  <1>3. ObjectsInv => ObjectsTypeOK
    BY DEF ObjectsInv
  <1>4. /\ LifecycleTypeOK /\ UsageTypeOK /\ PinTypeOK
        /\ ConfigTypeOK /\ ObjectsTypeOK
        => ComponentsTypeOK
    BY DEF ComponentsTypeOK
  <1> QED
    BY <1>1, <1>2, <1>3, <1>4, ComponentsAsSpecified, LifecycleTypesCorrect,
       UsageCorrect, PinCorrect, ConfigTypesCorrect, ObjectsCorrect, PTL

=============================================================================
