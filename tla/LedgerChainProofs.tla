-------------------------- MODULE LedgerChainProofs --------------------------
(***************************************************************************)
(* The contents of the ledger in AccountLedger: for columns of every       *)
(* width, any amounts, and any number of transfers, consumers and lives of *)
(* the account, the entries are a chain in the order of the transfers, the *)
(* log describes what a client finds, and transfers are logged once.       *)
(***************************************************************************)
EXTENDS LedgerSafetyProofs, PrincipalCorrectionProofs

-----------------------------------------------------------------------------
(* The inductive invariant                                                 *)

IsOf(e, generation) == e.generation = generation

\* The entries of a generation are a chain that ends at entry `last`, with
\* `principal`.
IsChain(entries, generation, last, principal) ==
    /\ \A e \in entries : IsOf(e, generation) =>
          /\ e.entry_id <= last
          /\ e.entry_id = last => e.principal = principal
    /\ (\E e \in entries : IsOf(e, generation)) =>
          \E e \in entries : IsOf(e, generation) /\ e.entry_id = last
    /\ (\A e \in entries : ~IsOf(e, generation)) => principal = 0
    /\ \A e, f \in entries :
          IsOf(e, generation) /\ IsOf(f, generation) /\ f.entry_id = e.entry_id - 1
            => e.principal = f.principal + e.acquired_amount
    /\ \A e \in entries : IsOf(e, generation) =>
          \/ e.principal = e.acquired_amount
          \/ \E f \in entries : IsOf(f, generation) /\ f.entry_id = e.entry_id - 1

\* An entry precedes another one in the ledger of the same account.
IsBefore(e, f) ==
    \/ e.creation_date < f.creation_date
    \/ /\ e.creation_date = f.creation_date
       /\ e.transfer_number < f.transfer_number

AreInOrder(entries) ==
    \A e, f \in entries :
        /\ e.generation = f.generation
        /\ e.creation_date # DATE0
        /\ f.creation_date # DATE0
        /\ e.entry_id < f.entry_id
        => IsBefore(e, f)

\* No transfer after this one has been booked.
AreUpTo(entries, generation, creation_date, number) ==
    \A e \in entries :
        IsOf(e, generation) /\ e.creation_date # DATE0 =>
          \/ e.creation_date < creation_date
          \/ e.creation_date = creation_date /\ e.transfer_number <= number

Fits(e) ==
    /\ e.principal \in Principal
    /\ e.acquired_amount \in Principal
    /\ e.creation_date = DATE0 => e.acquired_amount # MIN_INT64

IsLoggedBy(row, entries, latest) ==
    IF latest.generation = row.generation
      THEN latest = LedgerLogEntry(row)
      ELSE row.ledger_principal = 0 /\ \A e \in entries : ~IsOf(e, row.generation)

\* A row, the entries of its ledger, and its latest log entry belong together.
IsDescribed(row, number, entries, latest) ==
    /\ row.generation > 0
    /\ IsChain(entries, row.generation, row.ledger_last_entry_id,
               row.ledger_principal)
    /\ AreInOrder(entries)
    /\ AreUpTo(entries, row.generation, row.creation_date, number)
    /\ \A e \in entries : Fits(e) /\ e.generation <= row.generation
    /\ IsLoggedBy(row, entries, latest)
    /\ latest.generation <= row.generation
    /\ latest.object_update_id <= row.ledger_latest_update_id

RowIsDescribed ==
    data.exists =>
      IsDescribed(data, data.ledger_last_transfer_number, ledger_entry, log)

\* ... as well as those that the ledger processor works on.
WorkIsDescribed ==
    work.active =>
      /\ IsDescribed(work.data, work.data.ledger_last_transfer_number,
                     ledger_entry \cup work.entries,
                     Coalesce(work.log_entry, log))
      /\ IF work.log_entry = NoLogEntry
           THEN work.data.ledger_latest_update_id = data.ledger_latest_update_id
           ELSE work.log_entry.object_update_id > log.object_update_id

\* What is left of earlier accounts, and the sequence ahead of all of them.
HistoryIsKept ==
    /\ AreInOrder(ledger_entry)
    /\ \A e \in ledger_entry : Fits(e) /\ e.generation <= data.generation
    /\ log.generation <= data.generation
    /\ log.object_update_id <= uid_seq
    /\ data.exists => data.ledger_latest_update_id <= uid_seq

\* The authority contains principals, not amounts.
StepsAreContained ==
    \A t \in transfers : t.principal - t.acquired_amount \in Principal

ChainInv ==
    /\ StepsAreContained
    /\ HistoryIsKept
    /\ RowIsDescribed
    /\ WorkIsDescribed

\* The row of a logged transfer is there, or it is too old to come again.
LoggedAreKept ==
    /\ \A a \in transfer_log :
          \/ a.transfer \in committed_transfer
          \/ now - a.transfer.committed_at > LOG_RETENTION
    /\ \A c \in Consumers : readers[c].active =>
          now - readers[c].message.committed_at <= LOG_RETENTION

LoggingInv == TransferLoggedOnce /\ LoggedAreKept

-----------------------------------------------------------------------------
(* Chains of entries *)

\* The entries that lead a chain on, from one entry to another one.
Continues(more, generation, last, principal, end, end_principal) ==
    /\ end >= last
    /\ end = last => end_principal = principal
    /\ \A e \in more :
          /\ IsOf(e, generation)
          /\ last < e.entry_id /\ e.entry_id <= end
          /\ e.entry_id = end => e.principal = end_principal
          /\ e.entry_id = last + 1 => e.principal = principal + e.acquired_amount
    /\ \A n \in Nat : last < n /\ n <= end => \E e \in more : e.entry_id = n
    /\ \A e, f \in more :
          f.entry_id = e.entry_id - 1 => e.principal = f.principal + e.acquired_amount

LEMMA ChainContinues ==
    ASSUME NEW entries \in SUBSET LedgerEntry, NEW more \in SUBSET LedgerEntry,
           NEW generation \in Nat, NEW last \in Nat, NEW end \in Nat,
           NEW principal \in Int, NEW end_principal \in Int,
           IsChain(entries, generation, last, principal),
           Continues(more, generation, last, principal, end, end_principal)
    PROVE  IsChain(entries \cup more, generation, end, end_principal)
  <1> DEFINE all == entries \cup more
  <1>1. /\ \A e \in all : e.entry_id \in Nat /\ e.principal \in Int
                          /\ e.acquired_amount \in Int
        /\ \A e \in more : IsOf(e, generation) /\ last < e.entry_id /\ e.entry_id <= end
        /\ \A e \in entries : IsOf(e, generation) => e.entry_id <= last
        /\ end >= last
    BY DEF LedgerEntry, Continues, IsChain
  <1>2. ASSUME NEW e \in all, IsOf(e, generation)
        PROVE  /\ e.entry_id <= end
               /\ e.entry_id = end => e.principal = end_principal
    <2>1. CASE e \in more
      BY <2>1 DEF Continues
    <2>2. CASE e \in entries
      <3>1. e.entry_id <= last /\ (e.entry_id = last => e.principal = principal)
        BY <1>2, <2>2 DEF IsChain
      <3>2. end = last => end_principal = principal
        BY DEF Continues
      <3> QED
        BY <1>1, <3>1, <3>2
    <2> QED
      BY <2>1, <2>2
  <1>3. ASSUME \E e \in all : IsOf(e, generation)
        PROVE  \E e \in all : IsOf(e, generation) /\ e.entry_id = end
    <2>1. CASE end = last
      <3>1. more = {}
        BY <1>1, <2>1
      <3> QED
        BY <1>3, <2>1, <3>1 DEF IsChain
    <2>2. CASE end # last
      <3>1. \E e \in more : e.entry_id = end
        BY <1>1, <2>2 DEF Continues
      <3> QED
        BY <1>1, <3>1
    <2> QED
      BY <2>1, <2>2
  <1>4. ASSUME \A e \in all : ~IsOf(e, generation)
        PROVE  end_principal = 0
    <2>1. end = last
      <3>1. end # last => \E e \in more : e.entry_id = end
        BY <1>1 DEF Continues
      <3> QED
        BY <1>1, <1>4, <3>1
    <2> QED
      BY <1>4, <2>1 DEF Continues, IsChain
  <1>5. ASSUME NEW e \in all, NEW f \in all, IsOf(e, generation), IsOf(f, generation),
               f.entry_id = e.entry_id - 1
        PROVE  e.principal = f.principal + e.acquired_amount
    <2>1. CASE e \in entries /\ f \in entries
      BY <1>5, <2>1 DEF IsChain
    <2>2. CASE e \in more /\ f \in more
      BY <1>5, <2>2 DEF Continues
    <2>3. CASE e \in entries /\ f \in more
      BY <1>1, <1>5, <2>3
    <2>4. CASE e \in more /\ f \in entries
      <3>1. e.entry_id = last + 1 /\ f.entry_id = last
        BY <1>1, <1>5, <2>4
      <3>2. f.principal = principal
        BY <1>5, <2>4, <3>1 DEF IsChain
      <3>3. e.principal = principal + e.acquired_amount
        BY <2>4, <3>1 DEF Continues
      <3> QED
        BY <3>2, <3>3
    <2> QED
      BY <2>1, <2>2, <2>3, <2>4
  <1>6. ASSUME NEW e \in all, IsOf(e, generation)
        PROVE  \/ e.principal = e.acquired_amount
               \/ \E f \in all : IsOf(f, generation) /\ f.entry_id = e.entry_id - 1
    <2>1. CASE e \in entries
      BY <1>6, <2>1 DEF IsChain
    <2>2. CASE e \in more /\ e.entry_id = last + 1
      <3>1. e.principal = principal + e.acquired_amount
        BY <2>2 DEF Continues
      <3>2. CASE \E f \in entries : IsOf(f, generation)
        <4>1. \E f \in entries : IsOf(f, generation) /\ f.entry_id = last
          BY <3>2 DEF IsChain
        <4> QED
          BY <2>2, <4>1
      <3>3. CASE \A f \in entries : ~IsOf(f, generation)
        <4>1. principal = 0
          BY <3>3 DEF IsChain
        <4> QED
          BY <1>1, <3>1, <4>1
      <3> QED
        BY <3>2, <3>3
    <2>3. CASE e \in more /\ e.entry_id # last + 1
      <3>1. /\ e.entry_id - 1 \in Nat /\ last < e.entry_id - 1
            /\ e.entry_id - 1 <= end
        BY <1>1, <2>3
      <3>2. \E f \in more : f.entry_id = e.entry_id - 1
        BY <3>1 DEF Continues
      <3> QED
        BY <1>1, <3>2
    <2> QED
      BY <2>1, <2>2, <2>3
  <1> QED
    BY <1>2, <1>3, <1>4, <1>5, <1>6 DEF IsChain

\* One more entry.
LEMMA ContinueOnce ==
    ASSUME NEW more \in SUBSET LedgerEntry, NEW e \in LedgerEntry,
           NEW generation \in Nat, NEW last \in Nat, NEW end \in Nat,
           NEW principal \in Int, NEW end_principal \in Int,
           Continues(more, generation, last, principal, end, end_principal),
           IsOf(e, generation), e.entry_id = end + 1,
           e.principal = end_principal + e.acquired_amount
    PROVE  Continues(more \cup {e}, generation, last, principal, end + 1, e.principal)
  <1>1. /\ \A f \in more \cup {e} : f.entry_id \in Nat /\ f.principal \in Int
                                    /\ f.acquired_amount \in Int
        /\ end >= last
        /\ \A f \in more : last < f.entry_id /\ f.entry_id <= end
    BY DEF LedgerEntry, Continues
  <1>2. \A f \in more \cup {e} :
           /\ IsOf(f, generation)
           /\ last < f.entry_id /\ f.entry_id <= end + 1
           /\ f.entry_id = end + 1 => f.principal = e.principal
           /\ f.entry_id = last + 1 => f.principal = principal + f.acquired_amount
    <2>1. \A f \in more : f.entry_id = last + 1 => f.principal = principal + f.acquired_amount
      BY DEF Continues
    <2>2. e.entry_id = last + 1 => end_principal = principal
      BY <1>1 DEF Continues
    <2>3. \A f \in more : IsOf(f, generation)
      BY DEF Continues
    <2> QED
      BY <1>1, <2>1, <2>2, <2>3
  <1>3. \A n \in Nat : last < n /\ n <= end + 1 => \E f \in more \cup {e} : f.entry_id = n
    <2>1. \A n \in Nat : n <= end + 1 => n <= end \/ n = end + 1
      OBVIOUS
    <2> QED
      BY <2>1 DEF Continues
  <1>4. ASSUME NEW f \in more \cup {e}, NEW g \in more \cup {e},
               g.entry_id = f.entry_id - 1
        PROVE  f.principal = g.principal + f.acquired_amount
    <2>1. CASE f \in more /\ g \in more
      BY <1>4, <2>1 DEF Continues
    <2>2. CASE f = e /\ g \in more
      <3>1. g.entry_id = end
        BY <1>1, <1>4, <2>2
      <3>2. g.principal = end_principal
        BY <2>2, <3>1 DEF Continues
      <3> QED
        BY <2>2, <3>2
    <2>3. CASE g = e
      BY <1>1, <1>4, <2>3
    <2> QED
      BY <2>1, <2>2, <2>3
  <1> QED
    BY <1>1, <1>2, <1>3, <1>4 DEF Continues

\* Correcting entries lead to the principal that they have been made for.
LEMMA CorrectionsContinue ==
    ASSUME NEW row \in AccountData, NEW to \in Principal,
           NEW amount \in Int, NEW principal \in Principal,
           to = principal - amount
    PROVE  LET corrections == make_correcting_ledger_entry_if_necessary(
                                row, amount, principal)
               end == row.ledger_last_entry_id + Cardinality(corrections)
           IN  /\ Cardinality(corrections) \in Nat
               /\ Continues(corrections, row.generation, row.ledger_last_entry_id,
                            row.ledger_principal, end, to)
               /\ \A e \in corrections : e.creation_date = DATE0 /\ Fits(e)
  <1> DEFINE from == row.ledger_principal
             last == row.ledger_last_entry_id
             count == CorrectionCount(to - from)
             at(k) == CorrectedPrincipal(from, to, k)
             entry(k) == [generation |-> row.generation,
                          entry_id |-> last + k,
                          acquired_amount |-> at(k) - at(k - 1),
                          principal |-> at(k),
                          creation_date |-> DATE0,
                          transfer_number |-> NullNumber]
             corrections == make_correcting_ledger_entry_if_necessary(
                              row, amount, principal)
  <1>1. from \in Principal /\ last \in Nat
    BY DEF AccountData
  <1>2. corrections = {entry(k) : k \in 1 .. count}
    <2> DEFINE c(k) == [n |-> k, acquired_amount |-> at(k) - at(k - 1),
                        principal |-> at(k)]
    <2>1. corrections =
             {[generation |-> row.generation,
               entry_id |-> last + x.n,
               acquired_amount |-> x.acquired_amount,
               principal |-> x.principal,
               creation_date |-> DATE0,
               transfer_number |-> NullNumber] : x \in Corrections(from, to)}
      BY DEF make_correcting_ledger_entry_if_necessary
    <2>2. Corrections(from, to) = {c(k) : k \in 1 .. count}
      BY DEF Corrections
    <2>3. \A k : /\ c(k).n = k /\ c(k).acquired_amount = at(k) - at(k - 1)
                 /\ c(k).principal = at(k)
      OBVIOUS
    <2> HIDE DEF c, count, at, corrections
    <2> QED
      BY <2>1, <2>2, <2>3
  <1>3. /\ count \in Nat /\ at(0) = from /\ at(count) = to
    BY <1>1, CorrectedEnds
  <1>4. \A k \in 1 .. count :
           /\ at(k) \in Principal
           /\ at(k) - at(k - 1) \in -MAX_INT64 .. MAX_INT64
           /\ at(k - 1) \in Principal
    BY <1>1, CorrectedSteps
  <1>5. \A p \in Principal : p \in Int
    BY ZeroInRange
  <1> HIDE DEF count, at, corrections, from, last
  <1>6. Cardinality(corrections) = count /\ IsFiniteSet(corrections)
    <2> DEFINE f == [k \in 1 .. count |-> entry(k)]
    <2>1. f \in Bijection(1 .. count, corrections)
      <3>1. \A k \in 1 .. count : entry(k).entry_id = last + k
        OBVIOUS
      <3>2. \A j, k \in 1 .. count : entry(j) = entry(k) => j = k
        BY <1>1, <1>3, <3>1
      <3> HIDE DEF entry
      <3> QED
        BY <1>2, <3>2 DEF Bijection, Injection, Surjection, IsInjective
    <2>2. IsFiniteSet(1 .. count) /\ Cardinality(1 .. count) = count
      BY <1>3, FS_Interval
    <2> QED
      BY <2>1, <2>2, FS_Bijection DEF ExistsBijection
  <1>7. /\ \A k \in 1 .. count :
              /\ entry(k).generation = row.generation
              /\ entry(k).entry_id = last + k
              /\ entry(k).acquired_amount = at(k) - at(k - 1)
              /\ entry(k).principal = at(k)
              /\ entry(k).creation_date = DATE0
    OBVIOUS
  <1> HIDE DEF entry
  <1>8. \A e \in corrections : e.creation_date = DATE0 /\ Fits(e)
    <2>1. ASSUME NEW k \in 1 .. count
          PROVE  Fits(entry(k))
      <3>1. \A x \in -MAX_INT64 .. MAX_INT64 : x \in Principal /\ x # MIN_INT64
        BY MaxIntAssumption DEF Principal, MIN_INT64
      <3> QED
        BY <1>4, <1>7, <3>1 DEF Fits
    <2> QED
      BY <1>2, <1>7, <2>1
  <1>9. Continues(corrections, row.generation, last, from, last + count, to)
    <2>1. last + count >= last /\ (last + count = last => to = from)
      <3>1. last + count = last => count = 0
        BY <1>1, <1>3
      <3> QED
        BY <1>1, <1>3, <3>1
    <2>2. ASSUME NEW k \in 1 .. count
          PROVE  /\ IsOf(entry(k), row.generation)
                 /\ last < entry(k).entry_id /\ entry(k).entry_id <= last + count
                 /\ entry(k).entry_id = last + count => entry(k).principal = to
                 /\ entry(k).entry_id = last + 1 =>
                       entry(k).principal = from + entry(k).acquired_amount
      <3>1. k \in Nat /\ k > 0 /\ k <= count
        BY <1>3
      <3>2. entry(k).entry_id = last + count => k = count
        BY <1>1, <1>3, <1>7, <3>1
      <3>3. entry(k).entry_id = last + 1 => k = 1 /\ k - 1 = 0
        BY <1>1, <1>3, <1>7, <3>1
      <3>4. at(k) \in Int /\ at(k - 1) \in Int
        BY <1>4, <1>5
      <3>5. entry(k).entry_id = last + 1 =>
               entry(k).principal = from + entry(k).acquired_amount
        BY <1>3, <1>7, <3>3, <3>4
      <3> QED
        BY <1>1, <1>3, <1>7, <3>1, <3>2, <3>5 DEF IsOf
    <2>3. \A n \in Nat : last < n /\ n <= last + count =>
             \E e \in corrections : e.entry_id = n
      <3>1. ASSUME NEW n \in Nat, last < n, n <= last + count
            PROVE  \E e \in corrections : e.entry_id = n
        <4>1. n - last \in 1 .. count /\ last + (n - last) = n
          BY <1>1, <1>3, <3>1
        <4>2. entry(n - last) \in corrections /\ entry(n - last).entry_id = n
          BY <1>2, <1>7, <4>1
        <4> QED
          BY <4>2
      <3> QED
        BY <3>1
    <2>4. ASSUME NEW j \in 1 .. count, NEW k \in 1 .. count,
                 entry(j).entry_id = entry(k).entry_id - 1
          PROVE  entry(k).principal = entry(j).principal + entry(k).acquired_amount
      <3>1. j = k - 1
        BY <1>1, <1>3, <1>7, <2>4
      <3>2. at(k) \in Int /\ at(k - 1) \in Int
        BY <1>4, <1>5
      <3> QED
        BY <1>7, <3>1, <3>2
    <2> QED
      BY <1>2, <2>1, <2>2, <2>3, <2>4 DEF Continues
  <1>10. Cardinality(corrections) \in Nat
    BY <1>3, <1>6
  <1>11. Continues(corrections, row.generation, last, from,
                   last + Cardinality(corrections), to)
    BY <1>6, <1>9
  <1> QED
    BY <1>8, <1>10, <1>11 DEF corrections, from, last

-----------------------------------------------------------------------------
(* What update_ledger adds to a ledger *)

\* A principal from which the amount can be taken away again.
IsStep(amount, principal) ==
    /\ amount \in Principal /\ principal \in Principal
    /\ principal - amount \in Principal

\* New entries lead to the principal; one of them at most is a transfer, the
\* last one; and they are logged.
Adds(u, row, number, amount, principal) ==
    /\ u.data \in AccountData
    /\ u.entries \subseteq LedgerEntry
    /\ u.data.generation = row.generation
    /\ u.data.creation_date = row.creation_date
    /\ u.data.ledger_principal = principal
    /\ u.data.ledger_last_transfer_number = number
    /\ Continues(u.entries, row.generation, row.ledger_last_entry_id,
                 row.ledger_principal, u.data.ledger_last_entry_id, principal)
    /\ \A e \in u.entries :
          /\ Fits(e)
          /\ e.creation_date # DATE0 =>
                /\ amount # 0
                /\ e.creation_date = row.creation_date
                /\ e.transfer_number = number
                /\ e.entry_id = u.data.ledger_last_entry_id
    /\ \/ /\ u.log_entry = LedgerLogEntry(u.data)
          /\ u.data.ledger_latest_update_id = row.ledger_latest_update_id + 1
       \/ /\ u.log_entry = NoLogEntry
          /\ u.entries = {}
          /\ u.data.ledger_latest_update_id = row.ledger_latest_update_id

\* The fields of a row that update_ledger changes.
LEMMA UpdatedRow ==
    ASSUME NEW row \in AccountData, NEW id, NEW principal, NEW number, NEW up, NEW ts
    PROVE  LET new == [row EXCEPT !.ledger_last_entry_id = id,
                                  !.ledger_principal = principal,
                                  !.ledger_last_transfer_number = number,
                                  !.ledger_latest_update_id = up,
                                  !.ledger_latest_update_ts = ts]
           IN  /\ new.ledger_last_entry_id = id
               /\ new.ledger_principal = principal
               /\ new.ledger_latest_update_id = up
  BY DEF AccountData

LEMMA UpdateAdds ==
    ASSUME now \in Time, NEW row \in AccountData, NEW number \in 0 .. MaxNumber,
           NEW amount, NEW principal, IsStep(amount, principal),
           NEW always_log \in BOOLEAN,
           amount # 0 => row.creation_date # DATE0
    PROVE  Adds(update_ledger(row, number, amount, principal, always_log),
                row, number, amount, principal)
  <1> DEFINE u == update_ledger(row, number, amount, principal, always_log)
             corrections ==
               make_correcting_ledger_entry_if_necessary(row, amount, principal)
             last_correction ==
               row.ledger_last_entry_id + Cardinality(corrections)
             entry ==
               [generation |-> row.generation,
                entry_id |-> last_correction + 1,
                acquired_amount |-> amount,
                principal |-> principal,
                creation_date |-> row.creation_date,
                transfer_number |-> number]
             entries ==
               corrections \cup (IF amount # 0 THEN {entry} ELSE {})
             is_logged == entries # {} \/ always_log
             id == IF amount # 0 THEN last_correction + 1 ELSE last_correction
             up == IF is_logged THEN row.ledger_latest_update_id + 1
                                ELSE row.ledger_latest_update_id
             ts == IF is_logged THEN now ELSE row.ledger_latest_update_ts
             new_row ==
               [row EXCEPT !.ledger_last_entry_id = id,
                           !.ledger_principal = principal,
                           !.ledger_last_transfer_number = number,
                           !.ledger_latest_update_id = up,
                           !.ledger_latest_update_ts = ts]
             to == principal - amount
  <1>1. /\ amount \in Int /\ principal \in Int /\ to \in Int
        /\ amount \in Principal /\ principal \in Principal /\ to \in Principal
    BY ZeroInRange DEF IsStep
  <1>2. /\ u.data \in AccountData /\ u.entries \subseteq LedgerEntry
        /\ u.data.generation = row.generation
        /\ u.data.creation_date = row.creation_date
        /\ u.data.ledger_last_transfer_number = number
    BY <1>1, UpdateLedgerType
  <1>3. /\ u.data = new_row /\ u.entries = entries
        /\ u.log_entry = IF is_logged THEN LedgerLogEntry(new_row) ELSE NoLogEntry
    BY DEF update_ledger
  <1>4. /\ Cardinality(corrections) \in Nat
        /\ Continues(corrections, row.generation, row.ledger_last_entry_id,
                     row.ledger_principal, last_correction, to)
        /\ \A e \in corrections : e.creation_date = DATE0 /\ Fits(e)
    BY <1>1, CorrectionsContinue
  <1> HIDE DEF u, corrections
  <1>5. /\ row.ledger_last_entry_id \in Nat /\ row.generation \in Nat
        /\ row.ledger_principal \in Int
        /\ last_correction \in Nat
    <2>1. /\ row.ledger_last_entry_id \in Nat /\ row.generation \in Nat
          /\ row.ledger_principal \in Principal
      BY DEF AccountData
    <2>2. last_correction \in Nat
      BY <1>4, <2>1
    <2> QED
      BY <2>1, <2>2, ZeroInRange
  <1>6. corrections \subseteq LedgerEntry
    BY <1>2, <1>3
  <1>7. entry \in LedgerEntry
    BY <1>1, <1>5, ZeroInRange DEF LedgerEntry, AccountData
  <1> HIDE DEF last_correction
  <1>8. /\ IsOf(entry, row.generation) /\ entry.entry_id = last_correction + 1
        /\ entry.principal = to + entry.acquired_amount
        /\ entry.principal = principal /\ entry.acquired_amount = amount
        /\ entry.creation_date = row.creation_date /\ entry.transfer_number = number
    BY <1>1 DEF IsOf
  <1>9. /\ u.data.ledger_last_entry_id = id
        /\ u.data.ledger_principal = principal
        /\ u.data.ledger_latest_update_id = up
    <2> HIDE DEF id, up, ts
    <2> QED
      BY <1>3, UpdatedRow
  <1> HIDE DEF entry, to
  <1>10. Continues(entries, row.generation, row.ledger_last_entry_id,
                   row.ledger_principal, id, principal)
    <2>1. CASE amount # 0
      <3>1. Continues(corrections \cup {entry}, row.generation,
                      row.ledger_last_entry_id, row.ledger_principal,
                      last_correction + 1, entry.principal)
        BY <1>1, <1>4, <1>5, <1>6, <1>7, <1>8, ContinueOnce
      <3> QED
        BY <1>8, <2>1, <3>1
    <2>2. CASE amount = 0
      <3>1. to = principal
        BY <1>1, <2>2 DEF to
      <3>2. entries = corrections /\ id = last_correction
        BY <2>2
      <3> QED
        BY <1>4, <3>1, <3>2
    <2> QED
      BY <2>1, <2>2
  <1>11. \A e \in entries :
            /\ Fits(e)
            /\ e.creation_date # DATE0 =>
                  /\ amount # 0
                  /\ e.creation_date = row.creation_date
                  /\ e.transfer_number = number
                  /\ e.entry_id = id
    <2>1. amount # 0 => Fits(entry)
      BY <1>1, <1>8 DEF Fits
    <2> QED
      BY <1>4, <1>8, <2>1
  <1>12. \/ /\ u.log_entry = LedgerLogEntry(u.data)
            /\ up = row.ledger_latest_update_id + 1
         \/ /\ u.log_entry = NoLogEntry
            /\ u.entries = {}
            /\ up = row.ledger_latest_update_id
    BY <1>3
  <1> HIDE DEF entries, id, up
  <1> QED
    BY <1>2, <1>3, <1>9, <1>10, <1>11, <1>12 DEF Adds, u

\* A description is about these fields of a row only.
LEMMA SameDescription ==
    ASSUME NEW row, NEW number, NEW entries, NEW latest, NEW new,
           IsDescribed(row, number, entries, latest),
           new.generation = row.generation,
           new.creation_date = row.creation_date,
           new.ledger_last_entry_id = row.ledger_last_entry_id,
           new.ledger_principal = row.ledger_principal,
           new.ledger_latest_update_id = row.ledger_latest_update_id
    PROVE  IsDescribed(new, number, entries, latest)
  BY DEF IsDescribed, IsLoggedBy, LedgerLogEntry

\* What the additions have been logged with: later than anything else.
LEMMA AddsLog ==
    ASSUME NEW row \in AccountData, NEW number, NEW amount, NEW principal,
           NEW latest \in LogEntry, NEW entries, NEW last, NEW u,
           IsDescribed(row, last, entries, latest),
           Adds(u, row, number, amount, principal)
    PROVE  LET new == Coalesce(u.log_entry, latest)
           IN  /\ IsLoggedBy(u.data, entries \cup u.entries, new)
               /\ new.generation <= row.generation
               /\ new.object_update_id <= u.data.ledger_latest_update_id
               /\ u.log_entry # NoLogEntry =>
                     u.log_entry.object_update_id > latest.object_update_id
  <1>1. /\ row.ledger_latest_update_id \in Nat /\ latest.object_update_id \in Nat
        /\ row.generation \in Nat /\ row.generation > 0
        /\ latest.object_update_id <= row.ledger_latest_update_id
        /\ latest.generation <= row.generation
        /\ row.ledger_last_entry_id \in Nat
        /\ u.data.ledger_last_entry_id \in Nat
    BY DEF IsDescribed, AccountData, LogEntry, Adds
  <1>2. CASE u.log_entry = NoLogEntry
    <2>1. /\ u.entries = {}
          /\ u.data.ledger_latest_update_id = row.ledger_latest_update_id
          /\ u.data.generation = row.generation
      <3>1. LedgerLogEntry(u.data).generation = row.generation
        BY DEF Adds, LedgerLogEntry
      <3>2. NoLogEntry.generation = 0
        BY DEF NoLogEntry
      <3> QED
        BY <1>1, <1>2, <3>1, <3>2 DEF Adds
    <2>2. /\ u.data.ledger_last_entry_id = row.ledger_last_entry_id
          /\ u.data.ledger_principal = row.ledger_principal
      <3>1. u.data.ledger_last_entry_id = row.ledger_last_entry_id
        BY <1>1, <2>1 DEF Adds, Continues
      <3> QED
        BY <3>1 DEF Adds, Continues
    <2>3. LedgerLogEntry(u.data) = LedgerLogEntry(row)
      BY <2>1, <2>2 DEF LedgerLogEntry
    <2>4. Coalesce(u.log_entry, latest) = latest
      BY <1>2 DEF Coalesce
    <2>5. IsLoggedBy(u.data, entries \cup u.entries, latest)
      BY <2>1, <2>2, <2>3 DEF IsDescribed, IsLoggedBy
    <2> QED
      BY <1>1, <1>2, <2>1, <2>4, <2>5
  <1>3. CASE u.log_entry # NoLogEntry
    <2>1. /\ u.log_entry = LedgerLogEntry(u.data)
          /\ u.data.ledger_latest_update_id = row.ledger_latest_update_id + 1
          /\ u.data.generation = row.generation
      BY <1>3 DEF Adds
    <2>2. /\ u.log_entry.generation = row.generation
          /\ u.log_entry.object_update_id = row.ledger_latest_update_id + 1
      BY <2>1 DEF LedgerLogEntry
    <2>3. Coalesce(u.log_entry, latest) = u.log_entry
      BY <1>3 DEF Coalesce
    <2> QED
      BY <1>1, <2>1, <2>2, <2>3 DEF IsLoggedBy
  <1> QED
    BY <1>2, <1>3

\* A ledger stays described, whatever is added to it, if the transfer is later
\* than those that have been booked.
LEMMA AddsDescribed ==
    ASSUME NEW row \in AccountData, NEW number \in 0 .. MaxNumber, NEW amount,
           NEW principal \in Principal, NEW latest \in LogEntry,
           NEW entries \in SUBSET LedgerEntry, NEW last \in 0 .. MaxNumber, NEW u,
           last <= number, amount # 0 => last < number,
           IsDescribed(row, last, entries, latest),
           Adds(u, row, number, amount, principal)
    PROVE  IsDescribed(u.data, number, entries \cup u.entries,
                       Coalesce(u.log_entry, latest))
  <1> DEFINE all == entries \cup u.entries
             g == row.generation
  <1>1. /\ u.data.generation = g /\ u.data.creation_date = row.creation_date
        /\ u.data.ledger_principal = principal
        /\ u.data.ledger_last_entry_id \in Nat
        /\ u.entries \in SUBSET LedgerEntry
        /\ g \in Nat /\ g > 0 /\ row.ledger_last_entry_id \in Nat
        /\ row.ledger_principal \in Int /\ principal \in Int
        /\ row.creation_date \in Nat /\ last \in Nat /\ number \in Nat
    BY ZeroInRange, Ranges DEF Adds, AccountData, IsDescribed
  <1>2. /\ Continues(u.entries, g, row.ledger_last_entry_id, row.ledger_principal,
                     u.data.ledger_last_entry_id, principal)
        /\ IsChain(entries, g, row.ledger_last_entry_id, row.ledger_principal)
    BY DEF Adds, IsDescribed
  <1>3. IsChain(all, g, u.data.ledger_last_entry_id, principal)
    BY <1>1, <1>2, ChainContinues
  <1>4. /\ \A e \in all : /\ e.entry_id \in Nat /\ e.generation \in Nat
                          /\ e.creation_date \in Nat /\ e.transfer_number \in Nat
        /\ \A e \in u.entries : /\ e.generation = g
                                /\ row.ledger_last_entry_id < e.entry_id
                                /\ e.entry_id <= u.data.ledger_last_entry_id
        /\ \A e \in u.entries : e.creation_date # DATE0 =>
              /\ amount # 0 /\ e.creation_date = row.creation_date
              /\ e.transfer_number = number
              /\ e.entry_id = u.data.ledger_last_entry_id
        /\ \A e \in entries : e.generation = g => e.entry_id <= row.ledger_last_entry_id
    BY <1>1, <1>2, Ranges DEF LedgerEntry, Continues, IsOf, Adds, IsChain
  <1>5. \A e \in entries : e.generation = g /\ e.creation_date # DATE0 =>
           \/ e.creation_date < row.creation_date
           \/ e.creation_date = row.creation_date /\ e.transfer_number <= last
    BY DEF IsDescribed, AreUpTo, IsOf
  <1>6. AreUpTo(all, g, row.creation_date, number)
    <2>1. ASSUME NEW e \in all, e.generation = g, e.creation_date # DATE0
          PROVE  \/ e.creation_date < row.creation_date
                 \/ e.creation_date = row.creation_date /\ e.transfer_number <= number
      BY <1>1, <1>4, <1>5, <2>1
    <2> QED
      BY <2>1 DEF AreUpTo, IsOf
  <1>7. AreInOrder(all)
    <2>1. ASSUME NEW e \in all, NEW f \in all, e.generation = f.generation,
                 e.creation_date # DATE0, f.creation_date # DATE0,
                 e.entry_id < f.entry_id
          PROVE  IsBefore(e, f)
      <3>1. CASE e \in entries /\ f \in entries
        BY <2>1, <3>1 DEF IsDescribed, AreInOrder
      <3>2. CASE e \in u.entries
        <4>1. f \in u.entries
          BY <1>1, <1>4, <2>1, <3>2
        <4> QED
          BY <1>1, <1>4, <2>1, <3>2, <4>1
      <3>3. CASE e \in entries /\ f \in u.entries
        <4>1. /\ e.generation = g /\ f.creation_date = row.creation_date
              /\ f.transfer_number = number /\ last < number
          BY <1>4, <2>1, <3>3
        <4>2. \/ e.creation_date < row.creation_date
              \/ e.creation_date = row.creation_date /\ e.transfer_number <= last
          BY <1>5, <2>1, <3>3, <4>1
        <4> QED
          BY <1>1, <1>4, <4>1, <4>2 DEF IsBefore
      <3> QED
        BY <3>1, <3>2, <3>3
    <2> QED
      BY <2>1 DEF AreInOrder
  <1>8. \A e \in all : Fits(e) /\ e.generation <= g
    <2>1. \A e \in entries : Fits(e) /\ e.generation <= g
      BY DEF IsDescribed
    <2>2. \A e \in u.entries : Fits(e)
      BY DEF Adds
    <2> QED
      BY <1>1, <1>4, <2>1, <2>2
  <1>9. LET new == Coalesce(u.log_entry, latest)
        IN  /\ IsLoggedBy(u.data, all, new)
            /\ new.generation <= g
            /\ new.object_update_id <= u.data.ledger_latest_update_id
    BY AddsLog
  <1> HIDE DEF all
  <1> QED
    BY <1>1, <1>3, <1>6, <1>7, <1>8, <1>9 DEF IsDescribed, all

-----------------------------------------------------------------------------
(* The transactions that write the ledger *)

\* A new log entry about the ledger has a new update ID.
LogGrows == log' # log => log'.object_update_id > log.object_update_id

\* What a transaction finds when it has the row for itself.
LEMMA ChainTypes ==
    ASSUME TypeOK, ChainInv
    PROVE  /\ data \in AccountData /\ log \in LogEntry /\ ledger_entry \in SUBSET LedgerEntry
           /\ uid_seq \in Nat
           /\ data.generation \in Nat /\ data.ledger_latest_update_id \in Nat
           /\ data.ledger_last_transfer_number \in 0 .. MaxNumber
           /\ data.principal \in Principal /\ data.ledger_principal \in Principal
           /\ data.creation_date \in Nat
           /\ log.object_update_id \in Nat /\ log.generation \in Nat
           /\ \A e \in ledger_entry : /\ e.generation \in Nat /\ e.entry_id \in Nat
                                      /\ e.creation_date \in Nat
  BY Ranges DEF TypeOK, AccountData, LogEntry, LedgerEntry

\* Transactions that have nothing to do with the ledger.
LEMMA QuietKeepsChain ==
    ASSUME ChainInv, UNCHANGED <<data, ledger_entry, log, work, uid_seq>>,
           StepsAreContained'
    PROVE  ChainInv' /\ LogGrows
  BY DEF ChainInv, HistoryIsKept, RowIsDescribed, WorkIsDescribed, LogGrows

\* The row, its new entries and their log entry are stored together.
LEMMA StoreKeepsChain ==
    ASSUME TypeOK, ChainInv, NEW row \in AccountData,
           NEW entries \in SUBSET LedgerEntry, NEW entry \in LogEntry,
           StoreLedger(row, entries, entry),
           IsDescribed(row, row.ledger_last_transfer_number,
                       ledger_entry \cup entries, Coalesce(entry, log)),
           row.generation = data.generation,
           uid_seq' \in Nat, row.ledger_latest_update_id <= uid_seq',
           entry # NoLogEntry => entry.object_update_id > log.object_update_id,
           ~work'.active, UNCHANGED transfers
    PROVE  ChainInv' /\ LogGrows
  <1>1. /\ data' = row /\ ledger_entry' = ledger_entry \cup entries
        /\ log' = Coalesce(entry, log)
    BY DEF StoreLedger
  <1>2. StepsAreContained' /\ RowIsDescribed' /\ WorkIsDescribed'
    BY <1>1 DEF ChainInv, StepsAreContained, RowIsDescribed, WorkIsDescribed
  <1>3. HistoryIsKept'
    <2>1. log'.object_update_id <= uid_seq'
      <3>1. /\ log'.object_update_id \in Nat
            /\ row.ledger_latest_update_id \in Nat
            /\ log'.object_update_id <= row.ledger_latest_update_id
        BY <1>1, ChainTypes DEF IsDescribed, Coalesce, LogEntry, AccountData
      <3> QED
        BY <3>1
    <2>2. /\ AreInOrder(ledger_entry')
          /\ \A e \in ledger_entry' : Fits(e) /\ e.generation <= data'.generation
          /\ log'.generation <= data'.generation
      BY <1>1 DEF IsDescribed
    <2> QED
      BY <1>1, <2>1, <2>2 DEF HistoryIsKept
  <1>4. LogGrows
    BY <1>1 DEF LogGrows, Coalesce
  <1> QED
    BY <1>2, <1>3, <1>4 DEF ChainInv

\* A correction without a transfer, of a row that has not been booked beyond
\* the new number.
LEMMA CorrectionKeepsChain ==
    ASSUME TypeOK, ChainInv, NEW row \in AccountData, NEW last \in 0 .. MaxNumber,
           NEW number \in 0 .. MaxNumber, last <= number,
           NEW principal \in Principal, NEW always_log \in BOOLEAN,
           IsDescribed(row, last, ledger_entry, log),
           row.generation = data.generation,
           row.ledger_latest_update_id <= uid_seq,
           StoreLedger(update_ledger(row, number, 0, principal, always_log).data,
                       update_ledger(row, number, 0, principal, always_log).entries,
                       update_ledger(row, number, 0, principal, always_log).log_entry),
           uid_seq' = uid_seq + 1, ~work'.active, UNCHANGED transfers
    PROVE  ChainInv' /\ LogGrows
  <1> DEFINE u == update_ledger(row, number, 0, principal, always_log)
  <1>1. now \in Time
    BY DEF TypeOK
  <1>2. IsStep(0, principal)
    BY ZeroInRange DEF IsStep
  <1>3. Adds(u, row, number, 0, principal)
    BY <1>1, <1>2, UpdateAdds
  <1>4. u.log_entry \in LogEntry
    BY <1>1, ZeroInRange, UpdateLedgerType
  <1> HIDE DEF u
  <1>5. /\ u.data \in AccountData /\ u.entries \in SUBSET LedgerEntry
        /\ u.data.generation = data.generation
        /\ u.data.ledger_last_transfer_number = number
        /\ u.data.ledger_latest_update_id
              \in {row.ledger_latest_update_id, row.ledger_latest_update_id + 1}
    BY <1>3 DEF Adds
  <1>6. u.data.ledger_latest_update_id <= uid_seq' /\ uid_seq' \in Nat
    <2>1. row.ledger_latest_update_id \in Nat
      BY DEF AccountData
    <2> QED
      BY <1>5, <2>1, ChainTypes
  <1>7. IsDescribed(u.data, number, ledger_entry \cup u.entries,
                    Coalesce(u.log_entry, log))
    BY <1>3, ChainTypes, AddsDescribed
  <1>8. u.log_entry # NoLogEntry => u.log_entry.object_update_id > log.object_update_id
    BY <1>3, ChainTypes, AddsLog
  <1>9. StoreLedger(u.data, u.entries, u.log_entry)
    BY DEF u
  <1> QED
    BY <1>4, <1>5, <1>6, <1>7, <1>8, <1>9, StoreKeepsChain

\* The scanner corrects the principal, and always logs it.
LEMMA ScannerKeepsChain ==
    ASSUME TypeOK, LedgerInv, ChainInv, ScannerUpdatesLedger
    PROVE  ChainInv' /\ LogGrows
  <1> DEFINE number == data.ledger_last_transfer_number
             u == update_ledger(data, number, 0, data.principal, TRUE)
             corrections == make_correcting_ledger_entry_if_necessary(
                              data, 0, data.principal)
             row == [data EXCEPT
                       !.ledger_last_entry_id = @ + Cardinality(corrections),
                       !.ledger_principal = data.principal,
                       !.ledger_latest_update_id = @ + 1,
                       !.ledger_latest_update_ts = now]
  <1>1. u.data = [data EXCEPT
                    !.ledger_last_entry_id = @ + Cardinality(corrections),
                    !.ledger_principal = data.principal,
                    !.ledger_last_transfer_number = number,
                    !.ledger_latest_update_id = @ + 1,
                    !.ledger_latest_update_ts = now]
        /\ u.entries = corrections
        /\ u.log_entry = LedgerLogEntry(u.data)
    BY DEF update_ledger
  <1>2. /\ StoreLedger(row, corrections, LedgerLogEntry(row))
        /\ uid_seq' = uid_seq + 1 /\ work' = work /\ transfers' = transfers
        /\ data.exists /\ ExclusiveLockFree
    BY DEF ScannerUpdatesLedger
  <1>3. data \in AccountData /\ number \in 0 .. MaxNumber /\ number <= number
    BY ChainTypes, Ranges
  <1>4. u.data = row
    <2> HIDE DEF corrections, u
    <2> QED
      BY <1>1, <1>3 DEF AccountData
  <1> HIDE DEF row, u, corrections
  <1>5. StoreLedger(u.data, u.entries, u.log_entry)
    BY <1>1, <1>2, <1>4
  <1>6. IsDescribed(data, number, ledger_entry, log)
    BY <1>2 DEF ChainInv, RowIsDescribed
  <1>7. data.principal \in Principal /\ data.ledger_latest_update_id <= uid_seq
    BY <1>2, ChainTypes DEF ChainInv, HistoryIsKept
  <1>8. ~work'.active
    BY <1>2 DEF ExclusiveLockFree
  <1> HIDE DEF number
  <1> QED
    BY <1>2, <1>3, <1>5, <1>6, <1>7, <1>8, CorrectionKeepsChain DEF u

\* A new server account: an empty ledger follows all that has been booked.
LEMMA UpdateKeepsChain ==
    ASSUME TypeOK, LedgerInv, ChainInv, NEW m \in updates,
           process_account_update_signal(m)
    PROVE  ChainInv' /\ LogGrows
  <1> DEFINE row == WithServerState(data, m)
             fresh == [row EXCEPT !.ledger_pending_transfer_ts = NullTs]
             reset == update_ledger(fresh, 0, 0, 0, TRUE)
             relog == update_ledger(row, row.ledger_last_transfer_number, 0,
                                    row.ledger_principal, TRUE)
             is_new == m.creation_date > data.creation_date
  <1>1. /\ data.exists /\ ExclusiveLockFree /\ IsNewerEvent(m)
        /\ UNCHANGED <<work, transfers>>
    BY DEF process_account_update_signal
  <1>2. /\ row \in AccountData
        /\ row.generation = data.generation
        /\ row.creation_date = m.creation_date
        /\ row.ledger_last_entry_id = data.ledger_last_entry_id
        /\ row.ledger_principal = data.ledger_principal
        /\ row.ledger_last_transfer_number = data.ledger_last_transfer_number
        /\ row.ledger_latest_update_id = data.ledger_latest_update_id
    BY ServerStateType, ChainTypes DEF WithServerState, AccountData
  <1>3. m.creation_date \in Nat /\ data.creation_date \in Nat
    BY UpdateNumbers, ChainTypes
  <1>4. IsDescribed(data, data.ledger_last_transfer_number, ledger_entry, log)
        /\ data.ledger_latest_update_id <= uid_seq
    BY <1>1 DEF ChainInv, RowIsDescribed, HistoryIsKept
  <1>5. ~work'.active
    BY <1>1 DEF ExclusiveLockFree
  <1> HIDE DEF row
  <1>6. CASE is_new
    <2>1. /\ fresh \in AccountData
          /\ fresh.generation = row.generation
          /\ fresh.creation_date = row.creation_date
          /\ fresh.ledger_last_entry_id = row.ledger_last_entry_id
          /\ fresh.ledger_principal = row.ledger_principal
          /\ fresh.ledger_latest_update_id = row.ledger_latest_update_id
      BY <1>2 DEF AccountData
    <2>2. StoreLedger(reset.data, reset.entries, reset.log_entry) /\ uid_seq' = uid_seq + 1
      BY <1>6 DEF process_account_update_signal, row
    <2> HIDE DEF fresh
    <2>3. AreUpTo(ledger_entry, data.generation, m.creation_date, 0)
      BY <1>3, <1>4, <1>6, ChainTypes DEF IsDescribed, AreUpTo, IsOf
    <2>4. IsDescribed(fresh, 0, ledger_entry, log)
      BY <1>2, <1>4, <2>1, <2>3 DEF IsDescribed, IsLoggedBy, LedgerLogEntry
    <2>5. 0 \in Principal /\ 0 \in 0 .. MaxNumber /\ 0 <= 0
      BY ZeroInRange
    <2>6. fresh.generation = data.generation /\ fresh.ledger_latest_update_id <= uid_seq
      BY <1>2, <1>4, <2>1
    <2> QED
      BY <1>1, <1>5, <2>1, <2>2, <2>4, <2>5, <2>6, CorrectionKeepsChain
  <1>7. ASSUME ~is_new
        PROVE  IsDescribed(row, row.ledger_last_transfer_number, ledger_entry, log)
    <2>1. row.creation_date = data.creation_date
      BY <1>1, <1>2, <1>3, <1>7 DEF IsNewerEvent
    <2> QED
      BY <1>2, <1>4, <2>1, SameDescription
  <1>8. CASE ~is_new /\ m.account_id # data.account_id
    <2> DEFINE number == row.ledger_last_transfer_number
    <2>1. StoreLedger(relog.data, relog.entries, relog.log_entry) /\ uid_seq' = uid_seq + 1
      BY <1>8 DEF process_account_update_signal, row
    <2>2. /\ number \in 0 .. MaxNumber /\ number <= number
          /\ row.ledger_principal \in Principal
      BY <1>2, ChainTypes, Ranges
    <2>3. row.ledger_latest_update_id <= uid_seq
      BY <1>2, <1>4
    <2>4. IsDescribed(row, number, ledger_entry, log)
      BY <1>7, <1>8
    <2> HIDE DEF number
    <2> QED
      BY <1>1, <1>2, <1>5, <2>1, <2>2, <2>3, <2>4, CorrectionKeepsChain DEF number
  <1>9. CASE ~is_new /\ ~(m.account_id # data.account_id)
    <2>1. data' = row /\ UNCHANGED <<ledger_entry, log, uid_seq>>
      BY <1>9 DEF process_account_update_signal, row
    <2>2. RowIsDescribed'
      BY <1>7, <1>9, <2>1 DEF RowIsDescribed
    <2>3. HistoryIsKept' /\ StepsAreContained' /\ LogGrows
      BY <1>1, <1>2, <2>1 DEF ChainInv, HistoryIsKept, StepsAreContained, LogGrows
    <2> QED
      BY <1>5, <2>2, <2>3 DEF ChainInv, WorkIsDescribed
  <1> QED
    BY <1>6, <1>8, <1>9

\* The mirror of the server account is not part of the description.
LEMMA PurgeKeepsChain ==
    ASSUME TypeOK, ChainInv, NEW d, process_account_purge_signal(d)
    PROVE  ChainInv' /\ LogGrows
  <1>1. /\ data' = [data EXCEPT !.has_server_account = FALSE, !.principal = 0]
        /\ ~work'.active
        /\ UNCHANGED <<ledger_entry, log, uid_seq, transfers>>
    BY DEF process_account_purge_signal, ExclusiveLockFree
  <1>2. /\ data'.exists = data.exists
        /\ data'.generation = data.generation
        /\ data'.creation_date = data.creation_date
        /\ data'.ledger_last_entry_id = data.ledger_last_entry_id
        /\ data'.ledger_principal = data.ledger_principal
        /\ data'.ledger_last_transfer_number = data.ledger_last_transfer_number
        /\ data'.ledger_latest_update_id = data.ledger_latest_update_id
    BY <1>1, ChainTypes DEF AccountData
  <1>3. RowIsDescribed'
    <2> DEFINE last == data.ledger_last_transfer_number
    <2>1. ASSUME data.exists
          PROVE  IsDescribed(data', last, ledger_entry, log)
      <3>1. IsDescribed(data, last, ledger_entry, log)
        BY <2>1 DEF ChainInv, RowIsDescribed
      <3> HIDE DEF last
      <3> QED
        BY <1>2, <3>1, SameDescription
    <2> QED
      BY <1>1, <1>2, <2>1 DEF RowIsDescribed
  <1>4. HistoryIsKept' /\ StepsAreContained' /\ LogGrows
    BY <1>1, <1>2 DEF ChainInv, HistoryIsKept, StepsAreContained, LogGrows
  <1> QED
    BY <1>1, <1>3, <1>4 DEF ChainInv, WorkIsDescribed

\* The ledger processor copies the row ...
LEMMA BeginKeepsChain ==
    ASSUME TypeOK, ChainInv, BeginLedgerUpdate
    PROVE  ChainInv' /\ LogGrows
  <1>1. /\ data.exists
        /\ work'.data = data /\ work'.entries = {} /\ work'.log_entry = NoLogEntry
        /\ UNCHANGED <<data, ledger_entry, log, uid_seq, transfers>>
    BY DEF BeginLedgerUpdate
  <1>2. StepsAreContained' /\ HistoryIsKept' /\ RowIsDescribed' /\ LogGrows
    BY <1>1 DEF ChainInv, StepsAreContained, HistoryIsKept, RowIsDescribed, LogGrows
  <1>3. WorkIsDescribed'
    <2>1. ledger_entry' \cup work'.entries = ledger_entry
      BY <1>1
    <2>2. Coalesce(work'.log_entry, log') = log
      BY <1>1 DEF Coalesce
    <2>3. IsDescribed(data, data.ledger_last_transfer_number, ledger_entry, log)
      BY <1>1 DEF ChainInv, RowIsDescribed
    <2> QED
      BY <1>1, <2>1, <2>2, <2>3 DEF WorkIsDescribed
  <1> QED
    BY <1>2, <1>3 DEF ChainInv

LEMMA CoalesceTwice ==
    ASSUME NEW x, NEW y, NEW z
    PROVE  Coalesce(Coalesce(x, y), z) = Coalesce(x, Coalesce(y, z))
  BY DEF Coalesce

\* What the ledger processor works on.
LEMMA WorkTypes ==
    ASSUME TypeOK, LedgerInv, ChainInv, work.active
    PROVE  /\ work.data \in AccountData /\ work.entries \in SUBSET LedgerEntry
           /\ work.log_entry \in LogEntry
           /\ ledger_entry \cup work.entries \in SUBSET LedgerEntry
           /\ Coalesce(work.log_entry, log) \in LogEntry
           /\ work.data.ledger_last_transfer_number \in 0 .. MaxNumber
           /\ work.data.last_transfer_number \in 0 .. MaxNumber
           /\ work.data.principal \in Principal
           /\ work.data.generation = data.generation
           /\ work.data.ledger_latest_update_id \in Nat
           /\ work.log_entry.object_update_id \in Nat
           /\ now \in Time
           /\ IsDescribed(work.data, work.data.ledger_last_transfer_number,
                          ledger_entry \cup work.entries,
                          Coalesce(work.log_entry, log))
           /\ data.ledger_latest_update_id <= uid_seq
           /\ log.object_update_id <= Coalesce(work.log_entry, log).object_update_id
  <1>1. /\ work.data \in AccountData /\ work.entries \in SUBSET LedgerEntry
        /\ work.log_entry \in LogEntry /\ ledger_entry \in SUBSET LedgerEntry
        /\ log \in LogEntry /\ now \in Time
    BY WorkFields, ChainTypes DEF TypeOK
  <1>2. /\ work.data.ledger_last_transfer_number \in 0 .. MaxNumber
        /\ work.data.last_transfer_number \in 0 .. MaxNumber
        /\ work.data.principal \in Principal
        /\ work.data.ledger_latest_update_id \in Nat
        /\ work.log_entry.object_update_id \in Nat
        /\ log.object_update_id \in Nat
    BY <1>1 DEF AccountData, LogEntry
  <1>3. work.data.generation = data.generation /\ data.exists
    BY DEF LedgerInv, LocksAreHeld
  <1>4. /\ data.ledger_latest_update_id <= uid_seq
        /\ IsDescribed(work.data, work.data.ledger_last_transfer_number,
                       ledger_entry \cup work.entries,
                       Coalesce(work.log_entry, log))
        /\ work.log_entry # NoLogEntry =>
              work.log_entry.object_update_id > log.object_update_id
    BY <1>3 DEF ChainInv, HistoryIsKept, WorkIsDescribed
  <1>5. log.object_update_id <= Coalesce(work.log_entry, log).object_update_id
    BY <1>2, <1>4 DEF Coalesce
  <1>6. Coalesce(work.log_entry, log) \in LogEntry
    BY <1>1, CoalesceType
  <1> QED
    BY <1>1, <1>2, <1>3, <1>4, <1>5, <1>6

\* What is added to the work is described, and logged as late as necessary.
LEMMA AddsToWork ==
    ASSUME TypeOK, LedgerInv, ChainInv, work.active,
           NEW row \in AccountData, NEW number \in 0 .. MaxNumber, NEW amount,
           NEW principal \in Principal, NEW last \in 0 .. MaxNumber, NEW u,
           last <= number, amount # 0 => last < number,
           IsDescribed(row, last, ledger_entry \cup work.entries,
                       Coalesce(work.log_entry, log)),
           row.ledger_latest_update_id = work.data.ledger_latest_update_id,
           Adds(u, row, number, amount, principal), u.log_entry \in LogEntry
    PROVE  LET entry == Coalesce(u.log_entry, work.log_entry)
           IN  /\ IsDescribed(u.data, number,
                              ledger_entry \cup (work.entries \cup u.entries),
                              Coalesce(entry, log))
               /\ IF entry = NoLogEntry
                    THEN u.data.ledger_latest_update_id = data.ledger_latest_update_id
                    ELSE entry.object_update_id > log.object_update_id
  <1> DEFINE all == ledger_entry \cup work.entries
             latest == Coalesce(work.log_entry, log)
             entry == Coalesce(u.log_entry, work.log_entry)
  <1>1. all \in SUBSET LedgerEntry /\ latest \in LogEntry
    BY WorkTypes
  <1>2. /\ log.object_update_id \in Nat /\ latest.object_update_id \in Nat
        /\ log.object_update_id <= latest.object_update_id
        /\ u.log_entry.object_update_id \in Nat
    BY <1>1, ChainTypes, WorkTypes DEF LogEntry
  <1>3. IF work.log_entry = NoLogEntry
          THEN work.data.ledger_latest_update_id = data.ledger_latest_update_id
          ELSE work.log_entry.object_update_id > log.object_update_id
    BY DEF ChainInv, WorkIsDescribed
  <1> HIDE DEF all, latest
  <1>4. IsDescribed(row, last, all, latest)
    BY DEF all, latest
  <1>5. IsDescribed(u.data, number, all \cup u.entries, Coalesce(u.log_entry, latest))
    BY <1>1, <1>4, AddsDescribed
  <1>6. u.log_entry # NoLogEntry => u.log_entry.object_update_id > latest.object_update_id
    BY <1>1, <1>4, AddsLog
  <1>7. all \cup u.entries = ledger_entry \cup (work.entries \cup u.entries)
    BY DEF all
  <1>8. Coalesce(u.log_entry, latest) = Coalesce(entry, log)
    BY CoalesceTwice DEF latest
  <1>9. CASE u.log_entry # NoLogEntry
    <2>1. entry = u.log_entry /\ entry # NoLogEntry
      BY <1>9 DEF Coalesce
    <2>2. u.log_entry.object_update_id > log.object_update_id
      BY <1>2, <1>6, <1>9
    <2> QED
      BY <1>5, <1>7, <1>8, <2>1, <2>2
  <1>10. CASE u.log_entry = NoLogEntry
    <2>1. entry = work.log_entry
      BY <1>10 DEF Coalesce
    <2>2. u.data.ledger_latest_update_id = work.data.ledger_latest_update_id
      <3>1. row.generation > 0 /\ u.data.generation = row.generation
        BY <1>4 DEF IsDescribed, Adds
      <3>2. u.data.generation # 0
        BY <3>1 DEF AccountData
      <3>3. LedgerLogEntry(u.data) # NoLogEntry
        BY <3>2 DEF LedgerLogEntry, NoLogEntry
      <3> QED
        BY <1>10, <3>3 DEF Adds
    <2> QED
      BY <1>3, <1>5, <1>7, <1>8, <2>1, <2>2
  <1> QED
    BY <1>9, <1>10

\* ... books one transfer after the other, each one later than those before ...
LEMMA BookKeepsChain ==
    ASSUME TypeOK, LedgerInv, ChainInv, NEW t \in work.todo, BookTransfer(t)
    PROVE  ChainInv' /\ LogGrows
  <1> DEFINE u == update_ledger(work.data, t.transfer_number, t.acquired_amount,
                                t.principal, FALSE)
             entry == Coalesce(u.log_entry, work.log_entry)
             last == work.data.ledger_last_transfer_number
  <1>1. /\ work.active
        /\ work'.active = work.active
        /\ work'.data = u.data
        /\ work'.entries = work.entries \cup u.entries
        /\ work'.log_entry = entry
        /\ UNCHANGED <<data, ledger_entry, log, uid_seq, transfers>>
    <2>1. /\ work.active
          /\ work' = [work EXCEPT !.data = u.data,
                                  !.todo = @ \ {t},
                                  !.entries = @ \cup u.entries,
                                  !.log_entry = entry]
          /\ UNCHANGED <<data, ledger_entry, log, uid_seq, transfers>>
      BY DEF BookTransfer
    <2> HIDE DEF u, entry
    <2> QED
      BY <2>1, WorkFields DEF Work
  <1>2. /\ t \in transfers
        /\ t.creation_date = data.creation_date
        /\ t.transfer_number > last
        /\ work.data.creation_date = data.creation_date
    BY <1>1 DEF LedgerInv, TransfersAreSent, BurstIsNext, LocksAreHeld
  <1>3. /\ t.transfer_number \in 0 .. MaxNumber /\ t.acquired_amount \in Int
        /\ t.principal \in Principal
        /\ t.acquired_amount \in Principal
        /\ t.transfer_number \in Nat
        /\ work.data.creation_date # DATE0
    <2>1. t \in Transfer
      BY <1>2 DEF TypeOK
    <2>2. t.acquired_amount \in Amounts /\ t.principal \in Principal
          /\ t.transfer_number \in 1 .. MaxNumber
      BY <2>1 DEF Transfer
    <2>3. t.creation_date > 0 /\ t.creation_date \in Nat /\ t.transfer_number \in Nat
      BY <1>2, TransferNumbers
    <2>4. t.acquired_amount \in Principal /\ t.acquired_amount \in Int
      BY <2>2, ConstantTypes, LedgerAssumptions
    <2>5. t.transfer_number \in 0 .. MaxNumber
      BY <2>2, ConstantTypes
    <2>6. work.data.creation_date # DATE0
      BY <1>2, <2>3 DEF DATE0
    <2> QED
      BY <2>2, <2>3, <2>4, <2>5, <2>6
  <1>4. IsStep(t.acquired_amount, t.principal)
    BY <1>2, <1>3 DEF ChainInv, StepsAreContained, IsStep
  <1>5. Adds(u, work.data, t.transfer_number, t.acquired_amount, t.principal)
    BY <1>1, <1>3, <1>4, UpdateAdds, WorkTypes
  <1>6. u.log_entry \in LogEntry
    BY <1>1, <1>3, UpdateLedgerType, WorkTypes
  <1> HIDE DEF u
  <1>7. last \in 0 .. MaxNumber /\ last <= t.transfer_number /\ last < t.transfer_number
    <2>1. last \in 0 .. MaxNumber /\ last \in Nat
      BY <1>1, WorkTypes, Ranges
    <2> QED
      BY <1>2, <1>3, <2>1
  <1>8. IsDescribed(work.data, last, ledger_entry \cup work.entries,
                    Coalesce(work.log_entry, log))
    BY <1>1, WorkTypes
  <1>9. /\ IsDescribed(u.data, t.transfer_number,
                       ledger_entry \cup (work.entries \cup u.entries),
                       Coalesce(entry, log))
        /\ IF entry = NoLogEntry
             THEN u.data.ledger_latest_update_id = data.ledger_latest_update_id
             ELSE entry.object_update_id > log.object_update_id
    BY <1>1, <1>3, <1>5, <1>6, <1>7, <1>8, AddsToWork, WorkTypes
  <1>10. u.data.ledger_last_transfer_number = t.transfer_number
    BY <1>5 DEF Adds
  <1> HIDE DEF entry
  <1>11. WorkIsDescribed'
    BY <1>1, <1>9, <1>10 DEF WorkIsDescribed
  <1>12. StepsAreContained' /\ HistoryIsKept' /\ RowIsDescribed' /\ LogGrows
    BY <1>1 DEF ChainInv, StepsAreContained, HistoryIsKept, RowIsDescribed, LogGrows
  <1> QED
    BY <1>11, <1>12 DEF ChainInv

\* ... and stores what it has worked on, or nothing.
LEMMA CommitKeepsChain ==
    ASSUME TypeOK, LedgerInv, ChainInv, work.active, NEW row \in AccountData,
           NEW entries \in SUBSET LedgerEntry, NEW entry \in LogEntry,
           NEW is_done \in BOOLEAN,
           CommitLedgerUpdate(row, entries, entry, is_done),
           IsDescribed(row, row.ledger_last_transfer_number,
                       ledger_entry \cup entries, Coalesce(entry, log)),
           row.generation = data.generation,
           IF entry = NoLogEntry
             THEN row.ledger_latest_update_id = data.ledger_latest_update_id
             ELSE entry.object_update_id > log.object_update_id
    PROVE  ChainInv' /\ LogGrows
  <1>1. ~work'.active /\ UNCHANGED transfers
    BY DEF CommitLedgerUpdate, IdleWork
  <1>2. CASE /\ StoreLedger(row, entries, entry)
             /\ uid_seq' = IF entry # NoLogEntry
                             THEN NextUpdateId(row.ledger_latest_update_id)
                             ELSE uid_seq
    <2>1. row.ledger_latest_update_id \in Nat /\ uid_seq \in Nat
      BY ChainTypes DEF AccountData
    <2>2. data.ledger_latest_update_id <= uid_seq
      BY WorkTypes
    <2>3. uid_seq' \in Nat /\ row.ledger_latest_update_id <= uid_seq'
      BY <1>2, <2>1, <2>2 DEF NextUpdateId
    <2> QED
      BY <1>1, <1>2, <2>3, StoreKeepsChain
  <1>3. CASE UNCHANGED <<data, ledger_entry, log, uid_seq>>
    <2>1. StepsAreContained' /\ HistoryIsKept' /\ RowIsDescribed' /\ LogGrows
      BY <1>1, <1>3 DEF ChainInv, StepsAreContained, HistoryIsKept, RowIsDescribed,
                        LogGrows
    <2> QED
      BY <1>1, <2>1 DEF ChainInv, WorkIsDescribed
  <1> QED
    BY <1>2, <1>3 DEF CommitLedgerUpdate

\* The tail is repaired, or not.
LEMMA CompleteKeepsChain ==
    ASSUME TypeOK, LedgerInv, ChainInv, work.active,
           NEW ts \in Time \cup {NullTs}, NEW is_done \in BOOLEAN,
           CompleteLedgerUpdate(
             [work.data EXCEPT !.ledger_pending_transfer_ts = ts], is_done)
    PROVE  ChainInv' /\ LogGrows
  <1> DEFINE row == [work.data EXCEPT !.ledger_pending_transfer_ts = ts]
             u == update_ledger(row, row.last_transfer_number, 0, row.principal,
                                FALSE)
             entry == Coalesce(u.log_entry, work.log_entry)
             last == work.data.ledger_last_transfer_number
             number == row.last_transfer_number
  <1>1. /\ row \in AccountData
        /\ row.generation = data.generation
        /\ row.generation = work.data.generation
        /\ row.creation_date = work.data.creation_date
        /\ row.last_transfer_number = work.data.last_transfer_number
        /\ row.principal = work.data.principal
        /\ row.ledger_last_entry_id = work.data.ledger_last_entry_id
        /\ row.ledger_principal = work.data.ledger_principal
        /\ row.ledger_last_transfer_number = last
        /\ row.ledger_latest_update_id = work.data.ledger_latest_update_id
    <2>1. work.data \in AccountData /\ work.data.generation = data.generation
      BY WorkTypes
    <2> QED
      BY <2>1 DEF AccountData
  <1>2. \/ /\ IsMissingLastTransfer(row)
           /\ CommitLedgerUpdate(u.data, work.entries \cup u.entries, entry, TRUE)
        \/ CommitLedgerUpdate(row, work.entries, work.log_entry, is_done)
    BY DEF CompleteLedgerUpdate
  <1> HIDE DEF row
  <1>3. IsDescribed(row, last, ledger_entry \cup work.entries,
                    Coalesce(work.log_entry, log))
    <2>1. IsDescribed(work.data, last, ledger_entry \cup work.entries,
                      Coalesce(work.log_entry, log))
      BY WorkTypes
    <2> HIDE DEF last
    <2> QED
      BY <1>1, <2>1, SameDescription
  <1>4. CASE CommitLedgerUpdate(row, work.entries, work.log_entry, is_done)
    <2>1. IF work.log_entry = NoLogEntry
            THEN row.ledger_latest_update_id = data.ledger_latest_update_id
            ELSE work.log_entry.object_update_id > log.object_update_id
      BY <1>1 DEF ChainInv, WorkIsDescribed
    <2>2. IsDescribed(row, row.ledger_last_transfer_number,
                      ledger_entry \cup work.entries, Coalesce(work.log_entry, log))
      BY <1>1, <1>3
    <2> QED
      BY <1>1, <1>4, <2>1, <2>2, CommitKeepsChain, WorkTypes
  <1>5. CASE /\ IsMissingLastTransfer(row)
             /\ CommitLedgerUpdate(u.data, work.entries \cup u.entries, entry, TRUE)
    <2>1. /\ number \in 0 .. MaxNumber /\ last \in 0 .. MaxNumber
          /\ row.principal \in Principal /\ now \in Time
      BY <1>1, WorkTypes
    <2>2. last <= number
      <3>1. number > last
        BY <1>1, <1>5 DEF IsMissingLastTransfer
      <3> QED
        BY <2>1, <3>1, Ranges
    <2>3. IsStep(0, row.principal)
      BY <2>1, ZeroInRange DEF IsStep
    <2>4. Adds(u, row, number, 0, row.principal)
      BY <1>1, <2>1, <2>3, UpdateAdds
    <2>5. u.log_entry \in LogEntry
      BY <1>1, <2>1, ZeroInRange, UpdateLedgerType
    <2> HIDE DEF u
    <2>6. /\ IsDescribed(u.data, number,
                         ledger_entry \cup (work.entries \cup u.entries),
                         Coalesce(entry, log))
          /\ IF entry = NoLogEntry
               THEN u.data.ledger_latest_update_id = data.ledger_latest_update_id
               ELSE entry.object_update_id > log.object_update_id
      BY <1>1, <1>3, <2>1, <2>2, <2>4, <2>5, AddsToWork
    <2>7. /\ u.data \in AccountData /\ u.data.generation = data.generation
          /\ u.data.ledger_last_transfer_number = number
          /\ work.entries \cup u.entries \in SUBSET LedgerEntry
      BY <1>1, <2>4, WorkTypes DEF Adds
    <2>8. entry \in LogEntry
      BY <2>5, WorkTypes, CoalesceType
    <2> HIDE DEF entry, number
    <2> QED
      BY <1>5, <2>6, <2>7, <2>8, CommitKeepsChain
  <1> QED
    BY <1>2, <1>4, <1>5

LEMMA EndKeepsChain ==
    ASSUME TypeOK, LedgerInv, ChainInv,
           \/ \E t \in work.todo : StopAtMissingTransfer(t)
           \/ FinishLedgerUpdate
    PROVE  ChainInv' /\ LogGrows
  <1>1. ASSUME NEW t \in work.todo, StopAtMissingTransfer(t)
        PROVE  ChainInv' /\ LogGrows
    <2>1. t.committed_at \in Time
      <3>1. t \in Transfer
        BY WorkFields
      <3> QED
        BY <3>1 DEF Transfer
    <2> QED
      BY <1>1, <2>1, CompleteKeepsChain DEF StopAtMissingTransfer
  <1>2. CASE FinishLedgerUpdate
    <2>1. work.is_last \in BOOLEAN
      BY WorkFields
    <2> QED
      BY <1>2, <2>1, CompleteKeepsChain DEF FinishLedgerUpdate
  <1> QED
    BY <1>1, <1>2

\* A transaction that is rolled back may only leave a gap in the sequence.
LEMMA CrashKeepsChain ==
    ASSUME TypeOK, ChainInv, CrashLedgerUpdate
    PROVE  ChainInv' /\ LogGrows
  <1>1. /\ ~work'.active /\ uid_seq' \in {uid_seq, uid_seq + 1}
        /\ UNCHANGED <<data, ledger_entry, log, transfers>>
    BY DEF CrashLedgerUpdate, IdleWork
  <1>2. HistoryIsKept'
    <2>1. \A n \in Nat : n <= uid_seq => n <= uid_seq'
      BY <1>1, ChainTypes
    <2>2. log.object_update_id \in Nat /\ data.ledger_latest_update_id \in Nat
      BY ChainTypes
    <2> QED
      BY <1>1, <2>1, <2>2 DEF ChainInv, HistoryIsKept
  <1>3. StepsAreContained' /\ RowIsDescribed' /\ LogGrows
    BY <1>1 DEF ChainInv, StepsAreContained, RowIsDescribed, LogGrows
  <1> QED
    BY <1>1, <1>2, <1>3 DEF ChainInv, WorkIsDescribed

\* The scanner, the Web API and the message handlers: what they leave alone.
LEMMA OtherScannersKeepChain ==
    ASSUME TypeOK, LedgerInv, ChainInv, Scanner
    PROVE  ChainInv' /\ LogGrows
  <1>1. CASE ScannerUpdatesLedger
    BY <1>1, ScannerKeepsChain
  <1>2. CASE ScannerDecidesOnRepair \/ ScannerSchedulesRepair \/ CollectCommittedTransfers
    <2>1. UNCHANGED <<data, ledger_entry, log, work, uid_seq, transfers>>
      BY <1>2 DEF ScannerDecidesOnRepair, ScannerSchedulesRepair,
                  CollectCommittedTransfers
    <2> QED
      BY <2>1, QuietKeepsChain DEF ChainInv, StepsAreContained
  <1> QED
    BY <1>1, <1>2 DEF Scanner

LEMMA SignalsKeepChain ==
    ASSUME TypeOK, LedgerInv, ChainInv, MessageHandlers
    PROVE  ChainInv' /\ LogGrows
  <1>1. ASSUME NEW c \in Consumers,
               \/ \E t \in transfers : ReadLedgerData(c, t)
               \/ InsertCommittedTransfer(c)
               \/ AbandonDuplicateTransfer(c)
               \/ CrashTransferSignal(c)
        PROVE  ChainInv' /\ LogGrows
    <2>1. UNCHANGED <<data, ledger_entry, log, work, uid_seq, transfers>>
      BY <1>1 DEF ReadLedgerData, InsertCommittedTransfer, AbandonDuplicateTransfer,
                  CrashTransferSignal
    <2> QED
      BY <2>1, QuietKeepsChain DEF ChainInv, StepsAreContained
  <1> QED
    BY <1>1, UpdateKeepsChain, PurgeKeepsChain DEF MessageHandlers

\* A new account has an empty ledger, and a later update ID than all before.
LEMMA WebApiKeepsChain ==
    ASSUME TypeOK, LedgerInv, ChainInv, WebApi
    PROVE  ChainInv' /\ LogGrows
  <1>1. CASE ReadAccountToDelete
    <2>1. UNCHANGED <<data, ledger_entry, log, work, uid_seq, transfers>>
      BY <1>1 DEF ReadAccountToDelete
    <2> QED
      BY <2>1, QuietKeepsChain DEF ChainInv, StepsAreContained
  <1>2. CASE create_new_account
    <2> DEFINE g == data.generation + 1
               new == NewAccountData(g)
    <2>1. /\ ~data.exists /\ data' = new /\ uid_seq' = uid_seq + 1
          /\ UNCHANGED <<ledger_entry, log, work, transfers>>
      BY <1>2 DEF create_new_account
    <2>2. /\ new.generation = g
          /\ new.ledger_principal = 0
          /\ new.ledger_latest_update_id = uid_seq + 1
      BY DEF NewAccountData, NoAccount
    <2>3. ~work.active
      BY <2>1 DEF LedgerInv, LocksAreHeld
    <2>4. /\ g \in Nat /\ g > 0
          /\ \A e \in ledger_entry : e.generation # g /\ e.generation <= g
          /\ log.generation # g /\ log.generation <= g
          /\ log.object_update_id <= uid_seq + 1
          /\ uid_seq + 1 <= uid_seq'
          /\ log.object_update_id <= uid_seq'
      <3>1. /\ \A e \in ledger_entry : e.generation <= data.generation
            /\ log.generation <= data.generation
            /\ log.object_update_id <= uid_seq
        BY DEF ChainInv, HistoryIsKept
      <3> QED
        BY <2>1, <3>1, ChainTypes
    <2> HIDE DEF new
    <2>5. \A e \in ledger_entry : ~IsOf(e, g) /\ Fits(e)
      BY <2>4 DEF IsOf, ChainInv, HistoryIsKept
    <2> HIDE DEF g
    <2>6. IsChain(ledger_entry, g, new.ledger_last_entry_id, 0)
      BY <2>5 DEF IsChain
    <2>7. IsDescribed(new, new.ledger_last_transfer_number, ledger_entry, log)
      BY <2>2, <2>4, <2>5, <2>6
         DEF IsDescribed, AreUpTo, IsLoggedBy, ChainInv, HistoryIsKept
    <2>8. RowIsDescribed' /\ WorkIsDescribed' /\ StepsAreContained' /\ LogGrows
      BY <2>1, <2>3, <2>7 DEF RowIsDescribed, WorkIsDescribed, ChainInv,
                              StepsAreContained, LogGrows
    <2>9. HistoryIsKept'
      BY <2>1, <2>2, <2>4 DEF ChainInv, HistoryIsKept
    <2> QED
      BY <2>8, <2>9 DEF ChainInv
  <1>3. CASE DeleteAccount
    <2>1. /\ ExclusiveLockFree
          /\ data' = [NoAccount EXCEPT !.generation = data.generation]
          /\ uid_seq' = uid_seq + 1
          /\ log' = [NoLogEntry EXCEPT !.generation = data.generation,
                                       !.object_update_id = uid_seq + 1,
                                       !.is_deleted = TRUE]
          /\ UNCHANGED <<ledger_entry, work, transfers>>
      BY <1>3 DEF DeleteAccount
    <2>2. /\ ~data'.exists /\ data'.generation = data.generation
          /\ log'.generation = data.generation
          /\ log'.object_update_id = uid_seq + 1
      BY <2>1 DEF NoAccount, NoLogEntry
    <2>3. ~work'.active
      BY <2>1 DEF ExclusiveLockFree
    <2>4. HistoryIsKept'
      BY <2>1, <2>2, ChainTypes DEF ChainInv, HistoryIsKept
    <2>5. LogGrows
      <3>1. log.object_update_id <= uid_seq
        BY DEF ChainInv, HistoryIsKept
      <3> QED
        BY <2>2, <3>1, ChainTypes DEF LogGrows
    <2>6. StepsAreContained' /\ RowIsDescribed' /\ WorkIsDescribed'
      BY <2>1, <2>2, <2>3 DEF ChainInv, StepsAreContained, RowIsDescribed,
                              WorkIsDescribed
    <2> QED
      BY <2>4, <2>5, <2>6 DEF ChainInv
  <1> QED
    BY <1>1, <1>2, <1>3 DEF WebApi

\* The amount that a contained principal has been reached by leads back into
\* the range.
LEMMA ContainedStep ==
    ASSUME NEW principal \in Principal, NEW amount \in Principal
    PROVE  contain_principal_overflow(principal + amount) - amount \in Principal
  BY MaxIntAssumption DEF contain_principal_overflow, Principal, MIN_INT64

LEMMA ServerKeepsChain ==
    ASSUME TypeOK, ChainInv, Server
    PROVE  ChainInv' /\ LogGrows
  <1>1. UNCHANGED <<data, ledger_entry, log, work, uid_seq>>
    BY DEF Server
  <1>2. CASE transfers' = transfers
    BY <1>1, <1>2, QuietKeepsChain DEF ChainInv, StepsAreContained
  <1>3. ASSUME NEW amount \in Amounts, NEW number \in 1 .. MaxNumber,
               ServerTransfer(amount, number)
        PROVE  StepsAreContained'
    <2> DEFINE p == contain_principal_overflow(srv.principal + amount)
               new == [creation_date |-> srv.creation_date,
                       transfer_number |-> number,
                       previous_transfer_number |-> srv.last_transfer_number,
                       acquired_amount |-> amount,
                       principal |-> p,
                       committed_at |-> now]
    <2>1. transfers' = transfers \cup {new}
      BY <1>3 DEF ServerTransfer
    <2>2. srv.principal \in Principal /\ amount \in Principal
      BY LedgerAssumptions DEF TypeOK
    <2>3. p - amount \in Principal
      BY <2>2, ContainedStep
    <2>4. new.principal - new.acquired_amount \in Principal
      BY <2>3
    <2> HIDE DEF new
    <2> QED
      BY <2>1, <2>4 DEF ChainInv, StepsAreContained
  <1>4. transfers' = transfers
          \/ \E amount \in Amounts, number \in 1 .. MaxNumber :
                ServerTransfer(amount, number)
    BY DEF Server, ServerNegligibleTransfer, ServerChangesAccountId, ServerPurge,
           ServerRecreate
  <1> QED
    BY <1>1, <1>2, <1>3, <1>4, QuietKeepsChain

LEMMA ChainInit == Init => ChainInv
  <1> SUFFICES ASSUME Init
               PROVE  ChainInv
    OBVIOUS
  <1>1. /\ transfers = {} /\ ledger_entry = {} /\ log = NoLogEntry /\ uid_seq = 1
        /\ ~work.active
        /\ data.generation = 1 /\ data.ledger_principal = 0
        /\ data.ledger_latest_update_id = 1 /\ data.ledger_last_entry_id = 1
    BY DEF Init, IdleWork, NoAccount
  <1>2. log.generation = 0 /\ log.object_update_id = 0
    BY <1>1 DEF NoLogEntry
  <1>3. AreInOrder(ledger_entry)
    BY <1>1 DEF AreInOrder
  <1>4. IsDescribed(data, data.ledger_last_transfer_number, ledger_entry, log)
    BY <1>1, <1>2, <1>3 DEF IsDescribed, IsChain, AreUpTo, IsLoggedBy
  <1> QED
    BY <1>1, <1>2, <1>3, <1>4 DEF ChainInv, StepsAreContained, HistoryIsKept,
                                  RowIsDescribed, WorkIsDescribed

LEMMA ChainNext ==
    ASSUME TypeOK, LedgerInv, ChainInv, [Next]_vars
    PROVE  ChainInv' /\ LogGrows
  <1>1. CASE Tick
    <2>1. UNCHANGED <<data, ledger_entry, log, work, uid_seq, transfers>>
      BY <1>1 DEF Tick
    <2> QED
      BY <2>1, QuietKeepsChain DEF ChainInv, StepsAreContained
  <1>2. CASE LedgerProcessor
    BY <1>2, BeginKeepsChain, BookKeepsChain, EndKeepsChain DEF LedgerProcessor
  <1>3. CASE UNCHANGED vars
    <2>1. UNCHANGED <<data, ledger_entry, log, work, uid_seq, transfers>>
      BY <1>3 DEF vars
    <2> QED
      BY <2>1, QuietKeepsChain DEF ChainInv, StepsAreContained
  <1> QED
    BY <1>1, <1>2, <1>3, ServerKeepsChain, SignalsKeepChain, CrashKeepsChain,
       OtherScannersKeepChain, WebApiKeepsChain DEF Next

\* The rows, the entries and the log entries that the transactions of the
\* ledger have stored, or are working on, belong together.
THEOREM ChainCorrect == Spec => []ChainInv
  <1>1. TypeOK /\ LedgerInv /\ ChainInv /\ [Next]_vars => ChainInv'
    BY ChainNext
  <1> QED
    BY <1>1, ChainInit, TypeCorrect, LedgerCorrect, PTL DEF Spec

-----------------------------------------------------------------------------
(* The properties of the ledger *)

\* Every entry continues the principal of the one before it, and the row shows
\* the principal of the last one: whatever has been missed, given up, rolled
\* back or reset, and however far the reported principals are from each other.
THEOREM IsChainCorrect == Spec => []LedgerIsChain
  <1>1. ASSUME TypeOK, ChainInv
        PROVE  LedgerIsChain
    <2> DEFINE g == data.generation
               mine == {e \in ledger_entry : e.generation = g}
               before(e) == {f \in mine : f.entry_id = e.entry_id - 1}
    <2>1. SUFFICES ASSUME data.exists
                   PROVE  /\ \A e \in mine :
                                IF before(e) = {}
                                  THEN e.principal = e.acquired_amount
                                  ELSE \A f \in before(e) :
                                          e.principal = f.principal + e.acquired_amount
                          /\ IF mine = {}
                               THEN data.ledger_principal = 0
                               ELSE \E e \in mine :
                                      /\ e.entry_id = data.ledger_last_entry_id
                                      /\ e.principal = data.ledger_principal
      BY DEF LedgerIsChain
    <2>2. IsChain(ledger_entry, g, data.ledger_last_entry_id, data.ledger_principal)
      BY <1>1, <2>1 DEF ChainInv, RowIsDescribed, IsDescribed
    <2>3. \A e \in ledger_entry : IsOf(e, g) <=> e \in mine
      BY DEF IsOf
    <2> HIDE DEF g
    <2>4. ASSUME NEW e \in mine
          PROVE  IF before(e) = {}
                   THEN e.principal = e.acquired_amount
                   ELSE \A f \in before(e) : e.principal = f.principal + e.acquired_amount
      BY <2>2, <2>3, <2>4 DEF IsChain
    <2>5. IF mine = {}
            THEN data.ledger_principal = 0
            ELSE \E e \in mine : /\ e.entry_id = data.ledger_last_entry_id
                                 /\ e.principal = data.ledger_principal
      BY <2>2, <2>3 DEF IsChain
    <2> QED
      BY <2>4, <2>5
  <1> QED
    BY <1>1, ChainCorrect, TypeCorrect, PTL

\* No entry overflows its columns, not even when a ledger moves from one end
\* of the range of principals to the other.
THEOREM FitsCorrect == Spec => []LedgerFitsColumns
  <1>1. ChainInv => LedgerFitsColumns
    BY DEF ChainInv, HistoryIsKept, LedgerFitsColumns, Fits
  <1> QED
    BY <1>1, ChainCorrect, PTL

\* Transfers are booked once, in the order of their server accounts and their
\* numbers, whatever order their messages have come in.
THEOREM OrderCorrect == Spec => []BookedInOrder
  <1>1. ChainInv => BookedInOrder
    BY DEF ChainInv, HistoryIsKept, AreInOrder, IsBefore, BookedInOrder
  <1> QED
    BY <1>1, ChainCorrect, PTL

\* Every change of the ledger is logged in the same transaction.
THEOREM LogCorrect == Spec => []LedgerLogIsCurrent
  <1>1. ChainInv => LedgerLogIsCurrent
    BY DEF ChainInv, RowIsDescribed, IsDescribed, IsLoggedBy, IsOf, LedgerLogIsCurrent
  <1> QED
    BY <1>1, ChainCorrect, PTL

\* No log entry about the ledger has an update ID that an earlier one had, not
\* even about another account with the same debtor.
THEOREM UpdateIdsCorrect == Spec => UpdateIdsGrow
  <1>1. TypeOK /\ LedgerInv /\ ChainInv /\ [Next]_vars
          => [log' # log => log'.object_update_id > log.object_update_id]_vars
    BY ChainNext DEF LogGrows
  <1> QED
    BY <1>1, ChainCorrect, TypeCorrect, LedgerCorrect, PTL DEF Spec, UpdateIdsGrow

-----------------------------------------------------------------------------
(* The log of committed transfers *)

\* Messages are refused before the rows of their transfers are collected.
LEMMA LoggingInit == Init => LoggingInv
  BY DEF Init, LoggingInv, TransferLoggedOnce, LoggedAreKept, IdleReader

LEMMA LoggingTypes ==
    ASSUME TypeOK
    PROVE  /\ now \in Nat /\ LOG_RETENTION \in Nat
           /\ \A a \in transfer_log : a.transfer.committed_at \in Nat
           /\ \A t \in committed_transfer : t.committed_at \in Nat
           /\ \A t \in transfers : t.committed_at \in Nat
           /\ readers \in [Consumers -> Reader]
  <1>1. \A t \in Transfer : t.committed_at \in Nat
    BY Ranges DEF Transfer
  <1>2. /\ \A a \in transfer_log : a.transfer \in Transfer
        /\ committed_transfer \subseteq Transfer /\ transfers \subseteq Transfer
        /\ readers \in [Consumers -> Reader] /\ now \in Time
    BY DEF TypeOK
  <1> QED
    BY <1>1, <1>2, Ranges, LedgerAssumptions

LEMMA LoggingNext ==
    ASSUME TypeOK, LoggingInv, [Next]_vars
    PROVE  LoggingInv'
  <1> USE DEF LoggingInv, TransferLoggedOnce, LoggedAreKept
  <1>1. CASE Tick
    <2>1. /\ now' = now + 1 /\ \A c \in Consumers : ~readers[c].active
          /\ UNCHANGED <<transfer_log, committed_transfer, readers>>
      BY <1>1 DEF Tick, NoOpenTransaction, ExclusiveLockFree
    <2>2. \A a \in transfer_log : now - a.transfer.committed_at > LOG_RETENTION
                                    => now' - a.transfer.committed_at > LOG_RETENTION
      BY <2>1, LoggingTypes
    <2> QED
      BY <2>1, <2>2
  <1>2. ASSUME NEW c \in Consumers, NEW t \in transfers, ReadLedgerData(c, t)
        PROVE  LoggingInv'
    <2>1. /\ now - t.committed_at <= LOG_RETENTION
          /\ readers'[c].message = t
          /\ \A d \in Consumers : d # c => readers'[d] = readers[d]
          /\ UNCHANGED <<now, transfer_log, committed_transfer>>
      BY <1>2, LoggingTypes DEF ReadLedgerData
    <2> QED
      BY <2>1
  <1>3. ASSUME NEW c \in Consumers, InsertCommittedTransfer(c)
        PROVE  LoggingInv'
    <2> DEFINE t == readers[c].message
               entry == [transfer |-> t, added_at |-> now]
    <2>1. /\ readers[c].active /\ t \notin committed_transfer
          /\ committed_transfer' = committed_transfer \cup {t}
          /\ transfer_log' = transfer_log \cup {entry}
          /\ ~readers'[c].active
          /\ \A d \in Consumers : d # c => readers'[d] = readers[d]
          /\ now' = now
      BY <1>3, LoggingTypes DEF InsertCommittedTransfer, IdleReader
    <2>2. \A a \in transfer_log : a.transfer # t
      BY <2>1, LoggingTypes
    <2>3. entry.transfer = t
      OBVIOUS
    <2> HIDE DEF entry, t
    <2>4. TransferLoggedOnce'
      BY <2>1, <2>2, <2>3
    <2>5. LoggedAreKept'
      BY <2>1, <2>3
    <2> QED
      BY <2>4, <2>5
  <1>4. ASSUME NEW c \in Consumers,
               AbandonDuplicateTransfer(c) \/ CrashTransferSignal(c)
        PROVE  LoggingInv'
    <2>1. /\ ~readers'[c].active
          /\ \A d \in Consumers : d # c => readers'[d] = readers[d]
          /\ UNCHANGED <<now, transfer_log, committed_transfer>>
      BY <1>4, LoggingTypes DEF AbandonDuplicateTransfer, CrashTransferSignal, IdleReader
    <2> QED
      BY <2>1
  <1>5. CASE CollectCommittedTransfers
    <2>1. /\ committed_transfer' = {t \in committed_transfer : ~IsGarbage(t)}
          /\ UNCHANGED <<now, transfer_log, readers>>
      BY <1>5 DEF CollectCommittedTransfers
    <2>2. ASSUME NEW t \in committed_transfer, IsGarbage(t)
          PROVE  now - t.committed_at > LOG_RETENTION
      <3>1. /\ t.committed_at \in Nat /\ now \in Nat
            /\ LOG_RETENTION \in Nat /\ LEDGER_RETENTION \in Nat
            /\ MAX_TRANSFER_DELAY \in Nat
        BY LoggingTypes, LedgerAssumptions
      <3> QED
        BY <2>2, <3>1 DEF IsGarbage
    <2> QED
      BY <2>1, <2>2
  <1>6. ASSUME UNCHANGED <<now, transfer_log, committed_transfer, readers>>
        PROVE  LoggingInv'
    BY <1>6
  <1>7. CASE Server
    BY <1>6, <1>7 DEF Server
  <1>8. ASSUME NEW m \in updates, process_account_update_signal(m)
        PROVE  LoggingInv'
    BY <1>6, <1>8 DEF process_account_update_signal
  <1>9. ASSUME NEW d \in PurgedDates, process_account_purge_signal(d)
        PROVE  LoggingInv'
    BY <1>6, <1>9 DEF process_account_purge_signal
  <1>10. CASE LedgerProcessor
    <2>1. CASE BeginLedgerUpdate
      BY <1>6, <2>1 DEF BeginLedgerUpdate
    <2>2. ASSUME NEW t \in work.todo, BookTransfer(t)
          PROVE  LoggingInv'
      BY <1>6, <2>2 DEF BookTransfer
    <2>3. ASSUME NEW row, NEW is_done, CompleteLedgerUpdate(row, is_done)
          PROVE  LoggingInv'
      BY <1>6, <2>3 DEF CompleteLedgerUpdate, CommitLedgerUpdate
    <2>4. CASE FinishLedgerUpdate
      BY <2>3, <2>4 DEF FinishLedgerUpdate
    <2>5. ASSUME NEW t \in work.todo, StopAtMissingTransfer(t)
          PROVE  LoggingInv'
      BY <2>3, <2>5 DEF StopAtMissingTransfer
    <2> QED
      BY <1>10, <2>1, <2>2, <2>4, <2>5 DEF LedgerProcessor
  <1>11. CASE CrashLedgerUpdate
    BY <1>6, <1>11 DEF CrashLedgerUpdate
  <1>12. CASE Scanner
    <2>1. CASE ScannerUpdatesLedger \/ ScannerDecidesOnRepair \/ ScannerSchedulesRepair
      BY <1>6, <2>1 DEF ScannerUpdatesLedger, ScannerDecidesOnRepair,
                        ScannerSchedulesRepair
    <2> QED
      BY <1>5, <1>12, <2>1 DEF Scanner
  <1>13. CASE WebApi
    BY <1>6, <1>13 DEF WebApi, create_new_account, ReadAccountToDelete, DeleteAccount
  <1>14. CASE UNCHANGED vars
    BY <1>6, <1>14 DEF vars
  <1> QED
    BY <1>1, <1>2, <1>3, <1>4, <1>7, <1>8, <1>9, <1>10, <1>11, <1>12, <1>13, <1>14
       DEF Next, MessageHandlers

\* A transfer is logged once, for any retention of logs and ledgers, although
\* its message may come again when its row has been collected.
THEOREM LoggedOnceCorrect == Spec => []TransferLoggedOnce
  <1>1. TypeOK /\ LoggingInv /\ [Next]_vars => LoggingInv'
    BY LoggingNext
  <1>2. LoggingInv => TransferLoggedOnce
    BY DEF LoggingInv
  <1> QED
    BY <1>1, <1>2, LoggingInit, TypeCorrect, PTL DEF Spec

=============================================================================
