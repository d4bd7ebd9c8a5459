------------------------- MODULE CreditorLogProofs -------------------------
(***************************************************************************)
(* Proofs about the creditor log, for any number of accounts, transfers,   *)
(* clients' failures, and any size of pages: the log is consecutive,       *)
(* nothing that is visible is missing from it or on its way to it, and a   *)
(* client that follows it has copies that are true and only move forward.  *)
(***************************************************************************)
EXTENDS CreditorLog, FiniteSetTheorems, WellFoundedInduction, TLAPS

-----------------------------------------------------------------------------
(* The inductive invariant                                                 *)

\* Lists are always there; a transfer whose number is not the last one may
\* still be deleted.
ObjectsOK ==
    /\ \A l \in Lists : object[l].exists
    /\ \A t \in Transfers : object[t].exists => object[t].version < Forever

\* The entry tells of a state that its object has had, or has now.
IsTrue(e) ==
    LET s == EntryState(e)
    IN  /\ s.version <= object[e.object].version
        /\ s.version = object[e.object].version => s = object[e.object]

\* A deletion is told of without an update ID; the lists are never deleted.
IsWellFormed(e) ==
    /\ e.update_id = NoUpdateId => e.is_deleted
    /\ e.object \in Lists => ~e.is_deleted

EntriesOK ==
    /\ \A e \in pending_log_entry :
           IsTrue(e) /\ IsWellFormed(e) /\ e.object \notin Lists
    /\ \A e \in log_entry : IsTrue(e) /\ IsWellFormed(e)

\* Entries are told apart by their IDs, and none is missing between the IDs
\* "first" and "last".
AreNumbered(entries, first, last) ==
    /\ \A e \in entries : e.entry_id <= last
    /\ \A e1, e2 \in entries : e1.entry_id = e2.entry_id => e1 = e2
    /\ \A id \in (first + 1)..last : \E e \in entries : e.entry_id = id

LogOK ==
    /\ IsFiniteSet(log_entry)
    /\ AreNumbered(log_entry, cursor, last_log_entry_id)

\* What the processor has added so far, under its lock.
IsFor(added, e) == added = AsLogEntry(added.entry_id, e)

IsListUpdate(e, version) ==
    /\ e.object = "TransfersList"
    /\ ~e.is_deleted
    /\ e.update_id = version

ProcessorOK ==
    /\ ~processor.is_locking => processor = Idle
    /\ processor.is_locking =>
        /\ processor.todo \cup processor.done \subseteq pending_log_entry
        /\ processor.last >= last_log_entry_id
        /\ processor.list_id >= object["TransfersList"].version
        /\ IsFiniteSet(processor.added)
        /\ \A e \in processor.added : e.entry_id > last_log_entry_id
        /\ AreNumbered(processor.added, last_log_entry_id, processor.last)
        /\ \A e \in processor.added :
              \/ \E d \in processor.done : IsFor(e, d)
              \/ \E version \in (object["TransfersList"].version + 1)
                                    .. processor.list_id :
                     IsListUpdate(e, version)
        /\ \A d \in processor.done :
              /\ \E e \in processor.added : IsFor(e, d)
              /\ ChangesTransfersList(d) =>
                     processor.list_id > object["TransfersList"].version
        /\ processor.list_id > object["TransfersList"].version =>
              \E e \in processor.added : IsListUpdate(e, processor.list_id)

\* Copies are no newer than their objects.
CopiesOK ==
    \A o \in Objects :
        /\ copy[o].version <= object[o].version
        /\ copy[o].version = object[o].version => copy[o] = object[o]
        /\ o \in unread => copy[o] = Unknown

\* The client reads everything before it follows the log.
ClientOK ==
    /\ "Wallet" \in unread => Objects \subseteq unread
    /\ unread # {} => ~request.is_read /\ ~page.is_read
    /\ ~(request.is_read /\ page.is_read)
    /\ ~page.is_read => page.entries = {}
    /\ cursor <= last_log_entry_id
    /\ request.is_read => request.last \in cursor..last_log_entry_id
    /\ page.is_read => page.next \in cursor..last_log_entry_id
    /\ page.entries \subseteq {e \in log_entry : e.entry_id > cursor}

LogInv ==
    /\ TypeOK
    /\ ObjectsOK
    /\ EntriesOK
    /\ LogOK
    /\ ProcessorOK
    /\ CopiesOK
    /\ ClientOK
    /\ NothingMissed
    /\ ListsAreComplete

-----------------------------------------------------------------------------
(* Sets of numbers, and the first entries of a set.                        *)

\* A set of natural numbers has a least element.
LEMMA Smallest ==
    ASSUME NEW S \in SUBSET Nat, S # {}
    PROVE  \E x \in S : \A y \in S : x <= y
<1>. DEFINE Initials == {0 .. x : x \in S}
<1>1. \A x \in S : 0..x \in FiniteSubsetsOf(Nat)
  BY FS_Interval DEF FiniteSubsetsOf
<1>2. Initials \subseteq FiniteSubsetsOf(Nat) /\ Initials # {}
  BY <1>1
<1>3. PICK I \in Initials :
          \A J \in Initials : ~ (<<J, I>> \in StrictSubsetOrdering(Nat))
  <2>. HIDE DEF Initials
  <2>. QED BY <1>2, WFMin, FS_StrictSubsetOrderingWellFounded
<1>4. PICK x \in S : I = 0..x
  OBVIOUS
<1>5. ASSUME NEW y \in S, y < x PROVE FALSE
  <2>1. /\ 0..y \in Initials /\ 0..y \subseteq 0..x /\ 0..y # 0..x
        /\ 0..y \subseteq Nat /\ 0..x \subseteq Nat
    BY <1>5
  <2>. QED BY <2>1, <1>3, <1>4 DEF StrictSubsetOrdering
<1>. QED BY <1>5, SMT

\* A bounded set of natural numbers has a greatest element.
LEMMA Largest ==
    ASSUME NEW S \in SUBSET Nat, S # {},
           NEW n \in Nat, \A x \in S : x <= n
    PROVE  \E x \in S : \A y \in S : y <= x
<1>. DEFINE T == {n - x : x \in S}
<1>1. T \in SUBSET Nat /\ T # {}
  <2>1. \A x \in S : n - x \in Nat
    OBVIOUS
  <2>. QED BY <2>1
<1>2. PICK z \in T : \A y \in T : z <= y
  <2>. HIDE DEF T
  <2>. QED BY <1>1, Smallest
<1>3. PICK x \in S : z = n - x
  OBVIOUS
<1>4. ASSUME NEW y \in S PROVE y <= x
  <2>1. n - y \in T
    OBVIOUS
  <2>. QED BY <2>1, <1>2, <1>3
<1>. QED BY <1>4

\* The first entries begin with the first one: an entry that precedes one of
\* them is one of them.
LEMMA FirstEntriesPrecede ==
    ASSUME NEW S \in SUBSET LogEntry, IsFiniteSet(S), NEW n \in Nat,
           NEW e \in FirstEntries(S, n), NEW f \in S,
           f.entry_id <= e.entry_id
    PROVE  f \in FirstEntries(S, n)
<1>. DEFINE Upto(g) == {h \in S : h.entry_id <= g.entry_id}
<1>1. e \in S /\ Cardinality(Upto(e)) <= n
  BY DEF FirstEntries
<1>2. \A g \in S : g.entry_id \in Nat
  BY DEF LogEntry
<1>3. Upto(f) \subseteq Upto(e)
  BY <1>1, <1>2
<1>4. /\ Cardinality(Upto(f)) \in Nat /\ Cardinality(Upto(e)) \in Nat
      /\ Cardinality(Upto(f)) <= Cardinality(Upto(e))
  <2>1. IsFiniteSet(Upto(e)) /\ IsFiniteSet(Upto(f))
    BY FS_Subset
  <2>. HIDE DEF Upto
  <2>. QED BY <2>1, <1>3, FS_Subset, FS_CardinalityType
<1>5. Cardinality(Upto(f)) <= n
  BY <1>1, <1>4
<1>. QED BY <1>5 DEF FirstEntries

\* When there are fewer of them than asked for, nothing is left out.
LEMMA FewEntriesAreAll ==
    ASSUME NEW S \in SUBSET LogEntry, IsFiniteSet(S), NEW n \in Nat,
           \A e1, e2 \in S : e1.entry_id = e2.entry_id => e1 = e2,
           Cardinality(FirstEntries(S, n)) < n
    PROVE  FirstEntries(S, n) = S
<1>. DEFINE F == FirstEntries(S, n)
            Upto(g) == {h \in S : h.entry_id <= g.entry_id}
            Missing == {g.entry_id : g \in S \ F}
<1>1. F \subseteq S /\ IsFiniteSet(F)
  BY FS_Subset DEF FirstEntries
<1>2. SUFFICES ASSUME S \ F # {} PROVE FALSE
  BY <1>1
<1>3. Missing \in SUBSET Nat /\ Missing # {}
  BY <1>2 DEF LogEntry
<1>4. PICK id \in Missing : \A other \in Missing : id <= other
  <2>. HIDE DEF Missing
  <2>. QED BY <1>3, Smallest
<1>5. PICK e \in S \ F : e.entry_id = id
  OBVIOUS
<1>6. Upto(e) \subseteq F \cup {e}
  <2>. SUFFICES ASSUME NEW h \in Upto(e), h \notin F PROVE h = e
    OBVIOUS
  <2>1. h.entry_id \in Missing /\ h.entry_id <= e.entry_id
    OBVIOUS
  <2>2. h.entry_id \in Nat /\ e.entry_id \in Nat
    BY DEF LogEntry
  <2>3. h.entry_id = e.entry_id
    <3>. HIDE DEF Missing, Upto
    <3>. QED BY <2>1, <2>2, <1>4, <1>5
  <2>. QED BY <2>3
<1>7. /\ IsFiniteSet(F \cup {e})
      /\ Cardinality(F \cup {e}) = Cardinality(F) + 1
  <2>. HIDE DEF F
  <2>. QED BY <1>1, <1>5, FS_AddElement
<1>8. /\ Cardinality(Upto(e)) <= Cardinality(F \cup {e})
      /\ Cardinality(Upto(e)) \in Nat
  <2>. HIDE DEF Upto, F
  <2>. QED BY <1>6, <1>7, FS_Subset, FS_CardinalityType
<1>9. Cardinality(F) \in Nat
  BY <1>1, FS_CardinalityType
<1>10. Cardinality(Upto(e)) <= n
  <2>. HIDE DEF Upto
  <2>. QED BY <1>7, <1>8, <1>9
<1>. QED BY <1>5, <1>10 DEF FirstEntries

-----------------------------------------------------------------------------
(* Types.                                                                  *)

LEMMA ObjectNames ==
    /\ "AccountsList" \in Objects /\ "TransfersList" \in Objects
    /\ "AccountsList" \notin Accounts \cup Transfers
    /\ "TransfersList" \notin Accounts \cup Transfers
    /\ Accounts \subseteq Objects /\ Transfers \subseteq Objects
    /\ Accounts \cap Transfers = {}
    /\ "AccountsList" # "TransfersList"
BY CreditorLogAssumption DEF Objects, Lists

LEMMA EntryTypes ==
    /\ \A o \in Objects, update_id \in Nat, is_deleted \in BOOLEAN :
           PendingEntry(o, update_id, is_deleted) \in PendingLogEntry
    /\ \A id \in Nat, e \in PendingLogEntry :
           AsLogEntry(id, e) \in LogEntry
    /\ \A e \in PendingLogEntry \cup LogEntry :
           /\ e.object \in Objects /\ e.update_id \in Nat
           /\ e.is_deleted \in BOOLEAN
    /\ \A e \in LogEntry : e.entry_id \in Nat
BY DEF PendingEntry, AsLogEntry, PendingLogEntry, LogEntry

\* An entry of the log tells the same as the pending entry that it is for.
LEMMA EntryInLog ==
    ASSUME NEW id, NEW e
    PROVE  LET added == AsLogEntry(id, e)
           IN  /\ added.entry_id = id
               /\ added.object = e.object
               /\ added.update_id = e.update_id
               /\ added.is_deleted = e.is_deleted
               /\ EntryState(added) = EntryState(e)
               /\ IsTrue(e) => IsTrue(added)
               /\ IsWellFormed(e) => IsWellFormed(added)
BY DEF AsLogEntry, EntryState, IsTrue, IsWellFormed

LEMMA EntryStateType ==
    ASSUME NEW e \in PendingLogEntry \cup LogEntry
    PROVE  /\ EntryState(e) \in State
           /\ EntryState(e).version \in Nat
           /\ e.update_id # NoUpdateId =>
                /\ EntryState(e) = [exists |-> ~e.is_deleted,
                                    version |-> e.update_id]
                /\ EntryState(e).version = e.update_id
                /\ EntryState(e).exists = ~e.is_deleted
           /\ e.update_id = NoUpdateId =>
                /\ EntryState(e).version = Forever
                /\ EntryState(e).exists = FALSE
<1>1. e.update_id \in Nat /\ e.is_deleted \in BOOLEAN /\ Forever \in Nat
  BY EntryTypes, CreditorLogAssumption DEF Forever
<1>. QED BY <1>1 DEF EntryState, State

\* What an entry tells of an object that is there, and of one that is not
\* there any more.
LEMMA EntryTells ==
    ASSUME NEW e \in PendingLogEntry
    PROVE  /\ ~e.is_deleted /\ e.update_id # NoUpdateId =>
                  EntryState(e) = [exists |-> TRUE, version |-> e.update_id]
           /\ e.is_deleted /\ e.update_id # NoUpdateId =>
                  EntryState(e) = [exists |-> FALSE, version |-> e.update_id]
           /\ e.update_id = NoUpdateId =>
                  EntryState(e) = [exists |-> FALSE, version |-> Forever]
<1>1. e.is_deleted = TRUE \/ e.is_deleted = FALSE
  BY EntryTypes
<1>2. CASE e.is_deleted = FALSE
  <2>1. (~e.is_deleted) = TRUE
    BY <1>2
  <2>. QED BY <1>2, <2>1 DEF EntryState
<1>3. CASE e.is_deleted = TRUE
  <2>1. (~e.is_deleted) = FALSE
    BY <1>3
  <2>. QED BY <1>3, <2>1 DEF EntryState
<1>. QED BY <1>1, <1>2, <1>3

LEMMA InitTypeOK == Init => TypeOK
<1>. SUFFICES ASSUME Init PROVE TypeOK
  OBVIOUS
<1>1. Unknown \in State /\ [exists |-> TRUE, version |-> 1] \in State
  BY DEF State, Unknown
<1>2. object \in [Objects -> State]
  BY <1>1 DEF Init
<1>3. \A a \in Accounts : object[a].version <= uid_seq
  <2>. TAKE a \in Accounts
  <2>1. a \in Objects /\ a \notin Lists
    BY ObjectNames DEF Lists
  <2>2. object[a] = Unknown
    BY <2>1 DEF Init
  <2>. QED BY <2>2 DEF Unknown, Init
<1>4. processor \in [is_locking: BOOLEAN, todo: SUBSET PendingLogEntry,
                     done: SUBSET PendingLogEntry, added: SUBSET LogEntry,
                     last: Nat, list_id: Nat]
  BY DEF Init, Idle
<1>. QED BY <1>1, <1>2, <1>3, <1>4 DEF Init, TypeOK, NoRequest, NoPage

\* The transaction with which the processor ends an entry.
LEMMA AddPendingLogEntryEffect ==
    ASSUME TypeOK, NEW e \in processor.todo, AddPendingLogEntry(e)
    PROVE  LET n == IF ChangesTransfersList(e) THEN 1 ELSE 0
               list_entry == AsLogEntry(processor.last + 2, ListEntry)
           IN  /\ processor'.is_locking = processor.is_locking
               /\ processor'.todo = processor.todo \ {e}
               /\ processor'.done = processor.done \cup {e}
               /\ processor'.added = processor.added
                      \cup {AsLogEntry(processor.last + 1, e)}
                      \cup (IF ChangesTransfersList(e) THEN {list_entry} ELSE {})
               /\ processor'.last = processor.last + 1 + n
               /\ processor'.list_id = processor.list_id + n
               /\ e \in PendingLogEntry
               /\ AsLogEntry(processor.last + 1, e) \in LogEntry
               /\ list_entry \in LogEntry
               /\ processor' \in
                      [is_locking: BOOLEAN, todo: SUBSET PendingLogEntry,
                       done: SUBSET PendingLogEntry, added: SUBSET LogEntry,
                       last: Nat, list_id: Nat]
<1>. DEFINE n == IF ChangesTransfersList(e) THEN 1 ELSE 0
            list_entry == AsLogEntry(processor.last + 2, ListEntry)
            added == LogEntriesFor(e)
<1>1. /\ processor.todo \in SUBSET PendingLogEntry
      /\ processor.done \in SUBSET PendingLogEntry
      /\ processor.added \in SUBSET LogEntry
      /\ processor.last \in Nat /\ processor.list_id \in Nat
      /\ processor.is_locking \in BOOLEAN
  BY DEF TypeOK
<1>2. e \in PendingLogEntry /\ ListEntry \in PendingLogEntry
  <2>1. processor.list_id + 1 \in Nat
    BY <1>1
  <2>2. ListEntry \in PendingLogEntry
    BY <2>1, ObjectNames, EntryTypes DEF ListEntry
  <2>. QED BY <1>1, <2>2
<1>3. AsLogEntry(processor.last + 1, e) \in LogEntry /\ list_entry \in LogEntry
  BY <1>1, <1>2, EntryTypes
<1>4. added = {AsLogEntry(processor.last + 1, e)}
                  \cup (IF ChangesTransfersList(e) THEN {list_entry} ELSE {})
  <2>1. processor.last + 1 + 1 = processor.last + 2
    BY <1>1
  <2>. QED BY <2>1 DEF LogEntriesFor, NextEntryId
<1>5. processor' = [processor EXCEPT !.todo = @ \ {e},
                                     !.done = @ \cup {e},
                                     !.added = @ \cup added,
                                     !.last = @ + 1 + n,
                                     !.list_id = @ + n]
  BY DEF AddPendingLogEntry
<1>6. n \in Nat /\ added \in SUBSET LogEntry
  BY <1>3, <1>4
<1>. HIDE DEF n, added
<1>7. /\ processor'.is_locking = processor.is_locking
      /\ processor'.todo = processor.todo \ {e}
      /\ processor'.done = processor.done \cup {e}
      /\ processor'.added = processor.added \cup added
      /\ processor'.last = processor.last + 1 + n
      /\ processor'.list_id = processor.list_id + n
  BY <1>5 DEF TypeOK
<1>8. processor' \in
          [is_locking: BOOLEAN, todo: SUBSET PendingLogEntry,
           done: SUBSET PendingLogEntry, added: SUBSET LogEntry,
           last: Nat, list_id: Nat]
  <2>1. processor \in
            [is_locking: BOOLEAN, todo: SUBSET PendingLogEntry,
             done: SUBSET PendingLogEntry, added: SUBSET LogEntry,
             last: Nat, list_id: Nat]
    BY DEF TypeOK
  <2>2. /\ processor.todo \ {e} \in SUBSET PendingLogEntry
        /\ processor.done \cup {e} \in SUBSET PendingLogEntry
        /\ processor.added \cup added \in SUBSET LogEntry
        /\ processor.last + 1 + n \in Nat /\ processor.list_id + n \in Nat
    BY <1>1, <1>2, <1>6
  <2>. QED BY <2>1, <2>2, <1>5
<1>9. processor'.added = processor.added
          \cup {AsLogEntry(processor.last + 1, e)}
          \cup (IF ChangesTransfersList(e) THEN {list_entry} ELSE {})
  <2>. HIDE DEF list_entry
  <2>. QED BY <1>4, <1>7
<1>. QED BY <1>2, <1>3, <1>7, <1>8, <1>9 DEF n

Tells(e, o, state) == e.object = o /\ EntryState(e) = state

\* The state of the list of accounts after an account's entries.
AccountsListState ==
    [exists |-> TRUE, version |-> object["AccountsList"].version + 1]

\* What the creation of an account and its deletion have in common.
LogsAccount(a, state) ==
    /\ IsCreditorLockFree
    /\ state.version = uid_seq + 1
    /\ uid_seq' = uid_seq + 1
    /\ object' = [object EXCEPT ![a] = state,
                                !["AccountsList"] = AccountsListState]
    /\ last_log_entry_id' = last_log_entry_id + 2
    /\ \E x, y \in LogEntry :
           /\ log_entry' = log_entry \cup {x, y}
           /\ Tells(x, a, state) /\ IsWellFormed(x)
           /\ Tells(y, "AccountsList", AccountsListState) /\ IsWellFormed(y)
           /\ \/ /\ x.entry_id = last_log_entry_id + 1
                 /\ y.entry_id = last_log_entry_id + 2
              \/ /\ x.entry_id = last_log_entry_id + 2
                 /\ y.entry_id = last_log_entry_id + 1
    /\ UNCHANGED <<pending_log_entry, processor, client, failures>>

\* What the entries tell that CreateAccount and DeleteAccount make.
LEMMA MadeEntry ==
    ASSUME NEW o \in Objects, NEW update_id \in Nat \ {0}, NEW id \in Nat
    PROVE  /\ LET x == AsLogEntry(id, PendingEntry(o, update_id, FALSE))
              IN  /\ x \in LogEntry /\ x.entry_id = id
                  /\ Tells(x, o, [exists |-> TRUE, version |-> update_id])
                  /\ IsWellFormed(x)
           /\ o \notin Lists =>
              LET x == AsLogEntry(id, PendingEntry(o, update_id, TRUE))
              IN  /\ x \in LogEntry /\ x.entry_id = id
                  /\ Tells(x, o, [exists |-> FALSE, version |-> update_id])
                  /\ IsWellFormed(x)
<1>1. update_id # NoUpdateId
  BY DEF NoUpdateId
<1>. DEFINE live == PendingEntry(o, update_id, FALSE)
            dead == PendingEntry(o, update_id, TRUE)
<1>2. /\ live \in PendingLogEntry /\ dead \in PendingLogEntry
      /\ live.object = o /\ live.update_id = update_id /\ ~live.is_deleted
      /\ dead.object = o /\ dead.update_id = update_id /\ dead.is_deleted
  BY DEF PendingEntry, PendingLogEntry
<1>. HIDE DEF live, dead
<1>3. /\ EntryState(live) = [exists |-> TRUE, version |-> update_id]
      /\ EntryState(dead) = [exists |-> FALSE, version |-> update_id]
  BY <1>1, <1>2, EntryTells
<1>4. /\ IsWellFormed(live)
      /\ o \notin Lists => IsWellFormed(dead)
  BY <1>1, <1>2 DEF IsWellFormed
<1>. DEFINE x == AsLogEntry(id, live)
            y == AsLogEntry(id, dead)
<1>5. /\ x \in LogEntry /\ x.entry_id = id /\ x.object = live.object
      /\ EntryState(x) = EntryState(live)
      /\ IsWellFormed(live) => IsWellFormed(x)
      /\ y \in LogEntry /\ y.entry_id = id /\ y.object = dead.object
      /\ EntryState(y) = EntryState(dead)
      /\ IsWellFormed(dead) => IsWellFormed(y)
  <2>1. x \in LogEntry /\ y \in LogEntry
    BY <1>2, EntryTypes
  <2>2. /\ x.entry_id = id /\ x.object = live.object
        /\ EntryState(x) = EntryState(live)
        /\ IsWellFormed(live) => IsWellFormed(x)
    BY EntryInLog
  <2>3. /\ y.entry_id = id /\ y.object = dead.object
        /\ EntryState(y) = EntryState(dead)
        /\ IsWellFormed(dead) => IsWellFormed(y)
    BY EntryInLog
  <2>. QED BY <2>1, <2>2, <2>3
<1>. HIDE DEF x, y
<1>6. /\ x \in LogEntry /\ x.entry_id = id
      /\ Tells(x, o, [exists |-> TRUE, version |-> update_id])
      /\ IsWellFormed(x)
      /\ o \notin Lists =>
          /\ y \in LogEntry /\ y.entry_id = id
          /\ Tells(y, o, [exists |-> FALSE, version |-> update_id])
          /\ IsWellFormed(y)
  BY <1>2, <1>3, <1>4, <1>5 DEF Tells
<1>. QED BY <1>6 DEF x, y, live, dead

LEMMA AccountActions ==
    ASSUME TypeOK, ObjectsOK, NEW a \in Accounts,
           CreateAccount(a) \/ DeleteAccount(a)
    PROVE  \E state \in State : LogsAccount(a, state)
<1>. DEFINE created == [exists |-> TRUE, version |-> uid_seq + 1]
            deleted == [exists |-> FALSE, version |-> uid_seq + 1]
            list_id == object["AccountsList"].version + 1
            list_state == [exists |-> TRUE, version |-> list_id]
            next == last_log_entry_id + 1
            next2 == last_log_entry_id + 2
            list_entry == PendingEntry("AccountsList", list_id, FALSE)
<1>1. /\ created \in State /\ deleted \in State
      /\ object["AccountsList"] \in State /\ object["AccountsList"].exists = TRUE
      /\ list_id \in Nat \ {0} /\ uid_seq + 1 \in Nat \ {0}
      /\ next \in Nat /\ next2 \in Nat
      /\ a \in Objects /\ a # "AccountsList" /\ a \notin Lists
  BY ObjectNames DEF TypeOK, State, ObjectsOK, Lists
<1>2. [object["AccountsList"] EXCEPT !.version = list_id] = AccountsListState
  <2>1. [object["AccountsList"] EXCEPT !.version = list_id] =
            [exists |-> object["AccountsList"].exists, version |-> list_id]
    BY <1>1 DEF State
  <2>. QED BY <2>1, <1>1 DEF AccountsListState
<1>3. ASSUME NEW state \in State,
             object' = [object EXCEPT ![a] = state,
                                     !["AccountsList"].version = list_id]
      PROVE  object' = [object EXCEPT ![a] = state,
                                     !["AccountsList"] = AccountsListState]
  BY <1>1, <1>2, <1>3 DEF TypeOK
<1>4. CASE CreateAccount(a)
  <2>. DEFINE x == AsLogEntry(next, PendingEntry(a, uid_seq + 1, FALSE))
              y == AsLogEntry(next2, list_entry)
  <2>1. /\ x \in LogEntry /\ x.entry_id = next /\ y.entry_id = next2
        /\ Tells(x, a, created) /\ IsWellFormed(x)
        /\ y \in LogEntry /\ Tells(y, "AccountsList", list_state)
        /\ IsWellFormed(y)
    <3>. HIDE DEF list_id, next, next2
    <3>. QED BY <1>1, ObjectNames, MadeEntry
  <2>2. LogAccount(a, created, FALSE)
    BY <1>4 DEF CreateAccount
  <2>3. log_entry' = log_entry \cup {x, y}
    BY <2>2 DEF LogAccount
  <2>4. object' = [object EXCEPT ![a] = created,
                                !["AccountsList"] = AccountsListState]
    BY <1>1, <1>3, <2>2 DEF LogAccount
  <2>5. last_log_entry_id' = last_log_entry_id + 2
    BY <2>2 DEF LogAccount
  <2>6. /\ IsCreditorLockFree /\ created.version = uid_seq + 1
        /\ uid_seq' = uid_seq + 1
        /\ UNCHANGED <<pending_log_entry, processor, client, failures>>
    BY <1>4 DEF CreateAccount
  <2>. HIDE DEF x, y, created
  <2>7. LogsAccount(a, created)
    BY <2>1, <2>3, <2>4, <2>5, <2>6 DEF LogsAccount, AccountsListState
  <2>. QED BY <1>1, <2>7 DEF created
<1>5. CASE DeleteAccount(a)
  <2>. DEFINE x == AsLogEntry(next2, PendingEntry(a, uid_seq + 1, TRUE))
              y == AsLogEntry(next, list_entry)
  <2>1. /\ x \in LogEntry /\ x.entry_id = next2 /\ y.entry_id = next
        /\ Tells(x, a, deleted) /\ IsWellFormed(x)
        /\ y \in LogEntry /\ Tells(y, "AccountsList", list_state)
        /\ IsWellFormed(y)
    <3>. HIDE DEF list_id, next, next2
    <3>. QED BY <1>1, ObjectNames, MadeEntry
  <2>2. LogAccount(a, deleted, TRUE)
    BY <1>5 DEF DeleteAccount
  <2>3. log_entry' = log_entry \cup {y, x}
    BY <2>2 DEF LogAccount
  <2>4. object' = [object EXCEPT ![a] = deleted,
                                !["AccountsList"] = AccountsListState]
    BY <1>1, <1>3, <2>2 DEF LogAccount
  <2>5. last_log_entry_id' = last_log_entry_id + 2
    BY <2>2 DEF LogAccount
  <2>6. /\ IsCreditorLockFree /\ deleted.version = uid_seq + 1
        /\ uid_seq' = uid_seq + 1
        /\ UNCHANGED <<pending_log_entry, processor, client, failures>>
    BY <1>5 DEF DeleteAccount
  <2>. HIDE DEF x, y, deleted
  <2>7. log_entry' = log_entry \cup {x, y}
    BY <2>3
  <2>8. LogsAccount(a, deleted)
    BY <2>1, <2>4, <2>5, <2>6, <2>7 DEF LogsAccount, AccountsListState
  <2>. QED BY <1>1, <2>8 DEF deleted
<1>. QED BY <1>4, <1>5

LEMMA LogsAccountEffect ==
    ASSUME TypeOK, NEW a \in Accounts, NEW state \in State,
           LogsAccount(a, state)
    PROVE  /\ object' \in [Objects -> State]
           /\ object'[a] = state
           /\ object'["AccountsList"] = AccountsListState
           /\ \A o \in Objects \ {a, "AccountsList"} : object'[o] = object[o]
<1>1. AccountsListState \in State
  BY ObjectNames DEF AccountsListState, TypeOK, State
<1>. QED BY <1>1, ObjectNames DEF LogsAccount, TypeOK

\* What the changes of a transfer have in common.
ChangesTransfer(t, state, e) ==
    /\ object' = [object EXCEPT ![t] = state]
    /\ pending_log_entry' = pending_log_entry \cup {e}
    /\ e.object = t
    /\ EntryState(e) = state
    /\ IsWellFormed(e)
    /\ state.version > object[t].version
    /\ state.exists => state.version < Forever
    /\ state.exists = object[t].exists \/ ChangesTransfersList(e)
    /\ UNCHANGED <<uid_seq, log_entry, last_log_entry_id, processor>>
    /\ UNCHANGED <<client, failures>>

LEMMA TransferActions ==
    ASSUME TypeOK, ObjectsOK, NEW t \in Transfers,
           CreateTransfer(t) \/ FinalizeTransfer(t) \/ DeleteTransfer(t)
    PROVE  \E state \in State, e \in PendingLogEntry :
               ChangesTransfer(t, state, e)
<1>. DEFINE created == [exists |-> TRUE, version |-> 1]
            finalized == [exists |-> TRUE, version |-> 2]
            deleted == [exists |-> FALSE, version |-> Forever]
<1>1. /\ MaxUpdateId \in Nat \ {0} /\ Forever = MaxUpdateId + 1
      /\ Forever \in Nat /\ Forever > 1
  BY CreditorLogAssumption DEF Forever
<1>2. created \in State /\ finalized \in State /\ deleted \in State
  BY <1>1 DEF State
<1>3. t \in Objects /\ t \notin Lists
  BY ObjectNames DEF Lists
<1>4. /\ PendingEntry(t, 1, FALSE) \in PendingLogEntry
      /\ PendingEntry(t, 2, FALSE) \in PendingLogEntry
      /\ PendingEntry(t, NoUpdateId, TRUE) \in PendingLogEntry
  BY <1>3, EntryTypes DEF NoUpdateId
<1>5. CASE CreateTransfer(t)
  <2>. DEFINE e == PendingEntry(t, 1, FALSE)
  <2>0. e = PendingEntry(t, 1, FALSE)
    OBVIOUS
  <2>. HIDE DEF e
  <2>1. /\ e.object = t /\ EntryState(e) = created
        /\ e.update_id = 1 /\ e \in PendingLogEntry
    <3>1. /\ e \in PendingLogEntry /\ e.object = t
          /\ e.update_id = 1 /\ e.is_deleted = FALSE
      BY <1>3, <2>0 DEF PendingEntry, PendingLogEntry, NoUpdateId
    <3>. QED BY <3>1, EntryTells DEF NoUpdateId
  <2>4. IsWellFormed(e) /\ ChangesTransfersList(e)
    <3>. QED BY <2>1, <1>3 DEF IsWellFormed, NoUpdateId, ChangesTransfersList
  <2>2. object[t].version = 0
    BY <1>5 DEF CreateTransfer, Unknown
  <2>3. ChangesTransfer(t, created, e)
    <3>1. /\ created.version = 1 /\ created.exists = TRUE
          /\ UNCHANGED <<uid_seq, log_entry, last_log_entry_id, processor>>
          /\ UNCHANGED <<client, failures>>
          /\ object' = [object EXCEPT ![t] = created]
          /\ pending_log_entry' = pending_log_entry \cup {e}
      BY <1>5 DEF CreateTransfer, ChangeTransfer, e
    <3>. HIDE DEF created
    <3>. QED BY <1>1, <2>1, <2>2, <2>4, <3>1 DEF ChangesTransfer
  <2>. QED BY <1>2, <1>4, <2>3 DEF e
<1>6. CASE FinalizeTransfer(t)
  <2>. DEFINE e == PendingEntry(t, 2, FALSE)
  <2>0. e = PendingEntry(t, 2, FALSE)
    OBVIOUS
  <2>. HIDE DEF e
  <2>1. /\ e.object = t /\ EntryState(e) = finalized
        /\ e.update_id = 2 /\ e \in PendingLogEntry
    <3>1. /\ e \in PendingLogEntry /\ e.object = t
          /\ e.update_id = 2 /\ e.is_deleted = FALSE
      BY <1>3, <2>0 DEF PendingEntry, PendingLogEntry, NoUpdateId
    <3>. QED BY <3>1, EntryTells DEF NoUpdateId
  <2>4. IsWellFormed(e)
    <3>. QED BY <2>1, <1>3 DEF IsWellFormed, NoUpdateId
  <2>2. object[t].version = 1 /\ object[t].exists = TRUE /\ 2 < Forever
    BY <1>1, <1>6 DEF FinalizeTransfer
  <2>3. ChangesTransfer(t, finalized, e)
    <3>1. /\ finalized.version = 2 /\ finalized.exists = TRUE
          /\ UNCHANGED <<uid_seq, log_entry, last_log_entry_id, processor>>
          /\ UNCHANGED <<client, failures>>
          /\ object' = [object EXCEPT ![t] = finalized]
          /\ pending_log_entry' = pending_log_entry \cup {e}
      BY <1>6 DEF FinalizeTransfer, ChangeTransfer, e
    <3>2. finalized.exists = object[t].exists
      BY <2>2
    <3>. HIDE DEF finalized
    <3>. QED BY <2>1, <3>2, <2>2, <2>4, <3>1 DEF ChangesTransfer
  <2>. QED BY <1>2, <1>4, <2>3 DEF e
<1>7. CASE DeleteTransfer(t)
  <2>. DEFINE e == PendingEntry(t, NoUpdateId, TRUE)
  <2>0. e = PendingEntry(t, NoUpdateId, TRUE)
    OBVIOUS
  <2>. HIDE DEF e
  <2>1. /\ e.object = t /\ EntryState(e) = deleted
        /\ e.update_id = 0 /\ e.is_deleted = TRUE
    <3>1. /\ e \in PendingLogEntry /\ e.object = t
          /\ e.update_id = 0 /\ e.is_deleted = TRUE
      BY <1>3, <2>0 DEF PendingEntry, PendingLogEntry, NoUpdateId
    <3>. QED BY <3>1, EntryTells DEF NoUpdateId
  <2>5. IsWellFormed(e) /\ ChangesTransfersList(e)
    <3>. QED BY <2>1, <1>3 DEF IsWellFormed, NoUpdateId, ChangesTransfersList
  <2>2. object[t].version < Forever
    BY <1>7 DEF DeleteTransfer, ObjectsOK
  <2>3. object[t].version \in Nat
    BY <1>3 DEF TypeOK, State
  <2>4. ChangesTransfer(t, deleted, e)
    <3>1. /\ deleted.version = Forever /\ deleted.exists = FALSE
          /\ UNCHANGED <<uid_seq, log_entry, last_log_entry_id, processor>>
          /\ UNCHANGED <<client, failures>>
          /\ object' = [object EXCEPT ![t] = deleted]
          /\ pending_log_entry' = pending_log_entry \cup {e}
      BY <1>7 DEF DeleteTransfer, ChangeTransfer, e
    <3>. HIDE DEF deleted
    <3>. QED BY <1>1, <2>1, <2>2, <2>3, <2>5, <3>1 DEF ChangesTransfer
  <2>. QED BY <1>2, <1>4, <2>4 DEF e
<1>. QED BY <1>5, <1>6, <1>7

LEMMA CommitLogEntriesEffect ==
    ASSUME TypeOK, CommitLogEntries
    PROVE  /\ object' \in [Objects -> State]
           /\ object'["TransfersList"] =
                  [exists |-> object["TransfersList"].exists,
                   version |-> processor.list_id]
           /\ \A o \in Objects \ {"TransfersList"} : object'[o] = object[o]
<1>1. object["TransfersList"] \in State /\ processor.list_id \in Nat
  BY ObjectNames DEF TypeOK
<1>2. [object["TransfersList"] EXCEPT !.version = processor.list_id] =
          [exists |-> object["TransfersList"].exists,
           version |-> processor.list_id]
  BY <1>1 DEF State
<1>3. [exists |-> object["TransfersList"].exists,
       version |-> processor.list_id] \in State
  BY <1>1 DEF State
<1>4. object' = [object EXCEPT !["TransfersList"] =
                    [exists |-> object["TransfersList"].exists,
                     version |-> processor.list_id]]
  BY <1>2, ObjectNames DEF CommitLogEntries, TypeOK
<1>. QED BY <1>3, <1>4, ObjectNames DEF TypeOK

LEMMA UpdateAccountEffect ==
    ASSUME TypeOK, NEW a \in Accounts, UpdateAccount(a)
    PROVE  LET state == [exists |-> TRUE, version |-> object[a].version + 1]
               e == PendingEntry(a, object[a].version + 1, FALSE)
           IN  /\ state \in State
               /\ object' = [object EXCEPT ![a] = state]
               /\ object[a].exists
               /\ e \in PendingLogEntry
               /\ EntryState(e) = state
               /\ pending_log_entry' = pending_log_entry \cup {e}
               /\ uid_seq' = uid_seq + 1
<1>1. a \in Objects /\ object[a] \in State /\ object[a].exists = TRUE
  BY ObjectNames DEF TypeOK, UpdateAccount, State
<1>2. [object[a] EXCEPT !.version = @ + 1] =
          [exists |-> TRUE, version |-> object[a].version + 1]
  <2>1. [object[a] EXCEPT !.version = @ + 1] =
            [exists |-> object[a].exists, version |-> object[a].version + 1]
    BY <1>1 DEF State
  <2>. QED BY <2>1, <1>1
<1>3. object[a].version \in Nat
  BY <1>1 DEF State
<1>. DEFINE state == [exists |-> TRUE, version |-> object[a].version + 1]
            e == PendingEntry(a, object[a].version + 1, FALSE)
<1>4. state \in State
  BY <1>3 DEF State
<1>5. e \in PendingLogEntry /\ EntryState(e) = state
  <2>1. object[a].version + 1 \in Nat /\ object[a].version + 1 # NoUpdateId
    BY <1>3 DEF NoUpdateId
  <2>2. /\ e \in PendingLogEntry /\ e.is_deleted = FALSE
        /\ e.update_id = object[a].version + 1
    BY <1>1, <1>3 DEF PendingEntry, PendingLogEntry
  <2>. HIDE DEF e
  <2>. QED BY <2>1, <2>2, EntryTells
<1>7. object' = [object EXCEPT ![a] = state]
  BY <1>2 DEF UpdateAccount
<1>. QED BY <1>1, <1>4, <1>5, <1>7 DEF UpdateAccount, SequenceMoved

LEMMA ServerKeepsTypes ==
    ASSUME TypeOK, ObjectsOK,
           \/ \E a \in Accounts :
                  CreateAccount(a) \/ UpdateAccount(a) \/ DeleteAccount(a)
           \/ \E t \in Transfers :
                  CreateTransfer(t) \/ FinalizeTransfer(t) \/ DeleteTransfer(t)
           \/ Processor \/ CrashProcessor \/ DeleteStaledLogEntries
    PROVE  TypeOK'
<1>1. CASE \E a \in Accounts : CreateAccount(a) \/ DeleteAccount(a)
  <2>1. PICK a \in Accounts, state \in State : LogsAccount(a, state)
    BY <1>1, AccountActions
  <2>3. /\ object' \in [Objects -> State] /\ object'[a] = state
        /\ \A o \in Objects \ {a, "AccountsList"} : object'[o] = object[o]
        /\ last_log_entry_id' = last_log_entry_id + 2
    BY <2>1, LogsAccountEffect DEF LogsAccount
  <2>4. PICK x, y \in LogEntry : log_entry' = log_entry \cup {x, y}
    BY <2>1 DEF LogsAccount
  <2>5. last_log_entry_id + 2 \in Nat
    BY DEF TypeOK
  <2>6. log_entry' \in SUBSET LogEntry
    BY <2>4 DEF TypeOK
  <2>7. uid_seq' \in Nat /\ \A b \in Accounts : object'[b].version <= uid_seq'
    <3>1. uid_seq \in Nat /\ uid_seq' = uid_seq + 1 /\ state.version = uid_seq + 1
      BY <2>1 DEF TypeOK, LogsAccount
    <3>2. ASSUME NEW b \in Accounts PROVE object'[b].version <= uid_seq'
      <4>1. CASE b = a
        BY <3>1, <2>3, <4>1
      <4>2. CASE b # a
        <5>1. object'[b] = object[b]
          BY <4>2, <2>3, ObjectNames
        <5>2. object[b].version \in Nat /\ object[b].version <= uid_seq
          BY ObjectNames DEF TypeOK, State
        <5>. QED BY <3>1, <5>1, <5>2
      <4>. QED BY <4>1, <4>2
    <3>. QED BY <3>1, <3>2
  <2>. QED BY <2>1, <2>3, <2>5, <2>6, <2>7 DEF TypeOK, LogsAccount, client
<1>2. CASE \E a \in Accounts : UpdateAccount(a)
  <2>1. PICK a \in Accounts : UpdateAccount(a)
    BY <1>2
  <2>. DEFINE state == [exists |-> TRUE, version |-> object[a].version + 1]
  <2>2. /\ state \in State /\ object' = [object EXCEPT ![a] = state]
        /\ pending_log_entry' \in SUBSET PendingLogEntry
        /\ uid_seq' = uid_seq + 1
    BY <2>1, UpdateAccountEffect DEF TypeOK
  <2>3. object' \in [Objects -> State]
    BY <2>2 DEF TypeOK
  <2>4. ASSUME NEW b \in Accounts PROVE object'[b].version <= uid_seq'
    <3>1. /\ object[b].version \in Nat /\ object[b].version <= uid_seq
          /\ uid_seq \in Nat
      BY ObjectNames DEF TypeOK, State
    <3>2. CASE b = a
      <4>1. object'[b] = state
        BY <2>2, <3>2, ObjectNames DEF TypeOK
      <4>. QED BY <2>2, <3>1, <3>2, <4>1
    <3>3. CASE b # a
      <4>1. object'[b] = object[b]
        BY <2>2, <3>3, ObjectNames DEF TypeOK
      <4>. QED BY <2>2, <3>1, <4>1
    <3>. QED BY <3>2, <3>3
  <2>5. UNCHANGED <<log_entry, last_log_entry_id, processor, unread, copy,
                    members, cursor, request, page, failures>>
    BY <2>1 DEF UpdateAccount, client
  <2>6. uid_seq' \in Nat
    BY <2>2 DEF TypeOK
  <2>. HIDE DEF state
  <2>. QED BY <2>2, <2>3, <2>4, <2>5, <2>6 DEF TypeOK
<1>3. CASE \E t \in Transfers :
               CreateTransfer(t) \/ FinalizeTransfer(t) \/ DeleteTransfer(t)
  <2>1. PICK t \in Transfers, state \in State, e \in PendingLogEntry :
            ChangesTransfer(t, state, e)
    BY <1>3, TransferActions
  <2>2. /\ object' \in [Objects -> State]
        /\ pending_log_entry' \in SUBSET PendingLogEntry
    BY <2>1 DEF ChangesTransfer, TypeOK
  <2>3. \A a \in Accounts : object'[a] = object[a]
    BY <2>1, ObjectNames DEF ChangesTransfer, TypeOK
  <2>. QED BY <2>1, <2>2, <2>3 DEF TypeOK, ChangesTransfer, client
<1>4. CASE LockCreditor
  <2>1. object["TransfersList"].version \in Nat
    BY ObjectNames DEF TypeOK, State
  <2>2. processor' \in [is_locking: BOOLEAN, todo: SUBSET PendingLogEntry,
                        done: SUBSET PendingLogEntry, added: SUBSET LogEntry,
                        last: Nat, list_id: Nat]
    BY <2>1, <1>4 DEF LockCreditor, Idle, TypeOK
  <2>. QED BY <1>4, <2>2 DEF LockCreditor, TypeOK, client
<1>5. CASE \E e \in processor.todo : AddPendingLogEntry(e)
  <2>1. processor' \in [is_locking: BOOLEAN, todo: SUBSET PendingLogEntry,
                        done: SUBSET PendingLogEntry, added: SUBSET LogEntry,
                        last: Nat, list_id: Nat]
    BY <1>5, AddPendingLogEntryEffect
  <2>. QED BY <1>5, <2>1 DEF AddPendingLogEntry, TypeOK, client
<1>6. CASE CommitLogEntries
  <2>1. object' \in [Objects -> State]
    BY <1>6, CommitLogEntriesEffect
  <2>2. \A a \in Accounts : object'[a] = object[a]
    BY <1>6, CommitLogEntriesEffect, ObjectNames
  <2>3. processor' \in [is_locking: BOOLEAN, todo: SUBSET PendingLogEntry,
                        done: SUBSET PendingLogEntry, added: SUBSET LogEntry,
                        last: Nat, list_id: Nat]
    BY <1>6 DEF CommitLogEntries, Idle
  <2>4. /\ log_entry' \in SUBSET LogEntry /\ last_log_entry_id' \in Nat
        /\ pending_log_entry' \in SUBSET PendingLogEntry
    BY <1>6 DEF CommitLogEntries, TypeOK
  <2>5. UNCHANGED <<uid_seq, unread, copy, members, cursor, request, page,
                    failures>>
    BY <1>6 DEF CommitLogEntries, client
  <2>. QED BY <2>1, <2>2, <2>3, <2>4, <2>5 DEF TypeOK
<1>7. CASE CrashProcessor
  <2>1. processor' \in [is_locking: BOOLEAN, todo: SUBSET PendingLogEntry,
                        done: SUBSET PendingLogEntry, added: SUBSET LogEntry,
                        last: Nat, list_id: Nat]
    BY <1>7 DEF CrashProcessor, Idle
  <2>. QED BY <1>7, <2>1 DEF CrashProcessor, TypeOK, client
<1>8. CASE DeleteStaledLogEntries
  BY <1>8 DEF DeleteStaledLogEntries, TypeOK, client
<1>. QED BY <1>1, <1>2, <1>3, <1>4, <1>5, <1>6, <1>7, <1>8 DEF Processor

\* The copy of an object is what is found at its URI.
LEMMA ReadEffect ==
    ASSUME TypeOK, NEW o \in Objects, Read(o)
    PROVE  /\ copy' \in [Objects -> State]
           /\ members' \in [Lists -> SUBSET Objects]
           /\ copy'[o] = IF object[o].exists THEN object[o] ELSE copy[o]
           /\ \A p \in Objects \ {o} : copy'[p] = copy[p]
           /\ \A l \in Lists :
                  members'[l] = IF l = o THEN Members(l) ELSE members[l]
<1>1. \A l \in Lists : Members(l) \in SUBSET Objects
  BY ObjectNames DEF Members
<1>. QED BY <1>1 DEF Read, TypeOK

\* A page has the entries that follow the cursor, up to its "next".
LEMMA NextPage ==
    ASSUME TypeOK, LogOK, ClientOK, get_log_entries
    PROVE  \E entries \in SUBSET {e \in log_entry : e.entry_id > cursor},
              next \in cursor .. last_log_entry_id :
               /\ page' = [is_read |-> TRUE, entries |-> entries, next |-> next]
               /\ \A e \in log_entry :
                      e.entry_id > cursor => e \in entries \/ e.entry_id > next
<1>. DEFINE S == {e \in log_entry : e.entry_id > cursor}
            entries == FirstEntries(S, EntriesPerPage)
            IDs == {e.entry_id : e \in entries}
            next == NextCursor(entries)
<1>1. /\ cursor \in Nat /\ last_log_entry_id \in Nat
      /\ log_entry \in SUBSET LogEntry /\ EntriesPerPage \in Nat \ {0}
  BY CreditorLogAssumption DEF TypeOK
<1>2. page' = [is_read |-> TRUE, entries |-> entries, next |-> next]
  BY DEF get_log_entries
<1>3. /\ S \in SUBSET LogEntry /\ IsFiniteSet(S)
      /\ \A e1, e2 \in S : e1.entry_id = e2.entry_id => e1 = e2
  BY <1>1, FS_Subset DEF LogOK, AreNumbered
<1>4. entries \in SUBSET S
  BY DEF FirstEntries
<1>5. CASE Cardinality(entries) < EntriesPerPage
  <2>1. entries = S
    <3>. HIDE DEF S
    <3>. QED BY <1>1, <1>3, <1>5, FewEntriesAreAll
  <2>2. next = request.last /\ request.is_read
    BY <1>5 DEF NextCursor, get_log_entries
  <2>3. next \in cursor .. last_log_entry_id
    BY <2>2 DEF ClientOK
  <2>. HIDE DEF next, entries
  <2>. QED BY <1>2, <1>4, <2>1, <2>3
<1>6. CASE ~(Cardinality(entries) < EntriesPerPage)
  <2>1. IsFiniteSet(entries) /\ Cardinality(entries) \in Nat
    <3>. HIDE DEF S, entries
    <3>. QED BY <1>3, <1>4, FS_Subset, FS_CardinalityType
  <2>2. entries # {}
    <3>. HIDE DEF entries
    <3>. QED BY <1>1, <1>6, <2>1, FS_EmptySet
  <2>3. IDs \in SUBSET Nat /\ IDs # {}
    <3>. HIDE DEF entries, S
    <3>. QED BY <1>3, <1>4, <2>2, EntryTypes
  <2>4. \A id \in IDs : id > cursor /\ id <= last_log_entry_id
    <3>1. \A e \in S : e.entry_id > cursor /\ e.entry_id <= last_log_entry_id
      BY DEF LogOK, AreNumbered
    <3>. HIDE DEF S, entries
    <3>. QED BY <1>4, <3>1
  <2>5. \E id \in IDs : \A other \in IDs : other <= id
    <3>. HIDE DEF IDs
    <3>. QED BY <1>1, <2>3, <2>4, Largest
  <2>6. next = Max(IDs)
    BY <1>6 DEF NextCursor
  <2>7. next \in IDs /\ \A other \in IDs : other <= next
    <3>. HIDE DEF IDs, next
    <3>1. \E id \in IDs : \A other \in IDs : id >= other
      BY <2>5, <2>3
    <3>. QED BY <2>3, <2>6, <3>1 DEF Max
  <2>8. next \in cursor .. last_log_entry_id
    <3>. HIDE DEF IDs, next
    <3>. QED BY <1>1, <2>3, <2>4, <2>7
  <2>9. PICK last \in entries : last.entry_id = next
    <3>. HIDE DEF next, entries
    <3>. QED BY <2>7
  <2>10. ASSUME NEW e \in S, ~(e.entry_id > next) PROVE e \in entries
    <3>1. e.entry_id \in Nat /\ next \in Nat
      <4>. HIDE DEF next, IDs
      <4>. QED BY <1>3, <2>3, <2>7, EntryTypes
    <3>2. e.entry_id <= last.entry_id
      <4>. HIDE DEF next, entries, S
      <4>. QED BY <3>1, <2>9, <2>10
    <3>. HIDE DEF S
    <3>. QED BY <1>1, <1>3, <2>9, <3>2, FirstEntriesPrecede
  <2>. HIDE DEF next, entries
  <2>. QED BY <1>2, <1>4, <2>8, <2>10
<1>. QED BY <1>5, <1>6

LEMMA ClientKeepsTypes ==
    ASSUME TypeOK, LogOK, ClientOK, Client \/ LosePage
    PROVE  TypeOK'
<1>1. CASE OpenWallet
  BY <1>1 DEF OpenWallet, TypeOK, server
<1>2. CASE \E o \in Objects : ReadObject(o)
  <2>1. PICK o \in Objects : ReadObject(o)
    BY <1>2
  <2>2. copy' \in [Objects -> State] /\ members' \in [Lists -> SUBSET Objects]
    BY <2>1, ReadEffect DEF ReadObject
  <2>. QED BY <2>1, <2>2 DEF ReadObject, TypeOK, server
<1>3. CASE RequestLogEntries
  BY <1>3 DEF RequestLogEntries, TypeOK, server
<1>4. CASE get_log_entries
  <2>1. \E entries \in SUBSET log_entry, next \in Nat :
            page' = [is_read |-> TRUE, entries |-> entries, next |-> next]
    BY <1>4, NextPage DEF TypeOK
  <2>2. page' \in [is_read: BOOLEAN, entries: SUBSET LogEntry, next: Nat]
    BY <2>1 DEF TypeOK
  <2>. QED BY <1>4, <2>2 DEF get_log_entries, TypeOK, NoRequest, server
<1>5. CASE LosePage
  BY <1>5 DEF LosePage, TypeOK, NoRequest, NoPage
<1>6. CASE \E e \in page.entries :
               IgnoreLogEntry(e) \/ ApplyLogEntry(e) \/ FetchObject(e)
  <2>1. PICK e \in page.entries :
            IgnoreLogEntry(e) \/ ApplyLogEntry(e) \/ FetchObject(e)
    BY <1>6
  <2>2. e \in LogEntry /\ e.object \in Objects /\ EntryState(e) \in State
    BY EntryTypes, EntryStateType DEF TypeOK
  <2>3. page' \in [is_read: BOOLEAN, entries: SUBSET LogEntry, next: Nat]
    BY <2>1 DEF TypeOK, SkipEntry, IgnoreLogEntry, ApplyLogEntry, FetchObject
  <2>4. copy' \in [Objects -> State] /\ members' \in [Lists -> SUBSET Objects]
    <3>1. CASE IgnoreLogEntry(e)
      BY <3>1 DEF IgnoreLogEntry, TypeOK
    <3>2. CASE ApplyLogEntry(e)
      BY <3>2, <2>2 DEF ApplyLogEntry, TypeOK
    <3>3. CASE FetchObject(e)
      BY <3>3, <2>2, ReadEffect DEF FetchObject
    <3>. QED BY <2>1, <3>1, <3>2, <3>3
  <2>5. UNCHANGED <<server, unread, cursor, request>>
    BY <2>1 DEF IgnoreLogEntry, ApplyLogEntry, FetchObject
  <2>. QED BY <2>3, <2>4, <2>5 DEF TypeOK, server
<1>7. CASE FinishPage
  BY <1>7 DEF FinishPage, TypeOK, NoPage, server
<1>. QED BY <1>1, <1>2, <1>3, <1>4, <1>5, <1>6, <1>7 DEF Client

-----------------------------------------------------------------------------
(* What the steps of the server have in common: objects move forward, and  *)
(* what is told once is told on.                                           *)

MovesForward(o) ==
    object'[o] = object[o] \/ object'[o].version > object[o].version

\* Whatever an entry of S tells, an entry of T tells too.
Retold(S, T) ==
    \A e \in S : \E f \in T :
        f.object = e.object /\ EntryState(f) = EntryState(e)

LEMMA ChangesKeepTruth ==
    ASSUME TypeOK, TypeOK', \A o \in Objects : MovesForward(o),
           NEW e \in PendingLogEntry \cup LogEntry, IsTrue(e)
    PROVE  IsTrue(e)'
<1>1. e.object \in Objects /\ EntryState(e).version \in Nat
  BY EntryTypes, EntryStateType
<1>2. /\ object[e.object].version \in Nat /\ object'[e.object].version \in Nat
      /\ MovesForward(e.object)
  BY <1>1 DEF TypeOK, State
<1>3. /\ EntryState(e).version <= object[e.object].version
      /\ EntryState(e).version = object[e.object].version =>
             EntryState(e) = object[e.object]
  BY DEF IsTrue
<1>4. /\ EntryState(e).version <= object'[e.object].version
      /\ EntryState(e).version = object'[e.object].version =>
             EntryState(e) = object'[e.object]
  BY <1>1, <1>2, <1>3 DEF MovesForward
<1>. QED BY <1>4 DEF IsTrue, EntryState

LEMMA ChangesKeepCopies ==
    ASSUME TypeOK, TypeOK', CopiesOK, \A o \in Objects : MovesForward(o),
           UNCHANGED <<copy, unread>>
    PROVE  CopiesOK'
<1>. SUFFICES ASSUME NEW o \in Objects
              PROVE  /\ copy[o].version <= object'[o].version
                     /\ copy[o].version = object'[o].version =>
                            copy[o] = object'[o]
                     /\ o \in unread => copy[o] = Unknown
  BY DEF CopiesOK
<1>1. /\ object[o].version \in Nat /\ object'[o].version \in Nat
      /\ copy[o].version \in Nat
  BY DEF TypeOK, State
<1>2. /\ copy[o].version <= object[o].version
      /\ copy[o].version = object[o].version => copy[o] = object[o]
      /\ o \in unread => copy[o] = Unknown
  BY DEF CopiesOK
<1>. QED BY <1>1, <1>2 DEF MovesForward

LEMMA AheadTypes ==
    ASSUME TypeOK
    PROVE  /\ InLogAhead \subseteq LogEntry
           /\ Ahead \subseteq PendingLogEntry \cup LogEntry
BY DEF TypeOK, InLogAhead, Ahead

\* Every change is announced, and announcements remain: nothing is missed.
LEMMA ChangesAreAnnounced ==
    ASSUME TypeOK, TypeOK', CopiesOK, NothingMissed, UNCHANGED <<copy, unread>>,
           Retold(Ahead, Ahead'),
           \A o \in Objects :
               \/ object'[o] = object[o]
               \/ /\ object'[o].version > object[o].version
                  /\ \E e \in Ahead' : Tells(e, o, object'[o])
    PROVE  NothingMissed'
<1>. SUFFICES ASSUME NEW o \in Objects, o \notin unread,
                     ~(copy[o] = object'[o]),
                     ~(~object'[o].exists /\ ~copy[o].exists)
              PROVE  \E e \in Ahead' :
                         /\ e.object = o
                         /\ EntryState(e).version > copy[o].version
                         /\ EntryState(e).version >= object'[o].version
  BY DEF NothingMissed, IsAnnounced, IsNews, EntryState, BothAbsent
<1>1. /\ object[o].version \in Nat /\ object'[o].version \in Nat
      /\ copy[o].version \in Nat /\ copy[o].version <= object[o].version
  BY DEF TypeOK, State, CopiesOK
<1>2. CASE object'[o] = object[o]
  <2>1. PICK e \in Ahead :
            /\ e.object = o
            /\ EntryState(e).version > copy[o].version
            /\ EntryState(e).version >= object[o].version
    BY <1>2 DEF NothingMissed, IsAnnounced, IsNews, BothAbsent
  <2>2. PICK f \in Ahead' : f.object = e.object /\ EntryState(f) = EntryState(e)
    BY DEF Retold
  <2>. QED BY <1>2, <2>1, <2>2
<1>3. CASE /\ object'[o].version > object[o].version
           /\ \E e \in Ahead' : Tells(e, o, object'[o])
  <2>1. PICK e \in Ahead' : e.object = o /\ EntryState(e) = object'[o]
    BY <1>3 DEF Tells
  <2>2. /\ EntryState(e).version > copy[o].version
        /\ EntryState(e).version >= object'[o].version
    BY <1>1, <1>3, <2>1
  <2>. QED BY <2>1, <2>2
<1>. QED BY <1>2, <1>3

\* What a client with an old copy of the list is told.
ListIsTold(l) ==
    \/ \E e \in InLogAhead' :
           e.object = l /\ EntryState(e).version > object[l].version
    \/ /\ l = "TransfersList"
       /\ \E e \in pending_log_entry' : ChangesTransfersList(e)

LEMMA ListChangesAreTold ==
    ASSUME TypeOK, TypeOK', CopiesOK, ListsAreComplete,
           UNCHANGED <<copy, unread, members>>,
           Retold(InLogAhead, InLogAhead'),
           \A l \in Lists : Members(l)' = Members(l) \/ ListIsTold(l),
           (\E e \in pending_log_entry : ChangesTransfersList(e))
               => ListIsTold("TransfersList")
    PROVE  ListsAreComplete'
<1>. SUFFICES ASSUME NEW l \in Lists, l \notin unread,
                     ~(members[l] = Members(l)')
              PROVE  \/ \E e \in InLogAhead' :
                            /\ e.object = l
                            /\ EntryState(e).version > copy[l].version
                     \/ /\ l = "TransfersList"
                        /\ \E e \in pending_log_entry' : ChangesTransfersList(e)
  BY DEF ListsAreComplete, IsNews, EntryState, ChangesTransfersList
<1>1. /\ object[l].version \in Nat /\ copy[l].version \in Nat
      /\ copy[l].version <= object[l].version
  BY DEF TypeOK, State, CopiesOK, Objects
<1>2. CASE ListIsTold(l)
  <2>1. CASE \E e \in InLogAhead' :
                 e.object = l /\ EntryState(e).version > object[l].version
    <3>1. PICK e \in InLogAhead' :
                 e.object = l /\ EntryState(e).version > object[l].version
      BY <2>1
    <3>2. EntryState(e).version \in Nat
      <4>1. e \in LogEntry
        BY DEF TypeOK, InLogAhead
      <4>. QED BY <4>1, EntryStateType
    <3>3. EntryState(e).version > copy[l].version
      BY <1>1, <3>1, <3>2
    <3>. QED BY <3>1, <3>3
  <2>. QED BY <1>2, <2>1 DEF ListIsTold
<1>3. CASE Members(l)' = Members(l) /\ ~ListIsTold(l)
  <2>1. \E e \in InLogAhead : e.object = l /\ IsNews(e)
    BY <1>3 DEF ListsAreComplete
  <2>2. PICK e \in InLogAhead :
            e.object = l /\ EntryState(e).version > copy[l].version
    BY <2>1 DEF IsNews
  <2>3. PICK f \in InLogAhead' : f.object = e.object /\ EntryState(f) = EntryState(e)
    BY DEF Retold
  <2>. QED BY <2>2, <2>3
<1>. QED BY <1>2, <1>3

\* What is added to the log is ahead of the client.
LEMMA LogGrowsAhead ==
    ASSUME TypeOK, ClientOK, UNCHANGED <<page, cursor>>,
           log_entry \subseteq log_entry'
    PROVE  /\ InLogAhead \subseteq InLogAhead'
           /\ \A e \in log_entry' :
                  e \in LogEntry /\ e.entry_id > last_log_entry_id =>
                      e \in InLogAhead'
<1>1. /\ last_log_entry_id \in Nat /\ cursor \in Nat /\ page.next \in Nat
      /\ cursor <= last_log_entry_id
      /\ page.is_read => page.next <= last_log_entry_id
  BY DEF TypeOK, ClientOK
<1>2. InLogAhead \subseteq InLogAhead'
  BY DEF InLogAhead
<1>3. ASSUME NEW e \in log_entry', e \in LogEntry,
             e.entry_id > last_log_entry_id
      PROVE  e \in InLogAhead'
  <2>1. e.entry_id \in Nat
    BY <1>3, EntryTypes
  <2>2. e.entry_id > cursor /\ (page.is_read => e.entry_id > page.next)
    BY <1>1, <1>3, <2>1
  <2>. QED BY <2>2, <1>3 DEF InLogAhead
<1>. QED BY <1>2, <1>3

LEMMA SubsetIsRetold ==
    ASSUME NEW S, NEW T, S \subseteq T
    PROVE  Retold(S, T)
BY DEF Retold

\* Two runs of numbers, one after the other.
LEMMA NumbersGoOn ==
    ASSUME NEW S \in SUBSET LogEntry, NEW T \in SUBSET LogEntry,
           NEW first \in Nat, NEW middle \in Nat, NEW last \in Nat,
           middle <= last,
           AreNumbered(S, first, middle), AreNumbered(T, middle, last),
           \A e \in T : e.entry_id > middle
    PROVE  AreNumbered(S \cup T, first, last)
<1>1. \A e \in S \cup T : e.entry_id \in Nat
  BY EntryTypes
<1>2. \A e \in S \cup T : e.entry_id <= last
  BY <1>1 DEF AreNumbered
<1>3. ASSUME NEW e1 \in S \cup T, NEW e2 \in S \cup T,
             e1.entry_id = e2.entry_id
      PROVE  e1 = e2
  BY <1>1, <1>3 DEF AreNumbered
<1>4. ASSUME NEW id \in (first + 1)..last
      PROVE  \E e \in S \cup T : e.entry_id = id
  <2>1. CASE id <= middle
    <3>1. id \in (first + 1)..middle
      BY <2>1
    <3>. QED BY <3>1 DEF AreNumbered
  <2>2. CASE ~(id <= middle)
    <3>1. id \in (middle + 1)..last
      BY <2>2
    <3>. QED BY <3>1 DEF AreNumbered
  <2>. QED BY <2>1, <2>2
<1>. QED BY <1>2, <1>3, <1>4 DEF AreNumbered

LEMMA NumbersOfOneOrTwo ==
    ASSUME NEW last \in Nat, NEW e1 \in LogEntry, e1.entry_id = last + 1
    PROVE  /\ AreNumbered({e1}, last, last + 1)
           /\ \A e2 \in LogEntry : e2.entry_id = last + 2 =>
                  AreNumbered({e1, e2}, last, last + 2)
<1>1. \A id \in (last + 1)..(last + 1) : id = last + 1
  OBVIOUS
<1>2. \A id \in (last + 1)..(last + 2) : id = last + 1 \/ id = last + 2
  OBVIOUS
<1>3. AreNumbered({e1}, last, last + 1)
  BY <1>1 DEF AreNumbered
<1>4. ASSUME NEW e2 \in LogEntry, e2.entry_id = last + 2
      PROVE  AreNumbered({e1, e2}, last, last + 2)
  BY <1>2, <1>4 DEF AreNumbered
<1>. QED BY <1>3, <1>4

-----------------------------------------------------------------------------
(* The steps of the server, one by one.                                    *)

\* What a change of the objects comes down to, once it is known how it is
\* announced.
LEMMA AnnouncedChange ==
    ASSUME LogInv, TypeOK', ObjectsOK', EntriesOK', LogOK', ProcessorOK',
           log_entry \subseteq log_entry',
           last_log_entry_id' \in Nat, last_log_entry_id <= last_log_entry_id',
           UNCHANGED client,
           Retold(Ahead, Ahead'),
           \A o \in Objects :
               \/ object'[o] = object[o]
               \/ /\ object'[o].version > object[o].version
                  /\ \E e \in Ahead' : Tells(e, o, object'[o]),
           \A l \in Lists : Members(l)' = Members(l) \/ ListIsTold(l),
           (\E e \in pending_log_entry : ChangesTransfersList(e))
               => ListIsTold("TransfersList")
    PROVE  LogInv'
<1>1. /\ TypeOK /\ CopiesOK /\ ClientOK /\ NothingMissed /\ ListsAreComplete
      /\ UNCHANGED <<unread, copy, members, cursor, request, page>>
  BY DEF LogInv, client
<1>2. CopiesOK'
  BY <1>1, ChangesKeepCopies DEF MovesForward
<1>3. ClientOK'
  BY <1>1 DEF ClientOK, TypeOK
<1>4. NothingMissed'
  BY <1>1, ChangesAreAnnounced
<1>5. Retold(InLogAhead, InLogAhead')
  BY <1>1, LogGrowsAhead, SubsetIsRetold
<1>6. ListsAreComplete'
  BY <1>1, <1>5, ListChangesAreTold
<1>. QED BY <1>2, <1>3, <1>4, <1>6 DEF LogInv

\* The numbers of an account's entries, and the lists.
LEMMA LogsAccountKeeps ==
    ASSUME LogInv, TypeOK', NEW a \in Accounts, NEW state \in State,
           LogsAccount(a, state)
    PROVE  /\ \A o \in Objects : MovesForward(o)
           /\ LogInv'
<1>. DEFINE list_state == AccountsListState
<1>1. /\ TypeOK /\ ObjectsOK /\ EntriesOK /\ LogOK /\ ProcessorOK /\ CopiesOK
      /\ ClientOK /\ NothingMissed /\ ListsAreComplete
  BY DEF LogInv
<1>2. /\ a \in Objects /\ a # "AccountsList" /\ a # "TransfersList"
      /\ a \notin Transfers /\ a \notin Lists
      /\ "AccountsList" \in Lists
  BY ObjectNames DEF Lists
<1>3. /\ object[a].version \in Nat /\ object["AccountsList"].version \in Nat
      /\ uid_seq \in Nat /\ object[a].version <= uid_seq
      /\ last_log_entry_id \in Nat /\ cursor \in Nat
      /\ cursor <= last_log_entry_id
      /\ state.version = uid_seq + 1
  BY <1>1, <1>2 DEF TypeOK, State, Objects, LogsAccount, ClientOK
<1>4. /\ object'[a] = state
      /\ object'["AccountsList"] = list_state
      /\ list_state.exists = TRUE
      /\ list_state.version = object["AccountsList"].version + 1
      /\ \A o \in Objects \ {a, "AccountsList"} : object'[o] = object[o]
      /\ last_log_entry_id' = last_log_entry_id + 2
  BY <1>1, LogsAccountEffect DEF LogsAccount, AccountsListState
<1>5. PICK x, y \in LogEntry :
          /\ log_entry' = log_entry \cup {x, y}
          /\ Tells(x, a, state) /\ IsWellFormed(x)
          /\ Tells(y, "AccountsList", list_state) /\ IsWellFormed(y)
          /\ \/ /\ x.entry_id = last_log_entry_id + 1
                /\ y.entry_id = last_log_entry_id + 2
             \/ /\ x.entry_id = last_log_entry_id + 2
                /\ y.entry_id = last_log_entry_id + 1
  BY DEF LogsAccount
<1>. HIDE DEF list_state
<1>9. \A o \in Objects : MovesForward(o)
  <2>1. MovesForward(a)
    BY <1>3, <1>4 DEF MovesForward
  <2>2. MovesForward("AccountsList")
    BY <1>3, <1>4 DEF MovesForward
  <2>. QED BY <1>4, <2>1, <2>2 DEF MovesForward
<1>10. ObjectsOK'
  BY <1>1, <1>2, <1>4, ObjectNames DEF ObjectsOK, Lists, Forever
<1>11. EntriesOK'
  <2>1. ASSUME NEW e \in {x, y} PROVE IsTrue(e)' /\ IsWellFormed(e)
    <3>1. /\ EntryState(x) = object'[x.object] /\ EntryState(y) = object'[y.object]
          /\ EntryState(x).version \in Nat /\ EntryState(y).version \in Nat
      BY <1>4, <1>5, EntryStateType DEF Tells
    <3>2. EntryState(e) = object'[e.object] /\ EntryState(e).version \in Nat
      BY <3>1
    <3>3. IsTrue(e)'
      BY <3>2 DEF IsTrue, EntryState
    <3>. QED BY <1>5, <3>3
  <2>2. ASSUME NEW e \in pending_log_entry \cup log_entry PROVE IsTrue(e)'
    BY <1>1, <1>9, ChangesKeepTruth DEF EntriesOK, TypeOK
  <2>3. pending_log_entry' = pending_log_entry
    BY DEF LogsAccount
  <2>. QED BY <1>1, <1>5, <2>1, <2>2, <2>3 DEF EntriesOK, IsWellFormed
<1>12. LogOK'
  <2>1. AreNumbered({x, y}, last_log_entry_id, last_log_entry_id + 2)
    <3>1. {x, y} = {y, x}
      OBVIOUS
    <3>. QED BY <1>3, <1>5, <3>1, NumbersOfOneOrTwo
  <2>2. AreNumbered(log_entry \cup {x, y}, cursor, last_log_entry_id + 2)
    <3>1. /\ AreNumbered(log_entry, cursor, last_log_entry_id)
          /\ log_entry \in SUBSET LogEntry
      BY <1>1 DEF LogOK, TypeOK
    <3>2. /\ last_log_entry_id + 2 \in Nat
          /\ last_log_entry_id <= last_log_entry_id + 2
          /\ \A e \in {x, y} : e.entry_id > last_log_entry_id
          /\ {x, y} \in SUBSET LogEntry
      BY <1>3, <1>5
    <3>. QED BY <1>3, <2>1, <3>1, <3>2, NumbersGoOn
  <2>3. IsFiniteSet(log_entry \cup {x, y})
    <3>1. log_entry \cup {x, y} = (log_entry \cup {x}) \cup {y}
      OBVIOUS
    <3>. QED BY <1>1, <3>1, FS_AddElement DEF LogOK
  <2>4. cursor' = cursor
    BY DEF LogsAccount, client
  <2>. QED BY <1>4, <1>5, <2>2, <2>3, <2>4 DEF LogOK, AreNumbered
<1>13. ProcessorOK'
  <2>1. ~processor.is_locking /\ processor' = processor
    BY DEF LogsAccount, IsCreditorLockFree
  <2>. QED BY <1>1, <2>1 DEF ProcessorOK, Idle
<1>14. UNCHANGED <<client, page, cursor, pending_log_entry>>
  BY DEF LogsAccount, client
<1>15. /\ InLogAhead \subseteq InLogAhead'
       /\ x \in InLogAhead' /\ y \in InLogAhead'
  <2>1. /\ x.entry_id > last_log_entry_id /\ y.entry_id > last_log_entry_id
        /\ log_entry \subseteq log_entry'
    BY <1>3, <1>5
  <2>. QED BY <1>1, <1>5, <1>14, <2>1, LogGrowsAhead
<1>16. Ahead \subseteq Ahead' /\ x \in Ahead' /\ y \in Ahead'
  BY <1>14, <1>15 DEF Ahead
<1>17. Retold(Ahead, Ahead')
  BY <1>16, SubsetIsRetold
<1>19. ASSUME NEW o \in Objects
       PROVE  \/ object'[o] = object[o]
              \/ /\ object'[o].version > object[o].version
                 /\ \E e \in Ahead' : Tells(e, o, object'[o])
  <2>1. CASE o = a
    BY <1>3, <1>4, <1>16, <1>5, <2>1
  <2>2. CASE o = "AccountsList"
    <3>1. object'[o].version > object[o].version
      BY <1>3, <1>4, <2>2
    <3>. QED BY <1>4, <1>16, <1>5, <2>2, <3>1
  <2>. QED BY <1>4, <2>1, <2>2
<1>20. ASSUME NEW l \in Lists PROVE Members(l)' = Members(l) \/ ListIsTold(l)
  <2>1. CASE l = "AccountsList"
    <3>1. y \in InLogAhead' /\ y.object = l /\ EntryState(y) = list_state
      BY <1>15, <1>5, <2>1 DEF Tells
    <3>2. list_state.version > object[l].version
      BY <1>3, <1>4, <2>1
    <3>. QED BY <3>1, <3>2 DEF ListIsTold
  <2>2. CASE l # "AccountsList"
    <3>1. \A t \in Transfers : object'[t] = object[t]
      BY <1>2, <1>4, ObjectNames
    <3>. QED BY <2>2, <3>1 DEF Members
  <2>. QED BY <2>1, <2>2
<1>21. (\E e \in pending_log_entry : ChangesTransfersList(e))
           => ListIsTold("TransfersList")
  BY <1>14 DEF ListIsTold
<1>22. /\ log_entry \subseteq log_entry' /\ last_log_entry_id' \in Nat
       /\ last_log_entry_id <= last_log_entry_id'
  BY <1>3, <1>4, <1>5
<1>. QED BY <1>9, <1>10, <1>11, <1>12, <1>13, <1>14, <1>17, <1>19, <1>20,
            <1>21, <1>22, AnnouncedChange

\* A change that leaves a pending entry.
LeavesEntry(o, state, e) ==
    /\ object' = [object EXCEPT ![o] = state]
    /\ pending_log_entry' = pending_log_entry \cup {e}
    /\ Tells(e, o, state)
    /\ IsWellFormed(e)
    /\ state.version > object[o].version
    /\ o \in Transfers /\ state.exists => state.version < Forever
    /\ \/ state.exists = object[o].exists
       \/ o \in Transfers /\ ChangesTransfersList(e)
    /\ UNCHANGED <<log_entry, last_log_entry_id, processor>>
    /\ UNCHANGED <<client, failures>>

LEMMA LeavesEntryKeeps ==
    ASSUME LogInv, TypeOK', NEW o \in Accounts \cup Transfers, NEW state \in State,
           NEW e \in PendingLogEntry, LeavesEntry(o, state, e)
    PROVE  /\ \A p \in Objects : MovesForward(p)
           /\ LogInv'
<1>1. /\ TypeOK /\ ObjectsOK /\ EntriesOK /\ LogOK /\ ProcessorOK /\ CopiesOK
      /\ ClientOK /\ NothingMissed /\ ListsAreComplete
  BY DEF LogInv
<1>2. o \in Objects /\ o \notin Lists
  BY ObjectNames DEF Lists
<1>3. object'[o] = state /\ \A p \in Objects \ {o} : object'[p] = object[p]
  BY <1>1, <1>2 DEF LeavesEntry, TypeOK
<1>4. /\ pending_log_entry' = pending_log_entry \cup {e}
      /\ e.object = o /\ EntryState(e) = state /\ IsWellFormed(e)
      /\ state.version > object[o].version
      /\ UNCHANGED <<log_entry, last_log_entry_id, processor, client,
                     unread, copy, members, cursor, request, page>>
  BY DEF LeavesEntry, Tells, client
<1>5. \A p \in Objects : MovesForward(p)
  BY <1>3, <1>4 DEF MovesForward
<1>6. ObjectsOK'
  <2>1. \A l \in Lists : object'[l] = object[l]
    BY <1>2, <1>3 DEF Objects
  <2>2. ASSUME NEW t \in Transfers, object'[t].exists
        PROVE  object'[t].version < Forever
    <3>1. CASE t = o
      BY <1>3, <2>2, <3>1 DEF LeavesEntry
    <3>2. CASE t # o
      <4>1. object'[t] = object[t]
        BY <1>3, <3>2, ObjectNames
      <4>. QED BY <1>1, <2>2, <4>1 DEF ObjectsOK
    <3>. QED BY <3>1, <3>2
  <2>. QED BY <1>1, <2>1, <2>2 DEF ObjectsOK, Forever
<1>7. EntriesOK'
  <2>1. IsTrue(e)'
    <3>1. EntryState(e) = object'[e.object] /\ EntryState(e).version \in Nat
      BY <1>3, <1>4, EntryStateType
    <3>. QED BY <3>1 DEF IsTrue, EntryState
  <2>2. ASSUME NEW f \in pending_log_entry \cup log_entry PROVE IsTrue(f)'
    BY <1>1, <1>5, ChangesKeepTruth DEF EntriesOK, TypeOK
  <2>. QED BY <1>1, <1>2, <1>4, <2>1, <2>2 DEF EntriesOK, IsWellFormed
<1>8. LogOK'
  BY <1>1, <1>4 DEF LogOK, AreNumbered
<1>9. ProcessorOK'
  <2>1. object'["TransfersList"] = object["TransfersList"]
    BY <1>2, <1>3, ObjectNames
  <2>. QED BY <1>1, <1>4, <2>1
         DEF ProcessorOK, AreNumbered, IsFor, IsListUpdate, ChangesTransfersList,
             AsLogEntry, Idle
<1>10. InLogAhead' = InLogAhead /\ Ahead \subseteq Ahead' /\ e \in Ahead'
  BY <1>4 DEF InLogAhead, Ahead
<1>11. Retold(Ahead, Ahead')
  BY <1>10, SubsetIsRetold
<1>12. ASSUME NEW p \in Objects
       PROVE  \/ object'[p] = object[p]
              \/ /\ object'[p].version > object[p].version
                 /\ \E f \in Ahead' : Tells(f, p, object'[p])
  <2>1. CASE p = o
    BY <1>3, <1>4, <1>10, <2>1 DEF Tells
  <2>. QED BY <1>3, <2>1
<1>13. ASSUME NEW l \in Lists PROVE Members(l)' = Members(l) \/ ListIsTold(l)
  <2>1. CASE state.exists = object[o].exists
    <3>1. \A p \in Objects : object'[p].exists = object[p].exists
      BY <1>3, <2>1
    <3>2. Members(l)' = Members(l)
      BY <3>1, ObjectNames DEF Members
    <3>. QED BY <3>2
  <2>2. CASE o \in Transfers /\ ChangesTransfersList(e)
    <3>1. CASE l = "TransfersList"
      BY <1>4, <2>2, <3>1 DEF ListIsTold
    <3>2. CASE l = "AccountsList"
      <4>1. \A a \in Accounts : object'[a] = object[a]
        BY <1>3, <2>2, ObjectNames
      <4>. QED BY <3>2, <4>1 DEF Members
    <3>. QED BY <3>1, <3>2 DEF Lists
  <2>. QED BY <2>1, <2>2 DEF LeavesEntry
<1>14. (\E f \in pending_log_entry : ChangesTransfersList(f))
           => ListIsTold("TransfersList")
  BY <1>4 DEF ListIsTold
<1>15. /\ log_entry \subseteq log_entry' /\ last_log_entry_id' \in Nat
       /\ last_log_entry_id <= last_log_entry_id'
  BY <1>1, <1>4 DEF TypeOK
<1>16. UNCHANGED client
  BY <1>4
<1>17. LogInv'
  BY <1>6, <1>7, <1>8, <1>9, <1>11, <1>12, <1>13, <1>14, <1>15, <1>16,
     AnnouncedChange
<1>. QED BY <1>5, <1>17

LEMMA UpdateAccountKeeps ==
    ASSUME LogInv, TypeOK', NEW a \in Accounts, UpdateAccount(a)
    PROVE  /\ \A p \in Objects : MovesForward(p)
           /\ LogInv'
<1>. DEFINE state == [exists |-> TRUE, version |-> object[a].version + 1]
            e == PendingEntry(a, object[a].version + 1, FALSE)
<1>1. /\ TypeOK /\ a \in Objects /\ object[a] \in State
      /\ object[a].exists = TRUE /\ object[a].version \in Nat
      /\ a \notin Lists /\ a \notin Transfers
  BY ObjectNames DEF LogInv, TypeOK, State, UpdateAccount, Lists
<1>2. /\ state \in State /\ object' = [object EXCEPT ![a] = state]
      /\ e \in PendingLogEntry /\ EntryState(e) = state
      /\ pending_log_entry' = pending_log_entry \cup {e}
  BY <1>1, UpdateAccountEffect
<1>3. /\ e.object = a /\ e.update_id # NoUpdateId
      /\ state.version > object[a].version /\ state.exists = object[a].exists
  <2>1. state.exists = TRUE /\ state.version = object[a].version + 1
    OBVIOUS
  <2>2. e.object = a /\ e.update_id = object[a].version + 1
    BY DEF PendingEntry
  <2>. HIDE DEF state, e
  <2>3. state.exists = object[a].exists
    BY <1>1, <2>1
  <2>4. e.update_id # NoUpdateId /\ state.version > object[a].version
    BY <1>1, <2>1, <2>2 DEF NoUpdateId
  <2>. QED BY <2>2, <2>3, <2>4
<1>4. UNCHANGED <<log_entry, last_log_entry_id, processor, client, failures>>
  BY DEF UpdateAccount
<1>. HIDE DEF e, state
<1>5. LeavesEntry(a, state, e)
  BY <1>1, <1>2, <1>3, <1>4 DEF LeavesEntry, Tells, IsWellFormed
<1>. QED BY <1>2, <1>5, LeavesEntryKeeps

LEMMA TransferActionsKeep ==
    ASSUME LogInv, TypeOK', NEW t \in Transfers,
           CreateTransfer(t) \/ FinalizeTransfer(t) \/ DeleteTransfer(t)
    PROVE  /\ \A p \in Objects : MovesForward(p)
           /\ LogInv'
<1>1. PICK state \in State, e \in PendingLogEntry : ChangesTransfer(t, state, e)
  BY TransferActions DEF LogInv
<1>2. LeavesEntry(t, state, e)
  BY <1>1 DEF ChangesTransfer, LeavesEntry, Tells
<1>. QED BY <1>2, LeavesEntryKeeps

\* The processor has its own copy of the creditor's row: until it commits,
\* nothing else changes.
LEMMA ProcessorStepKeeps ==
    ASSUME LogInv, TypeOK', ProcessorOK',
           UNCHANGED <<object, pending_log_entry, log_entry, last_log_entry_id,
                       client>>
    PROVE  LogInv'
<1>1. UNCHANGED <<unread, copy, members, cursor, request, page>>
  BY DEF client
<1>. QED BY <1>1 DEF LogInv, ObjectsOK, EntriesOK, IsTrue, IsWellFormed, LogOK,
         AreNumbered, CopiesOK, ClientOK, NothingMissed, IsAnnounced, Ahead,
         InLogAhead, IsNews, EntryState, BothAbsent, ListsAreComplete, Members,
         ChangesTransfersList, Forever

LEMMA LockCreditorKeeps ==
    ASSUME LogInv, TypeOK', LockCreditor
    PROVE  LogInv'
<1>1. TypeOK
  BY DEF LogInv
<1>2. /\ last_log_entry_id \in Nat /\ object["TransfersList"].version \in Nat
  BY <1>1, ObjectNames DEF TypeOK, State
<1>3. /\ processor'.is_locking = TRUE
      /\ processor'.todo = pending_log_entry /\ processor'.done = {}
      /\ processor'.added = {} /\ processor'.last = last_log_entry_id
      /\ processor'.list_id = object["TransfersList"].version
  BY DEF LockCreditor, Idle
<1>4. UNCHANGED <<object, pending_log_entry, log_entry, last_log_entry_id,
                  client>>
  BY DEF LockCreditor
<1>5. AreNumbered({}, last_log_entry_id, last_log_entry_id)
  BY <1>2 DEF AreNumbered
<1>6. ProcessorOK'
  BY <1>2, <1>3, <1>4, <1>5, FS_EmptySet DEF ProcessorOK, AreNumbered
<1>. QED BY <1>4, <1>6, ProcessorStepKeeps

LEMMA CrashProcessorKeeps ==
    ASSUME LogInv, TypeOK', CrashProcessor
    PROVE  LogInv'
<1>1. ProcessorOK'
  BY DEF CrashProcessor, ProcessorOK, Idle
<1>2. UNCHANGED <<object, pending_log_entry, log_entry, last_log_entry_id,
                  client>>
  BY DEF CrashProcessor
<1>. QED BY <1>1, <1>2, ProcessorStepKeeps

LEMMA AddPendingLogEntryKeeps ==
    ASSUME LogInv, TypeOK', NEW d \in processor.todo, AddPendingLogEntry(d)
    PROVE  LogInv'
<1>. DEFINE n == IF ChangesTransfersList(d) THEN 1 ELSE 0
            x == AsLogEntry(processor.last + 1, d)
            y == AsLogEntry(processor.last + 2, ListEntry)
            new == {x} \cup (IF ChangesTransfersList(d) THEN {y} ELSE {})
            version == object["TransfersList"].version
<1>1. TypeOK /\ ProcessorOK
  BY DEF LogInv
<1>2. /\ last_log_entry_id \in Nat /\ version \in Nat
      /\ processor.last \in Nat /\ processor.list_id \in Nat
      /\ processor.added \in SUBSET LogEntry
  BY <1>1, ObjectNames DEF TypeOK, State
<1>3. processor.is_locking
  BY <1>1 DEF ProcessorOK, Idle
<1>4. /\ processor'.is_locking = processor.is_locking
      /\ processor'.todo = processor.todo \ {d}
      /\ processor'.done = processor.done \cup {d}
      /\ processor'.last = processor.last + 1 + n
      /\ processor'.list_id = processor.list_id + n
      /\ d \in PendingLogEntry /\ x \in LogEntry /\ y \in LogEntry
  BY <1>1, AddPendingLogEntryEffect
<1>5. processor'.added = processor.added \cup new
  <2>1. processor'.added = processor.added \cup {x}
            \cup (IF ChangesTransfersList(d) THEN {y} ELSE {})
    BY <1>1, AddPendingLogEntryEffect
  <2>. HIDE DEF x, y
  <2>. QED BY <2>1
<1>6. UNCHANGED <<object, pending_log_entry, log_entry, last_log_entry_id,
                  client>>
  BY DEF AddPendingLogEntry
<1>7. /\ x.entry_id = processor.last + 1 /\ IsFor(x, d)
      /\ y.entry_id = processor.last + 2
      /\ IsListUpdate(y, processor.list_id + 1)
  BY DEF AsLogEntry, IsFor, IsListUpdate, ListEntry, PendingEntry
<1>. HIDE DEF x, y
<1>8. /\ processor.todo \cup processor.done \subseteq pending_log_entry
      /\ processor.last >= last_log_entry_id /\ processor.list_id >= version
      /\ IsFiniteSet(processor.added)
      /\ \A e \in processor.added : e.entry_id > last_log_entry_id
      /\ AreNumbered(processor.added, last_log_entry_id, processor.last)
  BY <1>1, <1>3 DEF ProcessorOK
<1>9. /\ new \in SUBSET LogEntry
      /\ \A e \in new : e.entry_id > processor.last
      /\ AreNumbered(new, processor.last, processor.last + 1 + n)
      /\ n \in {0, 1}
  <2>1. CASE ChangesTransfersList(d)
    <3>1. new = {x, y} /\ n = 1 /\ processor.last + 1 + n = processor.last + 2
      BY <1>2, <2>1
    <3>2. AreNumbered({x, y}, processor.last, processor.last + 2)
      BY <1>2, <1>4, <1>7, NumbersOfOneOrTwo
    <3>3. \A e \in {x, y} : e.entry_id > processor.last
      BY <1>2, <1>7
    <3>. HIDE DEF new, n
    <3>. QED BY <3>1, <3>2, <3>3, <1>4
  <2>2. CASE ~ChangesTransfersList(d)
    <3>1. new = {x} /\ n = 0 /\ processor.last + 1 + n = processor.last + 1
      BY <1>2, <2>2
    <3>2. AreNumbered({x}, processor.last, processor.last + 1)
      BY <1>2, <1>4, <1>7, NumbersOfOneOrTwo
    <3>3. \A e \in {x} : e.entry_id > processor.last
      BY <1>2, <1>7
    <3>. HIDE DEF new, n
    <3>. QED BY <3>1, <3>2, <3>3, <1>4
  <2>. QED BY <2>1, <2>2
<1>10. AreNumbered(processor.added \cup new, last_log_entry_id,
                   processor.last + 1 + n)
  <2>. HIDE DEF new, n
  <2>1. processor.last + 1 + n \in Nat /\ processor.last <= processor.last + 1 + n
    BY <1>2, <1>9
  <2>. QED BY <1>2, <1>8, <1>9, <2>1, NumbersGoOn
<1>11. IsFiniteSet(processor.added \cup new)
  <2>1. IsFiniteSet({x}) /\ IsFiniteSet({x, y})
    <3>1. IsFiniteSet({x})
      BY FS_Singleton
    <3>2. IsFiniteSet({x} \cup {y})
      BY <3>1, FS_AddElement
    <3>3. {x, y} = {x} \cup {y}
      OBVIOUS
    <3>. QED BY <3>1, <3>2, <3>3
  <2>2. IsFiniteSet(new)
    <3>1. new = {x} \/ new = {x, y}
      OBVIOUS
    <3>. HIDE DEF new
    <3>. QED BY <2>1, <3>1
  <2>. HIDE DEF new
  <2>. QED BY <1>8, <2>2, FS_Union
<1>12. \A e \in processor.added \cup new : e.entry_id > last_log_entry_id
  <2>1. \A e \in new : e.entry_id \in Nat
    BY <1>9, EntryTypes
  <2>. HIDE DEF new
  <2>. QED BY <1>2, <1>8, <1>9, <2>1
<1>13. ASSUME NEW e \in processor.added \cup new
       PROVE  \/ \E f \in processor.done \cup {d} : IsFor(e, f)
              \/ \E v \in (version + 1) .. (processor.list_id + n) :
                     IsListUpdate(e, v)
  <2>1. CASE e \in processor.added
    <3>1. \/ \E f \in processor.done : IsFor(e, f)
          \/ \E v \in (version + 1) .. processor.list_id : IsListUpdate(e, v)
      BY <1>1, <1>3, <2>1 DEF ProcessorOK
    <3>2. (version + 1) .. processor.list_id
              \subseteq (version + 1) .. (processor.list_id + n)
      BY <1>2
    <3>. QED BY <3>1, <3>2
  <2>2. CASE e = x
    BY <1>7, <2>2
  <2>3. CASE ChangesTransfersList(d) /\ e = y
    <3>1. processor.list_id + 1 \in (version + 1) .. (processor.list_id + n)
      BY <1>2, <1>8, <2>3
    <3>. QED BY <1>7, <2>3, <3>1
  <2>. QED BY <2>1, <2>2, <2>3
<1>14. ASSUME NEW f \in processor.done \cup {d}
       PROVE  /\ \E e \in processor.added \cup new : IsFor(e, f)
              /\ ChangesTransfersList(f) => processor.list_id + n > version
  <2>1. CASE f \in processor.done
    <3>1. /\ \E e \in processor.added : IsFor(e, f)
          /\ ChangesTransfersList(f) => processor.list_id > version
      BY <1>1, <1>3, <2>1 DEF ProcessorOK
    <3>. QED BY <1>2, <3>1
  <2>2. CASE f = d
    BY <1>2, <1>7, <1>8, <2>2
  <2>. QED BY <2>1, <2>2
<1>15. processor.list_id + n > version =>
           \E e \in processor.added \cup new :
               IsListUpdate(e, processor.list_id + n)
  <2>1. CASE ChangesTransfersList(d)
    BY <1>7, <2>1
  <2>2. CASE ~ChangesTransfersList(d)
    <3>1. processor.list_id + n = processor.list_id
      BY <1>2, <2>2
    <3>2. processor.list_id > version =>
              \E e \in processor.added : IsListUpdate(e, processor.list_id)
      BY <1>1, <1>3 DEF ProcessorOK
    <3>. HIDE DEF new, n
    <3>. QED BY <3>1, <3>2
  <2>. QED BY <2>1, <2>2
<1>16. /\ (processor.todo \ {d}) \cup (processor.done \cup {d})
              \subseteq pending_log_entry
       /\ processor.last + 1 + n >= last_log_entry_id
       /\ processor.list_id + n >= version
  BY <1>2, <1>8
<1>17. ProcessorOK'
  <2>. HIDE DEF new, n
  <2>1. /\ object'["TransfersList"].version = version
        /\ last_log_entry_id' = last_log_entry_id
        /\ pending_log_entry' = pending_log_entry
        /\ processor'.is_locking
    BY <1>3, <1>4, <1>6
  <2>. HIDE DEF version
  <2>2. \A e \in processor'.added :
            \/ \E f \in processor'.done : IsFor(e, f)
            \/ \E v \in (object'["TransfersList"].version + 1)
                            .. processor'.list_id :
                   IsListUpdate(e, v)
    BY <1>4, <1>5, <1>13, <2>1
  <2>3. \A f \in processor'.done :
            /\ \E e \in processor'.added : IsFor(e, f)
            /\ ChangesTransfersList(f) =>
                   processor'.list_id > object'["TransfersList"].version
    BY <1>4, <1>5, <1>14, <2>1
  <2>4. processor'.list_id > object'["TransfersList"].version =>
            \E e \in processor'.added : IsListUpdate(e, processor'.list_id)
    BY <1>4, <1>5, <1>15, <2>1
  <2>5. /\ processor'.todo \cup processor'.done \subseteq pending_log_entry'
        /\ processor'.last >= last_log_entry_id'
        /\ processor'.list_id >= object'["TransfersList"].version
    BY <1>4, <1>16, <2>1
  <2>6. /\ IsFiniteSet(processor'.added)
        /\ \A e \in processor'.added : e.entry_id > last_log_entry_id'
        /\ AreNumbered(processor'.added, last_log_entry_id', processor'.last)
    BY <1>4, <1>5, <1>10, <1>11, <1>12, <2>1
  <2>. QED BY <2>1, <2>2, <2>3, <2>4, <2>5, <2>6
         DEF ProcessorOK, AreNumbered, IsFor, AsLogEntry, IsListUpdate,
             ChangesTransfersList
<1>. QED BY <1>6, <1>17, ProcessorStepKeeps

\* The commit: whatever was pending under the lock is in the log now.
LEMMA CommitLogEntriesKeeps ==
    ASSUME LogInv, TypeOK', CommitLogEntries
    PROVE  /\ \A o \in Objects : MovesForward(o)
           /\ LogInv'
<1>. DEFINE list == object["TransfersList"]
            added == processor.added
<1>1. /\ TypeOK /\ ObjectsOK /\ EntriesOK /\ LogOK /\ ProcessorOK /\ CopiesOK
      /\ ClientOK /\ NothingMissed /\ ListsAreComplete
      /\ processor.is_locking
  BY DEF LogInv, CommitLogEntries
<1>2. /\ last_log_entry_id \in Nat /\ list \in State /\ list.version \in Nat
      /\ list.exists = TRUE
      /\ processor.last \in Nat /\ processor.list_id \in Nat
      /\ cursor \in Nat /\ log_entry \in SUBSET LogEntry
      /\ pending_log_entry \in SUBSET PendingLogEntry
      /\ added \in SUBSET LogEntry /\ "TransfersList" \in Lists
      /\ processor.done \in SUBSET PendingLogEntry
  BY <1>1, ObjectNames DEF TypeOK, State, ObjectsOK, Lists
<1>3. /\ processor.todo \cup processor.done \subseteq pending_log_entry
      /\ processor.last >= last_log_entry_id /\ processor.list_id >= list.version
      /\ IsFiniteSet(added)
      /\ \A e \in added : e.entry_id > last_log_entry_id
      /\ AreNumbered(added, last_log_entry_id, processor.last)
  BY <1>1 DEF ProcessorOK
<1>4. /\ object'["TransfersList"] = [exists |-> list.exists,
                                     version |-> processor.list_id]
      /\ \A o \in Objects \ {"TransfersList"} : object'[o] = object[o]
  BY <1>1, CommitLogEntriesEffect
<1>5. /\ log_entry' = log_entry \cup added
      /\ last_log_entry_id' = processor.last
      /\ pending_log_entry' = pending_log_entry \ processor.done
      /\ processor' = Idle
      /\ UNCHANGED <<client, page, cursor>>
  BY DEF CommitLogEntries, client
<1>6. /\ object'["TransfersList"].version = processor.list_id
      /\ object'["TransfersList"].exists = TRUE
      /\ processor.list_id = list.version =>
             object'["TransfersList"] = object["TransfersList"]
  <2>1. list = [exists |-> list.exists, version |-> list.version]
    BY <1>2 DEF State
  <2>. HIDE DEF list
  <2>. QED BY <1>2, <1>4, <2>1 DEF list
<1>7. \A o \in Objects : MovesForward(o)
  <2>1. MovesForward("TransfersList")
    BY <1>2, <1>3, <1>6 DEF MovesForward
  <2>. QED BY <1>4, <2>1 DEF MovesForward
<1>8. ObjectsOK'
  <2>1. \A l \in Lists : object'[l].exists
    BY <1>1, <1>4, <1>6 DEF ObjectsOK, Lists, Objects
  <2>2. \A t \in Transfers : object'[t] = object[t]
    BY <1>4, ObjectNames
  <2>. QED BY <1>1, <2>1, <2>2 DEF ObjectsOK, Forever
\* An added entry tells what the pending entry has told, or of the list.
<1>9. ASSUME NEW e \in added
      PROVE  /\ IsTrue(e)' /\ IsWellFormed(e)
             /\ \/ \E d \in processor.done : IsFor(e, d)
                \/ e.object = "TransfersList"
  <2>1. CASE \E d \in processor.done : IsFor(e, d)
    <3>1. PICK d \in processor.done : e = AsLogEntry(e.entry_id, d)
      BY <2>1 DEF IsFor
    <3>2. IsTrue(d) /\ IsWellFormed(d) /\ d \in PendingLogEntry
      BY <1>1, <1>2, <1>3 DEF EntriesOK
    <3>3. IsTrue(e) /\ IsWellFormed(e)
      BY <3>1, <3>2, EntryInLog
    <3>4. IsTrue(e)'
      BY <1>1, <1>2, <1>7, <3>3, ChangesKeepTruth
    <3>. QED BY <2>1, <3>3, <3>4
  <2>2. CASE \E v \in (list.version + 1) .. processor.list_id :
                 IsListUpdate(e, v)
    <3>1. PICK v \in (list.version + 1) .. processor.list_id :
              IsListUpdate(e, v)
      BY <2>2
    <3>2. /\ e.object = "TransfersList" /\ ~e.is_deleted /\ e.update_id = v
          /\ v \in Nat /\ v <= processor.list_id /\ v # NoUpdateId
      BY <1>2, <3>1 DEF IsListUpdate, NoUpdateId
    <3>3. /\ EntryState(e) = [exists |-> ~e.is_deleted, version |-> v]
      BY <3>2 DEF EntryState
    <3>4. (~e.is_deleted) = TRUE
      BY <3>2
    <3>5. EntryState(e) = [exists |-> TRUE, version |-> v]
      BY <3>3, <3>4
    <3>6. object'["TransfersList"] =
              [exists |-> TRUE, version |-> processor.list_id]
      BY <1>2, <1>4
    <3>7. IsTrue(e)'
      <4>1. /\ EntryState(e).version <= object'[e.object].version
            /\ EntryState(e).version = object'[e.object].version =>
                   EntryState(e) = object'[e.object]
        <5>1. /\ EntryState(e).version = v
              /\ object'[e.object] =
                     [exists |-> TRUE, version |-> processor.list_id]
          BY <3>2, <3>5, <3>6
        <5>2. object'[e.object].version = processor.list_id
          BY <5>1
        <5>. QED BY <3>2, <3>5, <5>1, <5>2
      <4>. QED BY <4>1 DEF IsTrue, EntryState
    <3>8. IsWellFormed(e)
      BY <3>2 DEF IsWellFormed
    <3>. QED BY <3>2, <3>7, <3>8
  <2>. QED BY <1>1, <2>1, <2>2 DEF ProcessorOK
<1>10. EntriesOK'
  <2>1. ASSUME NEW e \in pending_log_entry \cup log_entry PROVE IsTrue(e)'
    BY <1>1, <1>7, ChangesKeepTruth DEF EntriesOK, TypeOK
  <2>2. ASSUME NEW e \in pending_log_entry'
        PROVE  IsTrue(e)' /\ IsWellFormed(e) /\ e.object \notin Lists
    BY <1>1, <1>5, <2>1, <2>2 DEF EntriesOK
  <2>3. ASSUME NEW e \in log_entry' PROVE IsTrue(e)' /\ IsWellFormed(e)
    <3>. HIDE DEF added
    <3>. QED BY <1>1, <1>5, <1>9, <2>1, <2>3 DEF EntriesOK
  <2>. QED BY <2>2, <2>3 DEF EntriesOK, IsWellFormed
<1>11. LogOK'
  <2>1. AreNumbered(log_entry, cursor, last_log_entry_id)
    BY <1>1 DEF LogOK
  <2>. HIDE DEF added
  <2>2. AreNumbered(log_entry \cup added, cursor, processor.last)
    BY <1>2, <1>3, <2>1, NumbersGoOn
  <2>3. IsFiniteSet(log_entry \cup added)
    BY <1>1, <1>3, FS_Union DEF LogOK
  <2>. QED BY <1>5, <2>2, <2>3 DEF LogOK, AreNumbered
<1>12. ProcessorOK'
  BY <1>5 DEF ProcessorOK, Idle
<1>13. InLogAhead \subseteq InLogAhead' /\ added \subseteq InLogAhead'
  <2>1. log_entry \subseteq log_entry' /\ added \subseteq log_entry'
    BY <1>5
  <2>2. InLogAhead \subseteq InLogAhead'
    BY <1>1, <1>5, <2>1, LogGrowsAhead
  <2>3. ASSUME NEW e \in added PROVE e \in InLogAhead'
    <3>1. e \in log_entry' /\ e \in LogEntry /\ e.entry_id > last_log_entry_id
      BY <1>2, <1>3, <2>1
    <3>. QED BY <1>1, <1>5, <2>1, <3>1, LogGrowsAhead
  <2>. QED BY <2>2, <2>3
<1>14. Retold(Ahead, Ahead')
  <2>. SUFFICES ASSUME NEW e \in Ahead
                PROVE  \E f \in Ahead' :
                           f.object = e.object /\ EntryState(f) = EntryState(e)
    BY DEF Retold
  <2>1. CASE e \in InLogAhead
    BY <1>13, <2>1 DEF Ahead
  <2>2. CASE e \in pending_log_entry \ processor.done
    BY <1>5, <2>2 DEF Ahead
  <2>3. CASE e \in processor.done
    <3>1. PICK f \in added : IsFor(f, e)
      BY <1>1, <2>3 DEF ProcessorOK
    <3>2. f = AsLogEntry(f.entry_id, e)
      BY <3>1 DEF IsFor
    <3>3. f.object = e.object /\ EntryState(f) = EntryState(e)
      BY <3>2, EntryInLog
    <3>. QED BY <1>13, <3>3 DEF Ahead
  <2>. QED BY <2>1, <2>2, <2>3 DEF Ahead
\* An entry tells of the list's new state.
<1>15. ASSUME processor.list_id # list.version
       PROVE  \E e \in added :
                  /\ Tells(e, "TransfersList", object'["TransfersList"])
                  /\ EntryState(e).version > list.version
  <2>1. processor.list_id > list.version
    BY <1>2, <1>3, <1>15
  <2>2. PICK e \in added : IsListUpdate(e, processor.list_id)
    BY <1>1, <2>1 DEF ProcessorOK
  <2>3. /\ e.object = "TransfersList" /\ (~e.is_deleted) = TRUE
        /\ e.update_id = processor.list_id /\ processor.list_id # NoUpdateId
    BY <1>2, <2>1, <2>2 DEF IsListUpdate, NoUpdateId
  <2>4. EntryState(e) = [exists |-> ~e.is_deleted, version |-> processor.list_id]
    BY <2>3 DEF EntryState
  <2>5. EntryState(e) = [exists |-> TRUE, version |-> processor.list_id]
    BY <2>3, <2>4
  <2>6. EntryState(e) = object'["TransfersList"]
    BY <1>2, <1>4, <2>5
  <2>. QED BY <2>1, <2>3, <2>5, <2>6 DEF Tells
<1>16. ASSUME NEW o \in Objects
       PROVE  \/ object'[o] = object[o]
              \/ /\ object'[o].version > object[o].version
                 /\ \E e \in Ahead' : Tells(e, o, object'[o])
  <2>1. CASE o = "TransfersList" /\ processor.list_id # list.version
    <3>1. object'[o].version > object[o].version
      BY <1>2, <1>3, <1>6, <2>1
    <3>. QED BY <1>13, <1>15, <2>1, <3>1 DEF Ahead
  <2>. QED BY <1>4, <1>6, <2>1
<1>17. ASSUME NEW l \in Lists PROVE Members(l)' = Members(l) \/ ListIsTold(l)
  <2>1. \A o \in Accounts \cup Transfers : object'[o] = object[o]
    BY <1>4, ObjectNames
  <2>2. Members(l)' = Members(l)
    BY <2>1 DEF Members
  <2>. QED BY <2>2
<1>18. (\E e \in pending_log_entry : ChangesTransfersList(e))
           => ListIsTold("TransfersList")
  <2>. SUFFICES ASSUME NEW d \in pending_log_entry, ChangesTransfersList(d)
                PROVE  ListIsTold("TransfersList")
    OBVIOUS
  <2>1. CASE d \in processor.done
    <3>1. processor.list_id > list.version
      BY <1>1, <2>1 DEF ProcessorOK
    <3>2. PICK e \in added :
              /\ Tells(e, "TransfersList", object'["TransfersList"])
              /\ EntryState(e).version > list.version
      BY <1>2, <1>15, <3>1
    <3>. QED BY <1>13, <3>2 DEF ListIsTold, Tells
  <2>2. CASE d \notin processor.done
    BY <1>5, <2>2 DEF ListIsTold
  <2>. QED BY <2>1, <2>2
<1>19. /\ log_entry \subseteq log_entry' /\ last_log_entry_id' \in Nat
       /\ last_log_entry_id <= last_log_entry_id' /\ UNCHANGED client
  BY <1>2, <1>3, <1>5
<1>20. LogInv'
  <2>. HIDE DEF added, list
  <2>. QED BY <1>8, <1>10, <1>11, <1>12, <1>14, <1>16, <1>17, <1>18, <1>19,
              AnnouncedChange
<1>. QED BY <1>7, <1>20

\* Only entries before the cursor are deleted.
LEMMA DeleteStaledLogEntriesKeeps ==
    ASSUME LogInv, TypeOK', DeleteStaledLogEntries
    PROVE  LogInv'
<1>1. /\ TypeOK /\ ObjectsOK /\ EntriesOK /\ LogOK /\ ProcessorOK /\ CopiesOK
      /\ ClientOK /\ NothingMissed /\ ListsAreComplete
  BY DEF LogInv
<1>2. /\ log_entry' = {e \in log_entry : e.entry_id > cursor}
      /\ UNCHANGED <<object, uid_seq, pending_log_entry, last_log_entry_id,
                     processor, unread, copy, members, cursor, request, page,
                     failures>>
  BY DEF DeleteStaledLogEntries, client
<1>3. /\ cursor \in Nat /\ page.next \in Nat
      /\ page.is_read => cursor <= page.next
      /\ \A e \in log_entry : e.entry_id \in Nat
  BY <1>1, EntryTypes DEF TypeOK, ClientOK
<1>4. ObjectsOK' /\ EntriesOK' /\ CopiesOK'
  BY <1>1, <1>2 DEF ObjectsOK, Forever, EntriesOK, IsTrue, IsWellFormed,
     EntryState, CopiesOK
<1>5. LogOK'
  <2>1. IsFiniteSet(log_entry')
    BY <1>1, <1>2, FS_Subset DEF LogOK
  <2>2. ASSUME NEW id \in (cursor + 1)..last_log_entry_id
        PROVE  \E e \in log_entry' : e.entry_id = id
    <3>1. PICK e \in log_entry : e.entry_id = id
      BY <1>1 DEF LogOK, AreNumbered
    <3>2. e.entry_id > cursor
      BY <1>3, <3>1
    <3>. QED BY <1>2, <3>1, <3>2
  <2>. QED BY <1>1, <1>2, <2>1, <2>2 DEF LogOK, AreNumbered
<1>6. ProcessorOK'
  BY <1>1, <1>2 DEF ProcessorOK, AreNumbered, IsFor, AsLogEntry, IsListUpdate,
     ChangesTransfersList, Idle
<1>7. ClientOK'
  BY <1>1, <1>2 DEF ClientOK
<1>8. InLogAhead' = InLogAhead
  <2>1. page.entries' = page.entries /\ page.is_read' = page.is_read
    BY <1>2
  <2>2. CASE page.is_read
    <3>1. {e \in log_entry' : e.entry_id > page.next} =
              {e \in log_entry : e.entry_id > page.next}
      <4>1. \A e \in log_entry : e.entry_id > page.next => e.entry_id > cursor
        BY <1>3, <2>2
      <4>. QED BY <1>2, <4>1
    <3>. QED BY <1>2, <2>2, <3>1 DEF InLogAhead
  <2>3. CASE ~page.is_read
    <3>1. {e \in log_entry' : e.entry_id > cursor} =
              {e \in log_entry : e.entry_id > cursor}
      BY <1>2
    <3>. QED BY <1>2, <2>3, <3>1 DEF InLogAhead
  <2>. QED BY <2>2, <2>3
<1>9. NothingMissed' /\ ListsAreComplete'
  <2>1. Ahead' = Ahead
    BY <1>2, <1>8 DEF Ahead
  <2>. QED BY <1>1, <1>2, <1>8, <2>1
         DEF NothingMissed, IsAnnounced, IsNews, EntryState, BothAbsent,
             ListsAreComplete, Members, ChangesTransfersList
<1>. QED BY <1>4, <1>5, <1>6, <1>7, <1>9 DEF LogInv

-----------------------------------------------------------------------------
(* The steps of the client.                                                *)

LEMMA LaterInterval ==
    ASSUME NEW a \in Nat, NEW b \in Nat, NEW c \in Nat, a <= b
    PROVE  ((b + 1)..c) \subseteq ((a + 1)..c)
OBVIOUS

\* The client changes nothing on the server, and its cursor goes forward.
LEMMA ClientStepKeeps ==
    ASSUME LogInv, TypeOK', CopiesOK', ClientOK', NothingMissed',
           ListsAreComplete', cursor <= cursor',
           UNCHANGED <<object, pending_log_entry, log_entry, last_log_entry_id,
                       processor>>
    PROVE  LogInv'
<1>1. ObjectsOK' /\ EntriesOK' /\ ProcessorOK'
  BY DEF LogInv, ObjectsOK, Forever, EntriesOK, IsTrue, IsWellFormed, EntryState,
     ProcessorOK, AreNumbered, IsFor, AsLogEntry, IsListUpdate,
     ChangesTransfersList, Idle
<1>2. LogOK'
  <2>1. /\ cursor \in Nat /\ cursor' \in Nat /\ last_log_entry_id \in Nat
        /\ cursor <= cursor'
    BY DEF LogInv, TypeOK
  <2>2. ((cursor' + 1)..last_log_entry_id) \subseteq
            ((cursor + 1)..last_log_entry_id)
    BY <2>1, LaterInterval
  <2>3. AreNumbered(log_entry, cursor, last_log_entry_id)
    BY DEF LogInv, LogOK
  <2>4. AreNumbered(log_entry, cursor', last_log_entry_id)
    BY <2>2, <2>3 DEF AreNumbered
  <2>. QED BY <2>4 DEF LogInv, LogOK, AreNumbered
<1>. QED BY <1>1, <1>2 DEF LogInv

\* Steps that only fetch entries, or forget them before they are processed.
LEMMA FollowingKeeps ==
    ASSUME LogInv, TypeOK', ClientOK', cursor <= cursor',
           UNCHANGED <<object, pending_log_entry, log_entry, last_log_entry_id,
                       processor, unread, copy, members>>,
           InLogAhead \subseteq InLogAhead'
    PROVE  LogInv'
<1>1. TypeOK /\ CopiesOK /\ NothingMissed /\ ListsAreComplete
  BY DEF LogInv
<1>2. CopiesOK'
  BY <1>1 DEF CopiesOK
<1>3. Retold(InLogAhead, InLogAhead')
  BY SubsetIsRetold
<1>4. Retold(Ahead, Ahead')
  <2>1. Ahead \subseteq Ahead'
    BY DEF Ahead
  <2>. QED BY <2>1, SubsetIsRetold
<1>5. NothingMissed'
  BY <1>1, <1>4, ChangesAreAnnounced
<1>6. \A l \in Lists : Members(l)' = Members(l)
  BY DEF Members
<1>7. (\E e \in pending_log_entry : ChangesTransfersList(e))
          => ListIsTold("TransfersList")
  BY DEF ListIsTold
<1>8. ListsAreComplete'
  BY <1>1, <1>3, <1>6, <1>7, ListChangesAreTold
<1>. QED BY <1>2, <1>5, <1>8, ClientStepKeeps

LEMMA RequestKeeps ==
    ASSUME LogInv, TypeOK', RequestLogEntries
    PROVE  LogInv'
<1>1. UNCHANGED <<object, pending_log_entry, log_entry, last_log_entry_id,
                  processor, unread, copy, members, cursor, page>>
  BY DEF RequestLogEntries, server
<1>2. request'.last = last_log_entry_id /\ unread = {} /\ ~page.is_read
  BY DEF RequestLogEntries
<1>3. cursor \in Nat /\ last_log_entry_id \in Nat
  BY DEF LogInv, TypeOK
<1>4. ClientOK'
  BY <1>1, <1>2, <1>3 DEF LogInv, ClientOK
<1>5. InLogAhead' = InLogAhead
  BY <1>1 DEF InLogAhead
<1>. QED BY <1>1, <1>3, <1>4, <1>5, FollowingKeeps

LEMMA get_log_entriesKeeps ==
    ASSUME LogInv, TypeOK', get_log_entries
    PROVE  LogInv'
<1>1. UNCHANGED <<object, pending_log_entry, log_entry, last_log_entry_id,
                  processor, unread, copy, members, cursor>>
  BY DEF get_log_entries, server
<1>2. PICK entries \in SUBSET {e \in log_entry : e.entry_id > cursor},
           next \in cursor .. last_log_entry_id :
          /\ page' = [is_read |-> TRUE, entries |-> entries, next |-> next]
          /\ \A e \in log_entry :
                 e.entry_id > cursor => e \in entries \/ e.entry_id > next
  BY NextPage DEF LogInv
<1>3. request' = NoRequest /\ request.is_read
  BY DEF get_log_entries
<1>4. cursor \in Nat /\ last_log_entry_id \in Nat
  BY DEF LogInv, TypeOK
<1>5. unread = {} /\ ~page.is_read
  BY <1>3 DEF LogInv, ClientOK
<1>6. ClientOK'
  BY <1>1, <1>2, <1>3, <1>4, <1>5 DEF LogInv, ClientOK, NoRequest
<1>7. InLogAhead \subseteq InLogAhead'
  BY <1>1, <1>2, <1>5 DEF InLogAhead
<1>. QED BY <1>1, <1>4, <1>6, <1>7, FollowingKeeps

LEMMA LosePageKeeps ==
    ASSUME LogInv, TypeOK', LosePage
    PROVE  LogInv'
<1>1. UNCHANGED <<object, pending_log_entry, log_entry, last_log_entry_id,
                  processor, unread, copy, members, cursor>>
  BY DEF LosePage
<1>2. request' = NoRequest /\ page' = NoPage
  BY DEF LosePage
<1>3. cursor \in Nat /\ \A e \in log_entry : e.entry_id \in Nat
  BY EntryTypes DEF LogInv, TypeOK
<1>4. ClientOK'
  BY <1>1, <1>2 DEF LogInv, ClientOK, NoRequest, NoPage
<1>5. InLogAhead \subseteq InLogAhead'
  <2>1. InLogAhead' = {e \in log_entry : e.entry_id > cursor}
    BY <1>1, <1>2 DEF InLogAhead, NoPage
  <2>2. page.is_read => page.next \in Nat /\ cursor <= page.next
    BY <1>3 DEF LogInv, ClientOK, TypeOK
  <2>3. ASSUME page.is_read, NEW e \in log_entry, e.entry_id > page.next
        PROVE  e.entry_id > cursor
    BY <1>3, <2>2, <2>3
  <2>4. page.entries \subseteq {e \in log_entry : e.entry_id > cursor}
    BY DEF LogInv, ClientOK
  <2>. QED BY <2>1, <2>3, <2>4 DEF InLogAhead
<1>. QED BY <1>1, <1>3, <1>4, <1>5, FollowingKeeps

LEMMA FinishPageKeeps ==
    ASSUME LogInv, TypeOK', FinishPage
    PROVE  LogInv'
<1>1. /\ UNCHANGED <<object, pending_log_entry, log_entry, last_log_entry_id,
                     processor, unread, copy, members, request>>
      /\ page.is_read /\ page.entries = {} /\ cursor' = page.next
      /\ page' = NoPage
  BY DEF FinishPage, server
<1>2. /\ cursor \in Nat /\ page.next \in Nat /\ last_log_entry_id \in Nat
      /\ cursor <= page.next /\ page.next <= last_log_entry_id
      /\ unread = {}
  BY <1>1 DEF LogInv, TypeOK, ClientOK
<1>3. ~request.is_read
  BY <1>1 DEF LogInv, ClientOK
<1>4. ClientOK'
  BY <1>1, <1>2, <1>3 DEF LogInv, ClientOK, NoPage
<1>5. InLogAhead \subseteq InLogAhead'
  BY <1>1 DEF InLogAhead, NoPage
<1>. QED BY <1>1, <1>2, <1>4, <1>5, FollowingKeeps


\* Nothing has been read yet when the client takes its cursor.
LEMMA OpenWalletKeeps ==
    ASSUME LogInv, TypeOK', OpenWallet
    PROVE  LogInv'
<1>1. /\ UNCHANGED <<object, pending_log_entry, log_entry, last_log_entry_id,
                     processor, copy, members, request, page>>
      /\ "Wallet" \in unread /\ cursor' = last_log_entry_id /\ unread' = Objects
  BY DEF OpenWallet, server
<1>2. /\ Objects \subseteq unread /\ ~request.is_read /\ ~page.is_read
      /\ page.entries = {}
  BY <1>1 DEF LogInv, ClientOK
<1>3. /\ cursor \in Nat /\ last_log_entry_id \in Nat
      /\ cursor <= last_log_entry_id
  BY DEF LogInv, TypeOK, ClientOK
<1>4. CopiesOK'
  BY <1>1, <1>2 DEF LogInv, CopiesOK
<1>5. ClientOK'
  BY <1>1, <1>2, <1>3 DEF ClientOK
<1>6. NothingMissed' /\ ListsAreComplete'
  BY <1>1 DEF NothingMissed, ListsAreComplete, Objects
<1>. QED BY <1>1, <1>3, <1>4, <1>5, <1>6, ClientStepKeeps

\* An object that is read is what it is now; the rest is as it was.
LEMMA ReadKeepsCopies ==
    ASSUME LogInv, TypeOK', NEW o \in Objects, Read(o), object' = object,
           unread' = unread \/ unread' = unread \ {o}, o \notin unread'
    PROVE  CopiesOK'
<1>1. /\ copy'[o] = IF object[o].exists THEN object[o] ELSE copy[o]
      /\ \A p \in Objects \ {o} : copy'[p] = copy[p]
  BY ReadEffect DEF LogInv
<1>2. object[o].version \in Nat
  BY DEF LogInv, TypeOK, State
<1>. SUFFICES ASSUME NEW p \in Objects
              PROVE  /\ copy'[p].version <= object[p].version
                     /\ copy'[p].version = object[p].version =>
                            copy'[p] = object[p]
                     /\ p \in unread' => copy'[p] = Unknown
  BY DEF CopiesOK
<1>3. CASE p = o /\ object[o].exists
  BY <1>1, <1>2, <1>3
<1>4. CASE ~(p = o /\ object[o].exists)
  <2>1. copy'[p] = copy[p]
    BY <1>1, <1>4
  <2>2. /\ copy[p].version <= object[p].version
        /\ copy[p].version = object[p].version => copy[p] = object[p]
        /\ p \in unread => copy[p] = Unknown
    BY DEF LogInv, CopiesOK
  <2>. QED BY <2>1, <2>2
<1>. QED BY <1>3, <1>4

LEMMA ReadObjectKeeps ==
    ASSUME LogInv, TypeOK', NEW o \in Objects, ReadObject(o)
    PROVE  LogInv'
<1>1. /\ UNCHANGED <<object, pending_log_entry, log_entry, last_log_entry_id,
                     processor, cursor, request, page>>
      /\ "Wallet" \notin unread /\ o \in unread /\ unread' = unread \ {o}
      /\ Read(o)
  BY DEF ReadObject, server
<1>2. /\ TypeOK /\ ObjectsOK /\ CopiesOK /\ ClientOK /\ NothingMissed
      /\ ListsAreComplete
  BY DEF LogInv
<1>3. /\ copy'[o] = IF object[o].exists THEN object[o] ELSE copy[o]
      /\ \A p \in Objects \ {o} : copy'[p] = copy[p]
      /\ \A l \in Lists :
             members'[l] = IF l = o THEN Members(l) ELSE members[l]
  BY <1>1, <1>2, ReadEffect
<1>4. copy[o] = Unknown /\ Unknown.exists = FALSE
  BY <1>1, <1>2 DEF CopiesOK, Unknown
<1>5. CopiesOK'
  BY <1>1, ReadKeepsCopies
<1>6. ClientOK'
  BY <1>1, <1>2 DEF ClientOK
<1>7. InLogAhead' = InLogAhead /\ Ahead' = Ahead
  BY <1>1 DEF InLogAhead, Ahead
<1>8. NothingMissed'
  <2>. SUFFICES ASSUME NEW p \in Objects, p \notin unread'
                PROVE  copy'[p] = object[p] \/ BothAbsent(p)' \/ IsAnnounced(p)'
    BY <1>1 DEF NothingMissed
  <2>1. CASE p = o
    BY <1>1, <1>3, <1>4, <2>1 DEF BothAbsent
  <2>2. CASE p # o
    <3>1. copy'[p] = copy[p] /\ object'[p] = object[p] /\ p \notin unread
      BY <1>1, <1>3, <2>2
    <3>2. BothAbsent(p) => BothAbsent(p)'
      BY <3>1 DEF BothAbsent
    <3>3. IsAnnounced(p) => IsAnnounced(p)'
      BY <1>7, <3>1 DEF IsAnnounced, IsNews, EntryState
    <3>. QED BY <1>2, <3>1, <3>2, <3>3 DEF NothingMissed
  <2>. QED BY <2>1, <2>2
<1>9. ListsAreComplete'
  <2>. SUFFICES ASSUME NEW l \in Lists, l \notin unread', l # o
                PROVE  \/ members'[l] = Members(l)
                       \/ \E e \in InLogAhead' : e.object = l /\ IsNews(e)'
                       \/ /\ l = "TransfersList"
                          /\ \E e \in pending_log_entry :
                                 ChangesTransfersList(e)
    BY <1>1, <1>3 DEF ListsAreComplete, Members, ChangesTransfersList
  <2>1. /\ copy'[l] = copy[l] /\ members'[l] = members[l]
        /\ l \in Lists \ unread
    BY <1>1, <1>3 DEF Objects
  <2>2. \A e \in InLogAhead : e.object = l /\ IsNews(e) => IsNews(e)'
    BY <2>1 DEF IsNews, EntryState
  <2>. QED BY <1>2, <1>7, <2>1, <2>2 DEF ListsAreComplete
<1>10. cursor <= cursor'
  BY <1>1, <1>2 DEF TypeOK
<1>. QED BY <1>1, <1>5, <1>6, <1>8, <1>9, <1>10, ClientStepKeeps

\* What the processing of an entry has in common: the entry leaves the page.
Processes(e) ==
    /\ page.is_read /\ e \in page.entries
    /\ page' = [page EXCEPT !.entries = @ \ {e}]
    /\ UNCHANGED <<object, pending_log_entry, log_entry, last_log_entry_id,
                   processor, unread, cursor, request>>

LEMMA ProcessesEffect ==
    ASSUME LogInv, TypeOK', NEW e, Processes(e)
    PROVE  /\ ClientOK'
           /\ \A f \in InLogAhead : f = e \/ f \in InLogAhead'
           /\ \A f \in Ahead : f = e \/ f \in Ahead'
           /\ e \in LogEntry /\ IsTrue(e) /\ IsWellFormed(e)
           /\ unread = {} /\ cursor <= cursor'
<1>1. /\ page'.is_read = page.is_read /\ page'.next = page.next
      /\ page'.entries = page.entries \ {e}
  BY DEF LogInv, TypeOK, Processes
<1>2. ClientOK'
  BY <1>1 DEF LogInv, ClientOK, Processes
<1>3. /\ \A f \in InLogAhead : f = e \/ f \in InLogAhead'
      /\ \A f \in Ahead : f = e \/ f \in Ahead'
  BY <1>1 DEF InLogAhead, Ahead, Processes
<1>4. e \in log_entry
  BY DEF LogInv, ClientOK, Processes
<1>5. e \in LogEntry /\ IsTrue(e) /\ IsWellFormed(e)
  BY <1>4 DEF LogInv, TypeOK, EntriesOK
<1>6. unread = {} /\ cursor <= cursor'
  BY DEF LogInv, ClientOK, TypeOK, Processes
<1>. QED BY <1>2, <1>3, <1>5, <1>6

\* The copies of the other objects do not depend on the entry.
LEMMA OthersAreNotMissed ==
    ASSUME LogInv, TypeOK', NEW e, Processes(e),
           NEW p \in Objects, copy'[p] = copy[p],
           e.object # p \/ ~IsNews(e)
    PROVE  copy'[p] = object'[p] \/ BothAbsent(p)' \/ IsAnnounced(p)'
<1>1. p \notin unread /\ object'[p] = object[p]
  BY ProcessesEffect DEF Processes
<1>2. copy[p] = object[p] \/ BothAbsent(p) \/ IsAnnounced(p)
  BY <1>1 DEF LogInv, NothingMissed
<1>3. BothAbsent(p) => BothAbsent(p)'
  BY <1>1 DEF BothAbsent
<1>4. ASSUME IsAnnounced(p) PROVE IsAnnounced(p)'
  <2>1. PICK f \in Ahead : /\ f.object = p /\ IsNews(f)
                           /\ EntryState(f).version >= object[p].version
    BY <1>4 DEF IsAnnounced
  <2>2. f # e
    BY <2>1
  <2>3. f \in Ahead'
    BY <2>1, <2>2, ProcessesEffect
  <2>4. IsNews(f)'
    BY <2>1 DEF IsNews, EntryState
  <2>. QED BY <1>1, <2>1, <2>3, <2>4 DEF IsAnnounced, EntryState
<1>. QED BY <1>1, <1>2, <1>3, <1>4

LEMMA OtherListsAreComplete ==
    ASSUME LogInv, TypeOK', NEW e, Processes(e),
           NEW l \in Lists, copy'[l] = copy[l], members'[l] = members[l],
           e.object # l \/ ~IsNews(e)
    PROVE  \/ members'[l] = Members(l)'
           \/ \E f \in InLogAhead' : f.object = l /\ IsNews(f)'
           \/ /\ l = "TransfersList"
              /\ \E f \in pending_log_entry' : ChangesTransfersList(f)
<1>1. l \notin unread /\ object' = object /\ pending_log_entry' = pending_log_entry
  BY ProcessesEffect DEF Processes
<1>2. \/ members[l] = Members(l)
      \/ \E f \in InLogAhead : f.object = l /\ IsNews(f)
      \/ /\ l = "TransfersList"
         /\ \E f \in pending_log_entry : ChangesTransfersList(f)
  BY <1>1 DEF LogInv, ListsAreComplete
<1>3. Members(l)' = Members(l)
  BY <1>1 DEF Members
<1>4. ASSUME NEW f \in InLogAhead, f.object = l, IsNews(f)
      PROVE  f \in InLogAhead' /\ IsNews(f)'
  <2>1. f # e
    BY <1>4
  <2>. QED BY <1>4, <2>1, ProcessesEffect DEF IsNews, EntryState
<1>. QED BY <1>1, <1>2, <1>3, <1>4

LEMMA IgnoreLogEntryKeeps ==
    ASSUME LogInv, TypeOK', NEW e \in page.entries, IgnoreLogEntry(e)
    PROVE  LogInv'
<1>1. Processes(e) /\ ~IsNews(e) /\ UNCHANGED <<copy, members, unread>>
  BY DEF IgnoreLogEntry, IsAt, SkipEntry, Processes, server
<1>2. CopiesOK'
  BY <1>1 DEF LogInv, CopiesOK, Processes
<1>3. NothingMissed'
  BY <1>1, OthersAreNotMissed DEF NothingMissed
<1>4. ListsAreComplete'
  <2>1. \A l \in Lists :
            \/ members'[l] = Members(l)'
            \/ \E f \in InLogAhead' : f.object = l /\ IsNews(f)'
            \/ /\ l = "TransfersList"
               /\ \E f \in pending_log_entry' : ChangesTransfersList(f)
    BY <1>1, OtherListsAreComplete
  <2>. QED BY <2>1 DEF ListsAreComplete, ChangesTransfersList
<1>. QED BY <1>1, <1>2, <1>3, <1>4, ProcessesEffect, ClientStepKeeps DEF Processes

LEMMA ApplyLogEntryKeeps ==
    ASSUME LogInv, TypeOK', NEW e \in page.entries, ApplyLogEntry(e)
    PROVE  LogInv'
<1>. DEFINE o == e.object
            state == EntryState(e)
<1>1. /\ Processes(e) /\ IsNews(e) /\ UNCHANGED <<members, unread>>
      /\ e.is_deleted \/ (HasData(e) /\ copy[o].exists)
      /\ copy' = [copy EXCEPT ![o] = state]
  BY DEF ApplyLogEntry, IsAt, SkipEntry, Processes, server
<1>2. /\ e \in LogEntry /\ IsTrue(e) /\ IsWellFormed(e) /\ ClientOK'
      /\ unread = {} /\ cursor <= cursor'
      /\ \A f \in Ahead : f = e \/ f \in Ahead'
  BY <1>1, ProcessesEffect
<1>3. o \in Objects /\ state \in State /\ state.version \in Nat
  BY <1>2, EntryTypes, EntryStateType
<1>4. copy'[o] = state /\ \A p \in Objects \ {o} : copy'[p] = copy[p]
  BY <1>1, <1>3 DEF LogInv, TypeOK
<1>5. /\ state.version <= object[o].version
      /\ state.version = object[o].version => state = object[o]
      /\ state.version > copy[o].version
      /\ object[o].version \in Nat /\ copy[o].version \in Nat
      /\ object' = object /\ unread' = {}
  BY <1>1, <1>2, <1>3 DEF IsTrue, IsNews, LogInv, TypeOK, State, Processes
<1>6. o \notin Lists
  BY <1>1, <1>2, ObjectNames DEF IsWellFormed, HasData, Lists
<1>7. CopiesOK'
  <2>. SUFFICES ASSUME NEW p \in Objects
                PROVE  /\ copy'[p].version <= object[p].version
                       /\ copy'[p].version = object[p].version =>
                              copy'[p] = object[p]
    BY <1>5 DEF CopiesOK
  <2>1. CASE p = o
    BY <1>4, <1>5, <2>1
  <2>2. CASE p # o
    BY <1>4, <2>2 DEF LogInv, CopiesOK
  <2>. QED BY <2>1, <2>2
<1>8. copy'[o] = object'[o] \/ BothAbsent(o)' \/ IsAnnounced(o)'
  <2>1. CASE state.version = object[o].version
    BY <1>4, <1>5, <2>1
  <2>2. CASE state.version # object[o].version
    <3>1. state.version < object[o].version
      BY <1>3, <1>5, <2>2
    <3>2. copy[o] = object[o] \/ BothAbsent(o) \/ IsAnnounced(o)
      BY <1>2, <1>3 DEF LogInv, NothingMissed
    <3>3. copy[o] # object[o]
      BY <1>3, <1>5, <3>1
    <3>4. ASSUME BothAbsent(o) PROVE BothAbsent(o)'
      <4>1. ~copy[o].exists /\ ~object[o].exists
        BY <3>4 DEF BothAbsent
      <4>2. e.is_deleted
        BY <1>1, <4>1
      <4>3. ~state.exists
        <5>1. CASE e.update_id = NoUpdateId
          BY <5>1 DEF EntryState
        <5>2. CASE e.update_id # NoUpdateId
          <6>1. state.exists = ~e.is_deleted
            BY <5>2 DEF EntryState
          <6>. QED BY <4>2, <6>1
        <5>. QED BY <5>1, <5>2
      <4>. QED BY <1>4, <1>5, <4>1, <4>3 DEF BothAbsent
    <3>5. ASSUME IsAnnounced(o) PROVE IsAnnounced(o)'
      <4>1. PICK f \in Ahead : /\ f.object = o
                               /\ EntryState(f).version >= object[o].version
        BY <3>5 DEF IsAnnounced
      <4>2. EntryState(f).version \in Nat
        BY EntryStateType, AheadTypes DEF LogInv
      <4>3. EntryState(f).version > state.version /\ f # e
        BY <1>3, <1>5, <3>1, <4>1, <4>2
      <4>4. f \in Ahead'
        BY <1>2, <4>3
      <4>5. IsNews(f)'
        BY <1>4, <4>1, <4>3 DEF IsNews, EntryState
      <4>. QED BY <1>5, <4>1, <4>4, <4>5 DEF IsAnnounced, EntryState
    <3>. QED BY <3>2, <3>3, <3>4, <3>5
  <2>. QED BY <2>1, <2>2
<1>9. NothingMissed'
  <2>1. ASSUME NEW p \in Objects \ {o}
        PROVE  copy'[p] = object'[p] \/ BothAbsent(p)' \/ IsAnnounced(p)'
    BY <1>1, <1>4, OthersAreNotMissed
  <2>. QED BY <1>8, <2>1 DEF NothingMissed
<1>10. ListsAreComplete'
  <2>1. ASSUME NEW l \in Lists
        PROVE  \/ members'[l] = Members(l)'
               \/ \E f \in InLogAhead' : f.object = l /\ IsNews(f)'
               \/ /\ l = "TransfersList"
                  /\ \E f \in pending_log_entry' : ChangesTransfersList(f)
    <3>1. copy'[l] = copy[l] /\ members'[l] = members[l] /\ e.object # l
      BY <1>1, <1>4, <1>6 DEF Objects
    <3>. QED BY <1>1, <3>1, OtherListsAreComplete
  <2>. QED BY <2>1 DEF ListsAreComplete, ChangesTransfersList
<1>. QED BY <1>1, <1>2, <1>7, <1>9, <1>10, ClientStepKeeps DEF Processes

LEMMA FetchObjectKeeps ==
    ASSUME LogInv, TypeOK', NEW e \in page.entries, FetchObject(e)
    PROVE  LogInv'
<1>. DEFINE o == e.object
<1>1. /\ Processes(e) /\ IsNews(e) /\ ~e.is_deleted /\ Read(o)
      /\ unread' = unread
  BY DEF FetchObject, IsAt, SkipEntry, Processes, server
<1>2. /\ e \in LogEntry /\ IsTrue(e) /\ IsWellFormed(e) /\ ClientOK'
      /\ unread = {} /\ cursor <= cursor'
      /\ \A f \in Ahead : f = e \/ f \in Ahead'
  BY <1>1, ProcessesEffect
<1>3. o \in Objects /\ EntryState(e).version \in Nat
  BY <1>2, EntryTypes, EntryStateType
<1>4. /\ copy'[o] = IF object[o].exists THEN object[o] ELSE copy[o]
      /\ \A p \in Objects \ {o} : copy'[p] = copy[p]
      /\ \A l \in Lists :
             members'[l] = IF l = o THEN Members(l) ELSE members[l]
  BY <1>1, <1>3, ReadEffect DEF LogInv
<1>5. object' = object
  BY <1>1 DEF Processes
<1>6. CopiesOK'
  BY <1>1, <1>2, <1>3, <1>5, ReadKeepsCopies
\* The entry is not about the deletion, so it was not what the copy waits for.
<1>7. copy'[o] = object'[o] \/ BothAbsent(o)' \/ IsAnnounced(o)'
  <2>1. CASE object[o].exists
    BY <1>4, <1>5, <2>1
  <2>2. CASE ~object[o].exists
    <3>1. copy'[o] = copy[o]
      BY <1>4, <2>2
    <3>2. EntryState(e).exists
      <4>1. e.update_id # NoUpdateId
        BY <1>1, <1>2 DEF IsWellFormed
      <4>2. EntryState(e).exists = ~e.is_deleted
        BY <4>1 DEF EntryState
      <4>. QED BY <1>1, <4>2
    <3>3. EntryState(e).version < object[o].version
      <4>1. EntryState(e) # object[o]
        BY <2>2, <3>2
      <4>2. /\ EntryState(e).version <= object[o].version
            /\ EntryState(e).version # object[o].version
        BY <1>2, <4>1 DEF IsTrue
      <4>3. object[o].version \in Nat
        BY <1>3 DEF LogInv, TypeOK, State
      <4>. QED BY <1>3, <4>2, <4>3
    <3>4. copy[o] = object[o] \/ BothAbsent(o) \/ IsAnnounced(o)
      BY <1>2, <1>3 DEF LogInv, NothingMissed
    <3>5. BothAbsent(o) => BothAbsent(o)'
      BY <1>5, <3>1 DEF BothAbsent
    <3>6. ASSUME IsAnnounced(o) PROVE IsAnnounced(o)'
      <4>1. PICK f \in Ahead : /\ f.object = o /\ IsNews(f)
                               /\ EntryState(f).version >= object[o].version
        BY <3>6 DEF IsAnnounced
      <4>2. EntryState(f).version \in Nat /\ object[o].version \in Nat
        BY <1>3, EntryStateType, AheadTypes DEF LogInv, TypeOK, State
      <4>3. f # e
        BY <1>3, <3>3, <4>1, <4>2
      <4>4. f \in Ahead'
        BY <1>2, <4>3
      <4>5. IsNews(f)'
        BY <3>1, <4>1 DEF IsNews, EntryState
      <4>. QED BY <1>5, <4>1, <4>4, <4>5 DEF IsAnnounced, EntryState
    <3>. QED BY <1>5, <3>1, <3>4, <3>5, <3>6
  <2>. QED BY <2>1, <2>2
<1>8. NothingMissed'
  <2>1. ASSUME NEW p \in Objects \ {o}
        PROVE  copy'[p] = object'[p] \/ BothAbsent(p)' \/ IsAnnounced(p)'
    BY <1>1, <1>4, OthersAreNotMissed
  <2>. QED BY <1>7, <2>1 DEF NothingMissed
<1>9. ListsAreComplete'
  <2>1. ASSUME NEW l \in Lists
        PROVE  \/ members'[l] = Members(l)'
               \/ \E f \in InLogAhead' : f.object = l /\ IsNews(f)'
               \/ /\ l = "TransfersList"
                  /\ \E f \in pending_log_entry' : ChangesTransfersList(f)
    <3>1. CASE l = o
      <4>1. members'[l] = Members(l)
        BY <1>4, <3>1
      <4>2. Members(l)' = Members(l)
        BY <1>5 DEF Members
      <4>. QED BY <4>1, <4>2
    <3>2. CASE l # o
      <4>1. copy'[l] = copy[l] /\ members'[l] = members[l]
        BY <1>4, <3>2 DEF Objects
      <4>. QED BY <1>1, <3>2, <4>1, OtherListsAreComplete
    <3>. QED BY <3>1, <3>2
  <2>. QED BY <2>1 DEF ListsAreComplete, ChangesTransfersList
<1>. QED BY <1>1, <1>2, <1>6, <1>8, <1>9, ClientStepKeeps DEF Processes

-----------------------------------------------------------------------------
(* The theorems.                                                           *)

LEMMA InitLogInv == Init => LogInv
<1>. SUFFICES ASSUME Init PROVE LogInv
  OBVIOUS
<1>1. TypeOK
  BY InitTypeOK
<1>2. ObjectsOK
  <2>1. \A l \in Lists : object[l].exists
    BY DEF Init, Objects
  <2>2. ASSUME NEW t \in Transfers PROVE ~object[t].exists
    <3>1. t \in Objects /\ t \notin Lists
      BY ObjectNames DEF Lists
    <3>2. object[t] = Unknown
      BY <3>1 DEF Init
    <3>. QED BY <3>2 DEF Unknown
  <2>. QED BY <2>1, <2>2 DEF ObjectsOK
<1>3. EntriesOK
  BY DEF Init, EntriesOK
<1>4. LogOK
  <2>1. (0 + 1)..0 = {}
    OBVIOUS
  <2>. QED BY <2>1, FS_EmptySet DEF Init, LogOK, AreNumbered
<1>5. ProcessorOK
  BY DEF Init, ProcessorOK, Idle
<1>6. CopiesOK
  <2>. SUFFICES ASSUME NEW o \in Objects
                PROVE  /\ copy[o].version <= object[o].version
                       /\ copy[o].version = object[o].version =>
                              copy[o] = object[o]
                       /\ copy[o] = Unknown
    BY DEF CopiesOK
  <2>1. copy[o] = Unknown
    BY DEF Init
  <2>2. CASE o \in Lists
    <3>1. object[o] = [exists |-> TRUE, version |-> 1]
      BY <2>2 DEF Init
    <3>. QED BY <2>1, <3>1 DEF Unknown
  <2>3. CASE o \notin Lists
    <3>1. object[o] = Unknown
      BY <2>3 DEF Init
    <3>. QED BY <2>1, <3>1 DEF Unknown
  <2>. QED BY <2>2, <2>3
<1>7. ClientOK
  BY DEF Init, ClientOK, NoRequest, NoPage
<1>8. NothingMissed /\ ListsAreComplete
  BY DEF Init, NothingMissed, ListsAreComplete, Objects
<1>. QED BY <1>1, <1>2, <1>3, <1>4, <1>5, <1>6, <1>7, <1>8 DEF LogInv

\* A step of the server, and what it does to objects and copies.
ServerStep ==
    \/ \E a \in Accounts : CreateAccount(a) \/ UpdateAccount(a) \/ DeleteAccount(a)
    \/ \E t \in Transfers :
           CreateTransfer(t) \/ FinalizeTransfer(t) \/ DeleteTransfer(t)
    \/ Processor
    \/ CrashProcessor
    \/ DeleteStaledLogEntries

LEMMA ServerStepKeeps ==
    ASSUME LogInv, ServerStep
    PROVE  /\ LogInv'
           /\ copy' = copy
           /\ \A o \in Objects : MovesForward(o)
<1>1. TypeOK'
  BY ServerKeepsTypes DEF LogInv, ServerStep
<1>2. CASE \E a \in Accounts : CreateAccount(a) \/ DeleteAccount(a)
  <2>1. PICK a \in Accounts, state \in State : LogsAccount(a, state)
    BY <1>2, AccountActions DEF LogInv
  <2>. QED BY <1>1, <2>1, LogsAccountKeeps DEF LogsAccount, client
<1>3. CASE \E a \in Accounts : UpdateAccount(a)
  <2>1. PICK a \in Accounts : UpdateAccount(a)
    BY <1>3
  <2>. QED BY <1>1, <2>1, UpdateAccountKeeps DEF UpdateAccount, client
<1>4. CASE \E t \in Transfers :
               CreateTransfer(t) \/ FinalizeTransfer(t) \/ DeleteTransfer(t)
  <2>1. PICK t \in Transfers :
            CreateTransfer(t) \/ FinalizeTransfer(t) \/ DeleteTransfer(t)
    BY <1>4
  <2>2. copy' = copy
    BY <2>1 DEF CreateTransfer, FinalizeTransfer, DeleteTransfer,
       ChangeTransfer, client
  <2>. QED BY <1>1, <2>1, <2>2, TransferActionsKeep
<1>5. CASE LockCreditor
  BY <1>1, <1>5, LockCreditorKeeps DEF LockCreditor, client, MovesForward
<1>6. CASE \E e \in processor.todo : AddPendingLogEntry(e)
  <2>1. PICK e \in processor.todo : AddPendingLogEntry(e)
    BY <1>6
  <2>2. copy' = copy /\ object' = object
    BY <2>1 DEF AddPendingLogEntry, client
  <2>. QED BY <1>1, <2>1, <2>2, AddPendingLogEntryKeeps DEF MovesForward
<1>7. CASE CommitLogEntries
  BY <1>1, <1>7, CommitLogEntriesKeeps DEF CommitLogEntries, client
<1>8. CASE CrashProcessor
  BY <1>1, <1>8, CrashProcessorKeeps DEF CrashProcessor, client, MovesForward
<1>9. CASE DeleteStaledLogEntries
  BY <1>1, <1>9, DeleteStaledLogEntriesKeeps
     DEF DeleteStaledLogEntries, client, MovesForward
<1>. QED BY <1>2, <1>3, <1>4, <1>5, <1>6, <1>7, <1>8, <1>9
       DEF ServerStep, Processor

LEMMA ClientKeeps ==
    ASSUME LogInv, Client \/ LosePage
    PROVE  LogInv'
<1>1. TypeOK'
  BY ClientKeepsTypes DEF LogInv
<1>2. CASE OpenWallet
  BY <1>1, <1>2, OpenWalletKeeps
<1>3. CASE \E o \in Objects : ReadObject(o)
  BY <1>1, <1>3, ReadObjectKeeps
<1>4. CASE RequestLogEntries
  BY <1>1, <1>4, RequestKeeps
<1>5. CASE get_log_entries
  BY <1>1, <1>5, get_log_entriesKeeps
<1>6. CASE \E e \in page.entries :
               IgnoreLogEntry(e) \/ ApplyLogEntry(e) \/ FetchObject(e)
  BY <1>1, <1>6, IgnoreLogEntryKeeps, ApplyLogEntryKeeps, FetchObjectKeeps
<1>7. CASE FinishPage
  BY <1>1, <1>7, FinishPageKeeps
<1>8. CASE LosePage
  BY <1>1, <1>8, LosePageKeeps
<1>. QED BY <1>2, <1>3, <1>4, <1>5, <1>6, <1>7, <1>8 DEF Client

LEMMA StutteringKeeps ==
    ASSUME LogInv, UNCHANGED vars
    PROVE  LogInv'
BY DEF vars, LogInv, TypeOK, ObjectsOK, EntriesOK, IsTrue, IsWellFormed, LogOK,
       AreNumbered, ProcessorOK, IsFor, AsLogEntry, IsListUpdate, Idle, CopiesOK,
       ClientOK, NothingMissed, IsAnnounced, Ahead, InLogAhead, IsNews,
       EntryState, BothAbsent, ListsAreComplete, Members, ChangesTransfersList,
       Forever

\* For any accounts, transfers, page size and bounds: every reachable state
\* of the server, the processor and the client satisfies the invariant.
THEOREM LogIsSound == Spec => []LogInv
<1>1. Init => LogInv
  BY InitLogInv
<1>2. LogInv /\ [Next]_vars => LogInv'
  <2>. SUFFICES ASSUME LogInv, [Next]_vars PROVE LogInv'
    OBVIOUS
  <2>1. CASE ServerStep
    BY <2>1, ServerStepKeeps
  <2>2. CASE Client \/ LosePage
    BY <2>2, ClientKeeps
  <2>3. CASE UNCHANGED vars
    BY <2>3, StutteringKeeps
  <2>. QED BY <2>1, <2>2, <2>3 DEF Next, ServerStep
<1>. QED BY <1>1, <1>2, PTL DEF Spec

\* A client that has read an object has its present state, or will be told.
THEOREM NothingIsMissed == Spec => []NothingMissed
<1>1. LogInv => NothingMissed
  BY DEF LogInv
<1>. QED BY <1>1, LogIsSound, PTL

\* A client that has read a list has all its members, or will be told.
THEOREM ListsStayComplete == Spec => []ListsAreComplete
<1>1. LogInv => ListsAreComplete
  BY DEF LogInv
<1>. QED BY <1>1, LogIsSound, PTL

\* The IDs in the log follow one another, and belong to one entry each.
THEOREM LogStaysConsecutive == Spec => []LogIsConsecutive
<1>1. LogInv => LogIsConsecutive
  BY DEF LogInv, LogOK, AreNumbered, LogIsConsecutive
<1>. QED BY <1>1, LogIsSound, PTL

-----------------------------------------------------------------------------
(* The log implements Replica.                                             *)

\* What is read of an object is its present state, or is not taken.
LEMMA ReadingMovesForward ==
    ASSUME TypeOK, CopiesOK, NEW o \in Objects, Read(o)
    PROVE  \A p \in Objects :
               copy'[p] = copy[p] \/ copy[p].version < copy'[p].version
<1>. SUFFICES ASSUME NEW p \in Objects
              PROVE  copy'[p] = copy[p] \/ copy[p].version < copy'[p].version
  OBVIOUS
<1>1. copy'[p] = IF p = o /\ object[o].exists THEN object[o] ELSE copy[p]
  BY DEF Read, TypeOK
<1>2. CASE copy'[p] = copy[p]
  BY <1>2
<1>3. CASE copy'[p] # copy[p]
  <2>1. p = o /\ copy'[p] = object[p]
    BY <1>1, <1>3
  <2>2. copy[p].version <= object[p].version
    BY DEF CopiesOK
  <2>3. copy[p].version # object[p].version
    BY <1>3, <2>1 DEF CopiesOK
  <2>4. copy[p].version \in Nat /\ object[p].version \in Nat
    BY DEF TypeOK, State
  <2>. QED BY <2>1, <2>2, <2>3, <2>4
<1>. QED BY <1>2, <1>3

\* Whatever the client does, its copies only move forward.
LEMMA ClientMovesForward ==
    ASSUME LogInv, Client \/ LosePage
    PROVE  /\ object' = object
           /\ \A p \in Objects :
                  copy'[p] = copy[p] \/ copy[p].version < copy'[p].version
<1>. DEFINE Forward == \A p \in Objects :
                  copy'[p] = copy[p] \/ copy[p].version < copy'[p].version
<1>1. TypeOK /\ CopiesOK
  BY DEF LogInv
<1>2. CASE \/ OpenWallet \/ RequestLogEntries \/ get_log_entries
           \/ FinishPage \/ LosePage
           \/ \E e \in page.entries : IgnoreLogEntry(e)
  BY <1>2 DEF OpenWallet, RequestLogEntries, get_log_entries, FinishPage,
              LosePage, IgnoreLogEntry, server
<1>3. CASE \E o \in Objects : ReadObject(o)
  BY <1>1, <1>3, ReadingMovesForward DEF ReadObject, server
<1>4. CASE \E e \in page.entries : ApplyLogEntry(e)
  <2>1. PICK e \in page.entries : ApplyLogEntry(e)
    BY <1>4
  <2>2. IsNews(e) /\ object' = object
        /\ copy' = [copy EXCEPT ![e.object] = EntryState(e)]
    BY <2>1 DEF ApplyLogEntry, server
  <2>3. ASSUME NEW p \in Objects
        PROVE  copy'[p] = copy[p] \/ copy[p].version < copy'[p].version
    <3>1. CASE p = e.object
      <4>1. copy'[p] = EntryState(e)
        BY <1>1, <2>2, <3>1 DEF TypeOK
      <4>2. EntryState(e).version > copy[p].version
        BY <2>2, <3>1 DEF IsNews
      <4>3. e \in LogEntry
        BY <1>1 DEF TypeOK
      <4>4. EntryState(e).version \in Nat /\ copy[p].version \in Nat
        BY <1>1, <4>3, EntryStateType DEF TypeOK, State
      <4>. QED BY <4>1, <4>2, <4>4
    <3>2. CASE p # e.object
      BY <1>1, <2>2, <3>2 DEF TypeOK
    <3>. QED BY <3>1, <3>2
  <2>. QED BY <2>2, <2>3
<1>5. CASE \E e \in page.entries : FetchObject(e)
  <2>1. PICK e \in page.entries : FetchObject(e)
    BY <1>5
  <2>2. e.object \in Objects
    BY <1>1 DEF TypeOK, LogEntry
  <2>. QED BY <1>1, <2>1, <2>2, ReadingMovesForward DEF FetchObject, server
<1>. QED BY <1>2, <1>3, <1>4, <1>5 DEF Client

\* Copies only move forward, never past their objects: the server and the
\* log together do, step by step, what Replica allows.
THEOREM LogImplementsReplica == Spec => CopiesMoveForward
<1>1. Init => Sync!Init
  <2>. SUFFICES ASSUME Init PROVE Sync!Init
    OBVIOUS
  <2>1. object \in [Objects -> State] /\ copy = [o \in Objects |-> Unknown]
    BY InitTypeOK DEF Init, TypeOK
  <2>. QED BY <2>1 DEF Sync!Init, Sync!State, Sync!Unknown, State, Unknown
<1>2. LogInv /\ LogInv' /\ [Next]_vars => [Sync!Next]_(Sync!vars)
  <2>. SUFFICES ASSUME LogInv, LogInv', [Next]_vars
                PROVE  [Sync!Next]_(Sync!vars)
    OBVIOUS
  <2>1. TypeOK /\ TypeOK' /\ CopiesOK'
    BY DEF LogInv
  <2>2. CASE ServerStep
    <3>1. copy' = copy /\ \A o \in Objects : MovesForward(o)
      BY <2>2, ServerStepKeeps
    <3>2. object' \in [Objects -> State]
      BY <2>1 DEF TypeOK
    <3>. QED BY <3>1, <3>2 DEF Sync!Next, Sync!Change, Sync!State, State,
                               MovesForward
  <2>3. CASE Client \/ LosePage
    <3>1. /\ object' = object
          /\ \A p \in Objects :
                 copy'[p] = copy[p] \/ copy[p].version < copy'[p].version
      BY <2>3, ClientMovesForward
    <3>2. /\ copy' \in [Objects -> State]
          /\ \A p \in Objects :
                 /\ copy'[p].version <= object[p].version
                 /\ copy'[p].version = object[p].version =>
                        copy'[p] = object[p]
      BY <2>1, <3>1 DEF TypeOK, CopiesOK
    <3>. QED BY <3>1, <3>2 DEF Sync!Next, Sync!CatchUp, Sync!State, State
  <2>4. CASE UNCHANGED vars
    BY <2>4 DEF vars, Sync!vars
  <2>. QED BY <2>2, <2>3, <2>4 DEF Next, ServerStep
<1>. QED BY <1>1, <1>2, LogIsSound, PTL
         DEF Spec, CopiesMoveForward, Sync!Safety

=============================================================================
