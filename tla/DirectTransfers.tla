-------------------------- MODULE DirectTransfers --------------------------
(***************************************************************************)
(* The direct transfers that a creditor initiates through the Web API.     *)
(*                                                                         *)
(* A transfer is carried out in two phases by the accounting authority     *)
(* that keeps the sender's account: a PrepareTransfer message is answered  *)
(* by PreparedTransfer (an amount is locked) or RejectedTransfer; a        *)
(* FinalizeTransfer message, which commits or dismisses the prepared       *)
(* transfer, is answered by FinalizedTransfer.  All messages are delivered *)
(* at least once, in any order.                                            *)
(*                                                                         *)
(* The three message handlers read the row of the transfer without a lock  *)
(* and write it when they commit; the ORM then updates by primary key only *)
(* the columns that differ from what has been read.  Between the read and  *)
(* the commit come the Web API (cancel_running_transfer locks the row, and *)
(* is one step) and other consumers.  Transactions run at READ COMMITTED.  *)
(***************************************************************************)
EXTENDS Naturals, FiniteSets

CONSTANTS
    Uuids,         \* the UUIDs of transfers; clients use each one once
    TransferIds,   \* the IDs that the authority gives to prepared transfers
    Consumers,     \* the threads that handle incoming messages
    Plausible      \* whether the authority's answers fit what it was asked

ASSUME TransferAssumptions ==
    /\ Plausible \subseteq BOOLEAN
    /\ "none" \notin TransferIds

VARIABLES
    \* the database
    running_transfer,   \* the table running_transfer
    log,                \* the log entries about transfers, ever added
    \* messages ever sent to the authority, from the outbox tables
    prepare_transfer,   \* PrepareTransfer, one for every transfer initiated
    finalize_transfer,  \* FinalizeTransfer
    \* the authority (external)
    rejected,           \* RejectedTransfer messages ever sent
    prepared,           \* prepared transfers; each one has been reported
    \* open transactions of consumers
    sessions

vars == <<running_transfer, log, prepare_transfer, finalize_transfer,
          rejected, prepared, sessions>>

-----------------------------------------------------------------------------
(* Types *)

None == "none"

ErrorCodes ==
    {None, "CANCELED_BY_THE_SENDER", "REJECTED", "FAILED", "UNEXPECTED_ERROR"}

RunningTransfer ==
    [exists : BOOLEAN, transfer_id : TransferIds \cup {None},
     is_finalized : BOOLEAN, error_code : ErrorCodes, latest_update_id : Nat]

NoRow ==
    [exists |-> FALSE, transfer_id |-> None, is_finalized |-> FALSE,
     error_code |-> None, latest_update_id |-> 0]

PreparedTransfer ==
    [status : {"free", "prepared", "committed", "failed", "dismissed"},
     uuid : Uuids \cup {None}, matches : BOOLEAN]

NotPrepared == [status |-> "free", uuid |-> None, matches |-> FALSE]

\* The incoming messages.  Of a RejectedTransfer it matters whether it makes
\* sense, of a PreparedTransfer whether it matches the transfer, of a
\* FinalizedTransfer what has become of the prepared transfer.
RejectedMessages ==
    [type : {"RejectedTransfer"}, uuid : Uuids, is_expected : BOOLEAN]
PreparedMessages ==
    [type : {"PreparedTransfer"}, uuid : Uuids, transfer_id : TransferIds,
     matches : BOOLEAN]
FinalizedMessages ==
    [type : {"FinalizedTransfer"}, uuid : Uuids, transfer_id : TransferIds,
     outcome : {"committed", "failed", "dismissed"}]
Messages == RejectedMessages \cup PreparedMessages \cup FinalizedMessages

FinalizeTransfer == [transfer_id : TransferIds, is_committed : BOOLEAN]

LogEntry ==
    [uuid : Uuids, object_update_id : Nat, is_deleted : BOOLEAN,
     is_finalized : BOOLEAN, error_code : ErrorCodes]

NoMessage == [type |-> None]
IdleSession == [active |-> FALSE, message |-> NoMessage, rt |-> NoRow]
Session ==
    [active : {TRUE}, message : Messages, rt : RunningTransfer]
      \cup {IdleSession}

-----------------------------------------------------------------------------
(* The accounting authority (external) *)

\* A PreparedTransfer is sent as long as the transfer exists, and a
\* FinalizedTransfer once it has been finalized.
Sent(m) ==
    \/ m \in rejected
    \/ \E id \in TransferIds :
          \/ /\ prepared[id].status # "free"
             /\ m = [type |-> "PreparedTransfer", uuid |-> prepared[id].uuid,
                     transfer_id |-> id, matches |-> prepared[id].matches]
          \/ /\ prepared[id].status \in {"committed", "failed", "dismissed"}
             /\ m = [type |-> "FinalizedTransfer", uuid |-> prepared[id].uuid,
                     transfer_id |-> id, outcome |-> prepared[id].status]

\* A PrepareTransfer may come again, and be prepared again under another ID.
ServerPrepares(u, id, matches) ==
    /\ u \in prepare_transfer
    /\ prepared[id].status = "free"
    /\ prepared' = [prepared EXCEPT ![id] = [status |-> "prepared",
                                             uuid |-> u,
                                             matches |-> matches]]
    /\ UNCHANGED <<running_transfer, log, prepare_transfer,
                   finalize_transfer, rejected, sessions>>

ServerRejects(u, is_expected) ==
    /\ u \in prepare_transfer
    /\ rejected' = rejected \cup {[type |-> "RejectedTransfer", uuid |-> u,
                                   is_expected |-> is_expected]}
    /\ UNCHANGED <<running_transfer, log, prepare_transfer,
                   finalize_transfer, prepared, sessions>>

\* The first FinalizeTransfer to arrive decides; a commit may still fail.
ServerFinalizes(f, status) ==
    /\ f \in finalize_transfer
    /\ prepared[f.transfer_id].status = "prepared"
    /\ status \in IF f.is_committed THEN {"committed", "failed"}
                                    ELSE {"dismissed"}
    /\ prepared' = [prepared EXCEPT ![f.transfer_id].status = status]
    /\ UNCHANGED <<running_transfer, log, prepare_transfer,
                   finalize_transfer, rejected, sessions>>

-----------------------------------------------------------------------------
(* The Web API *)

\* The row, its log entry and the PrepareTransfer message.
initiate_running_transfer(u) ==
    /\ u \notin prepare_transfer
    /\ running_transfer' = [running_transfer EXCEPT ![u] =
         [NoRow EXCEPT !.exists = TRUE, !.latest_update_id = 1]]
    /\ log' = log \cup {[uuid |-> u, object_update_id |-> 1,
                         is_deleted |-> FALSE, is_finalized |-> FALSE,
                         error_code |-> None]}
    /\ prepare_transfer' = prepare_transfer \cup {u}
    /\ UNCHANGED <<finalize_transfer, rejected, prepared, sessions>>

\* A column is written when its value differs from the one that was read.
WrittenErrorCode(current, rt, error_code) ==
    IF error_code = rt.error_code THEN current ELSE error_code

\* Slip: the log entry has the update ID that was read.
StaleLogEntry(u, rt, error_code) ==
    [uuid |-> u, object_update_id |-> rt.latest_update_id,
     is_deleted |-> FALSE, is_finalized |-> TRUE, error_code |-> error_code]

OutcomeLogEntry(u, rt, error_code) ==
    [uuid |-> u, object_update_id |-> rt.latest_update_id + 1,
     is_deleted |-> FALSE, is_finalized |-> TRUE, error_code |-> error_code]

\* _finalize_running_transfer on what was read as `rt`.
FinalizeRunningTransfer(u, rt, error_code) ==
    /\ running_transfer' = [running_transfer EXCEPT
         ![u].latest_update_id = rt.latest_update_id + 1,
         ![u].is_finalized = TRUE,
         ![u].error_code = WrittenErrorCode(@, rt, error_code)]
    /\ log' = log \cup {OutcomeLogEntry(u, rt, error_code)}

\* A settled transfer can not be cancelled; a finalized one stays as it is.
cancel_running_transfer(u) ==
    LET rt == running_transfer[u]
    IN  /\ rt.exists
        /\ rt.transfer_id = None
        /\ ~rt.is_finalized
        /\ FinalizeRunningTransfer(u, rt, "CANCELED_BY_THE_SENDER")
        /\ UNCHANGED <<prepare_transfer, finalize_transfer, rejected,
                       prepared, sessions>>

delete_running_transfer(u) ==
    /\ running_transfer[u].exists
    /\ running_transfer' = [running_transfer EXCEPT ![u] = NoRow]
    /\ log' = log \cup {[uuid |-> u, object_update_id |-> 0,
                         is_deleted |-> TRUE, is_finalized |-> FALSE,
                         error_code |-> None]}
    /\ UNCHANGED <<prepare_transfer, finalize_transfer, rejected, prepared,
                   sessions>>

-----------------------------------------------------------------------------
(* The message handlers.  Each one reads in one step, and commits in      *)
(* another one.                                                            *)

find_running_transfer(c, m) ==
    /\ ~sessions[c].active
    /\ Sent(m)
    /\ sessions' = [sessions EXCEPT ![c] =
         [active |-> TRUE, message |-> m, rt |-> running_transfer[m.uuid]]]
    /\ UNCHANGED <<running_transfer, log, prepare_transfer,
                   finalize_transfer, rejected, prepared>>

IsHandling(c, type) == sessions[c].active /\ sessions[c].message.type = type

EndSession(c) == sessions' = [sessions EXCEPT ![c] = IdleSession]

\* Finalize what was read, unless it was finalized already.  The UPDATE has
\* to find the row.
FinalizeIfNeeded(u, rt, error_code) ==
    IF rt.is_finalized
      THEN UNCHANGED <<running_transfer, log>>
      ELSE /\ running_transfer[u].exists
           /\ FinalizeRunningTransfer(u, rt, error_code)

process_rejected_direct_transfer_signal(c) ==
    LET m == sessions[c].message
        rt == sessions[c].rt
    IN  /\ IsHandling(c, "RejectedTransfer")
        /\ IF rt.exists
             THEN FinalizeIfNeeded(m.uuid, rt,
                    IF m.is_expected THEN "REJECTED" ELSE "UNEXPECTED_ERROR")
             ELSE UNCHANGED <<running_transfer, log>>
        /\ EndSession(c)
        /\ UNCHANGED <<prepare_transfer, finalize_transfer, rejected,
                       prepared>>

\* The first prepared transfer that comes is the one to commit, and all the
\* others are dismissed.
IsFirst(m, rt) == ~rt.is_finalized /\ rt.transfer_id = None

\* Slip: whatever has been prepared is committed.
IsChosenAlways(m, rt) == TRUE

\* Slip: when the message of the chosen transfer comes again, the transfer is
\* dismissed.
IsChosenOnce(m, rt) == IsFirst(m, rt)

IsChosen(m, rt) == IsFirst(m, rt) \/ rt.transfer_id = m.transfer_id

\* Slip: a prepared transfer that is not needed is forgotten.
OnlyCommits(m, is_committed) ==
    IF is_committed
      THEN {[transfer_id |-> m.transfer_id, is_committed |-> TRUE]}
      ELSE {}

FinalizeTransferSignal(m, is_committed) ==
    {[transfer_id |-> m.transfer_id, is_committed |-> is_committed]}

process_prepared_direct_transfer_signal(c) ==
    LET m == sessions[c].message
        rt == sessions[c].rt
        is_match == rt.exists /\ m.matches
    IN  /\ IsHandling(c, "PreparedTransfer")
        /\ IF is_match /\ IsFirst(m, rt)
             THEN /\ running_transfer[m.uuid].exists
                  /\ running_transfer' = [running_transfer EXCEPT
                       ![m.uuid].transfer_id = m.transfer_id]
             ELSE UNCHANGED running_transfer
        /\ finalize_transfer' = finalize_transfer \cup
             FinalizeTransferSignal(m, is_match /\ IsChosen(m, rt))
        /\ EndSession(c)
        /\ UNCHANGED <<log, prepare_transfer, rejected, prepared>>

\* Slip: a FinalizedTransfer means success.
ErrorCodeIgnored(m) == None

\* A dismissal has status OK and a zero amount, which is not what was asked.
FinalErrorCode(m) ==
    CASE m.outcome = "committed" -> None
      [] m.outcome = "failed" -> "FAILED"
      [] m.outcome = "dismissed" -> "UNEXPECTED_ERROR"

\* Slip: a settled transfer is taken for a finalized one.
IsUnsettled(m, rt) == rt.exists /\ rt.transfer_id = None

IsAbout(m, rt) == rt.exists /\ rt.transfer_id = m.transfer_id

process_finalized_direct_transfer_signal(c) ==
    LET m == sessions[c].message
        rt == sessions[c].rt
    IN  /\ IsHandling(c, "FinalizedTransfer")
        /\ IF IsAbout(m, rt)
             THEN FinalizeIfNeeded(m.uuid, rt, FinalErrorCode(m))
             ELSE UNCHANGED <<running_transfer, log>>
        /\ EndSession(c)
        /\ UNCHANGED <<prepare_transfer, finalize_transfer, rejected,
                       prepared>>

\* The row has been deleted since it was read, so the UPDATE fails and the
\* transaction is rolled back; the message is delivered again.  (The death
\* of a consumer has no other effect, and is not an action.)
RollBack(c) ==
    /\ sessions[c].active
    /\ sessions[c].rt.exists
    /\ ~running_transfer[sessions[c].message.uuid].exists
    /\ EndSession(c)
    /\ UNCHANGED <<running_transfer, log, prepare_transfer,
                   finalize_transfer, rejected, prepared>>

-----------------------------------------------------------------------------
(* The specification *)

Init ==
    /\ running_transfer = [u \in Uuids |-> NoRow]
    /\ log = {}
    /\ prepare_transfer = {}
    /\ finalize_transfer = {}
    /\ rejected = {}
    /\ prepared = [id \in TransferIds |-> NotPrepared]
    /\ sessions = [c \in Consumers |-> IdleSession]

Server ==
    \/ \E u \in Uuids, id \in TransferIds, matches \in Plausible :
          ServerPrepares(u, id, matches)
    \/ \E u \in Uuids, is_expected \in Plausible :
          ServerRejects(u, is_expected)
    \/ \E f \in finalize_transfer, status \in {"committed", "failed",
                                              "dismissed"} :
          ServerFinalizes(f, status)

WebApi ==
    \E u \in Uuids : \/ initiate_running_transfer(u)
                     \/ cancel_running_transfer(u)
                     \/ delete_running_transfer(u)

Commit(c) ==
    \/ process_rejected_direct_transfer_signal(c)
    \/ process_prepared_direct_transfer_signal(c)
    \/ process_finalized_direct_transfer_signal(c)
    \/ RollBack(c)

Next ==
    \/ Server
    \/ WebApi
    \/ \E c \in Consumers : \/ \E m \in Messages : find_running_transfer(c, m)
                            \/ Commit(c)

Spec == Init /\ [][Next]_vars

Delivery(messages) ==
    \E c \in Consumers, m \in messages : find_running_transfer(c, m)

\* The broker delivers every message until it is acknowledged (in no given
\* order, so the consumers may be busy with others in between), consumers
\* finish what they begin, and the authority answers.
Fairness ==
    /\ \A u \in Uuids :
          SF_vars(Delivery({m \in RejectedMessages : m.uuid = u}))
    /\ \A id \in TransferIds :
          /\ SF_vars(Delivery({m \in PreparedMessages : m.transfer_id = id}))
          /\ SF_vars(Delivery({m \in FinalizedMessages : m.transfer_id = id}))
    /\ \A c \in Consumers : WF_vars(Commit(c))
    /\ \A u \in Uuids :
          WF_vars(/\ \A m \in rejected : m.uuid # u
                  /\ \A id \in TransferIds : prepared[id].uuid # u
                  /\ \/ \E is_expected \in Plausible :
                           ServerRejects(u, is_expected)
                     \/ \E id \in TransferIds, matches \in Plausible :
                           ServerPrepares(u, id, matches))
    /\ \A f \in FinalizeTransfer :
          WF_vars(\E status \in {"committed", "failed", "dismissed"} :
                     ServerFinalizes(f, status))

FairSpec == Spec /\ Fairness

-----------------------------------------------------------------------------
(* Properties *)

\* Every variable keeps its type.
TypeOK ==
    /\ running_transfer \in [Uuids -> RunningTransfer]
    /\ log \subseteq LogEntry
    /\ prepare_transfer \subseteq Uuids
    /\ finalize_transfer \subseteq FinalizeTransfer
    /\ rejected \subseteq RejectedMessages
    /\ prepared \in [TransferIds -> PreparedTransfer]
    /\ sessions \in [Consumers -> Session]

IsPaid(u) ==
    \E id \in TransferIds : prepared[id].uuid = u
                             /\ prepared[id].status = "committed"

\* A transfer that is shown to be successful has been carried out by the
\* authority, whatever happened to its row between reads and writes.
SuccessIsPaid ==
    \A u \in Uuids :
        LET rt == running_transfer[u]
        IN  rt.exists /\ rt.is_finalized /\ rt.error_code = None => IsPaid(u)

\* A transfer is carried out at most once, although PrepareTransfer may be
\* answered several times and every answer may be delivered several times.
PaidOnce ==
    \A i, j \in TransferIds :
        /\ prepared[i].status = "committed"
        /\ prepared[j].status = "committed"
        /\ prepared[i].uuid = prepared[j].uuid
        => i = j

\* While the row of the transfer is there, the authority is never told both
\* to commit and to dismiss the same prepared transfer.
NoMixedInstructions ==
    \A f, g \in finalize_transfer :
        /\ f.transfer_id = g.transfer_id
        /\ running_transfer[prepared[f.transfer_id].uuid].exists
        => f = g

\* A finalized transfer's outcome, as shown by its row, has been logged.
OutcomeIsLogged ==
    \A u \in Uuids :
        LET rt == running_transfer[u]
        IN  rt.exists /\ rt.is_finalized =>
              \E e \in log : /\ e.uuid = u
                             /\ e.object_update_id = rt.latest_update_id
                             /\ e.error_code = rt.error_code

\* No amount stays locked: every prepared transfer is finalized.
LockedAmountsAreReleased ==
    \A id \in TransferIds :
        prepared[id].status = "prepared"
          ~> prepared[id].status \in {"committed", "failed", "dismissed"}

\* Every transfer gets its outcome, unless it is deleted before that.
TransfersAreFinalized ==
    \A u \in Uuids :
        running_transfer[u].exists
          ~> ~running_transfer[u].exists \/ running_transfer[u].is_finalized

\* "To ensure that a running transfer has not been successful, it must be
\* canceled before deletion" (routes/transfers.py).
CanceledIsNotPaid ==
    \A u \in Uuids :
        running_transfer[u].error_code = "CANCELED_BY_THE_SENDER"
          => ~IsPaid(u)

\* The update ID of a transfer "gets bigger after each change in the object"
\* (schemas/creditors.py).
UpdateIdGrows ==
    [][\A u \in Uuids :
          LET rt == running_transfer[u]
              new == running_transfer'[u]
          IN  /\ rt.exists /\ new.exists
              /\ <<rt.is_finalized, rt.error_code>>
                    # <<new.is_finalized, new.error_code>>
              => new.latest_update_id > rt.latest_update_id]_vars

-----------------------------------------------------------------------------
(* The inductive invariants.  TransferInv is behind SuccessIsPaid and       *)
(* OutcomeIsLogged, for any number of consumers.  ChoiceInv is behind       *)
(* PaidOnce and NoMixedInstructions, and takes one consumer only.           *)

\* Messages answer one another: nothing is rejected or prepared that was not
\* asked for, and only what is prepared is finalized.
AnswersFitRequests ==
    /\ \A u \in Uuids : running_transfer[u].exists => u \in prepare_transfer
    /\ \A m \in rejected : m.uuid \in prepare_transfer
    /\ \A id \in TransferIds :
          /\ prepared[id].status # "free" => prepared[id].uuid \in prepare_transfer
          /\ prepared[id].status \in {"committed", "failed"}
               => [transfer_id |-> id, is_committed |-> TRUE] \in finalize_transfer
    /\ \A f \in finalize_transfer : prepared[f.transfer_id].status # "free"

\* What a handler has read may be old, but has been true: a row is not
\* created twice.
ReadsWereTrue ==
    \A c \in Consumers : sessions[c].active =>
        /\ Sent(sessions[c].message)
        /\ running_transfer[sessions[c].message.uuid].exists
             => sessions[c].rt.exists

\* A row is changed twice at most by way of its update ID: it is created and
\* finalized.  It shows no error before that.
IsProperRow(rt) ==
    rt.exists =>
      /\ rt.latest_update_id = IF rt.is_finalized THEN 2 ELSE 1
      /\ ~rt.is_finalized => rt.error_code = None

RowsAreProper ==
    /\ \A u \in Uuids : IsProperRow(running_transfer[u])
    /\ \A c \in Consumers : sessions[c].active => IsProperRow(sessions[c].rt)

TransferInv ==
    /\ AnswersFitRequests
    /\ ReadsWereTrue
    /\ RowsAreProper
    /\ SuccessIsPaid
    /\ OutcomeIsLogged

\* A row from which the instruction `f` follows, now and later.
Justifies(rt, f) ==
    IF f.is_committed
      THEN /\ prepared[f.transfer_id].matches
           /\ rt.transfer_id = f.transfer_id
      ELSE \/ ~prepared[f.transfer_id].matches
           \/ /\ rt.transfer_id # f.transfer_id
              /\ rt.is_finalized \/ rt.transfer_id # None

\* The instructions sent so far follow from the row, as long as it is there,
\* and from what the handler has read.
InstructionsAreJustified ==
    \A f \in finalize_transfer :
        LET u == prepared[f.transfer_id].uuid
        IN  /\ running_transfer[u].exists => Justifies(running_transfer[u], f)
            /\ \A c \in Consumers :
                  /\ sessions[c].active
                  /\ sessions[c].message.uuid = u
                  /\ sessions[c].rt.exists
                  => Justifies(sessions[c].rt, f)

\* PROTOCOL_BROKER_THREADS is 1.
OneConsumer == \A c, d \in Consumers : c = d

\* Only the one consumer chooses prepared transfers.
ReadsAreCurrent ==
    \A c \in Consumers :
        LET rt == sessions[c].rt
            current == running_transfer[sessions[c].message.uuid]
        IN  sessions[c].active /\ current.exists =>
              /\ current.transfer_id = rt.transfer_id
              /\ rt.is_finalized => current.is_finalized

OneIsCommitted ==
    \A f, g \in finalize_transfer :
        /\ f.is_committed
        /\ g.is_committed
        /\ prepared[f.transfer_id].uuid = prepared[g.transfer_id].uuid
        => f.transfer_id = g.transfer_id

ChoiceInv ==
    /\ InstructionsAreJustified
    /\ ReadsAreCurrent
    /\ OneIsCommitted

=============================================================================
