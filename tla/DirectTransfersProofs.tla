----------------------- MODULE DirectTransfersProofs -----------------------
(***************************************************************************)
(* Theorems about DirectTransfers, for every number of transfers, prepared *)
(* transfers and consumers (for one consumer, where this is said).         *)
(***************************************************************************)
EXTENDS DirectTransfers, TLAPS

-----------------------------------------------------------------------------
(* Types *)

LEMMA IdleTypes ==
    /\ NoRow \in RunningTransfer
    /\ IdleSession \in Session /\ IdleSession.active = FALSE
    /\ NotPrepared \in PreparedTransfer
  BY DEF NoRow, RunningTransfer, ErrorCodes, IdleSession, Session,
         NotPrepared, PreparedTransfer

\* The UUID of a message, and what else comes with its type.
LEMMA MessageType ==
    ASSUME NEW m \in Messages
    PROVE  /\ m.uuid \in Uuids
           /\ m.type = "RejectedTransfer" =>
                m \in RejectedMessages /\ m.is_expected \in BOOLEAN
           /\ m.type = "PreparedTransfer" =>
                /\ m \in PreparedMessages
                /\ m.transfer_id \in TransferIds
                /\ m.matches \in BOOLEAN
           /\ m.type = "FinalizedTransfer" =>
                /\ m \in FinalizedMessages
                /\ m.transfer_id \in TransferIds
                /\ m.outcome \in {"committed", "failed", "dismissed"}
  BY DEF Messages, RejectedMessages, PreparedMessages, FinalizedMessages

LEMMA SessionType ==
    ASSUME TypeOK, NEW c \in Consumers, sessions[c].active
    PROVE  /\ sessions[c].message \in Messages
           /\ sessions[c].message.uuid \in Uuids
           /\ sessions[c].rt \in RunningTransfer
  <1>1. sessions[c] \in Session
    BY DEF TypeOK
  <1>2. sessions[c] # IdleSession
    BY IdleTypes
  <1>3. /\ sessions[c].message \in Messages
        /\ sessions[c].rt \in RunningTransfer
    BY <1>1, <1>2 DEF Session
  <1> QED
    BY <1>3, MessageType

LEMMA EndSessionType ==
    ASSUME TypeOK, NEW c \in Consumers, EndSession(c)
    PROVE  /\ sessions' \in [Consumers -> Session]
           /\ sessions'[c] = IdleSession
           /\ \A d \in Consumers : d # c => sessions'[d] = sessions[d]
  BY IdleTypes DEF TypeOK, EndSession

LEMMA FinalizeType ==
    ASSUME TypeOK, NEW u \in Uuids, NEW rt \in RunningTransfer,
           NEW error_code \in ErrorCodes,
           FinalizeRunningTransfer(u, rt, error_code)
    PROVE  /\ running_transfer' \in [Uuids -> RunningTransfer]
           /\ log' \subseteq LogEntry
  <1>1. rt.latest_update_id + 1 \in Nat
    BY DEF RunningTransfer
  <1> DEFINE row == running_transfer[u]
             code == WrittenErrorCode(row.error_code, rt, error_code)
             new == [row EXCEPT !.latest_update_id = rt.latest_update_id + 1,
                                !.is_finalized = TRUE,
                                !.error_code = code]
  <1>2. row \in RunningTransfer
    BY DEF TypeOK
  <1>3. code \in ErrorCodes
    BY <1>2 DEF WrittenErrorCode, RunningTransfer
  <1>4. new \in RunningTransfer
    BY <1>1, <1>2, <1>3 DEF RunningTransfer
  <1>5. running_transfer' = [running_transfer EXCEPT ![u] = new]
    BY DEF FinalizeRunningTransfer, WrittenErrorCode
  <1>6. OutcomeLogEntry(u, rt, error_code) \in LogEntry
    BY <1>1 DEF OutcomeLogEntry, LogEntry
  <1> HIDE DEF new
  <1> QED
    BY <1>4, <1>5, <1>6 DEF FinalizeRunningTransfer, TypeOK

LEMMA InitType == Init => TypeOK
  BY IdleTypes DEF Init, TypeOK

\* The authority.
LEMMA ServerType ==
    ASSUME TypeOK, Server
    PROVE  TypeOK'
  <1>1. ASSUME NEW u \in Uuids, NEW id \in TransferIds,
               NEW matches \in Plausible, ServerPrepares(u, id, matches)
        PROVE  TypeOK'
    <2>1. [status |-> "prepared", uuid |-> u, matches |-> matches]
            \in PreparedTransfer
      BY TransferAssumptions DEF PreparedTransfer
    <2> QED
      BY <1>1, <2>1 DEF ServerPrepares, TypeOK
  <1>2. ASSUME NEW u \in Uuids, NEW is_expected \in Plausible,
               ServerRejects(u, is_expected)
        PROVE  TypeOK'
    <2>1. [type |-> "RejectedTransfer", uuid |-> u,
           is_expected |-> is_expected] \in RejectedMessages
      BY TransferAssumptions DEF RejectedMessages
    <2> QED
      BY <1>2, <2>1 DEF ServerRejects, TypeOK
  <1>3. ASSUME NEW f \in finalize_transfer,
               NEW status \in {"committed", "failed", "dismissed"},
               ServerFinalizes(f, status)
        PROVE  TypeOK'
    <2>1. f.transfer_id \in TransferIds
      BY DEF TypeOK, FinalizeTransfer
    <2>2. [prepared[f.transfer_id] EXCEPT !.status = status]
            \in PreparedTransfer
      BY <2>1 DEF TypeOK, PreparedTransfer
    <2> QED
      BY <1>3, <2>1, <2>2 DEF ServerFinalizes, TypeOK
  <1> QED
    BY <1>1, <1>2, <1>3 DEF Server

\* The Web API.
LEMMA WebApiType ==
    ASSUME TypeOK, WebApi
    PROVE  TypeOK'
  <1>1. ASSUME NEW u \in Uuids, initiate_running_transfer(u)
        PROVE  TypeOK'
    <2>1. [NoRow EXCEPT !.exists = TRUE, !.latest_update_id = 1]
            \in RunningTransfer
      BY DEF NoRow, RunningTransfer, ErrorCodes
    <2>2. [uuid |-> u, object_update_id |-> 1, is_deleted |-> FALSE,
           is_finalized |-> FALSE, error_code |-> None] \in LogEntry
      BY DEF LogEntry, ErrorCodes
    <2> QED
      BY <1>1, <2>1, <2>2 DEF initiate_running_transfer, TypeOK
  <1>2. ASSUME NEW u \in Uuids, cancel_running_transfer(u)
        PROVE  TypeOK'
    <2>1. running_transfer[u] \in RunningTransfer
      BY DEF TypeOK
    <2>2. FinalizeRunningTransfer(u, running_transfer[u],
                                  "CANCELED_BY_THE_SENDER")
      BY <1>2 DEF cancel_running_transfer
    <2>3. "CANCELED_BY_THE_SENDER" \in ErrorCodes
      BY DEF ErrorCodes
    <2> QED
      BY <1>2, <2>1, <2>2, <2>3, FinalizeType
         DEF cancel_running_transfer, TypeOK
  <1>3. ASSUME NEW u \in Uuids, delete_running_transfer(u)
        PROVE  TypeOK'
    <2>1. [uuid |-> u, object_update_id |-> 0, is_deleted |-> TRUE,
           is_finalized |-> FALSE, error_code |-> None] \in LogEntry
      BY DEF LogEntry, ErrorCodes
    <2> QED
      BY <1>3, <2>1, IdleTypes DEF delete_running_transfer, TypeOK
  <1> QED
    BY <1>1, <1>2, <1>3 DEF WebApi

\* The handlers.
LEMMA FinalizeIfNeededType ==
    ASSUME TypeOK, NEW u \in Uuids, NEW rt \in RunningTransfer,
           NEW error_code \in ErrorCodes, FinalizeIfNeeded(u, rt, error_code)
    PROVE  /\ running_transfer' \in [Uuids -> RunningTransfer]
           /\ log' \subseteq LogEntry
  BY FinalizeType DEF FinalizeIfNeeded, TypeOK

LEMMA CommitType ==
    ASSUME TypeOK, NEW c \in Consumers, Commit(c)
    PROVE  TypeOK'
  <1> DEFINE m == sessions[c].message
             rt == sessions[c].rt
  <1>1. ASSUME process_rejected_direct_transfer_signal(c)
        PROVE  TypeOK'
    <2>1. sessions[c].active /\ m.type = "RejectedTransfer"
      BY <1>1 DEF process_rejected_direct_transfer_signal, IsHandling
    <2>2. m.uuid \in Uuids /\ rt \in RunningTransfer
      BY <2>1, SessionType
    <2>3. {"REJECTED", "UNEXPECTED_ERROR"} \subseteq ErrorCodes
      BY DEF ErrorCodes
    <2>4. /\ running_transfer' \in [Uuids -> RunningTransfer]
          /\ log' \subseteq LogEntry
      BY <1>1, <2>2, <2>3, FinalizeIfNeededType
         DEF process_rejected_direct_transfer_signal, TypeOK
    <2> QED
      BY <1>1, <2>4, EndSessionType
         DEF process_rejected_direct_transfer_signal, TypeOK
  <1>2. ASSUME process_prepared_direct_transfer_signal(c)
        PROVE  TypeOK'
    <2>1. sessions[c].active /\ m.type = "PreparedTransfer"
      BY <1>2 DEF process_prepared_direct_transfer_signal, IsHandling
    <2>2. m.uuid \in Uuids /\ m.transfer_id \in TransferIds
      BY <2>1, SessionType, MessageType
    <2>3. running_transfer' \in [Uuids -> RunningTransfer]
      <3>1. [running_transfer[m.uuid] EXCEPT !.transfer_id = m.transfer_id]
              \in RunningTransfer
        BY <2>2 DEF TypeOK, RunningTransfer
      <3> QED
        BY <1>2, <2>2, <3>1
           DEF process_prepared_direct_transfer_signal, TypeOK
    <2>4. finalize_transfer' \subseteq FinalizeTransfer
      <3>1. \A b \in BOOLEAN :
               FinalizeTransferSignal(m, b) \subseteq FinalizeTransfer
        BY <2>2 DEF FinalizeTransferSignal, FinalizeTransfer
      <3>2. PICK b \in BOOLEAN :
               finalize_transfer'
                 = finalize_transfer \cup FinalizeTransferSignal(m, b)
        <4> DEFINE chosen == (rt.exists /\ m.matches) /\ IsChosen(m, rt)
        <4>1. chosen \in BOOLEAN
          OBVIOUS
        <4>2. finalize_transfer'
                = finalize_transfer \cup FinalizeTransferSignal(m, chosen)
          BY <1>2 DEF process_prepared_direct_transfer_signal
        <4> QED
          BY <4>1, <4>2, Zenon
      <3> QED
        BY <3>1, <3>2 DEF TypeOK
    <2> QED
      BY <1>2, <2>3, <2>4, EndSessionType
         DEF process_prepared_direct_transfer_signal, TypeOK
  <1>3. ASSUME process_finalized_direct_transfer_signal(c)
        PROVE  TypeOK'
    <2>1. sessions[c].active /\ m.type = "FinalizedTransfer"
      BY <1>3 DEF process_finalized_direct_transfer_signal, IsHandling
    <2>2. /\ m.uuid \in Uuids /\ rt \in RunningTransfer
          /\ m.outcome \in {"committed", "failed", "dismissed"}
      BY <2>1, SessionType, MessageType
    <2>3. FinalErrorCode(m) \in ErrorCodes
      BY <2>2 DEF FinalErrorCode, ErrorCodes
    <2>4. /\ running_transfer' \in [Uuids -> RunningTransfer]
          /\ log' \subseteq LogEntry
      BY <1>3, <2>2, <2>3, FinalizeIfNeededType
         DEF process_finalized_direct_transfer_signal, TypeOK
    <2> QED
      BY <1>3, <2>4, EndSessionType
         DEF process_finalized_direct_transfer_signal, TypeOK
  <1>4. ASSUME RollBack(c)
        PROVE  TypeOK'
    BY <1>4, EndSessionType DEF RollBack, TypeOK
  <1> QED
    BY <1>1, <1>2, <1>3, <1>4 DEF Commit

LEMMA FindType ==
    ASSUME TypeOK, NEW c \in Consumers, NEW m \in Messages,
           find_running_transfer(c, m)
    PROVE  TypeOK'
  <1>1. running_transfer[m.uuid] \in RunningTransfer
    BY MessageType DEF TypeOK
  <1>2. [active |-> TRUE, message |-> m, rt |-> running_transfer[m.uuid]]
          \in Session
    BY <1>1 DEF Session
  <1> QED
    BY <1>2 DEF find_running_transfer, TypeOK

\* Every variable keeps its type, whatever the messages and their order.
THEOREM TypeCorrect == Spec => []TypeOK
  <1>1. Init => TypeOK
    BY InitType
  <1>2. ASSUME TypeOK, [Next]_vars
        PROVE  TypeOK'
    <2>1. CASE UNCHANGED vars
      BY <1>2, <2>1 DEF vars, TypeOK
    <2>2. CASE Server
      BY <1>2, <2>2, ServerType
    <2>3. CASE WebApi
      BY <1>2, <2>3, WebApiType
    <2>4. ASSUME NEW c \in Consumers, NEW m \in Messages,
                 find_running_transfer(c, m)
          PROVE  TypeOK'
      BY <1>2, <2>4, FindType
    <2>5. ASSUME NEW c \in Consumers, Commit(c)
          PROVE  TypeOK'
      BY <1>2, <2>5, CommitType
    <2> QED
      BY <1>2, <2>1, <2>2, <2>3, <2>4, <2>5 DEF Next
  <1> QED
    BY <1>1, <1>2, PTL DEF Spec

-----------------------------------------------------------------------------
(* What never changes back *)

\* A prepared transfer stays what it is, apart from its status, which moves on.
LEMMA PreparedMovesOn ==
    ASSUME TypeOK, [Next]_vars, NEW id \in TransferIds,
           prepared[id].status # "free"
    PROVE  /\ prepared'[id].uuid = prepared[id].uuid
           /\ prepared'[id].matches = prepared[id].matches
           /\ prepared'[id].status # "free"
           /\ prepared[id].status # "prepared" => prepared'[id] = prepared[id]
  <1>1. CASE Server
    <2>1. ASSUME NEW u \in Uuids, NEW i \in TransferIds,
                 NEW matches \in Plausible, ServerPrepares(u, i, matches)
          PROVE  prepared'[id] = prepared[id]
      BY <2>1 DEF ServerPrepares, TypeOK
    <2>2. ASSUME NEW f \in finalize_transfer,
                 NEW status \in {"committed", "failed", "dismissed"},
                 ServerFinalizes(f, status)
          PROVE  /\ prepared'[id].uuid = prepared[id].uuid
                 /\ prepared'[id].matches = prepared[id].matches
                 /\ prepared'[id].status # "free"
                 /\ prepared[id].status # "prepared"
                      => prepared'[id] = prepared[id]
      <3>1. prepared[id] \in PreparedTransfer
        BY DEF TypeOK
      <3> QED
        BY <2>2, <3>1 DEF ServerFinalizes, TypeOK, PreparedTransfer
    <2>3. ASSUME NEW u \in Uuids, NEW is_expected \in Plausible,
                 ServerRejects(u, is_expected)
          PROVE  prepared' = prepared
      BY <2>3 DEF ServerRejects
    <2> QED
      BY <1>1, <2>1, <2>2, <2>3 DEF Server
  <1>2. CASE ~Server
    <2>1. prepared' = prepared
      BY <1>2 DEF Next, vars, WebApi, initiate_running_transfer,
                  cancel_running_transfer, delete_running_transfer,
                  find_running_transfer, Commit, RollBack,
                  process_rejected_direct_transfer_signal,
                  process_prepared_direct_transfer_signal,
                  process_finalized_direct_transfer_signal
    <2> QED
      BY <2>1
  <1> QED
    BY <1>1, <1>2

\* Messages, instructions and log entries only become more.
LEMMA TablesGrow ==
    ASSUME [Next]_vars
    PROVE  /\ prepare_transfer \subseteq prepare_transfer'
           /\ finalize_transfer \subseteq finalize_transfer'
           /\ rejected \subseteq rejected'
           /\ log \subseteq log'
  <1>1. CASE Server
    BY <1>1 DEF Server, ServerPrepares, ServerRejects, ServerFinalizes
  <1>2. CASE WebApi
    BY <1>2 DEF WebApi, initiate_running_transfer, cancel_running_transfer,
                delete_running_transfer, FinalizeRunningTransfer
  <1>3. ASSUME NEW c \in Consumers, NEW m \in Messages,
               find_running_transfer(c, m)
        PROVE  /\ prepare_transfer \subseteq prepare_transfer'
               /\ finalize_transfer \subseteq finalize_transfer'
               /\ rejected \subseteq rejected'
               /\ log \subseteq log'
    BY <1>3 DEF find_running_transfer
  <1>4. ASSUME NEW c \in Consumers, Commit(c)
        PROVE  /\ prepare_transfer \subseteq prepare_transfer'
               /\ finalize_transfer \subseteq finalize_transfer'
               /\ rejected \subseteq rejected'
               /\ log \subseteq log'
    BY <1>4 DEF Commit, RollBack, FinalizeIfNeeded, FinalizeRunningTransfer,
                process_rejected_direct_transfer_signal,
                process_prepared_direct_transfer_signal,
                process_finalized_direct_transfer_signal
  <1>5. CASE UNCHANGED vars
    BY <1>5 DEF vars
  <1> QED
    BY <1>1, <1>2, <1>3, <1>4, <1>5 DEF Next

\* What a message says of the authority.
LEMMA SentMeans ==
    ASSUME TypeOK, NEW m \in Messages, Sent(m)
    PROVE  /\ m.type = "RejectedTransfer" => m \in rejected
           /\ m.type = "PreparedTransfer" =>
                /\ prepared[m.transfer_id].status # "free"
                /\ prepared[m.transfer_id].uuid = m.uuid
                /\ prepared[m.transfer_id].matches = m.matches
           /\ m.type = "FinalizedTransfer" =>
                /\ prepared[m.transfer_id].status = m.outcome
                /\ prepared[m.transfer_id].uuid = m.uuid
           /\ m \notin rejected =>
                m.type \in {"PreparedTransfer", "FinalizedTransfer"}
  BY DEF Sent, TypeOK, RejectedMessages

\* A message that has been sent may come at any later time.
LEMMA SentForever ==
    ASSUME TypeOK, [Next]_vars, NEW m, Sent(m)
    PROVE  Sent(m)'
  <1>1. CASE m \in rejected
    BY <1>1, TablesGrow DEF Sent
  <1>2. CASE \E id \in TransferIds :
               /\ prepared[id].status # "free"
               /\ m = [type |-> "PreparedTransfer", uuid |-> prepared[id].uuid,
                       transfer_id |-> id, matches |-> prepared[id].matches]
    BY <1>2, PreparedMovesOn DEF Sent
  <1>3. CASE \E id \in TransferIds :
               /\ prepared[id].status \in {"committed", "failed", "dismissed"}
               /\ m = [type |-> "FinalizedTransfer",
                       uuid |-> prepared[id].uuid, transfer_id |-> id,
                       outcome |-> prepared[id].status]
    <2>1. PICK id \in TransferIds :
             /\ prepared[id].status \in {"committed", "failed", "dismissed"}
             /\ m = [type |-> "FinalizedTransfer",
                     uuid |-> prepared[id].uuid, transfer_id |-> id,
                     outcome |-> prepared[id].status]
      BY <1>3
    <2>2. prepared'[id] = prepared[id]
      BY <2>1, PreparedMovesOn
    <2> QED
      BY <2>1, <2>2 DEF Sent
  <1> QED
    BY <1>1, <1>2, <1>3 DEF Sent

\* A payment is final.
LEMMA PaidForever ==
    ASSUME TypeOK, [Next]_vars, NEW u \in Uuids, IsPaid(u)
    PROVE  IsPaid(u)'
  BY PreparedMovesOn DEF IsPaid

-----------------------------------------------------------------------------
(* TransferInv *)

\* Nothing is said about a transfer that has not been asked for.
LEMMA SentIsRequested ==
    ASSUME TypeOK, AnswersFitRequests, NEW m \in Messages, Sent(m)
    PROVE  m.uuid \in prepare_transfer
  <1>1. CASE m \in rejected
    BY <1>1 DEF AnswersFitRequests
  <1>2. CASE m \notin rejected
    <2>1. m.type \in {"PreparedTransfer", "FinalizedTransfer"}
      BY <1>2, SentMeans
    <2>2. m.transfer_id \in TransferIds /\ m.uuid \in Uuids
      BY <2>1, MessageType
    <2>3. prepared[m.transfer_id].status # "free"
      BY <2>1, SentMeans, MessageType
    <2>4. prepared[m.transfer_id].uuid = m.uuid
      BY <2>1, SentMeans
    <2> QED
      BY <2>2, <2>3, <2>4 DEF AnswersFitRequests
  <1> QED
    BY <1>1, <1>2

\* Finalizing a row, from a read that may be old.
LEMMA FinalizeStep ==
    ASSUME TypeOK, TransferInv, [Next]_vars,
           NEW u \in Uuids, NEW rt \in RunningTransfer,
           NEW error_code \in ErrorCodes,
           rt.exists, ~rt.is_finalized, IsProperRow(rt),
           running_transfer[u].exists,
           FinalizeRunningTransfer(u, rt, error_code),
           error_code = None => IsPaid(u)
    PROVE  /\ \A v \in Uuids :
                /\ running_transfer'[v].exists = running_transfer[v].exists
                /\ running_transfer'[v].transfer_id
                     = running_transfer[v].transfer_id
                /\ IsProperRow(running_transfer'[v])
           /\ SuccessIsPaid'
           /\ OutcomeIsLogged'
  <1> DEFINE row == running_transfer[u]
             new == running_transfer'[u]
  <1>1. row \in RunningTransfer
    BY DEF TypeOK
  <1>2. rt.error_code = None /\ rt.latest_update_id = 1
    BY DEF IsProperRow
  <1>3. /\ new.exists = row.exists
        /\ new.transfer_id = row.transfer_id
        /\ new.latest_update_id = 2
        /\ new.is_finalized = TRUE
        /\ new.error_code = IF error_code = None THEN row.error_code
                                                 ELSE error_code
    <2> DEFINE code == IF error_code = None THEN row.error_code
                                            ELSE error_code
    <2>1. new = [row EXCEPT !.latest_update_id = rt.latest_update_id + 1,
                            !.is_finalized = TRUE,
                            !.error_code = code]
      BY <1>2 DEF FinalizeRunningTransfer, WrittenErrorCode, TypeOK
    <2>2. rt.latest_update_id + 1 = 2
      BY <1>2
    <2> HIDE DEF code, new, row
    <2>3. /\ new.exists = row.exists
          /\ new.transfer_id = row.transfer_id
          /\ new.latest_update_id = rt.latest_update_id + 1
          /\ new.is_finalized = TRUE
          /\ new.error_code = code
      BY <1>1, <2>1 DEF RunningTransfer
    <2> QED
      BY <2>2, <2>3 DEF code
  <1>4. \A v \in Uuids : v # u => running_transfer'[v] = running_transfer[v]
    BY DEF FinalizeRunningTransfer, TypeOK
  <1>5. IsProperRow(new)
    BY <1>3 DEF IsProperRow
  <1>6. \A v \in Uuids : IsProperRow(running_transfer[v])
    BY DEF TransferInv, RowsAreProper
  <1>7. \A v \in Uuids : IsPaid(v) => IsPaid(v)'
    BY PaidForever
  <1>8. new.error_code = None => IsPaid(u)'
    BY <1>3, <1>7
  <1>9. SuccessIsPaid'
    <2>1. SUFFICES ASSUME NEW v \in Uuids, running_transfer'[v].exists,
                          running_transfer'[v].is_finalized,
                          running_transfer'[v].error_code = None
                   PROVE  IsPaid(v)'
      BY DEF SuccessIsPaid
    <2>2. CASE v = u
      BY <1>8, <2>1, <2>2
    <2>3. CASE v # u
      BY <1>4, <1>7, <2>1, <2>3 DEF TransferInv, SuccessIsPaid
    <2> QED
      BY <2>2, <2>3
  <1>10. \E e \in log' : /\ e.uuid = u
                         /\ e.object_update_id = 2
                         /\ e.error_code = new.error_code
    <2>1. CASE error_code = None /\ row.is_finalized
      <3>1. row.latest_update_id = 2
        BY <1>6, <2>1 DEF IsProperRow
      <3>2. \E e \in log : /\ e.uuid = u
                           /\ e.object_update_id = row.latest_update_id
                           /\ e.error_code = row.error_code
        BY <2>1 DEF TransferInv, OutcomeIsLogged
      <3> QED
        BY <1>3, <2>1, <3>1, <3>2, TablesGrow
    <2>2. CASE ~(error_code = None /\ row.is_finalized)
      <3>1. new.error_code = error_code
        BY <1>3, <1>6, <2>2 DEF IsProperRow
      <3>2. OutcomeLogEntry(u, rt, error_code) \in log'
        BY DEF FinalizeRunningTransfer
      <3> QED
        BY <1>2, <3>1, <3>2 DEF OutcomeLogEntry
    <2> QED
      BY <2>1, <2>2
  <1>11. OutcomeIsLogged'
    <2>1. SUFFICES ASSUME NEW v \in Uuids, running_transfer'[v].exists,
                          running_transfer'[v].is_finalized
                   PROVE  \E e \in log' :
                             /\ e.uuid = v
                             /\ e.object_update_id
                                  = running_transfer'[v].latest_update_id
                             /\ e.error_code = running_transfer'[v].error_code
      BY DEF OutcomeIsLogged
    <2>2. CASE v = u
      BY <1>3, <1>10, <2>2
    <2>3. CASE v # u
      BY <1>4, <2>1, <2>3, TablesGrow DEF TransferInv, OutcomeIsLogged
    <2> QED
      BY <2>2, <2>3
  <1> QED
    BY <1>3, <1>4, <1>5, <1>6, <1>9, <1>11

\* When the rows and the log stay as they are.
LEMMA RowsUnchanged ==
    ASSUME TypeOK, TransferInv, [Next]_vars,
           \A v \in Uuids :
             /\ running_transfer'[v].exists => running_transfer[v].exists
             /\ running_transfer'[v].exists =>
                  /\ running_transfer'[v].is_finalized
                       = running_transfer[v].is_finalized
                  /\ running_transfer'[v].error_code
                       = running_transfer[v].error_code
                  /\ running_transfer'[v].latest_update_id
                       = running_transfer[v].latest_update_id
    PROVE  /\ \A v \in Uuids : IsProperRow(running_transfer'[v])
           /\ SuccessIsPaid'
           /\ OutcomeIsLogged'
  <1>1. \A v \in Uuids : IsProperRow(running_transfer'[v])
    BY DEF TransferInv, RowsAreProper, IsProperRow
  <1>2. SuccessIsPaid'
    BY PaidForever DEF TransferInv, SuccessIsPaid
  <1>3. OutcomeIsLogged'
    BY TablesGrow DEF TransferInv, OutcomeIsLogged
  <1> QED
    BY <1>1, <1>2, <1>3

\* A read stays true as long as rows are only created for new transfers.
LEMMA ReadStaysTrue ==
    ASSUME TypeOK, TransferInv, [Next]_vars,
           \A v \in Uuids : running_transfer'[v].exists =>
             running_transfer[v].exists \/ v \notin prepare_transfer,
           NEW c \in Consumers, sessions[c].active, sessions'[c] = sessions[c]
    PROVE  /\ Sent(sessions[c].message)'
           /\ running_transfer'[sessions'[c].message.uuid].exists
                => sessions'[c].rt.exists
           /\ IsProperRow(sessions'[c].rt)
  <1> DEFINE m == sessions[c].message
  <1>1. m \in Messages /\ m.uuid \in Uuids
    BY SessionType
  <1>2. Sent(m) /\ (running_transfer[m.uuid].exists => sessions[c].rt.exists)
    BY DEF TransferInv, ReadsWereTrue
  <1>3. m.uuid \in prepare_transfer
    BY <1>1, <1>2, SentIsRequested DEF TransferInv
  <1>4. Sent(sessions[c].message)'
    <2>1. ASSUME NEW n, Sent(n), n = sessions'[c].message
          PROVE  Sent(sessions[c].message)'
      <3>1. Sent(n)'
        BY <2>1, SentForever
      <3> QED
        BY <2>1, <3>1 DEF Sent
    <2> QED
      BY <1>2, <2>1
  <1>5. IsProperRow(sessions'[c].rt)
    BY DEF TransferInv, RowsAreProper
  <1> QED
    BY <1>1, <1>2, <1>3, <1>4, <1>5

\* What a step does to the reads of the consumers, when it does not read.
LEMMA ReadsStayTrue ==
    ASSUME TypeOK, TransferInv, [Next]_vars,
           \A v \in Uuids : running_transfer'[v].exists =>
             running_transfer[v].exists \/ v \notin prepare_transfer,
           \A c \in Consumers : sessions'[c].active =>
             sessions[c].active /\ sessions'[c] = sessions[c]
    PROVE  /\ ReadsWereTrue'
           /\ \A c \in Consumers :
                sessions'[c].active => IsProperRow(sessions'[c].rt)
  BY ReadStaysTrue DEF ReadsWereTrue

LEMMA ServerKeepsInv ==
    ASSUME TypeOK, TransferInv, Server
    PROVE  TransferInv'
  <1>1. [Next]_vars
    BY DEF Next
  <1>2. /\ running_transfer' = running_transfer
        /\ log' = log /\ sessions' = sessions
        /\ prepare_transfer' = prepare_transfer
        /\ finalize_transfer' = finalize_transfer
    BY DEF Server, ServerPrepares, ServerRejects, ServerFinalizes
  <1>3. /\ RowsAreProper' /\ SuccessIsPaid' /\ OutcomeIsLogged'
        /\ ReadsWereTrue'
    BY <1>1, <1>2, RowsUnchanged, ReadsStayTrue DEF RowsAreProper
  <1>4. AnswersFitRequests'
    <2>1. \A u \in Uuids : running_transfer'[u].exists => u \in prepare_transfer'
      BY <1>2 DEF TransferInv, AnswersFitRequests
    <2>2. \A m \in rejected' : m.uuid \in prepare_transfer'
      <3>1. \A m \in rejected : m.uuid \in prepare_transfer
        BY DEF TransferInv, AnswersFitRequests
      <3>2. ASSUME NEW u \in Uuids, NEW is_expected \in Plausible,
                   ServerRejects(u, is_expected)
            PROVE  \A m \in rejected' : m.uuid \in prepare_transfer
        BY <3>1, <3>2 DEF ServerRejects
      <3> QED
        BY <1>2, <3>1, <3>2 DEF Server, ServerPrepares, ServerFinalizes
    <2>3. \A f \in finalize_transfer' : prepared'[f.transfer_id].status # "free"
      BY <1>1, <1>2, PreparedMovesOn
         DEF TransferInv, AnswersFitRequests, TypeOK, FinalizeTransfer
    <2>4. ASSUME NEW id \in TransferIds
          PROVE  /\ prepared'[id].status # "free"
                      => prepared'[id].uuid \in prepare_transfer'
                 /\ prepared'[id].status \in {"committed", "failed"}
                      => [transfer_id |-> id, is_committed |-> TRUE]
                           \in finalize_transfer'
      <3>1. CASE prepared'[id] = prepared[id]
        BY <1>2, <3>1 DEF TransferInv, AnswersFitRequests
      <3>2. ASSUME NEW u \in Uuids, NEW i \in TransferIds,
                   NEW matches \in Plausible, ServerPrepares(u, i, matches),
                   prepared'[id] # prepared[id]
            PROVE  /\ prepared'[id].uuid \in prepare_transfer'
                   /\ prepared'[id].status \notin {"committed", "failed"}
        BY <1>2, <3>2 DEF ServerPrepares, TypeOK
      <3>3. ASSUME NEW f \in finalize_transfer,
                   NEW status \in {"committed", "failed", "dismissed"},
                   ServerFinalizes(f, status), prepared'[id] # prepared[id]
            PROVE  /\ prepared'[id].uuid \in prepare_transfer'
                   /\ prepared'[id].status \in {"committed", "failed"}
                        => [transfer_id |-> id, is_committed |-> TRUE]
                             \in finalize_transfer'
        <4>1. f.transfer_id = id
          BY <3>3 DEF ServerFinalizes, TypeOK
        <4>2. prepared[id].status = "prepared"
          BY <3>3, <4>1 DEF ServerFinalizes
        <4>3. prepared'[id].uuid = prepared[id].uuid
          BY <1>1, <4>2, PreparedMovesOn
        <4>4. prepared'[id].uuid \in prepare_transfer'
          BY <1>2, <4>2, <4>3 DEF TransferInv, AnswersFitRequests
        <4>5. prepared'[id].status = status
          BY <3>3, <4>1 DEF ServerFinalizes, TypeOK, PreparedTransfer
        <4>6. status \in {"committed", "failed"} => f.is_committed
          BY <3>3 DEF ServerFinalizes
        <4>7. f.is_committed =>
                f = [transfer_id |-> id, is_committed |-> TRUE]
          BY <4>1 DEF TypeOK, FinalizeTransfer
        <4> QED
          BY <1>2, <4>4, <4>5, <4>6, <4>7
      <3>4. CASE prepared' = prepared
        BY <3>1, <3>4
      <3> QED
        BY <3>1, <3>2, <3>3, <3>4 DEF Server, ServerRejects
    <2> QED
      BY <2>1, <2>2, <2>3, <2>4 DEF AnswersFitRequests
  <1> QED
    BY <1>3, <1>4 DEF TransferInv

\* The messages of the authority, when it does not act.
LEMMA AnswersStillFit ==
    ASSUME TypeOK, TransferInv, [Next]_vars,
           prepared' = prepared, rejected' = rejected,
           \A v \in Uuids : running_transfer'[v].exists =>
             running_transfer[v].exists \/ v \in prepare_transfer',
           \A f \in finalize_transfer' : f \notin finalize_transfer =>
             prepared[f.transfer_id].status # "free"
    PROVE  AnswersFitRequests'
  <1>1. /\ prepare_transfer \subseteq prepare_transfer'
        /\ finalize_transfer \subseteq finalize_transfer'
    BY TablesGrow
  <1>2. \A u \in Uuids : running_transfer'[u].exists => u \in prepare_transfer'
    BY <1>1 DEF TransferInv, AnswersFitRequests
  <1>3. \A m \in rejected' : m.uuid \in prepare_transfer'
    BY <1>1 DEF TransferInv, AnswersFitRequests
  <1>4. \A f \in finalize_transfer' : prepared'[f.transfer_id].status # "free"
    BY DEF TransferInv, AnswersFitRequests
  <1>5. \A id \in TransferIds :
           /\ prepared'[id].status # "free"
                => prepared'[id].uuid \in prepare_transfer'
           /\ prepared'[id].status \in {"committed", "failed"}
                => [transfer_id |-> id, is_committed |-> TRUE]
                     \in finalize_transfer'
    BY <1>1 DEF TransferInv, AnswersFitRequests
  <1> QED
    BY <1>2, <1>3, <1>4, <1>5 DEF AnswersFitRequests

LEMMA WebApiKeepsInv ==
    ASSUME TypeOK, TransferInv, WebApi
    PROVE  TransferInv'
  <1>1. [Next]_vars
    BY DEF Next
  <1>2. /\ prepared' = prepared /\ rejected' = rejected
        /\ sessions' = sessions
        /\ finalize_transfer' = finalize_transfer
    BY DEF WebApi, initiate_running_transfer, cancel_running_transfer,
           delete_running_transfer
  <1>3. ASSUME NEW u \in Uuids, initiate_running_transfer(u)
        PROVE  TransferInv'
    <2> DEFINE new == [NoRow EXCEPT !.exists = TRUE, !.latest_update_id = 1]
    <2>1. u \notin prepare_transfer /\ u \in prepare_transfer'
      BY <1>3 DEF initiate_running_transfer
    <2>2. running_transfer' = [running_transfer EXCEPT ![u] = new]
      BY <1>3 DEF initiate_running_transfer
    <2>3. /\ new.exists = TRUE /\ new.is_finalized = FALSE
          /\ new.error_code = None /\ new.latest_update_id = 1
      BY DEF NoRow
    <2> HIDE DEF new
    <2>4. /\ running_transfer'[u] = new
          /\ \A v \in Uuids : v # u =>
               running_transfer'[v] = running_transfer[v]
      BY <2>2 DEF TypeOK
    <2>5. AnswersFitRequests'
      BY <1>1, <1>2, <2>1, <2>4, AnswersStillFit
    <2>6. /\ ReadsWereTrue'
          /\ \A c \in Consumers :
               sessions'[c].active => IsProperRow(sessions'[c].rt)
      BY <1>1, <1>2, <2>1, <2>4, ReadsStayTrue
    <2>7. \A v \in Uuids : IsProperRow(running_transfer'[v])
      BY <2>3, <2>4 DEF TransferInv, RowsAreProper, IsProperRow
    <2>8. SuccessIsPaid'
      BY <1>1, <2>3, <2>4, PaidForever DEF TransferInv, SuccessIsPaid
    <2>9. OutcomeIsLogged'
      BY <1>1, <2>3, <2>4, TablesGrow DEF TransferInv, OutcomeIsLogged
    <2> QED
      BY <2>5, <2>6, <2>7, <2>8, <2>9 DEF TransferInv, RowsAreProper
  <1>4. ASSUME NEW u \in Uuids, cancel_running_transfer(u)
        PROVE  TransferInv'
    <2> DEFINE rt == running_transfer[u]
    <2>1. /\ rt.exists /\ ~rt.is_finalized
          /\ FinalizeRunningTransfer(u, rt, "CANCELED_BY_THE_SENDER")
      BY <1>4 DEF cancel_running_transfer
    <2>2. rt \in RunningTransfer /\ IsProperRow(rt)
      BY DEF TypeOK, TransferInv, RowsAreProper
    <2>3. /\ "CANCELED_BY_THE_SENDER" \in ErrorCodes
          /\ "CANCELED_BY_THE_SENDER" # None
      BY DEF ErrorCodes, None
    <2> HIDE DEF rt
    <2>4. /\ \A v \in Uuids :
               /\ running_transfer'[v].exists = running_transfer[v].exists
               /\ IsProperRow(running_transfer'[v])
          /\ SuccessIsPaid'
          /\ OutcomeIsLogged'
      <3>1. running_transfer[u].exists
        BY <2>1 DEF rt
      <3> QED
        BY <1>1, <2>1, <2>2, <2>3, <3>1, FinalizeStep
    <2>5. AnswersFitRequests'
      BY <1>1, <1>2, <2>4, AnswersStillFit
    <2>6. /\ ReadsWereTrue'
          /\ \A c \in Consumers :
               sessions'[c].active => IsProperRow(sessions'[c].rt)
      BY <1>1, <1>2, <2>4, ReadsStayTrue
    <2> QED
      BY <2>4, <2>5, <2>6 DEF TransferInv, RowsAreProper
  <1>5. ASSUME NEW u \in Uuids, delete_running_transfer(u)
        PROVE  TransferInv'
    <2>1. /\ running_transfer'[u] = NoRow
          /\ \A v \in Uuids : v # u =>
               running_transfer'[v] = running_transfer[v]
      BY <1>5 DEF delete_running_transfer, TypeOK
    <2>2. NoRow.exists = FALSE
      BY DEF NoRow
    <2>3. \A v \in Uuids :
             running_transfer'[v].exists =>
               /\ running_transfer[v].exists
               /\ running_transfer'[v] = running_transfer[v]
      BY <2>1, <2>2
    <2>4. AnswersFitRequests'
      BY <1>1, <1>2, <2>3, AnswersStillFit
    <2>5. /\ ReadsWereTrue'
          /\ \A c \in Consumers :
               sessions'[c].active => IsProperRow(sessions'[c].rt)
      BY <1>1, <1>2, <2>3, ReadsStayTrue
    <2>6. /\ \A v \in Uuids : IsProperRow(running_transfer'[v])
          /\ SuccessIsPaid'
          /\ OutcomeIsLogged'
      BY <1>1, <2>3, RowsUnchanged
    <2> QED
      BY <2>4, <2>5, <2>6 DEF TransferInv, RowsAreProper
  <1> QED
    BY <1>3, <1>4, <1>5 DEF WebApi

\* A consumer reads.
LEMMA FindKeepsInv ==
    ASSUME TypeOK, TransferInv, NEW c \in Consumers, NEW m \in Messages,
           find_running_transfer(c, m)
    PROVE  TransferInv'
  <1>1. [Next]_vars
    BY DEF Next
  <1>2. /\ prepared' = prepared /\ rejected' = rejected
        /\ running_transfer' = running_transfer /\ log' = log
        /\ finalize_transfer' = finalize_transfer
        /\ prepare_transfer' = prepare_transfer
        /\ Sent(m)
    BY DEF find_running_transfer
  <1>3. /\ sessions'[c] = [active |-> TRUE, message |-> m,
                           rt |-> running_transfer[m.uuid]]
        /\ \A d \in Consumers : d # c => sessions'[d] = sessions[d]
    BY DEF find_running_transfer, TypeOK
  <1>4. m.uuid \in Uuids
    BY MessageType
  <1>5. AnswersFitRequests'
    BY <1>1, <1>2, AnswersStillFit
  <1>6. /\ \A v \in Uuids : IsProperRow(running_transfer'[v])
        /\ SuccessIsPaid'
        /\ OutcomeIsLogged'
    BY <1>1, <1>2, RowsUnchanged
  <1>7. ASSUME NEW d \in Consumers, sessions'[d].active
        PROVE  /\ Sent(sessions[d].message)' \/ d = c
               /\ running_transfer'[sessions'[d].message.uuid].exists
                    => sessions'[d].rt.exists
               /\ IsProperRow(sessions'[d].rt)
    <2>1. CASE d = c
      BY <1>2, <1>3, <1>4, <2>1 DEF TransferInv, RowsAreProper
    <2>2. CASE d # c
      <3>1. sessions'[d] = sessions[d] /\ sessions[d].active
        BY <1>3, <1>7, <2>2
      <3> QED
        BY <1>1, <1>2, <3>1, ReadStaysTrue
    <2> QED
      BY <2>1, <2>2
  <1>8. ASSUME NEW d \in Consumers, sessions'[d].active
        PROVE  Sent(sessions[d].message)'
    <2>1. CASE d = c
      <3>1. sessions'[d].message = m
        BY <1>3, <2>1
      <3> QED
        BY <1>2, <3>1 DEF Sent
    <2>2. CASE d # c
      BY <1>7, <1>8, <2>2
    <2> QED
      BY <2>1, <2>2
  <1> QED
    BY <1>5, <1>6, <1>7, <1>8 DEF TransferInv, ReadsWereTrue, RowsAreProper

\* What the handlers know when they commit.
LEMMA HandlerFacts ==
    ASSUME TypeOK, TransferInv, NEW c \in Consumers, sessions[c].active
    PROVE  LET m == sessions[c].message
               rt == sessions[c].rt
           IN  /\ m \in Messages /\ m.uuid \in Uuids
               /\ rt \in RunningTransfer
               /\ Sent(m)
               /\ IsProperRow(rt)
               /\ running_transfer[m.uuid].exists => rt.exists
  BY SessionType DEF TransferInv, ReadsWereTrue, RowsAreProper

\* The common part of the handlers that finalize what they have read.
LEMMA FinalizingKeepsInv ==
    ASSUME TypeOK, TransferInv, [Next]_vars,
           NEW c \in Consumers, sessions[c].active, EndSession(c),
           NEW error_code \in ErrorCodes,
           sessions[c].rt.exists,
           FinalizeIfNeeded(sessions[c].message.uuid, sessions[c].rt,
                            error_code),
           error_code = None => IsPaid(sessions[c].message.uuid),
           prepared' = prepared, rejected' = rejected,
           finalize_transfer' = finalize_transfer
    PROVE  TransferInv'
  <1> DEFINE u == sessions[c].message.uuid
             rt == sessions[c].rt
  <1>1. u \in Uuids /\ rt \in RunningTransfer /\ IsProperRow(rt)
    BY HandlerFacts
  <1>2. \A d \in Consumers : sessions'[d].active =>
           sessions[d].active /\ sessions'[d] = sessions[d]
    BY EndSessionType, IdleTypes
  <1>3. /\ \A v \in Uuids :
             /\ running_transfer'[v].exists => running_transfer[v].exists
             /\ IsProperRow(running_transfer'[v])
        /\ SuccessIsPaid'
        /\ OutcomeIsLogged'
    <2>1. CASE rt.is_finalized
      <3>1. running_transfer' = running_transfer /\ log' = log
        BY <2>1 DEF FinalizeIfNeeded
      <3> QED
        BY <3>1, RowsUnchanged
    <2>2. CASE ~rt.is_finalized
      <3>1. /\ running_transfer[u].exists
            /\ FinalizeRunningTransfer(u, rt, error_code)
        BY <2>2 DEF FinalizeIfNeeded
      <3> HIDE DEF u, rt
      <3>2. rt.exists /\ (error_code = None => IsPaid(u))
        BY DEF u, rt
      <3> QED
        BY <1>1, <2>2, <3>1, <3>2, FinalizeStep
    <2> QED
      BY <2>1, <2>2
  <1>4. AnswersFitRequests'
    BY <1>3, AnswersStillFit
  <1>5. /\ ReadsWereTrue'
        /\ \A d \in Consumers :
             sessions'[d].active => IsProperRow(sessions'[d].rt)
    BY <1>2, <1>3, ReadsStayTrue
  <1> QED
    BY <1>3, <1>4, <1>5 DEF TransferInv, RowsAreProper

\* The common part of the handlers that finalize nothing.
LEMMA OthersKeepInv ==
    ASSUME TypeOK, TransferInv, [Next]_vars,
           NEW c \in Consumers, sessions[c].active, EndSession(c),
           prepared' = prepared, rejected' = rejected,
           \A v \in Uuids :
             /\ running_transfer'[v].exists = running_transfer[v].exists
             /\ running_transfer'[v].is_finalized
                  = running_transfer[v].is_finalized
             /\ running_transfer'[v].error_code
                  = running_transfer[v].error_code
             /\ running_transfer'[v].latest_update_id
                  = running_transfer[v].latest_update_id,
           \A f \in finalize_transfer' : f \notin finalize_transfer =>
             prepared[f.transfer_id].status # "free"
    PROVE  TransferInv'
  <1>1. \A d \in Consumers : sessions'[d].active =>
           sessions[d].active /\ sessions'[d] = sessions[d]
    BY EndSessionType, IdleTypes
  <1>2. /\ \A v \in Uuids : IsProperRow(running_transfer'[v])
        /\ SuccessIsPaid'
        /\ OutcomeIsLogged'
    BY RowsUnchanged
  <1>3. AnswersFitRequests'
    BY AnswersStillFit
  <1>4. /\ ReadsWereTrue'
        /\ \A d \in Consumers :
             sessions'[d].active => IsProperRow(sessions'[d].rt)
    BY <1>1, ReadsStayTrue
  <1> QED
    BY <1>2, <1>3, <1>4 DEF TransferInv, RowsAreProper

\* What process_prepared_direct_transfer_signal writes.
LEMMA PreparedWrites ==
    ASSUME TypeOK, TransferInv, NEW c \in Consumers,
           process_prepared_direct_transfer_signal(c)
    PROVE  /\ \A v \in Uuids :
                /\ running_transfer'[v].exists = running_transfer[v].exists
                /\ running_transfer'[v].is_finalized
                     = running_transfer[v].is_finalized
                /\ running_transfer'[v].error_code
                     = running_transfer[v].error_code
                /\ running_transfer'[v].latest_update_id
                     = running_transfer[v].latest_update_id
           /\ \A f \in finalize_transfer' : f \notin finalize_transfer =>
                prepared[f.transfer_id].status # "free"
  <1> DEFINE m == sessions[c].message
             rt == sessions[c].rt
  <1>1. sessions[c].active /\ m.type = "PreparedTransfer"
    BY DEF process_prepared_direct_transfer_signal, IsHandling
  <1>2. m \in Messages /\ m.uuid \in Uuids /\ Sent(m)
    BY <1>1, HandlerFacts
  <1>3. \/ running_transfer' = running_transfer
        \/ running_transfer' = [running_transfer EXCEPT
                                  ![m.uuid].transfer_id = m.transfer_id]
    BY DEF process_prepared_direct_transfer_signal
  <1>4. prepared[m.transfer_id].status # "free"
    BY <1>1, <1>2, SentMeans
  <1>5. \A f \in finalize_transfer' : f \notin finalize_transfer =>
           f.transfer_id = m.transfer_id
    BY DEF process_prepared_direct_transfer_signal, FinalizeTransferSignal
  <1> HIDE DEF m, rt
  <1>6. \A v \in Uuids :
           /\ running_transfer'[v].exists = running_transfer[v].exists
           /\ running_transfer'[v].is_finalized
                = running_transfer[v].is_finalized
           /\ running_transfer'[v].error_code
                = running_transfer[v].error_code
           /\ running_transfer'[v].latest_update_id
                = running_transfer[v].latest_update_id
    BY <1>2, <1>3 DEF TypeOK, RunningTransfer
  <1> QED
    BY <1>4, <1>5, <1>6

LEMMA CommitKeepsInv ==
    ASSUME TypeOK, TransferInv, NEW c \in Consumers, Commit(c)
    PROVE  TransferInv'
  <1> DEFINE m == sessions[c].message
             rt == sessions[c].rt
  <1>1. [Next]_vars
    BY DEF Next
  <1>2. prepared' = prepared /\ rejected' = rejected
    BY DEF Commit, RollBack, process_rejected_direct_transfer_signal,
           process_prepared_direct_transfer_signal,
           process_finalized_direct_transfer_signal
  <1>3. ASSUME process_rejected_direct_transfer_signal(c)
        PROVE  TransferInv'
    <2>1. /\ sessions[c].active
          /\ EndSession(c) /\ finalize_transfer' = finalize_transfer
      BY <1>3 DEF process_rejected_direct_transfer_signal, IsHandling
    <2>2. CASE ~rt.exists
      <3>1. running_transfer' = running_transfer
        BY <1>3, <2>2 DEF process_rejected_direct_transfer_signal
      <3> QED
        BY <1>1, <1>2, <2>1, <3>1, OthersKeepInv
    <2>3. CASE rt.exists
      <3>1. PICK error_code \in {"REJECTED", "UNEXPECTED_ERROR"} :
               FinalizeIfNeeded(m.uuid, rt, error_code)
        BY <1>3, <2>3 DEF process_rejected_direct_transfer_signal
      <3>2. error_code \in ErrorCodes /\ error_code # None
        BY DEF ErrorCodes, None
      <3> QED
        BY <1>1, <1>2, <2>1, <2>3, <3>1, <3>2, FinalizingKeepsInv
    <2> QED
      BY <2>2, <2>3
  <1>4. ASSUME process_prepared_direct_transfer_signal(c)
        PROVE  TransferInv'
    <2>1. sessions[c].active /\ EndSession(c)
      BY <1>4 DEF process_prepared_direct_transfer_signal, IsHandling
    <2> QED
      BY <1>1, <1>2, <1>4, <2>1, PreparedWrites, OthersKeepInv
  <1>5. ASSUME process_finalized_direct_transfer_signal(c)
        PROVE  TransferInv'
    <2>1. /\ sessions[c].active /\ m.type = "FinalizedTransfer"
          /\ EndSession(c) /\ finalize_transfer' = finalize_transfer
      BY <1>5 DEF process_finalized_direct_transfer_signal, IsHandling
    <2>2. CASE ~IsAbout(m, rt)
      <3>1. running_transfer' = running_transfer
        BY <1>5, <2>2 DEF process_finalized_direct_transfer_signal
      <3> QED
        BY <1>1, <1>2, <2>1, <3>1, OthersKeepInv
    <2>3. CASE IsAbout(m, rt)
      <3>1. FinalizeIfNeeded(m.uuid, rt, FinalErrorCode(m)) /\ rt.exists
        BY <1>5, <2>3 DEF process_finalized_direct_transfer_signal, IsAbout
      <3>2. /\ m \in Messages /\ Sent(m)
            /\ m.transfer_id \in TransferIds
            /\ m.outcome \in {"committed", "failed", "dismissed"}
        BY <2>1, HandlerFacts, MessageType
      <3>3. FinalErrorCode(m) \in ErrorCodes
        BY <3>2 DEF FinalErrorCode, ErrorCodes
      <3>4. FinalErrorCode(m) = None => m.outcome = "committed"
        BY <3>2 DEF FinalErrorCode, None
      <3>5. FinalErrorCode(m) = None => IsPaid(m.uuid)
        BY <2>1, <3>2, <3>4, SentMeans DEF IsPaid
      <3> QED
        BY <1>1, <1>2, <2>1, <3>1, <3>3, <3>5, FinalizingKeepsInv
    <2> QED
      BY <2>2, <2>3
  <1>6. ASSUME RollBack(c)
        PROVE  TransferInv'
    <2>1. /\ sessions[c].active /\ EndSession(c)
          /\ running_transfer' = running_transfer
          /\ finalize_transfer' = finalize_transfer
      BY <1>6 DEF RollBack
    <2> QED
      BY <1>1, <1>2, <2>1, OthersKeepInv
  <1> QED
    BY <1>3, <1>4, <1>5, <1>6 DEF Commit

LEMMA InitInv == Init => TransferInv
  <1> SUFFICES ASSUME Init
               PROVE  TransferInv
    OBVIOUS
  <1>1. \A u \in Uuids : running_transfer[u].exists = FALSE
    BY DEF Init, NoRow
  <1>2. \A id \in TransferIds : prepared[id].status = "free"
    BY DEF Init, NotPrepared
  <1>3. \A c \in Consumers : sessions[c].active = FALSE
    BY IdleTypes DEF Init
  <1>4. AnswersFitRequests
    BY <1>1, <1>2 DEF Init, AnswersFitRequests
  <1>5. ReadsWereTrue /\ RowsAreProper
    BY <1>1, <1>3 DEF ReadsWereTrue, RowsAreProper, IsProperRow
  <1>6. SuccessIsPaid /\ OutcomeIsLogged
    BY <1>1 DEF SuccessIsPaid, OutcomeIsLogged
  <1> QED
    BY <1>4, <1>5, <1>6 DEF TransferInv

LEMMA NextInv ==
    ASSUME TypeOK, TransferInv, [Next]_vars
    PROVE  TransferInv'
  <1>1. CASE Server
    BY <1>1, ServerKeepsInv
  <1>2. CASE WebApi
    BY <1>2, WebApiKeepsInv
  <1>3. ASSUME NEW c \in Consumers, NEW m \in Messages,
               find_running_transfer(c, m)
        PROVE  TransferInv'
    BY <1>3, FindKeepsInv
  <1>4. ASSUME NEW c \in Consumers, Commit(c)
        PROVE  TransferInv'
    BY <1>4, CommitKeepsInv
  <1>5. CASE UNCHANGED vars
    <2>1. /\ AnswersFitRequests' /\ ReadsWereTrue' /\ RowsAreProper'
      BY <1>5 DEF vars, TransferInv, AnswersFitRequests, ReadsWereTrue,
                  RowsAreProper, Sent
    <2>2. SuccessIsPaid' /\ OutcomeIsLogged'
      BY <1>5 DEF vars, TransferInv, SuccessIsPaid, OutcomeIsLogged, IsPaid
    <2> QED
      BY <2>1, <2>2 DEF TransferInv
  <1> QED
    BY <1>1, <1>2, <1>3, <1>4, <1>5 DEF Next

\* The invariant of direct transfers, for any number of consumers.
THEOREM TransfersCorrect == Spec => []TransferInv
  <1>1. TypeOK /\ TransferInv /\ [Next]_vars => TransferInv'
    BY NextInv
  <1> QED
    BY <1>1, InitInv, TypeCorrect, PTL DEF Spec

\* A transfer that is shown to be successful has been paid, however the
\* cancellations, deletions and answers interleave.
THEOREM SuccessCorrect == Spec => []SuccessIsPaid
  <1>1. TransferInv => SuccessIsPaid
    BY DEF TransferInv
  <1> QED
    BY <1>1, TransfersCorrect, PTL

\* The outcome that a transfer shows is in the log, under its update ID.
THEOREM OutcomeCorrect == Spec => []OutcomeIsLogged
  <1>1. TransferInv => OutcomeIsLogged
    BY DEF TransferInv
  <1> QED
    BY <1>1, TransfersCorrect, PTL

-----------------------------------------------------------------------------
(* ChoiceInv, with one consumer *)

\* What has been said of a prepared transfer stays true of it.
LEMMA InstructedIsFixed ==
    ASSUME TypeOK, TransferInv, [Next]_vars, NEW f \in finalize_transfer
    PROVE  /\ f.transfer_id \in TransferIds
           /\ prepared[f.transfer_id].uuid \in prepare_transfer
           /\ prepared'[f.transfer_id].uuid = prepared[f.transfer_id].uuid
           /\ prepared'[f.transfer_id].matches
                = prepared[f.transfer_id].matches
  <1>1. f.transfer_id \in TransferIds
    BY DEF TypeOK, FinalizeTransfer
  <1>2. prepared[f.transfer_id].status # "free"
    BY DEF TransferInv, AnswersFitRequests
  <1> QED
    BY <1>1, <1>2, PreparedMovesOn DEF TransferInv, AnswersFitRequests

\* A step that neither reads nor chooses keeps ChoiceInv.
LEMMA OtherStepsKeepChoice ==
    ASSUME TypeOK, TransferInv, ChoiceInv, [Next]_vars,
           finalize_transfer' = finalize_transfer,
           \A c \in Consumers : sessions'[c].active =>
             sessions[c].active /\ sessions'[c] = sessions[c],
           \A v \in Uuids : running_transfer'[v].exists =>
             \/ v \notin prepare_transfer
             \/ /\ running_transfer[v].exists
                /\ running_transfer'[v].transfer_id
                     = running_transfer[v].transfer_id
                /\ running_transfer[v].is_finalized
                     => running_transfer'[v].is_finalized
    PROVE  ChoiceInv'
  <1>1. ASSUME NEW f \in finalize_transfer, NEW u,
               u = prepared[f.transfer_id].uuid
        PROVE  /\ u = prepared'[f.transfer_id].uuid
               /\ running_transfer'[u].exists
                    => Justifies(running_transfer[u], f)'
               /\ \A c \in Consumers :
                     /\ sessions'[c].active
                     /\ sessions'[c].message.uuid = u
                     /\ sessions'[c].rt.exists
                     => Justifies(sessions[c].rt, f)'
    <2>1. /\ u \in prepare_transfer /\ u \in Uuids
          /\ prepared'[f.transfer_id].uuid = u
          /\ prepared'[f.transfer_id].matches
               = prepared[f.transfer_id].matches
      BY <1>1, InstructedIsFixed DEF TypeOK
    <2>2. /\ running_transfer[u].exists => Justifies(running_transfer[u], f)
          /\ \A c \in Consumers :
                /\ sessions[c].active
                /\ sessions[c].message.uuid = u
                /\ sessions[c].rt.exists
                => Justifies(sessions[c].rt, f)
      BY <1>1 DEF ChoiceInv, InstructionsAreJustified
    <2>3. ASSUME running_transfer'[u].exists
          PROVE  Justifies(running_transfer[u], f)'
      <3>1. /\ running_transfer[u].exists
            /\ running_transfer'[u].transfer_id
                 = running_transfer[u].transfer_id
            /\ running_transfer[u].is_finalized
                 => running_transfer'[u].is_finalized
        BY <2>1, <2>3
      <3> QED
        BY <2>1, <2>2, <3>1 DEF Justifies
    <2>4. ASSUME NEW c \in Consumers, sessions'[c].active,
                 sessions'[c].message.uuid = u, sessions'[c].rt.exists
          PROVE  Justifies(sessions[c].rt, f)'
      <3>1. sessions[c].active /\ sessions'[c] = sessions[c]
        BY <2>4
      <3> QED
        BY <2>1, <2>2, <2>4, <3>1 DEF Justifies
    <2> QED
      BY <2>1, <2>3, <2>4
  <1>2. InstructionsAreJustified'
    BY <1>1 DEF InstructionsAreJustified
  <1>3. ReadsAreCurrent'
    <2>1. SUFFICES ASSUME NEW c \in Consumers, sessions'[c].active,
                          running_transfer'[sessions'[c].message.uuid].exists
                   PROVE  LET rt == sessions'[c].rt
                              current ==
                                running_transfer'[sessions'[c].message.uuid]
                          IN  /\ current.transfer_id = rt.transfer_id
                              /\ rt.is_finalized => current.is_finalized
      BY DEF ReadsAreCurrent
    <2>2. sessions[c].active /\ sessions'[c] = sessions[c]
      BY <2>1
    <2> DEFINE u == sessions[c].message.uuid
    <2>3. u \in Uuids /\ u \in prepare_transfer
      BY <2>2, HandlerFacts, SentIsRequested DEF TransferInv
    <2>4. /\ running_transfer[u].exists
          /\ running_transfer'[u].transfer_id
               = running_transfer[u].transfer_id
          /\ running_transfer[u].is_finalized
               => running_transfer'[u].is_finalized
      BY <2>1, <2>2, <2>3
    <2> QED
      BY <2>2, <2>4 DEF ChoiceInv, ReadsAreCurrent
  <1>4. OneIsCommitted'
    BY InstructedIsFixed DEF ChoiceInv, OneIsCommitted
  <1> QED
    BY <1>2, <1>3, <1>4 DEF ChoiceInv

\* The consumer reads.
LEMMA FindKeepsChoice ==
    ASSUME TypeOK, TransferInv, ChoiceInv, NEW c \in Consumers,
           NEW m \in Messages, find_running_transfer(c, m)
    PROVE  ChoiceInv'
  <1>1. [Next]_vars
    BY DEF Next
  <1>2. /\ prepared' = prepared
        /\ running_transfer' = running_transfer
        /\ finalize_transfer' = finalize_transfer
    BY DEF find_running_transfer
  <1>3. /\ sessions'[c] = [active |-> TRUE, message |-> m,
                           rt |-> running_transfer[m.uuid]]
        /\ \A d \in Consumers : d # c => sessions'[d] = sessions[d]
    BY DEF find_running_transfer, TypeOK
  <1>4. ASSUME NEW f \in finalize_transfer, NEW u,
               u = prepared[f.transfer_id].uuid
        PROVE  /\ running_transfer'[u].exists
                    => Justifies(running_transfer[u], f)'
               /\ \A d \in Consumers :
                     /\ sessions'[d].active
                     /\ sessions'[d].message.uuid = u
                     /\ sessions'[d].rt.exists
                     => Justifies(sessions[d].rt, f)'
    <2>1. /\ running_transfer[u].exists => Justifies(running_transfer[u], f)
          /\ \A d \in Consumers :
                /\ sessions[d].active
                /\ sessions[d].message.uuid = u
                /\ sessions[d].rt.exists
                => Justifies(sessions[d].rt, f)
      BY <1>4 DEF ChoiceInv, InstructionsAreJustified
    <2>2. ASSUME NEW d \in Consumers, sessions'[d].active,
                 sessions'[d].message.uuid = u, sessions'[d].rt.exists
          PROVE  Justifies(sessions[d].rt, f)'
      <3>1. CASE d = c
        BY <1>2, <1>3, <2>1, <2>2, <3>1 DEF Justifies
      <3>2. CASE d # c
        BY <1>2, <1>3, <2>1, <2>2, <3>2 DEF Justifies
      <3> QED
        BY <3>1, <3>2
    <2> QED
      BY <1>2, <2>1, <2>2 DEF Justifies
  <1>5. InstructionsAreJustified'
    BY <1>2, <1>4 DEF InstructionsAreJustified
  <1>6. ReadsAreCurrent'
    <2>1. ASSUME NEW d \in Consumers, sessions'[d].active,
                 running_transfer'[sessions'[d].message.uuid].exists
          PROVE  LET rt == sessions'[d].rt
                     current == running_transfer'[sessions'[d].message.uuid]
                 IN  /\ current.transfer_id = rt.transfer_id
                     /\ rt.is_finalized => current.is_finalized
      <3>1. CASE d = c
        BY <1>2, <1>3, <3>1
      <3>2. CASE d # c
        BY <1>2, <1>3, <2>1, <3>2 DEF ChoiceInv, ReadsAreCurrent
      <3> QED
        BY <3>1, <3>2
    <2> QED
      BY <2>1 DEF ReadsAreCurrent
  <1>7. OneIsCommitted'
    BY <1>2 DEF ChoiceInv, OneIsCommitted
  <1> QED
    BY <1>5, <1>6, <1>7 DEF ChoiceInv

\* The consumer chooses.  It is the only one, so the row has the transfer ID
\* that was read, and no other read is left open.
LEMMA PreparedKeepsChoice ==
    ASSUME OneConsumer, TypeOK, TransferInv, ChoiceInv, NEW c \in Consumers,
           process_prepared_direct_transfer_signal(c)
    PROVE  ChoiceInv'
  <1> DEFINE m == sessions[c].message
             rt == sessions[c].rt
             v == sessions[c].message.uuid
             is_match == rt.exists /\ m.matches
             g == [transfer_id |-> m.transfer_id,
                   is_committed |-> is_match /\ IsChosen(m, rt)]
  <1>1. /\ sessions[c].active /\ m.type = "PreparedTransfer"
        /\ EndSession(c) /\ prepared' = prepared
        /\ finalize_transfer' = finalize_transfer \cup {g}
        /\ IF is_match /\ IsFirst(m, rt)
             THEN /\ running_transfer[v].exists
                  /\ running_transfer' = [running_transfer EXCEPT
                       ![v].transfer_id = m.transfer_id]
             ELSE running_transfer' = running_transfer
    BY DEF process_prepared_direct_transfer_signal, IsHandling,
           FinalizeTransferSignal
  <1>2. /\ m \in Messages /\ v \in Uuids /\ Sent(m)
        /\ m.transfer_id \in TransferIds
        /\ rt \in RunningTransfer
        /\ running_transfer[v].exists => rt.exists
    BY <1>1, HandlerFacts, MessageType
  <1>3. /\ prepared[m.transfer_id].uuid = v
        /\ prepared[m.transfer_id].matches = m.matches
    BY <1>1, <1>2, SentMeans
  <1>4. running_transfer[v].exists =>
          /\ running_transfer[v].transfer_id = rt.transfer_id
          /\ rt.is_finalized => running_transfer[v].is_finalized
    BY <1>1 DEF ChoiceInv, ReadsAreCurrent
  <1>5. \A d \in Consumers : sessions'[d].active = FALSE
    BY <1>1, EndSessionType, IdleTypes DEF OneConsumer
  <1>6. \A f \in finalize_transfer :
           /\ f.transfer_id \in TransferIds
           /\ LET u == prepared[f.transfer_id].uuid
              IN  /\ running_transfer[u].exists
                       => Justifies(running_transfer[u], f)
                  /\ u = v /\ rt.exists => Justifies(rt, f)
    BY <1>1 DEF ChoiceInv, InstructionsAreJustified, TypeOK, FinalizeTransfer
  <1>7. None \notin TransferIds
    BY TransferAssumptions DEF None
  <1>8. /\ g.transfer_id = m.transfer_id
        /\ g.is_committed <=> is_match /\ IsChosen(m, rt)
    OBVIOUS
  <1> HIDE DEF m, rt, v, g
  <1>9. CASE is_match /\ IsFirst(m, rt)
    <2>1. /\ running_transfer[v].exists
          /\ running_transfer'[v].transfer_id = m.transfer_id
          /\ \A u \in Uuids : u # v =>
               running_transfer'[u] = running_transfer[u]
      BY <1>1, <1>2, <1>9 DEF TypeOK, RunningTransfer
    <2>2. g.is_committed
      BY <1>8, <1>9 DEF IsChosen
    <2>3. \A f \in finalize_transfer :
             prepared[f.transfer_id].uuid = v =>
               ~f.is_committed /\ ~prepared[f.transfer_id].matches
      BY <1>6, <1>7, <1>9 DEF Justifies, IsFirst
    <2>4. ASSUME NEW f \in finalize_transfer', NEW u,
                 u = prepared[f.transfer_id].uuid,
                 running_transfer'[u].exists
          PROVE  Justifies(running_transfer[u], f)'
      <3>1. CASE f = g
        BY <1>1, <1>3, <1>8, <1>9, <2>1, <2>2, <2>4, <3>1 DEF Justifies
      <3>2. CASE f # g
        <4>1. f \in finalize_transfer
          BY <1>1, <3>2
        <4>2. CASE u = v
          BY <1>1, <2>3, <2>4, <4>1, <4>2 DEF Justifies
        <4>3. CASE u # v
          <5>1. u \in Uuids
            BY <2>4, <4>1 DEF TransferInv, AnswersFitRequests, TypeOK,
                              FinalizeTransfer
          <5>2. running_transfer'[u] = running_transfer[u]
            BY <2>1, <4>3, <5>1
          <5> QED
            BY <1>1, <1>6, <2>4, <4>1, <5>2 DEF Justifies
        <4> QED
          BY <4>2, <4>3
      <3> QED
        BY <3>1, <3>2
    <2>5. InstructionsAreJustified'
      BY <1>1, <1>5, <2>4 DEF InstructionsAreJustified
    <2>6. OneIsCommitted'
      BY <1>1, <1>3, <1>8, <2>3 DEF ChoiceInv, OneIsCommitted
    <2> QED
      BY <1>5, <2>5, <2>6 DEF ChoiceInv, ReadsAreCurrent
  <1>10. CASE ~(is_match /\ IsFirst(m, rt))
    <2>1. running_transfer' = running_transfer
      BY <1>1, <1>10
    <2>2. running_transfer[v].exists => Justifies(running_transfer[v], g)
      <3>1. ASSUME running_transfer[v].exists, g.is_committed
            PROVE  /\ m.matches
                   /\ running_transfer[v].transfer_id = m.transfer_id
        BY <1>4, <1>8, <1>10, <3>1 DEF IsChosen
      <3>2. ASSUME running_transfer[v].exists, ~g.is_committed, m.matches
            PROVE  /\ running_transfer[v].transfer_id # m.transfer_id
                   /\ \/ running_transfer[v].is_finalized
                      \/ running_transfer[v].transfer_id # None
        BY <1>2, <1>4, <1>8, <1>10, <3>2 DEF IsChosen, IsFirst
      <3> QED
        BY <1>3, <1>8, <3>1, <3>2 DEF Justifies
    <2>3. ASSUME NEW f \in finalize_transfer', NEW u,
                 u = prepared[f.transfer_id].uuid,
                 running_transfer[u].exists
          PROVE  Justifies(running_transfer[u], f)
      <3>1. CASE f = g
        BY <1>3, <1>8, <2>2, <2>3, <3>1
      <3>2. CASE f # g
        BY <1>1, <1>6, <2>3, <3>2
      <3> QED
        BY <3>1, <3>2
    <2>4. InstructionsAreJustified'
      BY <1>1, <1>5, <2>1, <2>3 DEF InstructionsAreJustified, Justifies
    <2>5. ASSUME NEW f \in finalize_transfer, f.is_committed, g.is_committed,
                 prepared[f.transfer_id].uuid = v
          PROVE  f.transfer_id = m.transfer_id
      <3>1. rt.exists /\ rt.transfer_id = m.transfer_id
        BY <1>8, <1>10, <2>5 DEF IsChosen
      <3> QED
        BY <1>6, <2>5, <3>1 DEF Justifies
    <2>6. OneIsCommitted'
      BY <1>1, <1>3, <1>8, <2>5 DEF ChoiceInv, OneIsCommitted
    <2> QED
      BY <1>5, <2>4, <2>6 DEF ChoiceInv, ReadsAreCurrent
  <1> QED
    BY <1>9, <1>10

\* Finalizing a row leaves alone what the choice depends on.
LEMMA FinalizeKeepsColumns ==
    ASSUME TypeOK, NEW u \in Uuids, NEW rt, NEW error_code,
           FinalizeRunningTransfer(u, rt, error_code)
    PROVE  \A v \in Uuids :
             /\ running_transfer'[v].exists = running_transfer[v].exists
             /\ running_transfer'[v].transfer_id
                  = running_transfer[v].transfer_id
             /\ running_transfer[v].is_finalized
                  => running_transfer'[v].is_finalized
  <1> DEFINE row == running_transfer[u]
             id == rt.latest_update_id + 1
             code == WrittenErrorCode(row.error_code, rt, error_code)
  <1>1. running_transfer' = [running_transfer EXCEPT
           ![u] = [row EXCEPT !.latest_update_id = id,
                              !.is_finalized = TRUE, !.error_code = code]]
    BY DEF FinalizeRunningTransfer, WrittenErrorCode, TypeOK
  <1>2. row \in RunningTransfer
    BY DEF TypeOK
  <1> HIDE DEF id, code, row
  <1> DEFINE new == [row EXCEPT !.latest_update_id = id,
                                !.is_finalized = TRUE, !.error_code = code]
  <1>3. /\ new.exists = row.exists
        /\ new.transfer_id = row.transfer_id
        /\ new.is_finalized = TRUE
    BY <1>2 DEF RunningTransfer
  <1> HIDE DEF new
  <1>4. running_transfer' = [running_transfer EXCEPT ![u] = new]
    BY <1>1 DEF new
  <1> QED
    BY <1>3, <1>4 DEF TypeOK, row

LEMMA FinalizeIfNeededKeepsColumns ==
    ASSUME TypeOK, NEW u \in Uuids, NEW rt, NEW error_code,
           FinalizeIfNeeded(u, rt, error_code)
    PROVE  \A v \in Uuids :
             /\ running_transfer'[v].exists = running_transfer[v].exists
             /\ running_transfer'[v].transfer_id
                  = running_transfer[v].transfer_id
             /\ running_transfer[v].is_finalized
                  => running_transfer'[v].is_finalized
  BY FinalizeKeepsColumns DEF FinalizeIfNeeded

LEMMA WebApiKeepsChoice ==
    ASSUME TypeOK, TransferInv, ChoiceInv, WebApi
    PROVE  ChoiceInv'
  <1>1. [Next]_vars
    BY DEF Next
  <1>2. finalize_transfer' = finalize_transfer /\ sessions' = sessions
    BY DEF WebApi, initiate_running_transfer, cancel_running_transfer,
           delete_running_transfer
  <1>3. ASSUME NEW v \in Uuids, running_transfer'[v].exists
        PROVE  \/ v \notin prepare_transfer
               \/ /\ running_transfer[v].exists
                  /\ running_transfer'[v].transfer_id
                       = running_transfer[v].transfer_id
                  /\ running_transfer[v].is_finalized
                       => running_transfer'[v].is_finalized
    <2>1. ASSUME NEW u \in Uuids, initiate_running_transfer(u)
          PROVE  \/ v \notin prepare_transfer
                 \/ running_transfer'[v] = running_transfer[v]
      BY <2>1 DEF initiate_running_transfer, TypeOK
    <2>2. ASSUME NEW u \in Uuids, cancel_running_transfer(u)
          PROVE  /\ running_transfer[v].exists
                 /\ running_transfer'[v].transfer_id
                      = running_transfer[v].transfer_id
                 /\ running_transfer[v].is_finalized
                      => running_transfer'[v].is_finalized
      <3>1. FinalizeRunningTransfer(u, running_transfer[u],
                                    "CANCELED_BY_THE_SENDER")
        BY <2>2 DEF cancel_running_transfer
      <3> QED
        BY <1>3, <3>1, FinalizeKeepsColumns
    <2>3. ASSUME NEW u \in Uuids, delete_running_transfer(u)
          PROVE  running_transfer'[v] = running_transfer[v]
      BY <1>3, <2>3 DEF delete_running_transfer, TypeOK, NoRow
    <2> QED
      BY <1>3, <2>1, <2>2, <2>3 DEF WebApi
  <1> QED
    BY <1>1, <1>2, <1>3, OtherStepsKeepChoice

LEMMA CommitKeepsChoice ==
    ASSUME OneConsumer, TypeOK, TransferInv, ChoiceInv, NEW c \in Consumers,
           Commit(c)
    PROVE  ChoiceInv'
  <1> DEFINE u == sessions[c].message.uuid
  <1>1. [Next]_vars
    BY DEF Next
  <1>2. ASSUME EndSession(c), sessions[c].active,
               finalize_transfer' = finalize_transfer,
               \A v \in Uuids :
                 /\ running_transfer'[v].exists = running_transfer[v].exists
                 /\ running_transfer'[v].transfer_id
                      = running_transfer[v].transfer_id
                 /\ running_transfer[v].is_finalized
                      => running_transfer'[v].is_finalized
        PROVE  ChoiceInv'
    <2>1. \A d \in Consumers : sessions'[d].active =>
             sessions[d].active /\ sessions'[d] = sessions[d]
      BY <1>2, EndSessionType, IdleTypes
    <2> QED
      BY <1>1, <1>2, <2>1, OtherStepsKeepChoice
  <1>3. CASE process_rejected_direct_transfer_signal(c)
    <2>1. /\ sessions[c].active /\ EndSession(c)
          /\ finalize_transfer' = finalize_transfer
          /\ \/ running_transfer' = running_transfer
             \/ \E code : FinalizeIfNeeded(u, sessions[c].rt, code)
      BY <1>3 DEF process_rejected_direct_transfer_signal, IsHandling
    <2>2. u \in Uuids
      BY <2>1, SessionType
    <2> HIDE DEF u
    <2> QED
      BY <1>2, <2>1, <2>2, FinalizeIfNeededKeepsColumns
  <1>4. CASE process_prepared_direct_transfer_signal(c)
    BY <1>4, PreparedKeepsChoice
  <1>5. CASE process_finalized_direct_transfer_signal(c)
    <2>1. /\ sessions[c].active /\ EndSession(c)
          /\ finalize_transfer' = finalize_transfer
          /\ \/ running_transfer' = running_transfer
             \/ \E code : FinalizeIfNeeded(u, sessions[c].rt, code)
      BY <1>5 DEF process_finalized_direct_transfer_signal, IsHandling
    <2>2. u \in Uuids
      BY <2>1, SessionType
    <2> HIDE DEF u
    <2> QED
      BY <1>2, <2>1, <2>2, FinalizeIfNeededKeepsColumns
  <1>6. CASE RollBack(c)
    BY <1>2, <1>6 DEF RollBack
  <1> QED
    BY <1>3, <1>4, <1>5, <1>6 DEF Commit

LEMMA NextChoice ==
    ASSUME OneConsumer, TypeOK, TransferInv, ChoiceInv, [Next]_vars
    PROVE  ChoiceInv'
  <1>1. CASE Server
    <2>1. /\ running_transfer' = running_transfer
          /\ sessions' = sessions
          /\ finalize_transfer' = finalize_transfer
      BY <1>1 DEF Server, ServerPrepares, ServerRejects, ServerFinalizes
    <2> QED
      BY <2>1, OtherStepsKeepChoice
  <1>2. CASE WebApi
    BY <1>2, WebApiKeepsChoice
  <1>3. ASSUME NEW c \in Consumers, NEW m \in Messages,
               find_running_transfer(c, m)
        PROVE  ChoiceInv'
    BY <1>3, FindKeepsChoice
  <1>4. ASSUME NEW c \in Consumers, Commit(c)
        PROVE  ChoiceInv'
    BY <1>4, CommitKeepsChoice
  <1>5. CASE UNCHANGED vars
    <2>1. /\ running_transfer' = running_transfer
          /\ sessions' = sessions
          /\ finalize_transfer' = finalize_transfer
      BY <1>5 DEF vars
    <2> QED
      BY <2>1, OtherStepsKeepChoice
  <1> QED
    BY <1>1, <1>2, <1>3, <1>4, <1>5 DEF Next

LEMMA InitChoice == Init => ChoiceInv
  BY IdleTypes DEF Init, ChoiceInv, InstructionsAreJustified,
                   ReadsAreCurrent, OneIsCommitted

\* The invariant of the choice between prepared transfers.
THEOREM ChoiceCorrect ==
    ASSUME OneConsumer
    PROVE  Spec => []ChoiceInv
  <1>1. TypeOK /\ TransferInv /\ ChoiceInv /\ [Next]_vars => ChoiceInv'
    BY NextChoice
  <1> QED
    BY <1>1, InitChoice, TypeCorrect, TransfersCorrect, PTL DEF Spec

\* With one consumer thread, a transfer is paid at most once, however often
\* PrepareTransfer, PreparedTransfer and FinalizeTransfer are delivered.
THEOREM PaidOnceCorrect ==
    ASSUME OneConsumer
    PROVE  Spec => []PaidOnce
  <1>1. ASSUME TypeOK, TransferInv, ChoiceInv
        PROVE  PaidOnce
    <2>1. SUFFICES ASSUME NEW i \in TransferIds, NEW j \in TransferIds,
                          prepared[i].status = "committed",
                          prepared[j].status = "committed",
                          prepared[i].uuid = prepared[j].uuid
                   PROVE  i = j
      BY DEF PaidOnce
    <2> DEFINE f == [transfer_id |-> i, is_committed |-> TRUE]
               g == [transfer_id |-> j, is_committed |-> TRUE]
    <2>2. f \in finalize_transfer /\ g \in finalize_transfer
      BY <1>1, <2>1 DEF TransferInv, AnswersFitRequests
    <2> QED
      BY <1>1, <2>1, <2>2 DEF ChoiceInv, OneIsCommitted
  <1> QED
    BY <1>1, TypeCorrect, TransfersCorrect, ChoiceCorrect, PTL

\* With one consumer thread, the authority is not told to commit and to
\* dismiss the same prepared transfer while its row is there.
THEOREM InstructionsCorrect ==
    ASSUME OneConsumer
    PROVE  Spec => []NoMixedInstructions
  <1>1. ASSUME TypeOK, ChoiceInv
        PROVE  NoMixedInstructions
    <2>1. SUFFICES ASSUME NEW f \in finalize_transfer,
                          NEW g \in finalize_transfer,
                          f.transfer_id = g.transfer_id,
                          running_transfer[prepared[f.transfer_id].uuid].exists
                   PROVE  f = g
      BY DEF NoMixedInstructions
    <2>2. f.is_committed <=> g.is_committed
      BY <1>1, <2>1 DEF ChoiceInv, InstructionsAreJustified, Justifies
    <2>3. f \in FinalizeTransfer /\ g \in FinalizeTransfer
      BY <1>1 DEF TypeOK
    <2>4. f.is_committed = g.is_committed
      BY <2>2, <2>3 DEF FinalizeTransfer
    <2> QED
      BY <2>1, <2>3, <2>4 DEF FinalizeTransfer
  <1> QED
    BY <1>1, TypeCorrect, ChoiceCorrect, PTL

=============================================================================
