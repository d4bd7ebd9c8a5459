------------------------------ MODULE PinInfo ------------------------------
(***************************************************************************)
(* The PIN of one creditor, and the attempts to enter it.                  *)
(*                                                                         *)
(* verify_pin_value reads the row without a lock, and writes the columns   *)
(* that it has changed when it commits.  update_pin_info locks the row     *)
(* first.  An attempt that fails commits as well, for the counters; only   *)
(* then is the request refused.                                            *)
(***************************************************************************)
EXTENDS Integers, FiniteSets

CONSTANTS
    Pins,               \* the PINs that may be set, or entered
    NoPin,              \* no value
    PinLength,          \* the length of each PIN
    MaxAfa,             \* int(exp(1.1513 * (n - 2))) for a PIN of n digits
    PinSessions,        \* the requests that verify a PIN at once
    PIN_RESET_DAYS,     \* APP_PIN_FAILURES_RESET_DAYS
    MaxPinUpdateId,     \* bound: of latest_update_id
    MaxPinDay           \* bound: of the calendar

\* PIN_REGEX: four to ten digits.
ASSUME PinInfoAssumption ==
    /\ NoPin \notin Pins
    /\ PinLength \in [Pins -> 4..10]
    /\ MaxAfa \in [0..10 -> Nat] /\ MaxAfa[0] = 0
    /\ \A n \in 4..10 : MaxAfa[n] > 0
    /\ PIN_RESET_DAYS \in Nat \ {0}
    /\ MaxPinDay \in Nat

VARIABLES
    pin_day,            \* the calendar
    pin_info,           \* the row in the pin_info table
    pin_session,        \* what the sessions have read
    failures,           \* ghost: wrong PINs since a correct or new one
    failed_attempts,    \* ghost: wrong PINs since the PIN was blocked
    overlapped,         \* ghost: a session has missed a change of the row
    resets              \* ghost: the updates in PIN reset mode

pin_vars == <<pin_day, pin_info, pin_session, failures, failed_attempts,
              overlapped, resets>>

StatusNames == {"off", "on", "blocked"}

\* pin_hmac and pin_salt stand for the PIN they have been made from.
PinInfoRow ==
    [status: StatusNames, cfa: Nat, afa: Nat, afa_last_reset: Nat,
     pin_length: Nat, pin: Pins \cup {NoPin}, latest_update_id: Nat]

\* Made by activate_creditor.
FirstPinInfo ==
    [status |-> "off", cfa |-> 0, afa |-> 0, afa_last_reset |-> 0,
     pin_length |-> 0, pin |-> NoPin, latest_update_id |-> 1]

NoSession == [busy |-> FALSE, row |-> FirstPinInfo, value |-> NoPin]

PinInit ==
    /\ pin_day = 0
    /\ pin_info = FirstPinInfo
    /\ pin_session = [s \in PinSessions |-> NoSession]
    /\ failures = 0
    /\ failed_attempts = {}
    /\ overlapped = FALSE
    /\ resets = 0

NextPinDay ==
    /\ pin_day < MaxPinDay
    /\ pin_day' = pin_day + 1
    /\ UNCHANGED <<pin_info, pin_session, failures, failed_attempts,
                   overlapped, resets>>

-----------------------------------------------------------------------------
(* The methods of PinInfo                                                  *)

_get_max_cfa(row) == (3 * row.pin_length - 6) \div 2
_get_max_afa(row) == MaxAfa[row.pin_length]

\* Slip: the length of the PIN is kept.
BlockKeepingLength(row) ==
    [row EXCEPT !.status = "blocked", !.pin = NoPin, !.afa = 0,
                !.afa_last_reset = pin_day]

_block(row) ==
    [row EXCEPT !.status = "blocked", !.pin_length = 0, !.pin = NoPin,
                !.afa = 0, !.afa_last_reset = pin_day]

_increment_cfa(row) ==
    LET counted == [row EXCEPT !.cfa = @ + 1]
    IN  IF counted.cfa >= _get_max_cfa(row) THEN _block(counted) ELSE counted

_reset_afa_if_necessary(row) ==
    IF row.afa_last_reset + PIN_RESET_DAYS <= pin_day
      THEN [row EXCEPT !.afa = 0, !.afa_last_reset = pin_day]
      ELSE row

_increment_afa(row) ==
    LET counted == [_reset_afa_if_necessary(row) EXCEPT !.afa = @ + 1]
    IN  IF counted.afa >= _get_max_afa(row) THEN _block(counted) ELSE counted

_register_failed_attempt(row) == _increment_afa(_increment_cfa(row))

\* A PIN is necessary, and there is one to compare with.
IsBlocked(row) == row.status = "blocked"
IsRequired(row) == row.status # "off"

\* Slip: a PIN that has been set for a blocked row opens it.
RequiresCorrectPin(row, value) == IsRequired(row) => value = row.pin /\ value # NoPin

IsAccepted(row, value) ==
    /\ ~IsBlocked(row)
    /\ IsRequired(row) => value = row.pin

\* "if value is None: return False" comes before the comparison.
IsFailedAttempt(row, value) ==
    /\ ~IsBlocked(row)
    /\ IsRequired(row)
    /\ value \notin {NoPin, row.pin}

try_value(row, value) ==
    IF IsFailedAttempt(row, value) THEN _register_failed_attempt(row)
    ELSE IF IsAccepted(row, value) THEN [row EXCEPT !.cfa = 0]
    ELSE row

set_value(row, value) ==
    [row EXCEPT !.cfa = 0, !.pin = value,
                !.pin_length = IF value = NoPin THEN 0 ELSE PinLength[value]]

-----------------------------------------------------------------------------
(* The transactions                                                        *)

\* The failures that count, after an attempt with a result.
CountAttempt(row, value) ==
    IF IsFailedAttempt(row, value)
      THEN IF IsBlocked(try_value(row, value))
             THEN failures' = 0 /\ failed_attempts' = {}
             ELSE /\ failures' = failures + 1
                  /\ failed_attempts' = failed_attempts \cup
                       {[n |-> Cardinality(failed_attempts), day |-> pin_day]}
      ELSE /\ failures' = IF IsAccepted(row, value) THEN 0 ELSE failures
           /\ UNCHANGED failed_attempts

\* verify_pin_value reads ...
BeginVerification(s, value) ==
    /\ ~pin_session[s].busy
    /\ pin_session' = [pin_session EXCEPT
           ![s] = [busy |-> TRUE, row |-> pin_info, value |-> value]]
    /\ UNCHANGED <<pin_day, pin_info, failures, failed_attempts, overlapped,
                   resets>>

\* An UPDATE of the columns that differ from what has been read.
Written(old, new) ==
    [c \in DOMAIN pin_info |-> IF new[c] = old[c] THEN pin_info[c] ELSE new[c]]

\* Slip: a wrong PIN raises WrongPinValue before the transaction ends.
SavedIfAccepted(row, value) ==
    IF IsAccepted(row, value) THEN Written(row, try_value(row, value)) ELSE pin_info

\* The helper returns False instead of raising an exception.
Saved(row, value) == Written(row, try_value(row, value))

\* ... and commits.
verify_pin_value(s) ==
    LET row == pin_session[s].row
        value == pin_session[s].value
    IN  /\ pin_session[s].busy
        /\ pin_session' = [pin_session EXCEPT ![s] = NoSession]
        /\ pin_info' = Saved(row, value)
        /\ overlapped' = (overlapped \/ row # pin_info)
        /\ CountAttempt(row, value)
        /\ UNCHANGED <<pin_day, resets>>

\* The session ends before it commits.
AbortVerification(s) ==
    /\ pin_session[s].busy
    /\ pin_session' = [pin_session EXCEPT ![s] = NoSession]
    /\ UNCHANGED <<pin_day, pin_info, failures, failed_attempts, overlapped,
                   resets>>

\* A PIN that is "on" needs a value (PinInfoSchema.validate_value).
IsValidPinInfo(status_name, new_pin) == status_name = "on" => new_pin # NoPin

\* The client has seen the latest update ID, or there is an UpdateConflict.
update_pin_info(status_name, new_pin, pin_reset_mode, value) ==
    /\ IsValidPinInfo(status_name, new_pin)
    /\ pin_info.latest_update_id < MaxPinUpdateId
    /\ IF pin_reset_mode \/ IsAccepted(pin_info, value)
         THEN LET row == IF pin_reset_mode THEN pin_info
                         ELSE try_value(pin_info, value)
              IN  /\ pin_info' = [set_value(row, new_pin) EXCEPT
                                     !.status = status_name,
                                     !.latest_update_id = @ + 1]
                  /\ failures' = 0
                  /\ UNCHANGED failed_attempts
         ELSE /\ pin_info' = Saved(pin_info, value)
              /\ CountAttempt(pin_info, value)
    /\ resets' = IF pin_reset_mode THEN resets + 1 ELSE resets
    /\ UNCHANGED <<pin_day, pin_session, overlapped>>

-----------------------------------------------------------------------------
Values == Pins \cup {NoPin}

ChangePin ==
    \E status_name \in StatusNames, new_pin \in Values, value \in Values,
       pin_reset_mode \in BOOLEAN :
        update_pin_info(status_name, new_pin, pin_reset_mode, value)

PinNext ==
    \/ NextPinDay
    \/ \E s \in PinSessions :
          \/ \E value \in Values : BeginVerification(s, value)
          \/ verify_pin_value(s)
          \/ AbortVerification(s)
    \/ ChangePin

PinSpec == PinInit /\ [][PinNext]_pin_vars

-----------------------------------------------------------------------------
\* The check constraints of the table hold whatever partial updates are mixed:
\* above all, a PIN that is "on" is there, and its length is its own.
PinTypeOK ==
    /\ pin_day \in Nat
    /\ pin_info \in PinInfoRow
    /\ pin_session \in [PinSessions -> [busy: BOOLEAN, row: PinInfoRow, value: Values]]
    /\ failures \in Nat /\ resets \in Nat /\ overlapped \in BOOLEAN
    /\ pin_info.status = "on" => pin_info.pin # NoPin
    /\ pin_info.pin_length = IF pin_info.pin = NoPin THEN 0
                             ELSE PinLength[pin_info.pin]

\* A blocked PIN is unblocked by a change in PIN reset mode only: not by the
\* correct PIN, nor by a session that has read the row before it was blocked.
BlockedStaysBlocked ==
    [][pin_info.status = "blocked" /\ pin_info'.status # "blocked"
         => resets' > resets]_pin_vars

LongestLimit == CHOOSE m \in {MaxAfa[PinLength[p]] : p \in Pins} :
                    \A p \in Pins : MaxAfa[PinLength[p]] <= m

\* While attempts do not overlap, a PIN that is not blocked has seen less
\* consecutive failures than its length allows, and no period of
\* APP_PIN_FAILURES_RESET_DAYS had twice the accumulated failures that the
\* longest PIN allows, whatever PINs have been set meanwhile.
FailuresAreLimited ==
    ~overlapped /\ pin_info.status = "on" =>
        /\ failures < _get_max_cfa(pin_info)
        /\ \A d \in 0..MaxPinDay :
              Cardinality({f \in failed_attempts :
                              f.day \in d .. d + PIN_RESET_DAYS - 1})
                  <= 2 * (LongestLimit - 1)

=============================================================================
