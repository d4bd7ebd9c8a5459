--------------------------- MODULE AccountConfig ---------------------------
(***************************************************************************)
(* The configuration of one account, and the server account it is about,   *)
(* which the accounting authority keeps.  ConfigureAccount messages go     *)
(* there; AccountUpdate, AccountPurge and RejectedConfig come back, late,  *)
(* repeatedly, in any order, or not at all.                                *)
(*                                                                         *)
(* The handlers lock the row of account_data.  delete_account does not: it *)
(* reads the row and deletes it later; and where there is no row there is  *)
(* nothing to be locked, so that the account may be created before the     *)
(* handler of an AccountUpdate decides what to do with the orphan.         *)
(***************************************************************************)
EXTENDS Naturals, FiniteSets

CONSTANTS
    ConfigData,         \* config_data and negligible_amount together
    DefaultConfig,      \* those of a new account
    HugeNegligible,     \* those of an account that is discarded
    MAX_CONFIG_DELAY,   \* APP_MAX_CONFIG_DELAY_HOURS
    MAX_HEARTBEAT_DELAY,\* APP_MAX_HEARTBEAT_DELAY_DAYS
    MaxTick,            \* bound: of the clock
    MaxSeqnum,          \* bound: of last_config_seqnum
    MaxServerChanges,   \* bound: of the changes of the server account
    MaxRejections       \* bound: of the configurations that are rejected

ASSUME AccountConfigAssumption ==
    /\ DefaultConfig \in ConfigData
    /\ MAX_CONFIG_DELAY \in Nat /\ MAX_HEARTBEAT_DELAY \in Nat

VARIABLES
    tick,               \* the clock
    account_data,       \* the row in the account_data table
    logged_info,        \* ghost: AccountInfo as of its last log entry
    configure_account,  \* ConfigureAccount messages that have been sent
    server_account,     \* the account at the authority
    server_states,      \* all of its states, which AccountUpdates report
    purges,             \* AccountPurge messages: creation dates
    rejected_configs,   \* RejectedConfig messages
    deletion,           \* a row that delete_account has found safe to delete
    orphaned            \* an AccountUpdate whose handler has found no row

config_vars == <<tick, account_data, logged_info, configure_account,
    server_account, server_states, purges, rejected_configs, deletion,
    orphaned>>

AllConfigData == ConfigData \cup {HugeNegligible}

\* config_flags are reduced to is_scheduled_for_deletion.
Config == [ts: Nat, seqnum: Nat, scheduled: BOOLEAN, data: AllConfigData]

ConfigErrors == {"none", "rejected", "not_effectual"}

AccountDataRow ==
    [exists: BOOLEAN, config: Config, is_config_effectual: BOOLEAN,
     config_error: ConfigErrors, has_server_account: BOOLEAN,
     creation_date: Nat, last_change: Nat, last_heartbeat_ts: Nat]

ServerAccount ==
    [exists: BOOLEAN, config: Config, creation_date: Nat, last_change: Nat]

NewConfig(ts) ==
    [ts |-> ts, seqnum |-> 0, scheduled |-> FALSE, data |-> DefaultConfig]

NewAccountData(ts) ==
    [exists |-> TRUE, config |-> NewConfig(ts), is_config_effectual |-> FALSE,
     config_error |-> "none", has_server_account |-> FALSE,
     creation_date |-> 0, last_change |-> 0, last_heartbeat_ts |-> ts]

NoAccountData == [NewAccountData(0) EXCEPT !.exists = FALSE]

NoServerAccount ==
    [exists |-> FALSE, config |-> NewConfig(0), creation_date |-> 0,
     last_change |-> 0]

is_deletion_safe(row) ==
    /\ ~row.has_server_account
    /\ row.config.scheduled
    /\ row.is_config_effectual

\* What AccountInfo shows.  The account ID comes from the server account.
VisibleInfo(row) ==
    [exists |-> row.exists, is_deletion_safe |-> is_deletion_safe(row),
     config_error |-> row.config_error, account_id |-> row.creation_date]

ConfigInit ==
    /\ tick = 0
    /\ account_data = NoAccountData
    /\ logged_info = VisibleInfo(NoAccountData)
    /\ configure_account = {}
    /\ server_account = NoServerAccount
    /\ server_states = {}
    /\ purges = {}
    /\ rejected_configs = {}
    /\ deletion = NoAccountData
    /\ orphaned = FALSE

NextTick ==
    /\ tick < MaxTick
    /\ tick' = tick + 1
    /\ UNCHANGED <<account_data, logged_info, configure_account,
                   server_account, server_states, purges, rejected_configs,
                   deletion, orphaned>>

\* Bound: what the client does leaves the scanner the time to report a problem.
HasTimeToReport == tick + MAX_CONFIG_DELAY + MAX_HEARTBEAT_DELAY + 1 < MaxTick

-----------------------------------------------------------------------------
(* The Web API                                                             *)

\* Timestamps are in microseconds: a new account is not as old as a message
\* about a deleted one.
create_new_account ==
    /\ ~account_data.exists
    /\ \A c \in configure_account : c.ts < tick
    /\ HasTimeToReport
    /\ account_data' = NewAccountData(tick)
    /\ logged_info' = VisibleInfo(NewAccountData(tick))
    /\ configure_account' = configure_account \cup {NewConfig(tick)}
    /\ UNCHANGED <<tick, server_account, server_states, purges,
                   rejected_configs, deletion, orphaned>>

NextConfig(scheduled, data) ==
    [ts |-> tick, seqnum |-> account_data.config.seqnum + 1,
     scheduled |-> scheduled, data |-> data]

ConfigureAccountMessage(old, new) == new.config

\* The client knows config_latest_update_id; otherwise there is a conflict.
update_account_config(scheduled, data) ==
    LET row == [account_data EXCEPT !.config = NextConfig(scheduled, data),
                                    !.is_config_effectual = FALSE]
    IN  /\ account_data.exists
        /\ account_data.config.seqnum < MaxSeqnum
        /\ HasTimeToReport
        /\ account_data' = row
        /\ logged_info' = IF is_deletion_safe(account_data) THEN VisibleInfo(row)
                          ELSE logged_info
        /\ configure_account' = configure_account \cup
               {ConfigureAccountMessage(account_data, row)}
        /\ UNCHANGED <<tick, server_account, server_states, purges,
                       rejected_configs, deletion, orphaned>>

\* An unsafe deletion has to be allowed by the configuration, or by the lack
\* of a debtor name.
DeleteAccountUnsafely ==
    /\ account_data.exists
    /\ HasTimeToReport
    /\ account_data' = NoAccountData
    /\ logged_info' = VisibleInfo(NoAccountData)
    /\ UNCHANGED <<tick, configure_account, server_account, server_states,
                   purges, rejected_configs, deletion, orphaned>>

\* Otherwise delete_account reads that the deletion is safe ...
FindDeletionSafe ==
    /\ account_data.exists
    /\ is_deletion_safe(account_data)
    /\ deletion' = account_data
    /\ UNCHANGED <<tick, account_data, logged_info, configure_account,
                   server_account, server_states, purges, rejected_configs,
                   orphaned>>

\* ... and deletes the row.
DeleteAccountSafely ==
    /\ deletion.exists
    /\ account_data' = NoAccountData
    /\ logged_info' = VisibleInfo(NoAccountData)
    /\ deletion' = NoAccountData
    /\ UNCHANGED <<tick, configure_account, server_account, server_states,
                   purges, rejected_configs, orphaned>>

-----------------------------------------------------------------------------
(* The accounting authority                                                *)

IsLaterConfig(c, d) == c.ts > d.ts \/ (c.ts = d.ts /\ c.seqnum > d.seqnum)

\* Every change is going to be reported by an AccountUpdate.
ChangeServerAccount(state) ==
    /\ server_account' = state
    /\ server_states' = server_states \cup {state}
    /\ UNCHANGED <<tick, account_data, logged_info, configure_account, purges,
                   rejected_configs, deletion, orphaned>>

\* Bound: of what happens at the authority without a new message.
MayChange == server_account.last_change < MaxServerChanges

\* A ConfigureAccount message configures the server account ...
Configure(c) ==
    /\ c \in configure_account \ rejected_configs
    /\ server_account.exists
    /\ IsLaterConfig(c, server_account.config)
    /\ ChangeServerAccount([server_account EXCEPT
           !.config = c, !.last_change = @ + 1])

\* ... or creates it, maybe once more, when it comes late.
CreateServerAccount(c) ==
    /\ c \in configure_account \ rejected_configs
    /\ ~server_account.exists
    /\ MayChange
    /\ ChangeServerAccount(
           [exists |-> TRUE, config |-> c,
            creation_date |-> server_account.creation_date + 1,
            last_change |-> server_account.last_change + 1])

\* A transfer changes the balance.
ChangeBalance ==
    /\ server_account.exists
    /\ MayChange
    /\ ChangeServerAccount([server_account EXCEPT !.last_change = @ + 1])

\* The configuration is not acceptable, or the authority can not be reached,
\* so that _on_configure_account_signal gets the message back.
RejectConfig(c) ==
    /\ c \in configure_account /\ c.data # HugeNegligible
    /\ \A state \in server_states : state.config # c
    /\ Cardinality(rejected_configs) < MaxRejections
    /\ rejected_configs' = rejected_configs \cup {c}
    /\ UNCHANGED <<tick, account_data, logged_info, configure_account,
                   server_account, server_states, purges, deletion, orphaned>>

\* A server account that is scheduled for deletion may be deleted.
\* Bound: there is time left to notice it.
PurgeServerAccount ==
    /\ server_account.exists
    /\ server_account.config.scheduled
    /\ tick + MAX_HEARTBEAT_DELAY < MaxTick
    /\ server_account' = [server_account EXCEPT !.exists = FALSE]
    /\ purges' = purges \cup {server_account.creation_date}
    /\ UNCHANGED <<tick, account_data, logged_info, configure_account,
                   server_states, rejected_configs, deletion, orphaned>>

-----------------------------------------------------------------------------
(* The message handlers                                                    *)

\* The handlers change the row, and the log when they have to.
ChangeAccountData(row, is_info_updated) ==
    /\ account_data' = row
    /\ logged_info' = IF is_info_updated THEN VisibleInfo(row) ELSE logged_info
    /\ UNCHANGED <<tick, configure_account, server_account, server_states,
                   purges, rejected_configs, deletion, orphaned>>

\* Slip: the timestamp of the configuration is not compared.
IsSameConfig(row, c) == c.scheduled = row.config.scheduled /\ c.data = row.config.data

IsCurrentConfig(row, c) == c = row.config

process_rejected_config_signal(c) ==
    /\ c \in rejected_configs
    /\ account_data.exists
    /\ IsCurrentConfig(account_data, c)
    /\ account_data.config_error = "none"
    /\ ChangeAccountData([account_data EXCEPT !.config_error = "rejected"], TRUE)

\* Slip: the order of events is determined by the creation dates alone.
IsOfOldAccount(state) == state.creation_date < account_data.creation_date

IsOldEvent(state) ==
    \/ state.creation_date < account_data.creation_date
    \/ /\ state.creation_date = account_data.creation_date
       /\ state.last_change <= account_data.last_change

IsInfoUpdated(old, new) ==
    \/ is_deletion_safe(old)
    \/ old.creation_date # new.creation_date
    \/ old.config_error # new.config_error

WithHeartbeat(row, ts) ==
    [row EXCEPT !.last_heartbeat_ts = IF ts > @ THEN ts ELSE @]

WithUpdate(row, state) ==
    LET is_config_effectual == IsCurrentConfig(row, state.config)
    IN  [row EXCEPT !.has_server_account = TRUE,
                    !.creation_date = state.creation_date,
                    !.last_change = state.last_change,
                    !.is_config_effectual = is_config_effectual,
                    !.config_error = IF is_config_effectual THEN "none" ELSE @]

\* An AccountUpdate about a state, sent at ts, or long ago (0).
process_account_update_signal(state, ts) ==
    LET row == WithHeartbeat(account_data, ts)
    IN  /\ account_data.exists
        /\ IF IsOldEvent(state)
             THEN ChangeAccountData(row, FALSE)
             ELSE ChangeAccountData(WithUpdate(row, state),
                                    IsInfoUpdated(row, WithUpdate(row, state)))

\* Slip: a purge of any server account will do.
PurgedAnyAccount(creation_date) == account_data.has_server_account

IsPurged(creation_date) ==
    account_data.has_server_account /\ account_data.creation_date <= creation_date

process_account_purge_signal(creation_date) ==
    /\ creation_date \in purges
    /\ account_data.exists
    /\ IsPurged(creation_date)
    /\ ChangeAccountData([account_data EXCEPT !.has_server_account = FALSE], TRUE)

\* Slip: it is enough that the account is scheduled for deletion.
IsScheduled(c) == c.scheduled

is_already_discarded(c) == c.scheduled /\ c.data = HugeNegligible

\* Bound: a message that discards the account is not repeated before it is
\* out of date; it stays in configure_account.
IsDiscardPending(state) ==
    \E c \in configure_account :
        c.data = HugeNegligible /\ IsLaterConfig(c, state.config)

\* The handler of an AccountUpdate finds no row ...
FindNoAccount(state) ==
    /\ state \in server_states
    /\ ~account_data.exists
    /\ ~is_already_discarded(state.config)
    /\ ~IsDiscardPending(state)
    /\ orphaned' = TRUE
    /\ UNCHANGED <<tick, account_data, logged_info, configure_account,
                   server_account, server_states, purges, rejected_configs,
                   deletion>>

\* ... and sends the message, whatever there is by now.
_discard_orphaned_account ==
    /\ orphaned
    /\ orphaned' = FALSE
    /\ configure_account' = configure_account \cup
           {[ts |-> tick, seqnum |-> 0, scheduled |-> TRUE, data |-> HugeNegligible]}
    /\ UNCHANGED <<tick, account_data, logged_info, server_account,
                   server_states, purges, rejected_configs, deletion>>

\* The authority repeats its last AccountUpdate from time to time.
Heartbeat ==
    /\ server_account.exists
    /\ IF account_data.exists
         THEN process_account_update_signal(server_account, tick)
         ELSE FindNoAccount(server_account)

-----------------------------------------------------------------------------
(* AccountScanner                                                          *)

\* Slip: an account without a server account is not a problem.
IsProblemOfServerAccount ==
    /\ account_data.exists
    /\ account_data.has_server_account
    /\ \/ ~account_data.is_config_effectual
       \/ account_data.last_heartbeat_ts + MAX_HEARTBEAT_DELAY < tick
    /\ account_data.config_error = "none"
    /\ account_data.config.ts + MAX_CONFIG_DELAY < tick

has_unreported_config_problem ==
    /\ account_data.exists
    /\ \/ ~account_data.is_config_effectual
       \/ /\ account_data.has_server_account
          /\ account_data.last_heartbeat_ts + MAX_HEARTBEAT_DELAY < tick
    /\ account_data.config_error = "none"
    /\ account_data.config.ts + MAX_CONFIG_DELAY < tick

\* The row is found by scanning the table; when it is locked, the conditions are
\* checked again.
_set_config_error ==
    /\ has_unreported_config_problem
    /\ ChangeAccountData([account_data EXCEPT !.config_error = "not_effectual"],
                         TRUE)

-----------------------------------------------------------------------------
ConfigNext ==
    \/ NextTick
    \/ create_new_account
    \/ \E scheduled \in BOOLEAN, data \in ConfigData :
           update_account_config(scheduled, data)
    \/ DeleteAccountUnsafely
    \/ FindDeletionSafe
    \/ DeleteAccountSafely
    \/ \E c \in configure_account :
           Configure(c) \/ CreateServerAccount(c) \/ RejectConfig(c)
    \/ ChangeBalance
    \/ PurgeServerAccount
    \/ \E c \in rejected_configs : process_rejected_config_signal(c)
    \/ \E state \in server_states :
           process_account_update_signal(state, 0) \/ FindNoAccount(state)
    \/ Heartbeat
    \/ \E creation_date \in purges : process_account_purge_signal(creation_date)
    \/ _discard_orphaned_account
    \/ _set_config_error

ConfigSpec == ConfigInit /\ [][ConfigNext]_config_vars

-----------------------------------------------------------------------------
\* The configuration of an account has been sent to its authority.
ConfigTypeOK ==
    /\ tick \in Nat
    /\ account_data \in AccountDataRow
    /\ account_data.exists => account_data.config \in configure_account
    /\ server_account \in ServerAccount
    /\ server_states \subseteq ServerAccount
    /\ configure_account \subseteq Config
    /\ rejected_configs \subseteq configure_account
    /\ purges \subseteq 1..server_account.creation_date
    /\ deletion \in AccountDataRow
    /\ orphaned \in BOOLEAN

\* A configuration is effectual exactly if the server account had this
\* configuration, with its timestamp and number, when it was heard of last:
\* late and repeated messages about other configurations do not matter.
EffectualIsCurrent ==
    account_data.exists =>
        (account_data.is_config_effectual <=>
            \E state \in server_states :
                /\ state.creation_date = account_data.creation_date
                /\ state.last_change = account_data.last_change
                /\ state.config = account_data.config)

\* When an account becomes safe for deletion, the server account that its
\* ledger follows has been purged ("is_deletion_safe"): nothing is lost.  The
\* same is true of what delete_account has read without a lock.
DeletionSafeMeansPurged ==
    \A row \in {account_data, deletion} :
        row.exists /\ is_deletion_safe(row) =>
            /\ row.creation_date \in purges
            /\ server_account.exists => server_account.creation_date > row.creation_date

\* Everything that AccountInfo shows has been logged when it changed.
InfoIsLogged == logged_info = VisibleInfo(account_data)

\* What the clients are told about the account is true, and not outdated.
InfoIsTrue == DeletionSafeMeansPurged /\ InfoIsLogged

\* Whatever the order in which messages arrive, and however often: what is
\* known of the server account never gets older, and a configuration is not
\* declared rejected because of another one.
LateMessagesAreIgnored ==
    [][account_data.exists /\ account_data'.exists =>
        /\ \/ account_data'.creation_date > account_data.creation_date
           \/ /\ account_data'.creation_date = account_data.creation_date
              /\ account_data'.last_change >= account_data.last_change
        /\ account_data'.config_error = "rejected" /\ account_data.config_error = "none"
             => account_data.config \in rejected_configs]_config_vars

\* A configuration that does not become effectual, for instance because its
\* message is lost, is reported as an error, unless it is replaced.  So is a
\* server account that disappears without a word, when the AccountPurge is lost.
ProblemsAreReported ==
    /\ \A ts \in 0..MaxTick, seqnum \in 0..MaxSeqnum :
          LET IsStill == /\ account_data.exists
                         /\ account_data.config.ts = ts
                         /\ account_data.config.seqnum = seqnum
          IN  IsStill /\ ~account_data.is_config_effectual
                ~> \/ ~IsStill
                   \/ account_data.is_config_effectual
                   \/ account_data.config_error # "none"
    /\ account_data.exists /\ account_data.has_server_account
       /\ ~server_account.exists
          ~> \/ ~account_data.exists
             \/ ~account_data.has_server_account
             \/ server_account.exists
             \/ account_data.config_error # "none"

\* A server account without an account is scheduled for deletion in the end,
\* whatever was its configuration.
OrphansAreDiscarded ==
    server_account.exists /\ ~account_data.exists
        ~> \/ account_data.exists
           \/ ~server_account.exists
           \/ /\ server_account.config.scheduled
              /\ server_account.config.data = HugeNegligible

=============================================================================
