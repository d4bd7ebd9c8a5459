--------------------------- MODULE AccountProofs ---------------------------
(***************************************************************************)
(* Proofs about the accounts: about the configuration of one account, for  *)
(* any number of configurations, changes at the authority, and messages,   *)
(* which may be late, repeated, reordered or lost; and about the updates   *)
(* of account objects, for any number of accounts, names and concurrent    *)
(* requests.                                                               *)
(***************************************************************************)
EXTENDS AccountConfig, AccountObjects, TLAPS

-----------------------------------------------------------------------------
(* The configuration of an account                                         *)

ConfigTypes ==
    /\ tick \in Nat
    /\ account_data \in AccountDataRow
    /\ server_account \in ServerAccount
    /\ server_states \subseteq ServerAccount
    /\ configure_account \subseteq Config
    /\ \A c \in configure_account : c.ts <= tick
    /\ rejected_configs \subseteq configure_account
    /\ deletion \in AccountDataRow
    /\ orphaned \in BOOLEAN

\* last_change tells the states of the server account apart, and all of their
\* configurations have come by a message.
StatesAreOrdered ==
    /\ server_account.exists =>
           server_account \in server_states /\ server_account.creation_date >= 1
    /\ \A s \in server_states :
           /\ s.config \in configure_account
           /\ s.creation_date \in 1 .. server_account.creation_date
           /\ s.last_change <= server_account.last_change
    /\ \A s, t \in server_states : s.last_change = t.last_change => s = t

\* Every server account but the present one has been purged.
PurgesAreComplete ==
    purges = 1 .. IF server_account.exists THEN server_account.creation_date - 1
                  ELSE server_account.creation_date

\* The row knows of nothing that has not happened ...
IsHeardOf(row) ==
    /\ row.last_change <= server_account.last_change
    /\ row.creation_date <= server_account.creation_date
    /\ row.has_server_account => row.creation_date >= 1
    /\ ~row.has_server_account => row.creation_date \in {0} \cup purges

\* ... says of its configuration what it has heard last ...
IsEffectualFor(row) ==
    row.is_config_effectual <=>
        \E state \in server_states :
            /\ state.creation_date = row.creation_date
            /\ state.last_change = row.last_change
            /\ state.config = row.config

\* ... and no other message can be taken for one with its next configuration.
IsLatestConfig(row) ==
    /\ row.config \in configure_account
    /\ \A c \in configure_account : c.seqnum <= row.config.seqnum \/ c.ts < tick

RowInv(row) == row.exists => IsHeardOf(row) /\ IsEffectualFor(row) /\ IsLatestConfig(row)

\* What delete_account has read stays true of the purged account.
DeletionInv == deletion.exists => deletion.creation_date \in purges

ConfigInv ==
    /\ ConfigTypes
    /\ StatesAreOrdered
    /\ PurgesAreComplete
    /\ RowInv(account_data)
    /\ DeletionInv
    /\ InfoIsLogged

-----------------------------------------------------------------------------
(* The rows                                                                *)

LEMMA NewRow ==
    ASSUME NEW ts \in Nat
    PROVE  /\ NewConfig(ts) \in Config
           /\ NewConfig(ts).ts = ts /\ NewConfig(ts).seqnum = 0
           /\ NewAccountData(ts) \in AccountDataRow
           /\ NewAccountData(ts).exists = TRUE
           /\ NewAccountData(ts).config = NewConfig(ts)
           /\ NewAccountData(ts).is_config_effectual = FALSE
           /\ NewAccountData(ts).has_server_account = FALSE
           /\ NewAccountData(ts).creation_date = 0
           /\ NewAccountData(ts).last_change = 0
  <1>1. NewConfig(ts) \in Config
    BY AccountConfigAssumption DEF NewConfig, Config, AllConfigData
  <1> QED
    BY <1>1 DEF NewConfig, NewAccountData, AccountDataRow, ConfigErrors

LEMMA NoRow == NoAccountData \in AccountDataRow /\ NoAccountData.exists = FALSE
  <1>1. NewAccountData(0) \in AccountDataRow
    BY NewRow
  <1> QED
    BY <1>1 DEF NoAccountData, AccountDataRow

LEMMA NoServer ==
    /\ NoServerAccount \in ServerAccount
    /\ NoServerAccount.exists = FALSE
    /\ NoServerAccount.creation_date = 0 /\ NoServerAccount.last_change = 0
  <1>1. NewConfig(0) \in Config
    BY NewRow
  <1> QED
    BY <1>1 DEF NoServerAccount, ServerAccount

LEMMA HeartbeatRow ==
    ASSUME NEW row \in AccountDataRow, NEW ts \in Nat
    PROVE  LET new == WithHeartbeat(row, ts)
           IN  /\ new \in AccountDataRow
               /\ new.exists = row.exists /\ new.config = row.config
               /\ new.is_config_effectual = row.is_config_effectual
               /\ new.config_error = row.config_error
               /\ new.has_server_account = row.has_server_account
               /\ new.creation_date = row.creation_date
               /\ new.last_change = row.last_change
  BY DEF WithHeartbeat, AccountDataRow

LEMMA UpdatedRow ==
    ASSUME NEW row \in AccountDataRow, NEW state \in ServerAccount
    PROVE  LET new == WithUpdate(row, state)
           IN  /\ new \in AccountDataRow
               /\ new.exists = row.exists /\ new.config = row.config
               /\ new.is_config_effectual = (state.config = row.config)
               /\ new.config_error \in {"none", row.config_error}
               /\ new.has_server_account = TRUE
               /\ new.creation_date = state.creation_date
               /\ new.last_change = state.last_change
  BY DEF WithUpdate, IsCurrentConfig, AccountDataRow, ServerAccount, ConfigErrors

LEMMA ConfiguredServer ==
    ASSUME NEW server \in ServerAccount, NEW c \in Config
    PROVE  LET new == [server EXCEPT !.config = c, !.last_change = @ + 1]
           IN  /\ new \in ServerAccount /\ new.exists = server.exists
               /\ new.config = c /\ new.creation_date = server.creation_date
               /\ new.last_change = server.last_change + 1
  <1>1. server.last_change + 1 \in Nat
    BY DEF ServerAccount
  <1> QED
    BY <1>1, Zenon DEF ServerAccount

LEMMA ServerTypes ==
    ASSUME ConfigTypes
    PROVE  /\ server_account.creation_date \in Nat /\ server_account.last_change \in Nat
           /\ \A s \in server_states : s.creation_date \in Nat /\ s.last_change \in Nat
           /\ account_data.creation_date \in Nat /\ account_data.last_change \in Nat
           /\ account_data.config.seqnum \in Nat /\ account_data.config.ts \in Nat
           /\ \A c \in configure_account : c.seqnum \in Nat /\ c.ts \in Nat
  BY DEF ConfigTypes, ServerAccount, AccountDataRow, Config

-----------------------------------------------------------------------------
LEMMA InitConfigInv == ConfigInit => ConfigInv
  <1> SUFFICES ASSUME ConfigInit
               PROVE  ConfigInv
    OBVIOUS
  <1>1. ConfigTypes
    BY NoRow, NoServer DEF ConfigInit, ConfigTypes
  <1>2. StatesAreOrdered
    BY NoServer DEF ConfigInit, StatesAreOrdered
  <1>3. PurgesAreComplete
    BY NoServer DEF ConfigInit, PurgesAreComplete
  <1>4. RowInv(account_data) /\ DeletionInv
    BY NoRow DEF ConfigInit, RowInv, DeletionInv
  <1>5. InfoIsLogged
    BY DEF ConfigInit, InfoIsLogged
  <1> QED
    BY <1>1, <1>2, <1>3, <1>4, <1>5 DEF ConfigInv

-----------------------------------------------------------------------------
(* The authority                                                           *)

\* A new state is behind all others, and so ahead of what the row has heard.
LEMMA NewStateInv ==
    ASSUME ConfigInv, NEW state \in ServerAccount, ChangeServerAccount(state),
           state.exists, state.config \in configure_account,
           state.last_change = server_account.last_change + 1,
           \/ server_account.exists
              /\ state.creation_date = server_account.creation_date
           \/ ~server_account.exists
              /\ state.creation_date = server_account.creation_date + 1
    PROVE  ConfigInv'
  <1> USE DEF ChangeServerAccount
  <1>1. /\ server_account.creation_date \in Nat /\ server_account.last_change \in Nat
        /\ state.creation_date \in Nat /\ state.last_change \in Nat
        /\ \A s \in server_states : s.creation_date \in Nat /\ s.last_change \in Nat
        /\ account_data.creation_date \in Nat /\ account_data.last_change \in Nat
    BY ServerTypes DEF ConfigInv, ServerAccount
  <1>2. \A s \in server_states :
            /\ s.config \in configure_account
            /\ s.creation_date \in 1 .. server_account.creation_date
            /\ s.last_change <= server_account.last_change
    BY DEF ConfigInv, StatesAreOrdered
  <1>3. ConfigTypes'
    BY DEF ConfigInv, ConfigTypes
  <1>4. StatesAreOrdered'
    <2>1. state.creation_date >= 1
      BY <1>1 DEF ConfigInv, StatesAreOrdered
    <2>2. \A s \in server_states' :
            /\ s.config \in configure_account'
            /\ s.creation_date \in 1 .. server_account'.creation_date
            /\ s.last_change <= server_account'.last_change
      BY <1>1, <1>2, <2>1
    <2>3. \A s, t \in server_states' : s.last_change = t.last_change => s = t
      BY <1>1, <1>2 DEF ConfigInv, StatesAreOrdered
    <2> QED
      BY <2>1, <2>2, <2>3 DEF StatesAreOrdered
  <1>5. PurgesAreComplete'
    BY <1>1 DEF ConfigInv, PurgesAreComplete
  <1>6. RowInv(account_data)'
    <2> SUFFICES ASSUME account_data.exists
                 PROVE  (IsHeardOf(account_data) /\ IsEffectualFor(account_data)
                            /\ IsLatestConfig(account_data))'
      BY DEF RowInv
    <2>1. IsHeardOf(account_data) /\ IsEffectualFor(account_data)
             /\ IsLatestConfig(account_data)
      BY DEF ConfigInv, RowInv
    <2>2. state.last_change # account_data.last_change
      BY <1>1, <2>1 DEF IsHeardOf
    <2>3. IsHeardOf(account_data)'
      BY <1>1, <2>1 DEF IsHeardOf
    <2>4. IsEffectualFor(account_data)'
      BY <2>1, <2>2 DEF IsEffectualFor
    <2>5. IsLatestConfig(account_data)'
      BY <2>1 DEF IsLatestConfig
    <2> QED
      BY <2>3, <2>4, <2>5
  <1>7. DeletionInv' /\ InfoIsLogged'
    BY DEF ConfigInv, DeletionInv, InfoIsLogged, VisibleInfo, is_deletion_safe
  <1> QED
    BY <1>3, <1>4, <1>5, <1>6, <1>7 DEF ConfigInv

LEMMA AuthorityInv ==
    ASSUME ConfigInv,
           \/ \E c \in configure_account : Configure(c) \/ CreateServerAccount(c)
           \/ ChangeBalance
    PROVE  ConfigInv'
  <1>1. server_account \in ServerAccount /\ configure_account \subseteq Config
    BY DEF ConfigInv, ConfigTypes
  <1>2. server_account.exists =>
            server_account \in server_states /\ server_account.config \in configure_account
    BY DEF ConfigInv, StatesAreOrdered
  <1>3. ASSUME NEW c \in configure_account, Configure(c)
        PROVE  ConfigInv'
    <2> DEFINE state == [server_account EXCEPT !.config = c, !.last_change = @ + 1]
    <2>1. /\ state \in ServerAccount /\ state.exists = server_account.exists
          /\ state.config = c /\ state.creation_date = server_account.creation_date
          /\ state.last_change = server_account.last_change + 1
      BY <1>1, ConfiguredServer
    <2>2. ChangeServerAccount(state) /\ server_account.exists
      BY <1>3 DEF Configure
    <2> HIDE DEF state
    <2> QED
      BY <2>1, <2>2, NewStateInv
  <1>4. ASSUME NEW c \in configure_account, CreateServerAccount(c)
        PROVE  ConfigInv'
    <2> DEFINE state == [exists |-> TRUE, config |-> c,
                         creation_date |-> server_account.creation_date + 1,
                         last_change |-> server_account.last_change + 1]
    <2>1. /\ state \in ServerAccount /\ state.exists
          /\ state.config = c /\ state.creation_date = server_account.creation_date + 1
          /\ state.last_change = server_account.last_change + 1
      BY <1>1 DEF ServerAccount
    <2>2. ChangeServerAccount(state) /\ ~server_account.exists
      BY <1>4 DEF CreateServerAccount
    <2> HIDE DEF state
    <2> QED
      BY <2>1, <2>2, NewStateInv
  <1>5. CASE ChangeBalance
    <2> DEFINE state == [server_account EXCEPT !.last_change = @ + 1]
    <2>1. /\ state \in ServerAccount /\ state.exists = server_account.exists
          /\ state.config = server_account.config
          /\ state.creation_date = server_account.creation_date
          /\ state.last_change = server_account.last_change + 1
      BY <1>1 DEF ServerAccount
    <2>2. ChangeServerAccount(state) /\ server_account.exists
      BY <1>5 DEF ChangeBalance
    <2> HIDE DEF state
    <2> QED
      BY <1>2, <2>1, <2>2, NewStateInv
  <1> QED
    BY <1>3, <1>4, <1>5

LEMMA PurgeInv == ConfigInv /\ PurgeServerAccount => ConfigInv'
  <1> SUFFICES ASSUME ConfigInv, PurgeServerAccount
               PROVE  ConfigInv'
    OBVIOUS
  <1> USE DEF PurgeServerAccount
  <1>1. /\ server_account' \in ServerAccount
        /\ server_account'.exists = FALSE
        /\ server_account'.creation_date = server_account.creation_date
        /\ server_account'.last_change = server_account.last_change
        /\ server_account.creation_date \in Nat /\ server_account.creation_date >= 1
    BY DEF ConfigInv, ConfigTypes, ServerAccount, StatesAreOrdered
  <1>2. ConfigTypes'
    BY <1>1 DEF ConfigInv, ConfigTypes
  <1>3. StatesAreOrdered'
    BY <1>1 DEF ConfigInv, StatesAreOrdered
  <1>4. PurgesAreComplete'
    BY <1>1 DEF ConfigInv, PurgesAreComplete
  <1>5. RowInv(account_data)'
    BY <1>1 DEF ConfigInv, RowInv, IsHeardOf, IsEffectualFor, IsLatestConfig
  <1>6. DeletionInv' /\ InfoIsLogged'
    BY DEF ConfigInv, DeletionInv, InfoIsLogged, VisibleInfo, is_deletion_safe
  <1> QED
    BY <1>2, <1>3, <1>4, <1>5, <1>6 DEF ConfigInv

-----------------------------------------------------------------------------
(* The message handlers                                                    *)

\* A handler that changes the row, logs it when it has to, and sends nothing.
LEMMA HandlerInv ==
    ASSUME ConfigInv, NEW row \in AccountDataRow, NEW is_info_updated \in BOOLEAN,
           ChangeAccountData(row, is_info_updated),
           RowInv(row),
           is_info_updated \/ VisibleInfo(row) = VisibleInfo(account_data)
    PROVE  ConfigInv'
  <1> USE DEF ChangeAccountData
  <1>1. ConfigTypes' /\ StatesAreOrdered' /\ PurgesAreComplete' /\ DeletionInv'
    BY DEF ConfigInv, ConfigTypes, StatesAreOrdered, PurgesAreComplete, DeletionInv
  <1>2. RowInv(account_data)'
    BY DEF RowInv, IsHeardOf, IsEffectualFor, IsLatestConfig
  <1>3. logged_info' = VisibleInfo(row)
    BY DEF ConfigInv, InfoIsLogged
  <1>4. InfoIsLogged'
    BY <1>3 DEF InfoIsLogged, VisibleInfo, is_deletion_safe
  <1> QED
    BY <1>1, <1>2, <1>4 DEF ConfigInv

\* A row that has heard nothing new of the server account.
LEMMA SameRow ==
    ASSUME ConfigInv, NEW row \in AccountDataRow,
           row.exists = account_data.exists, row.config = account_data.config,
           row.is_config_effectual = account_data.is_config_effectual,
           row.has_server_account = account_data.has_server_account,
           row.creation_date = account_data.creation_date,
           row.last_change = account_data.last_change
    PROVE  RowInv(row)
  BY DEF ConfigInv, RowInv, IsHeardOf, IsEffectualFor, IsLatestConfig

LEMMA AccountUpdateInv ==
    ASSUME ConfigInv, NEW state \in server_states, NEW ts \in Nat,
           process_account_update_signal(state, ts)
    PROVE  ConfigInv'
  <1> DEFINE row == WithHeartbeat(account_data, ts)
             new == WithUpdate(row, state)
  <1>1. account_data \in AccountDataRow /\ state \in ServerAccount
    BY DEF ConfigInv, ConfigTypes
  <1>2. /\ row \in AccountDataRow
        /\ row.exists = account_data.exists /\ row.config = account_data.config
        /\ row.is_config_effectual = account_data.is_config_effectual
        /\ row.config_error = account_data.config_error
        /\ row.has_server_account = account_data.has_server_account
        /\ row.creation_date = account_data.creation_date
        /\ row.last_change = account_data.last_change
    BY <1>1, HeartbeatRow
  <1> HIDE DEF row
  <1>3. /\ new \in AccountDataRow
        /\ new.exists = row.exists /\ new.config = row.config
        /\ new.is_config_effectual = (state.config = row.config)
        /\ new.has_server_account = TRUE
        /\ new.creation_date = state.creation_date
        /\ new.last_change = state.last_change
    BY <1>1, <1>2, UpdatedRow
  <1> HIDE DEF new
  <1>4. /\ account_data.exists
        /\ IF IsOldEvent(state) THEN ChangeAccountData(row, FALSE)
           ELSE ChangeAccountData(new, IsInfoUpdated(row, new))
    BY DEF process_account_update_signal, row, new
  <1>5. VisibleInfo(row) = VisibleInfo(account_data)
    BY <1>2 DEF VisibleInfo, is_deletion_safe
  <1>6. CASE IsOldEvent(state)
    <2>1. RowInv(row)
      BY <1>2, SameRow
    <2> QED
      BY <1>2, <1>4, <1>5, <1>6, <2>1, HandlerInv
  <1>7. CASE ~IsOldEvent(state)
    <2>1. RowInv(new)
      <3>1. IsHeardOf(new)
        BY <1>3, ServerTypes DEF ConfigInv, StatesAreOrdered, IsHeardOf
      <3>2. IsEffectualFor(new)
        BY <1>3 DEF ConfigInv, StatesAreOrdered, IsEffectualFor
      <3>3. IsLatestConfig(new)
        BY <1>2, <1>3, <1>4 DEF ConfigInv, RowInv, IsLatestConfig
      <3> QED
        BY <3>1, <3>2, <3>3 DEF RowInv
    <2>2. IsInfoUpdated(row, new) \in BOOLEAN
      BY DEF IsInfoUpdated, is_deletion_safe
    <2>3. IsInfoUpdated(row, new) \/ VisibleInfo(new) = VisibleInfo(account_data)
      BY <1>2, <1>3, <1>5 DEF IsInfoUpdated, VisibleInfo, is_deletion_safe
    <2> QED
      BY <1>3, <1>4, <1>7, <2>1, <2>2, <2>3, HandlerInv
  <1> QED
    BY <1>6, <1>7

LEMMA HeartbeatInv == ConfigInv /\ Heartbeat /\ account_data.exists => ConfigInv'
  <1> SUFFICES ASSUME ConfigInv, Heartbeat, account_data.exists
               PROVE  ConfigInv'
    OBVIOUS
  <1>1. server_account \in server_states /\ tick \in Nat
    BY DEF ConfigInv, ConfigTypes, StatesAreOrdered, Heartbeat
  <1> QED
    BY <1>1, AccountUpdateInv DEF Heartbeat

\* Whatever purge is received: it is not older than the account's, and all
\* of those have happened.
LEMMA AccountPurgeInv ==
    ASSUME ConfigInv, NEW date \in purges, process_account_purge_signal(date)
    PROVE  ConfigInv'
  <1> DEFINE row == [account_data EXCEPT !.has_server_account = FALSE]
  <1>1. /\ row \in AccountDataRow
        /\ row.exists = account_data.exists /\ row.config = account_data.config
        /\ row.is_config_effectual = account_data.is_config_effectual
        /\ row.has_server_account = FALSE
        /\ row.creation_date = account_data.creation_date
        /\ row.last_change = account_data.last_change
    BY DEF ConfigInv, ConfigTypes, AccountDataRow
  <1>2. /\ ChangeAccountData(row, TRUE)
        /\ account_data.exists /\ account_data.has_server_account
        /\ account_data.creation_date <= date
    BY DEF process_account_purge_signal, IsPurged
  <1> HIDE DEF row
  <1>3. account_data.creation_date \in purges
    BY <1>2, ServerTypes DEF ConfigInv, RowInv, IsHeardOf, PurgesAreComplete
  <1>4. RowInv(row)
    BY <1>1, <1>2, <1>3
    DEF ConfigInv, RowInv, IsHeardOf, IsEffectualFor, IsLatestConfig
  <1> QED
    BY <1>1, <1>2, <1>4, HandlerInv

LEMMA ConfigErrorInv ==
    ASSUME ConfigInv,
           \/ \E c \in rejected_configs : process_rejected_config_signal(c)
           \/ _set_config_error
    PROVE  ConfigInv'
  <1>1. PICK error \in ConfigErrors :
            ChangeAccountData([account_data EXCEPT !.config_error = error], TRUE)
    BY DEF process_rejected_config_signal, _set_config_error, ConfigErrors
  <1> DEFINE row == [account_data EXCEPT !.config_error = error]
  <1>2. /\ row \in AccountDataRow
        /\ row.exists = account_data.exists /\ row.config = account_data.config
        /\ row.is_config_effectual = account_data.is_config_effectual
        /\ row.has_server_account = account_data.has_server_account
        /\ row.creation_date = account_data.creation_date
        /\ row.last_change = account_data.last_change
    BY DEF ConfigInv, ConfigTypes, AccountDataRow
  <1>3. ChangeAccountData(row, TRUE)
    BY <1>1
  <1> HIDE DEF row
  <1>4. RowInv(row)
    BY <1>2, SameRow
  <1> QED
    BY <1>2, <1>3, <1>4, HandlerInv

-----------------------------------------------------------------------------
(* The Web API                                                             *)

\* No message is about a server account that the new row does not know.
LEMMA CreateConfigInv == ConfigInv /\ create_new_account => ConfigInv'
  <1> SUFFICES ASSUME ConfigInv, create_new_account
               PROVE  ConfigInv'
    OBVIOUS
  <1>1. tick \in Nat /\ configure_account \subseteq Config
    BY DEF ConfigInv, ConfigTypes
  <1>2. /\ account_data' = NewAccountData(tick)
        /\ logged_info' = VisibleInfo(NewAccountData(tick))
        /\ configure_account' = configure_account \cup {NewConfig(tick)}
        /\ \A c \in configure_account : c.ts < tick
        /\ UNCHANGED <<tick, server_account, server_states, purges,
                       rejected_configs, deletion, orphaned>>
    BY DEF create_new_account
  <1>3. /\ account_data' \in AccountDataRow
        /\ account_data'.config = NewConfig(tick)
        /\ account_data'.is_config_effectual = FALSE
        /\ account_data'.has_server_account = FALSE
        /\ account_data'.creation_date = 0 /\ account_data'.last_change = 0
        /\ NewConfig(tick) \in Config
        /\ NewConfig(tick).ts = tick /\ NewConfig(tick).seqnum = 0
    BY <1>1, <1>2, NewRow
  <1>4. ConfigTypes'
    BY <1>1, <1>2, <1>3 DEF ConfigInv, ConfigTypes
  <1>5. StatesAreOrdered' /\ PurgesAreComplete' /\ DeletionInv'
    BY <1>2 DEF ConfigInv, StatesAreOrdered, PurgesAreComplete, DeletionInv
  <1>6. RowInv(account_data)'
    <2>1. IsHeardOf(account_data)'
      BY <1>2, <1>3, ServerTypes DEF ConfigInv, IsHeardOf
    <2>2. IsEffectualFor(account_data)'
      BY <1>2, <1>3 DEF ConfigInv, StatesAreOrdered, IsEffectualFor
    <2>3. IsLatestConfig(account_data)'
      BY <1>1, <1>2, <1>3 DEF IsLatestConfig
    <2> QED
      BY <2>1, <2>2, <2>3 DEF RowInv
  <1>7. InfoIsLogged'
    BY <1>2 DEF InfoIsLogged, VisibleInfo, is_deletion_safe
  <1> QED
    BY <1>4, <1>5, <1>6, <1>7 DEF ConfigInv

\* The new configuration is different from all that have been sent.
LEMMA UpdateConfigInv ==
    ASSUME ConfigInv, NEW scheduled \in BOOLEAN, NEW data \in ConfigData,
           update_account_config(scheduled, data)
    PROVE  ConfigInv'
  <1> DEFINE config == NextConfig(scheduled, data)
             row == [account_data EXCEPT !.config = config,
                                         !.is_config_effectual = FALSE]
  <1>1. account_data \in AccountDataRow /\ tick \in Nat
    BY DEF ConfigInv, ConfigTypes
  <1>2. /\ config \in Config /\ config.ts = tick
        /\ config.seqnum = account_data.config.seqnum + 1
        /\ account_data.config.seqnum \in Nat
    BY <1>1 DEF NextConfig, AccountDataRow, Config, AllConfigData
  <1> HIDE DEF config
  <1>3. /\ row \in AccountDataRow
        /\ row.exists = account_data.exists /\ row.config = config
        /\ row.is_config_effectual = FALSE
        /\ row.config_error = account_data.config_error
        /\ row.has_server_account = account_data.has_server_account
        /\ row.creation_date = account_data.creation_date
        /\ row.last_change = account_data.last_change
    BY <1>1, <1>2 DEF AccountDataRow
  <1>4. /\ account_data.exists /\ account_data' = row
        /\ logged_info' = IF is_deletion_safe(account_data) THEN VisibleInfo(row)
                          ELSE logged_info
        /\ configure_account' = configure_account \cup {row.config}
        /\ UNCHANGED <<tick, server_account, server_states, purges,
                       rejected_configs, deletion, orphaned>>
    BY DEF update_account_config, ConfigureAccountMessage, config
  <1> HIDE DEF row
  <1>5. IsHeardOf(account_data) /\ IsLatestConfig(account_data)
    BY <1>4 DEF ConfigInv, RowInv
  <1>6. config \notin configure_account
    BY <1>1, <1>2, <1>5, ServerTypes DEF ConfigInv, IsLatestConfig
  <1>7. ConfigTypes'
    BY <1>1, <1>2, <1>3, <1>4 DEF ConfigInv, ConfigTypes
  <1>8. StatesAreOrdered' /\ PurgesAreComplete' /\ DeletionInv'
    BY <1>4 DEF ConfigInv, StatesAreOrdered, PurgesAreComplete, DeletionInv
  <1>9. RowInv(account_data)'
    <2>1. IsHeardOf(account_data)'
      BY <1>3, <1>4, <1>5 DEF IsHeardOf
    <2>2. IsEffectualFor(account_data)'
      BY <1>3, <1>4, <1>6 DEF ConfigInv, StatesAreOrdered, IsEffectualFor
    <2>3. IsLatestConfig(account_data)'
      BY <1>1, <1>2, <1>3, <1>4, <1>5, ServerTypes DEF ConfigInv, IsLatestConfig
    <2> QED
      BY <2>1, <2>2, <2>3 DEF RowInv
  <1>10. InfoIsLogged'
    <2>1. logged_info' = VisibleInfo(row)
      BY <1>3, <1>4 DEF ConfigInv, InfoIsLogged, VisibleInfo, is_deletion_safe
    <2> QED
      BY <2>1, <1>4 DEF InfoIsLogged, VisibleInfo, is_deletion_safe
  <1> QED
    BY <1>7, <1>8, <1>9, <1>10 DEF ConfigInv

LEMMA DeleteConfigInv ==
    ASSUME ConfigInv, DeleteAccountUnsafely \/ DeleteAccountSafely
    PROVE  ConfigInv'
  <1> USE DEF DeleteAccountUnsafely, DeleteAccountSafely
  <1>1. ConfigTypes'
    BY NoRow DEF ConfigInv, ConfigTypes
  <1>2. StatesAreOrdered' /\ PurgesAreComplete' /\ DeletionInv'
    BY NoRow DEF ConfigInv, StatesAreOrdered, PurgesAreComplete, DeletionInv
  <1>3. RowInv(account_data)'
    BY NoRow DEF RowInv
  <1>4. InfoIsLogged'
    BY DEF InfoIsLogged, VisibleInfo, is_deletion_safe
  <1> QED
    BY <1>1, <1>2, <1>3, <1>4 DEF ConfigInv

\* A configuration that is effectual has been so on a server account, and if
\* that is not there, it has been purged.
LEMMA SafeIsPurged ==
    ASSUME ConfigInv, account_data.exists, is_deletion_safe(account_data)
    PROVE  account_data.creation_date \in purges
  BY ServerTypes DEF ConfigInv, RowInv, IsHeardOf, IsEffectualFor, StatesAreOrdered,
                     is_deletion_safe

LEMMA FindSafeInv == ConfigInv /\ FindDeletionSafe => ConfigInv'
  <1> SUFFICES ASSUME ConfigInv, FindDeletionSafe
               PROVE  ConfigInv'
    OBVIOUS
  <1> USE DEF FindDeletionSafe
  <1>1. ConfigTypes' /\ StatesAreOrdered' /\ PurgesAreComplete'
    BY DEF ConfigInv, ConfigTypes, StatesAreOrdered, PurgesAreComplete
  <1>2. RowInv(account_data)'
    BY DEF ConfigInv, RowInv, IsHeardOf, IsEffectualFor, IsLatestConfig
  <1>3. DeletionInv'
    BY SafeIsPurged DEF DeletionInv
  <1>4. InfoIsLogged'
    BY DEF ConfigInv, InfoIsLogged, VisibleInfo, is_deletion_safe
  <1> QED
    BY <1>1, <1>2, <1>3, <1>4 DEF ConfigInv

-----------------------------------------------------------------------------
\* A message that discards an account has the number 0, which no client gives.
LEMMA DiscardInv == ConfigInv /\ _discard_orphaned_account => ConfigInv'
  <1> SUFFICES ASSUME ConfigInv, _discard_orphaned_account
               PROVE  ConfigInv'
    OBVIOUS
  <1> DEFINE new == [ts |-> tick, seqnum |-> 0, scheduled |-> TRUE,
                     data |-> HugeNegligible]
  <1>1. /\ new \in Config /\ new.ts = tick /\ new.seqnum = 0 /\ tick \in Nat
    BY DEF ConfigInv, ConfigTypes, Config, AllConfigData
  <1>2. /\ configure_account' = configure_account \cup {new}
        /\ orphaned' = FALSE
        /\ UNCHANGED <<tick, account_data, logged_info, server_account,
                       server_states, purges, rejected_configs, deletion>>
    BY DEF _discard_orphaned_account
  <1> HIDE DEF new
  <1>3. ConfigTypes'
    <2>1. \A c \in configure_account' : c \in Config /\ c.ts <= tick
      BY <1>1, <1>2 DEF ConfigInv, ConfigTypes
    <2>2. orphaned' \in BOOLEAN /\ UNCHANGED <<deletion, account_data>>
      BY <1>2
    <2> QED
      BY <1>2, <2>1, <2>2 DEF ConfigInv, ConfigTypes
  <1>4. StatesAreOrdered' /\ PurgesAreComplete' /\ DeletionInv'
    BY <1>2 DEF ConfigInv, StatesAreOrdered, PurgesAreComplete, DeletionInv
  <1>5. RowInv(account_data)'
    BY <1>1, <1>2, ServerTypes
    DEF ConfigInv, RowInv, IsHeardOf, IsEffectualFor, IsLatestConfig
  <1>6. InfoIsLogged'
    BY <1>2 DEF ConfigInv, InfoIsLogged, VisibleInfo, is_deletion_safe
  <1> QED
    BY <1>3, <1>4, <1>5, <1>6 DEF ConfigInv

LEMMA OtherInv ==
    ASSUME ConfigInv,
           \/ NextTick
           \/ \E c \in configure_account : RejectConfig(c)
           \/ \E state \in server_states : FindNoAccount(state)
           \/ Heartbeat /\ ~account_data.exists
           \/ UNCHANGED config_vars
    PROVE  ConfigInv'
  <1> USE DEF NextTick, RejectConfig, FindNoAccount, Heartbeat, config_vars
  <1>1. /\ UNCHANGED <<account_data, logged_info, configure_account,
                       server_account, server_states, purges, deletion>>
        /\ tick' \in {tick, tick + 1}
        /\ rejected_configs' \subseteq configure_account
        /\ orphaned' \in BOOLEAN
    BY DEF ConfigInv, ConfigTypes
  <1>2. tick \in Nat /\ \A c \in configure_account : c.ts \in Nat /\ c.ts <= tick
    BY ServerTypes DEF ConfigInv, ConfigTypes
  <1>3. ConfigTypes'
    <2>1. tick' \in Nat /\ \A c \in configure_account' : c.ts <= tick'
      BY <1>1, <1>2
    <2>2. UNCHANGED deletion /\ deletion \in AccountDataRow
      BY <1>1 DEF ConfigInv, ConfigTypes
    <2> QED
      BY <1>1, <2>1, <2>2 DEF ConfigInv, ConfigTypes
  <1>4. StatesAreOrdered' /\ PurgesAreComplete' /\ DeletionInv'
    BY <1>1 DEF ConfigInv, StatesAreOrdered, PurgesAreComplete, DeletionInv
  <1>5. RowInv(account_data)'
    BY <1>1, <1>2 DEF ConfigInv, RowInv, IsHeardOf, IsEffectualFor, IsLatestConfig
  <1>6. InfoIsLogged'
    BY <1>1 DEF ConfigInv, InfoIsLogged, VisibleInfo, is_deletion_safe
  <1> QED
    BY <1>3, <1>4, <1>5, <1>6 DEF ConfigInv

LEMMA NextConfigInv == ConfigInv /\ [ConfigNext]_config_vars => ConfigInv'
  <1> SUFFICES ASSUME ConfigInv, [ConfigNext]_config_vars
               PROVE  ConfigInv'
    OBVIOUS
  <1>1. ASSUME NEW scheduled \in BOOLEAN, NEW data \in ConfigData,
               update_account_config(scheduled, data)
        PROVE  ConfigInv'
    BY <1>1, UpdateConfigInv
  <1>2. ASSUME NEW state \in server_states, process_account_update_signal(state, 0)
        PROVE  ConfigInv'
    BY <1>2, AccountUpdateInv
  <1>3. ASSUME NEW date \in purges, process_account_purge_signal(date)
        PROVE  ConfigInv'
    BY <1>3, AccountPurgeInv
  <1> QED
    BY <1>1, <1>2, <1>3, CreateConfigInv, DeleteConfigInv, FindSafeInv, AuthorityInv,
       PurgeInv, HeartbeatInv, ConfigErrorInv, DiscardInv, OtherInv
    DEF ConfigNext

-----------------------------------------------------------------------------
\* Whatever messages are late, repeated or lost, ConfigInv holds.
THEOREM ConfigCorrect == ConfigSpec => []ConfigInv
  BY InitConfigInv, NextConfigInv, PTL DEF ConfigSpec

\* The types of the rows and of the messages.
THEOREM ConfigTypesCorrect == ConfigSpec => []ConfigTypeOK
  <1>1. ConfigInv => ConfigTypeOK
    <2> SUFFICES ASSUME ConfigInv
                 PROVE  ConfigTypeOK
      OBVIOUS
    <2>1. account_data.exists => account_data.config \in configure_account
      BY DEF ConfigInv, RowInv, IsLatestConfig
    <2>2. purges \subseteq 1..server_account.creation_date
      BY ServerTypes DEF ConfigInv, PurgesAreComplete
    <2> QED
      BY <2>1, <2>2 DEF ConfigInv, ConfigTypes, ConfigTypeOK
  <1> QED
    BY <1>1, ConfigCorrect, PTL

\* is_config_effectual is true exactly of the configuration, with its number
\* and timestamp, that the server account had when it was heard of last.
THEOREM EffectualCorrect == ConfigSpec => []EffectualIsCurrent
  <1>1. ConfigInv => EffectualIsCurrent
    BY DEF ConfigInv, RowInv, IsEffectualFor, EffectualIsCurrent
  <1> QED
    BY <1>1, ConfigCorrect, PTL

\* Nothing is lost by a safe deletion, not even when delete_account has read
\* long ago that it is safe; and every change of AccountInfo is logged.
THEOREM InfoCorrect == ConfigSpec => []InfoIsTrue
  <1>1. ConfigInv => InfoIsTrue
    <2> SUFFICES ASSUME ConfigInv
                 PROVE  InfoIsTrue
      OBVIOUS
    <2>1. ASSUME NEW row \in {account_data, deletion}, row.exists, is_deletion_safe(row)
          PROVE  /\ row.creation_date \in purges
                 /\ server_account.exists =>
                        server_account.creation_date > row.creation_date
      <3>1. row.creation_date \in purges
        BY <2>1, SafeIsPurged DEF ConfigInv, DeletionInv
      <3> QED
        BY <3>1, ServerTypes DEF ConfigInv, PurgesAreComplete
    <2> QED
      BY <2>1 DEF InfoIsTrue, DeletionSafeMeansPurged, ConfigInv
  <1> QED
    BY <1>1, ConfigCorrect, PTL

\* What is known of the server account never gets older, and no configuration
\* is declared rejected because of another one.
THEOREM LateCorrect == ConfigSpec => LateMessagesAreIgnored
  <1> DEFINE Moves ==
        account_data.exists /\ account_data'.exists =>
          /\ \/ account_data'.creation_date > account_data.creation_date
             \/ /\ account_data'.creation_date = account_data.creation_date
                /\ account_data'.last_change >= account_data.last_change
          /\ account_data'.config_error = "rejected" /\ account_data.config_error = "none"
               => account_data.config \in rejected_configs
  <1>1. ASSUME ConfigInv, NEW state \in server_states, NEW ts \in Nat,
               process_account_update_signal(state, ts)
        PROVE  Moves
    <2>1. account_data \in AccountDataRow /\ state \in ServerAccount
      BY <1>1 DEF ConfigInv, ConfigTypes
    <2> DEFINE row == WithHeartbeat(account_data, ts)
    <2>2. /\ row \in AccountDataRow
          /\ row.config_error = account_data.config_error
          /\ row.creation_date = account_data.creation_date
          /\ row.last_change = account_data.last_change
      BY <1>1, <2>1, HeartbeatRow
    <2>3. \/ account_data' = row
          \/ account_data' = WithUpdate(row, state) /\ ~IsOldEvent(state)
      BY <1>1 DEF process_account_update_signal, ChangeAccountData
    <2> HIDE DEF row
    <2>4. CASE account_data' = row
      BY <1>1, <2>2, <2>4, ServerTypes DEF ConfigInv
    <2>5. CASE account_data' = WithUpdate(row, state) /\ ~IsOldEvent(state)
      <3>1. /\ account_data'.config_error \in {"none", account_data.config_error}
            /\ account_data'.creation_date = state.creation_date
            /\ account_data'.last_change = state.last_change
        BY <2>1, <2>2, <2>5, UpdatedRow
      <3>2. /\ state.creation_date \in Nat /\ state.last_change \in Nat
            /\ account_data.creation_date \in Nat /\ account_data.last_change \in Nat
        BY <1>1, ServerTypes DEF ConfigInv
      <3> QED
        BY <2>5, <3>1, <3>2 DEF IsOldEvent
    <2> QED
      BY <2>3, <2>4, <2>5
  <1>2. ConfigInv /\ [ConfigNext]_config_vars => [Moves]_config_vars
    <2> SUFFICES ASSUME ConfigInv, ConfigNext
                 PROVE  Moves
      OBVIOUS
    <2>1. account_data \in AccountDataRow
      BY DEF ConfigInv, ConfigTypes
    <2>2. CASE Heartbeat
      BY <1>1, <2>2 DEF Heartbeat, ConfigInv, ConfigTypes, StatesAreOrdered, FindNoAccount
    <2>3. ASSUME NEW state \in server_states, process_account_update_signal(state, 0)
          PROVE  Moves
      BY <1>1, <2>3
    <2>4. CASE UNCHANGED account_data
      BY <2>4, ServerTypes DEF ConfigInv
    <2>5. CASE create_new_account \/ DeleteAccountUnsafely \/ DeleteAccountSafely
      BY <2>5, NoRow DEF create_new_account, DeleteAccountUnsafely, DeleteAccountSafely
    <2>6. ASSUME NEW scheduled \in BOOLEAN, NEW data \in ConfigData,
                 update_account_config(scheduled, data)
          PROVE  Moves
      <3>1. /\ account_data'.creation_date = account_data.creation_date
            /\ account_data'.last_change = account_data.last_change
            /\ account_data'.config_error = account_data.config_error
        BY <2>1, <2>6 DEF update_account_config, AccountDataRow
      <3> QED
        BY <3>1, ServerTypes DEF ConfigInv
    <2>7. ASSUME NEW c \in rejected_configs, process_rejected_config_signal(c)
          PROVE  Moves
      BY <2>1, <2>7, ServerTypes DEF ConfigInv, process_rejected_config_signal,
         ChangeAccountData, IsCurrentConfig, AccountDataRow
    <2>8. ASSUME NEW date \in purges, process_account_purge_signal(date)
          PROVE  Moves
      BY <2>1, <2>8, ServerTypes DEF ConfigInv, process_account_purge_signal,
         ChangeAccountData, AccountDataRow
    <2>9. CASE _set_config_error
      BY <2>1, <2>9, ServerTypes DEF ConfigInv, _set_config_error,
         ChangeAccountData, AccountDataRow
    <2> QED
      BY <2>2, <2>3, <2>4, <2>5, <2>6, <2>7, <2>8, <2>9
      DEF ConfigNext, NextTick, FindDeletionSafe, Configure, CreateServerAccount,
          RejectConfig, ChangeServerAccount, ChangeBalance, PurgeServerAccount,
          FindNoAccount, _discard_orphaned_account
  <1> QED
    BY <1>2, ConfigCorrect, PTL DEF ConfigSpec, LateMessagesAreIgnored

-----------------------------------------------------------------------------
(* The objects of accounts                                                 *)

Updating(s) == session[s].stage = "updating"

\* Requests that update the same object exclude each other.
LocksAreExclusive ==
    \A s, t \in Sessions :
        /\ Updating(s) /\ Updating(t)
        /\ session[s].debtor = session[t].debtor
        /\ session[s].kind = session[t].kind
        => s = t

\* What a request was allowed to do when it locked the object, it may still do.
UpdatesAreNext ==
    \A s \in Sessions : Updating(s) =>
        LET d == session[s].debtor
            kind == session[s].kind
        IN  /\ d \in DebtorIds
            /\ session[s].content \in Contents(kind)
            /\ account[d].exists
            /\ session[s].update_id = account[d][kind].latest_update_id + 1

\* A version is the latest one of its object, or an earlier one.
VersionsAreOld ==
    \A v \in versions :
        /\ v.debtor \in DebtorIds /\ v.kind \in ObjectKinds /\ v.id \in Nat
        /\ account[v.debtor].exists =>
               v.id <= account[v.debtor][v.kind].latest_update_id

\* An account that is not there has neither a name nor a peg.
DeletedAreEmpty ==
    \A d \in DebtorIds : ~account[d].exists => account[d] = NoAccount

ObjectsInv ==
    /\ ObjectsTypeOK
    /\ LocksAreExclusive
    /\ UpdatesAreNext
    /\ VersionsAreOld
    /\ DeletedAreEmpty
    /\ VersionsAreUnique
    /\ DebtorNamesAreUnique
    /\ PegsExist

-----------------------------------------------------------------------------
(* The objects of an account                                               *)

LEMMA ObjectOf ==
    ASSUME NEW a \in Account, NEW kind \in ObjectKinds
    PROVE  /\ a[kind] \in Object(kind)
           /\ a[kind].latest_update_id \in Nat
           /\ a[kind].content \in Contents(kind)
  <1>1. CASE kind = "display"
    BY <1>1 DEF Account, Object
  <1>2. CASE kind = "exchange"
    BY <1>2 DEF Account, Object
  <1> QED
    BY <1>1, <1>2 DEF ObjectKinds

LEMMA SetObject ==
    ASSUME NEW a \in Account, NEW kind \in ObjectKinds, NEW o \in Object(kind)
    PROVE  /\ [a EXCEPT ![kind] = o] \in Account
           /\ [a EXCEPT ![kind] = o].exists = a.exists
           /\ [a EXCEPT ![kind] = o][kind] = o
           /\ \A k \in ObjectKinds \ {kind} : [a EXCEPT ![kind] = o][k] = a[k]
  <1>1. CASE kind = "display"
    BY <1>1 DEF Account, ObjectKinds
  <1>2. CASE kind = "exchange"
    BY <1>2 DEF Account, ObjectKinds
  <1> QED
    BY <1>1, <1>2 DEF ObjectKinds

LEMMA NewObjects ==
    ASSUME NEW m \in Nat, NEW n \in Nat, NEW b \in BOOLEAN
    PROVE  /\ [exists |-> b, display |-> NewObject(m), exchange |-> NewObject(n)]
                  \in Account
           /\ NewObject(m).latest_update_id = m
           /\ NewObject(m).content = Null
  BY DEF Account, Object, NewObject, Contents

\* What the type invariant says of one account.
LEMMA AccountTypes ==
    ASSUME ObjectsTypeOK, NEW d \in DebtorIds
    PROVE  /\ account[d] \in Account
           /\ account[d].exists \in BOOLEAN
           /\ account[d].display = account[d]["display"]
           /\ account[d].exchange = account[d]["exchange"]
           /\ \A kind \in ObjectKinds :
                  /\ account[d][kind].latest_update_id \in Nat
                  /\ account[d][kind].latest_update_id <= uid_seq
                  /\ account[d][kind].content \in Contents(kind)
  <1>1. account[d] \in Account
    BY DEF ObjectsTypeOK
  <1>2. account[d].exists \in BOOLEAN
    BY <1>1 DEF Account
  <1> QED
    BY <1>1, <1>2, ObjectOf DEF ObjectsTypeOK

-----------------------------------------------------------------------------
LEMMA InitObjectsInv == ObjectsInit => ObjectsInv
  <1> SUFFICES ASSUME ObjectsInit
               PROVE  ObjectsInv
    OBVIOUS
  <1>1. /\ NoAccount \in Account
        /\ NoAccount.exists = FALSE
        /\ NoAccount.display = NewObject(0) /\ NoAccount["display"] = NewObject(0)
        /\ NoAccount["exchange"] = NewObject(0)
        /\ NewObject(0).latest_update_id = 0 /\ NewObject(0).content = Null
    BY NewObjects DEF NoAccount
  <1>2. Waiting \in Session
    BY DEF Waiting, Session, ObjectKinds
  <1>3. ObjectsTypeOK
    BY <1>1, <1>2 DEF ObjectsInit, ObjectsTypeOK, ObjectKinds
  <1>4. LocksAreExclusive /\ UpdatesAreNext
    BY DEF ObjectsInit, LocksAreExclusive, UpdatesAreNext, Updating, Waiting
  <1>5. VersionsAreOld /\ VersionsAreUnique
    BY DEF ObjectsInit, VersionsAreOld, VersionsAreUnique
  <1>6. DeletedAreEmpty /\ DebtorNamesAreUnique /\ PegsExist
    BY <1>1 DEF ObjectsInit, DeletedAreEmpty, DebtorNamesAreUnique, PegsExist
  <1> QED
    BY <1>3, <1>4, <1>5, <1>6 DEF ObjectsInv

\* What the type invariant says of one request.
LEMMA SessionTypes ==
    ASSUME ObjectsTypeOK, NEW s \in Sessions
    PROVE  /\ session[s].kind \in ObjectKinds
           /\ session[s].update_id \in Nat
           /\ session[s].stage # "waiting" => session[s].debtor \in DebtorIds
  <1>1. session[s] \in Session
    BY DEF ObjectsTypeOK
  <1>2. CASE session[s] = Waiting
    BY <1>2 DEF Waiting, ObjectKinds
  <1>3. CASE session[s] # Waiting
    BY <1>1, <1>3 DEF Session
  <1> QED
    BY <1>2, <1>3

\* Sessions that begin, end or wait leave the rows alone.
LEMMA KeepsRows ==
    ASSUME ObjectsInv, UNCHANGED <<account, uid_seq, versions>>,
           session' \in [Sessions -> Session]
    PROVE  /\ ObjectsTypeOK' /\ VersionsAreOld' /\ DeletedAreEmpty'
           /\ VersionsAreUnique' /\ DebtorNamesAreUnique' /\ PegsExist'
  BY DEF ObjectsInv, ObjectsTypeOK, VersionsAreOld, DeletedAreEmpty,
         VersionsAreUnique, DebtorNamesAreUnique, PegsExist

LEMMA EndedSession ==
    ASSUME ObjectsTypeOK, NEW s \in Sessions, session' = EndOf(s)
    PROVE  /\ session' \in [Sessions -> Session]
           /\ \A t \in Sessions : Updating(t)' => Updating(t) /\ t # s
           /\ \A t \in Sessions \ {s} : session'[t] = session[t]
  BY DEF ObjectsTypeOK, EndOf, Waiting, Session, ObjectKinds, Updating

LEMMA RollBackInv ==
    ASSUME ObjectsInv, NEW s \in Sessions, RollBack(s)
    PROVE  ObjectsInv'
  <1>1. /\ ObjectsTypeOK' /\ VersionsAreOld' /\ DeletedAreEmpty'
        /\ VersionsAreUnique' /\ DebtorNamesAreUnique' /\ PegsExist'
    BY EndedSession, KeepsRows DEF RollBack, ObjectsInv
  <1>2. LocksAreExclusive' /\ UpdatesAreNext'
    BY EndedSession DEF RollBack, ObjectsInv, LocksAreExclusive, UpdatesAreNext
  <1> QED
    BY <1>1, <1>2 DEF ObjectsInv

LEMMA BeginUpdateInv ==
    ASSUME ObjectsInv, NEW s \in Sessions, NEW d \in DebtorIds,
           NEW kind \in ObjectKinds, NEW update_id \in 1..MaxUid,
           NEW content \in Contents(kind),
           BeginUpdate(s, d, kind, update_id, content)
    PROVE  ObjectsInv'
  <1> DEFINE new == [stage |-> "updating", debtor |-> d, kind |-> kind,
                     update_id |-> update_id, content |-> content]
  <1>1. new \in Session
    BY AccountObjectsAssumption DEF Session, Contents, ObjectKinds
  <1>2. /\ session' \in [Sessions -> Session]
        /\ session'[s] = new
        /\ \A t \in Sessions \ {s} : session'[t] = session[t]
    BY <1>1 DEF BeginUpdate, ObjectsInv, ObjectsTypeOK
  <1>3. /\ ObjectsTypeOK' /\ VersionsAreOld' /\ DeletedAreEmpty'
        /\ VersionsAreUnique' /\ DebtorNamesAreUnique' /\ PegsExist'
    BY <1>2, KeepsRows DEF BeginUpdate
  <1>4. LocksAreExclusive'
    BY <1>2 DEF LocksAreExclusive, Updating, BeginUpdate, IsLocked, ObjectsInv
  <1>5. UpdatesAreNext'
    BY <1>2 DEF UpdatesAreNext, Updating, BeginUpdate, allow_update, ObjectsInv
  <1> QED
    BY <1>3, <1>4, <1>5 DEF ObjectsInv

LEMMA BeginDeletionInv ==
    ASSUME ObjectsInv, NEW s \in Sessions, NEW d \in DebtorIds,
           BeginDeletionOf(s, d)
    PROVE  ObjectsInv'
  <1> DEFINE new == [Waiting EXCEPT !.stage = "deleting", !.debtor = d]
  <1>1. new \in Session /\ new.stage = "deleting"
    BY DEF Session, Waiting, ObjectKinds
  <1>2. /\ session' \in [Sessions -> Session]
        /\ session'[s].stage = "deleting"
        /\ \A t \in Sessions \ {s} : session'[t] = session[t]
    BY <1>1 DEF BeginDeletionOf, ObjectsInv, ObjectsTypeOK
  <1>3. /\ ObjectsTypeOK' /\ VersionsAreOld' /\ DeletedAreEmpty'
        /\ VersionsAreUnique' /\ DebtorNamesAreUnique' /\ PegsExist'
    BY <1>2, KeepsRows DEF BeginDeletionOf
  <1>4. \A t \in Sessions : Updating(t)' => Updating(t) /\ t # s
    BY <1>2 DEF Updating
  <1>5. LocksAreExclusive' /\ UpdatesAreNext'
    BY <1>2, <1>4 DEF LocksAreExclusive, UpdatesAreNext, BeginDeletionOf, ObjectsInv
  <1> QED
    BY <1>3, <1>5 DEF ObjectsInv

-----------------------------------------------------------------------------
(* Creation                                                                *)

LEMMA CreateObjectsInv ==
    ASSUME ObjectsInv, NEW d \in DebtorIds, create_new_account_objects(d)
    PROVE  ObjectsInv'
  <1> DEFINE new == [exists |-> TRUE, display |-> NewObject(uid_seq + 1),
                     exchange |-> NewObject(uid_seq + 2)]
             v == Version(d, "display", uid_seq + 1, Null)
             w == Version(d, "exchange", uid_seq + 2, Null)
  <1>1. uid_seq \in Nat /\ uid_seq' = uid_seq + 2
    BY DEF create_new_account_objects, ObjectsInv, ObjectsTypeOK
  <1>2. /\ new \in Account /\ new.exists = TRUE
        /\ new["display"] = NewObject(uid_seq + 1)
        /\ new["exchange"] = NewObject(uid_seq + 2)
        /\ new.display = NewObject(uid_seq + 1)
        /\ new.exchange = NewObject(uid_seq + 2)
    <2>1. uid_seq + 1 \in Nat /\ uid_seq + 2 \in Nat
      BY <1>1
    <2> QED
      BY <2>1, NewObjects
  <1>3. /\ NewObject(uid_seq + 1).latest_update_id = uid_seq + 1
        /\ NewObject(uid_seq + 2).latest_update_id = uid_seq + 2
        /\ NewObject(uid_seq + 1).content = Null
        /\ NewObject(uid_seq + 2).content = Null
    BY DEF NewObject
  <1> HIDE DEF new
  <1>4. /\ account' \in [DebtorIds -> Account] /\ account'[d] = new
        /\ \A e \in DebtorIds \ {d} : account'[e] = account[e]
        /\ ~account[d].exists
    BY <1>2 DEF create_new_account_objects, ObjectsInv, ObjectsTypeOK, new
  <1>5. /\ v.debtor = d /\ v.kind = "display" /\ v.id = uid_seq + 1
        /\ w.debtor = d /\ w.kind = "exchange" /\ w.id = uid_seq + 2
    BY DEF Version
  <1>6. versions' = versions \cup {v, w}
    BY DEF create_new_account_objects
  <1> HIDE DEF v, w
  <1>7. /\ session' = session
        /\ ObjectsTypeOK /\ VersionsAreOld /\ VersionsAreUnique
    BY DEF create_new_account_objects, ObjectsInv
  <1>8. ObjectsTypeOK'
    <2>1. \A u \in versions' : u.id <= uid_seq'
      <3> SUFFICES ASSUME NEW u \in versions'
                   PROVE  u.id <= uid_seq'
        OBVIOUS
      <3>1. CASE u \in versions
        <4>1. u.id \in Nat /\ u.id <= uid_seq
          BY <1>7, <3>1 DEF ObjectsTypeOK, VersionsAreOld
        <4> QED
          BY <4>1, <1>1
      <3>2. CASE u \in {v, w}
        BY <3>2, <1>1, <1>5
      <3> QED
        BY <3>1, <3>2, <1>6
    <2>2. \A e \in DebtorIds, kind \in ObjectKinds :
              account'[e][kind].latest_update_id <= uid_seq'
      <3> SUFFICES ASSUME NEW e \in DebtorIds, NEW kind \in ObjectKinds
                   PROVE  account'[e][kind].latest_update_id <= uid_seq'
        OBVIOUS
      <3>1. CASE e = d
        BY <3>1, <1>1, <1>2, <1>3, <1>4 DEF ObjectKinds
      <3>2. CASE e # d
        <4>1. /\ account[e][kind].latest_update_id \in Nat
              /\ account[e][kind].latest_update_id <= uid_seq
          BY <1>7, AccountTypes
        <4> QED
          BY <4>1, <3>2, <1>1, <1>4
      <3> QED
        BY <3>1, <3>2
    <2> QED
      BY <2>1, <2>2, <1>1, <1>4, <1>7 DEF ObjectsTypeOK
  <1>9. LocksAreExclusive'
    BY <1>7 DEF ObjectsInv, LocksAreExclusive, Updating
  <1>10. UpdatesAreNext'
    BY <1>4, <1>7 DEF ObjectsInv, UpdatesAreNext, Updating
  <1>11. VersionsAreOld'
    <2> SUFFICES ASSUME NEW u \in versions'
                 PROVE  /\ u.debtor \in DebtorIds /\ u.kind \in ObjectKinds
                        /\ u.id \in Nat
                        /\ account'[u.debtor].exists =>
                               u.id <= account'[u.debtor][u.kind].latest_update_id
      BY DEF VersionsAreOld
    <2>1. CASE u \in versions
      <3>1. /\ u.debtor \in DebtorIds /\ u.kind \in ObjectKinds
            /\ u.id \in Nat /\ u.id <= uid_seq
        BY <2>1, <1>7 DEF ObjectsTypeOK, VersionsAreOld
      <3>2. CASE u.debtor = d
        BY <3>1, <3>2, <1>1, <1>2, <1>3, <1>4 DEF ObjectKinds
      <3>3. CASE u.debtor # d
        BY <2>1, <3>1, <3>3, <1>4, <1>7 DEF VersionsAreOld
      <3> QED
        BY <3>2, <3>3
    <2>2. CASE u \in {v, w}
      BY <2>2, <1>1, <1>2, <1>3, <1>4, <1>5 DEF ObjectKinds
    <2> QED
      BY <2>1, <2>2, <1>6
  <1>12. VersionsAreUnique'
    <2> SUFFICES ASSUME NEW a \in versions', NEW b \in versions',
                        a.debtor = b.debtor, a.kind = b.kind, a.id = b.id
                 PROVE  a = b
      BY DEF VersionsAreUnique
    <2>1. \A u \in versions : u.id \in Nat /\ u.id <= uid_seq
      BY <1>7 DEF ObjectsTypeOK, VersionsAreOld
    <2>2. CASE a \in versions /\ b \in versions
      BY <2>2, <1>7 DEF VersionsAreUnique
    <2>3. CASE a \in {v, w}
      <3>1. a.id > uid_seq
        BY <2>3, <1>1, <1>5
      <3>2. b \in {v, w}
        BY <3>1, <2>1, <1>1, <1>6
      <3> QED
        BY <2>3, <3>2, <1>5
    <2>4. CASE b \in {v, w}
      <3>1. b.id > uid_seq
        BY <2>4, <1>1, <1>5
      <3>2. a \in {v, w}
        BY <3>1, <2>1, <1>1, <1>6
      <3> QED
        BY <2>4, <3>2, <1>5
    <2> QED
      BY <2>2, <2>3, <2>4, <1>6
  <1>13. DeletedAreEmpty'
    BY <1>2, <1>4 DEF ObjectsInv, DeletedAreEmpty
  <1>14. DebtorNamesAreUnique'
    <2> SUFFICES ASSUME NEW e \in DebtorIds, NEW f \in DebtorIds, e # f,
                        account'[e].display.content # Null
                 PROVE  account'[e].display.content # account'[f].display.content
      BY DEF DebtorNamesAreUnique
    <2>1. account'[d].display.content = Null
      BY <1>2, <1>3, <1>4
    <2> QED
      BY <2>1, <1>4 DEF ObjectsInv, DebtorNamesAreUnique
  <1>15. PegsExist'
    <2> SUFFICES ASSUME NEW e \in DebtorIds, account'[e].exists,
                        account'[e].exchange.content # Null
                 PROVE  account'[account'[e].exchange.content].exists
      BY DEF PegsExist
    <2>1. e # d
      BY <1>2, <1>3, <1>4
    <2>2. account[e].exchange.content \in DebtorIds \cup {Null}
      BY <1>7, AccountTypes DEF ObjectKinds, Contents
    <2>3. account[account[e].exchange.content].exists
      BY <2>1, <1>4 DEF ObjectsInv, PegsExist
    <2> QED
      BY <2>1, <2>2, <2>3, <1>4
  <1> QED
    BY <1>8, <1>9, <1>10, <1>11, <1>12, <1>13, <1>14, <1>15 DEF ObjectsInv

-----------------------------------------------------------------------------
(* Updates                                                                 *)

LEMMA UpdateInv ==
    ASSUME ObjectsInv, NEW s \in Sessions, UpdateObject(s)
    PROVE  ObjectsInv'
  <1> DEFINE d == session[s].debtor
             kind == session[s].kind
             update_id == session[s].update_id
             content == session[s].content
             o == [latest_update_id |-> update_id, content |-> content]
             v == Version(d, kind, update_id, content)
  <1>1. /\ ObjectsTypeOK /\ LocksAreExclusive /\ UpdatesAreNext
        /\ VersionsAreOld /\ DeletedAreEmpty /\ VersionsAreUnique
        /\ DebtorNamesAreUnique /\ PegsExist
    BY DEF ObjectsInv
  <1>2. Updating(s)
    BY DEF UpdateObject, Updating
  <1>3. /\ d \in DebtorIds /\ kind \in ObjectKinds /\ update_id \in Nat
        /\ content \in Contents(kind)
        /\ account[d].exists
        /\ update_id = account[d][kind].latest_update_id + 1
    BY <1>1, <1>2, SessionTypes DEF UpdatesAreNext
  <1>4. /\ account' = [account EXCEPT ![d][kind] = o]
        /\ uid_seq' = uid_seq + 1 /\ uid_seq \in Nat
        /\ versions' = versions \cup {v}
        /\ session' = EndOf(s)
        /\ IsConsistent(d, kind, content)
    BY <1>1 DEF UpdateObject, NextUid, ObjectsTypeOK
  <1>5. /\ v.debtor = d /\ v.kind = kind /\ v.id = update_id
        /\ o \in Object(kind) /\ o.latest_update_id = update_id
        /\ o.content = content
    BY <1>3 DEF Version, Object
  <1>6. account[d][kind].latest_update_id \in Nat
        /\ account[d][kind].latest_update_id <= uid_seq
    BY <1>1, <1>3, AccountTypes
  <1> HIDE DEF d, kind, update_id, content, o, v
  <1>7. /\ account' \in [DebtorIds -> Account]
        /\ account'[d].exists
        /\ account'[d][kind] = o
        /\ \A k \in ObjectKinds \ {kind} : account'[d][k] = account[d][k]
        /\ \A e \in DebtorIds \ {d} : account'[e] = account[e]
    <2>1. account[d] \in Account /\ account \in [DebtorIds -> Account]
      BY <1>1, <1>3 DEF ObjectsTypeOK
    <2>2. [account[d] EXCEPT ![kind] = o] \in Account
      BY <2>1, <1>3, <1>5, SetObject
    <2>3. /\ account' \in [DebtorIds -> Account]
          /\ account'[d] = [account[d] EXCEPT ![kind] = o]
          /\ \A e \in DebtorIds \ {d} : account'[e] = account[e]
      BY <2>1, <2>2, <1>3, <1>4
    <2> QED
      BY <2>1, <2>3, <1>3, <1>5, SetObject
  <1>8. ObjectsTypeOK'
    <2>1. \A u \in versions' : u.id <= uid_seq'
      <3> SUFFICES ASSUME NEW u \in versions'
                   PROVE  u.id <= uid_seq'
        OBVIOUS
      <3>1. CASE u \in versions
        <4>1. u.id \in Nat /\ u.id <= uid_seq
          BY <1>1, <3>1 DEF ObjectsTypeOK, VersionsAreOld
        <4> QED
          BY <4>1, <1>4
      <3>2. CASE u = v
        BY <3>2, <1>3, <1>4, <1>5, <1>6
      <3> QED
        BY <3>1, <3>2, <1>4
    <2>2. \A e \in DebtorIds, k \in ObjectKinds :
              account'[e][k].latest_update_id <= uid_seq'
      <3> SUFFICES ASSUME NEW e \in DebtorIds, NEW k \in ObjectKinds
                   PROVE  account'[e][k].latest_update_id <= uid_seq'
        OBVIOUS
      <3>1. CASE e = d /\ k = kind
        BY <3>1, <1>3, <1>4, <1>5, <1>6, <1>7
      <3>2. CASE e # d \/ k # kind
        <4>1. /\ account[e][k].latest_update_id \in Nat
              /\ account[e][k].latest_update_id <= uid_seq
          BY <1>1, AccountTypes
        <4>2. account'[e][k] = account[e][k]
          BY <3>2, <1>7
        <4> QED
          BY <4>1, <4>2, <1>4
      <3> QED
        BY <3>1, <3>2
    <2> QED
      BY <2>1, <2>2, <1>1, <1>4, <1>7, EndedSession DEF ObjectsTypeOK
  <1>9. LocksAreExclusive'
    BY <1>1, <1>4, EndedSession DEF LocksAreExclusive
  <1>10. UpdatesAreNext'
    <2> SUFFICES ASSUME NEW t \in Sessions, Updating(t)'
                 PROVE  LET e == session'[t].debtor
                            k == session'[t].kind
                        IN  /\ e \in DebtorIds
                            /\ session'[t].content \in Contents(k)
                            /\ account'[e].exists
                            /\ session'[t].update_id = account'[e][k].latest_update_id + 1
      BY DEF UpdatesAreNext
    <2>1. Updating(t) /\ t # s /\ session'[t] = session[t]
      BY <1>1, <1>4, EndedSession
    <2>2. ~(session[t].debtor = d /\ session[t].kind = kind)
      BY <1>1, <1>2, <2>1 DEF LocksAreExclusive, d, kind
    <2>3. /\ session[t].debtor \in DebtorIds
          /\ session[t].kind \in ObjectKinds
          /\ session[t].content \in Contents(session[t].kind)
          /\ account[session[t].debtor].exists
          /\ session[t].update_id =
                account[session[t].debtor][session[t].kind].latest_update_id + 1
      BY <1>1, <2>1, SessionTypes DEF UpdatesAreNext
    <2> QED
      BY <2>1, <2>2, <2>3, <1>7
  <1>11. VersionsAreOld'
    <2> SUFFICES ASSUME NEW u \in versions'
                 PROVE  /\ u.debtor \in DebtorIds /\ u.kind \in ObjectKinds
                        /\ u.id \in Nat
                        /\ account'[u.debtor].exists =>
                               u.id <= account'[u.debtor][u.kind].latest_update_id
      BY DEF VersionsAreOld
    <2>1. CASE u = v
      BY <2>1, <1>3, <1>5, <1>7
    <2>2. CASE u \in versions
      <3>1. /\ u.debtor \in DebtorIds /\ u.kind \in ObjectKinds /\ u.id \in Nat
            /\ account[u.debtor].exists =>
                  u.id <= account[u.debtor][u.kind].latest_update_id
        BY <2>2, <1>1 DEF VersionsAreOld
      <3>2. CASE u.debtor = d /\ u.kind = kind
        BY <3>1, <3>2, <1>3, <1>5, <1>6, <1>7
      <3>3. CASE u.debtor = d /\ u.kind # kind
        BY <3>1, <3>3, <1>3, <1>7
      <3>4. CASE u.debtor # d
        BY <3>1, <3>4, <1>7
      <3> QED
        BY <3>2, <3>3, <3>4
    <2> QED
      BY <2>1, <2>2, <1>4
  <1>12. VersionsAreUnique'
    <2>1. \A u \in versions :
              ~(u.debtor = v.debtor /\ u.kind = v.kind /\ u.id = v.id)
      BY <1>1, <1>3, <1>5, <1>6 DEF VersionsAreOld
    <2> QED
      BY <2>1, <1>1, <1>4 DEF VersionsAreUnique
  <1>13. DeletedAreEmpty'
    BY <1>1, <1>7 DEF DeletedAreEmpty
  <1>14. \A e \in DebtorIds :
            /\ account'[e].exists = account[e].exists
            /\ account'[e].display = account'[e]["display"]
            /\ account'[e].exchange = account'[e]["exchange"]
    BY <1>1, <1>3, <1>7, AccountTypes DEF ObjectsTypeOK
  <1>15. DebtorNamesAreUnique'
    <2> SUFFICES ASSUME NEW e \in DebtorIds, NEW f \in DebtorIds, e # f,
                        account'[e].display.content # Null,
                        account'[e].display.content = account'[f].display.content
                 PROVE  FALSE
      BY DEF DebtorNamesAreUnique
    <2>1. CASE kind = "display"
      <3>1. content = Null \/ \A g \in DebtorIds \ {d} : account[g].display.content # content
        BY <1>4, <2>1 DEF IsConsistent
      <3>2. account'[d].display.content = content
        BY <2>1, <1>3, <1>5, <1>7, <1>14
      <3> QED
        BY <3>1, <3>2, <1>1, <1>7 DEF DebtorNamesAreUnique
    <2>2. CASE kind # "display"
      <3>1. \A g \in DebtorIds : account'[g].display = account[g].display
        BY <2>2, <1>1, <1>7, <1>14, AccountTypes DEF ObjectKinds
      <3> QED
        BY <3>1, <1>1 DEF DebtorNamesAreUnique
    <2> QED
      BY <2>1, <2>2
  <1>16. PegsExist'
    <2> SUFFICES ASSUME NEW e \in DebtorIds, account'[e].exists,
                        account'[e].exchange.content # Null
                 PROVE  account'[account'[e].exchange.content].exists
      BY DEF PegsExist
    <2>1. CASE e = d /\ kind = "exchange"
      <3>1. account'[e].exchange.content = content
        BY <2>1, <1>5, <1>7, <1>14
      <3>2. content \in DebtorIds /\ account[content].exists
        BY <3>1, <2>1, <1>4 DEF IsConsistent
      <3> QED
        BY <3>1, <3>2, <1>14
    <2>2. CASE ~(e = d /\ kind = "exchange")
      <3>1. account'[e].exchange = account[e].exchange
        BY <2>2, <1>1, <1>7, <1>14, AccountTypes DEF ObjectKinds
      <3>2. account[e].exchange.content \in DebtorIds
        BY <3>1, <1>1, AccountTypes DEF ObjectKinds, Contents
      <3>3. account[account[e].exchange.content].exists
        BY <3>1, <1>1, <1>14 DEF PegsExist
      <3> QED
        BY <3>1, <3>2, <3>3, <1>14
    <2> QED
      BY <2>1, <2>2
  <1> QED
    BY <1>8, <1>9, <1>10, <1>11, <1>12, <1>13, <1>15, <1>16 DEF ObjectsInv

-----------------------------------------------------------------------------
(* Deletion                                                                *)

LEMMA DeleteObjectsInv ==
    ASSUME ObjectsInv, NEW s \in Sessions, NEW d \in DebtorIds,
           d = session[s].debtor, DeleteObjects(s)
    PROVE  ObjectsInv'
  <1> DEFINE new == {Version(d, kind, uid_seq + 1, Deleted) : kind \in ObjectKinds}
  <1>1. /\ ObjectsTypeOK /\ LocksAreExclusive /\ UpdatesAreNext
        /\ VersionsAreOld /\ DeletedAreEmpty /\ VersionsAreUnique
        /\ DebtorNamesAreUnique /\ PegsExist
    BY DEF ObjectsInv
  <1>2. /\ uid_seq \in Nat /\ uid_seq' = uid_seq + 1
        /\ versions' = versions \cup new
        /\ session' = EndOf(s)
        /\ \A kind \in ObjectKinds : ~IsLocked(d, kind)
        /\ PeggedTo(d) = {}
    BY <1>1 DEF DeleteObjects, NextUid, IsNotReferenced, ObjectsTypeOK
  <1>3. /\ NoAccount \in Account /\ NoAccount.exists = FALSE
        /\ NoAccount["display"].latest_update_id = 0
        /\ NoAccount["exchange"].latest_update_id = 0
        /\ NoAccount.display.content = Null
    BY NewObjects DEF NoAccount
  <1>4. /\ account' \in [DebtorIds -> Account]
        /\ account'[d] = NoAccount
        /\ \A e \in DebtorIds \ {d} : account'[e] = account[e]
    BY <1>1, <1>3 DEF DeleteObjects, ObjectsTypeOK
  <1>5. \A u \in new : /\ u.debtor = d /\ u.kind \in ObjectKinds
                         /\ u.id = uid_seq + 1
                         /\ u = Version(d, u.kind, uid_seq + 1, Deleted)
    BY DEF Version
  <1> HIDE DEF new
  <1>6. \A u \in versions : u.id \in Nat /\ u.id <= uid_seq
    BY <1>1 DEF ObjectsTypeOK, VersionsAreOld
  <1>7. ObjectsTypeOK'
    <2>1. \A u \in versions' : u.id <= uid_seq'
      BY <1>2, <1>5, <1>6
    <2>2. \A e \in DebtorIds, k \in ObjectKinds :
              account'[e][k].latest_update_id <= uid_seq'
      <3> SUFFICES ASSUME NEW e \in DebtorIds, NEW k \in ObjectKinds
                   PROVE  account'[e][k].latest_update_id <= uid_seq'
        OBVIOUS
      <3>1. CASE e = d
        BY <3>1, <1>2, <1>3, <1>4 DEF ObjectKinds
      <3>2. CASE e # d
        <4>1. /\ account[e][k].latest_update_id \in Nat
              /\ account[e][k].latest_update_id <= uid_seq
          BY <1>1, AccountTypes
        <4> QED
          BY <4>1, <3>2, <1>2, <1>4
      <3> QED
        BY <3>1, <3>2
    <2> QED
      BY <2>1, <2>2, <1>1, <1>2, <1>4, EndedSession DEF ObjectsTypeOK
  <1>8. LocksAreExclusive'
    BY <1>1, <1>2, EndedSession DEF LocksAreExclusive
  <1>9. UpdatesAreNext'
    <2> SUFFICES ASSUME NEW t \in Sessions, Updating(t)'
                 PROVE  LET e == session'[t].debtor
                            k == session'[t].kind
                        IN  /\ e \in DebtorIds
                            /\ session'[t].content \in Contents(k)
                            /\ account'[e].exists
                            /\ session'[t].update_id = account'[e][k].latest_update_id + 1
      BY DEF UpdatesAreNext
    <2>1. Updating(t) /\ t # s /\ session'[t] = session[t]
      BY <1>1, <1>2, EndedSession
    <2>2. session[t].kind \in ObjectKinds
      BY <1>1, SessionTypes
    <2>3. session[t].debtor # d
      BY <2>1, <2>2, <1>2 DEF IsLocked, Updating
    <2> QED
      BY <2>1, <2>3, <1>1, <1>4 DEF UpdatesAreNext
  <1>10. VersionsAreOld'
    <2> SUFFICES ASSUME NEW u \in versions'
                 PROVE  /\ u.debtor \in DebtorIds /\ u.kind \in ObjectKinds
                        /\ u.id \in Nat
                        /\ account'[u.debtor].exists =>
                               u.id <= account'[u.debtor][u.kind].latest_update_id
      BY DEF VersionsAreOld
    <2>1. CASE u \in versions
      BY <2>1, <1>1, <1>3, <1>4 DEF VersionsAreOld
    <2>2. CASE u \in new
      BY <2>2, <1>2, <1>3, <1>4, <1>5
    <2> QED
      BY <2>1, <2>2, <1>2
  <1>11. VersionsAreUnique'
    <2> SUFFICES ASSUME NEW a \in versions', NEW b \in versions',
                        a.debtor = b.debtor, a.kind = b.kind, a.id = b.id
                 PROVE  a = b
      BY DEF VersionsAreUnique
    <2>1. CASE a \in versions /\ b \in versions
      BY <2>1, <1>1 DEF VersionsAreUnique
    <2>2. CASE a \in new /\ b \in new
      BY <2>2, <1>5
    <2>3. ~(a \in versions /\ b \in new) /\ ~(a \in new /\ b \in versions)
      BY <1>2, <1>5, <1>6
    <2> QED
      BY <2>1, <2>2, <2>3, <1>2
  <1>12. DeletedAreEmpty'
    BY <1>1, <1>4 DEF DeletedAreEmpty
  <1>13. DebtorNamesAreUnique'
    BY <1>1, <1>3, <1>4 DEF DebtorNamesAreUnique
  <1>14. PegsExist'
    <2> SUFFICES ASSUME NEW e \in DebtorIds, account'[e].exists,
                        account'[e].exchange.content # Null
                 PROVE  account'[account'[e].exchange.content].exists
      BY DEF PegsExist
    <2>1. e # d
      BY <1>3, <1>4
    <2>2. account[e].exchange.content \in DebtorIds
      BY <2>1, <1>1, <1>4, AccountTypes DEF ObjectKinds, Contents
    <2>3. account[e].exchange.content # d
      BY <2>1, <1>2, <1>4 DEF PeggedTo
    <2> QED
      BY <2>1, <2>2, <2>3, <1>1, <1>4 DEF PegsExist
  <1> QED
    BY <1>7, <1>8, <1>9, <1>10, <1>11, <1>12, <1>13, <1>14 DEF ObjectsInv

-----------------------------------------------------------------------------
LEMMA NextObjectsInv == ObjectsInv /\ [ObjectsNext]_object_vars => ObjectsInv'
  <1> SUFFICES ASSUME ObjectsInv, [ObjectsNext]_object_vars
               PROVE  ObjectsInv'
    OBVIOUS
  <1>1. CASE UNCHANGED object_vars
    BY <1>1 DEF object_vars, ObjectsInv, ObjectsTypeOK, LocksAreExclusive,
        UpdatesAreNext, Updating, VersionsAreOld, DeletedAreEmpty,
        VersionsAreUnique, DebtorNamesAreUnique, PegsExist
  <1>2. CASE \E d \in DebtorIds : create_new_account_objects(d)
    BY <1>2, CreateObjectsInv
  <1>3. ASSUME NEW s \in Sessions, NEW d \in DebtorIds,
               NEW kind \in ObjectKinds, NEW update_id \in 1..MaxUid,
               NEW content \in Contents(kind),
               BeginUpdate(s, d, kind, update_id, content)
        PROVE  ObjectsInv'
    BY <1>3, BeginUpdateInv
  <1>4. CASE \E s \in Sessions : UpdateObject(s)
    BY <1>4, UpdateInv
  <1>5. CASE \E s \in Sessions : RollBack(s)
    BY <1>5, RollBackInv
  <1>6. CASE \E s \in Sessions : \E d \in DebtorIds : BeginDeletionOf(s, d)
    BY <1>6, BeginDeletionInv
  <1>7. ASSUME NEW s \in Sessions, DeleteObjects(s)
        PROVE  ObjectsInv'
    <2>1. session[s].debtor \in DebtorIds
      BY <1>7, SessionTypes DEF ObjectsInv, DeleteObjects
    <2> QED
      BY <1>7, <2>1, DeleteObjectsInv
  <1> QED
    BY <1>1, <1>2, <1>3, <1>4, <1>5, <1>6, <1>7 DEF ObjectsNext

\* However updates, creations and deletions interleave, ObjectsInv holds.
THEOREM ObjectsCorrect == ObjectsSpec => []ObjectsInv
  BY InitObjectsInv, NextObjectsInv, PTL DEF ObjectsSpec

\* An update ID of an object stands for one content: a client that passes
\* allow_update has seen what it overwrites, even when the account has been
\* deleted and created again.
THEOREM VersionsCorrect == ObjectsSpec => []VersionsAreUnique
  <1>1. ObjectsInv => VersionsAreUnique
    BY DEF ObjectsInv
  <1> QED
    BY <1>1, ObjectsCorrect, PTL

\* Names stay different and pegs stay there, though each request has checked
\* them before it commits.
THEOREM ConsistencyCorrect == ObjectsSpec => []ObjectsAreConsistent
  <1>1. ObjectsInv => ObjectsAreConsistent
    BY DEF ObjectsInv, ObjectsAreConsistent
  <1> QED
    BY <1>1, ObjectsCorrect, PTL
=============================================================================
