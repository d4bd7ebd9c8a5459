--------------------------- MODULE AccountObjects ---------------------------
(***************************************************************************)
(* What clients change about the accounts of one creditor: the debtor's    *)
(* name in AccountDisplay, and the currency peg in AccountExchange.        *)
(*                                                                         *)
(* A client has to know the latest update ID of the object; that is all    *)
(* that protects it from overwriting the changes of another one.  An update*)
(* locks the row of its object, and checks what it can; whatever happens   *)
(* to the rows of other accounts until it commits, is left to the          *)
(* constraints of the database.  delete_account works in the same way.     *)
(***************************************************************************)
EXTENDS Naturals, FiniteSets

CONSTANTS
    DebtorIds,      \* the creditor's accounts
    DebtorNames,    \* the names that clients give to them
    Null,           \* no name, no peg
    Deleted,        \* the content of a deleted object
    Sessions,       \* the requests that are processed at once
    MaxUid          \* bound: of object_update_id_seq

ASSUME AccountObjectsAssumption ==
    /\ Null \notin DebtorIds \cup DebtorNames /\ Deleted # Null
    /\ Deleted \notin DebtorIds \cup DebtorNames
    /\ MaxUid \in Nat

VARIABLES
    account,        \* the rows in the account table, with their objects
    uid_seq,        \* object_update_id_seq
    session,        \* what the requests are going to do
    versions        \* ghost: what has been read under every update ID

object_vars == <<account, uid_seq, session, versions>>

ObjectKinds == {"display", "exchange"}

\* The name is in the display, the peg in the exchange.
Contents(kind) == {Null} \cup IF kind = "display" THEN DebtorNames ELSE DebtorIds

Object(kind) == [latest_update_id: Nat, content: Contents(kind)]

Account == [exists: BOOLEAN, display: Object("display"), exchange: Object("exchange")]

NewObject(update_id) == [latest_update_id |-> update_id, content |-> Null]

NoAccount ==
    [exists |-> FALSE, display |-> NewObject(0), exchange |-> NewObject(0)]

Waiting == [stage |-> "waiting", debtor |-> Null,
            kind |-> "display", update_id |-> 0, content |-> Null]

Session ==
    {Waiting} \cup
    [stage: {"updating", "deleting"}, debtor: DebtorIds, kind: ObjectKinds,
     update_id: Nat, content: DebtorIds \cup DebtorNames \cup {Null}]

Version(d, kind, update_id, content) ==
    [debtor |-> d, kind |-> kind, id |-> update_id, content |-> content]

ObjectsInit ==
    /\ account = [d \in DebtorIds |-> NoAccount]
    /\ uid_seq = 0
    /\ session = [s \in Sessions |-> Waiting]
    /\ versions = {}

IsWaiting(s) == session[s].stage = "waiting"

EndOf(s) == [session EXCEPT ![s] = Waiting]

\* create_new_account and delete_account lock the row of the creditor.
IsCreditorLockFree == \A s \in Sessions : session[s].stage # "deleting"

\* The other accounts that are pegged to this one.
PeggedTo(d) ==
    {e \in DebtorIds \ {d} : account[e].exists /\ account[e].exchange.content = d}

-----------------------------------------------------------------------------
\* Every object of the new account gets an ID of its own from the sequence.
create_new_account_objects(d) ==
    /\ IsCreditorLockFree
    /\ ~account[d].exists
    /\ uid_seq + 2 <= MaxUid
    /\ account' = [account EXCEPT ![d] =
           [exists |-> TRUE, display |-> NewObject(uid_seq + 1),
            exchange |-> NewObject(uid_seq + 2)]]
    /\ uid_seq' = uid_seq + 2
    /\ versions' = versions \cup
           {Version(d, "display", uid_seq + 1, Null),
            Version(d, "exchange", uid_seq + 2, Null)}
    /\ UNCHANGED session

-----------------------------------------------------------------------------
(* Updates                                                                 *)

\* Slip: who repeats the latest update ID, may change the content.
IsRepeatAllowed(object, update_id) ==
    update_id \in {object.latest_update_id, object.latest_update_id + 1}

\* A repeated update that changes nothing does nothing ("AlreadyUpToDate"); any
\* other update ID is a conflict.
allow_update(object, update_id) == update_id = object.latest_update_id + 1

IsLocked(d, kind) ==
    \E s \in Sessions :
        /\ session[s].stage = "updating"
        /\ session[s].debtor = d /\ session[s].kind = kind

\* The debtor's name is not taken, or the account to be the peg exists.
IsAcceptable(d, kind, content) ==
    \/ content \in {Null, account[d][kind].content}
    \/ kind = "display" /\ \A e \in DebtorIds : account[e].display.content # content
    \/ kind = "exchange" /\ content \in {e \in DebtorIds : account[e].exists}

\* The row is locked until the request ends ...
BeginUpdate(s, d, kind, update_id, content) ==
    /\ IsWaiting(s)
    /\ account[d].exists
    /\ ~IsLocked(d, kind)
    /\ allow_update(account[d][kind], update_id)
    /\ content \in Contents(kind)
    /\ IsAcceptable(d, kind, content)
    /\ uid_seq < MaxUid
    /\ session' = [session EXCEPT ![s] =
           [stage |-> "updating", debtor |-> d, kind |-> kind,
            update_id |-> update_id, content |-> content]]
    /\ UNCHANGED <<account, uid_seq, versions>>

\* Slip: there is no unique index, or no foreign key.
IsInconsistent(d, kind, content) == TRUE

\* The unique index on names, and the foreign key of pegs, decide once more.
IsConsistent(d, kind, content) ==
    \/ content = Null
    \/ /\ kind = "display"
       /\ \A e \in DebtorIds \ {d} : account[e].display.content # content
    \/ kind = "exchange" /\ content \in {e \in DebtorIds : account[e].exists}

NextUid == uid_seq + 1

\* ... and has been checked by then.
UpdateObject(s) ==
    LET d == session[s].debtor
        kind == session[s].kind
        update_id == session[s].update_id
        content == session[s].content
    IN  /\ session[s].stage = "updating"
        /\ IsConsistent(d, kind, content)
        /\ account' = [account EXCEPT ![d][kind] =
               [latest_update_id |-> update_id, content |-> content]]
        /\ uid_seq' = NextUid
        /\ versions' = versions \cup {Version(d, kind, update_id, content)}
        /\ session' = EndOf(s)

\* An integrity error, with or without a retry; or the request is aborted.
RollBack(s) ==
    /\ session[s].stage \in {"updating", "deleting"}
    /\ session' = EndOf(s)
    /\ UNCHANGED <<account, uid_seq, versions>>

-----------------------------------------------------------------------------
(* Deletion                                                                *)

\* delete_account finds that no other account is pegged to this one ...
BeginDeletionOf(s, d) ==
    /\ IsWaiting(s)
    /\ IsCreditorLockFree
    /\ account[d].exists
    /\ PeggedTo(d) = {}
    /\ uid_seq < MaxUid
    /\ session' = [session EXCEPT ![s] =
           [Waiting EXCEPT !.stage = "deleting", !.debtor = d]]
    /\ UNCHANGED <<account, uid_seq, versions>>

\* The foreign key of pegs has no ON DELETE clause.
IsNotReferenced(d) == PeggedTo(d) = {}

\* ... and deletes it with all of its objects, when nobody updates them.
DeleteObjects(s) ==
    LET d == session[s].debtor
    IN  /\ session[s].stage = "deleting"
        /\ account[d].exists
        /\ \A kind \in ObjectKinds : ~IsLocked(d, kind)
        /\ IsNotReferenced(d)
        /\ account' = [account EXCEPT ![d] = NoAccount]
        /\ uid_seq' = NextUid
        /\ versions' = versions \cup
               {Version(d, kind, NextUid, Deleted) : kind \in ObjectKinds}
        /\ session' = EndOf(s)

-----------------------------------------------------------------------------
ObjectsNext ==
    \/ \E d \in DebtorIds : create_new_account_objects(d)
    \/ \E s \in Sessions :
          \/ \E d \in DebtorIds, kind \in ObjectKinds, update_id \in 1..MaxUid :
                \E content \in Contents(kind) :
                    BeginUpdate(s, d, kind, update_id, content)
          \/ UpdateObject(s)
          \/ RollBack(s)
          \/ \E d \in DebtorIds : BeginDeletionOf(s, d)
          \/ DeleteObjects(s)

ObjectsSpec == ObjectsInit /\ [][ObjectsNext]_object_vars

-----------------------------------------------------------------------------
\* No update ID is ahead of the sequence.
ObjectsTypeOK ==
    /\ account \in [DebtorIds -> Account]
    /\ uid_seq \in Nat
    /\ session \in [Sessions -> Session]
    /\ \A v \in versions : v.id <= uid_seq
    /\ \A d \in DebtorIds, kind \in ObjectKinds :
           account[d][kind].latest_update_id <= uid_seq

\* An update ID of an object never stands for two different contents, not even
\* when the account has been deleted and created again: of two clients that
\* know the same version, one gets a conflict, and a copy can not be taken for
\* current when it is not.
VersionsAreUnique ==
    \A v, w \in versions :
        v.debtor = w.debtor /\ v.kind = w.kind /\ v.id = w.id => v = w

\* Two accounts never have the same debtor's name, though it is checked before
\* it is given.
DebtorNamesAreUnique ==
    \A d, e \in DebtorIds :
        d # e /\ account[d].display.content # Null
            => account[d].display.content # account[e].display.content

\* A currency peg always exists, though it may be deleted between the check and
\* the update, and an account may become a peg between the check and the
\* deletion.
PegsExist ==
    \A d \in DebtorIds :
        account[d].exists /\ account[d].exchange.content # Null
            => account[account[d].exchange.content].exists

\* Both depend on rows that the requests have not locked.
ObjectsAreConsistent == DebtorNamesAreUnique /\ PegsExist

=============================================================================
