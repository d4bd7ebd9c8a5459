------------------------------ MODULE Replica ------------------------------
(***************************************************************************)
(* What the creditor's log promises to the clients of the Web API          *)
(* (routes/creditors.py:30): "to reliably synchronize their local          *)
(* databases with the server, simply by following the log".                *)
(*                                                                         *)
(* There are objects on the server and copies of them in the database of a *)
(* client.  Every change gives an object a bigger version; a copy moves    *)
(* forward only, never past its object, and whatever happened to an object *)
(* reaches its copy in the end.                                            *)
(***************************************************************************)
EXTENDS Naturals

CONSTANTS
    Objects,    \* everything a client may keep a copy of
    Versions    \* the versions for which the arrival is promised

VARIABLES
    object,     \* the state of each object on the server
    copy        \* the state of each copy

vars == <<object, copy>>

State == [exists: BOOLEAN, version: Nat]
Unknown == [exists |-> FALSE, version |-> 0]

Init ==
    /\ object \in [Objects -> State]
    /\ copy = [o \in Objects |-> Unknown]

\* A transaction on the server: some objects get bigger versions.
Change ==
    /\ object' \in [Objects -> State]
    /\ \A o \in Objects :
           object'[o] = object[o] \/ object'[o].version > object[o].version
    /\ UNCHANGED copy

\* Copies get later states of their objects, not necessarily the last ones.
CatchUp ==
    /\ copy' \in [Objects -> State]
    /\ \A o \in Objects :
           \/ copy'[o] = copy[o]
           \/ /\ copy[o].version < copy'[o].version
              /\ copy'[o].version <= object[o].version
              /\ copy'[o].version = object[o].version => copy'[o] = object[o]
    /\ UNCHANGED object

Next == Change \/ CatchUp

\* Neither of them exists: there is nothing to copy.
BothAbsent(o) == ~object[o].exists /\ ~copy[o].exists

Arrival ==
    \A o \in Objects, v \in Versions :
        object[o].version >= v ~> (copy[o].version >= v \/ BothAbsent(o))

Safety == Init /\ [][Next]_vars
Spec == Safety /\ Arrival

=============================================================================
