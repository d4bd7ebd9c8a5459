--------------------------- MODULE CorrectionLoop ---------------------------
(***************************************************************************)
(* The loop of make_correcting_ledger_entry_if_necessary, and of           *)
(* AccountScanner._update_ledger, one correcting entry at a time.  The     *)
(* result of the loop is the set Corrections, which AccountLedger uses.    *)
(***************************************************************************)
EXTENDS PrincipalCorrection

VARIABLES
    from,                 \* the principal of the ledger before the loop
    previous_principal,   \* the principal the ledger has to reach
    ledger_principal,     \* a 64-bit column
    correction_amount,    \* what is still to be corrected, a NUMERIC(24)
    ledger_last_entry_id, \* counted from 0 here
    entries               \* the ledger entries made so far

loop_vars == <<from, previous_principal, ledger_principal, correction_amount,
          ledger_last_entry_id, entries>>

LoopStart ==
    /\ from \in Principal
    /\ previous_principal \in Principal
    /\ ledger_principal = from
    /\ correction_amount = previous_principal - from
    /\ ledger_last_entry_id = 0
    /\ entries = {}

\* Slip: only shortages are corrected.
IsShort == correction_amount > 0

\* The condition of the loop.
IsIncomplete == correction_amount # 0

MakeCorrectingEntry ==
    LET safe_amount == contain_principal_overflow(correction_amount)
    IN  /\ IsIncomplete
        /\ correction_amount' = correction_amount - safe_amount
        /\ ledger_principal' = ledger_principal + safe_amount
        /\ ledger_last_entry_id' = ledger_last_entry_id + 1
        /\ entries' = entries \cup
             {[n |-> ledger_last_entry_id + 1,
               acquired_amount |-> safe_amount,
               principal |-> ledger_principal + safe_amount]}
        /\ UNCHANGED <<from, previous_principal>>

LoopNext == MakeCorrectingEntry

LoopSpec == LoopStart /\ [][LoopNext]_loop_vars

-----------------------------------------------------------------------------
(* Properties *)

\* Neither the loop nor the entries it makes overflow a column: principals
\* on the way stay within 64 bits, and every amount can be negated.
NoOverflow ==
    /\ ledger_principal \in Principal
    /\ \A e \in entries :
          /\ e.principal \in Principal
          /\ e.acquired_amount \in -MAX_INT64 .. MAX_INT64

\* When the loop ends the ledger has arrived, through the entries that the
\* closed form Corrections gives, and not by more of them than necessary.
ArrivesByCorrections ==
    correction_amount = 0 =>
      /\ ledger_principal = previous_principal
      /\ entries = Corrections(from, previous_principal)

\* What AccountLedger relies on when it uses the closed form.
LoopIsRight == NoOverflow /\ ArrivesByCorrections

\* The loop ends.
Terminates == <>(correction_amount = 0)

-----------------------------------------------------------------------------
(* The inductive invariant behind NoOverflow and ArrivesByCorrections: the *)
(* loop has made the first entries of Corrections, and is where the last   *)
(* one of them leads.                                                      *)

LoopInv ==
    LET k == ledger_last_entry_id
    IN  /\ from \in Principal
        /\ previous_principal \in Principal
        /\ k \in 0 .. CorrectionCount(previous_principal - from)
        /\ ledger_principal = CorrectedPrincipal(from, previous_principal, k)
        /\ correction_amount = previous_principal - ledger_principal
        /\ entries = {e \in Corrections(from, previous_principal) : e.n <= k}

=============================================================================
