------------------------ MODULE PrincipalCorrection ------------------------
(***************************************************************************)
(* The arithmetic of correcting ledger entries.                            *)
(*                                                                         *)
(* A ledger shows every principal reached through a chain of entries, each *)
(* of which adds its `acquired_amount` to the previous principal.  When    *)
(* the principal reported by the accounting authority does not continue    *)
(* the chain, "correcting" entries bridge the difference.  Amounts are     *)
(* signed 64-bit columns, while the difference of two such numbers needs   *)
(* 65 bits, so one difference may need several entries.                    *)
(*                                                                         *)
(* The result of the code's loop is given here in closed form; the loop    *)
(* itself is in CorrectionLoop, which arrives at this result.              *)
(***************************************************************************)
EXTENDS Integers

CONSTANT
    \* The largest value of a BIGINT column (2^63 - 1 in the code).
    MAX_INT64

ASSUME MaxIntAssumption == MAX_INT64 \in Nat \ {0}

MIN_INT64 == -MAX_INT64 - 1

Principal == MIN_INT64 .. MAX_INT64

\* Slip: only one end is contained.
ContainUpperEndOnly(value) == IF value > MAX_INT64 THEN MAX_INT64 ELSE value

\* The value MIN_INT64 itself is mapped to -MAX_INT64, so that every
\* contained amount can be negated.
contain_principal_overflow(value) ==
    IF value <= MIN_INT64
      THEN -MAX_INT64
      ELSE IF value > MAX_INT64 THEN MAX_INT64 ELSE value

Abs(n) == IF n < 0 THEN -n ELSE n

\* How many entries the loop of the code makes to correct by `amount`.
CorrectionCount(amount) == (Abs(amount) + MAX_INT64 - 1) \div MAX_INT64

\* The principal after the k-th of the entries that lead from `from` to `to`:
\* every entry but the last moves by MAX_INT64.
CorrectedPrincipal(from, to, k) ==
    IF k = CorrectionCount(to - from)
      THEN to
      ELSE IF to > from THEN from + k * MAX_INT64 ELSE from - k * MAX_INT64

\* Slip: the correction is one entry, whatever its size.
SingleCorrection(from, to) ==
    IF from = to THEN {}
    ELSE {[n |-> 1, acquired_amount |-> to - from, principal |-> to]}

\* The correcting entries, numbered from 1, that lead from one principal to
\* another one.
Corrections(from, to) ==
    {[n |-> k,
      acquired_amount |-> CorrectedPrincipal(from, to, k)
                            - CorrectedPrincipal(from, to, k - 1),
      principal |-> CorrectedPrincipal(from, to, k)]
        : k \in 1 .. CorrectionCount(to - from)}

=============================================================================
