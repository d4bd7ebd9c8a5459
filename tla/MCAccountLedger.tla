-------------------------- MODULE MCAccountLedger --------------------------
(***************************************************************************)
(* AccountLedger on small instances.                                       *)
(***************************************************************************)
EXTENDS AccountLedger

\* Amounts are not natural numbers, and a .cfg file holds no expressions.
PlusMinusOne == {-1, 1}
PlusOne == {1}

\* One transfer is enough to get from one limit of the principals to the other.
Limits == {1, MIN_INT64}

=============================================================================
