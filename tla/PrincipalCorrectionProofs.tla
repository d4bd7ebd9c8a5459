---------------------- MODULE PrincipalCorrectionProofs ----------------------
(***************************************************************************)
(* The arithmetic of correcting ledger entries, for columns of every       *)
(* width.  The difference of two principals needs at most three entries,   *)
(* so every argument is by cases on how many have been made.               *)
(***************************************************************************)
EXTENDS PrincipalCorrection, TLAPS

\* What `div` means.
LEMMA Division ==
    ASSUME NEW x \in Nat, NEW y \in Nat, y > 0
    PROVE  /\ x \div y \in Nat
           /\ y * (x \div y) <= x
           /\ x < y * (x \div y) + y
  BY SMT

\* How many correcting entries an amount needs.
LEMMA CountBounds ==
    ASSUME NEW amount \in Int, Abs(amount) <= 2 * MAX_INT64 + 1
    PROVE  LET count == CorrectionCount(amount)
           IN  \/ count = 0 /\ amount = 0
               \/ count = 1 /\ 0 < Abs(amount) /\ Abs(amount) <= MAX_INT64
               \/ /\ count = 2
                  /\ MAX_INT64 < Abs(amount)
                  /\ Abs(amount) <= 2 * MAX_INT64
               \/ count = 3 /\ 2 * MAX_INT64 < Abs(amount)
  <1> DEFINE a == Abs(amount)
             count == CorrectionCount(amount)
  <1>1. a \in Nat /\ (a = 0 <=> amount = 0)
    BY DEF Abs
  <1>2. MAX_INT64 \in Nat /\ MAX_INT64 > 0
    BY MaxIntAssumption
  <1>3. a + MAX_INT64 - 1 \in Nat
    BY <1>1, <1>2
  <1>4. /\ count \in Nat
        /\ MAX_INT64 * count <= a + MAX_INT64 - 1
        /\ a + MAX_INT64 - 1 < MAX_INT64 * count + MAX_INT64
    BY <1>2, <1>3, Division DEF CorrectionCount
  <1> HIDE DEF a, count
  <1>5. a <= 2 * MAX_INT64 + 1
    BY DEF a
  <1>6. count <= 3
    <2>1. SUFFICES ASSUME count >= 4
                   PROVE  FALSE
      BY <1>4
    <2>2. MAX_INT64 * count >= MAX_INT64 * 4
      BY <1>2, <1>4, <2>1
    <2> QED
      BY <1>1, <1>2, <1>4, <1>5, <2>2
  <1>7. count \in {0, 1, 2, 3}
    BY <1>4, <1>6
  <1>8. \/ count = 0 /\ a = 0
        \/ count = 1 /\ 0 < a /\ a <= MAX_INT64
        \/ count = 2 /\ MAX_INT64 < a /\ a <= 2 * MAX_INT64
        \/ count = 3 /\ 2 * MAX_INT64 < a
    <2>1. CASE count = 0
      BY <1>1, <1>2, <1>4, <2>1
    <2>2. CASE count = 1
      BY <1>1, <1>2, <1>4, <2>2
    <2>3. CASE count = 2
      BY <1>1, <1>2, <1>4, <2>3
    <2>4. CASE count = 3
      BY <1>1, <1>2, <1>4, <2>4
    <2> QED
      BY <1>7, <2>1, <2>2, <2>3, <2>4
  <1> QED
    BY <1>1, <1>8 DEF a, count

\* The difference of two principals, and what it needs.
LEMMA DifferenceBounds ==
    ASSUME NEW x \in Principal, NEW y \in Principal
    PROVE  LET d == y - x
               count == CorrectionCount(y - x)
           IN  /\ x \in Int /\ y \in Int /\ MAX_INT64 \in Nat \ {0}
               /\ \/ count = 0 /\ d = 0
                  \/ /\ count = 1 /\ d # 0
                     /\ -MAX_INT64 <= d /\ d <= MAX_INT64
                  \/ /\ count = 2
                     /\ \/ MAX_INT64 < d /\ d <= 2 * MAX_INT64
                        \/ d < -MAX_INT64 /\ -(2 * MAX_INT64) <= d
                  \/ /\ count = 3
                     /\ \/ 2 * MAX_INT64 < d
                        \/ d < -(2 * MAX_INT64)
  <1>1. x \in Int /\ y \in Int /\ MAX_INT64 \in Nat \ {0}
    BY MaxIntAssumption DEF Principal, MIN_INT64
  <1>2. y - x \in Int /\ Abs(y - x) <= 2 * MAX_INT64 + 1
    BY <1>1 DEF Principal, MIN_INT64, Abs
  <1> DEFINE count == CorrectionCount(y - x)
  <1>3. \/ count = 0 /\ y - x = 0
        \/ count = 1 /\ 0 < Abs(y - x) /\ Abs(y - x) <= MAX_INT64
        \/ /\ count = 2
           /\ MAX_INT64 < Abs(y - x)
           /\ Abs(y - x) <= 2 * MAX_INT64
        \/ count = 3 /\ 2 * MAX_INT64 < Abs(y - x)
    BY <1>2, CountBounds
  <1> HIDE DEF count
  <1>4. \/ count = 0 /\ y - x = 0
        \/ /\ count = 1 /\ y - x # 0
           /\ -MAX_INT64 <= y - x /\ y - x <= MAX_INT64
        \/ /\ count = 2
           /\ \/ MAX_INT64 < y - x /\ y - x <= 2 * MAX_INT64
              \/ y - x < -MAX_INT64 /\ -(2 * MAX_INT64) <= y - x
        \/ /\ count = 3
           /\ \/ 2 * MAX_INT64 < y - x
              \/ y - x < -(2 * MAX_INT64)
    BY <1>1, <1>2, <1>3 DEF Abs
  <1> QED
    BY <1>1, <1>4 DEF count

\* Each correcting entry moves the ledger by what the loop contains.
LEMMA CorrectedSteps ==
    ASSUME NEW x \in Principal, NEW y \in Principal,
           NEW k \in 1 .. CorrectionCount(y - x)
    PROVE  LET before == CorrectedPrincipal(x, y, k - 1)
               after == CorrectedPrincipal(x, y, k)
           IN  /\ before \in Principal
               /\ after \in Principal
               /\ y - before # 0
               /\ after - before = contain_principal_overflow(y - before)
               /\ after - before \in -MAX_INT64 .. MAX_INT64
  <1> DEFINE count == CorrectionCount(y - x)
             before == CorrectedPrincipal(x, y, k - 1)
             after == CorrectedPrincipal(x, y, k)
             M == MAX_INT64
  <1>1. /\ x \in Int /\ y \in Int /\ M \in Nat \ {0}
        /\ \/ count = 0 /\ y - x = 0
           \/ /\ count = 1 /\ y - x # 0
              /\ -M <= y - x /\ y - x <= M
           \/ /\ count = 2
              /\ \/ M < y - x /\ y - x <= 2 * M
                 \/ y - x < -M /\ -(2 * M) <= y - x
           \/ /\ count = 3
              /\ \/ 2 * M < y - x
                 \/ y - x < -(2 * M)
    BY DifferenceBounds
  <1>2. /\ x <= M /\ -M - 1 <= x
        /\ y <= M /\ -M - 1 <= y
    BY <1>1 DEF Principal, MIN_INT64
  <1>3. /\ before = IF k - 1 = count
                      THEN y
                      ELSE IF y > x THEN x + (k - 1) * M ELSE x - (k - 1) * M
        /\ after = IF k = count
                     THEN y
                     ELSE IF y > x THEN x + k * M ELSE x - k * M
    BY DEF CorrectedPrincipal
  <1>4. k \in 1 .. count
    OBVIOUS
  <1> HIDE DEF count, before, after, M
  <1>5. count \in {1, 2, 3} /\ k \in {1, 2, 3} /\ k <= count
    BY <1>1, <1>4
  <1>6. /\ before \in Int /\ after \in Int
        /\ before <= M /\ -M - 1 <= before
        /\ after <= M /\ -M - 1 <= after
        /\ y - before # 0
        /\ \/ -M <= y - before /\ y - before <= M /\ after = y
           \/ y - before > M /\ after - before = M
           \/ y - before < -M /\ after - before = -M
    <2>1. CASE k = 1
      BY <1>1, <1>2, <1>3, <1>5, <2>1
    <2>2. CASE k = 2
      BY <1>1, <1>2, <1>3, <1>5, <2>2
    <2>3. CASE k = 3
      BY <1>1, <1>2, <1>3, <1>5, <2>3
    <2> QED
      BY <1>5, <2>1, <2>2, <2>3
  <1>7. before \in Principal /\ after \in Principal
    BY <1>1, <1>6 DEF Principal, MIN_INT64, M
  <1>8. /\ after - before = contain_principal_overflow(y - before)
        /\ after - before \in -MAX_INT64 .. MAX_INT64
    BY <1>1, <1>6 DEF contain_principal_overflow, MIN_INT64, M
  <1> QED
    BY <1>6, <1>7, <1>8 DEF before, after

\* Nothing is corrected before the first entry, and everything after the last.
LEMMA CorrectedEnds ==
    ASSUME NEW x \in Principal, NEW y \in Principal
    PROVE  /\ CorrectedPrincipal(x, y, 0) = x
           /\ CorrectedPrincipal(x, y, CorrectionCount(y - x)) = y
           /\ CorrectionCount(y - x) \in Nat
  BY DifferenceBounds DEF CorrectedPrincipal

=============================================================================
