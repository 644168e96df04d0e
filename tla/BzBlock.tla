------------------------------ MODULE BzBlock ------------------------------
(***************************************************************************)
(* What libbzip2 does to one block, as functions of the block: the sorted  *)
(* rotations (blocksort.c), move-to-front with run lengths                 *)
(* (generateMTFValues in compress.c), and the vector that leads back       *)
(* through the rotations (decompress.c).  Positions count from 0, as in    *)
(* the code; sequences count from 1.                                       *)
(***************************************************************************)
EXTENDS Integers, Sequences, SequencesExt, FiniteSets

BZ_RUNA == 0
BZ_RUNB == 1

---------------------------------------------------------------------------
(* Sorting.                                                                *)

\* The k-th byte of the rotation that starts at i.
RotationAt(block, i, k) == block[((i + k) % Len(block)) + 1]

\* Rotation i comes before rotation j; equal rotations keep their order.
Before(block, i, j) ==
  LET Same(k) == RotationAt(block, i, k) = RotationAt(block, j, k)
      n == Len(block)
  IN  \/ \E k \in 0..(n - 1) :
           /\ RotationAt(block, i, k) < RotationAt(block, j, k)
           /\ \A m \in 0..(k - 1) : Same(m)
      \/ i < j /\ \A k \in 0..(n - 1) : Same(k)

\* BZ2_blockSort: ptr[r] is the start of the rotation of rank r.
BZ2_blockSort(block) ==
  LET Starts == 0..(Len(block) - 1)
      Rank(i) == Cardinality({j \in Starts : Before(block, j, i)})
  IN  [r \in Starts |-> CHOOSE i \in Starts : Rank(i) = r]

OrigPtr(ptr) == CHOOSE r \in DOMAIN ptr : ptr[r] = 0

\* The byte before each rotation, in rank order.
LastColumn(block, ptr) ==
  [r \in 1..Len(block) |->
     block[IF ptr[r - 1] = 0 THEN Len(block) ELSE ptr[r - 1]]]

---------------------------------------------------------------------------
(* Move-to-front.                                                          *)

\* makeMaps_e and makeMaps_d: the bytes in use, in ascending order.
makeMaps(inUse) ==
  [n \in 1..Cardinality(inUse) |->
     CHOOSE b \in inUse : Cardinality({c \in inUse : c < b}) = n - 1]

\* The digits of a run of n zeros, n > 0: one RUNA or RUNB per step, least
\* significant first, in the base-two numbers whose digits are 1 and 2.
RunDigits(n) ==
  LET digits[z \in 0..n] ==
        <<IF z % 2 = 1 THEN BZ_RUNB ELSE BZ_RUNA>>
          \o (IF z < 2 THEN << >> ELSE digits[(z - 2) \div 2])
  IN  digits[n - 1]

PendingRun(zPend) == IF zPend = 0 THEN << >> ELSE RunDigits(zPend)

\* The list after its element at position j (from 0) has moved to the front.
MoveToFront(yy, j) == <<yy[j + 1]>> \o RemoveAt(yy, j + 1)

\* generateMTFValues: the symbols of a block, with the end-of-block symbol last.
generateMTFValues(column, inUse) ==
  LET EOB == Cardinality(inUse) + 1
      start == [yy |-> makeMaps(inUse), zPend |-> 0, mtfv |-> << >>]
      Step(s, ll) ==
        LET j == (CHOOSE p \in 1..Len(s.yy) : s.yy[p] = ll) - 1
        IN  IF j = 0
            THEN [yy |-> s.yy, zPend |-> s.zPend + 1, mtfv |-> s.mtfv]
            ELSE [yy |-> MoveToFront(s.yy, j),
                  zPend |-> 0,
                  mtfv |-> s.mtfv \o PendingRun(s.zPend) \o <<j + 1>>]
      after[i \in 0..Len(column)] == IF i = 0 THEN start ELSE Step(after[i - 1], column[i])
      last == after[Len(column)]
  IN  last.mtfv \o PendingRun(last.zPend) \o <<EOB>>

---------------------------------------------------------------------------
(* The way back.                                                           *)

\* The vector tt: entry p holds the byte at rank p of the last column, and the
\* rank at which the rotation of rank p, moved on by one byte, is found.
InverseVector(column) ==
  LET Ranks == 1..Len(column)
      cftab(i) == Cardinality({j \in Ranks : column[j] < column[i]})
                    + Cardinality({j \in Ranks : j < i /\ column[j] = column[i]})
  IN  [p \in 0..(Len(column) - 1) |->
         [ch |-> column[p + 1],
          next |-> (CHOOSE i \in Ranks : cftab(i) = p) - 1]]
=============================================================================
