---------------------------- MODULE Bzip2Proofs ----------------------------
(***************************************************************************)
(* Proofs about the bzip2 library: the writer's block fits its space, no   *)
(* call is refused, a closed stream ends in its trailer, the reader stops  *)
(* right behind it, and the walk that puts a block out stays inside the    *)
(* block; for every block size, longest run, buffer and sequence of calls. *)
(*                                                                         *)
(* The argument.                                                           *)
(*   Fits        BlockFits is not inductive: CompressRest adds the run in  *)
(*               progress to a block that may already be full.  That this  *)
(*               run is then no longer than one byte, because the byte     *)
(*               that filled the block started a new run, is what Room     *)
(*               adds.                                                     *)
(*   WriterInv   adds what the automaton of BZ2_bzCompress knows: which    *)
(*               mode belongs to which call, when a pass has made          *)
(*               progress, and where the trailer is once it is made.       *)
(*   TokensInv   follows the tokens on their way to the file: nothing is   *)
(*               written behind a trailer, and a block header names at     *)
(*               least one byte.                                           *)
(*   ReaderInv   follows them into the decoder: what is left of the input  *)
(*               ends as the file did, the list of a block holds bytes,    *)
(*               and tt leads from place to place of the block.            *)
(* The data part is about ranks: the elements of a finite ordered set have *)
(* ranks 0, 1, ..., one each (RanksCover), which makes blocksort's ptr,    *)
(* the vector tt and makeMaps what the code takes them for.                *)
(***************************************************************************)
EXTENDS BzDecompress, SequenceTheorems, FiniteSetTheorems, WellFoundedInduction, TLAPS

(* A set of naturals that is not empty has a least element.                *)
LEMMA LeastElement ==
  ASSUME NEW T \in SUBSET Nat, T # {}
  PROVE  \E m \in T : \A n \in T : m <= n
<1>1. IsWellFoundedOn(OpToRel(<, Nat), Nat)
  BY NatLessThanWellFounded
<1>2. PICK m \in T : \A y \in T : <<y, m>> \notin OpToRel(<, Nat)
  BY <1>1, WFMin
<1>3. \A y \in T : ~(y < m)
  BY <1>2 DEF OpToRel
<1>. QED
  BY <1>3

(* Induction, for a set in place of a predicate.                           *)
LEMMA SetInduction ==
  ASSUME NEW S, 0 \in S, \A n \in Nat : n \in S => n + 1 \in S
  PROVE  Nat \subseteq S
<1> DEFINE T == {n \in Nat : n \notin S}
<1>1. SUFFICES ASSUME T # {} PROVE FALSE
  OBVIOUS
<1>2. PICK m \in T : \A n \in T : m <= n
  BY <1>1, LeastElement
<1>3. m \in Nat /\ m # 0 /\ m \notin S
  BY <1>2
<1>4. m - 1 \in Nat /\ m - 1 \in S
  BY <1>2, <1>3
<1>. QED
  BY <1>3, <1>4

---------------------------------------------------------------------------
\* s is a sequence, of whatever elements it has.
IsSeq(s) == s \in Seq(Range(s))

\* A sequence over any set is a sequence of its own elements.
LEMMA SeqIsSeq ==
  ASSUME NEW A, NEW s \in Seq(A)
  PROVE  IsSeq(s)
BY SeqOfRange DEF IsSeq

\* Two sequences joined: the lengths add up, and the second one gives the last
\* element.  What bsPutBits and add_pair_to_block do to their buffers.
LEMMA JoinedIsSeq ==
  ASSUME NEW s, NEW t, IsSeq(s), IsSeq(t)
  PROVE  /\ IsSeq(s \o t) /\ Len(s \o t) = Len(s) + Len(t)
         /\ Len(s) \in Nat /\ Len(t) \in Nat
         /\ t # << >> => s \o t # << >> /\ (s \o t)[Len(s \o t)] = t[Len(t)]
         /\ t = << >> => s \o t = s
<1> DEFINE A == Range(s) \cup Range(t)
<1>1. Range(s) \subseteq A /\ Range(t) \subseteq A
  OBVIOUS
<1> HIDE DEF A
<1>2. s \in Seq(A) /\ t \in Seq(A)
  BY <1>1, SeqMonotonic DEF IsSeq
<1>3. s \o t \in Seq(A) /\ Len(s \o t) = Len(s) + Len(t)
  BY <1>2, ConcatProperties
<1>4. IsSeq(s \o t)
  BY <1>3, SeqIsSeq
<1>5. t # << >> => s \o t # << >> /\ (s \o t)[Len(s \o t)] = t[Len(t)]
  BY <1>2
<1>6. t = << >> => s \o t = s
  BY <1>2, ConcatEmptySeq
<1>. QED
  BY <1>2, <1>3, <1>4, <1>5, <1>6

\* The digits generateMTFValues writes for a run of zeros are a sequence.  The
\* recursive function has a value for every length, shown from 0 upwards, and
\* its value at each length is a sequence by the same induction.
LEMMA DigitsAreSeq ==
  ASSUME NEW n \in Nat \ {0}
  PROVE  IsSeq(RunDigits(n))
<1> DEFINE D == {BZ_RUNA, BZ_RUNB}
           Digit(z) == <<IF z % 2 = 1 THEN BZ_RUNB ELSE BZ_RUNA>>
           Rest(g, z) == IF z < 2 THEN << >> ELSE g[(z - 2) \div 2]
           Steps(g, m) == g \in [0..m -> Seq(D)] /\ \A z \in 0..m : g[z] = Digit(z) \o Rest(g, z)
           Done == {m \in Nat : \E g : Steps(g, m)}
<1>1. \A z \in Nat : Digit(z) \in Seq(D)
  OBVIOUS
<1>2. \A z \in Nat : z >= 2 => (z - 2) \div 2 \in Nat /\ (z - 2) \div 2 < z
  OBVIOUS
<1> HIDE DEF D, Digit
<1>3. \A z \in Nat, s \in Seq(D) : Digit(z) \o s \in Seq(D)
  BY <1>1, ConcatProperties
<1>4. 0 \in Done
  <2> DEFINE g == [z \in {0} |-> Digit(0) \o << >>]
  <2>1. Digit(0) \o << >> \in Seq(D)
    BY <1>3, EmptySeq
  <2>2. Steps(g, 0)
    BY <2>1
  <2>. QED
    BY <2>2
<1>5. ASSUME NEW m \in Nat, m \in Done PROVE m + 1 \in Done
  <2>1. PICK g : Steps(g, m)
    <3> HIDE DEF Steps
    <3>. QED
      BY <1>5
  <2> DEFINE x == Digit(m + 1) \o Rest(g, m + 1)
             h == [z \in 0..(m + 1) |-> IF z = m + 1 THEN x ELSE g[z]]
  <2>2. Rest(g, m + 1) \in Seq(D)
    <3>1. CASE m + 1 < 2
      BY <3>1, EmptySeq
    <3>2. CASE ~(m + 1 < 2)
      <4>1. ((m + 1) - 2) \div 2 \in 0..m
        BY <1>2, <3>2
      <4>. QED
        BY <2>1, <3>2, <4>1
    <3>. QED
      BY <3>1, <3>2
  <2>3. x \in Seq(D)
    <3> HIDE DEF Rest
    <3>. QED
      BY <1>3, <2>2
  <2>4. \A z \in 0..(m + 1) : Rest(h, z) = Rest(g, z)
    <3> TAKE z \in 0..(m + 1)
    <3>1. CASE z < 2
      BY <3>1
    <3>2. CASE ~(z < 2)
      <4>1. (z - 2) \div 2 \in 0..m
        BY <1>2, <3>2
      <4>. QED
        BY <3>2, <4>1
    <3>. QED
      BY <3>1, <3>2
  <2>5. h \in [0..(m + 1) -> Seq(D)]
    <3> HIDE DEF x
    <3>. QED
      BY <2>1, <2>3
  <2>6. \A z \in 0..(m + 1) : h[z] = Digit(z) \o Rest(g, z)
    <3> HIDE DEF Rest
    <3> TAKE z \in 0..(m + 1)
    <3>1. CASE z = m + 1
      BY <3>1
    <3>2. CASE z \in 0..m
      <4>1. h[z] = g[z]
        BY <3>2
      <4>. QED
        BY <2>1, <3>2, <4>1
    <3>. QED
      BY <3>1, <3>2
  <2>7. Steps(h, m + 1)
    <3> HIDE DEF h, Rest
    <3>. QED
      BY <2>4, <2>5, <2>6
  <2> HIDE DEF Steps, h
  <2>. QED
    BY <2>7
<1>6. PICK g : Steps(g, n)
  <2> HIDE DEF Done, Steps
  <2>1. Nat \subseteq Done
    BY <1>4, <1>5, SetInduction
  <2>. QED
    BY <2>1 DEF Done
<1> DEFINE Eq(f) == f = [z \in 0..n |-> Digit(z) \o Rest(f, z)]
           digits == CHOOSE f : Eq(f)
<1>7. Eq(g)
  <2>1. g = [z \in 0..n |-> g[z]]
    BY <1>6
  <2> HIDE DEF Rest
  <2>. QED
    BY <1>6, <2>1
<1>8. Eq(digits)
  <2> HIDE DEF Eq
  <2>. QED
    BY <1>7
<1>9. RunDigits(n) = digits[n - 1]
  BY DEF RunDigits, Digit
<1> HIDE DEF digits
<1>10. \A z \in 0..n : digits[z] = Digit(z) \o Rest(digits, z)
  <2> HIDE DEF Rest
  <2>. QED
    BY <1>8
<1> DEFINE Typed == {m \in Nat : \A z \in 0..m : z <= n => digits[z] \in Seq(D)}
<1>11. 0 \in Typed
  <2>1. Digit(0) \o << >> \in Seq(D)
    BY <1>3, EmptySeq
  <2>2. digits[0] = Digit(0) \o Rest(digits, 0)
    <3> HIDE DEF Rest
    <3>1. 0 \in 0..n
      OBVIOUS
    <3>. QED
      BY <1>10, <3>1
  <2>3. Rest(digits, 0) = << >>
    OBVIOUS
  <2>4. digits[0] \in Seq(D)
    <3> HIDE DEF Rest
    <3>. QED
      BY <2>1, <2>2, <2>3
  <2>. QED
    BY <2>4
<1>12. ASSUME NEW m \in Nat, m \in Typed PROVE m + 1 \in Typed
  <2> SUFFICES ASSUME m + 1 <= n PROVE digits[m + 1] \in Seq(D)
    BY <1>12
  <2>1. Rest(digits, m + 1) \in Seq(D)
    <3>1. CASE m + 1 < 2
      BY <3>1, EmptySeq
    <3>2. CASE ~(m + 1 < 2)
      <4>1. ((m + 1) - 2) \div 2 \in 0..m /\ ((m + 1) - 2) \div 2 <= n
        BY <1>2, <3>2
      <4>. QED
        BY <1>12, <3>2, <4>1
    <3>. QED
      BY <3>1, <3>2
  <2>2. digits[m + 1] = Digit(m + 1) \o Rest(digits, m + 1)
    <3>1. m + 1 \in 0..n
      OBVIOUS
    <3> HIDE DEF Rest
    <3>. QED
      BY <1>10, <3>1
  <2> HIDE DEF Rest
  <2>. QED
    BY <1>3, <2>1, <2>2
<1>13. digits[n - 1] \in Seq(D)
  <2>1. Nat \subseteq Typed
    <3> HIDE DEF Typed
    <3>. QED
      BY <1>11, <1>12, SetInduction
  <2>2. n - 1 \in Typed
    BY <2>1
  <2>. QED
    BY <2>2
<1>. QED
  BY <1>9, <1>13, SeqIsSeq

\* The zeros still pending in generateMTFValues, written out, are a sequence.
LEMMA PendingIsSeq ==
  ASSUME NEW n \in Nat
  PROVE  IsSeq(PendingRun(n))
<1>1. CASE n = 0
  <2>1. << >> \in Seq({0})
    BY EmptySeq
  <2>. QED
    BY <1>1, <2>1, SeqIsSeq DEF PendingRun
<1>2. CASE n # 0
  BY <1>2, DigitsAreSeq DEF PendingRun
<1>. QED
  BY <1>1, <1>2

\* A single token is a sequence that ends with it.
LEMMA SingleIsSeq ==
  ASSUME NEW x
  PROVE  IsSeq(<<x>>) /\ Len(<<x>>) = 1 /\ <<x>> # << >> /\ <<x>>[Len(<<x>>)] = x
<1>1. <<x>> \in Seq({x})
  OBVIOUS
<1>2. Len(<<x>>) = 1 /\ <<x>> # << >> /\ <<x>>[Len(<<x>>)] = x
  OBVIOUS
<1>. QED
  BY <1>1, <1>2, SeqIsSeq

\* An empty buffer is a sequence.
LEMMA EmptyIsSeq == IsSeq(<< >>)
<1>1. << >> \in Seq({0})
  BY EmptySeq
<1>. QED
  BY <1>1, SeqIsSeq

(* The states of generateMTFValues' loop.                                  *)
MtfState(s) == s.zPend \in Nat /\ IsSeq(s.mtfv)

\* The symbols generateMTFValues makes of a block are a sequence: its loop keeps
\* zPend a number and mtfv a sequence at every byte of the block.
LEMMA MtfIsSeq ==
  ASSUME NEW col, NEW inUse, Len(col) \in Nat
  PROVE  IsSeq(generateMTFValues(col, inUse))
<1> DEFINE EOB == Cardinality(inUse) + 1
           start == [yy |-> makeMaps(inUse), zPend |-> 0, mtfv |-> << >>]
           J(s, ll) == (CHOOSE p \in 1..Len(s.yy) : s.yy[p] = ll) - 1
           Again(s) == [yy |-> s.yy, zPend |-> s.zPend + 1, mtfv |-> s.mtfv]
           Move(s, j) == [yy |-> MoveToFront(s.yy, j),
                  zPend |-> 0,
                  mtfv |-> s.mtfv \o PendingRun(s.zPend) \o <<j + 1>>]
           Step(s, ll) == IF J(s, ll) = 0 THEN Again(s) ELSE Move(s, J(s, ll))
           len == Len(col)
           Rec(g, i) == IF i = 0 THEN start ELSE Step(g[i - 1], col[i])
           Steps(g, m) == \A i \in 0..m : g[i] = Rec(g, i)
           Done == {m \in Nat : \E g : Steps(g, m)}
           Eq(f) == f = [i \in 0..len |-> Rec(f, i)]
           after == CHOOSE f : Eq(f)
<1>1. MtfState(start)
  BY EmptyIsSeq DEF MtfState
<1>2. ASSUME NEW s, NEW ll, MtfState(s) PROVE MtfState(Step(s, ll))
  <2>1. MtfState(Again(s))
    BY <1>2 DEF MtfState
  <2>2. ASSUME NEW j PROVE MtfState(Move(s, j))
    <3>1. IsSeq(PendingRun(s.zPend)) /\ IsSeq(<<j + 1>>) /\ IsSeq(s.mtfv)
      BY <1>2, PendingIsSeq, SingleIsSeq DEF MtfState
    <3>2. IsSeq(s.mtfv \o PendingRun(s.zPend))
      BY <3>1, JoinedIsSeq
    <3>3. IsSeq(s.mtfv \o PendingRun(s.zPend) \o <<j + 1>>)
      BY <3>1, <3>2, JoinedIsSeq
    <3>. QED
      BY <3>3 DEF MtfState
  <2> HIDE DEF Again, Move, J
  <2>. QED
    BY <2>1, <2>2
<1> HIDE DEF start, Step
<1>3. 0 \in Done
  <2> DEFINE g == [i \in 0..0 |-> start]
  <2>1. Steps(g, 0)
    OBVIOUS
  <2>. QED
    BY <2>1
<1>4. ASSUME NEW m \in Nat, m \in Done PROVE m + 1 \in Done
  <2>1. PICK g : Steps(g, m)
    <3> HIDE DEF Steps
    <3>. QED
      BY <1>4
  <2> DEFINE h == [i \in 0..(m + 1) |-> IF i = m + 1 THEN Step(g[m], col[m + 1]) ELSE g[i]]
  <2>2. \A i \in 0..m : h[i] = g[i]
    OBVIOUS
  <2>3. h[m + 1] = Step(g[m], col[m + 1])
    OBVIOUS
  <2> HIDE DEF h
  <2>4. ASSUME NEW i \in 0..(m + 1) PROVE h[i] = Rec(h, i)
    <3>1. CASE i = m + 1
      <4>1. m \in 0..m /\ i # 0 /\ i - 1 = m
        BY <3>1
      <4>. QED
        BY <2>2, <2>3, <3>1, <4>1
    <3>2. CASE i \in 0..m
      <4>1. g[i] = Rec(g, i)
        BY <2>1, <3>2
      <4>2. CASE i = 0
        BY <2>2, <3>2, <4>1, <4>2
      <4>3. CASE i # 0
        <5>1. i - 1 \in 0..m
          BY <3>2, <4>3
        <5>. QED
          BY <2>2, <3>2, <4>1, <4>3, <5>1
      <4>. QED
        BY <4>2, <4>3
    <3>. QED
      BY <3>1, <3>2
  <2>5. Steps(h, m + 1)
    BY <2>4
  <2> HIDE DEF Steps
  <2>. QED
    BY <2>5
<1>5. PICK g0 : Steps(g0, len)
  <2> HIDE DEF Done, Steps
  <2>1. Nat \subseteq Done
    BY <1>3, <1>4, SetInduction
  <2>. QED
    BY <2>1 DEF Done
<1> DEFINE g == [i \in 0..len |-> g0[i]]
<1>6. Eq(g)
  <2>1. ASSUME NEW i \in 0..len PROVE g0[i] = Rec(g, i)
    <3>1. g0[i] = Rec(g0, i)
      BY <1>5
    <3>2. CASE i = 0
      BY <3>1, <3>2
    <3>3. CASE i # 0
      <4>1. i - 1 \in 0..len
        BY <3>3
      <4>. QED
        BY <3>1, <3>3, <4>1
    <3>. QED
      BY <3>2, <3>3
  <2> HIDE DEF Rec
  <2>. QED
    BY <2>1
<1>7. Eq(after)
  <2> HIDE DEF Eq, g
  <2>. QED
    BY <1>6
<1>8. generateMTFValues(col, inUse) = after[len].mtfv \o PendingRun(after[len].zPend) \o <<EOB>>
  BY DEF generateMTFValues, start, Step
<1> HIDE DEF after, EOB
<1>9. \A i \in 0..len : after[i] = Rec(after, i)
  <2> HIDE DEF Rec
  <2>. QED
    BY <1>7
<1> DEFINE Typed == {m \in Nat : m <= len => MtfState(after[m])}
<1>10. 0 \in Typed
  <2>1. after[0] = start
    BY <1>9
  <2>. QED
    BY <1>1, <2>1
<1>11. ASSUME NEW m \in Nat, m \in Typed PROVE m + 1 \in Typed
  <2> SUFFICES ASSUME m + 1 <= len PROVE MtfState(after[m + 1])
    OBVIOUS
  <2>1. MtfState(after[m])
    BY <1>11
  <2>2. after[m + 1] = Step(after[m], col[m + 1])
    <3>1. m + 1 \in 0..len /\ m + 1 # 0 /\ (m + 1) - 1 = m
      OBVIOUS
    <3>. QED
      BY <1>9, <3>1
  <2>. QED
    BY <1>2, <2>1, <2>2
<1>12. MtfState(after[len])
  <2>1. Nat \subseteq Typed
    <3> HIDE DEF Typed
    <3>. QED
      BY <1>10, <1>11, SetInduction
  <2>2. len \in Typed
    BY <2>1
  <2>. QED
    BY <2>2
<1>13. /\ IsSeq(after[len].mtfv) /\ IsSeq(PendingRun(after[len].zPend)) /\ IsSeq(<<EOB>>)
  BY <1>12, PendingIsSeq, SingleIsSeq DEF MtfState
<1>14. IsSeq(after[len].mtfv \o PendingRun(after[len].zPend))
  BY <1>13, JoinedIsSeq
<1>. QED
  BY <1>8, <1>13, <1>14, JoinedIsSeq

---------------------------------------------------------------------------
\* The run and the block are well formed.
RunOK ==
  /\ state \in {"input", "output"}
  /\ state_in_ch \in Byte \cup {NoChar}
  /\ state_in_len \in 0..MaxRun
  /\ block \in Seq(Byte)

\* While input is taken there is room for one more byte, and a block that is
\* full has got full with the byte that started the run in progress.
Room ==
  state = "input" =>
    /\ Len(block) <= nblockMAX + 4
    /\ Full => state_in_len <= 1

\* The inductive invariant of the writer's block.
Fits == RunOK /\ Room /\ BlockFits

\* n copies of a byte are a sequence of n bytes.
LEMMA CopiesType ==
  ASSUME NEW c \in Byte, NEW n \in Nat
  PROVE  Copies(c, n) \in Seq(Byte) /\ Len(Copies(c, n)) = n
BY DEF Copies

\* A pair takes as many bytes as its run, and never more than five.
LEMMA PairType ==
  ASSUME RunOK, state_in_ch # NoChar
  PROVE  Pair \in Seq(Byte) /\ Len(Pair) <= 5 /\ (state_in_len <= 1 => Len(Pair) <= 1)
<1>0. state_in_ch \in Byte /\ state_in_len \in Nat /\ state_in_len <= MaxRun
  BY CompressAssumption DEF RunOK
<1>1. CASE state_in_len < 4
  BY <1>0, <1>1, CopiesType DEF Pair
<1>2. CASE ~(state_in_len < 4)
  <2>1. Copies(state_in_ch, 4) \in Seq(Byte) /\ Len(Copies(state_in_ch, 4)) = 4
    BY <1>0, CopiesType
  <2>2. state_in_len - 4 \in Byte
    <3>1. ByteMax \in Nat /\ MaxRun \in Nat /\ MaxRun - 4 <= ByteMax
      BY CompressAssumption DEF Byte
    <3> QED
      BY <1>0, <1>2, <3>1 DEF Byte
  <2>3. <<state_in_len - 4>> \in Seq(Byte) /\ Len(<<state_in_len - 4>>) = 1
    BY <2>2
  <2>4. Pair = Copies(state_in_ch, 4) \o <<state_in_len - 4>>
    BY <1>2 DEF Pair
  <2> HIDE DEF Pair
  <2>5. \A s, t \in Seq(Byte) : s \o t \in Seq(Byte) /\ Len(s \o t) = Len(s) + Len(t)
    OBVIOUS
  <2>6. Pair \in Seq(Byte) /\ Len(Pair) = 5
    BY <2>1, <2>3, <2>4, <2>5
  <2> QED
    BY <1>0, <1>2, <2>6
<1> QED
  BY <1>1, <1>2

\* add_pair_to_block adds at most five bytes, and at most one for a short run.
LEMMA AddPair ==
  ASSUME RunOK, add_pair_to_block
  PROVE  /\ block' \in Seq(Byte)
         /\ Len(block') <= Len(block) + 5
         /\ state_in_len <= 1 => Len(block') <= Len(block) + 1
<1>1. CASE state_in_ch = NoChar
  BY <1>1 DEF add_pair_to_block, RunOK
<1>2. CASE state_in_ch # NoChar
  <2>1. block' = block \o Pair
    BY <1>2 DEF add_pair_to_block
  <2>2. block \in Seq(Byte)
    BY DEF RunOK
  <2>3. Pair \in Seq(Byte) /\ Len(Pair) <= 5 /\ (state_in_len <= 1 => Len(Pair) <= 1)
    BY <1>2, PairType
  <2> QED
    BY <2>1, <2>2, <2>3
<1> QED
  BY <1>1, <1>2

\* Every action keeps the block in its space.
LEMMA FitsStep == Fits /\ [WriterNext]_writerVars => Fits'
<1> SUFFICES ASSUME Fits, [WriterNext]_writerVars PROVE Fits'
  OBVIOUS
<1>0. /\ MaxRun \in Nat /\ MaxRun > 4 /\ nblockMAX \in Nat /\ nblockMAX > 0
      /\ RunOK /\ Len(block) \in Nat
  BY CompressAssumption DEF nblockMAX, Fits, RunOK
<1>u. ASSUME UNCHANGED <<state, run, block>> PROVE Fits'
  BY <1>u DEF Fits, RunOK, Room, BlockFits, Full, run
<1>1. ASSUME NEW n \in Chunks \cup {0}, BZ2_bzWrite(n) \/ Flush(n) \/ Finish(n) PROVE Fits'
  BY <1>u, <1>1 DEF BZ2_bzWrite, Flush, Finish, blockVars
<1>2. CASE Abandon \/ InputUsedUp \/ copy_output_until_stop \/ OutputFull \/ PassWritten \/ PassFails
  BY <1>u, <1>2 DEF Abandon, InputUsedUp, copy_output_until_stop, OutputFull, PassWritten, PassFails,
                    blockVars
<1>3. ASSUME NEW c \in Byte, copy_input_until_stop(c) PROVE Fits'
  <2>1. state = "input" /\ state' = "input" /\ Len(block) < nblockMAX
    BY <1>0, <1>3 DEF copy_input_until_stop, MayTake, Full
  <2>2. CASE c # state_in_ch \/ state_in_len = MaxRun
    <3>1. add_pair_to_block /\ state_in_ch' = c /\ state_in_len' = 1
      BY <1>3, <2>2 DEF copy_input_until_stop, ADD_CHAR_TO_BLOCK
    <3>2. block' \in Seq(Byte) /\ Len(block') <= Len(block) + 5
      BY <1>0, <3>1, AddPair
    <3>3. Len(block') \in Nat
      BY <3>2
    <3> QED
      BY <1>0, <2>1, <3>1, <3>2, <3>3 DEF Fits, RunOK, Room, BlockFits, Full
  <2>3. CASE ~(c # state_in_ch \/ state_in_len = MaxRun)
    <3>1. UNCHANGED <<block, state_in_ch>> /\ state_in_len' = state_in_len + 1
      BY <1>3, <2>3 DEF copy_input_until_stop, ADD_CHAR_TO_BLOCK
    <3> QED
      BY <1>0, <2>1, <2>3, <3>1 DEF Fits, RunOK, Room, BlockFits, Full
  <2> QED
    BY <2>2, <2>3
<1>4. CASE CompressRest
  <2>1. /\ state = "input" /\ state' = "output" /\ add_pair_to_block
        /\ state_in_ch' = NoChar /\ state_in_len' = 0
    BY <1>4 DEF CompressRest
  <2>2. /\ block' \in Seq(Byte) /\ Len(block') <= Len(block) + 5
        /\ state_in_len <= 1 => Len(block') <= Len(block) + 1
    BY <1>0, <2>1, AddPair
  <2>3. Len(block') \in Nat
    BY <2>2
  <2>4. Len(block') <= nblockMAX + 5
    BY <1>0, <2>1, <2>2, <2>3 DEF Fits, Room, Full
  <2> QED
    BY <1>0, <2>1, <2>2, <2>4 DEF Fits, RunOK, Room, BlockFits
<1>5. CASE CompressFull
  BY <1>0, <1>5 DEF CompressFull, Fits, RunOK, Room, BlockFits, run
<1>6. CASE BlockWritten
  <2>1. CASE UNCHANGED <<state, run, block>>
    BY <1>u, <2>1
  <2>2. CASE block' = << >> /\ state' = "input" /\ UNCHANGED run
    BY <1>0, <2>2 DEF Fits, RunOK, Room, BlockFits, Full, run
  <2> QED
    BY <1>6, <2>1, <2>2 DEF BlockWritten, blockVars
<1>7. CASE UNCHANGED writerVars
  BY <1>u, <1>7 DEF writerVars, blockVars
<1> QED
  BY <1>1, <1>2, <1>3, <1>4, <1>5, <1>6, <1>7 DEF WriterNext, Handle

\* A block of the bzip2 writer never outgrows its space: copy_input_until_stop,
\* flush_RL and prepare_new_block keep it within nblockMAX + 5 bytes, whatever the
\* calls, the input and the sizes.
THEOREM BlocksFit == WriterSpec => []BlockFits
<1>1. WriterInit => Fits
  <2> SUFFICES ASSUME WriterInit PROVE Fits
    OBVIOUS
  <2>1. nblockMAX \in Nat /\ nblockMAX > 0 /\ MaxRun \in Nat
    BY CompressAssumption DEF nblockMAX
  <2>2. block \in Seq(Byte) /\ Len(block) = 0
    BY DEF WriterInit
  <2> QED
    BY <2>1, <2>2 DEF WriterInit, Fits, RunOK, Room, BlockFits, Full
<1>2. Fits => BlockFits
  BY DEF Fits
<1> QED
  BY <1>1, <1>2, FitsStep, PTL DEF WriterSpec

---------------------------------------------------------------------------
\* The last element of s is x.
EndsWith(s, x) == s # << >> /\ s[Len(s)] = x

\* A call that runs has the mode it asked for; a flush or a finish has counted
\* the input it is going to take.
CallInv ==
  /\ pc \in {"idle", "handle", "return"}
  /\ state \in {"input", "output"}
  /\ avail_in \in Nat /\ avail_in_expect \in Nat
  /\ pc # "idle" =>
       /\ status = "open"
       /\ <<call, mode>> \in {<<"run", "running">>, <<"flush", "flushing">>, <<"finish", "finishing">>}
       /\ mode # "running" => avail_in_expect = avail_in
  /\ pc = "idle" /\ status = "open" => mode = "running"

\* The buffers the tokens pass through are sequences.
StreamInv == IsSeq(bsBuff) /\ IsSeq(zbits) /\ IsSeq(obuf) /\ IsSeq(file)

\* Whether handle_compress has done anything so far: if not, there is still
\* something to take or to write, and it does not return before it has (a flush
\* may have had nothing to do).
ProgressInv ==
  /\ pc # "idle" /\ obuf # << >> => progress
  /\ pc = "handle" /\ mode = "running" /\ ~progress => avail_in > 0
  /\ pc = "handle" /\ mode = "finishing" /\ ~progress /\ state = "output" /\ zbits = << >>
       => avail_in_expect > 0
  /\ pc = "return" => progress \/ mode = "flushing"

\* A block waits in the output only as long as it has tokens left, but for the
\* last one of a stream; a finish returns from the output state.
OutputInv ==
  /\ pc = "return" /\ state = "output" =>
       zbits # << >> \/ (mode = "finishing" /\ avail_in_expect = 0 /\ isempty_RL)
  /\ pc = "return" /\ mode = "finishing" => state = "output"
  /\ pc = "idle" /\ status = "open" /\ state = "output" => zbits # << >> /\ ~isempty_RL

\* Where the trailer is on its way out: the last thing in the first place that
\* is not empty.
TrailerIn ==
  IF zbits # << >> THEN EndsWith(zbits, End(combinedCRC))
  ELSE IF obuf # << >> THEN EndsWith(obuf, End(combinedCRC))
  ELSE EndsWith(file, End(combinedCRC))

\* A full block leaves a run pending.  Output without a pending run is that of
\* a flush, or of the finish that has made the trailer.
TrailerInv ==
  /\ state = "input" /\ Full => ~isempty_RL
  /\ pc # "idle" /\ state = "output" /\ isempty_RL =>
       mode = "flushing" \/ (mode = "finishing" /\ avail_in_expect = 0 /\ TrailerIn)
  /\ ClosedHasTrailer

\* The inductive invariant of the writer.
WriterInv == Fits /\ CallInv /\ StreamInv /\ ProgressInv /\ OutputInv /\ TrailerInv

\* What sendMTFValues writes for a block is a sequence of tokens.
LEMMA TokensAreSeq ==
  ASSUME block' \in Seq(Byte)
  PROVE  IsSeq(BlockTokens)
<1> DEFINE ptr == BZ2_blockSort(block')
           inUse == ToSet(block')
           col == LastColumn(block', ptr)
           mtfv == generateMTFValues(col, inUse)
           head == Blk(blockCRC', OrigPtr(ptr), inUse)
           syms == [n \in 1..Len(mtfv) |-> Sym(mtfv[n])]
<1>1. Len(col) \in Nat
  <2> HIDE DEF ptr
  <2>1. Len(block') \in Nat
    OBVIOUS
  <2>. QED
    BY <2>1 DEF LastColumn
<1>2. IsSeq(mtfv)
  <2> HIDE DEF col, inUse
  <2>. QED
    BY <1>1, MtfIsSeq
<1>3. IsSeq(syms)
  <2> HIDE DEF mtfv
  <2>1. Len(mtfv) \in Nat
    BY <1>2 DEF IsSeq
  <2>2. syms \in Seq({Sym(mtfv[n]) : n \in 1..Len(mtfv)})
    <3> DEFINE S == {Sym(mtfv[n]) : n \in 1..Len(mtfv)}
    <3>1. syms \in [1..Len(mtfv) -> S]
      OBVIOUS
    <3>2. syms \in Seq(S)
      <4> HIDE DEF S, syms
      <4>. QED
        BY <2>1, <3>1
    <3>. QED
      BY <3>2 DEF S
  <2> HIDE DEF syms
  <2>. QED
    BY <2>2, SeqIsSeq
<1>4. BlockTokens = <<head>> \o syms
  BY DEF BlockTokens
<1> HIDE DEF head, syms
<1>. QED
  BY <1>3, <1>4, SingleIsSeq, JoinedIsSeq

\* The two parts of a sequence are sequences.
LEMMA PartsAreSeq ==
  ASSUME NEW s, NEW i \in Nat, IsSeq(s), i <= Len(s)
  PROVE  IsSeq(SubSeq(s, 1, i)) /\ IsSeq(SubSeq(s, i + 1, Len(s)))
<1>1. s \in Seq(Range(s)) /\ Len(s) \in Nat
  BY DEF IsSeq
<1>2. SubSeq(s, 1, i) \in Seq(Range(s)) /\ SubSeq(s, i + 1, Len(s)) \in Seq(Range(s))
  <2> DEFINE R == Range(s)
  <2> HIDE DEF R
  <2>1. s \in Seq(R)
    BY <1>1 DEF R
  <2>2. SubSeq(s, 1, i) \in Seq(R) /\ SubSeq(s, i + 1, Len(s)) \in Seq(R)
    BY <2>1, SubSeqProperties
  <2>. QED
    BY <2>2 DEF R
<1>. QED
  BY <1>2, SeqIsSeq

\* BZ2_compressBlock leaves sequences in zbits and bsBuff, and the last block
\* has the trailer as its last token.
LEMMA Compressed ==
  ASSUME NEW last \in BOOLEAN, block' \in Seq(Byte), StreamInv, BZ2_compressBlock(last)
  PROVE  /\ IsSeq(zbits') /\ IsSeq(bsBuff')
         /\ last => EndsWith(zbits', End(combinedCRC'))
<1> DEFINE head == IF blockNo = 1 THEN <<Hdr>> ELSE << >>
           tokens == IF block' # << >> THEN BlockTokens ELSE << >>
           tail == IF last THEN <<End(combinedCRC')>> ELSE << >>
           written == head \o tokens \o tail
           all == bsBuff \o written
<1>1. IsSeq(head)
  BY SingleIsSeq, EmptyIsSeq
<1>2. IsSeq(tokens)
  BY TokensAreSeq, EmptyIsSeq
<1>3. IsSeq(tail) /\ (last => EndsWith(tail, End(combinedCRC')))
  <2> DEFINE e == End(combinedCRC')
  <2> HIDE DEF e
  <2>1. CASE last
    <3>1. tail = <<e>>
      BY <2>1 DEF e
    <3> HIDE DEF tail
    <3>. QED
      BY <2>1, <3>1, SingleIsSeq DEF EndsWith, e
  <2>2. CASE ~last
    BY <2>2, EmptyIsSeq
  <2>. QED
    BY <2>1, <2>2
<1> HIDE DEF head, tokens, tail
<1>4. IsSeq(head \o tokens)
  BY <1>1, <1>2, JoinedIsSeq
<1>5. IsSeq(written) /\ (last => EndsWith(written, End(combinedCRC')))
  BY <1>3, <1>4, JoinedIsSeq DEF EndsWith
<1>w. /\ last => zbits' = all /\ bsBuff' = << >>
      /\ ~last => \/ UNCHANGED <<zbits, bsBuff>>
                  \/ \E h \in 1..MaxHeld :
                       LET out == IF h < Len(all) THEN Len(all) - h ELSE 0
                       IN  /\ zbits' = SubSeq(all, 1, out)
                           /\ bsBuff' = SubSeq(all, out + 1, Len(all))
  BY DEF BZ2_compressBlock, head, tokens, tail
<1> HIDE DEF written
<1>6. IsSeq(bsBuff) /\ IsSeq(zbits)
  BY DEF StreamInv
<1>7. IsSeq(all) /\ Len(all) \in Nat /\ (last => EndsWith(all, End(combinedCRC')))
  <2>1. IsSeq(all) /\ (last => EndsWith(all, End(combinedCRC')))
    BY <1>5, <1>6, JoinedIsSeq DEF EndsWith
  <2> HIDE DEF all
  <2>. QED
    BY <2>1 DEF IsSeq
<1> HIDE DEF all
<1>8. CASE last
  BY <1>7, <1>8, <1>w, EmptyIsSeq
<1>9. CASE ~last
  <2>1. CASE UNCHANGED <<zbits, bsBuff>>
    BY <1>6, <1>9, <2>1
  <2>2. ASSUME NEW h \in 1..MaxHeld,
               zbits' = SubSeq(all, 1, IF h < Len(all) THEN Len(all) - h ELSE 0),
               bsBuff' = SubSeq(all, (IF h < Len(all) THEN Len(all) - h ELSE 0) + 1, Len(all))
        PROVE  IsSeq(zbits') /\ IsSeq(bsBuff')
    <3> DEFINE out == IF h < Len(all) THEN Len(all) - h ELSE 0
    <3>1. out \in Nat /\ out <= Len(all)
      BY <1>7
    <3>2. zbits' = SubSeq(all, 1, out) /\ bsBuff' = SubSeq(all, out + 1, Len(all))
      BY <2>2
    <3> HIDE DEF out
    <3>. QED
      BY <1>7, <3>1, <3>2, PartsAreSeq
  <2>. QED
    BY <1>9, <1>w, <2>1, <2>2
<1>. QED
  BY <1>8, <1>9


(* The last token of a stream moves on with the output.                    *)
LEMMA MovedOn ==
  ASSUME NEW s, NEW t, NEW x, IsSeq(s), IsSeq(t), t # << >>
  PROVE  /\ IsSeq(Tail(t)) /\ IsSeq(Append(s, Head(t))) /\ Append(s, Head(t)) # << >>
         /\ Tail(t) # << >> => Tail(t)[Len(Tail(t))] = t[Len(t)]
         /\ Tail(t) = << >> => Append(s, Head(t))[Len(Append(s, Head(t)))] = t[Len(t)]
<1> DEFINE A == Range(s) \cup Range(t)
<1>1. Range(s) \subseteq A /\ Range(t) \subseteq A
  OBVIOUS
<1> HIDE DEF A
<1>2. s \in Seq(A) /\ t \in Seq(A)
  BY <1>1, SeqMonotonic DEF IsSeq
<1>3. Head(t) \in A /\ Tail(t) \in Seq(A) /\ Len(Tail(t)) = Len(t) - 1 /\ Len(t) \in Nat
  BY <1>2, HeadTailProperties
<1>4. Append(s, Head(t)) \in Seq(A)
  BY <1>2, <1>3, AppendProperties
<1>5. Append(s, Head(t)) # << >> /\ Append(s, Head(t))[Len(Append(s, Head(t)))] = Head(t)
  BY <1>2, <1>3
<1>6. Tail(t) # << >> => Tail(t)[Len(Tail(t))] = t[Len(t)]
  BY <1>2, <1>3
<1>7. ASSUME Tail(t) = << >> PROVE Head(t) = t[Len(t)]
  <2>1. Len(Tail(t)) = 0
    BY <1>7, EmptySeq
  <2>2. Len(t) = 1
    BY <1>3, <2>1
  <2>. QED
    BY <1>2, <2>2
<1>8. IsSeq(Tail(t)) /\ IsSeq(Append(s, Head(t)))
  BY <1>3, <1>4, SeqIsSeq
<1>. QED
  BY <1>5, <1>6, <1>7, <1>8

\* Every step of the writer (the calls of BZ2_bzCompress and the passes of
\* handle_compress they make) keeps the invariant.
LEMMA WriterStep == WriterInv /\ [WriterNext]_writerVars => WriterInv'
<1> SUFFICES ASSUME WriterInv, [WriterNext]_writerVars PROVE WriterInv'
  OBVIOUS
<1> DEFINE Rest == CallInv /\ StreamInv /\ ProgressInv /\ OutputInv /\ TrailerInv
<1>0. Fits' /\ RunOK /\ RunOK'
  BY FitsStep DEF WriterInv, Fits
<1>c. /\ nblockMAX \in Nat /\ nblockMAX > 0 /\ BufLen \in Nat /\ BufLen > 0
      /\ Chunks \subseteq Nat \ {0} /\ MaxRun \in Nat /\ NoChar \notin Byte
  BY CompressAssumption DEF nblockMAX, NoChar, Byte
<1>i. CallInv /\ StreamInv /\ ProgressInv /\ OutputInv /\ TrailerInv
  BY DEF WriterInv
<1> SUFFICES Rest'
  BY <1>0 DEF WriterInv
<1>1. ASSUME NEW n \in Chunks, BZ2_bzWrite(n) PROVE Rest'
  <2>1. /\ pc = "idle" /\ status = "open" /\ pc' = "handle" /\ call' = "run" /\ avail_in' = n
        /\ progress' = FALSE /\ obuf' = << >>
        /\ UNCHANGED <<mode, avail_in_expect, state, state_in_ch, state_in_len, block,
                       combinedCRC, bsBuff, zbits, file, status>>
    BY <1>1 DEF BZ2_bzWrite, Begin, stream, run, blockVars, bits, outside
  <2>2. n \in Nat /\ n > 0
    BY <1>c
  <2>3. CallInv'
    BY <1>i, <2>1, <2>2 DEF CallInv
  <2>4. StreamInv'
    BY <1>i, <2>1, EmptyIsSeq DEF StreamInv
  <2>5. ProgressInv'
    BY <1>i, <2>1, <2>2 DEF ProgressInv, CallInv
  <2>6. OutputInv'
    BY <2>1 DEF OutputInv
  <2>7. TrailerInv'
    BY <1>i, <2>1 DEF TrailerInv, OutputInv, isempty_RL, Full, ClosedHasTrailer
  <2>. QED
    BY <2>3, <2>4, <2>5, <2>6, <2>7
<1>2. ASSUME NEW n \in Chunks \cup {0}, Flush(n) \/ Finish(n) PROVE Rest'
  <2>1. /\ pc = "idle" /\ status = "open" /\ pc' = "handle" /\ avail_in' = n
        /\ progress' = FALSE /\ obuf' = << >>
        /\ avail_in_expect' = n
        /\ UNCHANGED <<state, state_in_ch, state_in_len, block,
                       combinedCRC, bsBuff, zbits, file, status>>
        /\ \/ call' = "flush" /\ mode' = "flushing"
           \/ call' = "finish" /\ mode' = "finishing"
    BY <1>2 DEF Flush, Finish, Begin, stream, run, blockVars, bits, outside
  <2>2. n \in Nat
    BY <1>c
  <2>3. CallInv'
    BY <1>i, <2>1, <2>2 DEF CallInv
  <2>4. StreamInv'
    BY <1>i, <2>1, EmptyIsSeq DEF StreamInv
  <2>5. ProgressInv'
    BY <1>i, <2>1, <2>2 DEF ProgressInv, OutputInv
  <2>6. OutputInv'
    BY <2>1 DEF OutputInv
  <2>7. TrailerInv'
    BY <1>i, <2>1 DEF TrailerInv, OutputInv, isempty_RL, Full, ClosedHasTrailer
  <2>. QED
    BY <2>3, <2>4, <2>5, <2>6, <2>7
<1>3. CASE Abandon
  <2>1. /\ pc = "idle" /\ status' = "abandoned"
        /\ UNCHANGED <<pc, call, mode, avail_in, avail_in_expect, progress, obuf, state, state_in_ch,
                       state_in_len, block, combinedCRC, bsBuff, zbits, file>>
    BY <1>3 DEF Abandon, stream, run, blockVars, bits
  <2>3. CallInv'
    BY <1>i, <2>1 DEF CallInv
  <2>4. StreamInv'
    BY <1>i, <2>1 DEF StreamInv
  <2>5. ProgressInv' /\ OutputInv'
    BY <2>1 DEF ProgressInv, OutputInv
  <2>7. TrailerInv'
    BY <1>i, <2>1 DEF TrailerInv, isempty_RL, Full, ClosedHasTrailer
  <2>. QED
    BY <2>3, <2>4, <2>5, <2>7
<1>4. ASSUME NEW c \in Byte, copy_input_until_stop(c) PROVE Rest'
  <2>1. /\ pc = "handle" /\ state = "input" /\ avail_in > 0 /\ ~AllTaken
        /\ progress' = TRUE /\ avail_in' = avail_in - 1
        /\ avail_in_expect' = IF mode = "running" THEN avail_in_expect ELSE avail_in_expect - 1
        /\ UNCHANGED <<pc, call, mode, obuf, state, combinedCRC, bsBuff, zbits, file, status>>
    BY <1>4 DEF copy_input_until_stop, MayTake, bits, outside
  <2>2. ~isempty_RL'
    <3>1. CASE c # state_in_ch \/ state_in_len = MaxRun
      <4>1. state_in_ch' = c /\ state_in_len' = 1
        BY <1>4, <3>1 DEF copy_input_until_stop, ADD_CHAR_TO_BLOCK
      <4>. QED
        BY <1>c, <4>1 DEF isempty_RL
    <3>2. CASE ~(c # state_in_ch \/ state_in_len = MaxRun)
      <4>1. state_in_ch' = state_in_ch /\ state_in_len' = state_in_len + 1 /\ state_in_ch = c
        BY <1>4, <3>2 DEF copy_input_until_stop, ADD_CHAR_TO_BLOCK
      <4>. QED
        BY <1>c, <1>0, <4>1 DEF isempty_RL, RunOK
    <3>. QED
      BY <3>1, <3>2
  <2>3. CallInv'
    <3>1. avail_in \in Nat /\ avail_in_expect \in Nat /\ status = "open"
      BY <1>i, <2>1 DEF CallInv
    <3>2. avail_in' \in Nat /\ avail_in_expect' \in Nat
      BY <2>1, <3>1 DEF AllTaken
    <3>. QED
      BY <1>i, <2>1, <3>1, <3>2 DEF CallInv
  <2>4. StreamInv'
    BY <1>i, <2>1 DEF StreamInv
  <2>5. ProgressInv'
    BY <2>1 DEF ProgressInv
  <2>6. OutputInv'
    BY <2>1 DEF OutputInv
  <2>7. TrailerInv'
    BY <1>i, <2>1, <2>2 DEF TrailerInv, ClosedHasTrailer
  <2>. QED
    BY <2>3, <2>4, <2>5, <2>6, <2>7
<1>5. CASE CompressRest
  <2>1. /\ pc = "handle" /\ state = "input" /\ state' = "output" /\ AllTaken
        /\ state_in_ch' = NoChar /\ state_in_len' = 0
        /\ BZ2_compressBlock(mode = "finishing")
        /\ UNCHANGED <<pc, call, mode, avail_in, avail_in_expect, progress, obuf, file, status>>
    BY <1>5 DEF CompressRest, stream, outside
  <2>2. /\ IsSeq(zbits') /\ IsSeq(bsBuff')
        /\ mode = "finishing" => EndsWith(zbits', End(combinedCRC'))
    BY <1>0, <1>i, <2>1, Compressed DEF RunOK
  <2>a. mode \in {"flushing", "finishing"} /\ avail_in_expect = 0 /\ status = "open"
    BY <1>i, <2>1 DEF CallInv, AllTaken
  <2>3. CallInv'
    BY <1>i, <2>1 DEF CallInv
  <2>4. StreamInv'
    BY <1>i, <2>1, <2>2 DEF StreamInv
  <2>5. ProgressInv'
    BY <1>i, <2>1, <2>2, <2>a DEF ProgressInv, EndsWith
  <2>6. OutputInv'
    BY <2>1 DEF OutputInv
  <2>7. TrailerInv'
    <3>1. mode = "finishing" => TrailerIn'
      BY <2>2 DEF TrailerIn, EndsWith
    <3>. QED
      BY <1>i, <2>1, <2>a, <3>1 DEF TrailerInv, ClosedHasTrailer
  <2>. QED
    BY <2>3, <2>4, <2>5, <2>6, <2>7
<1>6. CASE CompressFull
  <2>1. /\ pc = "handle" /\ state = "input" /\ state' = "output" /\ ~AllTaken /\ Full
        /\ BZ2_compressBlock(FALSE)
        /\ UNCHANGED <<pc, call, mode, avail_in, avail_in_expect, progress, state_in_ch, state_in_len,
                       obuf, file, status>>
    BY <1>6 DEF CompressFull, stream, run, outside
  <2>2. IsSeq(zbits') /\ IsSeq(bsBuff')
    BY <1>0, <1>i, <2>1, Compressed DEF RunOK
  <2>a. ~isempty_RL /\ ~isempty_RL'
    BY <1>i, <2>1 DEF TrailerInv, isempty_RL
  <2>b. status = "open" /\ avail_in_expect \in Nat
    BY <1>i, <2>1 DEF CallInv
  <2>3. CallInv'
    BY <1>i, <2>1 DEF CallInv
  <2>4. StreamInv'
    BY <1>i, <2>1, <2>2 DEF StreamInv
  <2>5. ProgressInv'
    BY <1>i, <2>1, <2>b DEF ProgressInv, AllTaken
  <2>6. OutputInv'
    BY <2>1 DEF OutputInv
  <2>7. TrailerInv'
    BY <2>1, <2>a, <2>b DEF TrailerInv, ClosedHasTrailer
  <2>. QED
    BY <2>3, <2>4, <2>5, <2>6, <2>7
<1>7. CASE InputUsedUp
  <2>1. /\ pc = "handle" /\ state = "input" /\ ~MayTake /\ ~AllTaken /\ ~Full
        /\ pc' = "return"
        /\ UNCHANGED <<call, mode, avail_in, avail_in_expect, progress, obuf, state, state_in_ch,
                       state_in_len, block, combinedCRC, bsBuff, zbits, file, status>>
    BY <1>7 DEF InputUsedUp, stream, run, blockVars, bits, outside
  <2>2. mode = "running" /\ progress /\ status = "open"
    <3>1. avail_in \in Nat /\ avail_in_expect \in Nat
      BY <1>i DEF CallInv
    <3>2. avail_in = 0
      BY <2>1, <3>1 DEF MayTake
    <3>3. mode = "running"
      BY <1>i, <2>1, <3>1, <3>2 DEF CallInv, AllTaken
    <3>4. progress
      BY <1>i, <2>1, <3>2, <3>3 DEF ProgressInv
    <3>. QED
      BY <1>i, <2>1, <3>3, <3>4 DEF CallInv
  <2>3. CallInv'
    BY <1>i, <2>1 DEF CallInv
  <2>4. StreamInv'
    BY <1>i, <2>1 DEF StreamInv
  <2>5. ProgressInv'
    BY <2>1, <2>2 DEF ProgressInv
  <2>6. OutputInv'
    BY <2>1, <2>2 DEF OutputInv
  <2>7. TrailerInv'
    BY <1>i, <2>1, <2>2 DEF TrailerInv, isempty_RL, Full, ClosedHasTrailer
  <2>. QED
    BY <2>3, <2>4, <2>5, <2>6, <2>7
<1>8. CASE copy_output_until_stop
  <2>1. /\ pc = "handle" /\ state = "output" /\ zbits # << >> /\ progress' = TRUE
        /\ obuf' = Append(obuf, Head(zbits)) /\ zbits' = Tail(zbits)
        /\ UNCHANGED <<pc, call, mode, avail_in, avail_in_expect, state, state_in_ch,
                       state_in_len, block, combinedCRC, bsBuff, file, status>>
    BY <1>8 DEF copy_output_until_stop, stream, run, blockVars, outside
  <2>2. /\ IsSeq(zbits') /\ IsSeq(obuf') /\ obuf' # << >>
        /\ zbits' # << >> => zbits'[Len(zbits')] = zbits[Len(zbits)]
        /\ zbits' = << >> => obuf'[Len(obuf')] = zbits[Len(zbits)]
    BY <1>i, <2>1, MovedOn DEF StreamInv
  <2>3. CallInv'
    BY <1>i, <2>1 DEF CallInv
  <2>4. StreamInv'
    BY <1>i, <2>1, <2>2 DEF StreamInv
  <2>5. ProgressInv'
    BY <2>1 DEF ProgressInv
  <2>6. OutputInv'
    BY <2>1 DEF OutputInv
  <2>7. TrailerInv'
    <3>1. TrailerIn => TrailerIn'
      BY <2>1, <2>2 DEF TrailerIn, EndsWith
    <3>2. isempty_RL' <=> isempty_RL
      BY <2>1 DEF isempty_RL
    <3>3. status = "open"
      BY <1>i, <2>1 DEF CallInv
    <3>. QED
      BY <1>i, <2>1, <3>1, <3>2, <3>3 DEF TrailerInv, ClosedHasTrailer
  <2>. QED
    BY <2>3, <2>4, <2>5, <2>6, <2>7
<1>9. CASE OutputFull
  <2>1. /\ pc = "handle" /\ state = "output" /\ zbits # << >> /\ Len(obuf) = BufLen
        /\ pc' = "return"
        /\ UNCHANGED <<call, mode, avail_in, avail_in_expect, progress, obuf, state, state_in_ch,
                       state_in_len, block, combinedCRC, bsBuff, zbits, file, status>>
    BY <1>9 DEF OutputFull, stream, run, blockVars, bits, outside
  <2>2. progress
    <3>1. obuf # << >>
      BY <1>c, <2>1
    <3>. QED
      BY <1>i, <2>1, <3>1 DEF ProgressInv
  <2>3. CallInv'
    BY <1>i, <2>1 DEF CallInv
  <2>4. StreamInv'
    BY <1>i, <2>1 DEF StreamInv
  <2>5. ProgressInv'
    BY <2>1, <2>2 DEF ProgressInv
  <2>6. OutputInv'
    BY <2>1 DEF OutputInv
  <2>7. TrailerInv'
    <3>1. (isempty_RL' <=> isempty_RL) /\ (TrailerIn => TrailerIn')
      BY <2>1 DEF isempty_RL, TrailerIn, EndsWith
    <3>. QED
      BY <1>i, <2>1, <3>1 DEF TrailerInv, Full, ClosedHasTrailer
  <2>. QED
    BY <2>3, <2>4, <2>5, <2>6, <2>7
<1>10. CASE BlockWritten
  <2> DEFINE rest == avail_in_expect = 0 /\ isempty_RL
  <2>1. /\ pc = "handle" /\ state = "output" /\ zbits = << >>
        /\ pc' = IF mode \in {"finishing", "flushing"} /\ rest THEN "return" ELSE pc
        /\ IF mode = "finishing" /\ rest THEN UNCHANGED <<state, block>>
           ELSE block' = << >> /\ state' = "input"
        /\ UNCHANGED <<call, mode, avail_in, avail_in_expect, progress, obuf, state_in_ch,
                       state_in_len, combinedCRC, bsBuff, zbits, file, status>>
    BY <1>10 DEF BlockWritten, stream, run, blockVars, bits, outside
  <2>2. (isempty_RL' <=> isempty_RL) /\ (TrailerIn => TrailerIn')
    BY <2>1 DEF isempty_RL, TrailerIn, EndsWith
  <2>3. CallInv'
    BY <1>i, <2>1 DEF CallInv
  <2>4. StreamInv'
    BY <1>i, <2>1 DEF StreamInv
  <2>5. ProgressInv'
    <3>1. mode = "finishing" /\ rest => progress
      BY <1>i, <2>1 DEF ProgressInv
    <3>. QED
      BY <1>i, <2>1, <3>1 DEF ProgressInv
  <2>6. OutputInv'
    BY <1>i, <2>1, <2>2 DEF OutputInv, CallInv
  <2>7. TrailerInv'
    <3>1. state' = "input" => ~Full'
      BY <1>c, <2>1 DEF Full
    <3>2. status = "open"
      BY <1>i, <2>1 DEF CallInv
    <3>. QED
      BY <1>i, <2>1, <2>2, <3>1, <3>2 DEF TrailerInv, ClosedHasTrailer
  <2>. QED
    BY <2>3, <2>4, <2>5, <2>6, <2>7
<1>11. CASE PassWritten
  <2>1. /\ pc = "return" /\ file' = file \o obuf /\ obuf' = << >> /\ progress' = FALSE
        /\ mode' = ModeAfter
        /\ pc' = IF Content THEN "idle" ELSE "handle"
        /\ status' = IF call = "finish" /\ Content THEN "closed" ELSE status
        /\ UNCHANGED <<call, avail_in, avail_in_expect, state, state_in_ch,
                       state_in_len, block, combinedCRC, bsBuff, zbits>>
    BY <1>11 DEF PassWritten, run, blockVars, bits
  <2>2. /\ isempty_RL' <=> isempty_RL
        /\ IsSeq(file') /\ (TrailerIn => TrailerIn')
    <3>1. /\ IsSeq(file') /\ (obuf # << >> => file' # << >> /\ file'[Len(file')] = obuf[Len(obuf)])
          /\ obuf = << >> => file' = file
      BY <1>i, <2>1, JoinedIsSeq DEF StreamInv
    <3>. QED
      BY <2>1, <3>1 DEF TrailerIn, EndsWith, isempty_RL
  <2>a. /\ status = "open" /\ avail_in \in Nat /\ avail_in_expect \in Nat
        /\ progress \/ mode = "flushing"
        /\ mode # "running" => avail_in_expect = avail_in
    BY <1>i, <2>1 DEF CallInv, ProgressInv
  <2>4. StreamInv'
    BY <1>i, <2>1, <2>2, EmptyIsSeq DEF StreamInv
  <2>b. CASE call = "run"
    <3>1. mode = "running" /\ mode' = "running"
      BY <1>i, <2>1, <2>a, <2>b DEF CallInv, ModeAfter, Returned
    <3>2. status' = status /\ pc' = IF avail_in = 0 THEN "idle" ELSE "handle"
      BY <2>1, <2>b DEF Content
    <3>3. CallInv'
      BY <1>i, <2>1, <2>a, <2>b, <3>1, <3>2 DEF CallInv
    <3>5. ProgressInv'
      BY <2>1, <2>a, <3>1, <3>2 DEF ProgressInv
    <3>6. state = "output" => zbits # << >> /\ ~isempty_RL
      BY <1>i, <2>1, <3>1 DEF OutputInv, TrailerInv
    <3>7. OutputInv'
      BY <2>1, <2>2, <3>2, <3>6 DEF OutputInv
    <3>8. TrailerInv'
      BY <1>i, <2>1, <2>2, <2>a, <3>1, <3>2, <3>6 DEF TrailerInv, Full, ClosedHasTrailer
    <3>. QED
      BY <2>4, <3>3, <3>5, <3>7, <3>8
  <2>c. CASE call = "flush"
    <3>1. mode = "flushing"
      BY <1>i, <2>1, <2>c DEF CallInv
    <3>2. Returned = (IF Pending THEN "FLUSH_OK" ELSE "RUN_OK")
      BY <3>1 DEF Returned
    <3>3. mode' = IF Pending THEN "flushing" ELSE "running"
      BY <2>1, <3>1, <3>2 DEF ModeAfter
    <3>4. status' = status /\ pc' = IF Pending THEN "handle" ELSE "idle"
      BY <2>1, <2>c, <3>2 DEF Content
    <3>5. CallInv'
      BY <1>i, <2>1, <2>a, <2>c, <3>3, <3>4 DEF CallInv
    <3>6. ProgressInv'
      BY <2>1, <3>3, <3>4 DEF ProgressInv
    <3>7. state = "output" => Pending
      BY <1>i, <2>1, <3>1 DEF OutputInv, Pending
    <3>8. OutputInv'
      BY <2>1, <3>4, <3>7 DEF OutputInv
    <3>9. TrailerInv'
      BY <1>i, <2>1, <2>2, <2>a, <3>3, <3>4, <3>7 DEF TrailerInv, Full, ClosedHasTrailer
    <3>. QED
      BY <2>4, <3>5, <3>6, <3>8, <3>9
  <2>d. CASE call = "finish"
    <3>1. mode = "finishing" /\ progress /\ state = "output"
      BY <1>i, <2>1, <2>d, <2>a DEF CallInv, OutputInv
    <3>2. Returned = (IF Pending THEN "FINISH_OK" ELSE "STREAM_END")
      BY <3>1 DEF Returned
    <3>3. mode' = IF Pending THEN "finishing" ELSE "idle"
      BY <2>1, <3>1, <3>2 DEF ModeAfter
    <3>4. /\ status' = IF Pending THEN "open" ELSE "closed"
          /\ pc' = IF Pending THEN "handle" ELSE "idle"
      BY <2>1, <2>a, <2>d, <3>2 DEF Content
    <3>5. CallInv'
      BY <1>i, <2>1, <2>a, <2>d, <3>1, <3>3, <3>4 DEF CallInv
    <3>6. Pending => zbits # << >>
      BY <1>i, <2>1, <2>a, <3>1 DEF OutputInv, Pending
    <3>7. ProgressInv'
      BY <2>1, <3>1, <3>3, <3>4, <3>6 DEF ProgressInv
    <3>8. OutputInv'
      BY <2>1, <3>4 DEF OutputInv
    <3>9. ClosedHasTrailer'
      <4>1. CASE Pending
        BY <3>4, <4>1 DEF ClosedHasTrailer
      <4>2. CASE ~Pending
        <5>1. isempty_RL /\ zbits = << >>
          BY <4>2 DEF Pending
        <5>2. TrailerIn
          BY <1>i, <2>1, <3>1, <5>1 DEF TrailerInv
        <5>3. zbits' = << >> /\ obuf' = << >> /\ TrailerIn'
          BY <2>1, <2>2, <5>1, <5>2
        <5>4. EndsWith(file, End(combinedCRC))'
          BY <5>3 DEF TrailerIn
        <5>. QED
          BY <5>4 DEF EndsWith, ClosedHasTrailer
      <4>. QED
        BY <4>1, <4>2
    <3>10. TrailerInv'
      BY <1>i, <2>1, <2>2, <2>a, <3>1, <3>3, <3>4, <3>9 DEF TrailerInv, Full
    <3>. QED
      BY <2>4, <3>5, <3>7, <3>8, <3>10
  <2>. QED
    BY <1>i, <2>1, <2>b, <2>c, <2>d DEF CallInv
<1>12. CASE PassFails
  <2>1. /\ pc' = "idle" /\ status' = "failed"
        /\ UNCHANGED <<call, avail_in, avail_in_expect, obuf, state, state_in_ch,
                       state_in_len, block, combinedCRC, bsBuff, zbits, file>>
    BY <1>12 DEF PassFails, run, blockVars, bits
  <2>3. CallInv'
    BY <1>i, <2>1 DEF CallInv
  <2>4. StreamInv'
    BY <1>i, <2>1 DEF StreamInv
  <2>5. ProgressInv' /\ OutputInv'
    BY <2>1 DEF ProgressInv, OutputInv
  <2>7. TrailerInv'
    BY <1>i, <2>1 DEF TrailerInv, isempty_RL, Full, ClosedHasTrailer
  <2>. QED
    BY <2>3, <2>4, <2>5, <2>7
<1>13. CASE UNCHANGED writerVars
  <2>1. UNCHANGED <<pc, call, mode, avail_in, avail_in_expect, progress, obuf, state, state_in_ch,
                    state_in_len, block, combinedCRC, bsBuff, zbits, file, status>>
    BY <1>13 DEF writerVars, stream, run, blockVars, bits, outside
  <2>3. CallInv'
    BY <1>i, <2>1 DEF CallInv
  <2>4. StreamInv'
    BY <1>i, <2>1 DEF StreamInv
  <2>5. ProgressInv'
    BY <1>i, <2>1 DEF ProgressInv
  <2>6. isempty_RL' <=> isempty_RL
    BY <2>1 DEF isempty_RL
  <2>7. OutputInv'
    BY <1>i, <2>1, <2>6 DEF OutputInv
  <2>8. TrailerIn => TrailerIn'
    BY <2>1 DEF TrailerIn, EndsWith
  <2>9. TrailerInv'
    BY <1>i, <2>1, <2>6, <2>8 DEF TrailerInv, Full, ClosedHasTrailer
  <2>. QED
    BY <2>3, <2>4, <2>5, <2>7, <2>9
<1>. QED
  BY <1>1, <1>2, <1>3, <1>4, <1>5, <1>6, <1>7, <1>8, <1>9, <1>10, <1>11, <1>12, <1>13
  DEF WriterNext, Handle

\* BZ2_bzWriteOpen leaves the writer in its invariant.
LEMMA WriterStart == WriterInit => CallInv /\ StreamInv /\ ProgressInv /\ OutputInv /\ TrailerInv
<1> SUFFICES ASSUME WriterInit PROVE CallInv /\ StreamInv /\ ProgressInv /\ OutputInv /\ TrailerInv
  OBVIOUS
<1>1. nblockMAX \in Nat /\ nblockMAX > 0
  BY CompressAssumption DEF nblockMAX
<1>2. CallInv /\ ProgressInv /\ OutputInv
  BY DEF WriterInit, CallInv, ProgressInv, OutputInv
<1>3. StreamInv
  BY EmptyIsSeq DEF WriterInit, StreamInv
<1>4. TrailerInv
  BY <1>1 DEF WriterInit, TrailerInv, Full, ClosedHasTrailer
<1>. QED
  BY <1>2, <1>3, <1>4

---------------------------------------------------------------------------
(* The number of elements of S that come before i.                         *)
Rank(S, R, i) == Cardinality({j \in S : <<j, i>> \in R})

(* R puts all elements of S into one order.                                *)
Ordered(S, R) ==
  /\ \A i \in S : <<i, i>> \notin R
  /\ \A i, j \in S : i # j => <<i, j>> \in R \/ <<j, i>> \in R
  /\ \A i, j, k \in S : <<i, j>> \in R /\ <<j, k>> \in R => <<i, k>> \in R

\* There are n places that count from 0.
LEMMA PlacesSize ==
  ASSUME NEW n \in Nat
  PROVE  IsFiniteSet(0..(n - 1)) /\ Cardinality(0..(n - 1)) = n
<1>1. 0 \in Int /\ n - 1 \in Int
  OBVIOUS
<1>2. IsFiniteSet(0..(n - 1)) /\ Cardinality(0..(n - 1)) = IF 0 > n - 1 THEN 0 ELSE (n - 1) - 0 + 1
  BY <1>1, FS_Interval
<1>3. (IF 0 > n - 1 THEN 0 ELSE (n - 1) - 0 + 1) = n
  OBVIOUS
<1>. QED
  BY <1>2, <1>3

\* There are n places that count from 1.
LEMMA RanksSize ==
  ASSUME NEW n \in Nat
  PROVE  IsFiniteSet(1..n) /\ Cardinality(1..n) = n
<1>1. 1 \in Int /\ n \in Int
  OBVIOUS
<1>2. IsFiniteSet(1..n) /\ Cardinality(1..n) = IF 1 > n THEN 0 ELSE n - 1 + 1
  BY <1>1, FS_Interval
<1>3. (IF 1 > n THEN 0 ELSE n - 1 + 1) = n
  OBVIOUS
<1>. QED
  BY <1>2, <1>3

\* The ranks of an ordered finite set: each element has one, no two have the
\* same, and none is left out.
LEMMA RanksCover ==
  ASSUME NEW S, IsFiniteSet(S), NEW R, Ordered(S, R)
  PROVE  /\ Cardinality(S) \in Nat
         /\ \A i \in S : Rank(S, R, i) \in 0..(Cardinality(S) - 1)
         /\ \A i, j \in S : Rank(S, R, i) = Rank(S, R, j) => i = j
         /\ \A p \in 0..(Cardinality(S) - 1) : \E i \in S : Rank(S, R, i) = p
<1> DEFINE Below(i) == {j \in S : <<j, i>> \in R}
           n == Cardinality(S)
           f == [i \in S |-> Cardinality(Below(i))]
<1>0. n \in Nat
  BY FS_CardinalityType
<1>1. ASSUME NEW i \in S PROVE IsFiniteSet(Below(i)) /\ Cardinality(Below(i)) \in 0..(n - 1)
  <2>1. Below(i) \in SUBSET (S \ {i})
    BY DEF Ordered
  <2>2. IsFiniteSet(S \ {i}) /\ Cardinality(S \ {i}) = n - 1
    BY FS_RemoveElement
  <2> HIDE DEF Below
  <2>3. IsFiniteSet(Below(i)) /\ Cardinality(Below(i)) <= n - 1
    BY <2>1, <2>2, FS_Subset
  <2>4. Cardinality(Below(i)) \in Nat
    BY <2>3, FS_CardinalityType
  <2>. QED
    BY <1>0, <2>3, <2>4
<1>2. ASSUME NEW i \in S, NEW j \in S, <<i, j>> \in R PROVE Cardinality(Below(i)) # Cardinality(Below(j))
  <2>1. Below(i) \in SUBSET Below(j) /\ i \in Below(j) /\ i \notin Below(i)
    BY <1>2 DEF Ordered
  <2>2. IsFiniteSet(Below(j))
    BY <1>1
  <2> HIDE DEF Below
  <2>. QED
    BY <2>1, <2>2, FS_Subset
<1>3. ASSUME NEW i \in S, NEW j \in S, Cardinality(Below(i)) = Cardinality(Below(j)) PROVE i = j
  <2> HIDE DEF Below
  <2>. QED
    BY <1>2, <1>3 DEF Ordered
<1>4. f \in Injection(S, 0..(n - 1))
  <2>1. f \in [S -> 0..(n - 1)]
    <3> HIDE DEF Below
    <3>. QED
      BY <1>1
  <2>2. \A i, j \in S : f[i] = f[j] => i = j
    <3> HIDE DEF Below
    <3>. QED
      BY <1>3
  <2> HIDE DEF f
  <2>. QED
    BY <2>1, <2>2 DEF Injection, IsInjective
<1>5. IsFiniteSet(0..(n - 1)) /\ Cardinality(0..(n - 1)) = n
  BY <1>0, PlacesSize
<1>6. f \in Surjection(S, 0..(n - 1))
  <2> HIDE DEF f, n
  <2>1. Cardinality(S) = Cardinality(0..(n - 1))
    BY <1>5 DEF n
  <2>. QED
    BY <1>4, <1>5, <2>1, FS_Injection
<1>7. \A p \in 0..(n - 1) : \E i \in S : f[i] = p
  <2> HIDE DEF f
  <2>. QED
    BY <1>6 DEF Surjection
<1>8. \A p \in 0..(n - 1) : \E i \in S : Cardinality(Below(i)) = p
  <2> HIDE DEF Below
  <2>. QED
    BY <1>7
<1>9. \A i : Rank(S, R, i) = Cardinality(Below(i))
  BY DEF Rank
<1> HIDE DEF Below
<1>. QED
  BY <1>0, <1>1, <1>3, <1>8, <1>9

\* BZ2_decompress: every entry of the vector tt names a place of the block.
LEMMA InverseInside ==
  ASSUME NEW col \in Seq(Int), NEW p \in 0..(Len(col) - 1)
  PROVE  /\ DOMAIN InverseVector(col) = 0..(Len(col) - 1)
         /\ InverseVector(col)[p].next \in 0..(Len(col) - 1)
<1> DEFINE Ranks == 1..Len(col)
           Less(i) == {j \in Ranks : col[j] < col[i]}
           Same(i) == {j \in Ranks : j < i /\ col[j] = col[i]}
           cftab(i) == Cardinality(Less(i)) + Cardinality(Same(i))
           R == {ji \in Ranks \X Ranks : \/ col[ji[1]] < col[ji[2]]
                                         \/ ji[1] < ji[2] /\ col[ji[1]] = col[ji[2]]}
           Below(i) == {j \in Ranks : <<j, i>> \in R}
<1>0. Len(col) \in Nat /\ IsFiniteSet(Ranks) /\ Cardinality(Ranks) = Len(col)
  <2>1. Len(col) \in Nat /\ 1 + Len(col) - 1 = Len(col)
    OBVIOUS
  <2>. QED
    BY <2>1, RanksSize
<1>1. \A i \in Ranks : col[i] \in Int
  BY <1>0
<1>2. \A i, j \in Ranks : <<i, j>> \in R <=> (col[i] < col[j] \/ (i < j /\ col[i] = col[j]))
  OBVIOUS
<1>3. \A i \in Ranks : Below(i) = Less(i) \cup Same(i) /\ Less(i) \cap Same(i) = {}
  BY <1>1
<1>4. \A i \in Ranks : Cardinality(Below(i)) = cftab(i)
  <2> TAKE i \in Ranks
  <2>1. IsFiniteSet(Less(i)) /\ IsFiniteSet(Same(i))
    BY <1>0, FS_Subset
  <2>2. Cardinality(Less(i)) \in Nat /\ Cardinality(Same(i)) \in Nat
    <3> HIDE DEF Less, Same
    <3>. QED
      BY <2>1, FS_CardinalityType
  <2>3. Below(i) = Less(i) \cup Same(i) /\ Less(i) \cap Same(i) = {}
    BY <1>3
  <2> HIDE DEF Less, Same, Below
  <2>4. Cardinality(Less(i) \cup Same(i))
          = Cardinality(Less(i)) + Cardinality(Same(i)) - Cardinality(Less(i) \cap Same(i))
    BY <2>1, FS_Union
  <2>5. Cardinality(Less(i) \cap Same(i)) = 0
    BY <2>3, FS_EmptySet
  <2>. QED
    BY <2>2, <2>3, <2>4, <2>5
<1>5. \A i \in Ranks : <<i, i>> \notin R
  BY <1>1, <1>2
<1>6. \A i, j \in Ranks : i # j => <<i, j>> \in R \/ <<j, i>> \in R
  <2> HIDE DEF R
  <2>. QED
    BY <1>1, <1>2
<1>7. \A i, j, k \in Ranks : <<i, j>> \in R /\ <<j, k>> \in R => <<i, k>> \in R
  <2> HIDE DEF R
  <2> TAKE i, j, k \in Ranks
  <2> HAVE <<i, j>> \in R /\ <<j, k>> \in R
  <2>1. i \in Int /\ j \in Int /\ k \in Int /\ col[i] \in Int /\ col[j] \in Int /\ col[k] \in Int
    BY <1>1
  <2>2. /\ col[i] < col[j] \/ (i < j /\ col[i] = col[j])
        /\ col[j] < col[k] \/ (j < k /\ col[j] = col[k])
    BY <1>2
  <2>3. col[i] < col[k] \/ (i < k /\ col[i] = col[k])
    BY <2>1, <2>2
  <2>. QED
    BY <1>2, <2>3
<1>8. \E i \in Ranks : Cardinality(Below(i)) = p
  <2> DEFINE S == Ranks
  <2> HIDE DEF R, S
  <2>a. IsFiniteSet(S)
    BY <1>0 DEF S
  <2>1. Ordered(S, R)
    BY <1>5, <1>6, <1>7 DEF S, Ordered
  <2>2. \A q \in 0..(Cardinality(S) - 1) : \E i \in S : Rank(S, R, i) = q
    BY <2>1, <2>a, RanksCover
  <2>. QED
    BY <1>0, <2>2 DEF S, Rank
<1>9. \E i \in Ranks : cftab(i) = p
  <2> HIDE DEF cftab, Below
  <2>. QED
    BY <1>4, <1>8
<1> DEFINE c == CHOOSE i \in Ranks : cftab(i) = p
<1>10. c \in Ranks
  <2> HIDE DEF cftab, Ranks
  <2>. QED
    BY <1>9
<1>11. DOMAIN InverseVector(col) = 0..(Len(col) - 1)
  BY DEF InverseVector
<1>12. InverseVector(col)[p].next = c - 1
  BY DEF InverseVector
<1>. QED
  <2> HIDE DEF c
  <2>. QED
    BY <1>0, <1>10, <1>11, <1>12

\* makeMaps_d lists as many bytes as are in use.
LEMMA MapsType ==
  ASSUME NEW U \in SUBSET Byte
  PROVE  /\ IsFiniteSet(U) /\ Cardinality(U) \in Nat
         /\ makeMaps(U) \in Seq(Byte) /\ Len(makeMaps(U)) = Cardinality(U)
<1> DEFINE R == {ji \in U \X U : ji[1] < ji[2]}
<1>0. ByteMax \in Nat /\ Byte \subseteq Int
  BY CompressAssumption DEF Byte
<1>1. IsFiniteSet(Byte)
  BY <1>0, FS_Interval DEF Byte
<1>2. IsFiniteSet(U) /\ Cardinality(U) \in Nat
  BY <1>1, FS_Subset, FS_CardinalityType
<1>3. \A i, j \in U : <<i, j>> \in R <=> i < j
  OBVIOUS
<1>a. \A i \in U : {j \in U : <<j, i>> \in R} = {c \in U : c < i}
  BY <1>3
<1> HIDE DEF R
<1>4. Ordered(U, R)
  BY <1>0, <1>3 DEF Ordered
<1>5. \A p \in 0..(Cardinality(U) - 1) : \E i \in U : Rank(U, R, i) = p
  BY <1>2, <1>4, RanksCover
<1>6. \A p \in 0..(Cardinality(U) - 1) : \E b \in U : Cardinality({c \in U : c < b}) = p
  BY <1>a, <1>5 DEF Rank
<1> DEFINE pick(n) == CHOOSE b \in U : Cardinality({c \in U : c < b}) = n - 1
<1>7. \A n \in 1..Cardinality(U) : pick(n) \in Byte
  <2> TAKE n \in 1..Cardinality(U)
  <2>1. n - 1 \in 0..(Cardinality(U) - 1)
    BY <1>2
  <2>2. \E b \in U : Cardinality({c \in U : c < b}) = n - 1
    BY <1>6, <2>1
  <2>. QED
    BY <2>2
<1>8. makeMaps(U) = [n \in 1..Cardinality(U) |-> pick(n)]
  BY DEF makeMaps
<1> HIDE DEF pick
<1>9. makeMaps(U) \in [1..Cardinality(U) -> Byte]
  BY <1>7, <1>8
<1>. QED
  BY <1>2, <1>9

\* The k-th element of a rotation is an element of the block.
LEMMA RotationType ==
  ASSUME NEW b \in Seq(Int), b # << >>, NEW i \in Nat, NEW k \in Nat
  PROVE  RotationAt(b, i, k) \in Int
<1>1. Len(b) \in Nat /\ Len(b) > 0
  OBVIOUS
<1>2. (i + k) % Len(b) \in 0..(Len(b) - 1)
  BY <1>1
<1>3. ((i + k) % Len(b)) + 1 \in 1..Len(b)
  BY <1>1, <1>2
<1>. QED
  BY <1>3 DEF RotationAt

\* blocksort's comparison puts the rotations of a block into one order, equal
\* rotations by their start.
LEMMA RotationsOrdered ==
  ASSUME NEW b \in Seq(Int), b # << >>
  PROVE  LET Starts == 0..(Len(b) - 1)
         IN  Ordered(Starts, {ij \in Starts \X Starts : Before(b, ij[1], ij[2])})
<1> DEFINE n == Len(b)
           Starts == 0..(n - 1)
           At(i, k) == RotationAt(b, i, k)
           Ahead(i, j, k) == At(i, k) < At(j, k) /\ \A m \in 0..(k - 1) : At(i, m) = At(j, m)
           Equal(i, j) == \A k \in Starts : At(i, k) = At(j, k)
           R == {ij \in Starts \X Starts : Before(b, ij[1], ij[2])}
<1>0. n \in Nat /\ n > 0
  OBVIOUS
<1>1. \A i, k \in Starts : At(i, k) \in Int
  BY RotationType
<1>2. \A i, j : Before(b, i, j) <=> (\E k \in Starts : Ahead(i, j, k)) \/ (i < j /\ Equal(i, j))
  BY DEF Before
<1>3. \A i, j \in Starts : <<i, j>> \in R <=> Before(b, i, j)
  OBVIOUS
<1> HIDE DEF At, R
<1>4. \A i \in Starts : <<i, i>> \notin R
  BY <1>1, <1>2, <1>3
<1>5. ASSUME NEW i \in Starts, NEW j \in Starts, i # j PROVE <<i, j>> \in R \/ <<j, i>> \in R
  <2> DEFINE D == {k \in Starts : At(i, k) # At(j, k)}
  <2>1. CASE D = {}
    <3>1. Equal(i, j) /\ Equal(j, i)
      BY <2>1
    <3>2. i < j \/ j < i
      BY <1>5
    <3>. QED
      BY <1>2, <1>3, <3>1, <3>2
  <2>2. CASE D # {}
    <3>1. PICK k \in D : \A m \in D : k <= m
      <4>1. D \in SUBSET Nat
        OBVIOUS
      <4> HIDE DEF D
      <4>. QED
        BY <2>2, <4>1, LeastElement
    <3>2. k \in Starts /\ At(i, k) # At(j, k) /\ \A m \in Starts : At(i, m) # At(j, m) => k <= m
      BY <3>1
    <3>3. \A m \in 0..(k - 1) : At(i, m) = At(j, m)
      BY <1>0, <3>2
    <3>4. At(i, k) < At(j, k) \/ At(j, k) < At(i, k)
      <4>1. At(i, k) \in Int /\ At(j, k) \in Int
        BY <1>1, <3>2
      <4>. QED
        BY <3>2, <4>1
    <3>5. Ahead(i, j, k) \/ Ahead(j, i, k)
      BY <3>3, <3>4
    <3> HIDE DEF Ahead
    <3>. QED
      BY <1>2, <1>3, <3>2, <3>5
  <2>. QED
    BY <2>1, <2>2
<1>6. ASSUME NEW i \in Starts, NEW j \in Starts, NEW l \in Starts, <<i, j>> \in R, <<j, l>> \in R
      PROVE  <<i, l>> \in R
  <2> SUFFICES (\E k \in Starts : Ahead(i, l, k)) \/ (i < l /\ Equal(i, l))
    BY <1>2, <1>3
  <2>1. CASE Equal(i, j) /\ Equal(j, l) /\ i < j /\ j < l
    BY <2>1
  <2>2. ASSUME NEW k \in Starts, Ahead(i, j, k), Equal(j, l) PROVE Ahead(i, l, k)
    <3>1. At(i, k) < At(l, k)
      BY <2>2
    <3>2. \A m \in 0..(k - 1) : At(i, m) = At(l, m)
      <4> TAKE m \in 0..(k - 1)
      <4>1. m \in Starts
        OBVIOUS
      <4>. QED
        BY <2>2, <4>1
    <3>. QED
      BY <3>1, <3>2
  <2>3. ASSUME NEW k \in Starts, Ahead(j, l, k), Equal(i, j) PROVE Ahead(i, l, k)
    <3>1. At(i, k) < At(l, k)
      BY <2>3
    <3>2. \A m \in 0..(k - 1) : At(i, m) = At(l, m)
      <4> TAKE m \in 0..(k - 1)
      <4>1. m \in Starts
        OBVIOUS
      <4>. QED
        BY <2>3, <4>1
    <3>. QED
      BY <3>1, <3>2
  <2>4. ASSUME NEW k \in Starts, NEW q \in Starts, Ahead(i, j, k), Ahead(j, l, q)
        PROVE  \E r \in Starts : Ahead(i, l, r)
    <3>0. /\ At(i, k) \in Int /\ At(j, k) \in Int /\ At(l, k) \in Int
          /\ At(i, q) \in Int /\ At(j, q) \in Int /\ At(l, q) \in Int
      BY <1>1
    <3>1. CASE k <= q
      <4>1. At(i, k) < At(l, k)
        <5>1. CASE k = q
          BY <2>4, <3>0, <5>1
        <5>2. CASE k < q
          <6>1. k \in 0..(q - 1)
            BY <5>2
          <6>. QED
            BY <2>4, <6>1
        <5>. QED
          BY <3>1, <5>1, <5>2
      <4>2. \A m \in 0..(k - 1) : At(i, m) = At(l, m)
        <5> TAKE m \in 0..(k - 1)
        <5>1. m \in 0..(q - 1)
          BY <3>1
        <5>. QED
          BY <2>4, <5>1
      <4>. QED
        BY <4>1, <4>2
    <3>2. CASE q < k
      <4>1. At(i, q) < At(l, q)
        <5>1. q \in 0..(k - 1)
          BY <3>2
        <5>. QED
          BY <2>4, <5>1
      <4>2. \A m \in 0..(q - 1) : At(i, m) = At(l, m)
        <5> TAKE m \in 0..(q - 1)
        <5>1. m \in 0..(k - 1)
          BY <3>2
        <5>. QED
          BY <2>4, <5>1
      <4>. QED
        BY <4>1, <4>2
    <3>. QED
      BY <3>1, <3>2
  <2>5. /\ (\E k \in Starts : Ahead(i, j, k)) \/ (i < j /\ Equal(i, j))
        /\ (\E k \in Starts : Ahead(j, l, k)) \/ (j < l /\ Equal(j, l))
    BY <1>2, <1>3, <1>6
  <2> HIDE DEF Ahead, Equal
  <2>. QED
    BY <2>1, <2>2, <2>3, <2>4, <2>5
<1>7. Ordered(Starts, R)
  <2> HIDE DEF Starts
  <2>. QED
    BY <1>4, <1>5, <1>6 DEF Ordered
<1>. QED
  BY <1>7 DEF R

\* BZ2_blockSort: the unrotated block is among the sorted rotations, and origPtr
\* is its place.
LEMMA OrigPtrInside ==
  ASSUME NEW b \in Seq(Int), b # << >>
  PROVE  OrigPtr(BZ2_blockSort(b)) \in 0..(Len(b) - 1)
<1> DEFINE n == Len(b)
           Starts == 0..(n - 1)
           R == {ij \in Starts \X Starts : Before(b, ij[1], ij[2])}
           Place(i) == Cardinality({j \in Starts : Before(b, j, i)})
           ptr == BZ2_blockSort(b)
<1>0. n \in Nat /\ n > 0
  OBVIOUS
<1>1. Ordered(Starts, R)
  BY RotationsOrdered
<1>2. IsFiniteSet(Starts) /\ Cardinality(Starts) = n
  BY <1>0, PlacesSize
<1>3. \A i \in Starts : Rank(Starts, R, i) = Place(i)
  <2> TAKE i \in Starts
  <2>1. {j \in Starts : <<j, i>> \in R} = {j \in Starts : Before(b, j, i)}
    OBVIOUS
  <2>. QED
    BY <2>1 DEF Rank
<1>4. ptr = [r \in Starts |-> CHOOSE i \in Starts : Place(i) = r]
  BY DEF BZ2_blockSort
<1>5. 0 \in Starts
  BY <1>0
<1> HIDE DEF R, Place, ptr
<1>6. /\ \A i \in Starts : Place(i) \in Starts
      /\ \A i, j \in Starts : Place(i) = Place(j) => i = j
  <2> DEFINE S == Starts
  <2> HIDE DEF S
  <2>1. IsFiniteSet(S) /\ Ordered(S, R)
    BY <1>1, <1>2 DEF S
  <2>2. /\ \A i \in S : Rank(S, R, i) \in 0..(Cardinality(S) - 1)
        /\ \A i, j \in S : Rank(S, R, i) = Rank(S, R, j) => i = j
    BY <2>1, RanksCover
  <2>. QED
    BY <1>2, <1>3, <2>2 DEF S
<1> HIDE DEF Starts
<1>7. ptr[Place(0)] = 0 /\ Place(0) \in Starts /\ DOMAIN ptr = Starts
  <2>1. Place(0) \in Starts /\ DOMAIN ptr = Starts
    BY <1>4, <1>5, <1>6
  <2>2. ptr[Place(0)] = CHOOSE i \in Starts : Place(i) = Place(0)
    BY <1>4, <2>1
  <2>3. (CHOOSE i \in Starts : Place(i) = Place(0)) = 0
    BY <1>5, <1>6
  <2>. QED
    BY <2>1, <2>2, <2>3
<1>8. \E r \in DOMAIN ptr : ptr[r] = 0
  BY <1>7
<1>9. OrigPtr(ptr) \in DOMAIN ptr
  BY <1>8 DEF OrigPtr
<1>. QED
  BY <1>7, <1>9 DEF ptr, Starts

---------------------------------------------------------------------------
(* The tokens of a stream.                                                 *)

\* The block headers of a stream name a rotation and at least one byte.
Sound(s) == \A n \in 1..Len(s) :
    s[n].k = "blk" => s[n].origPtr \in Nat /\ s[n].inUse \in (SUBSET Byte) \ {{}}

\* No trailer in s, and none but at its end.
NoEnd(s) == \A n \in 1..Len(s) : s[n].k # "end"
OnlyLast(s) == \A n \in 1..Len(s) : s[n].k = "end" => n = Len(s)

\* The trailer has been made.
Ended == pc # "idle" /\ mode = "finishing" /\ state = "output" /\ isempty_RL

\* On its way from bsBuff through zbits and the output buffer to the file
\* nothing follows the trailer.
TokensInv ==
  /\ Sound(file) /\ Sound(obuf) /\ Sound(zbits) /\ Sound(bsBuff)
  /\ NoEnd(bsBuff) /\ OnlyLast(zbits) /\ OnlyLast(obuf) /\ OnlyLast(file)
  /\ zbits # << >> => NoEnd(obuf) /\ NoEnd(file)
  /\ obuf # << >> => NoEnd(file)
  /\ status = "open" /\ ~Ended => NoEnd(zbits) /\ NoEnd(obuf) /\ NoEnd(file)

\* Where an element of a concatenation comes from.
LEMMA JoinedAt ==
  ASSUME NEW s, NEW t, IsSeq(s), IsSeq(t), NEW n \in 1..Len(s \o t)
  PROVE  \/ n \in 1..Len(s) /\ (s \o t)[n] = s[n]
         \/ n - Len(s) \in 1..Len(t) /\ (s \o t)[n] = t[n - Len(s)]
<1> DEFINE A == Range(s) \cup Range(t)
<1>1. Range(s) \subseteq A /\ Range(t) \subseteq A
  OBVIOUS
<1> HIDE DEF A
<1>2. s \in Seq(A) /\ t \in Seq(A)
  BY <1>1, SeqMonotonic DEF IsSeq
<1>3. /\ Len(s) \in Nat /\ Len(t) \in Nat /\ Len(s \o t) = Len(s) + Len(t)
      /\ (s \o t)[n] = IF n <= Len(s) THEN s[n] ELSE t[n - Len(s)]
  BY <1>2, ConcatProperties
<1>. QED
  BY <1>3

\* What two sequences of tokens have in common their concatenation has.
LEMMA JoinedTokens ==
  ASSUME NEW s, NEW t, IsSeq(s), IsSeq(t)
  PROVE  /\ Sound(s) /\ Sound(t) => Sound(s \o t)
         /\ NoEnd(s) /\ NoEnd(t) => NoEnd(s \o t)
         /\ NoEnd(s) /\ OnlyLast(t) => OnlyLast(s \o t)
<1> DEFINE st == s \o t
<1>1. \A n \in 1..Len(st) : \/ n \in 1..Len(s) /\ st[n] = s[n]
                            \/ n - Len(s) \in 1..Len(t) /\ st[n] = t[n - Len(s)]
  BY JoinedAt
<1>2. Len(st) = Len(s) + Len(t) /\ Len(s) \in Nat /\ Len(t) \in Nat
  BY JoinedIsSeq
<1> HIDE DEF st
<1>3. Sound(s) /\ Sound(t) => Sound(st)
  BY <1>1, Zenon DEF Sound
<1>4. NoEnd(s) /\ NoEnd(t) => NoEnd(st)
  BY <1>1, Zenon DEF NoEnd
<1>5. ASSUME NoEnd(s), OnlyLast(t), NEW n \in 1..Len(st), st[n].k = "end" PROVE n = Len(st)
  <2>1. n - Len(s) \in 1..Len(t) /\ st[n] = t[n - Len(s)]
    BY <1>1, <1>5 DEF NoEnd
  <2>2. n - Len(s) = Len(t)
    BY <1>5, <2>1 DEF OnlyLast
  <2>. QED
    BY <1>2, <2>2
<1>6. NoEnd(s) /\ OnlyLast(t) => OnlyLast(st)
  BY <1>5 DEF OnlyLast
<1>. QED
  BY <1>3, <1>4, <1>6 DEF st

\* What a sequence of tokens has each part of it has.
LEMMA PartTokens ==
  ASSUME NEW s, IsSeq(s), NEW a \in Nat \ {0}, NEW b \in Nat, b <= Len(s)
  PROVE  /\ Sound(s) => Sound(SubSeq(s, a, b))
         /\ NoEnd(s) => NoEnd(SubSeq(s, a, b))
<1> DEFINE R == Range(s)
           p == SubSeq(s, a, b)
<1>0. s \in Seq(R) /\ Len(s) \in Nat
  BY DEF IsSeq
<1> HIDE DEF R
<1>1. ASSUME NEW n \in 1..Len(p) PROVE n + a - 1 \in 1..Len(s) /\ p[n] = s[n + a - 1]
  <2>1. Len(p) = IF a <= b THEN b - a + 1 ELSE 0
    BY <1>0, SubSeqProperties
  <2>2. a <= b /\ n \in 1..(b - a + 1)
    BY <1>1, <2>1
  <2>3. a + n - 1 = n + a - 1 /\ n + a - 1 \in 1..Len(s)
    BY <1>0, <2>2
  <2>4. p[n] = s[a + n - 1]
    BY <1>0, <2>2, SubSeqProperties
  <2>. QED
    BY <2>3, <2>4
<1> HIDE DEF p
<1>2. Sound(s) => Sound(p)
  BY <1>1, Zenon DEF Sound
<1>3. NoEnd(s) => NoEnd(p)
  BY <1>1, Zenon DEF NoEnd
<1>. QED
  BY <1>2, <1>3 DEF p

\* What the empty sequence and a single token have.
LEMMA FewTokens ==
  /\ Sound(<< >>) /\ NoEnd(<< >>) /\ OnlyLast(<< >>)
  /\ \A t : t.k # "blk" => Sound(<<t>>)
  /\ \A t : t.k # "end" => NoEnd(<<t>>)
  /\ \A t : OnlyLast(<<t>>)
<1>1. Sound(<< >>) /\ NoEnd(<< >>) /\ OnlyLast(<< >>)
  BY DEF Sound, NoEnd, OnlyLast
<1>2. \A t : Len(<<t>>) = 1 /\ \A n \in 1..1 : n = 1 /\ <<t>>[n] = t
  OBVIOUS
<1>3. ASSUME NEW t PROVE /\ t.k # "blk" => Sound(<<t>>)
                         /\ t.k # "end" => NoEnd(<<t>>)
                         /\ OnlyLast(<<t>>)
  <2> DEFINE s == <<t>>
  <2>1. Len(s) = 1 /\ \A n \in 1..1 : n = 1 /\ s[n] = t
    BY <1>2
  <2> HIDE DEF s
  <2>2. (t.k # "blk" => Sound(s)) /\ (t.k # "end" => NoEnd(s)) /\ OnlyLast(s)
    BY <2>1 DEF Sound, NoEnd, OnlyLast
  <2>. QED
    BY <2>2 DEF s
<1>. QED
  BY <1>1, <1>3

\* A token that holds no trailer, and for a block header a good one.
LEMMA SoundToken ==
  ASSUME NEW t, t.origPtr \in Nat, t.inUse \in (SUBSET Byte) \ {{}}
  PROVE  Sound(<<t>>)
<1> DEFINE s == <<t>>
<1>1. Len(s) = 1 /\ \A n \in 1..1 : s[n] = t
  OBVIOUS
<1> HIDE DEF s
<1>2. Sound(s)
  BY <1>1 DEF Sound
<1>. QED
  BY <1>2 DEF s

\* The tokens of a block: a header that names its bytes, and no trailer.
LEMMA BlockIsSound ==
  ASSUME block' \in Seq(Byte), block' # << >>
  PROVE  Sound(BlockTokens) /\ NoEnd(BlockTokens)
<1> DEFINE ptr == BZ2_blockSort(block')
           inUse == ToSet(block')
           mtfv == generateMTFValues(LastColumn(block', ptr), inUse)
           head == Blk(blockCRC', OrigPtr(ptr), inUse)
           syms == [n \in 1..Len(mtfv) |-> Sym(mtfv[n])]
<1>1. block' \in Seq(Int) /\ Len(block') \in Nat /\ Len(block') > 0
  <2>1. Byte \subseteq Int
    BY CompressAssumption DEF Byte
  <2>2. block' \in Seq(Int)
    BY <2>1, SeqMonotonic
  <2>3. Len(block') \in Nat /\ Len(block') > 0
    OBVIOUS
  <2>. QED
    BY <2>2, <2>3
<1>2. OrigPtr(ptr) \in Nat
  <2>1. OrigPtr(ptr) \in 0..(Len(block') - 1)
    BY <1>1, OrigPtrInside
  <2> HIDE DEF ptr
  <2>. QED
    BY <2>1
<1>3. inUse \in (SUBSET Byte) \ {{}}
  <2>1. DOMAIN block' = 1..Len(block') /\ 1 \in 1..Len(block')
    BY <1>1
  <2>2. \A n \in 1..Len(block') : block'[n] \in Byte
    OBVIOUS
  <2>. QED
    BY <2>1, <2>2 DEF ToSet
<1>4. Sound(<<head>>) /\ NoEnd(<<head>>)
  <2> HIDE DEF ptr, inUse
  <2>1. head.origPtr \in Nat /\ head.inUse \in (SUBSET Byte) \ {{}} /\ head.k # "end"
    BY <1>2, <1>3 DEF Blk
  <2> HIDE DEF head
  <2>. QED
    BY <2>1, SoundToken, FewTokens
<1>5. Len(mtfv) \in Nat
  <2>1. Len(LastColumn(block', ptr)) \in Nat
    <3> HIDE DEF ptr
    <3>. QED
      BY <1>1 DEF LastColumn
  <2> DEFINE col == LastColumn(block', ptr)
  <2>2. Len(col) \in Nat
    BY <2>1
  <2> HIDE DEF col, inUse
  <2>3. IsSeq(generateMTFValues(col, inUse))
    BY <2>2, MtfIsSeq
  <2>4. Len(generateMTFValues(col, inUse)) \in Nat
    <3> DEFINE v == generateMTFValues(col, inUse)
    <3> HIDE DEF v
    <3>1. IsSeq(v)
      BY <2>3 DEF v
    <3>2. Len(v) \in Nat
      BY <3>1 DEF IsSeq
    <3>. QED
      BY <3>2 DEF v
  <2>. QED
    BY <2>4 DEF col
<1> HIDE DEF mtfv
<1>6. /\ IsSeq(syms) /\ Len(syms) = Len(mtfv)
      /\ \A n \in 1..Len(mtfv) : syms[n].k = "sym"
  <2> DEFINE S == {Sym(mtfv[n]) : n \in 1..Len(mtfv)}
  <2>1. syms \in [1..Len(mtfv) -> S]
    OBVIOUS
  <2>2. \A n \in 1..Len(mtfv) : syms[n].k = "sym"
    BY DEF Sym
  <2> HIDE DEF S, syms
  <2>3. syms \in Seq(S) /\ Len(syms) = Len(mtfv)
    BY <1>5, <2>1
  <2>. QED
    BY <2>2, <2>3, SeqIsSeq
<1>7. Sound(syms) /\ NoEnd(syms)
  <2> HIDE DEF syms
  <2>. QED
    BY <1>6 DEF Sound, NoEnd
<1>8. BlockTokens = <<head>> \o syms
  BY DEF BlockTokens, mtfv
<1> HIDE DEF head, syms
<1>. QED
  BY <1>4, <1>6, <1>7, <1>8, SingleIsSeq, JoinedTokens

\* BZ2_compressBlock writes no trailer but the last token of the last block.
LEMMA CompressedTokens ==
  ASSUME NEW last \in BOOLEAN, block' \in Seq(Byte), StreamInv, BZ2_compressBlock(last),
         Sound(bsBuff), NoEnd(bsBuff), Sound(zbits), NoEnd(zbits)
  PROVE  /\ Sound(zbits') /\ Sound(bsBuff') /\ NoEnd(bsBuff') /\ OnlyLast(zbits')
         /\ ~last => NoEnd(zbits')
<1> DEFINE head == IF blockNo = 1 THEN <<Hdr>> ELSE << >>
           tokens == IF block' # << >> THEN BlockTokens ELSE << >>
           tail == IF last THEN <<End(combinedCRC')>> ELSE << >>
           written == head \o tokens \o tail
           all == bsBuff \o written
<1>1. IsSeq(head) /\ Sound(head) /\ NoEnd(head)
  <2>1. Sound(<<Hdr>>) /\ NoEnd(<<Hdr>>)
    <3>1. Hdr.k = "hdr"
      BY DEF Hdr
    <3>. QED
      BY <3>1, FewTokens
  <2>. QED
    BY <2>1, SingleIsSeq, EmptyIsSeq, FewTokens
<1>2. IsSeq(tokens) /\ Sound(tokens) /\ NoEnd(tokens)
  BY TokensAreSeq, BlockIsSound, EmptyIsSeq, FewTokens
<1>3. IsSeq(tail) /\ Sound(tail) /\ OnlyLast(tail) /\ (~last => NoEnd(tail))
  <2> DEFINE e == End(combinedCRC')
  <2>0. e.k = "end"
    BY DEF End
  <2> HIDE DEF e
  <2>1. Sound(<<e>>) /\ OnlyLast(<<e>>) /\ IsSeq(<<e>>)
    BY <2>0, FewTokens, SingleIsSeq
  <2>. QED
    BY <2>1, EmptyIsSeq, FewTokens DEF e
<1> HIDE DEF head, tokens, tail
<1>4. IsSeq(head \o tokens) /\ Sound(head \o tokens) /\ NoEnd(head \o tokens)
  BY <1>1, <1>2, JoinedIsSeq, JoinedTokens
<1>5. IsSeq(written) /\ Sound(written) /\ OnlyLast(written) /\ (~last => NoEnd(written))
  <2> DEFINE u == head \o tokens
  <2> HIDE DEF u
  <2>1. IsSeq(u) /\ Sound(u) /\ NoEnd(u)
    BY <1>4 DEF u
  <2>2. IsSeq(u \o tail) /\ Sound(u \o tail) /\ OnlyLast(u \o tail) /\ (~last => NoEnd(u \o tail))
    BY <1>3, <2>1, JoinedIsSeq, JoinedTokens
  <2>. QED
    BY <2>2 DEF u
<1>w. /\ last => zbits' = all /\ bsBuff' = << >>
      /\ ~last => \/ UNCHANGED <<zbits, bsBuff>>
                  \/ \E h \in 1..MaxHeld :
                       LET out == IF h < Len(all) THEN Len(all) - h ELSE 0
                       IN  /\ zbits' = SubSeq(all, 1, out)
                           /\ bsBuff' = SubSeq(all, out + 1, Len(all))
  BY DEF BZ2_compressBlock, head, tokens, tail
<1> HIDE DEF written
<1>6. IsSeq(bsBuff)
  BY DEF StreamInv
<1>7. IsSeq(all) /\ Sound(all) /\ OnlyLast(all) /\ (~last => NoEnd(all))
  BY <1>5, <1>6, JoinedIsSeq, JoinedTokens
<1> HIDE DEF all
<1>a. Len(all) \in Nat
  BY <1>7 DEF IsSeq
<1>b. \A s : NoEnd(s) => OnlyLast(s)
  BY DEF NoEnd, OnlyLast
<1>8. CASE last
  BY <1>7, <1>8, <1>w, FewTokens
<1>9. CASE ~last
  <2>1. CASE UNCHANGED <<zbits, bsBuff>>
    <3>1. zbits' = zbits /\ bsBuff' = bsBuff
      BY <2>1
    <3>. QED
      BY <1>9, <1>b, <3>1
  <2>2. ASSUME NEW h \in 1..MaxHeld,
               zbits' = SubSeq(all, 1, IF h < Len(all) THEN Len(all) - h ELSE 0),
               bsBuff' = SubSeq(all, (IF h < Len(all) THEN Len(all) - h ELSE 0) + 1, Len(all))
        PROVE  Sound(zbits') /\ Sound(bsBuff') /\ NoEnd(bsBuff') /\ NoEnd(zbits')
    <3> DEFINE out == IF h < Len(all) THEN Len(all) - h ELSE 0
    <3>1. out \in Nat /\ out <= Len(all) /\ out + 1 \in Nat \ {0} /\ 1 \in Nat \ {0} /\ Len(all) <= Len(all)
      BY <1>a
    <3>2. zbits' = SubSeq(all, 1, out) /\ bsBuff' = SubSeq(all, out + 1, Len(all))
      BY <2>2
    <3> HIDE DEF out
    <3>. QED
      BY <1>7, <1>9, <1>a, <3>1, <3>2, PartTokens
  <2>. QED
    BY <1>9, <1>b, <1>w, <2>1, <2>2
<1>. QED
  BY <1>8, <1>9

\* One token goes from zbits to the output buffer.
LEMMA MovedTokens ==
  ASSUME NEW s, NEW t, IsSeq(s), IsSeq(t), t # << >>,
         Sound(s), Sound(t), NoEnd(s), OnlyLast(t)
  PROVE  /\ Sound(Tail(t)) /\ Sound(Append(s, Head(t)))
         /\ OnlyLast(Tail(t)) /\ OnlyLast(Append(s, Head(t)))
         /\ Tail(t) # << >> => NoEnd(Append(s, Head(t)))
         /\ NoEnd(t) => NoEnd(Tail(t)) /\ NoEnd(Append(s, Head(t)))
<1> DEFINE A == Range(s) \cup Range(t)
           u == Append(s, Head(t))
           r == Tail(t)
<1>1. Range(s) \subseteq A /\ Range(t) \subseteq A
  OBVIOUS
<1> HIDE DEF A
<1>2. s \in Seq(A) /\ t \in Seq(A)
  BY <1>1, SeqMonotonic DEF IsSeq
<1>3. /\ Len(t) \in Nat /\ Len(t) > 0 /\ Head(t) = t[1] /\ r \in Seq(A) /\ Len(r) = Len(t) - 1
      /\ \A n \in 1..Len(r) : n + 1 \in 1..Len(t) /\ r[n] = t[n + 1]
  BY <1>2, HeadTailProperties
<1>4. /\ Len(s) \in Nat /\ Len(u) = Len(s) + 1
      /\ \A n \in 1..Len(u) : (n \in 1..Len(s) /\ u[n] = s[n]) \/ (n = Len(u) /\ u[n] = t[1])
  BY <1>2, <1>3, AppendProperties
<1>5. r # << >> => Len(t) > 1
  BY <1>3
<1>6. 1 \in 1..Len(t)
  BY <1>3
<1> HIDE DEF u, r
<1>7. Sound(r) /\ (NoEnd(t) => NoEnd(r))
  BY <1>3, Zenon DEF Sound, NoEnd
<1>8. OnlyLast(r)
  <2> SUFFICES ASSUME NEW n \in 1..Len(r), r[n].k = "end" PROVE n = Len(r)
    BY DEF OnlyLast
  <2>1. n + 1 = Len(t)
    BY <1>3 DEF OnlyLast
  <2>. QED
    BY <1>3, <2>1
<1>9. Sound(u)
  BY <1>4, <1>6, Zenon DEF Sound
<1>10. OnlyLast(u)
  BY <1>4, Zenon DEF OnlyLast, NoEnd
<1>11. ASSUME t[1].k # "end" PROVE NoEnd(u)
  BY <1>4, <1>11, Zenon DEF NoEnd
<1>12. NoEnd(t) => t[1].k # "end"
  BY <1>6 DEF NoEnd
<1>13. r # << >> => t[1].k # "end"
  BY <1>3, <1>5, <1>6 DEF OnlyLast
<1>. QED
  BY <1>7, <1>8, <1>9, <1>10, <1>11, <1>12, <1>13 DEF u, r

\* Every step of the writer keeps the trailer last.
LEMMA TokensStep == WriterInv /\ TokensInv /\ [WriterNext]_writerVars => TokensInv'
<1> SUFFICES ASSUME WriterInv, TokensInv, [WriterNext]_writerVars PROVE TokensInv'
  OBVIOUS
<1>i. CallInv /\ StreamInv /\ OutputInv /\ TrailerInv
  BY DEF WriterInv
<1>0. RunOK'
  BY FitsStep DEF WriterInv, Fits
<1>u. ASSUME UNCHANGED <<file, zbits, bsBuff>>, UNCHANGED obuf \/ obuf' = << >>,
             status' = "open" /\ ~Ended' => status = "open" /\ ~Ended
      PROVE  TokensInv'
  <2>1. CASE UNCHANGED obuf
    BY <1>u, <2>1 DEF TokensInv, Sound, NoEnd, OnlyLast
  <2>2. CASE obuf' = << >>
    <3>1. Sound(obuf') /\ NoEnd(obuf') /\ OnlyLast(obuf')
      BY <2>2, FewTokens
    <3>2. file' = file /\ zbits' = zbits /\ bsBuff' = bsBuff
      BY <1>u
    <3>3. /\ Sound(file') /\ Sound(zbits') /\ Sound(bsBuff')
          /\ NoEnd(bsBuff') /\ OnlyLast(zbits') /\ OnlyLast(file')
          /\ zbits' # << >> => NoEnd(file')
          /\ status' = "open" /\ ~Ended' => NoEnd(zbits') /\ NoEnd(file')
      BY <1>u, <3>2 DEF TokensInv
    <3>. QED
      BY <2>2, <3>1, <3>3 DEF TokensInv, Sound, NoEnd, OnlyLast
  <2>. QED
    BY <1>u, <2>1, <2>2
<1>1. ASSUME NEW n \in Chunks \cup {0}, BZ2_bzWrite(n) \/ Flush(n) \/ Finish(n) PROVE TokensInv'
  <2>1. pc = "idle" /\ status = "open" /\ obuf' = << >> /\ UNCHANGED <<file, zbits, bsBuff>>
    BY <1>1 DEF BZ2_bzWrite, Flush, Finish, Begin, bits, outside
  <2>. QED
    BY <1>u, <2>1 DEF Ended
<1>2. CASE Abandon \/ PassFails
  <2>1. status' # "open" /\ UNCHANGED <<file, zbits, bsBuff, obuf>>
    BY <1>2 DEF Abandon, PassFails, bits
  <2>. QED
    BY <1>u, <2>1
<1>3. ASSUME NEW c \in Byte, copy_input_until_stop(c) PROVE TokensInv'
  <2>1. state = "input" /\ UNCHANGED <<status, file, zbits, bsBuff, obuf>>
    BY <1>3 DEF copy_input_until_stop, bits, outside
  <2>. QED
    BY <1>u, <2>1 DEF Ended
<1>4. CASE InputUsedUp
  <2>1. state = "input" /\ UNCHANGED <<status, file, zbits, bsBuff, obuf>>
    BY <1>4 DEF InputUsedUp, bits, outside
  <2>. QED
    BY <1>u, <2>1 DEF Ended
<1>5. CASE OutputFull
  <2>1. /\ pc = "handle" /\ pc' = "return"
        /\ UNCHANGED <<mode, state, state_in_ch, state_in_len, status, file, zbits, bsBuff, obuf>>
    BY <1>5 DEF OutputFull, stream, run, bits, outside
  <2>2. Ended <=> Ended'
    BY <2>1 DEF Ended, isempty_RL
  <2>. QED
    BY <1>u, <2>1, <2>2
<1>6. CASE BlockWritten
  <2>1. /\ pc = "handle" /\ state = "output"
        /\ pc' \in {"handle", "return"}
        /\ mode = "finishing" /\ avail_in_expect = 0 /\ isempty_RL => UNCHANGED state
        /\ UNCHANGED <<mode, state_in_ch, state_in_len, status, file, zbits, bsBuff, obuf>>
    BY <1>6 DEF BlockWritten, stream, run, bits, outside
  <2>2. Ended => avail_in_expect = 0
    BY <1>i, <2>1 DEF Ended, TrailerInv
  <2>3. Ended => Ended'
    BY <2>1, <2>2 DEF Ended, isempty_RL
  <2>. QED
    BY <1>u, <2>1, <2>3
<1>7. CASE CompressRest \/ CompressFull
  <2>1. /\ pc = "handle" /\ state = "input" /\ status = "open"
        /\ UNCHANGED <<pc, mode, status, file, obuf>> /\ state' = "output"
    BY <1>7, <1>i DEF CompressRest, CompressFull, stream, outside, CallInv
  <2>2. PICK last \in BOOLEAN : BZ2_compressBlock(last) /\ (last => mode = "finishing" /\ isempty_RL')
    <3>1. CASE CompressRest
      <4>1. BZ2_compressBlock(mode = "finishing") /\ isempty_RL'
        BY <3>1 DEF CompressRest, isempty_RL
      <4>. QED
        BY <4>1
    <3>2. CASE CompressFull
      BY <3>2 DEF CompressFull
    <3>. QED
      BY <1>7, <3>1, <3>2
  <2>3. NoEnd(zbits) /\ NoEnd(obuf) /\ NoEnd(file)
    BY <2>1 DEF TokensInv, Ended
  <2>4. /\ Sound(zbits') /\ Sound(bsBuff') /\ NoEnd(bsBuff') /\ OnlyLast(zbits')
        /\ ~last => NoEnd(zbits')
    <3>1. block' \in Seq(Byte) /\ Sound(bsBuff) /\ NoEnd(bsBuff) /\ Sound(zbits)
      BY <1>0 DEF RunOK, TokensInv
    <3>. QED
      BY <1>i, <2>2, <2>3, <3>1, CompressedTokens
  <2>5. last => Ended'
    BY <2>1, <2>2 DEF Ended
  <2>6. file' = file /\ obuf' = obuf
    BY <2>1
  <2>7. /\ Sound(file') /\ Sound(obuf') /\ OnlyLast(file') /\ OnlyLast(obuf')
        /\ NoEnd(file') /\ NoEnd(obuf')
    BY <2>3, <2>6 DEF TokensInv
  <2>8. status' = "open" /\ ~Ended' => NoEnd(zbits')
    BY <2>4, <2>5
  <2> HIDE DEF Ended
  <2>. QED
    BY <2>4, <2>7, <2>8 DEF TokensInv
<1>8. CASE copy_output_until_stop
  <2>1. /\ pc = "handle" /\ zbits # << >>
        /\ obuf' = Append(obuf, Head(zbits)) /\ zbits' = Tail(zbits)
        /\ UNCHANGED <<pc, mode, state, state_in_ch, state_in_len, bsBuff, file, status>>
    BY <1>8 DEF copy_output_until_stop, stream, run, outside
  <2>2. Ended' <=> Ended
    BY <2>1 DEF Ended, isempty_RL
  <2>3. IsSeq(zbits) /\ IsSeq(obuf) /\ Sound(obuf) /\ Sound(zbits) /\ NoEnd(obuf) /\ OnlyLast(zbits) /\ NoEnd(file)
    BY <1>i, <2>1 DEF StreamInv, TokensInv
  <2>4. /\ Sound(zbits') /\ Sound(obuf') /\ OnlyLast(zbits') /\ OnlyLast(obuf')
        /\ zbits' # << >> => NoEnd(obuf')
        /\ NoEnd(zbits) => NoEnd(zbits') /\ NoEnd(obuf')
    BY <2>1, <2>3, MovedTokens
  <2>5. file' = file /\ bsBuff' = bsBuff
    BY <2>1
  <2>6. Sound(file') /\ OnlyLast(file') /\ NoEnd(file') /\ Sound(bsBuff') /\ NoEnd(bsBuff')
    BY <2>3, <2>5 DEF TokensInv
  <2>7. status' = "open" /\ ~Ended' => NoEnd(zbits)
    BY <2>1, <2>2 DEF TokensInv
  <2> HIDE DEF Ended
  <2>. QED
    BY <2>4, <2>6, <2>7 DEF TokensInv
<1>9. CASE PassWritten
  <2>1. /\ pc = "return" /\ file' = file \o obuf /\ obuf' = << >>
        /\ mode' = ModeAfter
        /\ pc' = IF Content THEN "idle" ELSE "handle"
        /\ status' = IF call = "finish" /\ Content THEN "closed" ELSE status
        /\ UNCHANGED <<call, state, state_in_ch, state_in_len, zbits, bsBuff>>
    BY <1>9 DEF PassWritten, run, bits
  <2>2. status = "open"
    BY <1>i, <2>1 DEF CallInv
  <2>3. status' = "open" /\ Ended => Ended'
    <3> SUFFICES ASSUME status' = "open", Ended PROVE Ended'
      OBVIOUS
    <3>1. mode = "finishing" /\ call = "finish" /\ ~Content
      BY <1>i, <2>1 DEF Ended, CallInv
    <3>2. pc' = "handle" /\ (isempty_RL' <=> isempty_RL)
      BY <2>1, <3>1 DEF isempty_RL
    <3>3. Returned # "STREAM_END" /\ Returned # "RUN_OK"
      <4>1. Returned # "STREAM_END"
        BY <3>1 DEF Content
      <4>2. Returned # "RUN_OK"
        BY <3>1 DEF Returned
      <4>. QED
        BY <4>1, <4>2
    <3>4. mode' = "finishing"
      BY <2>1, <3>1, <3>3 DEF ModeAfter
    <3>. QED
      BY <2>1, <3>2, <3>4 DEF Ended
  <2>4. /\ Sound(file') /\ OnlyLast(file')
        /\ NoEnd(file) /\ NoEnd(obuf) => NoEnd(file')
    <3>1. IsSeq(file) /\ IsSeq(obuf) /\ Sound(file) /\ Sound(obuf) /\ OnlyLast(obuf) /\ OnlyLast(file)
      BY <1>i DEF StreamInv, TokensInv
    <3>2. CASE obuf # << >>
      <4>1. NoEnd(file)
        BY <3>2 DEF TokensInv
      <4>. QED
        BY <2>1, <3>1, <4>1, JoinedTokens
    <3>3. CASE obuf = << >>
      <4>1. file' = file
        BY <2>1, <3>1, <3>3, JoinedIsSeq
      <4>. QED
        BY <3>1, <4>1
    <3>. QED
      BY <3>2, <3>3
  <2>5. Sound(obuf') /\ NoEnd(obuf') /\ OnlyLast(obuf')
    BY <2>1, FewTokens
  <2>6. zbits' = zbits /\ bsBuff' = bsBuff
    BY <2>1
  <2>7. Sound(zbits') /\ OnlyLast(zbits') /\ Sound(bsBuff') /\ NoEnd(bsBuff')
    BY <2>6 DEF TokensInv
  <2>8. zbits' # << >> => NoEnd(file')
    BY <2>4, <2>6 DEF TokensInv
  <2>9. status' = "open" /\ ~Ended' => NoEnd(zbits') /\ NoEnd(file')
    BY <2>2, <2>3, <2>4, <2>6 DEF TokensInv
  <2> HIDE DEF Ended
  <2>. QED
    BY <2>1, <2>4, <2>5, <2>7, <2>8, <2>9 DEF TokensInv
<1>10. CASE UNCHANGED writerVars
  <2>1. UNCHANGED <<pc, mode, state, state_in_ch, state_in_len, status, file, zbits, bsBuff, obuf>>
    BY <1>10 DEF writerVars, stream, run, bits, outside
  <2>2. Ended <=> Ended'
    BY <2>1 DEF Ended, isempty_RL
  <2>. QED
    BY <1>u, <2>1, <2>2
<1>. QED
  BY <1>1, <1>2, <1>3, <1>4, <1>5, <1>6, <1>7, <1>8, <1>9, <1>10 DEF WriterNext, Handle

---------------------------------------------------------------------------
(* The reader.                                                             *)

\* The trailer is the last token of an input, unless something follows the
\* stream.
EndsRight(r, f) ==
  \A n \in 1..Len(r) :
    r[n].k = "end" => IF f = "more" THEN n = Len(r) - 1 /\ r[Len(r)] = Junk
                                    ELSE n = Len(r)

\* What the reader has not decoded yet, in its buffer and in the file.
InputInv ==
  /\ IsSeq(ibuf) /\ IsSeq(unread) /\ Sound(ibuf) /\ Sound(unread)
  /\ EndsRight(ibuf \o unread, fault)

\* Nobody reads on behind the end.
EndInv ==
  /\ rpc = "shut" => verdict = "none" /\ ibuf = << >> /\ unread = << >> /\ fault = "none"
  /\ verdict = "end" => rpc = "idle" /\ StopsAtTrailer

\* While symbols are decoded the list holds the bytes in use, each of them a byte.
DecodeInv ==
  dstate = "mtf" =>
    /\ header.origPtr \in Nat /\ header.inUse \in (SUBSET Byte) \ {{}}
    /\ yy \in Seq(Byte) /\ Len(yy) = Cardinality(header.inUse)
    /\ column \in Seq(Byte)
    /\ N \in Nat /\ es \in Int /\ es >= -1

\* While a block is put out tt leads from each of its places to another one.
WalkInv ==
  dstate = "output" =>
    /\ Len(column) \in Nat
    /\ DOMAIN tt = 0..(Len(column) - 1)
    /\ tPos \in DOMAIN tt
    /\ \A p \in DOMAIN tt : tt[p].next \in DOMAIN tt

\* The inductive invariant of the reader.
ReaderInv == InputInv /\ EndInv /\ DecodeInv /\ WalkInv

\* The decoder takes one token of its input.
LEMMA Taken ==
  ASSUME InputInv, Take,
         fault' = fault \/ (fault # "more" /\ fault' # "more")
  PROVE  /\ InputInv'
         /\ Head(ibuf).k = "blk" =>
              Head(ibuf).origPtr \in Nat /\ Head(ibuf).inUse \in (SUBSET Byte) \ {{}}
         /\ Head(ibuf).k = "end" =>
              ibuf' \o unread' = IF fault' = "more" THEN <<Junk>> ELSE << >>
<1> DEFINE A == Range(ibuf) \cup Range(unread)
           r == ibuf \o unread
           q == Tail(ibuf) \o unread
<1>0. ibuf # << >> /\ ibuf' = Tail(ibuf) /\ unread' = unread
  BY DEF Take
<1>1. Range(ibuf) \subseteq A /\ Range(unread) \subseteq A
  OBVIOUS
<1>a. IsSeq(ibuf) /\ IsSeq(unread) /\ Sound(ibuf) /\ Sound(unread) /\ EndsRight(r, fault)
  BY DEF InputInv
<1> HIDE DEF A
<1>2. ibuf \in Seq(A) /\ unread \in Seq(A)
  BY <1>1, <1>a, SeqMonotonic DEF IsSeq
<1>3. /\ Len(ibuf) \in Nat /\ Len(ibuf) > 0 /\ Head(ibuf) = ibuf[1]
      /\ Tail(ibuf) \in Seq(A) /\ Len(Tail(ibuf)) = Len(ibuf) - 1
      /\ \A n \in 1..Len(Tail(ibuf)) : n + 1 \in 1..Len(ibuf) /\ Tail(ibuf)[n] = ibuf[n + 1]
  BY <1>0, <1>2, HeadTailProperties
<1>4. /\ Len(unread) \in Nat
      /\ r \in Seq(A) /\ Len(r) = Len(ibuf) + Len(unread)
      /\ q \in Seq(A) /\ Len(q) = Len(r) - 1
      /\ r[1] = Head(ibuf) /\ 1 \in 1..Len(r)
  BY <1>2, <1>3, ConcatProperties
<1>5. ASSUME NEW n \in 1..Len(q) PROVE n + 1 \in 1..Len(r) /\ q[n] = r[n + 1]
  <2>1. /\ q[n] = IF n <= Len(ibuf) - 1 THEN Tail(ibuf)[n] ELSE unread[n - (Len(ibuf) - 1)]
    BY <1>2, <1>3, <1>4, ConcatProperties
  <2>2. r[n + 1] = IF n + 1 <= Len(ibuf) THEN ibuf[n + 1] ELSE unread[n + 1 - Len(ibuf)]
    BY <1>2, <1>3, <1>4, ConcatProperties
  <2>3. n + 1 \in 1..Len(r)
    BY <1>4
  <2>4. CASE n <= Len(ibuf) - 1
    <3>1. n \in 1..Len(Tail(ibuf)) /\ n + 1 <= Len(ibuf)
      BY <1>3, <2>4
    <3>. QED
      BY <1>3, <2>1, <2>2, <2>3, <2>4, <3>1
  <2>5. CASE ~(n <= Len(ibuf) - 1)
    <3>1. ~(n + 1 <= Len(ibuf)) /\ n - (Len(ibuf) - 1) = n + 1 - Len(ibuf)
      BY <1>3, <2>5
    <3>. QED
      BY <2>1, <2>2, <2>3, <2>5, <3>1
  <2>. QED
    BY <2>4, <2>5
<1>6. Sound(Tail(ibuf)) /\ IsSeq(Tail(ibuf))
  <2>1. IsSeq(Tail(ibuf))
    BY <1>3, SeqIsSeq
  <2>2. Sound(Tail(ibuf))
    BY <1>3, <1>a, Zenon DEF Sound
  <2>. QED
    BY <2>1, <2>2
<1>7. q = ibuf' \o unread'
  BY <1>0
<1> HIDE DEF r, q
<1>8. EndsRight(q, fault)
  <2> SUFFICES ASSUME NEW n \in 1..Len(q), q[n].k = "end"
               PROVE  IF fault = "more" THEN n = Len(q) - 1 /\ q[Len(q)] = Junk ELSE n = Len(q)
    BY DEF EndsRight
  <2>1. n + 1 \in 1..Len(r) /\ r[n + 1].k = "end"
    BY <1>5
  <2>2. IF fault = "more" THEN n + 1 = Len(r) - 1 /\ r[Len(r)] = Junk ELSE n + 1 = Len(r)
    BY <1>a, <2>1 DEF EndsRight
  <2>3. CASE fault = "more"
    <3>1. n = Len(q) - 1 /\ Len(q) \in 1..Len(q) /\ Len(q) + 1 = Len(r) /\ r[Len(r)] = Junk
      BY <1>4, <2>2, <2>3
    <3>2. q[Len(q)] = r[Len(q) + 1]
      BY <1>5, <3>1
    <3>. QED
      BY <2>3, <3>1, <3>2
  <2>4. CASE fault # "more"
    BY <1>4, <2>2, <2>4
  <2>. QED
    BY <2>3, <2>4
<1>9. EndsRight(q, fault')
  BY <1>8 DEF EndsRight
<1>10. InputInv'
  <2>1. Sound(ibuf') /\ IsSeq(ibuf') /\ Sound(unread') /\ IsSeq(unread') /\ EndsRight(ibuf' \o unread', fault')
    BY <1>0, <1>6, <1>7, <1>9, <1>a
  <2>. QED
    BY <2>1 DEF InputInv
<1>11. Head(ibuf).k = "blk" =>
         Head(ibuf).origPtr \in Nat /\ Head(ibuf).inUse \in (SUBSET Byte) \ {{}}
  <2>1. 1 \in 1..Len(ibuf)
    BY <1>3
  <2>. QED
    BY <1>3, <1>a, <2>1 DEF Sound
<1>12. ASSUME Head(ibuf).k = "end" PROVE q = IF fault' = "more" THEN <<Junk>> ELSE << >>
  <2>1. IF fault = "more" THEN 1 = Len(r) - 1 /\ r[Len(r)] = Junk ELSE 1 = Len(r)
    BY <1>4, <1>12, <1>a DEF EndsRight
  <2>2. CASE fault = "more"
    <3>1. Len(q) = 1 /\ Len(r) = 2 /\ 1 \in 1..Len(q)
      BY <1>4, <2>1, <2>2
    <3>2. q[1] = Junk
      BY <1>5, <2>1, <2>2, <3>1
    <3>3. q = <<Junk>>
      BY <1>4, <3>1, <3>2
    <3>. QED
      BY <2>2, <3>3
  <2>3. CASE fault # "more"
    <3>1. Len(q) = 0
      BY <1>4, <2>1, <2>3
    <3>2. q = << >>
      BY <1>4, <3>1
    <3>. QED
      BY <2>3, <3>2
  <2>. QED
    BY <2>2, <2>3
<1>. QED
  BY <1>7, <1>10, <1>11, <1>12

\* A block uses at least one byte value.
LEMMA UsedCount ==
  ASSUME NEW U \in (SUBSET Byte) \ {{}}
  PROVE  Cardinality(U) \in Nat /\ Cardinality(U) > 0
<1>1. U \in SUBSET Byte /\ U # {}
  OBVIOUS
<1>2. IsFiniteSet(U) /\ Cardinality(U) \in Nat
  BY <1>1, MapsType
<1>3. Cardinality(U) # 0
  BY <1>1, <1>2, FS_EmptySet
<1>. QED
  BY <1>2, <1>3

\* The pending zeros are bytes.
LEMMA WithRunType ==
  ASSUME DecodeInv, dstate = "mtf"
  PROVE  WithRun \in Seq(Byte)
<1>1. /\ header.inUse \in (SUBSET Byte) \ {{}}
      /\ yy \in Seq(Byte) /\ Len(yy) = Cardinality(header.inUse)
      /\ column \in Seq(Byte) /\ es \in Int /\ es >= -1
  BY DEF DecodeInv
<1>2. Cardinality(header.inUse) \in Nat /\ Cardinality(header.inUse) > 0
  BY <1>1, UsedCount
<1>3. yy[1] \in Byte
  BY <1>1, <1>2
<1>4. es + 1 \in Nat
  BY <1>1
<1>5. Copies(yy[1], es + 1) \in Seq(Byte)
  BY <1>3, <1>4, CopiesType
<1>. QED
  BY <1>1, <1>5, ConcatProperties DEF WithRun

\* Moving a byte to the front keeps the list a list of as many bytes.
LEMMA MovedToFront ==
  ASSUME NEW list \in Seq(Byte), NEW j \in Nat, j < Len(list)
  PROVE  MoveToFront(list, j) \in Seq(Byte) /\ Len(MoveToFront(list, j)) = Len(list)
<1>1. Len(list) \in Nat /\ list[j + 1] \in Byte
  OBVIOUS
<1> DEFINE a == SubSeq(list, 1, j)
           b == SubSeq(list, j + 2, Len(list))
<1>2. a \in Seq(Byte) /\ Len(a) = j
  BY <1>1, SubSeqProperties
<1>3. b \in Seq(Byte) /\ Len(b) = Len(list) - j - 1
  BY <1>1, SubSeqProperties
<1>4. RemoveAt(list, j + 1) = a \o b
  <2>1. (j + 1) - 1 = j /\ (j + 1) + 1 = j + 2
    OBVIOUS
  <2>. QED
    BY <2>1 DEF RemoveAt
<1> HIDE DEF a, b
<1>5. a \o b \in Seq(Byte) /\ Len(a \o b) = Len(list) - 1
  <2>1. a \o b \in Seq(Byte) /\ Len(a \o b) = Len(a) + Len(b)
    BY <1>2, <1>3, ConcatProperties
  <2>. QED
    BY <1>1, <1>2, <1>3, <2>1
<1>6. <<list[j + 1]>> \in Seq(Byte) /\ Len(<<list[j + 1]>>) = 1
  BY <1>1
<1>7. MoveToFront(list, j) = <<list[j + 1]>> \o (a \o b)
  BY <1>4 DEF MoveToFront
<1> DEFINE c == a \o b
           d == <<list[j + 1]>>
<1>8. c \in Seq(Byte) /\ d \in Seq(Byte) /\ Len(c) = Len(list) - 1 /\ Len(d) = 1
  BY <1>5, <1>6
<1> HIDE DEF c, d
<1>9. d \o c \in Seq(Byte) /\ Len(d \o c) = Len(d) + Len(c)
  BY <1>8, ConcatProperties
<1>. QED
  BY <1>1, <1>7, <1>8, <1>9 DEF c, d


\* One symbol of the MTF loop of BZ2_decompress keeps the list, the run and the
\* block well formed, and the end-of-block symbol leaves a vector tt to walk.
LEMMA SymbolStep ==
  ASSUME ReaderInv, Symbol
  PROVE  ReaderInv'
<1>0. /\ rpc = "decompress" /\ dstate = "mtf" /\ Take /\ header' = header
  BY DEF Symbol, Decompress
<1>1. PICK v \in -1..(Cardinality(header.inUse) + 1) :
        /\ Read(v)
        /\ CASE v = -1 -> UNCHANGED <<dstate, decoding, walk, crcs>> /\ Leave("DATA_ERROR")
             [] v \in {BZ_RUNA, BZ_RUNB} -> RunDigit(v)
             [] v = Cardinality(header.inUse) + 1 -> EndOfBlock
             [] OTHER -> Literal(v)
  BY DEF Symbol
<1>i. InputInv /\ EndInv /\ DecodeInv
  BY DEF ReaderInv
<1>2. fault' = fault \/ (fault # "more" /\ fault' # "more")
  BY <1>1 DEF Read, Intact
<1>3. InputInv'
  BY <1>0, <1>2, <1>i, Taken
<1>d. /\ header.origPtr \in Nat /\ header.inUse \in (SUBSET Byte) \ {{}}
      /\ yy \in Seq(Byte) /\ Len(yy) = Cardinality(header.inUse)
      /\ column \in Seq(Byte) /\ N \in Nat /\ es \in Int /\ es >= -1
  BY <1>0, <1>i DEF DecodeInv
<1>c. Cardinality(header.inUse) \in Nat /\ Cardinality(header.inUse) > 0
  BY <1>d, UsedCount
<1>e. ASSUME rpc' = "idle" \/ rpc' = rpc, verdict' = "DATA_ERROR" \/ verdict' = verdict PROVE EndInv'
  <2>1. verdict # "end"
    BY <1>0, <1>i DEF EndInv
  <2>. QED
    BY <1>0, <1>e, <2>1 DEF EndInv
<1>f. ASSUME UNCHANGED <<dstate, yy, column>>, N' \in Nat, es' \in Int, es' >= -1 PROVE DecodeInv' /\ WalkInv'
  BY <1>0, <1>d, <1>f DEF DecodeInv, WalkInv
<1>4. CASE v = -1
  <2>1. UNCHANGED <<dstate, decoding, walk, crcs>> /\ Leave("DATA_ERROR")
    BY <1>1, <1>4, <1>c DEF BZ_RUNA, BZ_RUNB
  <2>. QED
    BY <1>3, <1>d, <1>e, <1>f, <2>1 DEF Leave, decoding, ReaderInv
<1>5. CASE v \in {BZ_RUNA, BZ_RUNB}
  <2>1. RunDigit(v)
    BY <1>1, <1>5, <1>c DEF BZ_RUNA, BZ_RUNB
  <2>2. EndInv'
    BY <1>e, <2>1 DEF RunDigit, Leave, Stay, client
  <2>3. N' \in Nat /\ es' \in Int /\ es' >= -1
    <3>1. CASE UNCHANGED <<es, N>>
      BY <1>d, <3>1
    <3>2. CASE (es' = es + 1 * N \/ es' = es + 2 * N) /\ N' = 2 * N
      BY <1>d, <3>2
    <3>. QED
      BY <2>1, <3>1, <3>2 DEF RunDigit
  <2>4. UNCHANGED <<dstate, yy, column>>
    BY <2>1 DEF RunDigit
  <2>. QED
    BY <1>3, <1>f, <2>2, <2>3, <2>4 DEF ReaderInv
<1>6. CASE v = Cardinality(header.inUse) + 1 /\ v \notin {BZ_RUNA, BZ_RUNB}
  <2>1. EndOfBlock
    BY <1>1, <1>6, <1>c
  <2> DEFINE vec == InverseVector(WithRun)
             p0 == vec[header.origPtr].next
  <2>2. CASE Len(WithRun) > BlockSize \/ header.origPtr >= Len(WithRun)
    <3>1. UNCHANGED <<dstate, decoding, walk, crcs>> /\ Leave("DATA_ERROR")
      BY <2>1, <2>2 DEF EndOfBlock
    <3>. QED
      BY <1>3, <1>d, <1>e, <1>f, <3>1 DEF Leave, decoding, ReaderInv
  <2>3. CASE ~(Len(WithRun) > BlockSize \/ header.origPtr >= Len(WithRun))
    <3>1. /\ column' = WithRun /\ tt' = vec /\ tPos' = vec[p0].next
          /\ dstate' = "output" /\ Stay
      BY <2>1, <2>3 DEF EndOfBlock
    <3>2. WithRun \in Seq(Byte)
      BY <1>0, <1>i, WithRunType
    <3>3. WithRun \in Seq(Int) /\ Len(WithRun) \in Nat
      <4>1. Byte \subseteq Int
        BY CompressAssumption DEF Byte
      <4> DEFINE w == WithRun
      <4>2. w \in Seq(Byte)
        BY <3>2
      <4> HIDE DEF w
      <4>3. w \in Seq(Int)
        BY <4>1, <4>2, SeqMonotonic
      <4>4. Len(w) \in Nat
        BY <4>2
      <4>. QED
        BY <4>3, <4>4 DEF w
    <3> DEFINE D == 0..(Len(WithRun) - 1)
    <3>4. header.origPtr \in D
      BY <1>d, <2>3, <3>3
    <3>5. DOMAIN vec = D /\ \A p \in D : vec[p].next \in D
      BY <3>3, <3>4, InverseInside
    <3>6. Len(column') \in Nat /\ D = 0..(Len(column') - 1)
      BY <3>1, <3>3
    <3> HIDE DEF D, vec
    <3>7. p0 \in D /\ vec[p0].next \in D
      BY <3>4, <3>5
    <3>8. WalkInv'
      BY <3>1, <3>5, <3>6, <3>7 DEF WalkInv
    <3>9. DecodeInv'
      BY <3>1 DEF DecodeInv
    <3>10. EndInv'
      BY <1>e, <3>1 DEF Stay, client
    <3>. QED
      BY <1>3, <3>8, <3>9, <3>10 DEF ReaderInv
  <2>. QED
    BY <2>2, <2>3
<1>7. CASE v # -1 /\ v \notin {BZ_RUNA, BZ_RUNB} /\ v # Cardinality(header.inUse) + 1
  <2>1. Literal(v)
    BY <1>1, <1>7
  <2>0. EndInv'
    BY <1>e, <2>1 DEF Literal, Leave, Stay, client
  <2>2. CASE Len(WithRun) >= BlockSize
    <3>1. UNCHANGED <<es, N, yy, column, dstate>>
      BY <2>1, <2>2 DEF Literal
    <3>. QED
      BY <1>3, <1>d, <1>f, <2>0, <3>1 DEF ReaderInv
  <2>3. CASE ~(Len(WithRun) >= BlockSize)
    <3>1. /\ column' = Append(WithRun, yy[v]) /\ yy' = MoveToFront(yy, v - 1)
          /\ es' = -1 /\ N' = 1 /\ dstate' = dstate
      BY <2>1, <2>3 DEF Literal
    <3>2. v \in 2..Len(yy)
      BY <1>7, <1>c, <1>d DEF BZ_RUNA, BZ_RUNB
    <3>3. yy[v] \in Byte /\ v - 1 \in Nat /\ v - 1 < Len(yy)
      <4>1. v \in 1..Len(yy) /\ v - 1 \in Nat /\ v - 1 < Len(yy)
        BY <1>c, <1>d, <3>2
      <4>. QED
        BY <1>d, <4>1
    <3>4. yy' \in Seq(Byte) /\ Len(yy') = Len(yy)
      BY <1>d, <3>1, <3>3, MovedToFront
    <3>5. column' \in Seq(Byte)
      <4> DEFINE w == WithRun
      <4>1. w \in Seq(Byte)
        BY <1>0, <1>i, WithRunType
      <4>2. column' = Append(w, yy[v])
        BY <3>1
      <4> HIDE DEF w
      <4>. QED
        BY <3>3, <4>1, <4>2
    <3>6. DecodeInv'
      BY <1>0, <1>d, <3>1, <3>4, <3>5 DEF DecodeInv
    <3>7. WalkInv'
      BY <1>0, <3>1 DEF WalkInv
    <3>. QED
      BY <1>3, <2>0, <3>6, <3>7 DEF ReaderInv
  <2>. QED
    BY <2>2, <2>3
<1>. QED
  BY <1>4, <1>5, <1>6, <1>7

\* BZ2_bzRead fills its buffer from the file; the whole of the input stays as
\* it was.
LEMMA FillInput ==
  ASSUME InputInv, Fill
  PROVE  InputInv'
<1>i. IsSeq(ibuf) /\ IsSeq(unread) /\ Sound(ibuf) /\ Sound(unread) /\ EndsRight(ibuf \o unread, fault)
  BY DEF InputInv
<1>1. CASE UNCHANGED <<ibuf, unread, fault>>
  <2>1. ibuf' = ibuf /\ unread' = unread /\ fault' = fault
    BY <1>1
  <2>2. IsSeq(ibuf') /\ IsSeq(unread') /\ Sound(ibuf') /\ Sound(unread') /\ EndsRight(ibuf' \o unread', fault')
    BY <1>i, <2>1
  <2>. QED
    BY <2>2 DEF InputInv
<1>2. CASE ~(ibuf # << >> \/ unread = << >>)
  <2> DEFINE R == Range(unread)
             n == IF Len(unread) < BufLen THEN Len(unread) ELSE BufLen
  <2>1. unread \in Seq(R) /\ Len(unread) \in Nat
    BY <1>i DEF IsSeq
  <2> HIDE DEF R
  <2>2. n \in Nat /\ n <= Len(unread)
    BY <2>1, CompressAssumption
  <2>3. ibuf \o unread = unread
    <3>1. ibuf = << >>
      BY <1>2
    <3>. QED
      BY <2>1, <3>1, ConcatEmptySeq
  <2>4. EndsRight(unread, fault)
    BY <1>i, <2>3
  <2>f. \/ ibuf' = SubSeq(unread, 1, n) /\ unread' = SubSeq(unread, n + 1, Len(unread)) /\ fault' = fault
        \/ /\ \E m \in 0..(n - 1) : ibuf' = SubSeq(unread, 1, m)
           /\ unread' = << >> /\ fault = "none" /\ fault' = "cut"
    BY <1>2 DEF Fill, Intact
  <2> HIDE DEF n
  <2>5. CASE ibuf' = SubSeq(unread, 1, n) /\ unread' = SubSeq(unread, n + 1, Len(unread)) /\ fault' = fault
    <3>1. IsSeq(ibuf') /\ IsSeq(unread')
      BY <1>i, <2>2, <2>5, PartsAreSeq
    <3>2. Sound(ibuf') /\ Sound(unread')
      <4>1. 1 \in Nat \ {0} /\ n + 1 \in Nat \ {0} /\ Len(unread) <= Len(unread)
        BY <2>1, <2>2
      <4>. QED
        BY <1>i, <2>1, <2>2, <2>5, <4>1, PartTokens
    <3>3. SubSeq(unread, 1, n) \o SubSeq(unread, n + 1, Len(unread)) = unread
      <4>1. 1 \in 1..(Len(unread) + 1) /\ n \in (1 - 1)..Len(unread) /\ Len(unread) \in n..Len(unread)
        BY <2>1, <2>2
      <4>2. SubSeq(unread, 1, n) \o SubSeq(unread, n + 1, Len(unread)) = SubSeq(unread, 1, Len(unread))
        BY <2>1, <4>1, ConcatAdjacentSubSeq, Zenon
      <4>. QED
        BY <2>1, <4>2, SubSeqFull
    <3>4. EndsRight(ibuf' \o unread', fault')
      BY <2>4, <2>5, <3>3
    <3>. QED
      BY <3>1, <3>2, <3>4 DEF InputInv
  <2>6. ASSUME NEW m \in 0..(n - 1), ibuf' = SubSeq(unread, 1, m), unread' = << >>,
               fault = "none", fault' = "cut"
        PROVE  InputInv'
    <3>0. m \in Nat /\ m < Len(unread) /\ 1 \in Nat \ {0}
      BY <2>1, <2>2
    <3>1. IsSeq(ibuf') /\ Sound(ibuf')
      BY <1>i, <2>1, <2>6, <3>0, PartsAreSeq, PartTokens
    <3>2. IsSeq(unread') /\ Sound(unread')
      BY <2>6, EmptyIsSeq, FewTokens
    <3>3. ibuf' \o unread' = ibuf'
      BY <2>6, <3>1, <3>2, JoinedIsSeq
    <3>4. Len(ibuf') = m /\ \A k \in 1..m : ibuf'[k] = unread[k]
      BY <2>1, <2>6, <3>0, SubSeqProperties
    <3>5. \A k \in 1..m : unread[k].k # "end"
      BY <2>1, <2>4, <2>6, <3>0 DEF EndsRight
    <3>6. EndsRight(ibuf', fault')
      BY <3>4, <3>5 DEF EndsRight
    <3>. QED
      BY <3>1, <3>2, <3>3, <3>6 DEF InputInv
  <2>. QED
    BY <2>f, <2>5, <2>6
<1>. QED
  BY <1>1, <1>2 DEF Fill

\* BZ2_bzReadOpen hands the reader a file whose trailer is in its place.
LEMMA OpenInput ==
  ASSUME WriterInv, TokensInv, EndInv, BZ2_bzReadOpen
  PROVE  InputInv'
<1>1. rpc = "shut" /\ ibuf = << >> /\ fault = "none" /\ ibuf' = ibuf
  BY DEF BZ2_bzReadOpen, EndInv
<1>2. IsSeq(file) /\ Sound(file) /\ OnlyLast(file)
  BY DEF WriterInv, StreamInv, TokensInv
<1>3. IsSeq(ibuf') /\ Sound(ibuf')
  BY <1>1, EmptyIsSeq, FewTokens
<1>4. \A s : IsSeq(s) => ibuf' \o s = s
  <2> TAKE s
  <2> HAVE IsSeq(s)
  <2>1. s \in Seq(Range(s))
    BY DEF IsSeq
  <2>2. << >> \o s = s
    BY <2>1, ConcatEmptySeq
  <2>. QED
    BY <1>1, <2>2
<1>5. CASE unread' = file /\ fault' = fault
  <2>1. EndsRight(file, fault)
    BY <1>1, <1>2 DEF OnlyLast, EndsRight
  <2>2. ibuf' \o unread' = file
    BY <1>2, <1>4, <1>5
  <2>3. EndsRight(ibuf' \o unread', fault') /\ IsSeq(unread') /\ Sound(unread')
    BY <1>2, <1>5, <2>1, <2>2
  <2>. QED
    BY <1>3, <2>3 DEF InputInv
<1>6. CASE unread' = Append(file, Junk) /\ fault' = "more"
  <2> DEFINE A == Range(file) \cup {Junk}
             u == Append(file, Junk)
  <2>0. Junk.k = "junk"
    BY DEF Junk
  <2>1. Range(file) \subseteq A /\ Junk \in A
    OBVIOUS
  <2> HIDE DEF A
  <2>2. file \in Seq(A)
    BY <1>2, <2>1, SeqMonotonic DEF IsSeq
  <2>3. /\ u \in Seq(A) /\ Len(file) \in Nat /\ Len(u) = Len(file) + 1
        /\ \A n \in 1..Len(file) : u[n] = file[n]
        /\ u[Len(u)] = Junk
    BY <2>1, <2>2, AppendProperties
  <2> HIDE DEF u
  <2>4. IsSeq(u)
    BY <2>3, SeqIsSeq
  <2>5. \A n \in 1..Len(u) : n \in 1..Len(file) \/ n = Len(u)
    BY <2>3
  <2>6. Sound(u)
    BY <1>2, <2>0, <2>3, <2>5 DEF Sound
  <2>7. EndsRight(u, "more")
    <3> SUFFICES ASSUME NEW n \in 1..Len(u), u[n].k = "end" PROVE n = Len(u) - 1
      BY <2>3 DEF EndsRight
    <3>1. n \in 1..Len(file) /\ file[n].k = "end"
      BY <2>0, <2>3, <2>5
    <3>2. n = Len(file)
      BY <1>2, <3>1 DEF OnlyLast
    <3>. QED
      BY <2>3, <3>2
  <2>8. unread' = u /\ ibuf' \o unread' = u
    BY <1>4, <1>6, <2>4 DEF u
  <2>9. EndsRight(ibuf' \o unread', fault') /\ IsSeq(unread') /\ Sound(unread')
    BY <1>6, <2>4, <2>6, <2>7, <2>8
  <2>. QED
    BY <1>3, <2>9 DEF InputInv
<1>. QED
  BY <1>5, <1>6 DEF BZ2_bzReadOpen

\* Every step keeps the reader inside its input and its block.
LEMMA ReaderStepInv == WriterInv /\ TokensInv /\ ReaderInv /\ [Next]_vars => ReaderInv'
<1> SUFFICES ASSUME WriterInv, TokensInv, ReaderInv, [Next]_vars PROVE ReaderInv'
  OBVIOUS
<1>i. InputInv /\ EndInv /\ DecodeInv /\ WalkInv
  BY DEF ReaderInv
<1>in. ASSUME UNCHANGED <<ibuf, unread, fault>> PROVE InputInv'
  <2>1. ibuf' = ibuf /\ unread' = unread /\ fault' = fault
    BY <1>in
  <2>. QED
    BY <1>i, <2>1 DEF InputInv, EndsRight, IsSeq, Sound
<1>en. ASSUME rpc \notin {"shut", "idle"}, rpc' # "shut", verdict' # "end" \/ verdict' = verdict PROVE EndInv'
  BY <1>i, <1>en DEF EndInv
<1>de. ASSUME UNCHANGED <<dstate, header, decoding>> PROVE DecodeInv'
  BY <1>i, <1>de DEF DecodeInv, decoding
<1>wa. ASSUME UNCHANGED <<dstate, decoding, walk>> PROVE WalkInv'
  BY <1>i, <1>wa DEF WalkInv, decoding, walk
<1>1. CASE BZ2_bzReadOpen
  <2>1. InputInv'
    BY <1>1, <1>i, OpenInput
  <2>2. EndInv'
    BY <1>1, <1>i DEF BZ2_bzReadOpen, EndInv, client
  <2>3. DecodeInv' /\ WalkInv'
    BY <1>1, <1>de, <1>wa DEF BZ2_bzReadOpen
  <2>. QED
    BY <2>1, <2>2, <2>3 DEF ReaderInv
<1>2. ASSUME NEW n \in ReadLens, BZ2_bzRead(n) PROVE ReaderInv'
  <2>1. InputInv'
    BY <1>2, <1>in DEF BZ2_bzRead
  <2>2. EndInv'
    BY <1>2, <1>i DEF BZ2_bzRead, EndInv
  <2>3. DecodeInv' /\ WalkInv'
    BY <1>2, <1>de, <1>wa DEF BZ2_bzRead
  <2>. QED
    BY <2>1, <2>2, <2>3 DEF ReaderInv
<1>3. CASE Fill
  <2>1. InputInv'
    BY <1>3, <1>i, FillInput
  <2>2. EndInv'
    BY <1>3, <1>en DEF Fill, client
  <2>3. DecodeInv' /\ WalkInv'
    BY <1>3, <1>de, <1>wa DEF Fill
  <2>. QED
    BY <2>1, <2>2, <2>3 DEF ReaderInv
<1>4. CASE Returns
  <2>1. InputInv'
    BY <1>4, <1>in DEF Returns
  <2>2. EndInv'
    BY <1>4, <1>en DEF Returns
  <2>3. DecodeInv' /\ WalkInv'
    BY <1>4, <1>de, <1>wa DEF Returns
  <2>. QED
    BY <2>1, <2>2, <2>3 DEF ReaderInv
<1>5. CASE NeedInput \/ NeedSpace
  <2>1. InputInv'
    BY <1>5, <1>in DEF NeedInput, NeedSpace
  <2>2. EndInv'
    BY <1>5, <1>en DEF NeedInput, NeedSpace, Decompress, PutOut, client
  <2>3. DecodeInv' /\ WalkInv'
    BY <1>5, <1>de, <1>wa DEF NeedInput, NeedSpace
  <2>. QED
    BY <2>1, <2>2, <2>3 DEF ReaderInv
<1>6. CASE Magic
  <2>0. rpc = "decompress" /\ dstate = "magic" /\ Take /\ fault' = fault
    BY <1>6 DEF Magic, Decompress
  <2>1. InputInv'
    BY <1>i, <2>0, Taken
  <2>2. EndInv'
    BY <1>6, <1>en, <2>0 DEF Magic, Leave, Stay, client
  <2>3. dstate' \in {"magic", "blkhdr"}
    BY <1>6, <2>0 DEF Magic
  <2>. QED
    BY <2>1, <2>2, <2>3 DEF ReaderInv, DecodeInv, WalkInv
<1>7. CASE BlockHeader
  <2>0. rpc = "decompress" /\ dstate = "blkhdr" /\ Take /\ fault' = fault
    BY <1>7 DEF BlockHeader, Decompress
  <2>1. /\ InputInv'
        /\ Head(ibuf).k = "blk" =>
             Head(ibuf).origPtr \in Nat /\ Head(ibuf).inUse \in (SUBSET Byte) \ {{}}
        /\ Head(ibuf).k = "end" =>
              ibuf' \o unread' = IF fault' = "more" THEN <<Junk>> ELSE << >>
    BY <1>i, <2>0, Taken
  <2>2. CASE Head(ibuf).k = "blk"
    <3>1. /\ header' = Head(ibuf) /\ dstate' = "mtf" /\ es' = -1 /\ N' = 1
          /\ yy' = makeMaps(Head(ibuf).inUse) /\ column' = << >> /\ Stay
      BY <1>7, <2>2 DEF BlockHeader
    <3>2. EndInv'
      BY <1>en, <2>0, <3>1 DEF Stay, client
    <3>3. DecodeInv'
      <4> DEFINE U == Head(ibuf).inUse
      <4>1. U \in SUBSET Byte /\ U # {}
        BY <2>1, <2>2
      <4> HIDE DEF U
      <4>2. makeMaps(U) \in Seq(Byte) /\ Len(makeMaps(U)) = Cardinality(U)
        BY <4>1, MapsType
      <4>3. yy' \in Seq(Byte) /\ Len(yy') = Cardinality(header'.inUse)
        BY <3>1, <4>2 DEF U
      <4>4. column' \in Seq(Byte)
        BY <3>1, EmptySeq
      <4>. QED
        BY <2>1, <2>2, <3>1, <4>3, <4>4 DEF DecodeInv
    <3>4. WalkInv'
      BY <3>1 DEF WalkInv
    <3>. QED
      BY <2>1, <3>2, <3>3, <3>4 DEF ReaderInv
  <2>3. CASE Head(ibuf).k = "end"
    <3>1. /\ dstate' = "idle"
          /\ Leave(IF Head(ibuf).crc = calculatedCombinedCRC THEN "end" ELSE "DATA_ERROR")
      BY <1>7, <2>3 DEF BlockHeader
    <3>2. EndInv'
      BY <2>1, <2>3, <3>1 DEF EndInv, StopsAtTrailer, Leave
    <3>. QED
      BY <2>1, <3>1, <3>2 DEF ReaderInv, DecodeInv, WalkInv
  <2>4. CASE Head(ibuf).k \notin {"blk", "end"}
    <3>1. dstate' = dstate /\ Leave("DATA_ERROR")
      BY <1>7, <2>4 DEF BlockHeader
    <3>2. EndInv'
      BY <1>en, <2>0, <3>1 DEF Leave
    <3>. QED
      BY <2>0, <2>1, <3>1, <3>2 DEF ReaderInv, DecodeInv, WalkInv
  <2>. QED
    BY <2>2, <2>3, <2>4
<1>8. CASE Symbol
  BY <1>8, SymbolStep
<1>9. CASE Emit
  <2>1. InputInv'
    BY <1>9, <1>in DEF Emit
  <2>2. EndInv'
    BY <1>9, <1>en DEF Emit, PutOut, client
  <2>3. DecodeInv' /\ WalkInv'
    BY <1>9, <1>i, <1>de DEF Emit, WalkInv, decoding
  <2>. QED
    BY <2>1, <2>2, <2>3 DEF ReaderInv
<1>10. CASE StartRun
  <2>1. InputInv'
    BY <1>10, <1>in DEF StartRun
  <2>2. EndInv'
    BY <1>10, <1>en DEF StartRun, PutOut, client
  <2>3. DecodeInv'
    BY <1>10, <1>de DEF StartRun
  <2>4. /\ dstate = "output" /\ tPos' = NextRun.tPos
        /\ UNCHANGED <<dstate, column, tt>>
    BY <1>10 DEF StartRun, PutOut, decoding
  <2>5. NextRun.tPos \in DOMAIN tt
    <3> DEFINE D == DOMAIN tt
               a == tt[tPos]
               b == tt[a.next]
               c == tt[b.next]
               d == tt[c.next]
               e == tt[d.next]
    <3>1. tPos \in D /\ \A p \in D : tt[p].next \in D
      BY <1>i, <2>4 DEF WalkInv
    <3> HIDE DEF D
    <3>2. a.next \in D
      BY <3>1
    <3>3. b.next \in D
      BY <3>1, <3>2
    <3>4. c.next \in D
      BY <3>1, <3>3
    <3>5. d.next \in D
      BY <3>1, <3>4
    <3>6. e.next \in D
      BY <3>1, <3>5
    <3>7. NextRun.tPos \in {a.next, b.next, c.next, e.next}
      BY DEF NextRun
    <3> HIDE DEF a, b, c, d, e
    <3>8. NextRun.tPos \in D
      BY <3>2, <3>3, <3>4, <3>6, <3>7
    <3>. QED
      BY <3>8 DEF D
  <2>6. WalkInv'
    BY <1>i, <2>4, <2>5 DEF WalkInv
  <2>. QED
    BY <2>1, <2>2, <2>3, <2>6 DEF ReaderInv
<1>11. CASE RunOverEnd
  <2>1. InputInv'
    BY <1>11, <1>in DEF RunOverEnd
  <2>2. EndInv'
    BY <1>11, <1>en DEF RunOverEnd, PutOut, Leave
  <2>3. DecodeInv' /\ WalkInv'
    BY <1>11, <1>de, <1>wa DEF RunOverEnd
  <2>. QED
    BY <2>1, <2>2, <2>3 DEF ReaderInv
<1>12. CASE BlockOut
  <2>1. InputInv'
    BY <1>12, <1>in DEF BlockOut
  <2>2. EndInv'
    BY <1>12, <1>en DEF BlockOut, PutOut, Leave, Stay, client
  <2>3. DecodeInv' /\ WalkInv'
    <3>1. CASE UNCHANGED dstate
      BY <1>12, <1>de, <1>wa, <3>1 DEF BlockOut
    <3>2. CASE dstate' = "blkhdr"
      BY <3>2 DEF DecodeInv, WalkInv
    <3>. QED
      BY <1>12, <3>1, <3>2 DEF BlockOut
  <2>. QED
    BY <2>1, <2>2, <2>3 DEF ReaderInv
<1>13. CASE UNCHANGED readerVars
  <2>1. InputInv'
    BY <1>13, <1>in DEF readerVars
  <2>2. EndInv'
    BY <1>13, <1>i DEF readerVars, client, EndInv, StopsAtTrailer
  <2>3. DecodeInv' /\ WalkInv'
    BY <1>13, <1>de, <1>wa DEF readerVars
  <2>. QED
    BY <2>1, <2>2, <2>3 DEF ReaderInv
<1>. QED
  BY <1>1, <1>2, <1>3, <1>4, <1>5, <1>6, <1>7, <1>8, <1>9, <1>10, <1>11, <1>12, <1>13
  DEF Next, ReaderNext, ReaderStep, vars

---------------------------------------------------------------------------
\* The inductive invariant of the writer and the reader together.
StreamOK == WriterInv /\ TokensInv /\ ReaderInv

\* The writer and the reader start well.
LEMMA StartsOK == WriterInit => Fits /\ WriterInv /\ TokensInv
<1> SUFFICES ASSUME WriterInit PROVE Fits /\ WriterInv /\ TokensInv
  OBVIOUS
<1>1. Fits
  <2>1. nblockMAX \in Nat /\ nblockMAX > 0 /\ MaxRun \in Nat
    BY CompressAssumption DEF nblockMAX
  <2>2. block \in Seq(Byte) /\ Len(block) = 0
    BY DEF WriterInit
  <2> QED
    BY <2>1, <2>2 DEF WriterInit, Fits, RunOK, Room, BlockFits, Full
<1>2. WriterInv
  BY <1>1, WriterStart DEF WriterInv
<1>3. TokensInv
  BY FewTokens DEF WriterInit, TokensInv
<1>. QED
  BY <1>1, <1>2, <1>3

\* The invariant of the writer and the reader together.
LEMMA StreamCorrect == Spec => []StreamOK
<1>1. Init => StreamOK
  <2> SUFFICES ASSUME Init PROVE StreamOK
    OBVIOUS
  <2>1. WriterInv /\ TokensInv
    BY StartsOK DEF Init
  <2>2. InputInv
    <3>1. ibuf = << >> /\ unread = << >>
      BY DEF Init, ReaderInit
    <3>2. IsSeq(ibuf) /\ IsSeq(unread) /\ Sound(ibuf) /\ Sound(unread)
      BY <3>1, EmptyIsSeq, FewTokens
    <3>3. Len(ibuf \o unread) = 0
      BY <3>1
    <3>. QED
      BY <3>2, <3>3 DEF InputInv, EndsRight
  <2>3. EndInv /\ DecodeInv /\ WalkInv
    BY DEF Init, ReaderInit, EndInv, DecodeInv, WalkInv
  <2>. QED
    BY <2>1, <2>2, <2>3 DEF StreamOK, ReaderInv
<1>2. StreamOK /\ [Next]_vars => StreamOK'
  <2> SUFFICES ASSUME StreamOK, [Next]_vars PROVE StreamOK'
    OBVIOUS
  <2>1. [WriterNext]_writerVars
    BY DEF Next, vars
  <2>2. WriterInv' /\ TokensInv'
    BY <2>1, WriterStep, TokensStep DEF StreamOK
  <2>3. ReaderInv'
    BY ReaderStepInv DEF StreamOK
  <2>. QED
    BY <2>2, <2>3 DEF StreamOK
<1>. QED
  BY <1>1, <1>2, PTL DEF Spec

\* No legal sequence of calls is refused: BZ2_bzCompress never answers
\* BZ_PARAM_ERROR or BZ_SEQUENCE_ERROR, because every pass of handle_compress
\* makes progress whatever earlier calls have left in the state.
THEOREM NeverRefused == WriterSpec => []NoCallRefused
<1>1. WriterInit => WriterInv
  BY StartsOK
<1>2. WriterInv => NoCallRefused
  <2> SUFFICES ASSUME WriterInv, pc = "return" PROVE Returned \notin {"PARAM_ERROR", "SEQUENCE_ERROR"}
    BY DEF NoCallRefused
  <2>1. mode \in {"running", "flushing", "finishing"} /\ (progress \/ mode = "flushing")
    BY DEF WriterInv, CallInv, ProgressInv
  <2>. QED
    BY <2>1 DEF Returned
<1>. QED
  BY <1>1, <1>2, WriterStep, PTL DEF WriterSpec

\* A stream BZ2_bzWriteClose has closed without an error ends in its trailer,
\* whatever block was still in the output when BZ_FINISH came.
THEOREM TrailerWritten == WriterSpec => []ClosedHasTrailer
<1>1. WriterInit => WriterInv
  BY StartsOK
<1>2. WriterInv => ClosedHasTrailer
  BY DEF WriterInv, TrailerInv
<1>. QED
  BY <1>1, <1>2, WriterStep, PTL DEF WriterSpec

\* BZ2_bzRead that answers BZ_STREAM_END has taken everything up to the trailer
\* and nothing behind it: what follows the stream is left for
\* BZ2_bzReadGetUnused.
THEOREM StopsCorrect == Spec => []StopsAtTrailer
<1>1. StreamOK => StopsAtTrailer
  BY DEF StreamOK, ReaderInv, EndInv, StopsAtTrailer
<1>. QED
  BY <1>1, StreamCorrect, PTL

\* unRLE_obuf_to_output_FAST never leaves the block: tPos and every entry of tt
\* are places of the block that is put out, even when a symbol was read as
\* another one.
THEOREM WalkCorrect == Spec => []WalkInsideBlock
<1>1. StreamOK => WalkInsideBlock
  BY DEF StreamOK, ReaderInv, WalkInv, WalkInsideBlock
<1>. QED
  BY <1>1, StreamCorrect, PTL

============================================================================
