--------------------------- MODULE DeliveryProofs ---------------------------
(***************************************************************************)
(* Proofs about the two ways in which code reaches the device: the dex     *)
(* shell (ShellApplication) and the incremental update (BsPatch).          *)
(*                                                                         *)
(* The shell.  For any APK and any number of updates: as long as no first  *)
(* start was cut short, every start loads the whole application, or        *)
(* nothing; and what has been decrypted is never touched again.            *)
(*                                                                         *)
(* The update.  For any old file, any patch and any width of a long,       *)
(* executePatch leaves its loop with every byte set, and with the file the *)
(* triples mean, which is installed, if the old file was read to its end   *)
(* and no number folded (Clean).  PatchInv says where the streams and both *)
(* files then stand (Sums), and that the bytes so far are right for the    *)
(* triples so far (Bytes).  That a byte keeps its *)
(* meaning while triples are added (ByteStays) rests on which triple it    *)
(* belongs to, hence on sums over a prefix of the triples: SumTo is a      *)
(* recursive function, and what it computes is shown by induction.         *)
(***************************************************************************)
EXTENDS ShellApplication, BsPatch, SequenceTheorems, WellFoundedInduction, TLAPS

(* Type correctness of the shell and its directory.                        *)
LEMMA TypeInductive == TypeOK /\ [Next]_vars => TypeOK'
<1> SUFFICES ASSUME TypeOK, [Next]_vars PROVE TypeOK'
  OBVIOUS
<1> USE DEF TypeOK, Contents, Entries
<1>1. CASE UNCHANGED vars
  BY <1>1 DEF vars
<1>2. CASE Start \/ Exists \/ MakeDirectory \/ Update
  BY <1>2, ShellAssumption DEF Start, Exists, MakeDirectory, Update
<1>3. ASSUME NEW e \in Entries, UnzipOpens(e) \/ DecryptOpens(e) PROVE TypeOK'
  BY <1>3 DEF UnzipOpens, DecryptOpens
<1>4. CASE UnzipCopies
  BY <1>4 DEF UnzipCopies, Packed
<1>5. CASE DecryptWrites \/ DecryptFails
  BY <1>5 DEF DecryptWrites, DecryptFails
<1>6. CASE UnzipEnds \/ DecryptEnds
  BY <1>6 DEF UnzipEnds, DecryptEnds
<1>7. CASE Install \/ InstallThrows \/ Kill
  BY <1>7 DEF Install, InstallThrows, Elements, Kill
<1> QED
  BY <1>1, <1>2, <1>3, <1>4, <1>5, <1>6, <1>7 DEF Next

(* Each step keeps InstallInv: unzipping turns todo entries into packed    *)
(* ones, decryption cipher files into plain ones, and only a step that     *)
(* sets disturbed leaves a phase before its todo is empty.                 *)
LEMMA InstallInductive == TypeOK /\ InstallInv /\ [Next]_vars => InstallInv'
<1> SUFFICES ASSUME TypeOK, InstallInv, [Next]_vars, ~disturbed'
             PROVE  RestsComplete' /\ UnzipInStep' /\ DecryptInStep'
  BY DEF InstallInv
<1>0. ~disturbed
  <2>1. CASE UNCHANGED vars
    BY <2>1 DEF vars
  <2>2. CASE Next
    BY <2>2 DEF Next, TypeOK, Start, Exists, MakeDirectory, Update, UnzipOpens,
        DecryptOpens, UnzipCopies, DecryptWrites, DecryptFails, UnzipEnds,
        DecryptEnds, Install, InstallThrows, Kill
  <2> QED BY <2>1, <2>2
<1>a. RestsComplete /\ UnzipInStep /\ DecryptInStep
  BY <1>0 DEF InstallInv
<1>b. file \in [Entries -> Contents] /\ todo \subseteq Entries
        /\ current \in Entries \cup {"none"} /\ Dexes \subseteq Entries
        /\ "none" \notin Entries
  BY ShellAssumption DEF TypeOK, Entries
<1> USE DEF RestsComplete, UnzipInStep, DecryptInStep, Complete
<1>1. CASE UNCHANGED vars
  BY <1>1, <1>a DEF vars, Packed
<1>2. CASE Start \/ Exists \/ Update
  BY <1>2, <1>a DEF Start, Exists, Update
<1>3. CASE MakeDirectory
  BY <1>3, <1>a, <1>b DEF MakeDirectory
<1>4. ASSUME NEW e \in Entries, UnzipOpens(e) PROVE UnzipInStep'
  BY <1>4, <1>a, <1>b DEF UnzipOpens, Packed
<1>5. ASSUME NEW e \in Entries, DecryptOpens(e) PROVE DecryptInStep'
  BY <1>5, <1>a, <1>b DEF DecryptOpens, Decrypt
<1>6. CASE UnzipCopies
  BY <1>6, <1>a, <1>b DEF UnzipCopies, Packed
<1>7. CASE UnzipEnds
  BY <1>7, <1>a, <1>b DEF UnzipEnds, Packed
<1>8. CASE DecryptWrites
  BY <1>8, <1>a, <1>b DEF DecryptWrites
<1>9. CASE DecryptFails
  BY <1>9 DEF DecryptFails
<1>10. CASE DecryptEnds
  BY <1>10, <1>a, <1>b DEF DecryptEnds
<1>11. CASE Install
  BY <1>11, <1>a, <1>b DEF Install, Elements, Entries
<1>12. CASE InstallThrows
  BY <1>12, <1>a DEF InstallThrows
<1>13. CASE Kill
  BY <1>13, <1>a DEF Kill, TypeOK
<1>14. ASSUME NEW e \in Entries, UnzipOpens(e) \/ DecryptOpens(e)
       PROVE  RestsComplete' /\ (UnzipInStep' \/ DecryptOpens(e)) /\ (DecryptInStep' \/ UnzipOpens(e))
  BY <1>14, <1>4, <1>5, <1>a DEF UnzipOpens, DecryptOpens
<1> QED
  BY <1>1, <1>2, <1>3, <1>4, <1>5, <1>6, <1>7, <1>8, <1>9, <1>10, <1>11, <1>12, <1>13, <1>14
     DEF Next, UnzipOpens, DecryptOpens

(* TypeOK holds throughout.                                                *)
THEOREM ShellTypeCorrect == Spec => []TypeOK
<1>1. Init => TypeOK
  <2> SUFFICES ASSUME Init PROVE TypeOK
    OBVIOUS
  <2>1. Versions \in Nat /\ 1 \in 1..Versions
    BY ShellAssumption
  <2>2. file \in [Entries -> Contents]
    BY DEF Init, Contents
  <2>3. apk \in 1..Versions /\ app \in 0..apk
    BY <2>1 DEF Init
  <2>4. /\ pc \in {"off", "start", "unzip", "decrypt", "load", "running", "bare"}
        /\ todo \subseteq Entries
        /\ current \in Entries \cup {"none"}
        /\ loaded \subseteq Dexes \cup {ClassesDex}
        /\ disturbed \in BOOLEAN
    BY DEF Init
  <2> QED
    BY <2>2, <2>3, <2>4 DEF TypeOK
<1> QED
  BY <1>1, TypeInductive, PTL DEF Spec

(* Every start that is not preceded by an interrupted one puts the whole   *)
(* application on the class path, or nothing at all where V19.install      *)
(* throws, however often it is killed and updated.                         *)
THEOREM UndisturbedCorrect == Spec => []UndisturbedLoadsAll
<1>1. Init => InstallInv
  BY DEF Init, InstallInv, RestsComplete, UnzipInStep, DecryptInStep
<1>2. InstallInv => UndisturbedLoadsAll
  BY DEF InstallInv, RestsComplete, UndisturbedLoadsAll
<1> QED
  BY <1>1, <1>2, InstallInductive, ShellTypeCorrect, PTL DEF Spec
-----------------------------------------------------------------------------
(* What is still to be written is not plain yet: a directory that does not *)
(* exist is empty, an entry to be unzipped is absent, a dex file is not    *)
(* plain before it is decrypted, and a file that is open is torn.          *)
NotYetPlain ==
    /\ app = 0 => pc \in {"off", "start"} /\ \A e \in Entries : file[e] = "absent"
    /\ pc = "unzip" => /\ \A e \in todo : file[e] = "absent"
                       /\ \A e \in Dexes : file[e] # "plain"
    /\ pc = "decrypt" => todo \subseteq Dexes /\ \A e \in todo : file[e] # "plain"
    /\ current # "none" => pc \in {"unzip", "decrypt"} /\ file[current] = "torn" /\ current \notin todo
    /\ current # "none" /\ pc = "decrypt" => current \in Dexes

(* Each step keeps NotYetPlain.                                            *)
LEMMA NotYetInductive == TypeOK /\ NotYetPlain /\ [Next]_vars => NotYetPlain'
<1> SUFFICES ASSUME TypeOK, NotYetPlain, [Next]_vars PROVE NotYetPlain'
  OBVIOUS
<1>b. /\ file \in [Entries -> Contents] /\ todo \subseteq Entries
      /\ current \in Entries \cup {"none"} /\ Dexes \subseteq Entries
      /\ "none" \notin Entries
  BY ShellAssumption DEF TypeOK, Entries
<1>c. apk # 0
  BY ShellAssumption DEF TypeOK
<1> USE DEF NotYetPlain
<1>1. CASE UNCHANGED vars
  BY <1>1 DEF vars
<1>2. CASE Start \/ Exists \/ Install \/ InstallThrows \/ Kill \/ Update
  BY <1>2 DEF Start, Exists, Install, InstallThrows, Kill, Update
<1>3. CASE MakeDirectory
  BY <1>3, <1>b, <1>c DEF MakeDirectory
<1>4. ASSUME NEW e \in Entries, UnzipOpens(e) PROVE NotYetPlain'
  BY <1>4, <1>b DEF UnzipOpens
<1>5. ASSUME NEW e \in Entries, DecryptOpens(e) PROVE NotYetPlain'
  BY <1>5, <1>b DEF DecryptOpens
<1>6. CASE UnzipCopies
  BY <1>6, <1>b DEF UnzipCopies, Packed
<1>7. CASE UnzipEnds
  BY <1>7, <1>b DEF UnzipEnds
<1>8. CASE DecryptWrites \/ DecryptFails \/ DecryptEnds
  BY <1>8, <1>b DEF DecryptWrites, DecryptFails, DecryptEnds
<1> QED
  BY <1>1, <1>2, <1>3, <1>4, <1>5, <1>6, <1>7, <1>8 DEF Next

(* Once all files are plain, no start, crash or update changes any of      *)
(* them: what unzipping and decryption write is never plain yet.           *)
THEOREM DecryptedStays == Spec => DecryptedStaysDecrypted
<1>1. Init => NotYetPlain
  BY ShellAssumption DEF Init, NotYetPlain
<1>2. TypeOK /\ NotYetPlain /\ [Next]_vars => [Complete => Complete']_vars
  <2> SUFFICES ASSUME TypeOK, NotYetPlain, Next, Complete PROVE Complete'
    BY DEF vars, Complete
  <2>b. /\ file \in [Entries -> Contents] /\ todo \subseteq Entries
        /\ current \in Entries \cup {"none"} /\ Dexes \subseteq Entries
        /\ "none" \notin Entries
    BY ShellAssumption DEF TypeOK, Entries
  <2> USE DEF Complete
  <2>1. CASE UNCHANGED file
    BY <2>1
  <2>2. ASSUME NEW e \in Entries, UnzipOpens(e) \/ DecryptOpens(e) PROVE FALSE
    BY <2>2, <2>b DEF UnzipOpens, DecryptOpens, NotYetPlain
  <2>3. CASE UnzipCopies \/ DecryptWrites
    BY <2>3, <2>b DEF UnzipCopies, DecryptWrites, NotYetPlain
  <2> QED
    BY <2>1, <2>2, <2>3 DEF Next, Start, Exists, MakeDirectory, Update, UnzipEnds,
       DecryptFails, DecryptEnds, Install, InstallThrows, Kill
<1> QED
  BY <1>1, <1>2, NotYetInductive, ShellTypeCorrect, PTL DEF Spec, DecryptedStaysDecrypted

-----------------------------------------------------------------------------
(* A set of naturals that is not empty has a least element.                *)
LEMMA LeastElement ==
  ASSUME NEW T \in SUBSET Nat, T # {}
  PROVE  \E m \in T : \A n \in T : m <= n
<1>1. IsWellFoundedOn(OpToRel(<, Nat), Nat)
  BY NatLessThanWellFounded
<1>2. PICK m \in T : \A y \in T : <<y, m>> \notin OpToRel(<, Nat)
  BY <1>1, WFMin
<1>3. \A y \in T : ~(y < m)
  BY <1>2 DEF OpToRel
<1>. QED
  BY <1>3

(* Induction, for a set in place of a predicate.                           *)
LEMMA SetInduction ==
  ASSUME NEW S, 0 \in S, \A n \in Nat : n \in S => n + 1 \in S
  PROVE  Nat \subseteq S
<1> DEFINE T == {n \in Nat : n \notin S}
<1>1. SUFFICES ASSUME T # {} PROVE FALSE
  OBVIOUS
<1>2. PICK m \in T : \A n \in T : m <= n
  BY <1>1, LeastElement
<1>3. m \in Nat /\ m # 0 /\ m \notin S
  BY <1>2
<1>4. m - 1 \in Nat /\ m - 1 \in S
  BY <1>2, <1>3
<1>. QED
  BY <1>3, <1>4

(* The recursive function of SumTo exists, and adds one number at a time.  *)
LEMMA SumSteps ==
  ASSUME NEW s \in Seq(Int)
  PROVE  /\ SumTo(s, 0) = 0
         /\ \A k \in 0..Len(s) : SumTo(s, k) \in Int
         /\ \A k \in 1..Len(s) : SumTo(s, k) = SumTo(s, k - 1) + s[k]
<1> DEFINE len == Len(s)
           Adds(g, m) == /\ g \in [0..m -> Int] /\ g[0] = 0
                         /\ \A j \in 1..m : g[j] = g[j - 1] + s[j]
           Done == {m \in Nat : m <= len => \E g : Adds(g, m)}
<1>0. len \in Nat /\ \A j \in 1..len : s[j] \in Int
  OBVIOUS
<1>1. 0 \in Done
  <2> DEFINE g == [j \in 0..0 |-> 0]
  <2>1. Adds(g, 0)
    OBVIOUS
  <2>. QED
    BY <2>1
<1>2. ASSUME NEW m \in Nat, m \in Done, m + 1 <= len PROVE \E h : Adds(h, m + 1)
  <2>1. PICK g : Adds(g, m)
    <3> HIDE DEF Adds
    <3>. QED
      BY <1>0, <1>2
  <2> DEFINE h == [j \in 0..(m + 1) |-> IF j = m + 1 THEN g[m] + s[m + 1] ELSE g[j]]
  <2>2. g[m] + s[m + 1] \in Int
    BY <1>0, <1>2, <2>1
  <2>3. h \in [0..(m + 1) -> Int] /\ h[0] = 0
    BY <2>1, <2>2
  <2>4. ASSUME NEW j \in 1..(m + 1) PROVE h[j] = h[j - 1] + s[j]
    <3>1. CASE j = m + 1
      <4>1. h[j] = g[m] + s[m + 1] /\ j - 1 = m /\ h[m] = g[m]
        BY <3>1
      <4>. QED
        BY <3>1, <4>1
    <3>2. CASE j \in 1..m
      <4>1. h[j] = g[j] /\ h[j - 1] = g[j - 1]
        BY <3>2
      <4>. QED
        BY <2>1, <3>2, <4>1
    <3>. QED
      BY <3>1, <3>2
  <2>5. Adds(h, m + 1)
    <3> HIDE DEF h
    <3>. QED
      BY <2>3, <2>4
  <2> HIDE DEF Adds, h
  <2>. QED
    BY <2>5
<1>3. PICK g : Adds(g, len)
  <2> HIDE DEF Adds
  <2>1. \A m \in Nat : m \in Done => m + 1 \in Done
    BY <1>2
  <2>2. Nat \subseteq Done
    <3> HIDE DEF Done
    <3>. QED
      BY <1>1, <2>1, SetInduction
  <2>. QED
    BY <1>0, <2>2
<1> DEFINE Eq(f) == f = [j \in 0..len |-> IF j = 0 THEN 0 ELSE f[j - 1] + s[j]]
           sum == CHOOSE f : Eq(f)
<1>4. Eq(g)
  <2>1. g = [j \in 0..len |-> g[j]]
    BY <1>3
  <2>2. \A j \in 0..len : g[j] = IF j = 0 THEN 0 ELSE g[j - 1] + s[j]
    BY <1>3
  <2> HIDE DEF len
  <2>. QED
    BY <2>1, <2>2
<1>5. Eq(sum)
  <2> HIDE DEF Eq
  <2>. QED
    BY <1>4
<1>6. \A k : SumTo(s, k) = sum[k]
  BY DEF SumTo
<1> HIDE DEF sum, len
<1>7. \A j \in 0..len : sum[j] = IF j = 0 THEN 0 ELSE sum[j - 1] + s[j]
  BY <1>5
<1>8. sum[0] = 0 /\ \A j \in 1..len : sum[j] = sum[j - 1] + s[j]
  BY <1>0, <1>7
<1> DEFINE Typed == {m \in Nat : m <= len => sum[m] \in Int}
<1>9. 0 \in Typed /\ \A m \in Nat : m \in Typed => m + 1 \in Typed
  <2>1. 0 \in Typed
    BY <1>8
  <2>2. ASSUME NEW m \in Nat, m \in Typed, m + 1 <= len PROVE sum[m + 1] \in Int
    <3>1. m + 1 \in 1..len /\ (m + 1) - 1 = m /\ sum[m] \in Int
      BY <1>0, <2>2
    <3>2. sum[m + 1] = sum[(m + 1) - 1] + s[m + 1]
      BY <1>8, <3>1
    <3>. QED
      BY <1>0, <3>1, <3>2
  <2>. QED
    BY <2>1, <2>2
<1>10. Nat \subseteq Typed
  <2> HIDE DEF Typed
  <2>. QED
    BY <1>9, SetInduction
<1>. QED
  BY <1>0, <1>6, <1>8, <1>10 DEF len

(* More numbers behind them do not change the sum of the first ones.       *)
LEMMA SumPrefix ==
  ASSUME NEW s \in Seq(Int), NEW w \in Seq(Int), Len(s) <= Len(w),
         \A j \in 1..Len(s) : w[j] = s[j]
  PROVE  \A k \in 0..Len(s) : SumTo(w, k) = SumTo(s, k)
<1> DEFINE Same == {m \in Nat : m <= Len(s) => SumTo(w, m) = SumTo(s, m)}
<1>0. Len(s) \in Nat /\ Len(w) \in Nat
  OBVIOUS
<1>1. 0 \in Same
  BY SumSteps
<1>2. ASSUME NEW m \in Nat, m \in Same, m + 1 <= Len(s) PROVE SumTo(w, m + 1) = SumTo(s, m + 1)
  <2>1. m + 1 \in 1..Len(s) /\ m + 1 \in 1..Len(w) /\ (m + 1) - 1 = m
    BY <1>0, <1>2
  <2>2. /\ SumTo(w, m + 1) = SumTo(w, (m + 1) - 1) + w[m + 1]
        /\ SumTo(s, m + 1) = SumTo(s, (m + 1) - 1) + s[m + 1]
    BY <2>1, SumSteps
  <2>3. SumTo(w, m) = SumTo(s, m)
    BY <1>0, <1>2
  <2>. QED
    BY <2>1, <2>2, <2>3
<1>3. Nat \subseteq Same
  <2>1. \A m \in Nat : m \in Same => m + 1 \in Same
    BY <1>2
  <2> HIDE DEF Same
  <2>. QED
    BY <1>1, <2>1, SetInduction
<1>. QED
  BY <1>0, <1>3

(* Sums of naturals grow.                                                  *)
LEMMA SumGrows ==
  ASSUME NEW s \in Seq(Int), \A j \in 1..Len(s) : s[j] >= 0,
         NEW i \in 0..Len(s), NEW k \in 0..Len(s), i <= k
  PROVE  SumTo(s, i) <= SumTo(s, k)
<1> DEFINE Above == {m \in Nat : i + m <= Len(s) => SumTo(s, i) <= SumTo(s, i + m)}
<1>0. Len(s) \in Nat /\ i \in Nat /\ i + 0 = i /\ SumTo(s, i) \in Int
  BY SumSteps
<1>1. 0 \in Above
  BY <1>0
<1>2. ASSUME NEW m \in Nat, m \in Above, i + (m + 1) <= Len(s)
      PROVE  SumTo(s, i) <= SumTo(s, i + (m + 1))
  <2> DEFINE p == i + (m + 1)
  <2>1. p \in 1..Len(s) /\ p - 1 = i + m /\ p - 1 \in 0..Len(s) /\ s[p] \in Int /\ s[p] >= 0
    BY <1>0, <1>2
  <2>2. SumTo(s, p) = SumTo(s, p - 1) + s[p] /\ SumTo(s, p - 1) \in Int
    BY <2>1, SumSteps
  <2>3. SumTo(s, i) <= SumTo(s, p - 1)
    BY <1>0, <1>2, <2>1
  <2> HIDE DEF p
  <2>4. SumTo(s, i) <= SumTo(s, p)
    BY <1>0, <2>1, <2>2, <2>3
  <2>. QED
    BY <2>4 DEF p
<1>3. Nat \subseteq Above
  <2>1. \A m \in Nat : m \in Above => m + 1 \in Above
    BY <1>2
  <2> HIDE DEF Above
  <2>. QED
    BY <1>1, <2>1, SetInduction
<1>4. k - i \in Nat /\ i + (k - i) = k
  BY <1>0
<1>5. k - i \in Above
  BY <1>3, <1>4
<1>. QED
  BY <1>0, <1>4, <1>5

----------------------------------------------------------------------------
(* A control triple whose lengths BZ2_bzRead has accepted.                 *)
IsTriple(t) == t \in Seq(Int) /\ Len(t) = 3 /\ t[1] >= 0 /\ t[2] >= 0
AreTriples(T) == T \in Seq(Seq(Int)) /\ \A j \in 1..Len(T) : IsTriple(T[j])

(* What each triple takes of the new file, of the old file and of the two  *)
(* streams, and where the k-th one has got.                                *)
News(T) == [j \in 1..Len(T) |-> T[j][1] + T[j][2]]
Olds(T) == [j \in 1..Len(T) |-> T[j][1] + T[j][3]]
Diffs(T) == [j \in 1..Len(T) |-> T[j][1]]
Extras(T) == [j \in 1..Len(T) |-> T[j][2]]

(* Byte n of the new file belongs to triple k.                             *)
Belongs(T, k, n) == SumTo(News(T), k - 1) < n /\ n <= SumTo(News(T), k)

(* The byte at place i of triple k, and byte n.                            *)
PlaceByte(T, D, E, k, i) ==
  IF i <= T[k][1]
  THEN (D[SumTo(Diffs(T), k - 1) + i] + At(Old, SumTo(Olds(T), k - 1) + i - 1)) % Base
  ELSE E[SumTo(Extras(T), k - 1) + i - T[k][1]]

ByteOf(T, D, E, n) ==
  LET k == CHOOSE j \in 1..Len(T) : Belongs(T, j, n)
  IN  PlaceByte(T, D, E, k, n - SumTo(News(T), k - 1))

(* NewByte is this for the patch that has been read.                       *)
LEMMA NewByteIs == \A n : NewByte(n) = ByteOf(triples, diffs, extras, n)
BY DEF NewByte, ByteOf, PlaceByte, Belongs, NewStart, OldStart, DiffStart, ExtraStart,
       News, Olds, Diffs, Extras

(* The numbers of the triples are integers, but for the seeks naturals.    *)
LEMMA Numbers ==
  ASSUME NEW T, AreTriples(T)
  PROVE  /\ Len(T) \in Nat
         /\ News(T) \in Seq(Int) /\ Len(News(T)) = Len(T)
         /\ Olds(T) \in Seq(Int) /\ Len(Olds(T)) = Len(T)
         /\ Diffs(T) \in Seq(Int) /\ Len(Diffs(T)) = Len(T)
         /\ Extras(T) \in Seq(Int) /\ Len(Extras(T)) = Len(T)
         /\ \A j \in 1..Len(T) :
              /\ T[j][1] \in Nat /\ T[j][2] \in Nat /\ T[j][3] \in Int
              /\ News(T)[j] = T[j][1] + T[j][2] /\ News(T)[j] >= 0
              /\ Olds(T)[j] = T[j][1] + T[j][3]
              /\ Diffs(T)[j] = T[j][1] /\ Diffs(T)[j] >= 0
              /\ Extras(T)[j] = T[j][2] /\ Extras(T)[j] >= 0
<1>1. Len(T) \in Nat
  BY DEF AreTriples
<1>2. \A j \in 1..Len(T) : T[j][1] \in Nat /\ T[j][2] \in Nat /\ T[j][3] \in Int
  <2> TAKE j \in 1..Len(T)
  <2>1. IsTriple(T[j])
    BY DEF AreTriples
  <2>. QED
    BY <2>1 DEF IsTriple
<1>3. News(T) \in [1..Len(T) -> Int] /\ Olds(T) \in [1..Len(T) -> Int]
  BY <1>2 DEF News, Olds
<1>4. Diffs(T) \in [1..Len(T) -> Int] /\ Extras(T) \in [1..Len(T) -> Int]
  BY <1>2 DEF Diffs, Extras
<1>5. /\ News(T) \in Seq(Int) /\ Len(News(T)) = Len(T)
      /\ Olds(T) \in Seq(Int) /\ Len(Olds(T)) = Len(T)
  BY <1>1, <1>3
<1>6. /\ Diffs(T) \in Seq(Int) /\ Len(Diffs(T)) = Len(T)
      /\ Extras(T) \in Seq(Int) /\ Len(Extras(T)) = Len(T)
  BY <1>1, <1>4
<1>7. ASSUME NEW j \in 1..Len(T)
      PROVE  /\ News(T)[j] = T[j][1] + T[j][2] /\ News(T)[j] >= 0
             /\ Olds(T)[j] = T[j][1] + T[j][3]
             /\ Diffs(T)[j] = T[j][1] /\ Diffs(T)[j] >= 0
             /\ Extras(T)[j] = T[j][2] /\ Extras(T)[j] >= 0
  BY <1>2 DEF News, Olds, Diffs, Extras
<1>. QED
  BY <1>1, <1>2, <1>5, <1>6, <1>7

(* A byte belongs to one triple.                                           *)
LEMMA BelongsToOne ==
  ASSUME NEW T, AreTriples(T), NEW n \in Int, NEW k \in 1..Len(T), Belongs(T, k, n)
  PROVE  (CHOOSE j \in 1..Len(T) : Belongs(T, j, n)) = k
<1> DEFINE S(j) == SumTo(News(T), j)
<1>0. Len(T) \in Nat /\ News(T) \in Seq(Int) /\ Len(News(T)) = Len(T)
  BY Numbers
<1>1. \A j \in 0..Len(T) : S(j) \in Int
  BY <1>0, SumSteps
<1>2. \A i, j \in 0..Len(T) : i <= j => S(i) <= S(j)
  <2>1. \A j \in 1..Len(News(T)) : News(T)[j] >= 0
    BY <1>0, Numbers
  <2>. QED
    BY <1>0, <2>1, SumGrows
<1>3. ASSUME NEW j \in 1..Len(T), Belongs(T, j, n) PROVE j = k
  <2>1. S(j - 1) < n /\ n <= S(j) /\ S(k - 1) < n /\ n <= S(k)
    BY <1>3 DEF Belongs
  <2>2. j - 1 \in 0..Len(T) /\ k - 1 \in 0..Len(T) /\ j \in 0..Len(T) /\ k \in 0..Len(T)
    BY <1>0
  <2> HIDE DEF S
  <2>3. S(j - 1) \in Int /\ S(j) \in Int /\ S(k - 1) \in Int /\ S(k) \in Int
    BY <1>1, <2>2
  <2>4. ~(j <= k - 1)
    <3>1. j <= k - 1 => S(j) <= S(k - 1)
      BY <1>2, <2>2
    <3>. QED
      BY <2>1, <2>3, <3>1
  <2>5. ~(k <= j - 1)
    <3>1. k <= j - 1 => S(k) <= S(j - 1)
      BY <1>2, <2>2
    <3>. QED
      BY <2>1, <2>3, <3>1
  <2>. QED
    BY <1>0, <2>4, <2>5
<1> HIDE DEF S
<1>. QED
  BY <1>3

(* Every byte that has been written belongs to some triple.                *)
LEMMA BelongsToSome ==
  ASSUME NEW T, AreTriples(T), NEW n \in 1..SumTo(News(T), Len(T))
  PROVE  \E k \in 1..Len(T) : Belongs(T, k, n)
<1> DEFINE S(j) == SumTo(News(T), j)
           Reach == {j \in 0..Len(T) : n <= S(j)}
<1>0. Len(T) \in Nat /\ News(T) \in Seq(Int) /\ Len(News(T)) = Len(T)
  BY Numbers
<1>1. S(0) = 0 /\ \A j \in 0..Len(T) : S(j) \in Int
  BY <1>0, SumSteps
<1>2. Len(T) \in Reach /\ Reach \in SUBSET Nat
  BY <1>0, <1>1
<1>3. PICK k \in Reach : \A j \in Reach : k <= j
  <2> HIDE DEF Reach
  <2>. QED
    BY <1>2, LeastElement
<1>4. k # 0 /\ k \in 1..Len(T)
  BY <1>0, <1>1, <1>3
<1>5. k - 1 \in 0..Len(T) /\ k - 1 \notin Reach
  BY <1>0, <1>3, <1>4
<1>6. S(k - 1) < n /\ n <= S(k)
  <2>1. ~(n <= S(k - 1)) /\ n <= S(k)
    BY <1>3, <1>5
  <2>2. S(k - 1) \in Int /\ n \in Int
    BY <1>1, <1>5
  <2> HIDE DEF S
  <2>. QED
    BY <2>1, <2>2
<1>. QED
  BY <1>4, <1>6 DEF Belongs

(* U goes on where T ends.                                                 *)
Extends(T, U) == Len(T) <= Len(U) /\ \A j \in 1..Len(T) : U[j] = T[j]

(* The first n elements of D and C are the same.                           *)
Agree(D, C, n) == \A i \in 1..n : D[i] = C[i]

(* Where the triples of T begin is the same in U.                          *)
LEMMA SameStarts ==
  ASSUME NEW T, NEW U, AreTriples(T), AreTriples(U), Extends(T, U), NEW k \in 0..Len(T)
  PROVE  /\ SumTo(News(U), k) = SumTo(News(T), k)
         /\ SumTo(Olds(U), k) = SumTo(Olds(T), k)
         /\ SumTo(Diffs(U), k) = SumTo(Diffs(T), k)
         /\ SumTo(Extras(U), k) = SumTo(Extras(T), k)
<1>1. Len(T) \in Nat /\ Len(U) \in Nat /\ Len(T) <= Len(U) /\ \A j \in 1..Len(T) : j \in 1..Len(U) /\ U[j] = T[j]
  BY Numbers DEF Extends
<1>2. /\ News(T) \in Seq(Int) /\ Len(News(T)) = Len(T) /\ News(U) \in Seq(Int) /\ Len(News(U)) = Len(U)
      /\ Olds(T) \in Seq(Int) /\ Len(Olds(T)) = Len(T) /\ Olds(U) \in Seq(Int) /\ Len(Olds(U)) = Len(U)
      /\ Diffs(T) \in Seq(Int) /\ Len(Diffs(T)) = Len(T)
      /\ Diffs(U) \in Seq(Int) /\ Len(Diffs(U)) = Len(U)
      /\ Extras(T) \in Seq(Int) /\ Len(Extras(T)) = Len(T)
      /\ Extras(U) \in Seq(Int) /\ Len(Extras(U)) = Len(U)
  BY Numbers
<1>3. \A j \in 1..Len(T) : News(U)[j] = News(T)[j] /\ Olds(U)[j] = Olds(T)[j]
  BY <1>1 DEF News, Olds
<1>4. \A j \in 1..Len(T) : Diffs(U)[j] = Diffs(T)[j] /\ Extras(U)[j] = Extras(T)[j]
  BY <1>1 DEF Diffs, Extras
<1>5. SumTo(News(U), k) = SumTo(News(T), k)
  <2>1. /\ Len(News(T)) <= Len(News(U)) /\ k \in 0..Len(News(T))
        /\ \A j \in 1..Len(News(T)) : News(U)[j] = News(T)[j]
    BY <1>1, <1>2, <1>3
  <2>. QED
    BY <1>2, <2>1, SumPrefix
<1>6. SumTo(Olds(U), k) = SumTo(Olds(T), k)
  <2>1. /\ Len(Olds(T)) <= Len(Olds(U)) /\ k \in 0..Len(Olds(T))
        /\ \A j \in 1..Len(Olds(T)) : Olds(U)[j] = Olds(T)[j]
    BY <1>1, <1>2, <1>3
  <2>. QED
    BY <1>2, <2>1, SumPrefix
<1>7. SumTo(Diffs(U), k) = SumTo(Diffs(T), k)
  <2>1. /\ Len(Diffs(T)) <= Len(Diffs(U)) /\ k \in 0..Len(Diffs(T))
        /\ \A j \in 1..Len(Diffs(T)) : Diffs(U)[j] = Diffs(T)[j]
    BY <1>1, <1>2, <1>4
  <2>. QED
    BY <1>2, <2>1, SumPrefix
<1>8. SumTo(Extras(U), k) = SumTo(Extras(T), k)
  <2>1. /\ Len(Extras(T)) <= Len(Extras(U)) /\ k \in 0..Len(Extras(T))
        /\ \A j \in 1..Len(Extras(T)) : Extras(U)[j] = Extras(T)[j]
    BY <1>1, <1>2, <1>4
  <2>. QED
    BY <1>2, <2>1, SumPrefix
<1>. QED
  BY <1>5, <1>6, <1>7, <1>8

(* The bytes a triple takes of a stream lie among those of all triples.    *)
LEMMA InsideStream ==
  ASSUME NEW s \in Seq(Int), \A j \in 1..Len(s) : s[j] >= 0,
         NEW k \in 1..Len(s), NEW i \in 1..s[k]
  PROVE  SumTo(s, k - 1) \in Int /\ SumTo(s, k - 1) + i \in 1..SumTo(s, Len(s))
<1>1. Len(s) \in Nat /\ k - 1 \in 0..Len(s) /\ k \in 0..Len(s) /\ 0 \in 0..Len(s) /\ Len(s) \in 0..Len(s)
  OBVIOUS
<1>2. SumTo(s, k) = SumTo(s, k - 1) + s[k] /\ SumTo(s, 0) = 0
  BY SumSteps
<1>3. SumTo(s, k - 1) \in Int /\ SumTo(s, k) \in Int /\ SumTo(s, Len(s)) \in Int
  BY <1>1, SumSteps
<1>4. SumTo(s, 0) <= SumTo(s, k - 1) /\ SumTo(s, k) <= SumTo(s, Len(s))
  BY <1>1, SumGrows
<1>5. s[k] \in Int /\ i \in Int /\ 1 <= i /\ i <= s[k]
  OBVIOUS
<1>. QED
  BY <1>2, <1>3, <1>4, <1>5

(* A byte keeps its meaning while the streams and the triples go on.       *)
LEMMA ByteStays ==
  ASSUME NEW T, NEW U, AreTriples(T), AreTriples(U), Extends(T, U), NEW D, NEW E, NEW D2, NEW E2,
         Agree(D2, D, SumTo(Diffs(T), Len(T))), Agree(E2, E, SumTo(Extras(T), Len(T))),
         NEW n \in 1..SumTo(News(T), Len(T))
  PROVE  ByteOf(U, D2, E2, n) = ByteOf(T, D, E, n)
<1>1. PICK k \in 1..Len(T) : Belongs(T, k, n)
  BY BelongsToSome
<1>2. /\ Len(T) \in Nat /\ Len(U) \in Nat /\ Len(T) <= Len(U) /\ U[k] = T[k]
      /\ k \in 1..Len(U) /\ k \in 0..Len(T) /\ k - 1 \in 0..Len(T) /\ n \in Int
  <2>1. Len(T) \in Nat /\ Len(U) \in Nat /\ Len(T) <= Len(U) /\ U[k] = T[k]
    BY Numbers DEF Extends
  <2>. QED
    BY <2>1
<1>3. /\ SumTo(News(U), k) = SumTo(News(T), k) /\ SumTo(News(U), k - 1) = SumTo(News(T), k - 1)
      /\ SumTo(Olds(U), k - 1) = SumTo(Olds(T), k - 1)
      /\ SumTo(Diffs(U), k - 1) = SumTo(Diffs(T), k - 1)
      /\ SumTo(Extras(U), k - 1) = SumTo(Extras(T), k - 1)
  BY <1>2, SameStarts
<1>4. Belongs(U, k, n)
  BY <1>1, <1>3 DEF Belongs
<1> DEFINE i == n - SumTo(News(T), k - 1)
<1>5. /\ ByteOf(T, D, E, n) = PlaceByte(T, D, E, k, i)
      /\ ByteOf(U, D2, E2, n) = PlaceByte(U, D2, E2, k, i)
  <2>1. (CHOOSE j \in 1..Len(T) : Belongs(T, j, n)) = k
    BY <1>1, <1>2, BelongsToOne
  <2>2. (CHOOSE j \in 1..Len(U) : Belongs(U, j, n)) = k
    BY <1>2, <1>4, BelongsToOne
  <2> HIDE DEF i
  <2>3. ByteOf(T, D, E, n) = PlaceByte(T, D, E, k, i)
    BY <2>1 DEF ByteOf, i
  <2>4. ByteOf(U, D2, E2, n) = PlaceByte(U, D2, E2, k, i)
    BY <1>3, <2>2 DEF ByteOf, i
  <2>. QED
    BY <2>3, <2>4
<1>6. i \in Int /\ 1 <= i /\ i <= T[k][1] + T[k][2] /\ T[k][1] \in Nat /\ T[k][2] \in Nat
  <2>1. SumTo(News(T), k) = SumTo(News(T), k - 1) + News(T)[k] /\ SumTo(News(T), k - 1) \in Int
    BY <1>2, Numbers, SumSteps
  <2>2. News(T)[k] = T[k][1] + T[k][2] /\ T[k][1] \in Nat /\ T[k][2] \in Nat
    BY Numbers
  <2>3. SumTo(News(T), k - 1) < n /\ n <= SumTo(News(T), k)
    BY <1>1 DEF Belongs
  <2>. QED
    BY <1>2, <2>1, <2>2, <2>3
<1> HIDE DEF i
<1>7. CASE i <= T[k][1]
  <2>1. SumTo(Diffs(T), k - 1) + i \in 1..SumTo(Diffs(T), Len(T))
    <3> DEFINE s == Diffs(T)
    <3>1. s \in Seq(Int) /\ Len(s) = Len(T) /\ s[k] = T[k][1] /\ \A j \in 1..Len(s) : s[j] >= 0
      BY Numbers
    <3>2. i \in 1..s[k] /\ k \in 1..Len(s)
      BY <1>6, <1>7, <3>1
    <3> HIDE DEF s
    <3>3. SumTo(s, k - 1) + i \in 1..SumTo(s, Len(s))
      BY <3>1, <3>2, InsideStream
    <3>. QED
      BY <3>1, <3>3 DEF s
  <2>2. D2[SumTo(Diffs(T), k - 1) + i] = D[SumTo(Diffs(T), k - 1) + i]
    BY <2>1 DEF Agree
  <2>. QED
    BY <1>2, <1>3, <1>5, <1>7, <2>2 DEF PlaceByte
<1>8. CASE ~(i <= T[k][1])
  <2> DEFINE p == i - T[k][1]
  <2>1. SumTo(Extras(T), k - 1) + p \in 1..SumTo(Extras(T), Len(T)) /\ SumTo(Extras(T), k - 1) \in Int
    <3> DEFINE s == Extras(T)
    <3>1. s \in Seq(Int) /\ Len(s) = Len(T) /\ s[k] = T[k][2] /\ \A j \in 1..Len(s) : s[j] >= 0
      BY Numbers
    <3>2. p \in 1..s[k] /\ k \in 1..Len(s)
      BY <1>6, <1>8, <3>1
    <3> HIDE DEF s, p
    <3>3. SumTo(s, k - 1) + p \in 1..SumTo(s, Len(s)) /\ SumTo(s, k - 1) \in Int
      BY <3>1, <3>2, InsideStream
    <3>. QED
      BY <3>1, <3>3 DEF s
  <2>2. SumTo(Extras(T), k - 1) + i - T[k][1] = SumTo(Extras(T), k - 1) + p
    BY <1>6, <2>1
  <2>3. E2[SumTo(Extras(T), k - 1) + p] = E[SumTo(Extras(T), k - 1) + p]
    BY <2>1 DEF Agree
  <2> HIDE DEF p
  <2>4. PlaceByte(U, D2, E2, k, i) = E2[SumTo(Extras(T), k - 1) + p]
    BY <1>2, <1>3, <1>8, <2>2 DEF PlaceByte
  <2>5. PlaceByte(T, D, E, k, i) = E[SumTo(Extras(T), k - 1) + p]
    BY <1>8, <2>2 DEF PlaceByte
  <2>. QED
    BY <1>5, <2>3, <2>4, <2>5
<1>. QED
  BY <1>7, <1>8

----------------------------------------------------------------------------
(* Where the streams and the two files stand after the triples T and x     *)
(* bytes of the next one's diff string.                                    *)
Sums(T, D, E, np, op, x) ==
  /\ np = SumTo(News(T), Len(T)) + x
  /\ op = SumTo(Olds(T), Len(T)) + x
  /\ Len(D) = SumTo(Diffs(T), Len(T)) + x
  /\ Len(E) = SumTo(Extras(T), Len(T))

(* P has the bytes of the triples T and x bytes of the next one.           *)
Bytes(T, D, E, P, x) ==
  /\ \A n \in 1..SumTo(News(T), Len(T)) : P[n] = ByteOf(T, D, E, n)
  /\ \A i \in 1..x :
       P[SumTo(News(T), Len(T)) + i] =
         (D[SumTo(Diffs(T), Len(T)) + i] + At(Old, SumTo(Olds(T), Len(T)) + i - 1)) % Base

(* P with the bytes of s behind place p.                                   *)
Put(P, size, p, s) == [n \in 1..size |-> IF n - p \in 1..Len(s) THEN s[n - p] ELSE P[n]]

(* The sums over all triples are naturals, but for the old file's.         *)
LEMMA SumsType ==
  ASSUME NEW T, AreTriples(T)
  PROVE  /\ SumTo(News(T), Len(T)) \in Nat /\ SumTo(Olds(T), Len(T)) \in Int
         /\ SumTo(Diffs(T), Len(T)) \in Nat /\ SumTo(Extras(T), Len(T)) \in Nat
<1>1. Len(T) \in Nat /\ 0 \in 0..Len(T) /\ Len(T) \in 0..Len(T)
  BY Numbers
<1>2. SumTo(News(T), Len(T)) \in Nat
  <2>1. /\ News(T) \in Seq(Int) /\ Len(News(T)) = Len(T)
        /\ \A j \in 1..Len(News(T)) : News(T)[j] >= 0
    BY Numbers
  <2>2. SumTo(News(T), 0) = 0 /\ SumTo(News(T), Len(T)) \in Int
    BY <1>1, <2>1, SumSteps
  <2>3. SumTo(News(T), 0) <= SumTo(News(T), Len(T))
    BY <1>1, <2>1, SumGrows
  <2>. QED
    BY <2>2, <2>3
<1>3. SumTo(Diffs(T), Len(T)) \in Nat
  <2>1. /\ Diffs(T) \in Seq(Int) /\ Len(Diffs(T)) = Len(T)
        /\ \A j \in 1..Len(Diffs(T)) : Diffs(T)[j] >= 0
    BY Numbers
  <2>2. SumTo(Diffs(T), 0) = 0 /\ SumTo(Diffs(T), Len(T)) \in Int
    BY <1>1, <2>1, SumSteps
  <2>3. SumTo(Diffs(T), 0) <= SumTo(Diffs(T), Len(T))
    BY <1>1, <2>1, SumGrows
  <2>. QED
    BY <2>2, <2>3
<1>4. SumTo(Extras(T), Len(T)) \in Nat
  <2>1. /\ Extras(T) \in Seq(Int) /\ Len(Extras(T)) = Len(T)
        /\ \A j \in 1..Len(Extras(T)) : Extras(T)[j] >= 0
    BY Numbers
  <2>2. SumTo(Extras(T), 0) = 0 /\ SumTo(Extras(T), Len(T)) \in Int
    BY <1>1, <2>1, SumSteps
  <2>3. SumTo(Extras(T), 0) <= SumTo(Extras(T), Len(T))
    BY <1>1, <2>1, SumGrows
  <2>. QED
    BY <2>2, <2>3
<1>5. SumTo(Olds(T), Len(T)) \in Int
  <2>1. Olds(T) \in Seq(Int) /\ Len(Olds(T)) = Len(T)
    BY Numbers
  <2>. QED
    BY <1>1, <2>1, SumSteps
<1>. QED
  BY <1>2, <1>3, <1>4, <1>5

(* The diff string of a triple sets the next x bytes and none before.      *)
LEMMA DiffStep ==
  ASSUME NEW T, AreTriples(T), NEW D \in Seq(Byte), NEW E \in Seq(Byte), NEW P,
         NEW np, NEW op, Sums(T, D, E, np, op, 0), Bytes(T, D, E, P, 0),
         NEW x \in Nat, NEW size \in Nat, np + x <= size, NEW s \in [1..x -> Byte],
         NEW Q, Q = Put(P, size, np, [k \in 1..x |-> (s[k] + At(Old, op + k - 1)) % Base])
  PROVE  /\ D \o s \in Seq(Byte)
         /\ Sums(T, D \o s, E, np + x, op + x, x) /\ Bytes(T, D \o s, E, Q, x)
<1> DEFINE NS == SumTo(News(T), Len(T))
           OS == SumTo(Olds(T), Len(T))
           DS == SumTo(Diffs(T), Len(T))
           ES == SumTo(Extras(T), Len(T))
           d == [k \in 1..x |-> (s[k] + At(Old, op + k - 1)) % Base]
<1>1. NS \in Nat /\ OS \in Int /\ DS \in Nat /\ ES \in Nat
  BY SumsType
<1>2. np = NS /\ op = OS /\ Len(D) = DS /\ Len(E) = ES
  BY <1>1 DEF Sums
<1>3. s \in Seq(Byte) /\ Len(s) = x
  OBVIOUS
<1>4. /\ D \o s \in Seq(Byte) /\ Len(D \o s) = DS + x
      /\ \A i \in 1..DS : (D \o s)[i] = D[i]
      /\ \A i \in 1..x : (D \o s)[DS + i] = s[i]
  <2>1. /\ D \o s \in Seq(Byte) /\ Len(D \o s) = Len(D) + Len(s)
        /\ \A i \in 1..(Len(D) + Len(s)) : (D \o s)[i] = IF i <= Len(D) THEN D[i] ELSE s[i - Len(D)]
    BY <1>3, ConcatProperties
  <2> HIDE DEF DS
  <2>2. ASSUME NEW i \in 1..x PROVE (D \o s)[DS + i] = s[i]
    <3>1. DS + i \in 1..(DS + x) /\ ~(DS + i <= DS) /\ (DS + i) - DS = i
      BY <1>1
    <3>. QED
      BY <1>2, <1>3, <2>1, <3>1
  <2>3. ASSUME NEW i \in 1..DS PROVE (D \o s)[i] = D[i]
    <3>1. i \in 1..(DS + x) /\ i <= DS
      BY <1>1
    <3>. QED
      BY <1>2, <1>3, <2>1, <3>1
  <2>. QED
    BY <1>2, <1>3, <2>1, <2>2, <2>3
<1>5. Sums(T, D \o s, E, np + x, op + x, x)
  BY <1>2, <1>4 DEF Sums
<1>6. Len(d) = x
  BY <1>3
<1>7. Q = [n \in 1..size |-> IF n - NS \in 1..x THEN d[n - NS] ELSE P[n]]
  <2> HIDE DEF d, NS
  <2>. QED
    BY <1>2, <1>6 DEF Put, d
<1> HIDE DEF NS, OS, DS, ES
<1>8. ASSUME NEW n \in 1..NS PROVE Q[n] = ByteOf(T, D \o s, E, n)
  <2>1. n \in 1..size /\ n - NS \notin 1..x
    BY <1>1, <1>2
  <2>2. Q[n] = P[n]
    <3> HIDE DEF d
    <3>. QED
      BY <1>7, <2>1
  <2>3. P[n] = ByteOf(T, D, E, n)
    BY DEF Bytes, NS
  <2>4. ByteOf(T, D \o s, E, n) = ByteOf(T, D, E, n)
    <3>1. Extends(T, T)
      BY Numbers DEF Extends
    <3>2. Agree(D \o s, D, SumTo(Diffs(T), Len(T))) /\ Agree(E, E, SumTo(Extras(T), Len(T)))
      BY <1>4 DEF DS, Agree
    <3>3. n \in 1..SumTo(News(T), Len(T))
      BY DEF NS
    <3>. QED
      BY <3>1, <3>2, <3>3, ByteStays
  <2>. QED
    BY <2>2, <2>3, <2>4
<1>9. ASSUME NEW i \in 1..x PROVE Q[NS + i] = ((D \o s)[DS + i] + At(Old, OS + i - 1)) % Base
  <2>1. NS + i \in 1..size /\ (NS + i) - NS = i
    BY <1>1, <1>2
  <2>2. Q[NS + i] = d[i]
    <3> HIDE DEF d
    <3>. QED
      BY <1>7, <2>1
  <2>3. d[i] = (s[i] + At(Old, op + i - 1)) % Base
    OBVIOUS
  <2> HIDE DEF d
  <2>. QED
    BY <1>2, <1>4, <2>2, <2>3
<1>10. Bytes(T, D \o s, E, Q, x)
  BY <1>8, <1>9 DEF Bytes, NS, DS, OS
<1>. QED
  BY <1>4, <1>5, <1>10

(* The numbers of a triple.                                                *)
LEMMA TripleType ==
  ASSUME NEW t, IsTriple(t)
  PROVE  t[1] \in Nat /\ t[2] \in Nat /\ t[3] \in Int
<1>1. t \in Seq(Int) /\ 1 \in 1..Len(t) /\ 2 \in 1..Len(t) /\ 3 \in 1..Len(t)
  BY DEF IsTriple
<1>2. t[1] \in Int /\ t[2] \in Int /\ t[3] \in Int
  BY <1>1
<1>. QED
  BY <1>2 DEF IsTriple

(* One more triple: it is a sequence of triples again, and the sums go on  *)
(* by its numbers.                                                         *)
LEMMA OneMoreTriple ==
  ASSUME NEW T, AreTriples(T), NEW t, IsTriple(t)
  PROVE  /\ AreTriples(Append(T, t)) /\ Extends(T, Append(T, t))
         /\ Len(Append(T, t)) = Len(T) + 1 /\ Append(T, t)[Len(T) + 1] = t
         /\ SumTo(News(Append(T, t)), Len(T) + 1) = SumTo(News(T), Len(T)) + t[1] + t[2]
         /\ SumTo(Olds(Append(T, t)), Len(T) + 1) = SumTo(Olds(T), Len(T)) + t[1] + t[3]
         /\ SumTo(Diffs(Append(T, t)), Len(T) + 1) = SumTo(Diffs(T), Len(T)) + t[1]
         /\ SumTo(Extras(Append(T, t)), Len(T) + 1) = SumTo(Extras(T), Len(T)) + t[2]
<1> DEFINE U == Append(T, t)
           K == Len(T)
<1>1. K \in Nat /\ T \in Seq(Seq(Int)) /\ t \in Seq(Int)
  BY DEF AreTriples, IsTriple
<1>2. /\ U \in Seq(Seq(Int)) /\ Len(U) = K + 1 /\ U[K + 1] = t
      /\ \A j \in 1..K : U[j] = T[j]
  BY <1>1, AppendProperties
<1> HIDE DEF U, K
<1>3. AreTriples(U)
  <2>1. ASSUME NEW j \in 1..Len(U) PROVE IsTriple(U[j])
    <3>1. CASE j = K + 1
      BY <1>2, <3>1
    <3>2. CASE j \in 1..K
      BY <1>2, <3>2 DEF AreTriples, K
    <3>. QED
      BY <1>1, <1>2, <3>1, <3>2
  <2>. QED
    BY <1>2, <2>1 DEF AreTriples
<1>4. Extends(T, U)
  BY <1>1, <1>2 DEF Extends, K
<1>5. K \in 0..K /\ K + 1 \in 1..Len(U) /\ (K + 1) - 1 = K
  BY <1>1, <1>2
<1>6. /\ SumTo(News(U), K) = SumTo(News(T), K) /\ SumTo(Olds(U), K) = SumTo(Olds(T), K)
      /\ SumTo(Diffs(U), K) = SumTo(Diffs(T), K) /\ SumTo(Extras(U), K) = SumTo(Extras(T), K)
  <2>1. K \in 0..Len(T)
    BY <1>5 DEF K
  <2>. QED
    BY <1>3, <1>4, <2>1, SameStarts
<1>7. /\ t[1] \in Nat /\ t[2] \in Nat /\ t[3] \in Int
      /\ News(U)[K + 1] = t[1] + t[2] /\ Olds(U)[K + 1] = t[1] + t[3]
      /\ Diffs(U)[K + 1] = t[1] /\ Extras(U)[K + 1] = t[2]
  BY <1>2, <1>3, <1>5, Numbers
<1>8. /\ News(U) \in Seq(Int) /\ K + 1 \in 1..Len(News(U))
      /\ Olds(U) \in Seq(Int) /\ K + 1 \in 1..Len(Olds(U))
      /\ Diffs(U) \in Seq(Int) /\ K + 1 \in 1..Len(Diffs(U))
      /\ Extras(U) \in Seq(Int) /\ K + 1 \in 1..Len(Extras(U))
  BY <1>3, <1>5, Numbers
<1>9. /\ SumTo(News(U), K + 1) = SumTo(News(U), K) + News(U)[K + 1]
      /\ SumTo(Olds(U), K + 1) = SumTo(Olds(U), K) + Olds(U)[K + 1]
      /\ SumTo(Diffs(U), K + 1) = SumTo(Diffs(U), K) + Diffs(U)[K + 1]
      /\ SumTo(Extras(U), K + 1) = SumTo(Extras(U), K) + Extras(U)[K + 1]
  <2>1. ASSUME NEW s \in Seq(Int), K + 1 \in 1..Len(s)
        PROVE  SumTo(s, K + 1) = SumTo(s, K) + s[K + 1]
    <3>1. SumTo(s, K + 1) = SumTo(s, (K + 1) - 1) + s[K + 1]
      BY <2>1, SumSteps
    <3>. QED
      BY <1>5, <3>1
  <2>. QED
    BY <1>8, <2>1
<1>10. /\ SumTo(News(T), K) \in Nat /\ SumTo(Olds(T), K) \in Int
       /\ SumTo(Diffs(T), K) \in Nat /\ SumTo(Extras(T), K) \in Nat
  BY SumsType DEF K
<1>11. /\ SumTo(News(U), K + 1) = SumTo(News(T), K) + t[1] + t[2]
       /\ SumTo(Olds(U), K + 1) = SumTo(Olds(T), K) + t[1] + t[3]
       /\ SumTo(Diffs(U), K + 1) = SumTo(Diffs(T), K) + t[1]
       /\ SumTo(Extras(U), K + 1) = SumTo(Extras(T), K) + t[2]
  BY <1>6, <1>7, <1>9, <1>10
<1>. QED
  BY <1>2, <1>3, <1>4, <1>11 DEF U, K

(* The extra string of a triple completes its bytes.                       *)
LEMMA ExtraStep ==
  ASSUME NEW T, AreTriples(T), NEW t, IsTriple(t),
         NEW D \in Seq(Byte), NEW E \in Seq(Byte), NEW P, NEW np, NEW op,
         Sums(T, D, E, np, op, t[1]), Bytes(T, D, E, P, t[1]),
         NEW size \in Nat, np + t[2] <= size, NEW s \in [1..t[2] -> Byte],
         NEW Q, Q = Put(P, size, np, s)
  PROVE  /\ E \o s \in Seq(Byte)
         /\ Sums(Append(T, t), D, E \o s, np + t[2], op + t[3], 0)
         /\ Bytes(Append(T, t), D, E \o s, Q, 0)
<1> DEFINE K == Len(T)
           U == Append(T, t)
           NS == SumTo(News(T), K)
           OS == SumTo(Olds(T), K)
           DS == SumTo(Diffs(T), K)
           ES == SumTo(Extras(T), K)
           x == t[1]
           y == t[2]
           E2 == E \o s
<1>1. /\ NS \in Nat /\ OS \in Int /\ DS \in Nat /\ ES \in Nat /\ K \in Nat
      /\ x \in Nat /\ y \in Nat /\ t[3] \in Int
  <2>1. NS \in Nat /\ OS \in Int /\ DS \in Nat /\ ES \in Nat /\ K \in Nat
    BY SumsType, Numbers
  <2>2. t[1] \in Nat /\ t[2] \in Nat /\ t[3] \in Int
    BY TripleType
  <2>. QED
    BY <2>1, <2>2
<1>2. np = NS + x /\ op = OS + x /\ Len(D) = DS + x /\ Len(E) = ES
  BY DEF Sums
<1>3. s \in Seq(Byte) /\ Len(s) = y
  <2>1. s \in [1..y -> Byte]
    OBVIOUS
  <2> HIDE DEF y
  <2>. QED
    BY <1>1, <2>1
<1>4. /\ E2 \in Seq(Byte) /\ Len(E2) = ES + y
      /\ \A i \in 1..ES : E2[i] = E[i]
      /\ \A i \in 1..y : E2[ES + i] = s[i]
  <2>1. /\ E \o s \in Seq(Byte) /\ Len(E \o s) = Len(E) + Len(s)
        /\ \A i \in 1..(Len(E) + Len(s)) : (E \o s)[i] = IF i <= Len(E) THEN E[i] ELSE s[i - Len(E)]
    BY <1>3, ConcatProperties
  <2> HIDE DEF ES, y, x
  <2>2. ASSUME NEW i \in 1..y PROVE (E \o s)[ES + i] = s[i]
    <3>1. ES + i \in 1..(ES + y) /\ ~(ES + i <= ES) /\ (ES + i) - ES = i
      BY <1>1
    <3>. QED
      BY <1>2, <1>3, <2>1, <3>1
  <2>3. ASSUME NEW i \in 1..ES PROVE (E \o s)[i] = E[i]
    <3>1. i \in 1..(ES + y) /\ i <= ES
      BY <1>1
    <3>. QED
      BY <1>2, <1>3, <2>1, <3>1
  <2>. QED
    BY <1>2, <1>3, <2>1, <2>2, <2>3
<1>5. /\ AreTriples(U) /\ Extends(T, U) /\ Len(U) = K + 1 /\ U[K + 1] = t
      /\ SumTo(News(U), K + 1) = NS + x + y
      /\ SumTo(Olds(U), K + 1) = OS + x + t[3]
      /\ SumTo(Diffs(U), K + 1) = DS + x
      /\ SumTo(Extras(U), K + 1) = ES + y
  BY OneMoreTriple
<1>6. /\ SumTo(News(U), K) = NS /\ SumTo(Olds(U), K) = OS
      /\ SumTo(Diffs(U), K) = DS /\ SumTo(Extras(U), K) = ES
  <2>1. K \in 0..Len(T)
    BY <1>1
  <2> HIDE DEF U
  <2>. QED
    BY <1>5, <2>1, SameStarts
<1>a. \A i \in 1..x : P[NS + i] = (D[DS + i] + At(Old, OS + i - 1)) % Base
  BY DEF Bytes
<1>b. \A n \in 1..NS : P[n] = ByteOf(T, D, E, n)
  BY DEF Bytes
<1>c. Q = [n \in 1..size |-> IF n - np \in 1..y THEN s[n - np] ELSE P[n]]
  <2> HIDE DEF y
  <2>. QED
    BY <1>3 DEF Put
<1>d. np + y <= size /\ size \in Nat
  OBVIOUS
<1>e. Agree(E2, E, SumTo(Extras(T), Len(T))) /\ Agree(D, D, SumTo(Diffs(T), Len(T)))
  BY <1>4 DEF Agree
<1>f. 1..NS = 1..SumTo(News(T), Len(T))
  OBVIOUS
<1> HIDE DEF K, U, NS, OS, DS, ES, x, y, E2
<1>7. Sums(U, D, E2, np + y, op + t[3], 0)
  <2>1. /\ np + y = (NS + x + y) + 0 /\ op + t[3] = (OS + x + t[3]) + 0
        /\ Len(D) = (DS + x) + 0 /\ Len(E2) = ES + y
    BY <1>1, <1>2, <1>4
  <2>. QED
    BY <1>5, <2>1 DEF Sums
<1>8. ASSUME NEW n \in 1..NS PROVE Q[n] = ByteOf(U, D, E2, n)
  <2>1. n \in 1..size /\ n - np \notin 1..y
    BY <1>1, <1>2, <1>d
  <2>2. Q[n] = P[n]
    BY <1>c, <2>1
  <2>3. ByteOf(U, D, E2, n) = ByteOf(T, D, E, n)
    <3>1. n \in 1..SumTo(News(T), Len(T))
      BY <1>f
    <3>. QED
      BY <1>5, <1>e, <3>1, ByteStays
  <2>. QED
    BY <1>b, <2>2, <2>3
<1>9. ASSUME NEW i \in 1..(x + y) PROVE Q[NS + i] = ByteOf(U, D, E2, NS + i)
  <2>1. K + 1 \in 1..Len(U) /\ (K + 1) - 1 = K
    BY <1>1, <1>5
  <2>2. Belongs(U, K + 1, NS + i)
    BY <1>1, <1>5, <1>6, <2>1 DEF Belongs
  <2>3. ByteOf(U, D, E2, NS + i) = PlaceByte(U, D, E2, K + 1, i)
    <3>1. NS + i \in Int /\ (NS + i) - NS = i
      BY <1>1
    <3>2. (CHOOSE j \in 1..Len(U) : Belongs(U, j, NS + i)) = K + 1
      BY <1>5, <2>1, <2>2, <3>1, BelongsToOne
    <3>3. ByteOf(U, D, E2, NS + i) = PlaceByte(U, D, E2, K + 1, (NS + i) - SumTo(News(U), (K + 1) - 1))
      BY <3>2 DEF ByteOf
    <3>. QED
      BY <1>6, <2>1, <3>1, <3>3
  <2>4. PlaceByte(U, D, E2, K + 1, i) =
          IF i <= x THEN (D[DS + i] + At(Old, OS + i - 1)) % Base ELSE E2[ES + i - x]
    BY <1>5, <1>6, <2>1 DEF PlaceByte, x
  <2>5. NS + i \in 1..size
    BY <1>1, <1>2, <1>d
  <2>6. CASE i <= x
    <3>1. (NS + i) - np \notin 1..y /\ i \in 1..x
      BY <1>1, <1>2, <2>6
    <3>2. Q[NS + i] = P[NS + i]
      BY <1>c, <2>5, <3>1
    <3>. QED
      BY <1>a, <2>3, <2>4, <2>6, <3>1, <3>2
  <2>7. CASE ~(i <= x)
    <3>1. (NS + i) - np = i - x /\ i - x \in 1..y /\ ES + i - x = ES + (i - x)
      BY <1>1, <1>2, <2>7
    <3>2. Q[NS + i] = s[i - x]
      BY <1>c, <2>5, <3>1
    <3>3. E2[ES + (i - x)] = s[i - x]
      BY <1>4, <3>1
    <3>. QED
      BY <2>3, <2>4, <2>7, <3>1, <3>2, <3>3
  <2>. QED
    BY <2>6, <2>7
<1>10. ASSUME NEW n \in 1..(NS + x + y) PROVE Q[n] = ByteOf(U, D, E2, n)
  <2>1. CASE n <= NS
    <3>1. n \in 1..NS
      BY <1>1, <2>1
    <3>. QED
      BY <1>8, <3>1
  <2>2. CASE ~(n <= NS)
    <3>1. n - NS \in 1..(x + y) /\ NS + (n - NS) = n
      BY <1>1, <2>2
    <3>2. Q[NS + (n - NS)] = ByteOf(U, D, E2, NS + (n - NS))
      BY <1>9, <3>1
    <3>. QED
      BY <3>1, <3>2
  <2>. QED
    BY <2>1, <2>2
<1>11. Bytes(U, D, E2, Q, 0)
  BY <1>5, <1>10 DEF Bytes
<1>. QED
  BY <1>4, <1>7, <1>11 DEF U, E2, y

----------------------------------------------------------------------------
(* The memory of executePatch is well formed.                              *)
MemoryOK ==
  /\ newsize \in Nat /\ pnew \in Seq(Int) /\ Len(pnew) = newsize
  /\ newpos \in Nat /\ newpos <= newsize /\ oldpos \in Int
  /\ ctrl \in Seq(Int) /\ AreTriples(triples)
  /\ diffs \in Seq(Byte) /\ extras \in Seq(Byte)

(* What the loop has passed of the new file is set.                        *)
FullTo(P, p) == \A n \in 1..p : P[n] \in Byte
Filled == FullTo(pnew, newpos)

(* The bytes of the triple in progress that are in the new file.           *)
Ahead == IF stage = "extra" THEN ctrl[1] ELSE 0

(* The fields of a triple are read one by one, and none is used before all *)
(* are there.                                                              *)
ControlInv ==
  /\ stage = "control" => Len(ctrl) <= 2
  /\ stage \in {"diff", "extra"} => Len(ctrl) = 3
  /\ stage = "extra" => ctrl[1] >= 0

(* The loop ends when the new file is full, and what is written to the     *)
(* disk is what the loop has made.                                         *)
StageInv ==
  /\ stage = "header" =>
       /\ newsize = 0 /\ oldpos = 0 /\ newpos = 0
       /\ triples = << >> /\ diffs = << >> /\ extras = << >>
  /\ stage \notin {"idle", "header", "dead"} => pold \in [1..oldsize -> Byte]
  /\ stage \in {"write", "done"} => newpos = newsize
  /\ stage = "done" /\ ~short => newFile = pnew

(* Streams and files stand where the triples say, and the bytes are right. *)
Exact ==
  /\ oldpos \in Long
  /\ Sums(triples, diffs, extras, newpos, oldpos, Ahead)
  /\ Bytes(triples, diffs, extras, pnew, Ahead)

(* The inductive invariant of bspatch.                                     *)
PatchInv ==
  /\ MemoryOK /\ ControlInv /\ StageInv /\ Filled
  /\ Clean => Exact

(* Zero is a long.                                                         *)
LEMMA ZeroIsLong == 0 \in Long
BY PatchAssumption DEF Long

(* What the code takes of a number is an integer, and the number if it     *)
(* fits.                                                                   *)
LEMMA WrapType ==
  ASSUME NEW v \in Int
  PROVE  Wrap(v) \in Int /\ (v \in Long => Wrap(v) = v)
<1>1. LongMax \in Nat
  BY PatchAssumption
<1> DEFINE m == 2 * (LongMax + 1)
           u == v + LongMax + 1
<1>2. m \in Nat \ {0} /\ u \in Int
  BY <1>1
<1> HIDE DEF m, u
<1>3. u % m \in Int
  BY <1>2
<1>4. (u % m) - (LongMax + 1) \in Int
  BY <1>1, <1>3
<1>. QED
  BY <1>4 DEF Wrap, m, u

(* A field is an integer for the code.                                     *)
LEMMA FieldType == \A f \in Fields : offtin(f) \in Int
<1> TAKE f \in Fields
<1>1. f.mag \in Nat
  BY PatchAssumption
<1>2. Wrap(f.mag) \in Int
  BY <1>1, WrapType
<1>3. Wrap(- Wrap(f.mag)) \in Int
  BY <1>2, WrapType
<1>. QED
  BY <1>2, <1>3 DEF offtin

(* Nothing has been read yet.                                              *)
LEMMA NothingRead ==
  /\ AreTriples(<< >>) /\ Len(<< >>) = 0
  /\ SumTo(News(<< >>), 0) = 0 /\ SumTo(Olds(<< >>), 0) = 0
  /\ SumTo(Diffs(<< >>), 0) = 0 /\ SumTo(Extras(<< >>), 0) = 0
<1>1. << >> \in Seq(Seq(Int)) /\ Len(<< >>) = 0
  OBVIOUS
<1>2. AreTriples(<< >>)
  BY <1>1 DEF AreTriples
<1>. QED
  BY <1>1, <1>2, Numbers, SumSteps

(* The invariant holds where executePatch begins, and where the process    *)
(* is gone.                                                                *)
LEMMA FreshOK ==
  ASSUME Fresh, stage' \in {"idle", "header", "dead"}
  PROVE  PatchInv'
<1>1. /\ newsize' = 0 /\ pnew' = << >> /\ oldpos' = 0 /\ newpos' = 0 /\ ctrl' = << >>
      /\ triples' = << >> /\ diffs' = << >> /\ extras' = << >>
  BY DEF Fresh
<1>2. MemoryOK'
  <2>1. << >> \in Seq(Int) /\ << >> \in Seq(Byte)
    OBVIOUS
  <2>. QED
    BY <1>1, <2>1, NothingRead DEF MemoryOK
<1>3. ControlInv' /\ StageInv' /\ Ahead' = 0
  BY <1>1 DEF ControlInv, StageInv, Ahead
<1>4. Sums(<< >>, << >>, << >>, 0, 0, 0) /\ Bytes(<< >>, << >>, << >>, << >>, 0)
  BY NothingRead DEF Sums, Bytes
<1>5. Sums(triples, diffs, extras, newpos, oldpos, Ahead)' /\ Bytes(triples, diffs, extras, pnew, Ahead)'
  BY <1>1, <1>3, <1>4
<1>6. Filled'
  BY <1>1 DEF Filled, FullTo
<1>. QED
  BY <1>1, <1>2, <1>3, <1>5, <1>6, ZeroIsLong DEF PatchInv, Exact

(* Steps outside of the loop's body leave what has been written alone.     *)
LEMMA OutsideLoop ==
  ASSUME PatchInv, UNCHANGED <<memory, position, history>>, ctrl' \in Seq(Int),
         folded => folded', stage # "extra", stage' # "extra"
  PROVE  MemoryOK' /\ Filled' /\ (Clean' => Exact')
<1>1. UNCHANGED <<newsize, pold, pnew, oldpos, newpos, triples, diffs, extras>>
  BY DEF memory, position, history
<1>2. Ahead = 0 /\ Ahead' = 0
  BY DEF Ahead
<1>3. MemoryOK'
  BY <1>1 DEF PatchInv, MemoryOK
<1>4. Filled'
  BY <1>1 DEF PatchInv, Filled
<1>5. Exact => Exact'
  BY <1>1, <1>2 DEF Exact
<1>6. Clean' => Clean
  BY <1>1 DEF Clean
<1>. QED
  BY <1>3, <1>4, <1>5, <1>6 DEF PatchInv

(* The header sets the size of a file none of whose bytes is there.        *)
LEMMA HeaderStep == PatchInv /\ ReadHeader => PatchInv'
<1> SUFFICES ASSUME PatchInv, ReadHeader PROVE PatchInv'
  OBVIOUS
<1>1. CASE Exit
  BY <1>1, FreshOK DEF Exit
<1>2. ASSUME NEW f \in Fields, 0 <= offtin(f), newsize' = offtin(f),
             pnew' = [n \in 1..offtin(f) |-> Undef], stage' = "loop",
             UNCHANGED <<position, ctrl, ended, history>>,
             NEW n \in 0..oldsize, NEW garbage \in [1..oldsize -> Byte],
             pold' = [i \in 1..oldsize |-> IF i <= n THEN Old[i] ELSE garbage[i]]
      PROVE  PatchInv'
  <2>0. /\ stage = "header" /\ oldpos = 0 /\ newpos = 0
        /\ triples = << >> /\ diffs = << >> /\ extras = << >>
    BY DEF ReadHeader, PatchInv, StageInv
  <2>1. /\ oldpos' = 0 /\ newpos' = 0 /\ ctrl' = ctrl
        /\ triples' = << >> /\ diffs' = << >> /\ extras' = << >>
    BY <1>2, <2>0 DEF position, history
  <2>2. offtin(f) \in Nat
    BY <1>2, FieldType
  <2>3. pnew' \in Seq(Int) /\ Len(pnew') = newsize'
    <3> DEFINE z == offtin(f)
    <3>1. z \in Nat
      BY <2>2
    <3> HIDE DEF z
    <3>2. [k \in 1..z |-> Undef] \in Seq(Int) /\ Len([k \in 1..z |-> Undef]) = z
      BY <3>1 DEF Undef
    <3>. QED
      BY <1>2, <3>2 DEF z
  <2>4. MemoryOK'
    BY <1>2, <2>1, <2>2, <2>3, NothingRead DEF PatchInv, MemoryOK
  <2>5. Ahead' = 0
    BY <1>2 DEF Ahead
  <2>6. Sums(<< >>, << >>, << >>, 0, 0, 0) /\ Bytes(<< >>, << >>, << >>, pnew', 0)
    BY NothingRead DEF Sums, Bytes
  <2>7. Sums(triples, diffs, extras, newpos, oldpos, Ahead)' /\ Bytes(triples, diffs, extras, pnew, Ahead)'
    BY <2>1, <2>5, <2>6
  <2>8. pold' \in [1..oldsize -> Byte]
    <3>1. \A i \in 1..oldsize : Old[i] \in Byte
      BY PatchAssumption DEF oldsize
    <3>. QED
      BY <1>2, <3>1
  <2>9. ControlInv' /\ StageInv' /\ Filled'
    BY <1>2, <2>1, <2>8 DEF ControlInv, StageInv, Filled, FullTo
  <2>. QED
    BY <2>1, <2>4, <2>7, <2>9, ZeroIsLong DEF PatchInv, Exact
<1>. QED
  BY <1>1, <1>2 DEF ReadHeader

(* Bytes put behind place p are there, and those before it stay.           *)
LEMMA PutFills ==
  ASSUME NEW P, NEW size \in Nat, NEW p \in Nat, NEW x \in Nat, p + x <= size,
         NEW d \in [1..x -> Byte], FullTo(P, p),
         P \in Seq(Int), Len(P) = size
  PROVE  /\ Put(P, size, p, d) \in Seq(Int) /\ Len(Put(P, size, p, d)) = size
         /\ FullTo(Put(P, size, p, d), p + x)
<1>0. Len(d) = x /\ Byte \subseteq Int
  BY PatchAssumption DEF Byte
<1>1. \A n \in 1..size : P[n] \in Int
  OBVIOUS
<1>2. \A n \in 1..size : n - p \in 1..Len(d) => d[n - p] \in Byte /\ d[n - p] \in Int
  BY <1>0
<1>3. Put(P, size, p, d) \in [1..size -> Int]
  BY <1>1, <1>2 DEF Put
<1>4. ASSUME NEW n \in 1..(p + x) PROVE Put(P, size, p, d)[n] \in Byte
  <2>1. n \in 1..size /\ (n \in 1..p \/ n - p \in 1..x)
    OBVIOUS
  <2>. QED
    BY <1>0, <1>2, <2>1 DEF Put, FullTo
<1>. QED
  BY <1>3, <1>4 DEF FullTo

(* The diff string.                                                        *)
LEMMA ReadDiffStep == PatchInv /\ ReadDiff => PatchInv'
<1> SUFFICES ASSUME PatchInv, ReadDiff PROVE PatchInv'
  OBVIOUS
<1>0. /\ stage = "diff" /\ stage' = "extra" /\ ctrl' = ctrl /\ newsize' = newsize
      /\ newpos' = newpos + ctrl[1] /\ oldpos' = Wrap(oldpos + ctrl[1]) /\ pold' = pold
      /\ folded' = (folded \/ oldpos + ctrl[1] \notin Long)
      /\ triples' = triples /\ extras' = extras /\ newpos + ctrl[1] <= newsize
  BY DEF ReadDiff, Triple, Seek, Inside
<1>1. ctrl \in Seq(Int) /\ Len(ctrl) = 3 /\ ctrl[1] \in Nat
  <2>1. ctrl \in Seq(Int) /\ Len(ctrl) = 3
    BY <1>0 DEF PatchInv, MemoryOK, ControlInv
  <2>2. ctrl[1] \in Int
    BY <2>1
  <2>3. ctrl[1] = 0 \/ ctrl[1] > 0
    BY DEF ReadDiff, BZ2_bzRead, Triple
  <2>. QED
    BY <2>1, <2>2, <2>3
<1> DEFINE x == ctrl[1]
<1>2. PICK s \in [1..x -> Byte] :
        /\ diffs' = diffs \o s
        /\ pnew' = Written(newpos, [k \in 1..x |-> (s[k] + At(pold, Wrap(oldpos + k - 1))) % Base])
  BY DEF ReadDiff, Triple
<1>3. /\ newsize \in Nat /\ pnew \in Seq(Int) /\ Len(pnew) = newsize
      /\ newpos \in Nat /\ oldpos \in Int /\ AreTriples(triples)
      /\ diffs \in Seq(Byte) /\ extras \in Seq(Byte)
      /\ pold \in [1..oldsize -> Byte]
      /\ FullTo(pnew, newpos)
  BY <1>0 DEF PatchInv, MemoryOK, StageInv, Filled
<1>4. Ahead = 0 /\ Ahead' = x
  BY <1>0 DEF Ahead
<1>a. x \in Nat /\ newpos + x <= newsize
  BY <1>0, <1>1
<1> DEFINE d == [k \in 1..x |-> (s[k] + At(pold, Wrap(oldpos + k - 1))) % Base]
<1>5. pnew' = Put(pnew, newsize, newpos, d)
  BY <1>2 DEF Written, Put
<1>b. d \in [1..x -> Byte]
  <2>1. ASSUME NEW k \in 1..x PROVE (s[k] + At(pold, Wrap(oldpos + k - 1))) % Base \in Byte
    <3>1. s[k] \in Int /\ Base \in Nat \ {0}
      BY PatchAssumption DEF Byte
    <3> DEFINE q == Wrap(oldpos + k - 1)
    <3>2. q \in Int
      <4> DEFINE v == oldpos + k - 1
      <4>1. v \in Int
        BY <1>3, <1>a
      <4> HIDE DEF v
      <4>2. Wrap(v) \in Int
        BY <4>1, WrapType
      <4>. QED
        BY <4>2 DEF v
    <3> HIDE DEF q
    <3>3. At(pold, q) \in Int
      <4>1. oldsize \in Nat /\ Byte \subseteq Int
        BY PatchAssumption DEF oldsize, Byte
      <4>2. 0 <= q /\ q < oldsize => q + 1 \in 1..oldsize
        BY <3>2, <4>1
      <4>3. 0 <= q /\ q < oldsize => pold[q + 1] \in Int
        BY <1>3, <4>1, <4>2
      <4>. QED
        BY <4>3 DEF At
    <3> DEFINE a == s[k] + At(pold, q)
    <3>4. a \in Int
      BY <3>1, <3>3
    <3> HIDE DEF a
    <3>5. a % Base \in 0..(Base - 1)
      BY <3>1, <3>4
    <3>. QED
      BY <3>5 DEF a, q, Byte
  <2> HIDE DEF x
  <2>. QED
    BY <2>1
<1> HIDE DEF x, d
<1>7. /\ pnew' \in Seq(Int) /\ Len(pnew') = newsize
      /\ FullTo(pnew', newpos + x)
  <2>1. /\ Put(pnew, newsize, newpos, d) \in Seq(Int) /\ Len(Put(pnew, newsize, newpos, d)) = newsize
        /\ FullTo(Put(pnew, newsize, newpos, d), newpos + x)
    BY <1>3, <1>a, <1>b, PutFills
  <2>. QED
    BY <1>5, <2>1
<1>c. diffs \o s \in Seq(Byte)
  <2>1. s \in Seq(Byte)
    BY <1>a
  <2>. QED
    BY <1>3, <2>1
<1>d. oldpos' \in Int
  <2>1. oldpos + x \in Int /\ oldpos' = Wrap(oldpos + x)
    BY <1>0, <1>3, <1>a DEF x
  <2>. QED
    BY <2>1, WrapType
<1>8. ASSUME Clean' PROVE Exact'
  <2>1. Clean /\ pold = Old /\ oldpos + x \in Long
    BY <1>0, <1>8 DEF Clean, x
  <2>2. /\ oldpos \in Long
        /\ Sums(triples, diffs, extras, newpos, oldpos, 0) /\ Bytes(triples, diffs, extras, pnew, 0)
    BY <1>4, <2>1 DEF PatchInv, Exact
  <2>3. oldpos' = oldpos + x /\ oldpos' \in Long
    <3>1. oldpos + x \in Int
      BY <1>3, <1>a
    <3>2. Wrap(oldpos + x) = oldpos + x
      BY <2>1, <3>1, WrapType
    <3>. QED
      BY <1>0, <2>1, <3>2 DEF x
  <2>4. d = [k \in 1..x |-> (s[k] + At(Old, oldpos + k - 1)) % Base]
    <3>1. ASSUME NEW k \in 1..x PROVE Wrap(oldpos + k - 1) = oldpos + k - 1
      <4>1. oldpos + k - 1 \in Int /\ oldpos + k - 1 \in Long
        BY <1>3, <1>a, <2>1, <2>2, PatchAssumption DEF Long
      <4>. QED
        BY <4>1, WrapType
    <3>. QED
      BY <2>1, <3>1 DEF d
  <2>5. pnew' = Put(pnew, newsize, newpos, [k \in 1..x |-> (s[k] + At(Old, oldpos + k - 1)) % Base])
    BY <1>5, <2>4
  <2>6. /\ Sums(triples, diffs \o s, extras, newpos + x, oldpos + x, x)
        /\ Bytes(triples, diffs \o s, extras, pnew', x)
    BY <1>3, <1>a, <2>2, <2>5, DiffStep
  <2>. QED
    BY <1>0, <1>2, <1>4, <2>3, <2>6 DEF Exact, x
<1>9. MemoryOK' /\ Filled'
  BY <1>0, <1>1, <1>2, <1>3, <1>7, <1>a, <1>c, <1>d DEF MemoryOK, Filled, x
<1>10. ControlInv' /\ StageInv'
  BY <1>0, <1>1, <1>3 DEF ControlInv, StageInv
<1>. QED
  BY <1>8, <1>9, <1>10 DEF PatchInv

(* The extra string, with which the triple is complete.                    *)
LEMMA ReadExtraStep == PatchInv /\ ReadExtra => PatchInv'
<1> SUFFICES ASSUME PatchInv, ReadExtra PROVE PatchInv'
  OBVIOUS
<1>0. /\ stage = "extra" /\ stage' = "loop" /\ ctrl' = ctrl /\ newsize' = newsize
      /\ newpos' = newpos + ctrl[2] /\ oldpos' = Wrap(oldpos + ctrl[3]) /\ pold' = pold
      /\ folded' = (folded \/ oldpos + ctrl[3] \notin Long)
      /\ triples' = Append(triples, ctrl) /\ diffs' = diffs /\ newpos + ctrl[2] <= newsize
  BY DEF ReadExtra, Triple, Seek, Inside
<1>1. ctrl \in Seq(Int) /\ IsTriple(ctrl) /\ ctrl[2] \in Nat /\ ctrl[3] \in Int
  <2>1. ctrl \in Seq(Int) /\ Len(ctrl) = 3 /\ ctrl[1] >= 0
    BY <1>0 DEF PatchInv, MemoryOK, ControlInv
  <2>2. ctrl[2] \in Int
    <3>1. ctrl \in Seq(Int) /\ 2 \in 1..Len(ctrl)
      BY <2>1
    <3>. QED
      BY <3>1, ElementOfSeq
  <2>3. ctrl[2] = 0 \/ ctrl[2] > 0
    BY DEF ReadExtra, BZ2_bzRead, Triple
  <2>4. ctrl[2] >= 0
    BY <2>2, <2>3
  <2>5. IsTriple(ctrl)
    BY <2>1, <2>4 DEF IsTriple
  <2>. QED
    BY <2>1, <2>5, TripleType
<1>2. PICK s \in [1..ctrl[2] -> Byte] : extras' = extras \o s /\ pnew' = Written(newpos, s)
  BY DEF ReadExtra, Triple
<1>3. /\ newsize \in Nat /\ pnew \in Seq(Int) /\ Len(pnew) = newsize
      /\ newpos \in Nat /\ oldpos \in Int /\ AreTriples(triples)
      /\ diffs \in Seq(Byte) /\ extras \in Seq(Byte)
      /\ pold \in [1..oldsize -> Byte]
      /\ FullTo(pnew, newpos)
  BY <1>0 DEF PatchInv, MemoryOK, StageInv, Filled
<1>4. Ahead = ctrl[1] /\ Ahead' = 0
  BY <1>0 DEF Ahead
<1>5. pnew' = Put(pnew, newsize, newpos, s)
  BY <1>2 DEF Written, Put
<1> DEFINE y == ctrl[2]
           z == ctrl[3]
<1>6. y \in Nat /\ z \in Int /\ newpos + y <= newsize /\ s \in [1..y -> Byte]
  BY <1>0, <1>1
<1> HIDE DEF y, z
<1>7. /\ pnew' \in Seq(Int) /\ Len(pnew') = newsize
      /\ FullTo(pnew', newpos + y)
  <2>1. /\ Put(pnew, newsize, newpos, s) \in Seq(Int) /\ Len(Put(pnew, newsize, newpos, s)) = newsize
        /\ FullTo(Put(pnew, newsize, newpos, s), newpos + y)
    BY <1>3, <1>6, PutFills
  <2>. QED
    BY <1>5, <2>1
<1>8. extras \o s \in Seq(Byte)
  <2>1. s \in Seq(Byte)
    BY <1>6
  <2>. QED
    BY <1>3, <2>1
<1>9. AreTriples(triples')
  BY <1>0, <1>1, <1>3, OneMoreTriple
<1>10. MemoryOK' /\ Filled'
  <2>1. newpos' = newpos + y /\ newpos' \in Nat /\ newpos' <= newsize'
    BY <1>0, <1>3, <1>6 DEF y
  <2>2. oldpos' \in Int
    <3>1. oldpos + z \in Int /\ oldpos' = Wrap(oldpos + z)
      BY <1>0, <1>3, <1>6 DEF z
    <3>. QED
      BY <3>1, WrapType
  <2>3. ctrl' \in Seq(Int) /\ diffs' \in Seq(Byte) /\ extras' \in Seq(Byte) /\ newsize' \in Nat
    BY <1>0, <1>1, <1>2, <1>3, <1>8
  <2>. QED
    BY <1>0, <1>7, <1>9, <2>1, <2>2, <2>3 DEF MemoryOK, Filled
<1>11. ControlInv' /\ StageInv'
  BY <1>0, <1>3 DEF ControlInv, StageInv
<1>12. ASSUME Clean' PROVE Exact'
  <2>1. Clean /\ oldpos + ctrl[3] \in Long
    BY <1>0, <1>12 DEF Clean
  <2>2. Sums(triples, diffs, extras, newpos, oldpos, ctrl[1]) /\ Bytes(triples, diffs, extras, pnew, ctrl[1])
    BY <1>4, <2>1 DEF PatchInv, Exact
  <2>3. oldpos' = oldpos + ctrl[3] /\ oldpos' \in Long
    <3>1. oldpos + z \in Int /\ oldpos' = Wrap(oldpos + z) /\ oldpos + z \in Long
      BY <1>0, <1>3, <1>6, <2>1 DEF z
    <3>2. Wrap(oldpos + z) = oldpos + z
      BY <3>1, WrapType
    <3>. QED
      BY <3>1, <3>2 DEF z
  <2>4. /\ Sums(Append(triples, ctrl), diffs, extras \o s, newpos + ctrl[2], oldpos + ctrl[3], 0)
        /\ Bytes(Append(triples, ctrl), diffs, extras \o s, pnew', 0)
    BY <1>0, <1>1, <1>2, <1>3, <1>5, <2>2, ExtraStep
  <2>. QED
    BY <1>0, <1>2, <1>4, <2>3, <2>4 DEF Exact
<1>. QED
  BY <1>10, <1>11, <1>12 DEF PatchInv

(* Every step of a call of patch(), and every end of one, keeps the        *)
(* invariant.                                                              *)
LEMMA PatchStep == PatchInv /\ [PatchNext]_patchVars => PatchInv'
<1> SUFFICES ASSUME PatchInv, [PatchNext]_patchVars PROVE PatchInv'
  OBVIOUS
<1>c. ctrl \in Seq(Int)
  BY DEF PatchInv, MemoryOK
<1>1. CASE Patch
  BY <1>1, FreshOK DEF Patch
<1>2. CASE KillPatch \/ CorruptPatch
  BY <1>2, FreshOK DEF KillPatch, CorruptPatch, Exit
<1>3. CASE InstallNew
  BY <1>3, FreshOK DEF InstallNew
<1>4. CASE Restart
  <2>1. /\ stage = "dead" /\ stage' = "idle" /\ ctrl' = ctrl
        /\ UNCHANGED <<memory, position, history, folded>>
    BY <1>4 DEF Restart
  <2>2. ControlInv' /\ StageInv'
    BY <2>1 DEF ControlInv, StageInv
  <2>. QED
    BY <1>c, <2>1, <2>2, OutsideLoop DEF PatchInv
<1>5. CASE Loop
  <2>1. /\ stage = "loop" /\ stage' = (IF newpos < newsize THEN "control" ELSE "write") /\ ctrl' = << >>
        /\ UNCHANGED <<memory, position, history, folded>>
        /\ pold \in [1..oldsize -> Byte]
    BY <1>5 DEF Loop, PatchInv, StageInv
  <2>2. << >> \in Seq(Int) /\ Len(<< >>) = 0
    OBVIOUS
  <2>3. newpos \in Nat /\ newsize \in Nat /\ newpos <= newsize
    BY DEF PatchInv, MemoryOK
  <2>a. UNCHANGED <<newpos, newsize, pold>>
    BY <2>1 DEF position, memory
  <2>b. stage' = "control" \/ (stage' = "write" /\ newpos = newsize)
    BY <2>1, <2>3
  <2>c. Len(ctrl') <= 2
    BY <2>1, <2>2
  <2>4. ControlInv' /\ StageInv'
    <3>1. CASE stage' = "control"
      BY <2>1, <2>a, <2>c, <3>1 DEF ControlInv, StageInv
    <3>2. CASE stage' = "write" /\ newpos = newsize
      <4>1. newpos' = newsize'
        BY <2>a, <3>2
      <4>. QED
        BY <2>1, <2>a, <3>2, <4>1 DEF ControlInv, StageInv
    <3>. QED
      BY <2>b, <3>1, <3>2
  <2>. QED
    BY <2>1, <2>2, <2>4, OutsideLoop DEF PatchInv
<1>6. CASE ReadControl
  <2>1. /\ stage = "control" /\ stage' = (IF Len(ctrl) = 2 THEN "diff" ELSE "control")
        /\ UNCHANGED <<memory, position, history>> /\ (folded => folded')
        /\ pold \in [1..oldsize -> Byte] /\ pold' = pold
    BY <1>6 DEF ReadControl, PatchInv, StageInv, memory
  <2>2. PICK f \in Fields : ctrl' = Append(ctrl, offtin(f))
    BY <1>6 DEF ReadControl
  <2>3. offtin(f) \in Int
    BY FieldType
  <2>4. ctrl' \in Seq(Int) /\ Len(ctrl') = Len(ctrl) + 1 /\ Len(ctrl) \in Nat /\ Len(ctrl) <= 2
    BY <1>c, <2>1, <2>2, <2>3 DEF PatchInv, ControlInv
  <2>5. ControlInv' /\ StageInv'
    <3>1. \/ stage' = "diff" /\ Len(ctrl') = 3
          \/ stage' = "control" /\ Len(ctrl') <= 2
      <4>1. CASE Len(ctrl) = 2
        BY <2>1, <2>4, <4>1
      <4>2. CASE Len(ctrl) # 2
        <5>1. Len(ctrl') <= 2
          <6> DEFINE n == Len(ctrl)
                     m == Len(ctrl')
          <6>1. n \in Nat /\ n <= 2 /\ n # 2 /\ m = n + 1
            BY <2>4, <4>2
          <6> HIDE DEF n, m
          <6>2. m <= 2
            BY <6>1
          <6>. QED
            BY <6>2 DEF m
        <5>. QED
          BY <2>1, <4>2, <5>1
      <4>. QED
        BY <4>1, <4>2
    <3>. QED
      BY <2>1, <3>1 DEF ControlInv, StageInv
  <2>. QED
    BY <2>1, <2>4, <2>5, OutsideLoop DEF PatchInv
<1>7. CASE WriteNew
  <2>1. CASE Exit
    BY <2>1, FreshOK DEF Exit
  <2>2. CASE /\ stage' = "done" /\ UNCHANGED <<memory, position, ctrl, ended, folded, history>>
             /\ newFile' = pnew \/ short'
    <3>1. /\ stage = "write" /\ ctrl' = ctrl /\ newpos' = newpos
          /\ newsize' = newsize /\ pnew' = pnew /\ pold' = pold
      BY <1>7, <2>2 DEF WriteNew, position, memory
    <3>2. ControlInv' /\ StageInv'
      BY <2>2, <3>1 DEF ControlInv, StageInv, PatchInv
    <3>. QED
      BY <1>c, <2>2, <3>1, <3>2, OutsideLoop DEF PatchInv
  <2>. QED
    BY <1>7, <2>1, <2>2 DEF WriteNew
<1>9. CASE Overrun
  <2>1. /\ stage \in {"diff", "extra"} /\ stage' = "overrun" /\ ctrl' = ctrl
        /\ UNCHANGED <<newsize, pold, pnew, newpos, oldpos, triples, diffs, extras>>
        /\ ~Clean'
    BY <1>9 DEF Overrun, memory, position, history, Clean
  <2>2. MemoryOK' /\ ControlInv' /\ StageInv' /\ Filled'
    BY <2>1 DEF PatchInv, MemoryOK, ControlInv, StageInv, Filled
  <2>. QED
    BY <2>1, <2>2 DEF PatchInv
<1>8. CASE UNCHANGED patchVars
  <2>1. /\ UNCHANGED <<stage, newsize, pold, pnew, oldpos, newpos, ctrl, folded>>
        /\ UNCHANGED <<triples, diffs, extras, newFile, short>>
    BY <1>8 DEF patchVars, memory, position, history, disk
  <2>2. UNCHANGED Ahead
    BY <2>1 DEF Ahead
  <2>3. MemoryOK' /\ ControlInv' /\ StageInv' /\ Filled'
    BY <2>1 DEF PatchInv, MemoryOK, ControlInv, StageInv, Filled
  <2>4. Clean' => Exact'
    BY <2>1, <2>2 DEF PatchInv, Clean, Exact
  <2>. QED
    BY <2>3, <2>4 DEF PatchInv
<1>. QED
  BY <1>1, <1>2, <1>3, <1>4, <1>5, <1>6, <1>7, <1>8, <1>9, HeaderStep, ReadDiffStep, ReadExtraStep
  DEF PatchNext, Step

(* A new file that is full is what the triples mean.                       *)
LEMMA FullIsMeaning ==
  ASSUME PatchInv, Clean, stage \in {"write", "done"}
  PROVE  pnew = Meaning
<1>1. newpos = newsize /\ Ahead = 0
  BY DEF PatchInv, StageInv, Ahead
<1>2. /\ newsize \in Nat /\ pnew \in Seq(Int) /\ Len(pnew) = newsize /\ AreTriples(triples)
  BY DEF PatchInv, MemoryOK
<1>3. SumTo(News(triples), Len(triples)) = newsize
  <2>1. newpos = SumTo(News(triples), Len(triples)) + 0
    BY <1>1 DEF PatchInv, Exact, Sums
  <2>2. SumTo(News(triples), Len(triples)) \in Nat
    BY <1>2, SumsType
  <2>. QED
    BY <1>1, <2>1, <2>2
<1>4. \A n \in 1..newsize : pnew[n] = NewByte(n)
  BY <1>3, NewByteIs DEF PatchInv, Exact, Bytes
<1>5. pnew = [n \in 1..newsize |-> pnew[n]]
  BY <1>2
<1>. QED
  BY <1>4, <1>5 DEF Meaning

(* The first call finds nothing.                                           *)
LEMMA PatchStart == PatchInit => PatchInv
<1> SUFFICES ASSUME PatchInit PROVE PatchInv
  OBVIOUS
<1>1. << >> \in Seq(Int) /\ << >> \in Seq(Byte)
  OBVIOUS
<1>2. MemoryOK /\ ControlInv /\ StageInv /\ Ahead = 0
  BY <1>1, NothingRead DEF PatchInit, MemoryOK, ControlInv, StageInv, Ahead
<1>3. Sums(<< >>, << >>, << >>, 0, 0, 0) /\ Bytes(<< >>, << >>, << >>, << >>, 0)
  BY NothingRead DEF Sums, Bytes
<1>4. Filled /\ Exact
  BY <1>2, <1>3, ZeroIsLong DEF PatchInit, Filled, FullTo, Exact
<1>. QED
  BY <1>2, <1>4 DEF PatchInv

(* executePatch leaves its loop with every byte of the new file set,       *)
(* whatever folds and however little was read of the old file; and if      *)
(* neither happened, to what the triples it has read mean: for any old     *)
(* file, any patch, any width of a long and any seeks in the old file,     *)
(* past its ends too.                                                      *)
THEOREM ResultCorrect == PatchSpec => []ResultIsMeaning
<1>1. PatchInit => PatchInv
  BY PatchStart
<1>2. PatchInv => ResultIsMeaning
  <2> SUFFICES ASSUME PatchInv, stage = "write"
               PROVE  (\A n \in 1..newsize : pnew[n] \in Byte) /\ (Clean => pnew = Meaning)
    BY DEF ResultIsMeaning
  <2>1. newpos = newsize
    BY DEF PatchInv, StageInv
  <2>. QED
    BY <2>1, FullIsMeaning DEF PatchInv, Filled, FullTo
<1>. QED
  BY <1>1, <1>2, PatchStep, PTL DEF PatchSpec

(* What install() is given right after a call is what the patch of that    *)
(* call means, whatever earlier calls, errors and kills have left on the   *)
(* disk, unless a number folded or fread or fwrite fell short.             *)
THEOREM InstallsCorrect == PatchSpec => InstallsMeaning
<1>1. PatchInit => PatchInv
  BY PatchStart
<1>2. PatchInv /\ [PatchNext]_patchVars
        => [installed' # installed /\ Clean => short \/ installed' = Meaning]_patchVars
  <2> SUFFICES ASSUME PatchInv, PatchNext, installed' # installed, Clean, ~short
               PROVE  installed' = Meaning
    OBVIOUS
  <2>1. InstallNew
    BY DEF PatchNext, Step, Patch, KillPatch, Restart, ReadHeader, Loop, ReadControl, ReadDiff,
           ReadExtra, Overrun, CorruptPatch, WriteNew, disk
  <2>2. stage = "done" /\ installed' = newFile
    BY <2>1 DEF InstallNew
  <2>3. newFile = pnew
    BY <2>2 DEF PatchInv, StageInv
  <2>. QED
    BY <2>2, <2>3, FullIsMeaning
<1>. QED
  BY <1>1, <1>2, PatchStep, PTL DEF PatchSpec, InstallsMeaning
=============================================================================
