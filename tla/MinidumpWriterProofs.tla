------------------------ MODULE MinidumpWriterProofs ------------------------
(***************************************************************************)
(* Proofs about MinidumpWriter: which threads are stopped while the dump   *)
(* is written, that none stays stopped, and that a reported dump blames    *)
(* the thread that crashed.                                                *)
(*                                                                         *)
(* The writer's program is a queue of operations that errors cut short, so *)
(* the proof begins with what the queues contain, and before that with     *)
(* Selected, a recursive function: what it returns is shown by induction.  *)
(***************************************************************************)
EXTENDS MinidumpWriter, SequenceTheorems, FiniteSetTheorems, WellFoundedInduction, TLAPS

(* A set of naturals that is not empty has a least element.                *)
LEMMA LeastElement ==
  ASSUME NEW T \in SUBSET Nat, T # {}
  PROVE  \E m \in T : \A n \in T : m <= n
<1>1. IsWellFoundedOn(OpToRel(<, Nat), Nat)
  BY NatLessThanWellFounded
<1>2. PICK m \in T : \A y \in T : <<y, m>> \notin OpToRel(<, Nat)
  BY <1>1, WFMin
<1>3. \A y \in T : ~(y < m)
  BY <1>2 DEF OpToRel
<1>. QED
  BY <1>3

(* Induction, for a set in place of a predicate.                           *)
LEMMA SetInduction ==
  ASSUME NEW S, 0 \in S, \A n \in Nat : n \in S => n + 1 \in S
  PROVE  Nat \subseteq S
<1> DEFINE T == {n \in Nat : n \notin S}
<1>1. SUFFICES ASSUME T # {} PROVE FALSE
  OBVIOUS
<1>2. PICK m \in T : \A n \in T : m <= n
  BY <1>1, LeastElement
<1>3. m \in Nat /\ m # 0 /\ m \notin S
  BY <1>2
<1>4. m - 1 \in Nat /\ m - 1 \in S
  BY <1>2, <1>3
<1>. QED
  BY <1>3, <1>4

(* The recursive function of Selected exists, is typed, and takes the      *)
(* elements over one by one.                                               *)
LEMMA SelectedSteps ==
  ASSUME NEW A, NEW s \in Seq(A), NEW S
  PROVE  \E kept \in [0..Len(s) -> Seq(A)] :
           /\ Selected(s, S) = kept[Len(s)]
           /\ kept[0] = << >>
           /\ \A i \in 1..Len(s) :
                kept[i] = IF s[i] \in S THEN Append(kept[i - 1], s[i]) ELSE kept[i - 1]
<1> DEFINE Steps(g, n) ==
      /\ g \in [0..n -> Seq(A)]
      /\ g[0] = << >>
      /\ \A i \in 1..n : g[i] = IF s[i] \in S THEN Append(g[i - 1], s[i]) ELSE g[i - 1]
           Done == {n \in Nat : n <= Len(s) => \E g : Steps(g, n)}
<1>1. Nat \subseteq Done
  <2>1. 0 \in Done
    <3>1. Steps([i \in {0} |-> << >>], 0)
      BY DEF Steps
    <3>. QED
      BY <3>1
  <2>2. ASSUME NEW n \in Nat, n \in Done PROVE n + 1 \in Done
    <3>1. SUFFICES ASSUME n + 1 <= Len(s) PROVE \E g : Steps(g, n + 1)
      <4> HIDE DEF Steps
      <4>. QED
        OBVIOUS
    <3>2. PICK g : Steps(g, n)
      <4>1. n <= Len(s)
        BY <3>1
      <4> HIDE DEF Steps
      <4>. QED
        BY <2>2, <4>1
    <3> DEFINE x == IF s[n + 1] \in S THEN Append(g[n], s[n + 1]) ELSE g[n]
               h == [i \in 0..(n + 1) |-> IF i = n + 1 THEN x ELSE g[i]]
    <3>3. g[n] \in Seq(A) /\ s[n + 1] \in A
      BY <3>1, <3>2
    <3>4. x \in Seq(A)
      BY <3>3
    <3> HIDE DEF x
    <3>5. h \in [0..(n + 1) -> Seq(A)] /\ h[0] = << >>
      BY <3>2, <3>4
    <3>6. \A i \in 0..n : h[i] = g[i]
      OBVIOUS
    <3>7. h[n + 1] = x
      OBVIOUS
    <3>8. \A i \in 1..(n + 1) :
             h[i] = IF s[i] \in S THEN Append(h[i - 1], s[i]) ELSE h[i - 1]
      <4> TAKE i \in 1..(n + 1)
      <4>1. CASE i = n + 1
        <5>1. h[i - 1] = g[n]
          BY <4>1, <3>6
        <5>. QED
          BY <3>7, <4>1, <5>1 DEF x
      <4>2. CASE i \in 1..n
        <5>1. h[i] = g[i] /\ h[i - 1] = g[i - 1]
          BY <3>6, <4>2
        <5>. QED
          BY <3>2, <4>2, <5>1
      <4>. QED
        BY <4>1, <4>2
    <3>9. Steps(h, n + 1)
      BY <3>5, <3>8
    <3>. QED
      BY <3>9
  <2> HIDE DEF Done
  <2>. QED
    BY <2>1, <2>2, SetInduction
<1>2. PICK g : Steps(g, Len(s))
  <2>1. Len(s) \in Nat /\ Len(s) <= Len(s)
    OBVIOUS
  <2> HIDE DEF Steps
  <2>. QED
    BY <1>1, <2>1
<1> DEFINE Eq(f) == f = [i \in 0..Len(s) |-> IF i = 0 THEN << >>
                          ELSE IF s[i] \in S THEN Append(f[i - 1], s[i]) ELSE f[i - 1]]
           kept == CHOOSE f : Eq(f)
<1>3. Eq(g)
  <2>1. g = [i \in 0..Len(s) |-> g[i]]
    BY <1>2
  <2>2. \A i \in 0..Len(s) : g[i] = IF i = 0 THEN << >>
                          ELSE IF s[i] \in S THEN Append(g[i - 1], s[i]) ELSE g[i - 1]
    <3> TAKE i \in 0..Len(s)
    <3>1. i = 0 \/ i \in 1..Len(s)
      OBVIOUS
    <3>. QED
      BY <1>2, <3>1
  <2>. QED
    BY <2>1, <2>2
<1>4. Eq(kept)
  BY <1>3
<1>5. Selected(s, S) = kept[Len(s)]
  BY DEF Selected
<1> HIDE DEF kept
<1>6. /\ kept[0] = << >>
      /\ \A i \in 1..Len(s) :
           kept[i] = IF s[i] \in S THEN Append(kept[i - 1], s[i]) ELSE kept[i - 1]
  <2>1. ASSUME NEW i \in 0..Len(s)
        PROVE  kept[i] = IF i = 0 THEN << >>
                         ELSE IF s[i] \in S THEN Append(kept[i - 1], s[i]) ELSE kept[i - 1]
    BY <1>4
  <2>2. 0 \in 0..Len(s)
    OBVIOUS
  <2>3. \A i \in 1..Len(s) : i \in 0..Len(s) /\ i # 0
    OBVIOUS
  <2>. QED
    BY <2>1, <2>2, <2>3
<1>7. kept \in [0..Len(s) -> Seq(A)]
  <2> DEFINE Typed == {n \in Nat : n <= Len(s) => kept[n] \in Seq(A)}
  <2>1. 0 \in Typed
    <3>1. << >> \in Seq(A)
      BY EmptySeq
    <3>. QED
      BY <1>6, <3>1
  <2>2. ASSUME NEW n \in Nat, n \in Typed PROVE n + 1 \in Typed
    <3>1. SUFFICES ASSUME n + 1 <= Len(s) PROVE kept[n + 1] \in Seq(A)
      OBVIOUS
    <3>2. kept[n] \in Seq(A) /\ n + 1 \in 1..Len(s) /\ (n + 1) - 1 = n /\ s[n + 1] \in A
      BY <2>2, <3>1
    <3>3. kept[n + 1] = IF s[n + 1] \in S THEN Append(kept[n], s[n + 1]) ELSE kept[n]
      BY <1>6, <3>2
    <3>. QED
      BY <3>2, <3>3
  <2> HIDE DEF Typed
  <2>3. Nat \subseteq Typed
    BY <2>1, <2>2, SetInduction
  <2>4. \A i \in 0..Len(s) : kept[i] \in Seq(A)
    BY <2>3 DEF Typed
  <2>5. kept = [i \in 0..Len(s) |-> kept[i]]
    BY <1>4
  <2>. QED
    BY <2>4, <2>5
<1>. QED
  BY <1>5, <1>6, <1>7

(* Append adds one element.                                                *)
LEMMA RangeAppend ==
  ASSUME NEW A, NEW a \in Seq(A), NEW x \in A
  PROVE  Range(Append(a, x)) = Range(a) \cup {x}
<1> DEFINE b == Append(a, x)
<1>1. /\ b \in Seq(A) /\ Len(b) = Len(a) + 1 /\ b[Len(a) + 1] = x
      /\ \A i \in 1..Len(a) : b[i] = a[i]
  BY AppendProperties
<1> HIDE DEF b
<1>2. Range(b) = {b[i] : i \in 1..Len(b)} /\ Range(a) = {a[i] : i \in 1..Len(a)}
  BY <1>1, RangeEquality
<1>3. 1..Len(b) = 1..Len(a) \cup {Len(a) + 1}
  BY <1>1
<1>4. {b[i] : i \in 1..Len(b)} = {a[i] : i \in 1..Len(a)} \cup {x}
  BY <1>1, <1>3
<1>. QED
  BY <1>2, <1>4 DEF b

(* What Selected returns: the elements of s that are in S and no others,   *)
(* and the last one last. This is the fact about the list of threads that  *)
(* EnumerateThreads returns, and about the operations that are left after  *)
(* an error.                                                               *)
LEMMA SelectedRange ==
  ASSUME NEW A, NEW s \in Seq(A), NEW S
  PROVE  /\ Selected(s, S) \in Seq(A)
         /\ Range(Selected(s, S)) = Range(s) \cap S
         /\ s # << >> /\ s[Len(s)] \in S =>
              \E r \in Seq({s[i] : i \in 1..(Len(s) - 1)}) :
                 Selected(s, S) = Append(r, s[Len(s)])
<1>1. PICK kept \in [0..Len(s) -> Seq(A)] :
           /\ Selected(s, S) = kept[Len(s)]
           /\ kept[0] = << >>
           /\ \A i \in 1..Len(s) :
                kept[i] = IF s[i] \in S THEN Append(kept[i - 1], s[i]) ELSE kept[i - 1]
  BY SelectedSteps
<1> DEFINE Upto(n) == {s[i] : i \in 1..n}
           Fits(n) == Range(kept[n]) = Upto(n) \cap S /\ kept[n] \in Seq(Upto(n))
           Right == {n \in Nat : n <= Len(s) => Fits(n)}
<1>2. 0 \in Right
  <2>1. Range(<< >>) = {} /\ << >> \in Seq(Upto(0)) /\ Upto(0) = {}
    BY EmptySeq DEF Range
  <2>. QED
    BY <1>1, <2>1
<1>3. ASSUME NEW n \in Nat, n \in Right PROVE n + 1 \in Right
  <2>1. SUFFICES ASSUME n + 1 <= Len(s)
                 PROVE  Fits(n + 1)
    <3> HIDE DEF Fits
    <3>. QED
      OBVIOUS
  <2>2. /\ kept[n] \in Seq(A) /\ s[n + 1] \in A /\ n + 1 \in 1..Len(s) /\ n <= Len(s)
    BY <1>1, <2>1
  <2>8. Fits(n)
    <3> HIDE DEF Fits
    <3>. QED
      BY <1>3, <2>2
  <2>3. kept[n + 1] = IF s[n + 1] \in S THEN Append(kept[n], s[n + 1]) ELSE kept[n]
    BY <1>1, <2>2
  <2>4. Upto(n + 1) = Upto(n) \cup {s[n + 1]}
    OBVIOUS
  <2> HIDE DEF Upto
  <2>5. kept[n] \in Seq(Upto(n + 1))
    <3>1. Upto(n) \subseteq Upto(n + 1)
      BY <2>4
    <3>. QED
      BY <2>8, <3>1, SeqMonotonic
  <2>6. CASE s[n + 1] \in S
    <3>1. kept[n + 1] = Append(kept[n], s[n + 1])
      BY <2>3, <2>6
    <3>2. kept[n + 1] \in Seq(Upto(n + 1))
      <4>1. s[n + 1] \in Upto(n + 1)
        BY <2>4
      <4>. QED
        BY <2>5, <3>1, <4>1, AppendProperties
    <3>4. Range(kept[n + 1]) = Range(kept[n]) \cup {s[n + 1]}
      <4> DEFINE a == kept[n]
                 x == s[n + 1]
      <4>1. a \in Seq(A) /\ x \in A
        BY <2>2
      <4> HIDE DEF a, x
      <4>2. Range(Append(a, x)) = Range(a) \cup {x}
        BY <4>1, RangeAppend
      <4>. QED
        BY <3>1, <4>2 DEF a, x
    <3>. QED
      BY <2>8, <2>4, <2>6, <3>2, <3>4
  <2>7. CASE s[n + 1] \notin S
    BY <2>8, <2>3, <2>4, <2>5, <2>7
  <2>. QED
    BY <2>6, <2>7
<1>4. \A n \in 0..Len(s) : Fits(n)
  <2> HIDE DEF Fits
  <2>1. Nat \subseteq Right
    <3> HIDE DEF Right
    <3>. QED
      BY <1>2, <1>3, SetInduction
  <2>. QED
    BY <2>1
<1>5. Range(s) = Upto(Len(s))
  BY RangeEquality
<1>6. ASSUME s # << >>, s[Len(s)] \in S
      PROVE  \E r \in Seq(Upto(Len(s) - 1)) : Selected(s, S) = Append(r, s[Len(s)])
  <2>1. Len(s) \in 1..Len(s) /\ Len(s) - 1 \in 0..Len(s)
    BY <1>6, EmptySeq
  <2>2. kept[Len(s)] = Append(kept[Len(s) - 1], s[Len(s)])
    BY <1>1, <1>6, <2>1
  <2>3. kept[Len(s) - 1] \in Seq(Upto(Len(s) - 1))
    BY <1>4, <2>1
  <2>. QED
    BY <1>1, <2>2, <2>3
<1>7. Selected(s, S) \in Seq(A) /\ Range(Selected(s, S)) = Range(s) \cap S
  <2>1. Len(s) \in 0..Len(s)
    OBVIOUS
  <2>2. Fits(Len(s))
    BY <1>4, <2>1
  <2> HIDE DEF Upto
  <2>. QED
    BY <1>1, <1>5, <2>1, <2>2
<1>. QED
  BY <1>6, <1>7

----------------------------------------------------------------------------
(* The registers of the crashing thread.                                   *)
Cpu == <<"cpu", crash_thread>>
(* What the objects of a dump belong to, their kinds and their names.      *)
Owners == Threads \cup Int
Kinds ==
  {"header", "dir", "threads", "stack", "ip", "cpu", "modules", "cv", "name", "memory",
   "exception", "system", "csd_version", "linkmap", "dso_name", "dso"} \cup Files
Objects == Kinds \X Owners
(* The names of the operations but for the end of a stream.                *)
PlainNames ==
  {"alloc", "copy", "convert", "must", "flush", "locate", "thread", "module", "count",
   "link_map", "context"}

(* The operations that streams are made of. The only context anybody       *)
(* remembers is the crashing thread's, and the loops stay inside of what   *)
(* they go over.                                                           *)
PlainOp ==
  {p \in [op : PlainNames, obj : Objects, off : Int, len : Int] :
     /\ p.op = "context" => p = Context(Cpu)
     /\ p.op = "thread" => p = ThreadAt(p.off) /\ p.off \in 1..Len(threads_)
     /\ p.op = "module" => p.off \in 1..NumModules
     /\ p.op = "link_map" => p.off \in 1..MaxDsos}

(* The names the streams use are names of objects.                         *)
LEMMA ObjectNames ==
  /\ \A k \in Kinds, t \in Owners : <<k, t>> \in Objects
  /\ \A k \in Kinds : The(k) \in Objects
  /\ Threads \subseteq Owners /\ Int \subseteq Owners
  /\ Cpu \in Objects
<1>1. \A k \in Kinds, t \in Owners : <<k, t>> \in Objects
  BY DEF Objects
<1>2. 0 \in Owners /\ Threads \subseteq Owners /\ Int \subseteq Owners
  BY DEF Owners
<1>3. crash_thread \in Owners
  BY <1>2, DumperAssumption
<1>. QED
  BY <1>1, <1>2, <1>3 DEF The, Cpu, Kinds

(* Every constructor of an operation makes a plain one.                    *)
LEMMA PlainOps ==
  /\ \A o \in Objects, n \in Int : Alloc(o, n) \in PlainOp /\ Flush(o, n) \in PlainOp
  /\ \A o \in Objects, m, n \in Int : Copy(o, m, n) \in PlainOp /\ Must(o, m, n) \in PlainOp
  /\ \A o \in Objects, n \in Int : Convert(o, n) \in PlainOp
  /\ \A o \in Objects : Locate(o) \in PlainOp
  /\ \A i \in 1..Len(threads_) : ThreadAt(i) \in PlainOp
  /\ \A i \in 1..NumModules : ModuleAt(i) \in PlainOp
  /\ \A i \in 1..MaxDsos : DsoAt(i) \in PlainOp
  /\ Context(Cpu) \in PlainOp /\ CountDsos \in PlainOp
<1> USE DEF PlainOp, Operation, PlainNames
<1>4. \A o \in Objects, n \in Int : Alloc(o, n) \in PlainOp /\ Flush(o, n) \in PlainOp
  BY DEF Alloc, Flush
<1>5. \A o \in Objects, m, n \in Int : Copy(o, m, n) \in PlainOp /\ Must(o, m, n) \in PlainOp
  BY DEF Copy, Must
<1>6. \A o \in Objects : Locate(o) \in PlainOp
  BY DEF Locate
<1>7. \A i \in 1..Len(threads_) : ThreadAt(i) \in PlainOp
  BY ObjectNames DEF ThreadAt, Kinds
<1>8. \A i \in 1..NumModules : ModuleAt(i) \in PlainOp
  BY ObjectNames DEF ModuleAt, Kinds
<1>10. \A i \in 1..MaxDsos : DsoAt(i) \in PlainOp
  BY ObjectNames DEF DsoAt, Kinds
<1>9. Context(Cpu) \in PlainOp
  BY ObjectNames DEF Context
<1>11. CountDsos \in PlainOp
  BY ObjectNames DEF CountDsos, Kinds
<1>12. \A o \in Objects, n \in Int : Convert(o, n) \in PlainOp
  BY DEF Convert, Uint32
<1>. QED
  BY <1>4, <1>5, <1>6, <1>7, <1>8, <1>9, <1>10, <1>11, <1>12

(* The lengths are numbers.                                                *)
LEMMA Sizes ==
  /\ {StackLen, IpLen, BuildIdLen, FileLen, DynamicLen, PageSize, BufSize} \subseteq Nat
  /\ NumModules \in Nat /\ MaxDsos \in Nat
  /\ {MDRawHeader, MDRawDirectory, MDRawThread, RawContextCPU, MDRawModule, MDMemoryDescriptor,
      MDRawExceptionStream, MDRawSystemInfo, MDRawLinkMap, MDRawDebug, Uint32, kNumWriters}
       \subseteq Nat
  /\ \A m, n \in Int : m + n \in Int /\ m - n \in Int /\ m * n \in Int
<1>1. kNumWriters = 13
  BY DEF kNumWriters, Streams
<1>2. \A m, n \in Int : m + n \in Int /\ m - n \in Int /\ m * n \in Int
  OBVIOUS
<1>. QED
  BY <1>1, <1>2, DumperAssumption
     DEF MDRawHeader, MDRawDirectory, MDRawThread, RawContextCPU, MDRawModule, MDMemoryDescriptor,
         MDRawExceptionStream, MDRawSystemInfo, MDRawLinkMap, MDRawDebug, Uint32

(* The spelling of a string: its characters take at most a unit per byte.  *)
Name == {n \in [bytes : Nat, units : Nat] :
           n.units <= n.bytes /\ (n.units = 0 => n.bytes = 0)}
(* That of a string of a killed process.                                   *)
Empty == [bytes |-> 0, units |-> 0]

(* The strings have one.                                                   *)
LEMMA Names ==
  /\ \A m \in 1..NumModules : Spelling[<<"name", m>>] \in Name
  /\ \A i \in 1..MaxDsos : Spelling[<<"dso_name", i>>] \in Name
  /\ Spelling[The("csd_version")] \in Name
  /\ Empty \in Name
<1>1. \A o \in Strings : Spelling[o] \in Name
  BY DumperAssumption DEF Name
<1>. QED
  BY <1>1 DEF Strings, Empty, Name

(* WriteString is a sequence of plain operations.                          *)
LEMMA StringOps ==
  ASSUME NEW o \in Objects, NEW n \in Name
  PROVE  WriteString(o, n) \in Seq(PlainOp)
<1> DEFINE a == <<Alloc(o, Uint32 + 2 * (n.bytes + 1))>>
           b == IF n.units > 0 THEN <<Convert(o, 2 * n.units)>> ELSE << >>
           c == <<Must(o, Uint32 + 2 * n.bytes, 2), Flush(o, Uint32)>>
<1>1. /\ Uint32 \in Int /\ Uint32 + 2 * (n.bytes + 1) \in Int /\ 2 * n.units \in Int
      /\ Uint32 + 2 * n.bytes \in Int /\ 2 \in Int
  BY Sizes DEF Name
<1>2. /\ Alloc(o, Uint32 + 2 * (n.bytes + 1)) \in PlainOp
      /\ Convert(o, 2 * n.units) \in PlainOp
      /\ Must(o, Uint32 + 2 * n.bytes, 2) \in PlainOp
      /\ Flush(o, Uint32) \in PlainOp
  BY <1>1, PlainOps
<1>3. a \in Seq(PlainOp) /\ b \in Seq(PlainOp) /\ c \in Seq(PlainOp)
  BY <1>2, EmptySeq
<1>4. WriteString(o, n) = a \o b \o c
  BY DEF WriteString
<1> HIDE DEF a, b, c
<1>. QED
  BY <1>3, <1>4, ConcatProperties

(* A list is a sequence of plain operations, its items among them.         *)
LEMMA ListOps ==
  ASSUME NEW o \in Objects, NEW size \in Int, NEW items \in Seq(PlainOp)
  PROVE  /\ ListOf(o, size, items) \in Seq(PlainOp)
         /\ Range(items) \subseteq Range(ListOf(o, size, items))
<1> DEFINE a == <<Alloc(o, Uint32 + Len(items) * size), Locate(o)>>
           b == <<Flush(o, Uint32)>>
<1>1. Len(items) \in Int /\ Uint32 \in Int
  BY Sizes
<1>2. Len(items) * size \in Int
  BY <1>1, Sizes
<1>3. Uint32 + Len(items) * size \in Int
  BY <1>1, <1>2, Sizes
<1>4. a \in Seq(PlainOp) /\ b \in Seq(PlainOp)
  <2>1. /\ Alloc(o, Uint32 + Len(items) * size) \in PlainOp
        /\ Locate(o) \in PlainOp /\ Flush(o, Uint32) \in PlainOp
    BY <1>1, <1>3, PlainOps
  <2>. QED
    BY <2>1
<1>5. ListOf(o, size, items) = a \o items \o b
  BY DEF ListOf
<1> HIDE DEF a, b
<1>6. a \o items \in Seq(PlainOp) /\ a \o items \o b \in Seq(PlainOp)
  BY <1>4, ConcatProperties
<1>7. Range(a \o items) = Range(a) \cup Range(items)
  BY <1>4, RangeConcatenation
<1>8. Range(a \o items \o b) = Range(a \o items) \cup Range(b)
  BY <1>4, <1>6, RangeConcatenation
<1>. QED
  BY <1>5, <1>6, <1>7, <1>8

(* WriteThreadListStream visits every listed thread.                       *)
LEMMA ThreadListOps ==
  ASSUME threads_ \in Seq(Threads)
  PROVE  /\ WriteThreadListStream \in Seq(PlainOp)
         /\ \A i \in 1..Len(threads_) : ThreadAt(i) \in Range(WriteThreadListStream)
<1> DEFINE items == [i \in 1..Len(threads_) |-> ThreadAt(i)]
<1>1. items \in Seq(PlainOp) /\ \A i \in 1..Len(threads_) : ThreadAt(i) \in Range(items)
  <2>1. Len(threads_) \in Nat
    OBVIOUS
  <2>2. \A i \in 1..Len(threads_) : ThreadAt(i) \in PlainOp
    BY PlainOps
  <2>. QED
    BY <2>1, <2>2 DEF Range
<1>2. WriteThreadListStream = ListOf(The("threads"), MDRawThread, items)
  BY DEF WriteThreadListStream
<1>3. The("threads") \in Objects /\ MDRawThread \in Int
  BY ObjectNames, Sizes DEF Kinds
<1> HIDE DEF items
<1>. QED
  BY <1>1, <1>2, <1>3, ListOps

(* WriteMappings is a sequence of plain operations.                        *)
LEMMA ModuleListOps == WriteMappings \in Seq(PlainOp)
<1> DEFINE items == [m \in 1..NumModules |-> ModuleAt(m)]
<1>1. items \in Seq(PlainOp)
  BY PlainOps, Sizes
<1>2. The("modules") \in Objects /\ MDRawModule \in Int
  BY ObjectNames, Sizes DEF Kinds
<1> HIDE DEF items
<1>3. ListOf(The("modules"), MDRawModule, items) \in Seq(PlainOp)
  BY <1>1, <1>2, ListOps
<1>. QED
  BY <1>3 DEF WriteMappings, items

(* So is WriteMemoryListStream: it ends because there are finitely many    *)
(* objects.                                                                *)
LEMMA MemoryListOps ==
  ASSUME IsFiniteSet(DOMAIN objects)
  PROVE  WriteMemoryListStream \in Seq(PlainOp)
<1> DEFINE n == Cardinality(memory_blocks_)
           at(i) == Uint32 + (i - 1) * MDMemoryDescriptor
           items == [i \in 1..n |-> Copy(The("memory"), at(i), MDMemoryDescriptor)]
<1>1. n \in Nat
  <2>1. memory_blocks_ \subseteq DOMAIN objects
    BY DEF memory_blocks_
  <2>. QED
    BY <2>1, FS_Subset, FS_CardinalityType
<1>2. The("memory") \in Objects /\ MDMemoryDescriptor \in Int
  BY ObjectNames, Sizes DEF Kinds
<1>3. \A i \in Int : at(i) \in Int
  BY Sizes DEF MDMemoryDescriptor
<1> HIDE DEF n, at
<1>4. items \in Seq(PlainOp)
  BY <1>1, <1>2, <1>3, PlainOps
<1> HIDE DEF items
<1>5. ListOf(The("memory"), MDMemoryDescriptor, items) \in Seq(PlainOp)
  BY <1>2, <1>4, ListOps
<1>. QED
  BY <1>5 DEF WriteMemoryListStream, items, n, at

(* The lesser of two numbers is a number.                                  *)
LEMMA MinOfTwo ==
  ASSUME NEW m \in Int, NEW n \in Int
  PROVE  Min({m, n}) \in Int
<1>1. \E x \in {m, n} : \A y \in {m, n} : x <= y
  OBVIOUS
<1>2. Min({m, n}) \in {m, n}
  BY <1>1 DEF Min
<1>. QED
  BY <1>2

(* WriteFile is a sequence of plain operations, however many buffers the   *)
(* file takes.                                                             *)
LEMMA FileOps ==
  ASSUME NEW f \in Files
  PROVE  WriteFile(f) \in Seq(PlainOp)
<1> DEFINE n == (FileLen - 1) \div BufSize + 1
           from(k) == (k - 1) * BufSize
           size(k) == Min({BufSize, FileLen - (k - 1) * BufSize})
           items == [k \in 1..n |-> Copy(The(f), from(k), size(k))]
           a == <<Alloc(The(f), FileLen)>>
           b == <<Locate(The(f))>>
<1>1. n \in Nat
  <2>1. FileLen - 1 \in Nat /\ BufSize \in Nat /\ BufSize > 0
    BY DumperAssumption
  <2>. QED
    BY <2>1
<1>2. BufSize \in Int /\ FileLen \in Int
  BY Sizes
<1>3. \A k \in Int : from(k) \in Int
  BY <1>2
<1>4. \A k \in Int : size(k) \in Int
  <2> TAKE k \in Int
  <2>1. from(k) \in Int
    BY <1>3
  <2> HIDE DEF from
  <2>2. FileLen - from(k) \in Int
    BY <1>2, <2>1
  <2>3. Min({BufSize, FileLen - from(k)}) \in Int
    BY <1>2, <2>2, MinOfTwo
  <2>. QED
    BY <2>3 DEF from
<1>5. The(f) \in Objects
  BY ObjectNames DEF Kinds
<1>6. WriteFile(f) = a \o items \o b
  BY DEF WriteFile
<1> HIDE DEF n, from, size
<1>7. items \in Seq(PlainOp)
  <2>1. \A k \in 1..n : Copy(The(f), from(k), size(k)) \in PlainOp
    BY <1>1, <1>3, <1>4, <1>5, PlainOps
  <2>. QED
    BY <1>1, <2>1
<1>8. a \in Seq(PlainOp) /\ b \in Seq(PlainOp)
  <2>1. Alloc(The(f), FileLen) \in PlainOp /\ Locate(The(f)) \in PlainOp
    BY <1>2, <1>5, PlainOps
  <2>. QED
    BY <2>1
<1> HIDE DEF a, b, items
<1>. QED
  BY <1>6, <1>7, <1>8, ConcatProperties

(* So are the header and the streams with a fixed number of parts.         *)
LEMMA ShortOps ==
  /\ Header \in Seq(PlainOp)
  /\ WriteExceptionStream \in Seq(PlainOp)
  /\ WriteSystemInfoStream \in Seq(PlainOp)
  /\ WriteDSODebugStream \in Seq(PlainOp)
<1>1. Header \in Seq(PlainOp)
  <2>1. The("header") \in Objects /\ The("dir") \in Objects
    BY ObjectNames DEF Kinds
  <2>2. MDRawHeader \in Int /\ kNumWriters * MDRawDirectory \in Int
    BY Sizes DEF MDRawDirectory
  <2>3. /\ Alloc(The("header"), MDRawHeader) \in PlainOp
        /\ Alloc(The("dir"), kNumWriters * MDRawDirectory) \in PlainOp
        /\ Flush(The("header"), MDRawHeader) \in PlainOp
    BY <2>1, <2>2, PlainOps
  <2>. QED
    BY <2>3 DEF Header
<1>2. WriteExceptionStream \in Seq(PlainOp)
  <2>1. The("exception") \in Objects /\ MDRawExceptionStream \in Int
    BY ObjectNames, Sizes DEF Kinds
  <2>2. /\ Alloc(The("exception"), MDRawExceptionStream) \in PlainOp
        /\ Locate(The("exception")) \in PlainOp
        /\ Flush(The("exception"), MDRawExceptionStream) \in PlainOp
    BY <2>1, PlainOps
  <2>. QED
    BY <2>2 DEF WriteExceptionStream
<1>3. WriteSystemInfoStream \in Seq(PlainOp)
  <2> DEFINE a == <<Alloc(The("system"), MDRawSystemInfo), Locate(The("system"))>>
             b == WriteString(The("csd_version"), Spelling[The("csd_version")])
             c == <<Flush(The("system"), MDRawSystemInfo)>>
  <2>1. The("system") \in Objects /\ The("csd_version") \in Objects /\ MDRawSystemInfo \in Int
    BY ObjectNames, Sizes DEF Kinds
  <2>2. /\ Alloc(The("system"), MDRawSystemInfo) \in PlainOp
        /\ Locate(The("system")) \in PlainOp
        /\ Flush(The("system"), MDRawSystemInfo) \in PlainOp
    BY <2>1, PlainOps
  <2>3. a \in Seq(PlainOp) /\ c \in Seq(PlainOp)
    BY <2>2
  <2>4. b \in Seq(PlainOp)
    BY <2>1, StringOps, Names
  <2>5. WriteSystemInfoStream = a \o b \o c
    BY DEF WriteSystemInfoStream
  <2> HIDE DEF a, b, c
  <2>. QED
    BY <2>3, <2>4, <2>5, ConcatProperties
<1>4. WriteDSODebugStream \in Seq(PlainOp)
  <2>1. The("dso") \in Objects /\ MDRawDebug \in Int
        /\ DynamicLen \in Int /\ MDRawDebug + DynamicLen \in Int
    BY ObjectNames, Sizes DEF Kinds
  <2>2. /\ CountDsos \in PlainOp
        /\ Alloc(The("dso"), MDRawDebug + DynamicLen) \in PlainOp
        /\ Locate(The("dso")) \in PlainOp
        /\ Copy(The("dso"), MDRawDebug, DynamicLen) \in PlainOp
        /\ Flush(The("dso"), MDRawDebug) \in PlainOp
    BY <2>1, PlainOps
  <2>. QED
    BY <2>2 DEF WriteDSODebugStream
<1>. QED
  BY <1>1, <1>2, <1>3, <1>4

(* Every stream is a sequence of plain operations.                         *)
LEMMA StreamOps ==
  ASSUME threads_ \in Seq(Threads), IsFiniteSet(DOMAIN objects), NEW s \in Range(Streams)
  PROVE  Operations(s) \in Seq(PlainOp)
<1>1. s \in Files \cup {"threads", "modules", "memory", "exception", "system", "dso"}
  BY DEF Streams, Files, Range
<1>2. CASE s \in Files
  BY <1>2, FileOps DEF Operations, Files
<1>3. CASE s \notin Files
  BY <1>1, <1>3, ThreadListOps, ModuleListOps, MemoryListOps, ShortOps DEF Operations
<1>. QED
  BY <1>2, <1>3

(* So is what one thread adds; the crashing one's registers are            *)
(* remembered.                                                             *)
LEMMA ThreadOps ==
  ASSUME NEW t \in Threads, NEW i \in Int, NEW ip \in BOOLEAN
  PROVE  /\ WriteThread(t, i, ip) \in Seq(PlainOp)
         /\ t = crash_thread => Context(Cpu) \in Range(WriteThread(t, i, ip))
<1> DEFINE a == FillThreadStack(t)
           b == IpMemory(t, ip)
           c == <<Alloc(<<"cpu", t>>, RawContextCPU)>>
           d == ThreadContext(t)
           e == <<Flush(<<"cpu", t>>, RawContextCPU),
                  Copy(The("threads"), Uint32 + (i - 1) * MDRawThread, MDRawThread)>>
<1>1. /\ <<"stack", t>> \in Objects /\ <<"ip", t>> \in Objects /\ <<"cpu", t>> \in Objects
      /\ The("threads") \in Objects
  BY ObjectNames DEF Kinds
<1>2. /\ StackLen \in Int /\ IpLen \in Int /\ RawContextCPU \in Int /\ MDRawThread \in Int
      /\ Uint32 + (i - 1) * MDRawThread \in Int /\ 0 \in Int
  <2>1. Uint32 + (i - 1) * MDRawThread \in Int
    BY DEF MDRawThread, Uint32
  <2>. QED
    BY <2>1, Sizes
<1>3. /\ Alloc(<<"stack", t>>, StackLen) \in PlainOp /\ Copy(<<"stack", t>>, 0, StackLen) \in PlainOp
      /\ Alloc(<<"ip", t>>, IpLen) \in PlainOp /\ Copy(<<"ip", t>>, 0, IpLen) \in PlainOp
      /\ Alloc(<<"cpu", t>>, RawContextCPU) \in PlainOp
      /\ Flush(<<"cpu", t>>, RawContextCPU) \in PlainOp
      /\ Copy(The("threads"), Uint32 + (i - 1) * MDRawThread, MDRawThread) \in PlainOp
      /\ Context(Cpu) \in PlainOp
  BY <1>1, <1>2, PlainOps
<1>4. a \in Seq(PlainOp) /\ b \in Seq(PlainOp)
  BY <1>3, EmptySeq DEF FillThreadStack, IpMemory
<1>5. c \in Seq(PlainOp) /\ e \in Seq(PlainOp)
  BY <1>3
<1>6. d \in Seq(PlainOp) /\ (t = crash_thread => Context(Cpu) \in Range(d))
  <2>1. CASE t = crash_thread
    <3>1. d = <<Context(Cpu)>>
      BY <2>1 DEF ThreadContext, Cpu
    <3>2. Context(Cpu) = d[1] /\ 1 \in DOMAIN d
      BY <3>1
    <3>. QED
      BY <1>3, <3>1, <3>2 DEF Range
  <2>2. CASE t # crash_thread
    BY <2>2, EmptySeq DEF ThreadContext
  <2>. QED
    BY <2>1, <2>2
<1>7. WriteThread(t, i, ip) = a \o b \o c \o d \o e
  BY DEF WriteThread
<1> HIDE DEF a, b, c, d, e
<1>8. a \o b \in Seq(PlainOp)
  BY <1>4, ConcatProperties
<1>9. a \o b \o c \in Seq(PlainOp)
  BY <1>5, <1>8, ConcatProperties
<1> DEFINE x == a \o b \o c
           y == x \o d
<1>10. x \in Seq(PlainOp)
  BY <1>9
<1> HIDE DEF x
<1>11. y \in Seq(PlainOp) /\ Range(d) \subseteq Range(y)
  BY <1>6, <1>10, ConcatProperties, RangeConcatenation
<1> HIDE DEF y
<1>12. y \o e \in Seq(PlainOp) /\ Range(y) \subseteq Range(y \o e)
  BY <1>5, <1>11, ConcatProperties, RangeConcatenation
<1>13. WriteThread(t, i, ip) = y \o e
  BY <1>7 DEF x, y
<1>. QED
  BY <1>6, <1>11, <1>12, <1>13

(* So is what one module adds.                                             *)
LEMMA ModuleOps ==
  ASSUME NEW m \in 1..NumModules
  PROVE  FillRawModule(m) \in Seq(PlainOp)
<1> DEFINE a == IF m \in Identified
                THEN <<Alloc(<<"cv", m>>, Uint32 + BuildIdLen), Copy(<<"cv", m>>, 0, Uint32),
                       Copy(<<"cv", m>>, Uint32, BuildIdLen)>>
                ELSE << >>
           b == WriteString(<<"name", m>>, Spelling[<<"name", m>>])
           c == <<Copy(The("modules"), Uint32 + (m - 1) * MDRawModule, MDRawModule)>>
<1>1. <<"cv", m>> \in Objects /\ <<"name", m>> \in Objects /\ The("modules") \in Objects
  BY ObjectNames DEF Kinds
<1>2. /\ Uint32 + BuildIdLen \in Int /\ Uint32 \in Int /\ BuildIdLen \in Int
      /\ MDRawModule \in Int /\ Uint32 + (m - 1) * MDRawModule \in Int /\ 0 \in Int
  BY Sizes DEF MDRawModule
<1>3. /\ Alloc(<<"cv", m>>, Uint32 + BuildIdLen) \in PlainOp
      /\ Copy(<<"cv", m>>, 0, Uint32) \in PlainOp
      /\ Copy(<<"cv", m>>, Uint32, BuildIdLen) \in PlainOp
      /\ Copy(The("modules"), Uint32 + (m - 1) * MDRawModule, MDRawModule) \in PlainOp
  BY <1>1, <1>2, PlainOps
<1>4. a \in Seq(PlainOp) /\ c \in Seq(PlainOp)
  BY <1>3, EmptySeq
<1>5. b \in Seq(PlainOp)
  BY <1>1, Names, StringOps
<1>6. FillRawModule(m) = a \o b \o c
  BY DEF FillRawModule
<1> HIDE DEF a, b, c
<1>. QED
  BY <1>4, <1>5, <1>6, ConcatProperties

(* The name of a shared object, and what it adds, as NextDso has it.       *)
DsoName(i) == IF killed THEN Empty ELSE Spelling[<<"dso_name", i>>]
DsoOperations(i) ==
  WriteString(<<"dso_name", i>>, DsoName(i))
    \o <<Copy(The("linkmap"), (i - 1) * MDRawLinkMap, MDRawLinkMap)>>
    \o (IF i < dsos /\ ~killed THEN <<DsoAt(i + 1)>> ELSE << >>)

(* It is a sequence of plain operations.                                   *)
LEMMA DsoOps ==
  ASSUME dsos \in 0..MaxDsos, NEW i \in 1..MaxDsos
  PROVE  DsoOperations(i) \in Seq(PlainOp)
<1> DEFINE a == WriteString(<<"dso_name", i>>, DsoName(i))
           b == <<Copy(The("linkmap"), (i - 1) * MDRawLinkMap, MDRawLinkMap)>>
           c == IF i < dsos /\ ~killed THEN <<DsoAt(i + 1)>> ELSE << >>
<1>1. <<"dso_name", i>> \in Objects /\ The("linkmap") \in Objects
  BY ObjectNames DEF Kinds
<1>2. MDRawLinkMap \in Int /\ (i - 1) * MDRawLinkMap \in Int /\ (i < dsos => i + 1 \in 1..MaxDsos)
  BY Sizes DEF MDRawLinkMap
<1>3. /\ Copy(The("linkmap"), (i - 1) * MDRawLinkMap, MDRawLinkMap) \in PlainOp
      /\ i < dsos => DsoAt(i + 1) \in PlainOp
  BY <1>1, <1>2, PlainOps
<1>4. b \in Seq(PlainOp) /\ c \in Seq(PlainOp)
  BY <1>3, EmptySeq
<1>5. a \in Seq(PlainOp)
  <2>1. DsoName(i) \in Name
    BY Names DEF DsoName
  <2>. QED
    BY <1>1, <2>1, StringOps
<1>6. DsoOperations(i) = a \o b \o c
  BY DEF DsoOperations
<1> HIDE DEF a, b, c
<1>. QED
  BY <1>4, <1>5, <1>6, ConcatProperties

----------------------------------------------------------------------------
(* What may be queued in stream k: plain operations, and behind them the   *)
(* end of the stream, once it is a stream of the directory.                *)
Queue(q, k) ==
  IF k = 0 THEN q \in Seq(PlainOp)
           ELSE q = << >> \/ \E r \in Seq(PlainOp) : q = Append(r, Entry)

(* Any operation.                                                          *)
AnyOp == PlainOp \cup {Entry}

(* The end of a stream is no plain operation.                              *)
LEMMA EntryApart ==
  /\ Entry.op = "entry" /\ Entry \notin PlainOp
  /\ \A p \in PlainOp : p.op # "entry"
BY DEF Entry, Operation, PlainOp, PlainNames

(* A queue is a sequence of operations.                                    *)
LEMMA QueueIsSeq ==
  ASSUME NEW k, NEW q, Queue(q, k)
  PROVE  q \in Seq(AnyOp)
<1>1. PlainOp \subseteq AnyOp /\ Entry \in AnyOp
  BY DEF AnyOp
<1>2. Seq(PlainOp) \subseteq Seq(AnyOp)
  BY <1>1, SeqMonotonic
<1>3. \A r \in Seq(AnyOp) : Append(r, Entry) \in Seq(AnyOp)
  BY <1>1, AppendProperties
<1>. QED
  BY <1>2, <1>3, EmptySeq DEF Queue

(* A sequence splits into its head and the rest.                           *)
LEMMA HeadAndTail ==
  ASSUME NEW A, NEW q \in Seq(A), q # << >>
  PROVE  /\ Head(q) \in A /\ Tail(q) \in Seq(A) /\ Head(q) \in Range(q)
         /\ Range(q) = Range(Tail(q)) \cup {Head(q)}
<1> DEFINE h == Head(q)
           t == Tail(q)
<1>1. h \in A /\ t \in Seq(A) /\ q = <<h>> \o t /\ <<h>> \in Seq(A)
  BY HeadTailProperties
<1> HIDE DEF h, t
<1>2. Range(q) = Range(<<h>>) \cup Range(t)
  BY <1>1, RangeConcatenation
<1>3. Range(<<h>>) = {h}
  BY DEF Range
<1>. QED
  BY <1>1, <1>2, <1>3 DEF h, t

(* A queue stays one when a plain operation is taken from it and others    *)
(* are put in its place.                                                   *)
LEMMA QueueStep ==
  ASSUME NEW k, NEW q, Queue(q, k), q # << >>, Head(q) # Entry
  PROVE  /\ Head(q) \in PlainOp
         /\ Queue(Tail(q), k)
         /\ k # 0 => Tail(q) # << >>
         /\ \A r \in Seq(PlainOp) : /\ Queue(r \o Tail(q), k)
                                    /\ Range(r \o Tail(q)) = Range(r) \cup Range(Tail(q))
                                    /\ k # 0 => r \o Tail(q) # << >>
<1>1. q \in Seq(AnyOp)
  BY QueueIsSeq
<1>2. Tail(q) \in Seq(AnyOp) /\ Head(q) \in AnyOp
  BY <1>1, HeadAndTail
<1>3. PlainOp \subseteq AnyOp
  BY DEF AnyOp
<1>4. Seq(PlainOp) \subseteq Seq(AnyOp)
  BY <1>3, SeqMonotonic
<1>5. \A r \in Seq(PlainOp) : Range(r \o Tail(q)) = Range(r) \cup Range(Tail(q))
  BY <1>2, <1>4, RangeConcatenation
<1>6. CASE k = 0
  <2>1. q \in Seq(PlainOp)
    BY <1>6 DEF Queue
  <2>2. Tail(q) \in Seq(PlainOp) /\ Head(q) \in PlainOp
    BY <2>1, HeadAndTail
  <2>3. \A r \in Seq(PlainOp) : r \o Tail(q) \in Seq(PlainOp)
    BY <2>2, ConcatProperties
  <2>. QED
    BY <1>5, <1>6, <2>2, <2>3 DEF Queue
<1>7. CASE k # 0
  <2>1. PICK r \in Seq(PlainOp) : q = Append(r, Entry)
    BY <1>7 DEF Queue
  <2>2. r # << >>
    <3>1. ASSUME r = << >> PROVE FALSE
      BY <2>1, <3>1
    <3>. QED
      BY <3>1
  <2>3. Head(q) = Head(r) /\ Tail(q) = Append(Tail(r), Entry)
    BY <2>1, <2>2
  <2>4. Tail(r) \in Seq(PlainOp) /\ Head(r) \in PlainOp
    BY <2>2, HeadAndTail
  <2>5. \A u \in Seq(PlainOp) : /\ u \o Tail(r) \in Seq(PlainOp)
                                /\ u \o Append(Tail(r), Entry) = Append(u \o Tail(r), Entry)
    BY <2>4
  <2>6. \A u \in Seq(PlainOp) : Append(u, Entry) # << >>
    OBVIOUS
  <2>7. \A u \in Seq(PlainOp) : Queue(u \o Tail(q), k) /\ u \o Tail(q) # << >>
    BY <1>7, <2>3, <2>5, <2>6 DEF Queue
  <2>8. Queue(Tail(q), k) /\ Tail(q) # << >>
    BY <1>7, <2>3, <2>4, <2>6 DEF Queue
  <2>. QED
    BY <1>5, <2>3, <2>4, <2>7, <2>8
<1>. QED
  BY <1>6, <1>7

(* The end of a stream is the last operation in its queue.                 *)
LEMMA QueueEnds ==
  ASSUME NEW k, NEW q, Queue(q, k), q # << >>, Head(q).op = "entry"
  PROVE  k # 0 /\ Tail(q) = << >>
<1>1. Head(q) \notin PlainOp
  BY EntryApart
<1>2. k # 0
  <2>1. ASSUME k = 0 PROVE FALSE
    <3>1. q \in Seq(PlainOp)
      BY <2>1 DEF Queue
    <3>2. Head(q) \in PlainOp
      BY <3>1, HeadAndTail
    <3>. QED
      BY <1>1, <3>2
  <2>. QED
    BY <2>1
<1>3. PICK r \in Seq(PlainOp) : q = Append(r, Entry)
  BY <1>2 DEF Queue
<1>4. r = << >>
  <2>1. ASSUME r # << >> PROVE FALSE
    <3>1. Head(q) = Head(r)
      BY <1>3, <2>1
    <3>2. Head(r) \in PlainOp
      BY <2>1, HeadAndTail
    <3>. QED
      BY <1>1, <3>1, <3>2
  <2>. QED
    BY <2>1
<1>5. q = <<Entry>>
  BY <1>3, <1>4
<1>. QED
  BY <1>2, <1>5

(* Dropping operations leaves a queue if the end of the stream stays.      *)
LEMMA QueueSelected ==
  ASSUME NEW k, NEW q, Queue(q, k), NEW S, k # 0 => Entry \in S
  PROVE  Queue(Selected(q, S), k) /\ (k # 0 /\ q # << >> => Selected(q, S) # << >>)
<1>1. CASE k = 0
  <2>1. q \in Seq(PlainOp)
    BY <1>1 DEF Queue
  <2>2. Selected(q, S) \in Seq(PlainOp)
    BY <2>1, SelectedRange
  <2>. QED
    BY <1>1, <2>2 DEF Queue
<1>2. CASE k # 0 /\ q = << >>
  <2>1. q \in Seq({}) /\ Range(q) = {}
    BY <1>2, EmptySeq DEF Range
  <2>2. Selected(q, S) \in Seq({})
    BY <2>1, SelectedRange
  <2>3. Selected(q, S) = << >>
    BY <2>2
  <2>. QED
    BY <1>2, <2>3 DEF Queue
<1>3. CASE k # 0 /\ q # << >>
  <2>1. PICK r \in Seq(PlainOp) : q = Append(r, Entry)
    BY <1>3 DEF Queue
  <2>2. q \in Seq(AnyOp)
    BY QueueIsSeq
  <2>3. q[Len(q)] = Entry /\ Len(q) = Len(r) + 1 /\ \A i \in 1..Len(r) : q[i] = r[i]
    BY <2>1
  <2>4. {q[i] : i \in 1..(Len(q) - 1)} \subseteq PlainOp
    BY <2>3
  <2>5. PICK u \in Seq({q[i] : i \in 1..(Len(q) - 1)}) : Selected(q, S) = Append(u, q[Len(q)])
    BY <1>3, <2>2, <2>3, SelectedRange
  <2>6. u \in Seq(PlainOp)
    BY <2>4, SeqMonotonic
  <2>7. \A v \in Seq(PlainOp) : Append(v, Entry) # << >>
    OBVIOUS
  <2>. QED
    BY <1>3, <2>3, <2>5, <2>6, <2>7 DEF Queue
<1>. QED
  BY <1>1, <1>2, <1>3

----------------------------------------------------------------------------
(* The threads that are stopped or will be.                                *)
Stopped == {t \in Threads : life[t] \in {"attached", "stopped"}}
(* Those that were attached to.                                            *)
Held == {t \in Threads : life[t] \in {"attached", "stopped", "ended"}}
(* The first n threads of the dumper's list.                               *)
Listed(n) == {threads_[j] : j \in 1..n}
(* Nobody else traces the crashing thread.                                 *)
Traceable == crash_thread \notin debugged

(* What a thread can be.                                                   *)
Lives == {"unborn", "running", "attached", "stopped", "ended", "gone"}

(* Types, and what a SIGKILL means: the crashing thread waits for the      *)
(* child, so it is gone only when all are. A thread that is attached to    *)
(* and has not stopped is the one the dumper waits for.                    *)
LifeInv ==
  /\ life \in [Threads -> Lives]
  /\ life[crash_thread] # "unborn"
  /\ killed => \A t \in Threads : life[t] = "gone"
  /\ pc \in {"init", "suspend", "wait", "open", "dump", "close", "resume", "returned"}
  /\ threads_ \in Seq(Threads) /\ threads_suspended_ \in BOOLEAN /\ index \in Nat
  /\ \A t \in Threads : life[t] = "attached" => pc = "wait" /\ t = threads_[index]

(* The inductive invariant of LinuxPtraceDumper. While ThreadsSuspend runs *)
(* the threads it attached to are the ones before index; afterwards they   *)
(* are the ones in the list, for which threads_suspended_ is kept, so that *)
(* ThreadsResume finds all of them on any way out. Only a killed process   *)
(* loses its crashing thread from the list.                                *)
SuspendInv ==
  /\ pc = "init" => Held = {} /\ index = 1
  /\ pc = "suspend" =>
       /\ index \in 1..(Len(threads_) + 1)
       /\ ~killed => /\ Held = Listed(index - 1)
                     /\ Traceable => crash_thread \in Listed(Len(threads_))
  /\ pc = "wait" =>
       /\ index \in 1..Len(threads_)
       /\ ~killed => /\ Held = Listed(index)
                     /\ Traceable => crash_thread \in Listed(Len(threads_))
  /\ pc \in {"open", "dump"} =>
       /\ threads_suspended_ /\ threads_ # << >>
       /\ ~killed => /\ Held = Listed(Len(threads_))
                     /\ Traceable => crash_thread \in Listed(Len(threads_))
  /\ pc \in {"close", "resume"} =>
       Stopped = {} \/ (threads_suspended_ /\ Stopped \subseteq Listed(Len(threads_)))
  /\ pc = "returned" => Stopped = {}

(* The crashing thread exists from the beginning.                          *)
LEMMA CrashIsThread == crash_thread \in Threads /\ crash_thread \notin Late
BY DumperAssumption

(* No thread of a killed process is stopped, and who is stopped was        *)
(* attached to.                                                            *)
LEMMA KilledStopsNone ==
  /\ LifeInv /\ killed => Stopped = {}
  /\ Stopped \subseteq Held
BY DEF LifeInv, Stopped, Held

(* The whole list.                                                         *)
LEMMA ListedIsRange ==
  ASSUME LifeInv
  PROVE  Listed(Len(threads_)) = Range(threads_)
BY RangeEquality DEF LifeInv, Listed

(* RemoveAt moves the elements behind i up by one.                         *)
LEMMA RemoveAtOne ==
  ASSUME NEW A, NEW s \in Seq(A), NEW i \in 1..Len(s)
  PROVE  /\ RemoveAt(s, i) \in Seq(A)
         /\ Len(RemoveAt(s, i)) = Len(s) - 1
         /\ \A j \in 1..(Len(s) - 1) : RemoveAt(s, i)[j] = IF j < i THEN s[j] ELSE s[j + 1]
<1> DEFINE a == SubSeq(s, 1, i - 1)
           b == SubSeq(s, i + 1, Len(s))
<1>1. /\ a \in Seq(A) /\ Len(a) = i - 1
      /\ \A j \in 1..(i - 1) : a[j] = s[j]
  OBVIOUS
<1>2. /\ b \in Seq(A) /\ Len(b) = Len(s) - i
      /\ \A j \in 1..(Len(s) - i) : b[j] = s[i + j]
  OBVIOUS
<1>3. RemoveAt(s, i) = a \o b
  BY DEF RemoveAt
<1> HIDE DEF a, b
<1>4. /\ a \o b \in Seq(A) /\ Len(a \o b) = Len(a) + Len(b)
      /\ \A j \in 1..(Len(a) + Len(b)) : (a \o b)[j] = IF j <= Len(a) THEN a[j] ELSE b[j - Len(a)]
  BY <1>1, <1>2, ConcatProperties
<1>5. ASSUME NEW j \in 1..(Len(s) - 1)
      PROVE  (a \o b)[j] = IF j < i THEN s[j] ELSE s[j + 1]
  <2>1. CASE j < i
    BY <1>1, <1>2, <1>4, <2>1
  <2>2. CASE ~(j < i)
    <3>1. j - (i - 1) \in 1..(Len(s) - i) /\ i + (j - (i - 1)) = j + 1
      BY <2>2
    <3>2. (a \o b)[j] = b[j - (i - 1)]
      BY <1>1, <1>2, <1>4, <2>2
    <3>3. b[j - (i - 1)] = s[j + 1]
      BY <1>2, <3>1
    <3>. QED
      BY <2>2, <3>2, <3>3
  <2>. QED
    BY <2>1, <2>2
<1>. QED
  BY <1>1, <1>2, <1>3, <1>4, <1>5

(* The invariant holds at the beginning.                                   *)
LEMMA InitSuspend == Init => LifeInv /\ SuspendInv
<1> SUFFICES ASSUME Init PROVE LifeInv /\ SuspendInv
  OBVIOUS
<1>1. life \in [Threads -> Lives] /\ life[crash_thread] = "running"
      /\ \A t \in Threads : life[t] \in {"unborn", "running"}
  BY CrashIsThread DEF Init, Lives
<1>2. threads_ \in Seq(Threads)
  BY EmptySeq DEF Init
<1>. QED
  BY <1>1, <1>2 DEF Init, LifeInv, SuspendInv, Held, killed

(* Steps of the writer that touch neither process nor dumper keep it.      *)
LEMMA UndisturbedSuspend ==
  ASSUME LifeInv, SuspendInv, UNCHANGED <<life, debugged, dumper, pc>>
  PROVE  LifeInv' /\ SuspendInv'
BY DEF LifeInv, SuspendInv, Stopped, Held, Listed, Traceable, killed, dumper

(* After ThreadsResume no thread is stopped.                               *)
LEMMA ResumeReleases ==
  ASSUME LifeInv, Stopped = {} \/ (threads_suspended_ /\ Stopped \subseteq Listed(Len(threads_))),
         pc # "wait", ThreadsResume, pc' \in {"close", "returned"}
  PROVE  LifeInv' /\ SuspendInv'
<1>1. /\ life' \in [Threads -> Lives]
      /\ \A t \in Threads : life'[t] \notin {"attached", "stopped"}
      /\ \A t \in Threads : life[t] = "gone" => life'[t] = "gone"
      /\ \A t \in Threads : life[t] \notin {"gone", "unborn"} => life'[t] \notin {"gone", "unborn"}
  BY ListedIsRange DEF LifeInv, ThreadsResume, Stopped, Lives
<1>2. Stopped' = {}
  BY <1>1 DEF Stopped
<1>3. LifeInv'
  BY <1>1, CrashIsThread DEF LifeInv, ThreadsResume, killed
<1>. QED
  BY <1>2, <1>3 DEF SuspendInv

(* One turn of the loop in ThreadsSuspend keeps the invariant. When the    *)
(* crashing thread turns up a second time it is stopped already, so that   *)
(* leaving it out there leaves it in the list.                             *)
LEMMA SuspendedNext ==
  ASSUME LifeInv, SuspendInv, SuspendNext
  PROVE  LifeInv' /\ SuspendInv'
<1> DEFINE t == threads_[index]
<1>1. pc = "suspend" /\ index \in 1..Len(threads_) /\ t \in Threads
      /\ UNCHANGED <<debugged, threads_suspended_>>
  BY DEF SuspendNext, SuspendInv, LifeInv
<1>2. CASE Attaches(t) /\ life' = [life EXCEPT ![t] = "attached"] /\ pc' = "wait"
           /\ UNCHANGED <<threads_, index>>
  <2>1. ~killed
    BY <1>1, <1>2 DEF LifeInv, Attaches
  <2>2. ~killed'
    BY <1>1, <1>2, <2>1, CrashIsThread DEF killed, LifeInv
  <2>3. LifeInv'
    BY <1>1, <1>2, <2>1, <2>2, CrashIsThread DEF LifeInv, Attaches, killed, Lives
  <2>4. Held' = Held \cup {t}
    BY <1>1, <1>2 DEF Held, LifeInv
  <2>5. Listed(index - 1) \cup {t} = Listed(index)
    BY <1>1 DEF Listed
  <2>6. Listed(index)' = Listed(index) /\ Listed(Len(threads_))' = Listed(Len(threads_))
    BY <1>1, <1>2 DEF Listed
  <2>. QED
    BY <1>1, <1>2, <2>1, <2>3, <2>4, <2>5, <2>6 DEF SuspendInv, Traceable
<1>3. CASE ~Attaches(t) /\ DropThread(index) /\ UNCHANGED <<life, pc>>
  <2>1. /\ threads_' \in Seq(Threads) /\ Len(threads_') = Len(threads_) - 1 /\ index' = index
        /\ \A j \in 1..(Len(threads_) - 1) :
             threads_'[j] = IF j < index THEN threads_[j] ELSE threads_[j + 1]
    BY <1>1, <1>3, RemoveAtOne DEF DropThread, LifeInv
  <2>2. Held' = Held /\ (killed' <=> killed)
    BY <1>3 DEF Held, killed
  <2>3. LifeInv'
    BY <1>1, <1>3, <2>1 DEF LifeInv, killed
  <2>4. Listed(index - 1)' = Listed(index - 1)
    <3>1. \A j \in 1..(index - 1) : threads_'[j] = threads_[j]
      BY <1>1, <2>1
    <3>. QED
      BY <2>1, <3>1 DEF Listed
  <2>5. ASSUME ~killed, Traceable PROVE crash_thread \in Listed(Len(threads_))'
    <3>1. PICK j \in 1..Len(threads_) : threads_[j] = crash_thread
      BY <1>1, <2>5 DEF SuspendInv, Listed
    <3>2. PICK k \in 1..Len(threads_) : threads_[k] = crash_thread /\ k # index
      <4>1. CASE j # index
        BY <3>1, <4>1
      <4>2. CASE j = index
        <5>1. life[crash_thread] \in {"stopped", "ended"}
          BY <1>1, <1>3, <2>5, <3>1, <4>2, CrashIsThread
             DEF Attaches, Traceable, LifeInv, killed, Lives
        <5>2. crash_thread \in Listed(index - 1)
          BY <1>1, <2>5, <5>1, CrashIsThread DEF SuspendInv, Held
        <5>3. PICK k \in 1..(index - 1) : threads_[k] = crash_thread
          BY <5>2 DEF Listed
        <5>. QED
          BY <1>1, <5>3
      <4>. QED
        BY <4>1, <4>2
    <3>3. CASE k < index
      <4>1. k \in 1..(Len(threads_) - 1) /\ threads_'[k] = crash_thread
        BY <1>1, <2>1, <3>2, <3>3
      <4>. QED
        BY <2>1, <4>1 DEF Listed
    <3>4. CASE k > index
      <4>1. k - 1 \in 1..(Len(threads_) - 1) /\ ~(k - 1 < index) /\ (k - 1) + 1 = k
        BY <1>1, <3>2, <3>4
      <4>2. threads_'[k - 1] = crash_thread
        BY <2>1, <3>2, <4>1
      <4>. QED
        BY <2>1, <4>1, <4>2 DEF Listed
    <3>. QED
      BY <1>1, <3>2, <3>3, <3>4
  <2>6. index' \in 1..(Len(threads_') + 1)
    BY <1>1, <2>1
  <2>. QED
    BY <1>1, <1>3, <2>2, <2>3, <2>4, <2>5, <2>6 DEF SuspendInv, Traceable
<1>. QED
  BY <1>2, <1>3 DEF SuspendNext

(* waitpid keeps it: the thread that was attached to stays in the list,    *)
(* stopped or ended.                                                       *)
LEMMA SuspendedWait ==
  ASSUME LifeInv, SuspendInv, WaitForStop
  PROVE  LifeInv' /\ SuspendInv'
<1> DEFINE t == threads_[index]
<1>1. /\ pc = "wait" /\ pc' = "suspend" /\ index \in 1..Len(threads_) /\ t \in Threads
      /\ index' = index + 1 /\ UNCHANGED <<debugged, threads_, threads_suspended_>>
      /\ life' = IF life[t] = "attached" THEN [life EXCEPT ![t] = "stopped"] ELSE life
  BY DEF WaitForStop, SuspendInv, LifeInv
<1>2. /\ life' \in [Threads -> Lives]
      /\ \A u \in Threads : life'[u] # "attached"
      /\ \A u \in Threads : life'[u] = life[u] \/ (life[u] = "attached" /\ life'[u] = "stopped")
  BY <1>1 DEF LifeInv, Lives
<1>3. (killed' <=> killed) /\ Held' = Held
  BY <1>2, CrashIsThread DEF killed, Held
<1>4. LifeInv'
  BY <1>1, <1>2, <1>3, CrashIsThread DEF LifeInv, killed
<1>5. Listed(index - 1)' = Listed(index) /\ Listed(Len(threads_))' = Listed(Len(threads_))
  BY <1>1 DEF Listed
<1>6. index' \in 1..(Len(threads_') + 1)
  BY <1>1
<1>. QED
  BY <1>1, <1>3, <1>4, <1>5, <1>6 DEF SuspendInv, Traceable

(* EnumerateThreads keeps it: the crashing thread is in its list.          *)
LEMMA SuspendedInit ==
  ASSUME LifeInv, SuspendInv, DumperInit
  PROVE  LifeInv' /\ SuspendInv'
<1>1. Held' = Held /\ Held = {} /\ (killed' <=> killed) /\ index = 1 /\ index' = 1
      /\ UNCHANGED <<life, debugged, threads_suspended_>> /\ Stopped' = {} /\ pc = "init"
  BY DEF DumperInit, SuspendInv, Stopped, Held, target, killed
<1>2. CASE ~killed /\ threads_' = Selected(Tids, {t \in Threads : life[t] = "running"})
           /\ pc' = "suspend"
  <2>1. Tids \in Seq(Threads)
    BY DumperAssumption
  <2>2. /\ threads_' \in Seq(Threads)
        /\ Range(threads_') = Threads \cap {t \in Threads : life[t] = "running"}
    BY <1>2, <2>1, SelectedRange DEF Threads
  <2>3. LifeInv'
    BY <1>1, <1>2, <2>2 DEF LifeInv, killed
  <2>4. Listed(Len(threads_))' = Range(threads_')
    BY <2>2, RangeEquality DEF Listed
  <2>5. life[crash_thread] = "running"
    BY <1>1, <1>2, CrashIsThread DEF LifeInv, Held, killed, Lives
  <2>6. Listed(index - 1)' = {}
    BY <1>1 DEF Listed
  <2>7. index' \in 1..(Len(threads_') + 1)
    BY <1>1, <2>2
  <2>8. crash_thread \in Listed(Len(threads_))'
    BY <2>2, <2>4, <2>5, CrashIsThread
  <2>. QED
    BY <1>1, <1>2, <2>3, <2>6, <2>7, <2>8 DEF SuspendInv
<1>3. CASE killed /\ pc' = "close" /\ UNCHANGED threads_
  <2>1. LifeInv'
    BY <1>1, <1>3 DEF LifeInv, killed
  <2>. QED
    BY <1>1, <1>3, <2>1 DEF SuspendInv
<1>. QED
  BY <1>2, <1>3 DEF DumperInit

(* The end of ThreadsSuspend keeps it, with an empty list too.             *)
LEMMA SuspendedDone ==
  ASSUME LifeInv, SuspendInv, SuspendDone
  PROVE  LifeInv' /\ SuspendInv'
<1>1. /\ pc = "suspend" /\ index = Len(threads_) + 1 /\ threads_suspended_' = TRUE
      /\ pc' = (IF threads_ = << >> THEN "close" ELSE "open")
      /\ UNCHANGED <<life, debugged, threads_, index>>
  BY DEF SuspendDone, SuspendInv, LifeInv, target
<1>2. Stopped' = Stopped /\ Held' = Held /\ (killed' <=> killed) /\ (Traceable' <=> Traceable)
  BY <1>1 DEF Stopped, Held, killed, Traceable
<1>3. Listed(Len(threads_))' = Listed(Len(threads_)) /\ index - 1 = Len(threads_)
  BY <1>1 DEF Listed, LifeInv
<1>4. LifeInv'
  BY <1>1 DEF LifeInv, killed
<1>5. ~killed => Held = Listed(Len(threads_)) /\ (Traceable => crash_thread \in Listed(Len(threads_)))
  BY <1>1, <1>3 DEF SuspendInv
<1>6. threads_ = << >> => Listed(Len(threads_)) = {}
  BY DEF Listed
<1>7. (killed => Stopped = {}) /\ Stopped \subseteq Held
  BY KilledStopsNone
<1>8. CASE threads_ = << >>
  BY <1>1, <1>2, <1>4, <1>5, <1>6, <1>7, <1>8 DEF SuspendInv
<1>9. CASE threads_ # << >>
  BY <1>1, <1>2, <1>3, <1>4, <1>5, <1>9 DEF SuspendInv
<1>. QED
  BY <1>8, <1>9

(* Moving on to the dump or away from it keeps it.                         *)
LEMMA SuspendedMoves ==
  ASSUME LifeInv, SuspendInv, UNCHANGED <<target, dumper>>,
         \/ pc = "open" /\ pc' \in {"dump", "close"}
         \/ pc = "dump" /\ pc' = "close"
         \/ pc = "close" /\ pc' = "resume"
  PROVE  LifeInv' /\ SuspendInv'
<1>1. /\ Stopped' = Stopped /\ Held' = Held /\ (killed' <=> killed) /\ (Traceable' <=> Traceable)
      /\ Listed(Len(threads_))' = Listed(Len(threads_))
      /\ UNCHANGED <<threads_suspended_, threads_>>
  BY DEF Stopped, Held, killed, Traceable, Listed, target, dumper
<1>2. LifeInv'
  BY DEF LifeInv, killed, target, dumper
<1>3. (killed => Stopped = {}) /\ Stopped \subseteq Held
  BY KilledStopsNone
<1>. QED
  BY <1>1, <1>2, <1>3 DEF SuspendInv

(* The steps of the crashed process keep it.                               *)
LEMMA SuspendedLife ==
  ASSUME LifeInv, SuspendInv, UNCHANGED <<debugged, dumper, pc>>,
         Kill \/ \E t \in Threads : Exit(t) \/ Spawn(t)
  PROVE  LifeInv' /\ SuspendInv'
<1>1. UNCHANGED <<threads_, threads_suspended_, index>>
      /\ Listed(Len(threads_))' = Listed(Len(threads_)) /\ Listed(index - 1)' = Listed(index - 1)
      /\ Listed(index)' = Listed(index) /\ (Traceable' <=> Traceable)
  BY DEF dumper, Listed, Traceable
<1>2. CASE Kill
  <2>1. Stopped' = {} /\ Held' = {} /\ killed'
    BY <1>2, CrashIsThread DEF Kill, Stopped, Held, killed
  <2>2. LifeInv'
    BY <1>1, <1>2, CrashIsThread DEF LifeInv, Kill, killed, Lives
  <2>. QED
    BY <1>1, <2>1, <2>2 DEF SuspendInv
<1>3. ASSUME NEW t \in Threads, Exit(t) PROVE LifeInv' /\ SuspendInv'
  <2>1. ~killed /\ t # crash_thread /\ life[t] \in {"running", "attached"} /\ Looking
        /\ life' = [life EXCEPT ![t] = IF life[t] = "attached" THEN "ended" ELSE "gone"]
    BY <1>3 DEF Exit, Runs, LifeInv
  <2>2. Held' = Held /\ ~killed'
    BY <2>1, CrashIsThread DEF Held, killed, LifeInv
  <2>3. LifeInv'
    BY <1>1, <2>1, <2>2, CrashIsThread DEF LifeInv, killed, Lives
  <2>. QED
    BY <1>1, <2>1, <2>2, <2>3 DEF SuspendInv, Looking
<1>4. ASSUME NEW t \in Threads, Spawn(t) PROVE LifeInv' /\ SuspendInv'
  <2>1. ~killed /\ t # crash_thread /\ life[t] = "unborn" /\ Looking
        /\ life' = [life EXCEPT ![t] = "running"]
    BY <1>4 DEF Spawn, LifeInv
  <2>2. Held' = Held /\ ~killed'
    BY <2>1, CrashIsThread DEF Held, killed, LifeInv
  <2>3. LifeInv'
    BY <1>1, <2>1, <2>2, CrashIsThread DEF LifeInv, killed, Lives
  <2>. QED
    BY <1>1, <2>1, <2>2, <2>3 DEF SuspendInv, Looking
<1>. QED
  BY <1>2, <1>3, <1>4

(* Every step keeps it.                                                    *)
LEMMA NextSuspend ==
  ASSUME LifeInv, SuspendInv, [Next]_vars
  PROVE  LifeInv' /\ SuspendInv'
<1>1. CASE DumperInit
  BY <1>1, SuspendedInit
<1>2. CASE SuspendNext
  BY <1>2, SuspendedNext
<1>3. CASE SuspendDone
  BY <1>3, SuspendedDone
<1>4. CASE Open
  BY <1>4, SuspendedMoves DEF Open
<1>5. CASE BeginDump
  BY <1>5, UndisturbedSuspend DEF target, BeginDump
<1>6. CASE BeginStream
  BY <1>6, UndisturbedSuspend DEF target, BeginStream
<1>7. CASE NextThread
  BY <1>7, UndisturbedSuspend DEF target, NextThread
<1>8. CASE NextModule
  BY <1>8, UndisturbedSuspend DEF target, NextModule
<1>9. CASE NextDso
  BY <1>9, UndisturbedSuspend DEF target, NextDso
<1>10. CASE Allocate
  BY <1>10, UndisturbedSuspend DEF target, Allocate
<1>11. CASE CopyBytes
  BY <1>11, UndisturbedSuspend DEF target, CopyBytes
<1>12. CASE CopyString
  BY <1>12, UndisturbedSuspend DEF target, CopyString
<1>13. CASE Remember
  BY <1>13, UndisturbedSuspend DEF target, Remember
<1>14. CASE WriteEntry
  BY <1>14, UndisturbedSuspend DEF target, WriteEntry
<1>15. CASE DumpFails
  BY <1>15, SuspendedMoves DEF DumpFails, Op
<1>16. CASE DumpEnds
  <2>1. Stopped = {} \/ (threads_suspended_ /\ Stopped \subseteq Listed(Len(threads_)))
    BY <1>16, KilledStopsNone DEF DumpEnds, SuspendInv
  <2>. QED
    BY <1>16, <2>1, ResumeReleases DEF DumpEnds
<1>17. CASE Close
  BY <1>17, SuspendedMoves DEF Close
<1>18. CASE Destroy
  <2>1. Stopped = {} \/ (threads_suspended_ /\ Stopped \subseteq Listed(Len(threads_)))
    BY <1>18 DEF Destroy, SuspendInv
  <2>. QED
    BY <1>18, <2>1, ResumeReleases DEF Destroy
<1>19. CASE Kill
  BY <1>19, SuspendedLife DEF Kill
<1>20. ASSUME NEW t \in Threads, Exit(t) \/ Spawn(t) PROVE LifeInv' /\ SuspendInv'
  BY <1>20, SuspendedLife DEF Exit, Spawn
<1>22. CASE WaitForStop
  BY <1>22, SuspendedWait
<1>23. CASE CountList \/ ConversionFails \/ Load
  BY <1>23, UndisturbedSuspend DEF CountList, ConversionFails, Load, target
<1>21. CASE UNCHANGED vars
  BY <1>21, UndisturbedSuspend DEF vars, target
<1>. QED
  BY <1>1, <1>2, <1>3, <1>4, <1>5, <1>6, <1>7, <1>8, <1>9, <1>10, <1>11, <1>12, <1>13, <1>14,
     <1>15, <1>16, <1>17, <1>18, <1>19, <1>20, <1>21, <1>22,
     <1>23 DEF Next, Step

(* While the dump is written exactly the threads of the list are stopped,  *)
(* or ended between PTRACE_ATTACH and waitpid, unless the process was      *)
(* killed: for any number of threads that end, start or are traced by      *)
(* somebody else while ThreadsSuspend goes over its list.                  *)
THEOREM ListedCorrect == Spec => []ListedAreStopped
<1>1. LifeInv /\ SuspendInv => ListedAreStopped
  BY ListedIsRange DEF SuspendInv, ListedAreStopped, Held
<1>. QED
  BY <1>1, InitSuspend, NextSuspend, PTL DEF Spec

(* WriteMinidumpImpl leaves no thread stopped, whichever of its steps      *)
(* failed.                                                                 *)
THEOREM ReleaseCorrect == Spec => []ThreadsReleased
<1>1. LifeInv /\ SuspendInv => ThreadsReleased
  BY DEF SuspendInv, ThreadsReleased, Stopped
<1>. QED
  BY <1>1, InitSuspend, NextSuspend, PTL DEF Spec

----------------------------------------------------------------------------
(* What CrashIsBlamed says of a reported dump.                             *)
Blamed ==
  Traceable => crash_thread \in Listed(Len(threads_)) /\ crashing_thread_context_ = Cpu

(* With q still to do, the crashing thread will be blamed: its turn comes, *)
(* or its registers are about to be remembered, or they are. If it is not  *)
(* in the list, every thread is still to come; the first of them is gone,  *)
(* which ends the dump.                                                    *)
Pending(q, context) ==
  /\ \A i \in 1..Len(threads_) :
       threads_[i] = crash_thread =>
         ThreadAt(i) \in q \/ Context(Cpu) \in q \/ context = Cpu
  /\ Traceable /\ crash_thread \notin Listed(Len(threads_)) =>
       \A i \in 1..Len(threads_) : ThreadAt(i) \in q

(* The shape of the queue and what goes with it.                           *)
QueueInv ==
  /\ stream \in Nat /\ Queue(todo, stream)
  /\ good \in BOOLEAN /\ result \in BOOLEAN
  /\ IsFiniteSet(DOMAIN objects) /\ dsos \in 0..MaxDsos
  /\ pc \in {"init", "suspend", "wait", "open"} => stream = 0 /\ todo = << >>
  /\ result => pc \in {"close", "resume", "returned"}

(* The inductive invariant for the blame: pending while the list of        *)
(* threads is written without an error, and settled once that stream has   *)
(* ended.                                                                  *)
BlameInv ==
  /\ pc = "dump" /\ stream = 1 /\ good /\ todo # << >> =>
       Pending(Range(todo), crashing_thread_context_)
  /\ pc = "dump" /\ (stream > 1 \/ (stream = 1 /\ todo = << >>)) => Blamed
  /\ result => Blamed

(* The invariants hold at the beginning.                                   *)
LEMMA InitQueue == Init => QueueInv /\ BlameInv
<1> SUFFICES ASSUME Init PROVE QueueInv /\ BlameInv
  OBVIOUS
<1>1. Queue(todo, stream)
  BY EmptySeq DEF Init, Queue
<1>2. IsFiniteSet(DOMAIN objects)
  <2>1. DOMAIN objects = {}
    BY DEF Init
  <2>. QED
    BY <2>1, FS_EmptySet
<1>3. dsos \in 0..MaxDsos
  BY DumperAssumption DEF Init
<1>. QED
  BY <1>1, <1>2, <1>3 DEF Init, QueueInv, BlameInv

(* What is plain depends on the list of threads only.                      *)
LEMMA SamePlainOp ==
  ASSUME UNCHANGED threads_
  PROVE  PlainOp' = PlainOp /\ \A k, q : Queue(q, k)' <=> Queue(q, k)
<1>1. PlainOp' = PlainOp
  BY DEF PlainOp, ThreadAt, Context, Operation, The
<1>. QED
  BY <1>1 DEF Queue, Entry, Operation, The

(* Steps that touch nothing of theirs keep them.                           *)
LEMMA UndisturbedQueue ==
  ASSUME QueueInv, BlameInv,
         UNCHANGED <<debugged, threads_, objects, pc, todo, stream, good,
                     crashing_thread_context_, result>>, dsos' \in 0..MaxDsos
  PROVE  QueueInv' /\ BlameInv'
<1>1. Queue(todo, stream)'
  BY SamePlainOp DEF QueueInv
<1>2. (Blamed' <=> Blamed)
  BY DEF Blamed, Traceable, Listed
<1>3. Pending(Range(todo), crashing_thread_context_)' <=> Pending(Range(todo), crashing_thread_context_)
  BY DEF Pending, Traceable, Listed, Range
<1>4. QueueInv'
  BY <1>1 DEF QueueInv
<1>5. BlameInv'
  BY <1>2, <1>3 DEF BlameInv
<1>. QED
  BY <1>4, <1>5

(* Before the dump begins nothing is queued.                               *)
LEMMA QueueBefore ==
  ASSUME QueueInv, pc \in {"init", "suspend", "wait", "open"},
         pc' \in {"init", "suspend", "wait", "open", "dump", "close"},
         UNCHANGED <<dsos, objects, todo, stream, good, result>>
  PROVE  QueueInv' /\ BlameInv'
<1>1. stream = 0 /\ todo = << >> /\ result = FALSE
  BY DEF QueueInv
<1>2. Queue(todo, stream)'
  BY <1>1, EmptySeq DEF Queue
<1>. QED
  BY <1>1, <1>2 DEF QueueInv, BlameInv

(* Leaving the dump keeps them, if a reported one blames.                  *)
LEMMA QueueAfter ==
  ASSUME QueueInv, BlameInv, pc' \in {"close", "resume", "returned"},
         UNCHANGED <<debugged, dsos, threads_, objects, stream, good, crashing_thread_context_>>,
         result' \in BOOLEAN,
         result' => result \/ Blamed,
         todo' = << >> \/ UNCHANGED todo
  PROVE  QueueInv' /\ BlameInv'
<1>1. Queue(todo, stream)'
  <2>1. CASE todo' = << >>
    BY <2>1, EmptySeq DEF Queue
  <2>2. CASE UNCHANGED todo
    BY <2>2, SamePlainOp DEF QueueInv
  <2>. QED
    BY <2>1, <2>2
<1>2. (Blamed' <=> Blamed)
  BY DEF Blamed, Traceable, Listed
<1>3. QueueInv'
  BY <1>1 DEF QueueInv
<1>4. BlameInv'
  BY <1>2 DEF BlameInv
<1>. QED
  BY <1>3, <1>4

(* The blame stays pending if the threads and the registers stay queued.   *)
LEMMA PendingGrows ==
  ASSUME NEW q, NEW r, NEW c, Pending(q, c),
         \A i \in 1..Len(threads_) : ThreadAt(i) \in q => ThreadAt(i) \in r,
         Context(Cpu) \in q => Context(Cpu) \in r
  PROVE  Pending(r, c)
BY DEF Pending

(* The common part of all steps inside of a stream.                        *)
LEMMA QueueDump ==
  ASSUME QueueInv, BlameInv, pc = "dump", pc' = "dump", todo # << >>,
         UNCHANGED <<debugged, dsos, threads_, stream, result>>,
         good' \in BOOLEAN, IsFiniteSet(DOMAIN objects'),
         Queue(todo', stream), stream # 0 => todo' # << >>,
         crashing_thread_context_' = crashing_thread_context_ \/ crashing_thread_context_' = Cpu,
         stream = 1 /\ good' /\ (good => Pending(Range(todo), crashing_thread_context_)) =>
           Pending(Range(todo'), crashing_thread_context_')
  PROVE  QueueInv' /\ BlameInv'
<1>1. Queue(todo, stream)'
  BY SamePlainOp DEF Queue, Entry, Operation, The
<1>2. Blamed => Blamed'
  BY DEF Blamed, Traceable, Listed
<1>3. Pending(Range(todo'), crashing_thread_context_') =>
        Pending(Range(todo), crashing_thread_context_)'
  BY DEF Pending, Traceable, Listed, Range
<1>4. QueueInv'
  BY <1>1 DEF QueueInv
<1>5. BlameInv'
  BY <1>2, <1>3 DEF BlameInv, QueueInv
<1>. QED
  BY <1>4, <1>5

(* The end of a stream is queued until it is reached.                      *)
LEMMA EntryQueued ==
  ASSUME NEW k, NEW q, Queue(q, k), k # 0, q # << >>
  PROVE  Entry \in Range(q)
<1>1. PICK r \in Seq(PlainOp) : q = Append(r, Entry)
  BY DEF Queue
<1>2. q[Len(r) + 1] = Entry /\ Len(r) + 1 \in DOMAIN q
  BY <1>1
<1>. QED
  BY <1>2 DEF Range

(* Operations no error in csd_version drops.                               *)
LEMMA MarkedOps ==
  /\ \A i : ThreadAt(i).op = "thread" /\ ThreadAt(i).obj # The("csd_version")
  /\ Context(Cpu).op = "context" /\ Context(Cpu).obj # The("csd_version")
  /\ Entry.op = "entry" /\ Entry.obj # The("csd_version")
BY DEF ThreadAt, Context, Cpu, Entry, Operation, The

(* An operation that is done takes no thread and no registers with it.     *)
LEMMA TailKeeps ==
  ASSUME QueueInv, todo # << >>, Head(todo).op \notin {"entry", "thread", "context"}
  PROVE  /\ Head(todo) \in PlainOp /\ Queue(Tail(todo), stream)
         /\ stream # 0 => Tail(todo) # << >>
         /\ \A i \in 1..Len(threads_) : ThreadAt(i) \in Range(todo) => ThreadAt(i) \in Range(Tail(todo))
         /\ Context(Cpu) \in Range(todo) => Context(Cpu) \in Range(Tail(todo))
<1>1. Queue(todo, stream) /\ Head(todo) # Entry
  BY EntryApart DEF QueueInv
<1>2. /\ Head(todo) \in PlainOp /\ Queue(Tail(todo), stream)
      /\ stream # 0 => Tail(todo) # << >>
  BY <1>1, QueueStep
<1>3. Range(todo) = Range(Tail(todo)) \cup {Head(todo)}
  BY <1>1, QueueIsSeq, HeadAndTail
<1>. QED
  BY <1>2, <1>3, MarkedOps

(* Nor does one that is replaced by others.                                *)
LEMMA PrependKeeps ==
  ASSUME QueueInv, todo # << >>, Head(todo).op \notin {"entry", "thread", "context"},
         NEW r \in Seq(PlainOp)
  PROVE  /\ Queue(r \o Tail(todo), stream)
         /\ stream # 0 => r \o Tail(todo) # << >>
         /\ \A c : Pending(Range(todo), c) => Pending(Range(r \o Tail(todo)), c)
<1>1. Queue(todo, stream) /\ Head(todo) # Entry
  BY EntryApart DEF QueueInv
<1>2. /\ Queue(r \o Tail(todo), stream) /\ (stream # 0 => r \o Tail(todo) # << >>)
      /\ Range(Tail(todo)) \subseteq Range(r \o Tail(todo))
  BY <1>1, QueueStep
<1>. QED
  BY <1>2, TailKeeps, PendingGrows

(* An error keeps the end of the stream, and all that matters unless it    *)
(* ends the stream.                                                        *)
LEMMA UnwindKeeps ==
  ASSUME QueueInv, todo # << >>, Head(todo).op # "entry", NEW o, NEW made, Unwind(o, made),
         o = The("csd_version") => Head(todo).op \notin {"thread", "context"}
  PROVE  /\ Queue(todo', stream) /\ good' \in BOOLEAN
         /\ stream # 0 => todo' # << >>
         /\ good' => good /\ \A c : Pending(Range(todo), c) => Pending(Range(todo'), c)
<1> DEFINE T == Tail(todo)
<1>1. Queue(todo, stream) /\ Head(todo) # Entry
  BY EntryApart DEF QueueInv
<1>2. Queue(T, stream) /\ (stream # 0 => T # << >> /\ Entry \in Range(todo))
  BY <1>1, QueueStep, EntryQueued
<1>3. T \in Seq(AnyOp)
  BY <1>2, QueueIsSeq
<1> HIDE DEF T
<1>4. CASE o = The("csd_version")
  <2> DEFINE S == {p \in Range(todo) : p.obj # o \/ p.op = "flush"}
  <2>1. good' = good /\ todo' = Selected(T, S)
    BY <1>4 DEF Unwind, T
  <2>2. stream # 0 => Entry \in S
    BY <1>2, <1>4, MarkedOps
  <2>3. \A i \in 1..Len(threads_) : ThreadAt(i) \in Range(todo) => ThreadAt(i) \in S /\ ThreadAt(i) \in Range(T)
    BY <1>4, MarkedOps, TailKeeps DEF T
  <2>4. Context(Cpu) \in Range(todo) => Context(Cpu) \in S /\ Context(Cpu) \in Range(T)
    BY <1>4, MarkedOps, TailKeeps DEF T
  <2> HIDE DEF S
  <2>5. Queue(todo', stream) /\ (stream # 0 => todo' # << >>)
    BY <1>2, <2>1, <2>2, QueueSelected
  <2>6. Range(todo') = Range(T) \cap S
    BY <1>3, <2>1, SelectedRange
  <2>7. \A c : Pending(Range(todo), c) => Pending(Range(todo'), c)
    BY <2>3, <2>4, <2>6, PendingGrows
  <2>. QED
    BY <2>1, <2>5, <2>7 DEF QueueInv
<1>5. CASE o # The("csd_version")
  <2> DEFINE S == {p \in Range(todo) : p.op = "entry" \/ (p.op = "flush" /\ p.obj \in made)}
  <2>1. good' = FALSE /\ todo' = Selected(T, S)
    BY <1>5 DEF Unwind, T
  <2>2. stream # 0 => Entry \in S
    BY <1>2, MarkedOps
  <2> HIDE DEF S
  <2>3. Queue(todo', stream) /\ (stream # 0 => todo' # << >>)
    BY <1>2, <2>1, <2>2, QueueSelected
  <2>. QED
    BY <2>1, <2>3
<1>. QED
  BY <1>4, <1>5

(* The header keeps the invariants.                                        *)
LEMMA QueuedBegin ==
  ASSUME QueueInv, BlameInv, BeginDump
  PROVE  QueueInv' /\ BlameInv'
<1>1. /\ pc = "dump" /\ pc' = "dump" /\ stream = 0 /\ todo' = Header /\ result' = result
      /\ UNCHANGED <<dsos, threads_, objects, stream, good>>
  BY DEF BeginDump, target, dumper, space, progress
<1>2. Queue(Header, 0)
  BY ShortOps DEF Queue
<1>3. Queue(todo, stream)'
  BY <1>1, <1>2, SamePlainOp DEF Queue, Entry, Operation, The
<1>4. ~result
  BY <1>1 DEF QueueInv
<1>. QED
  BY <1>1, <1>3, <1>4 DEF QueueInv, BlameInv

(* Beginning a stream keeps them: with the list of threads every thread    *)
(* becomes pending, and the later ones find the blame settled.             *)
LEMMA QueuedStream ==
  ASSUME LifeInv, QueueInv, BlameInv, BeginStream
  PROVE  QueueInv' /\ BlameInv'
<1> DEFINE s == Streams[stream + 1]
<1>1. /\ pc = "dump" /\ pc' = "dump" /\ todo = << >> /\ stream' = stream + 1 /\ stream < kNumWriters
      /\ UNCHANGED <<debugged, threads_, objects, crashing_thread_context_, result>>
      /\ dsos' \in 0..MaxDsos
  BY DEF BeginStream, dumper, space, QueueInv
<1>2. PICK found \in Finds(s) :
        good' = found /\ todo' = (IF found THEN Operations(s) ELSE << >>) \o <<Entry>>
  BY DEF BeginStream
<1>3. stream \in 0..12 /\ s \in Range(Streams) /\ (stream = 0 => s = "threads")
  <2>1. kNumWriters = 13 /\ stream \in Nat
    BY DEF kNumWriters, Streams, QueueInv
  <2>2. stream + 1 \in 1..13 /\ DOMAIN Streams = 1..13
    BY <1>1, <2>1 DEF Streams
  <2>3. stream = 0 => s = "threads"
    BY DEF Streams
  <2>4. \A k \in DOMAIN Streams : Streams[k] \in Range(Streams)
    BY DEF Range
  <2>. QED
    BY <2>1, <2>2, <2>3, <2>4
<1>4. found \in BOOLEAN
  BY <1>2 DEF Finds
<1>5. Operations(s) \in Seq(PlainOp)
  BY <1>3, StreamOps DEF LifeInv, QueueInv
<1> DEFINE r == IF found THEN Operations(s) ELSE << >>
<1>6. r \in Seq(PlainOp) /\ todo' = r \o <<Entry>>
  BY <1>2, <1>5, EmptySeq
<1> HIDE DEF r
<1>7. \A u \in Seq(PlainOp) : u \o <<Entry>> = Append(u, Entry)
  OBVIOUS
<1>8. Queue(todo', stream + 1)
  BY <1>3, <1>6, <1>7 DEF Queue
<1>9. Queue(todo, stream)'
  BY <1>1, <1>8, SamePlainOp DEF Queue, Entry, Operation, The
<1>10. QueueInv'
  BY <1>1, <1>2, <1>4, <1>9 DEF QueueInv
<1>11. (Blamed => Blamed') /\ ~result
  BY <1>1 DEF Blamed, Traceable, Listed, QueueInv
<1>12. CASE stream = 0
  <2>1. s = "threads"
    BY <1>3, <1>12
  <2>2. todo' # << >>
    BY <1>6, <1>7
  <2>3. found = TRUE
    BY <1>2, <2>1 DEF Finds, OfMemory
  <2>4. r = WriteThreadListStream
    <3>1. Operations("threads") = WriteThreadListStream
      BY DEF Operations, Files
    <3>. QED
      BY <2>1, <2>3, <3>1 DEF r
  <2>5. \A i \in 1..Len(threads_) : ThreadAt(i) \in Range(r)
    BY <2>4, ThreadListOps DEF LifeInv
  <2>6. Range(r) \subseteq Range(todo')
    <3>1. PlainOp \subseteq AnyOp /\ <<Entry>> \in Seq(AnyOp)
      BY DEF AnyOp
    <3>2. r \in Seq(AnyOp)
      BY <1>6, <3>1, SeqMonotonic
    <3>3. Range(r \o <<Entry>>) = Range(r) \cup Range(<<Entry>>)
      BY <3>1, <3>2, RangeConcatenation
    <3>. QED
      BY <1>6, <3>3
  <2>7. Pending(Range(todo), crashing_thread_context_)'
    BY <1>1, <2>5, <2>6 DEF Pending, ThreadAt, Operation, The, Range
  <2>. QED
    BY <1>1, <1>10, <1>11, <1>12, <2>2, <2>7 DEF BlameInv
<1>13. CASE stream # 0
  <2>1. Blamed
    BY <1>1, <1>3, <1>13 DEF BlameInv
  <2>. QED
    BY <1>1, <1>3, <1>10, <1>11, <1>13, <2>1 DEF BlameInv
<1>. QED
  BY <1>12, <1>13

(* One turn of the loop over the threads keeps them.                       *)
LEMMA QueuedThread ==
  ASSUME LifeInv, SuspendInv, QueueInv, BlameInv, NextThread
  PROVE  QueueInv' /\ BlameInv'
<1> DEFINE i == Head(todo).off
           t == threads_[i]
           c == crashing_thread_context_
<1>1. /\ pc = "dump" /\ pc' = "dump" /\ todo # << >> /\ Head(todo).op = "thread"
      /\ UNCHANGED <<debugged, dsos, threads_, objects, stream, crashing_thread_context_, result>>
  BY DEF NextThread, Op, target, dumper, space
<1>2. Queue(todo, stream) /\ Head(todo) # Entry
  BY <1>1, EntryApart DEF QueueInv
<1>3. Head(todo) = ThreadAt(i) /\ i \in 1..Len(threads_)
  <2>1. Head(todo) \in PlainOp
    BY <1>1, <1>2, QueueStep
  <2>. QED
    BY <1>1, <2>1 DEF PlainOp
<1>4. t \in Threads /\ i \in Int
  BY <1>3 DEF LifeInv
<1>5. IsFiniteSet(DOMAIN objects')
  BY <1>1 DEF QueueInv
<1>6. ASSUME t = crash_thread \/ life[t] \notin {"ended", "gone"},
             NEW ip \in {FALSE, t = crash_thread},
             todo' = WriteThread(t, i, ip) \o Tail(todo), UNCHANGED good
      PROVE  QueueInv' /\ BlameInv'
  <2> DEFINE w == WriteThread(t, i, ip)
  <2>1. ip \in BOOLEAN
    OBVIOUS
  <2>2. w \in Seq(PlainOp) /\ (t = crash_thread => Context(Cpu) \in Range(w))
    BY <1>4, <2>1, ThreadOps
  <2>3. todo' = w \o Tail(todo)
    BY <1>6
  <2> HIDE DEF w
  <2>4. /\ Queue(todo', stream) /\ Range(todo') = Range(w) \cup Range(Tail(todo))
        /\ stream # 0 => todo' # << >>
    BY <1>1, <1>2, <2>2, <2>3, QueueStep
  <2>5. Range(todo) = Range(Tail(todo)) \cup {ThreadAt(i)}
    BY <1>1, <1>2, <1>3, QueueIsSeq, HeadAndTail
  <2>6. \A j \in 1..Len(threads_) : ThreadAt(j) \in Range(todo) => j = i \/ ThreadAt(j) \in Range(todo')
    BY <2>4, <2>5 DEF ThreadAt, Operation
  <2>7. Context(Cpu) \in Range(todo) => Context(Cpu) \in Range(todo')
    BY <2>4, <2>5, MarkedOps
  <2>8. Traceable => crash_thread \in Listed(Len(threads_))
    <3>1. CASE killed
      <4>1. t = crash_thread
        BY <1>4, <1>6, <3>1 DEF LifeInv
      <4>. QED
        BY <1>3, <4>1 DEF Listed
    <3>2. CASE ~killed
      BY <1>1, <3>2 DEF SuspendInv
    <3>. QED
      BY <3>1, <3>2
  <2>9. Pending(Range(todo), c) => Pending(Range(todo'), c)
    <3> SUFFICES ASSUME Pending(Range(todo), c), NEW j \in 1..Len(threads_),
                        threads_[j] = crash_thread
                 PROVE  ThreadAt(j) \in Range(todo') \/ Context(Cpu) \in Range(todo') \/ c = Cpu
      BY <2>8 DEF Pending
    <3>1. ThreadAt(j) \in Range(todo) \/ Context(Cpu) \in Range(todo) \/ c = Cpu
      BY DEF Pending
    <3>2. CASE j = i
      BY <2>2, <2>4, <3>2
    <3>3. CASE j # i
      BY <2>6, <2>7, <3>1, <3>3
    <3>. QED
      BY <3>2, <3>3
  <2>10. good' \in BOOLEAN
    BY <1>6 DEF QueueInv
  <2>. QED
    BY <1>1, <1>5, <1>6, <2>4, <2>9, <2>10, QueueDump
<1>7. CASE Unwind(The("threads"), DOMAIN objects)
  <2>1. The("threads") # The("csd_version")
    BY DEF The
  <2>2. /\ Queue(todo', stream) /\ good' \in BOOLEAN /\ (stream # 0 => todo' # << >>)
        /\ good' => good /\ \A d : Pending(Range(todo), d) => Pending(Range(todo'), d)
    BY <1>1, <1>7, <2>1, UnwindKeeps
  <2>. QED
    BY <1>1, <1>5, <2>2, QueueDump
<1>. QED
  BY <1>6, <1>7 DEF NextThread

(* Copies and the loops over modules and shared objects keep them.         *)
LEMMA QueuedCopies ==
  ASSUME QueueInv, BlameInv, NextModule \/ NextDso \/ CountList \/ CopyBytes
  PROVE  QueueInv' /\ BlameInv'
<1>1. /\ pc = "dump" /\ pc' = "dump" /\ todo # << >>
      /\ Head(todo).op \in {"module", "link_map", "count", "copy", "flush"}
      /\ UNCHANGED <<debugged, dsos, threads_, objects, stream, good,
                     crashing_thread_context_, result>>
  BY DEF NextModule, NextDso, CountList, CopyBytes, Op, target, dumper, space, progress
<1>2. Head(todo) \in PlainOp
  BY <1>1, TailKeeps
<1>3. /\ Head(todo).op = "module" => Head(todo).off \in 1..NumModules
      /\ Head(todo).op = "link_map" => Head(todo).off \in 1..MaxDsos
      /\ dsos \in 0..MaxDsos
  BY <1>2 DEF PlainOp, QueueInv
<1>4. \E r \in Seq(PlainOp) : todo' = r \o Tail(todo)
  <2>1. CASE NextModule
    BY <1>3, <2>1, ModuleOps DEF NextModule, Op
  <2>2. CASE NextDso
    <3> DEFINE i == Head(todo).off
               a == WriteString(<<"dso_name", i>>, DsoName(i))
               b == <<Copy(The("linkmap"), (i - 1) * MDRawLinkMap, MDRawLinkMap)>>
               d == IF i < dsos /\ ~killed THEN <<DsoAt(i + 1)>> ELSE << >>
    <3>1. DsoOperations(i) \in Seq(PlainOp)
      BY <1>3, <2>2, DsoOps DEF NextDso, Op
    <3>2. todo' = a \o b \o d \o Tail(todo)
      BY <2>2 DEF NextDso, DsoName, Empty
    <3>3. DsoOperations(i) = a \o b \o d
      BY DEF DsoOperations
    <3>. QED
      BY <3>1, <3>2, <3>3
  <2>3. CASE CopyBytes
    <3>1. todo' = Tail(todo)
      BY <2>3 DEF CopyBytes
    <3>2. Tail(todo) \in Seq(AnyOp)
      BY <1>1, TailKeeps, QueueIsSeq
    <3>3. << >> \o Tail(todo) = Tail(todo) /\ << >> \in Seq(PlainOp)
      BY <3>2, EmptySeq, ConcatEmptySeq
    <3>. QED
      BY <3>1, <3>3
  <2>4. CASE CountList
    <3> DEFINE n == dso_count'
               r == IF n > 0 THEN <<Alloc(The("linkmap"), n * MDRawLinkMap), DsoAt(1)>> ELSE << >>
    <3>1. n \in 0..MaxDsos
      <4>1. n \in IF killed THEN 0..dsos ELSE {dsos}
        BY <2>4 DEF CountList
      <4>2. \A x \in 0..dsos : x \in 0..MaxDsos
        BY <1>3, Sizes
      <4>. QED
        BY <1>3, <4>1, <4>2
    <3>4. todo' = r \o Tail(todo)
      BY <2>4 DEF CountList
    <3> HIDE DEF n
    <3>2. n > 0 => /\ Alloc(The("linkmap"), n * MDRawLinkMap) \in PlainOp
                   /\ DsoAt(1) \in PlainOp
      <4>1. The("linkmap") \in Objects
        BY ObjectNames DEF Kinds
      <4>2. n * MDRawLinkMap \in Int /\ (n > 0 => 1 \in 1..MaxDsos)
        BY <3>1, Sizes DEF MDRawLinkMap
      <4>. QED
        BY <4>1, <4>2, PlainOps
    <3>3. r \in Seq(PlainOp)
      BY <3>2, EmptySeq
    <3>. QED
      BY <3>3, <3>4
  <2>. QED
    BY <2>1, <2>2, <2>3, <2>4
<1>5. PICK r \in Seq(PlainOp) : todo' = r \o Tail(todo)
  BY <1>4
<1>6. /\ Queue(todo', stream) /\ (stream # 0 => todo' # << >>)
      /\ \A c : Pending(Range(todo), c) => Pending(Range(todo'), c)
  BY <1>1, <1>5, PrependKeeps
<1>7. IsFiniteSet(DOMAIN objects') /\ good' \in BOOLEAN
  BY <1>1 DEF QueueInv
<1>. QED
  BY <1>1, <1>6, <1>7, QueueDump

(* Allocations keep them, also those that fail.                            *)
LEMMA QueuedAllocate ==
  ASSUME QueueInv, BlameInv, Allocate
  PROVE  QueueInv' /\ BlameInv'
<1> DEFINE o == Head(todo).obj
<1>1. /\ pc = "dump" /\ pc' = "dump" /\ todo # << >> /\ Head(todo).op = "alloc"
      /\ UNCHANGED <<debugged, dsos, threads_, stream, crashing_thread_context_, result>>
  BY DEF Allocate, Op, target, dumper
<1>2. DOMAIN objects' = DOMAIN objects \cup {o}
  BY DEF Allocate, Placed
<1>3. IsFiniteSet(DOMAIN objects')
  BY <1>2, FS_AddElement DEF QueueInv
<1>4. CASE todo' = Tail(todo) /\ UNCHANGED good
  <2>1. /\ Queue(todo', stream) /\ (stream # 0 => todo' # << >>)
        /\ \A c : Pending(Range(todo), c) => Pending(Range(todo'), c)
    BY <1>1, <1>4, TailKeeps, PendingGrows
  <2>2. good' \in BOOLEAN
    BY <1>4 DEF QueueInv
  <2>. QED
    BY <1>1, <1>3, <1>4, <2>1, <2>2, QueueDump
<1>5. CASE Unwind(o, DOMAIN objects \cup {o})
  <2>1. /\ Queue(todo', stream) /\ good' \in BOOLEAN /\ (stream # 0 => todo' # << >>)
        /\ good' => good /\ \A c : Pending(Range(todo), c) => Pending(Range(todo'), c)
    BY <1>1, <1>5, UnwindKeeps
  <2>. QED
    BY <1>1, <1>3, <2>1, QueueDump
<1>. QED
  BY <1>4, <1>5 DEF Allocate

(* Strings keep them.                                                      *)
LEMMA QueuedString ==
  ASSUME QueueInv, BlameInv, CopyString \/ ConversionFails
  PROVE  QueueInv' /\ BlameInv'
<1> DEFINE o == Head(todo).obj
<1>1. /\ pc = "dump" /\ pc' = "dump" /\ todo # << >> /\ Head(todo).op \in {"must", "convert"}
      /\ UNCHANGED <<debugged, dsos, threads_, objects, stream, crashing_thread_context_, result>>
  BY DEF CopyString, ConversionFails, Op, target, dumper, space
<1>2. IsFiniteSet(DOMAIN objects')
  BY <1>1 DEF QueueInv
<1>3. CASE todo' = Tail(todo) /\ UNCHANGED good
  <2>1. /\ Queue(todo', stream) /\ (stream # 0 => todo' # << >>)
        /\ \A c : Pending(Range(todo), c) => Pending(Range(todo'), c)
    BY <1>1, <1>3, TailKeeps, PendingGrows
  <2>2. good' \in BOOLEAN
    BY <1>3 DEF QueueInv
  <2>. QED
    BY <1>1, <1>2, <1>3, <2>1, <2>2, QueueDump
<1>4. CASE Unwind(o, DOMAIN objects)
  <2>1. /\ Queue(todo', stream) /\ good' \in BOOLEAN /\ (stream # 0 => todo' # << >>)
        /\ good' => good /\ \A c : Pending(Range(todo), c) => Pending(Range(todo'), c)
    BY <1>1, <1>4, UnwindKeeps
  <2>. QED
    BY <1>1, <1>2, <2>1, QueueDump
<1>. QED
  BY <1>3, <1>4 DEF CopyString, ConversionFails

(* Remembering a location or the crashing thread's registers keeps them.   *)
LEMMA QueuedRemember ==
  ASSUME QueueInv, BlameInv, Remember
  PROVE  QueueInv' /\ BlameInv'
<1>1. /\ pc = "dump" /\ pc' = "dump" /\ todo # << >> /\ Head(todo).op \in {"locate", "context"}
      /\ todo' = Tail(todo)
      /\ UNCHANGED <<debugged, dsos, threads_, objects, stream, good, result>>
  BY DEF Remember, Op, target, dumper, space
<1>2. IsFiniteSet(DOMAIN objects') /\ good' \in BOOLEAN
  BY <1>1 DEF QueueInv
<1>3. CASE Op("locate") /\ UNCHANGED crashing_thread_context_
  <2>1. Head(todo).op = "locate"
    BY <1>3 DEF Op
  <2>2. /\ Queue(todo', stream) /\ (stream # 0 => todo' # << >>)
        /\ \A c : Pending(Range(todo), c) => Pending(Range(todo'), c)
    BY <1>1, <2>1, TailKeeps, PendingGrows
  <2>. QED
    BY <1>1, <1>2, <1>3, <2>2, QueueDump
<1>4. CASE Op("context") /\ crashing_thread_context_' = Head(todo).obj
  <2>1. Queue(todo, stream) /\ Head(todo) # Entry /\ Head(todo).op = "context"
    BY <1>4, EntryApart DEF QueueInv, Op
  <2>2. Head(todo) \in PlainOp /\ Queue(todo', stream) /\ (stream # 0 => todo' # << >>)
    BY <1>1, <2>1, QueueStep
  <2>3. Head(todo) = Context(Cpu)
    BY <2>1, <2>2 DEF PlainOp
  <2>4. crashing_thread_context_' = Cpu
    BY <1>4, <2>3 DEF Context, Operation
  <2>5. Range(todo) = Range(todo') \cup {Context(Cpu)}
    BY <1>1, <2>1, <2>3, QueueIsSeq, HeadAndTail
  <2>6. \A i \in 1..Len(threads_) : ThreadAt(i) \in Range(todo) => ThreadAt(i) \in Range(todo')
    BY <2>5, MarkedOps
  <2>7. \A c : Pending(Range(todo), c) => Pending(Range(todo'), Cpu)
    BY <2>6 DEF Pending
  <2>. QED
    BY <1>1, <1>2, <2>2, <2>4, <2>7, QueueDump
<1>. QED
  BY <1>3, <1>4 DEF Remember

(* The end of the list of threads settles the blame.                       *)
LEMMA QueuedEntry ==
  ASSUME LifeInv, SuspendInv, QueueInv, BlameInv, WriteEntry
  PROVE  QueueInv' /\ BlameInv'
<1>1. /\ pc = "dump" /\ pc' = "dump" /\ todo # << >> /\ Head(todo).op = "entry"
      /\ todo' = Tail(todo) /\ good' = TRUE
      /\ good \/ Streams[stream] \in Optional
      /\ UNCHANGED <<debugged, dsos, threads_, objects, stream, crashing_thread_context_, result>>
  BY DEF WriteEntry, Op, target, dumper, space
<1>2. stream # 0 /\ Tail(todo) = << >>
  BY <1>1, QueueEnds DEF QueueInv
<1>3. Queue(todo, stream)'
  BY <1>1, <1>2, EmptySeq DEF Queue
<1>4. QueueInv'
  BY <1>1, <1>3 DEF QueueInv
<1>5. ASSUME stream = 1 PROVE Blamed
  <2>1. good
    <3>1. Streams[1] \notin Optional
      BY DEF Streams, Optional, Files
    <3>. QED
      BY <1>1, <1>5, <3>1
  <2>2. Pending(Range(todo), crashing_thread_context_)
    BY <1>1, <1>5, <2>1 DEF BlameInv
  <2>3. Range(todo) = {Head(todo)}
    <3>1. Range(todo) = Range(Tail(todo)) \cup {Head(todo)}
      BY <1>1, QueueIsSeq, HeadAndTail DEF QueueInv
    <3>. QED
      BY <1>2, <3>1 DEF Range
  <2>4. /\ \A i \in 1..Len(threads_) : ThreadAt(i) \notin Range(todo)
        /\ Context(Cpu) \notin Range(todo)
    BY <1>1, <2>3, MarkedOps
  <2>5. 1 \in 1..Len(threads_)
    BY <1>1, EmptySeq DEF SuspendInv, LifeInv
  <2>6. Traceable => crash_thread \in Listed(Len(threads_))
    BY <2>2, <2>4, <2>5 DEF Pending
  <2>7. crash_thread \in Listed(Len(threads_)) => crashing_thread_context_ = Cpu
    BY <2>2, <2>4 DEF Pending, Listed
  <2>. QED
    BY <2>6, <2>7 DEF Blamed
<1>6. Blamed => Blamed'
  BY <1>1 DEF Blamed, Traceable, Listed
<1>7. BlameInv'
  BY <1>1, <1>2, <1>5, <1>6 DEF BlameInv, QueueInv
<1>. QED
  BY <1>4, <1>7

(* Every step keeps them.                                                  *)
LEMMA NextQueue ==
  ASSUME LifeInv, SuspendInv, QueueInv, BlameInv, [Next]_vars
  PROVE  QueueInv' /\ BlameInv'
<1>1. CASE DumperInit \/ SuspendNext \/ WaitForStop \/ SuspendDone \/ Open
  BY <1>1, QueueBefore
     DEF DumperInit, SuspendNext, WaitForStop, SuspendDone, Open, target, dumper, space, progress
<1>2. CASE BeginDump \/ BeginStream \/ NextThread
  BY <1>2, QueuedBegin, QueuedStream, QueuedThread
<1>3. CASE NextModule \/ NextDso \/ CountList \/ CopyBytes
  BY <1>3, QueuedCopies
<1>4. CASE Allocate \/ CopyString \/ ConversionFails \/ Remember \/ WriteEntry
  BY <1>4, QueuedAllocate, QueuedString, QueuedRemember, QueuedEntry
<1>5. CASE DumpFails
  BY <1>5, QueueAfter DEF DumpFails, QueueInv, target, dumper, space, progress
<1>6. CASE DumpEnds
  <2>1. stream > 1
    BY <1>6 DEF DumpEnds, kNumWriters, Streams
  <2>2. Blamed
    BY <1>6, <2>1 DEF DumpEnds, BlameInv
  <2>. QED
    BY <1>6, <2>2, QueueAfter DEF DumpEnds, ThreadsResume, space, progress
<1>7. CASE Close
  BY <1>7, QueueAfter DEF Close, QueueInv, target, dumper, space, progress
<1>8. CASE Destroy
  BY <1>8, QueueAfter DEF Destroy, ThreadsResume, QueueInv, space, progress
<1>9. CASE Kill
  BY <1>9, UndisturbedQueue DEF Kill, dumper, space, progress, QueueInv
<1>10. ASSUME NEW t \in Threads, Exit(t) \/ Spawn(t) PROVE QueueInv' /\ BlameInv'
  BY <1>10, UndisturbedQueue DEF Exit, Spawn, dumper, space, progress, QueueInv
<1>11. CASE UNCHANGED vars
  BY <1>11, UndisturbedQueue DEF vars, target, dumper, space, progress, QueueInv
<1>12. CASE Load
  BY <1>12, UndisturbedQueue DEF Load, dumper, space, progress
<1>. QED
  BY <1>1, <1>2, <1>3, <1>4, <1>5, <1>6, <1>7, <1>8, <1>9, <1>10, <1>11, <1>12 DEF Next, Step

(* A dump that is reported as written has the crashing thread in its list  *)
(* and leads to its registers, unless a debugger held that thread: even    *)
(* when the process is killed while its threads are being stopped, in      *)
(* which case a list without the crashing thread is never reported.        *)
THEOREM BlameCorrect == Spec => []CrashIsBlamed
<1> DEFINE I == LifeInv /\ SuspendInv /\ QueueInv /\ BlameInv
<1>1. Init => I
  BY InitSuspend, InitQueue
<1>2. I /\ [Next]_vars => I'
  BY NextSuspend, NextQueue
<1>3. I => CrashIsBlamed
  BY DEF BlameInv, Blamed, CrashIsBlamed, Traceable, Listed, Contains, Cpu
<1> HIDE DEF I
<1>. QED
  BY <1>1, <1>2, <1>3, PTL DEF Spec

=============================================================================
