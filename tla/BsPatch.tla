------------------------------ MODULE BsPatch ------------------------------
(***************************************************************************)
(* The incremental update of the application: MainActivity.patch calls     *)
(* executePatch (bspatch.c) through JNI and installs the new file when     *)
(* that returns 0.                                                         *)
(*                                                                         *)
(* executePatch checks the header of the patch, opens its three streams    *)
(* (control, diff, extra), reads the old file, and works through triples   *)
(* (x, y, z): add x bytes of the diff stream to x bytes of the old file,   *)
(* copy y bytes of the extra stream, move on in the old file by z.  Every  *)
(* error is err(), which ends the process.  The numbers of the format have *)
(* 63 bits and a sign, those of the code are longs, which fold.  What the  *)
(* streams hold is chosen when it is read, and the history variables       *)
(* triples, diffs and extras keep it, so that the result can be compared   *)
(* with what the format means.                                             *)
(***************************************************************************)
EXTENDS Integers, Sequences

CONSTANTS
  Old,        \* the old file, a sequence of bytes
  Base,       \* the number of byte values: 256
  Fields,     \* 8-byte fields of a patch: [neg |-> sign bit, mag |-> the rest]
  LongMax,    \* the largest long: 2^31 - 1 on armeabi-v7a
  MaxNew,     \* bound on the size of the new file
  MaxTriples, \* bound on the triples of a control stream
  MaxStarts   \* bound on the calls of patch()

Byte == 0..(Base - 1)
oldsize == Len(Old)
None == << -1 >>       \* no file
Undef == -1            \* a byte of pnew that malloc left as it was

ASSUME PatchAssumption ==
  /\ Base \in Nat \ {0}
  /\ Old \in Seq(Byte)
  /\ Fields \subseteq [neg: BOOLEAN, mag: Nat]
  /\ LongMax \in Nat /\ MaxNew \in Nat /\ MaxNew <= LongMax
  /\ MaxTriples \in Nat /\ MaxStarts \in Nat

VARIABLES
  stage,      \* "idle", "header", "loop", "control", "diff", "extra", "overrun", "write", "done", "dead"
  newsize,
  pold, pnew, \* the two files in memory
  oldpos, newpos,
  ctrl,       \* the fields of the current triple that have been read
  ended,      \* streams that have said BZ_STREAM_END
  folded,     \* some number of this call did not fit a long
  triples, diffs, extras,
  newFile,    \* the new file on disk
  short,      \* fwrite wrote less than it should
  installed,  \* what install() was given
  starts

position == <<oldpos, newpos>>
history == <<triples, diffs, extras>>
disk == <<newFile, short, installed>>
memory == <<newsize, pold, pnew>>
patchVars == <<stage, memory, position, ctrl, ended, folded, history, disk, starts>>

PatchInit ==
  /\ stage = "idle"
  /\ newsize = 0 /\ pold = << >> /\ pnew = << >>
  /\ oldpos = 0 /\ newpos = 0
  /\ ctrl = << >>
  /\ ended = {}
  /\ folded = FALSE
  /\ triples = << >> /\ diffs = << >> /\ extras = << >>
  /\ newFile = None /\ short = FALSE /\ installed = None
  /\ starts = 0

\* What the bits of a long hold of a number.
Long == - (LongMax + 1) .. LongMax
Wrap(v) ==
  IF v \in Long THEN v ELSE ((v + LongMax + 1) % (2 * (LongMax + 1))) - (LongMax + 1)

\* What a field means, and what offtin makes of it: the magnitude is put together
\* byte by byte in a long, which keeps its low bits, and negated there.
Value(f) == IF f.neg THEN - f.mag ELSE f.mag
offtin(f) == IF f.neg THEN Wrap(- Wrap(f.mag)) ELSE Wrap(f.mag)

Triple == ctrl

\* The memory of executePatch, when it starts and when it is gone.
Fresh ==
  /\ newsize' = 0 /\ pold' = << >> /\ pnew' = << >>
  /\ oldpos' = 0 /\ newpos' = 0
  /\ ctrl' = << >> /\ ended' = {} /\ folded' = FALSE
  /\ triples' = << >> /\ diffs' = << >> /\ extras' = << >>

\* err() and errx(): the process is gone.
Exit == stage' = "dead" /\ Fresh

---------------------------------------------------------------------------
(* The application.                                                        *)

\* MainActivity.patch: a new call starts from nothing.
Patch ==
  /\ stage = "idle"
  /\ starts < MaxStarts
  /\ starts' = starts + 1
  /\ stage' = "header"
  /\ Fresh
  /\ short' = FALSE
  /\ UNCHANGED <<newFile, installed>>

\* executePatch returned 0: install the new file.
InstallNew ==
  /\ stage = "done"
  /\ installed' = newFile
  /\ stage' = "idle"
  /\ Fresh
  /\ UNCHANGED <<newFile, short, starts>>

\* The process is killed at any time, and started again when it is gone.
KillPatch ==
  /\ stage \notin {"idle", "dead"}
  /\ Exit
  /\ UNCHANGED <<disk, starts>>

Restart ==
  /\ stage = "dead"
  /\ stage' = "idle"
  /\ UNCHANGED <<memory, position, ctrl, ended, folded, history, disk, starts>>

---------------------------------------------------------------------------
(* executePatch.                                                           *)

\* The header: three lengths, none of which may be negative.  Then the streams are
\* opened, the old file is read and the new one allocated.  That fread got less of
\* the old file than its size goes unnoticed, since its count is compared with -1:
\* the rest of pold is what malloc found there.
ReadHeader ==
  /\ stage = "header"
  /\ \/ \E f \in Fields :
          /\ 0 <= offtin(f) /\ offtin(f) <= MaxNew
          /\ newsize' = offtin(f)
          /\ folded' = (offtin(f) # Value(f))
          /\ pnew' = [n \in 1..offtin(f) |-> Undef]
          /\ \E n \in 0..oldsize : \E garbage \in [1..oldsize -> Byte] :
               pold' = [i \in 1..oldsize |-> IF i <= n THEN Old[i] ELSE garbage[i]]
          /\ stage' = "loop"
          /\ UNCHANGED <<position, ctrl, ended, history>>
     \/ Exit
  /\ UNCHANGED <<disk, starts>>

\* The head of the loop.
Loop ==
  /\ stage = "loop"
  /\ stage' = IF newpos < newsize THEN "control" ELSE "write"
  /\ ctrl' = << >>
  /\ UNCHANGED <<memory, position, ended, folded, history, disk, starts>>

\* BZ2_bzRead of n bytes from stream s, as libbzip2 promises: nothing for n = 0,
\* an error for n < 0 and for a stream that has ended; otherwise n bytes, with or
\* without the end of the stream, or too few, which the caller treats as an error.
BZ2_bzRead(s, n) ==
  \/ n = 0 /\ UNCHANGED ended
  \/ n > 0 /\ s \notin ended /\ ended' \in {ended, ended \cup {s}}

\* One field of the triple.
ReadControl ==
  /\ stage = "control"
  /\ \E f \in Fields :
       /\ Len(triples) < MaxTriples
       /\ BZ2_bzRead("control", 8)
       /\ ctrl' = Append(ctrl, offtin(f))
       /\ folded' = (folded \/ offtin(f) # Value(f))
  /\ stage' = IF Len(ctrl) = 2 THEN "diff" ELSE "control"
  /\ UNCHANGED <<memory, position, history, disk, starts>>

\* pnew with the bytes s put at position p.
Written(p, s) ==
  [n \in 1..newsize |-> IF n - p \in 1..Len(s) THEN s[n - p] ELSE pnew[n]]

\* A byte of the old file as it is in b, and nothing outside of it.
At(b, p) == IF 0 <= p /\ p < oldsize THEN b[p + 1] ELSE 0

\* The sanity check, done in longs, and what it is for.
Sane(n) == Wrap(newpos + n) <= newsize
Inside(n) == newpos + n <= newsize

\* oldpos goes on by d.
Seek(d) ==
  /\ oldpos' = Wrap(oldpos + d)
  /\ folded' = (folded \/ oldpos + d \notin Long)

\* Mutant: the position in the old file stays behind.
ReadDiffStays ==
  /\ stage = "diff"
  /\ Sane(Triple[1]) /\ Inside(Triple[1])
  /\ BZ2_bzRead("diff", Triple[1])
  /\ \E s \in [1..Triple[1] -> Byte] :
       /\ diffs' = diffs \o s
       /\ pnew' = Written(newpos, [k \in 1..Triple[1] |->
                                    (s[k] + At(pold, Wrap(oldpos + k - 1))) % Base])
  /\ newpos' = newpos + Triple[1]
  /\ stage' = "extra"
  /\ UNCHANGED <<newsize, pold, oldpos, ctrl, folded, triples, extras, disk, starts>>

\* The diff string, added to the old file.
ReadDiff ==
  /\ stage = "diff"
  /\ Sane(Triple[1]) /\ Inside(Triple[1])
  /\ BZ2_bzRead("diff", Triple[1])
  /\ \E s \in [1..Triple[1] -> Byte] :
       /\ diffs' = diffs \o s
       /\ pnew' = Written(newpos, [k \in 1..Triple[1] |->
                                    (s[k] + At(pold, Wrap(oldpos + k - 1))) % Base])
  /\ newpos' = newpos + Triple[1]
  /\ Seek(Triple[1])
  /\ stage' = "extra"
  /\ UNCHANGED <<newsize, pold, ctrl, triples, extras, disk, starts>>

\* The extra string, and the seek.
ReadExtra ==
  /\ stage = "extra"
  /\ Sane(Triple[2]) /\ Inside(Triple[2])
  /\ BZ2_bzRead("extra", Triple[2])
  /\ \E s \in [1..Triple[2] -> Byte] :
       /\ extras' = extras \o s
       /\ pnew' = Written(newpos, s)
  /\ newpos' = newpos + Triple[2]
  /\ Seek(Triple[3])
  /\ triples' = Append(triples, Triple)
  /\ stage' = "loop"
  /\ UNCHANGED <<newsize, pold, ctrl, diffs, disk, starts>>

\* The sum in the sanity check has folded: BZ2_bzRead is given a length that leads
\* out of pnew.  The string ends first, or the address space does.
Overrun ==
  /\ \E i \in {1, 2} : /\ stage = IF i = 1 THEN "diff" ELSE "extra"
                       /\ Sane(Triple[i]) /\ ~ Inside(Triple[i])
  /\ stage' = "overrun"
  /\ folded' = TRUE
  /\ UNCHANGED <<memory, position, ctrl, ended, history, disk, starts>>

\* Mutant: the end of the control stream is not noticed.
CorruptPatchInData ==
  /\ stage \in {"diff", "extra", "overrun"}
  /\ Exit
  /\ UNCHANGED <<disk, starts>>

\* Any read may fail, and the sanity checks may: "Corrupt patch".
CorruptPatch ==
  /\ stage \in {"control", "diff", "extra", "overrun"}
  /\ Exit
  /\ UNCHANGED <<disk, starts>>

\* Mutant: the file is opened without being emptied.
WriteNewOver ==
  /\ stage = "write"
  /\ newFile' = pnew \o (IF newFile # None /\ Len(newFile) > newsize
                         THEN SubSeq(newFile, newsize + 1, Len(newFile)) ELSE << >>)
  /\ stage' = "done"
  /\ UNCHANGED <<memory, position, ctrl, ended, folded, history, short, installed, starts>>

\* fopen with "wb" empties the file; a short fwrite is not noticed, since its
\* count is compared with -1; fclose may notice.
WriteNew ==
  /\ stage = "write"
  /\ \/ /\ newFile' = pnew
        /\ stage' = "done"
        /\ UNCHANGED <<memory, position, ctrl, ended, folded, history, short>>
     \/ /\ \E n \in 0..(newsize - 1) : newFile' = SubSeq(pnew, 1, n)
        /\ short' = TRUE
        /\ \/ stage' = "done" /\ UNCHANGED <<memory, position, ctrl, ended, folded, history>>
           \/ Exit
     \/ Exit /\ UNCHANGED <<newFile, short>>
  /\ UNCHANGED <<installed, starts>>

Step ==
  \/ ReadHeader \/ Loop \/ ReadControl \/ ReadDiff \/ ReadExtra \/ Overrun
  \/ CorruptPatch \/ WriteNew \/ InstallNew

PatchNext == Patch \/ KillPatch \/ Restart \/ Step

PatchSpec == PatchInit /\ [][PatchNext]_patchVars /\ WF_patchVars(Step)
---------------------------------------------------------------------------
(* What the format means: each byte of the new file on its own.            *)

\* The sum of the first k numbers of s.
SumTo(s, k) ==
  LET sum[j \in 0..Len(s)] == IF j = 0 THEN 0 ELSE sum[j - 1] + s[j]
  IN  sum[k]

\* Where the bytes of triple k + 1 begin in the new file, in the old one and in
\* the two streams.
NewStart(k) == SumTo([j \in 1..Len(triples) |-> triples[j][1] + triples[j][2]], k)
OldStart(k) == SumTo([j \in 1..Len(triples) |-> triples[j][1] + triples[j][3]], k)
DiffStart(k) == SumTo([j \in 1..Len(triples) |-> triples[j][1]], k)
ExtraStart(k) == SumTo([j \in 1..Len(triples) |-> triples[j][2]], k)

NewByte(n) ==
  LET k == CHOOSE j \in 1..Len(triples) : NewStart(j - 1) < n /\ n <= NewStart(j)
      at == n - NewStart(k - 1)
      x == triples[k][1]
  IN  IF at <= x
      THEN (diffs[DiffStart(k - 1) + at] + At(Old, OldStart(k - 1) + at - 1)) % Base
      ELSE extras[ExtraStart(k - 1) + at - x]

Meaning == [n \in 1..newsize |-> NewByte(n)]

---------------------------------------------------------------------------
(* Correctness.                                                            *)

\* The old file was read as it is, and every number fits.
Clean == pold = Old /\ ~ folded

\* When the loop is left, every byte of the new file has been set, and to what
\* the triples mean, however the seeks go back and forth in the old file and past
\* its ends, unless the old file was not read to its end or a number folded; the
\* bytes are set even then.
ResultIsMeaning ==
  stage = "write" =>
    /\ \A n \in 1..newsize : pnew[n] \in Byte
    /\ Clean => pnew = Meaning

\* What is installed right after a call is what the patch of that call means,
\* whatever earlier calls, errors and kills have left on the disk, unless the
\* disk took less than it was given, or gave less.
InstallsMeaning ==
  [][installed' # installed /\ Clean => short \/ installed' = Meaning]_patchVars

\* A call of patch() ends.
PatchEnds == stage = "header" ~> stage \in {"idle", "dead"}

\* "Write failed": the code means to stop when the new file cannot be written, so
\* that what is installed has its whole length.
InstallsComplete ==
  [][installed' # installed => Len(installed') = newsize]_patchVars
=============================================================================
