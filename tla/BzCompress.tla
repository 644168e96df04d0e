----------------------------- MODULE BzCompress -----------------------------
(***************************************************************************)
(* The writing half of libbzip2: BZ2_bzCompress and what is under it, as   *)
(* BZ2_bzWrite, BZ2_bzWriteClose and the clients of the low-level          *)
(* interface drive it.                                                     *)
(*                                                                         *)
(* One call passes through handle_compress as often as the output buffer   *)
(* has to be emptied, and everything about the block and the run in        *)
(* progress is kept in the EState between the passes.  The compressed      *)
(* stream is a sequence of tokens: the stream header, for each block its   *)
(* header (with the Huffman tables) and its symbols, and the trailer.  A   *)
(* CRC stands for the bytes it was computed from.                          *)
(***************************************************************************)
EXTENDS BzBlock

CONSTANTS
  ByteMax,    \* the largest byte: 255
  MaxRun,     \* the longest run of one pair: 255
  BlockSize,  \* 100000 * blockSize100k
  BufLen,     \* BZ_MAX_UNUSED, here in tokens
  MaxHeld,    \* tokens that may have bits left in bsBuff
  Chunks,     \* the numbers of bytes a client hands over in one call
  MaxInput,   \* bound on the bytes written to a stream
  MaxFlush    \* bound on the flushes of a stream

Byte == 0..ByteMax
NoChar == ByteMax + 1      \* state_in_ch = 256

\* Blocks end 19 bytes before their space does.
nblockMAX == BlockSize - 19

ASSUME CompressAssumption ==
  /\ ByteMax \in Nat
  /\ MaxRun \in Nat /\ MaxRun > 4 /\ MaxRun - 4 \in Byte
  /\ BlockSize \in Nat /\ BlockSize > 19
  /\ BufLen \in Nat \ {0}
  /\ MaxHeld \in Nat \ {0}
  /\ Chunks \subseteq Nat \ {0}
  /\ MaxInput \in Nat
  /\ MaxFlush \in Nat

VARIABLES
  pc,               \* "idle", "handle", "return"
  call,             \* the action of the call that runs, or of the last one
  mode,             \* "running", "flushing", "finishing", "idle"
  state,            \* "input", "output"
  avail_in,
  avail_in_expect,
  progress,
  state_in_ch,
  state_in_len,
  block,            \* the block so far; nblock is its length
  blockCRC,         \* the bytes the block stands for
  blockNo,
  combinedCRC,
  bsBuff,           \* tokens whose bits are not all in zbits yet
  zbits,            \* tokens from state_out_pos on
  obuf,             \* what this pass has put into the output buffer
  file,             \* what fwrite has put into the file
  data,             \* the bytes that were consumed
  flushes,
  status            \* "open", "closed", "abandoned", "failed"

stream == <<mode, avail_in_expect>>
run == <<state_in_ch, state_in_len>>
blockVars == <<block, blockCRC, blockNo>>
bits == <<combinedCRC, bsBuff, zbits>>
outside == <<file, flushes, status>>
writerVars == <<pc, call, stream, state, avail_in, progress, run, blockVars,
                bits, obuf, data, outside>>

Hdr == [k |-> "hdr"]
Blk(crc, orig, used) == [k |-> "blk", crc |-> crc, origPtr |-> orig, inUse |-> used]
Sym(v) == [k |-> "sym", v |-> v]
End(crc) == [k |-> "end", crc |-> crc]

\* BZ2_bzWriteOpen and BZ2_bzCompressInit.
WriterInit ==
  /\ pc = "idle"
  /\ call = "run"
  /\ mode = "running"
  /\ state = "input"
  /\ avail_in = 0
  /\ avail_in_expect = 0
  /\ progress = FALSE
  /\ state_in_ch = NoChar
  /\ state_in_len = 0
  /\ block = << >>
  /\ blockCRC = << >>
  /\ blockNo = 1
  /\ combinedCRC = << >>
  /\ bsBuff = << >>
  /\ zbits = << >>
  /\ obuf = << >>
  /\ file = << >>
  /\ data = << >>
  /\ flushes = 0
  /\ status = "open"

---------------------------------------------------------------------------
(* The clients.                                                            *)

Begin(c, n) ==
  /\ pc = "idle"
  /\ status = "open"
  /\ Len(data) + n <= MaxInput
  /\ pc' = "handle"
  /\ call' = c
  /\ avail_in' = n
  /\ progress' = FALSE
  /\ obuf' = << >>

\* BZ2_bzWrite of n bytes; of no bytes it is nothing.
BZ2_bzWrite(n) ==
  /\ Begin("run", n)
  /\ UNCHANGED <<stream, state, run, blockVars, bits, data, outside>>

\* BZ_FLUSH, which only the low-level interface has.
Flush(n) ==
  /\ Begin("flush", n)
  /\ flushes < MaxFlush
  /\ flushes' = flushes + 1
  /\ mode' = "flushing"
  /\ avail_in_expect' = n
  /\ UNCHANGED <<state, run, blockVars, bits, data, file, status>>

\* BZ_FINISH: BZ2_bzWriteClose has no input left, BZ2_bzBuffToBuffCompress has
\* all of it.
Finish(n) ==
  /\ Begin("finish", n)
  /\ mode' = "finishing"
  /\ avail_in_expect' = n
  /\ UNCHANGED <<state, run, blockVars, bits, data, outside>>

\* BZ2_bzWriteClose with abandon set.
Abandon ==
  /\ pc = "idle"
  /\ status = "open"
  /\ status' = "abandoned"
  /\ UNCHANGED <<pc, call, stream, state, avail_in, progress, run, blockVars,
                 bits, obuf, data, file, flushes>>

---------------------------------------------------------------------------
(* The block under construction.                                           *)

isempty_RL == ~(state_in_ch # NoChar /\ state_in_len > 0)

Copies(c, n) == [m \in 1..n |-> c]

\* add_pair_to_block: a run of four or more is four bytes and a count.
Pair == IF state_in_len < 4
        THEN Copies(state_in_ch, state_in_len)
        ELSE Copies(state_in_ch, 4) \o <<state_in_len - 4>>

add_pair_to_block ==
  IF state_in_ch # NoChar
  THEN /\ block' = block \o Pair
       /\ blockCRC' = blockCRC \o Copies(state_in_ch, state_in_len)
  ELSE UNCHANGED <<block, blockCRC>>

\* ADD_CHAR_TO_BLOCK.
ADD_CHAR_TO_BLOCK(c) ==
  IF c # state_in_ch \/ state_in_len = MaxRun
  THEN /\ add_pair_to_block
       /\ state_in_ch' = c
       /\ state_in_len' = 1
  ELSE /\ state_in_len' = state_in_len + 1
       /\ UNCHANGED <<state_in_ch, block, blockCRC>>

\* The symbols of the block that is complete in the next state.
BlockTokens ==
  LET ptr == BZ2_blockSort(block')
      inUse == ToSet(block')
      mtfv == generateMTFValues(LastColumn(block', ptr), inUse)
  IN  <<Blk(blockCRC', OrigPtr(ptr), inUse)>> \o [n \in 1..Len(mtfv) |-> Sym(mtfv[n])]

\* BZ2_compressBlock.  The bits of the last tokens stay in bsBuff until more
\* bits push them out; only the trailer is padded and pushed out whole.
BZ2_compressBlock(is_last_block) ==
  LET hasBlock == block' # << >>
      written == (IF blockNo = 1 THEN <<Hdr>> ELSE << >>)
                   \o (IF hasBlock THEN BlockTokens ELSE << >>)
                   \o (IF is_last_block THEN <<End(combinedCRC')>> ELSE << >>)
      all == bsBuff \o written
  IN  /\ combinedCRC' = IF hasBlock THEN Append(combinedCRC, blockCRC') ELSE combinedCRC
      /\ IF is_last_block
         THEN zbits' = all /\ bsBuff' = << >>
         ELSE IF written = << >>
         THEN UNCHANGED <<zbits, bsBuff>>
         ELSE \E h \in 1..MaxHeld :
                LET out == IF h < Len(all) THEN Len(all) - h ELSE 0
                IN  /\ zbits' = SubSeq(all, 1, out)
                    /\ bsBuff' = SubSeq(all, out + 1, Len(all))

---------------------------------------------------------------------------
(* handle_compress, one step of its loops at a time.                       *)

Full == Len(block) >= nblockMAX
AllTaken == mode # "running" /\ avail_in_expect = 0

\* Mutant: only a running stream looks whether the block is full.
MayTakeWhenFull ==
  /\ mode = "running" => ~Full
  /\ avail_in > 0
  /\ ~AllTaken

\* The conditions of both loops of copy_input_until_stop.
MayTake ==
  /\ ~Full
  /\ avail_in > 0
  /\ ~AllTaken

copy_input_until_stop(c) ==
  /\ pc = "handle" /\ state = "input"
  /\ MayTake
  /\ progress' = TRUE
  /\ ADD_CHAR_TO_BLOCK(c)
  /\ avail_in' = avail_in - 1
  /\ avail_in_expect' = IF mode = "running" THEN avail_in_expect ELSE avail_in_expect - 1
  /\ data' = Append(data, c)
  /\ UNCHANGED <<pc, call, mode, state, blockNo, bits, obuf, outside>>

\* All the input of a flush or a finish is in: flush_RL and compress.
CompressRest ==
  /\ pc = "handle" /\ state = "input"
  /\ ~MayTake
  /\ AllTaken
  /\ add_pair_to_block
  /\ state_in_ch' = NoChar
  /\ state_in_len' = 0
  /\ BZ2_compressBlock(mode = "finishing")
  /\ state' = "output"
  /\ UNCHANGED <<pc, call, stream, avail_in, progress, blockNo, obuf, data, outside>>

\* Mutant: a full block takes the run in progress with it.
CompressFullFlushesRun ==
  /\ pc = "handle" /\ state = "input"
  /\ ~AllTaken
  /\ Full
  /\ add_pair_to_block
  /\ state_in_ch' = NoChar
  /\ state_in_len' = 0
  /\ BZ2_compressBlock(FALSE)
  /\ state' = "output"
  /\ UNCHANGED <<pc, call, stream, avail_in, progress, blockNo, obuf, data, outside>>

\* The block is full; the run in progress goes into the next one.
CompressFull ==
  /\ pc = "handle" /\ state = "input"
  /\ ~AllTaken
  /\ Full
  /\ UNCHANGED <<block, blockCRC>>
  /\ BZ2_compressBlock(FALSE)
  /\ state' = "output"
  /\ UNCHANGED <<pc, call, stream, avail_in, progress, run, blockNo, obuf, data, outside>>

InputUsedUp ==
  /\ pc = "handle" /\ state = "input"
  /\ ~MayTake /\ ~AllTaken /\ ~Full
  /\ pc' = "return"
  /\ UNCHANGED <<call, stream, state, avail_in, progress, run, blockVars, bits,
                 obuf, data, outside>>

\* Mutant: output does not count as progress.
CopyOutputSilently ==
  /\ pc = "handle" /\ state = "output"
  /\ zbits # << >>
  /\ Len(obuf) < BufLen
  /\ obuf' = Append(obuf, Head(zbits))
  /\ zbits' = Tail(zbits)
  /\ UNCHANGED <<pc, call, stream, state, avail_in, progress, run, blockVars,
                 combinedCRC, bsBuff, data, outside>>

copy_output_until_stop ==
  /\ pc = "handle" /\ state = "output"
  /\ zbits # << >>
  /\ Len(obuf) < BufLen
  /\ progress' = TRUE
  /\ obuf' = Append(obuf, Head(zbits))
  /\ zbits' = Tail(zbits)
  /\ UNCHANGED <<pc, call, stream, state, avail_in, run, blockVars, combinedCRC,
                 bsBuff, data, outside>>

OutputFull ==
  /\ pc = "handle" /\ state = "output"
  /\ zbits # << >>
  /\ Len(obuf) = BufLen
  /\ pc' = "return"
  /\ UNCHANGED <<call, stream, state, avail_in, progress, run, blockVars, bits,
                 obuf, data, outside>>

\* The block is written: after the last one the loop ends, otherwise
\* prepare_new_block; a flush ends there.
BlockWritten ==
  /\ pc = "handle" /\ state = "output"
  /\ zbits = << >>
  /\ LET rest == avail_in_expect = 0 /\ isempty_RL
     IN  /\ pc' = IF mode \in {"finishing", "flushing"} /\ rest THEN "return" ELSE pc
         /\ IF mode = "finishing" /\ rest
            THEN UNCHANGED <<state, blockVars>>
            ELSE /\ block' = << >>
                 /\ blockCRC' = << >>
                 /\ blockNo' = blockNo + 1
                 /\ state' = "input"
  /\ UNCHANGED <<call, stream, avail_in, progress, run, bits, obuf, data, outside>>

---------------------------------------------------------------------------
(* The end of a pass: what BZ2_bzCompress returns, and what its caller     *)
(* does with it.                                                           *)

Pending == avail_in_expect > 0 \/ ~isempty_RL \/ zbits # << >>

Returned ==
  CASE mode = "running" -> IF progress THEN "RUN_OK" ELSE "PARAM_ERROR"
    [] mode = "flushing" -> IF Pending THEN "FLUSH_OK" ELSE "RUN_OK"
    [] mode = "finishing" -> IF ~progress THEN "SEQUENCE_ERROR"
                             ELSE IF Pending THEN "FINISH_OK" ELSE "STREAM_END"

ModeAfter ==
  CASE Returned = "STREAM_END" -> "idle"
    [] Returned = "RUN_OK" -> "running"
    [] OTHER -> mode

\* The caller is content: BZ2_bzWrite when its input is gone, the others when
\* they are told that nothing is pending.
Content ==
  CASE call = "run" -> avail_in = 0
    [] call = "flush" -> Returned = "RUN_OK"
    [] call = "finish" -> Returned = "STREAM_END"

\* The buffer goes to the file, and there is another pass if need be.
PassWritten ==
  /\ pc = "return"
  /\ Returned \notin {"PARAM_ERROR", "SEQUENCE_ERROR"}
  /\ file' = file \o obuf
  /\ obuf' = << >>
  /\ progress' = FALSE
  /\ mode' = ModeAfter
  /\ pc' = IF Content THEN "idle" ELSE "handle"
  /\ status' = IF call = "finish" /\ Content THEN "closed" ELSE status
  /\ UNCHANGED <<call, state, avail_in, avail_in_expect, run, blockVars, bits,
                 data, flushes>>

\* fwrite fails, or BZ2_bzCompress does: the caller reports it and the stream
\* is of no more use.
PassFails ==
  /\ pc = "return"
  /\ obuf # << >> \/ Returned \in {"PARAM_ERROR", "SEQUENCE_ERROR"}
  /\ pc' = "idle"
  /\ status' = "failed"
  /\ mode' = ModeAfter
  /\ UNCHANGED <<call, avail_in_expect, state, avail_in, progress, run, blockVars,
                 bits, obuf, data, file, flushes>>

Handle ==
  \/ \E c \in Byte : copy_input_until_stop(c)
  \/ CompressRest \/ CompressFull \/ InputUsedUp
  \/ copy_output_until_stop \/ OutputFull \/ BlockWritten

WriterNext ==
  \/ \E n \in Chunks : BZ2_bzWrite(n)
  \/ \E n \in Chunks \cup {0} : Flush(n) \/ Finish(n)
  \/ Abandon
  \/ Handle
  \/ PassWritten \/ PassFails

WriterSpec == WriterInit /\ [][WriterNext]_writerVars
---------------------------------------------------------------------------
(* Correctness.                                                            *)

\* A block never outgrows its space by more than one pair: input stops when the
\* block is full, and the run that is then in progress has length one, so that
\* not even flush_RL adds a second pair to a block that is over the limit.
BlockFits == Len(block) <= nblockMAX + 5

\* No legal sequence of calls is refused: every pass makes progress, whatever
\* earlier calls have left in the state.
NoCallRefused ==
  pc = "return" => Returned \notin {"PARAM_ERROR", "SEQUENCE_ERROR"}

\* A stream that was closed without error ends in its trailer, whatever block
\* was still in the output when BZ_FINISH came.
ClosedHasTrailer ==
  status = "closed" => file # << >> /\ file[Len(file)] = End(combinedCRC)
=============================================================================
