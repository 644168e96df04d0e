---------------------------- MODULE BzDecompress ----------------------------
(***************************************************************************)
(* The reading half of libbzip2 over a file that the writing half has      *)
(* left: BZ2_bzRead, BZ2_bzDecompress, BZ2_decompress and                  *)
(* unRLE_obuf_to_output_FAST.                                              *)
(*                                                                         *)
(* The decoder stops wherever its input or its output buffer ends and goes *)
(* on from there with the next call: the position (dstate), the run of     *)
(* zeros being added up (es, N), the symbols so far, the place in the      *)
(* block and the run being put out are all kept in the DState.  The file   *)
(* may be cut short, one symbol in it may be damaged, and something else   *)
(* may follow the stream, as the next stream does in a bsdiff patch.       *)
(***************************************************************************)
EXTENDS BzCompress

CONSTANTS
  ReadLens,   \* the numbers of bytes a client asks for in one call
  RunLimit,   \* where a run of zeros is refused: 2*1024*1024
  Faults      \* what may happen to the file: "cut", "damage", "more"

ASSUME DecompressAssumption ==
  /\ ReadLens \subseteq Nat \ {0}
  /\ RunLimit \in Nat
  /\ Faults \subseteq {"cut", "damage", "more"}

VARIABLES
  rpc,        \* "shut", "idle", "loop", "decompress", "return"
  unread,     \* what is left of the file
  ibuf,       \* what is left in bzf->buf: avail_in is its length
  dstate,     \* "magic", "blkhdr", "mtf", "output", "idle"
  header,     \* of the current block
  es, N,      \* the run of zeros so far, and the weight of its next digit
  yy,         \* the move-to-front list
  column,     \* the bytes decoded so far; nblock is its length
  tt, tPos, k0, nblock_used,
  state_out_ch, state_out_len,
  calculatedBlockCRC, calculatedCombinedCRC,
  wanted,     \* len of the call that runs
  buf,        \* what the call has put into the client's buffer
  got,        \* what the client has been given
  verdict,    \* "none", "end", or the error
  fault       \* what has happened to the file

decoding == <<es, N, yy, column>>
walk == <<tt, tPos, k0, nblock_used, state_out_ch, state_out_len>>
crcs == <<calculatedBlockCRC, calculatedCombinedCRC>>
client == <<wanted, got, verdict>>
readerVars == <<rpc, unread, ibuf, dstate, header, decoding, walk, crcs, client,
                buf, fault>>
vars == <<writerVars, readerVars>>

NoBlock == Blk(<< >>, 0, {})
Junk == [k |-> "junk"]

ReaderInit ==
  /\ rpc = "shut"
  /\ unread = << >> /\ ibuf = << >>
  /\ dstate = "magic"
  /\ header = NoBlock
  /\ es = -1 /\ N = 1 /\ yy = << >> /\ column = << >>
  /\ tt = << >> /\ tPos = 0 /\ k0 = 0 /\ nblock_used = 0
  /\ state_out_ch = 0 /\ state_out_len = 0
  /\ calculatedBlockCRC = << >> /\ calculatedCombinedCRC = << >>
  /\ wanted = 0 /\ buf = << >> /\ got = << >>
  /\ verdict = "none"
  /\ fault = "none"

\* Of one file one thing is wrong at most.
Intact == status = "closed" /\ fault = "none"

---------------------------------------------------------------------------
(* BZ2_bzRead.                                                             *)

\* BZ2_bzReadOpen and BZ2_bzDecompressInit, on the file as the writer left it,
\* perhaps with something else behind it.
BZ2_bzReadOpen ==
  /\ rpc = "shut"
  /\ status # "open"
  /\ rpc' = "idle"
  /\ \/ unread' = file /\ UNCHANGED fault
     \/ unread' = Append(file, Junk) /\ fault' = "more" /\ Intact /\ "more" \in Faults
  /\ UNCHANGED <<ibuf, dstate, header, decoding, walk, crcs, client, buf>>

\* A call for n bytes; of no bytes it is nothing.
BZ2_bzRead(n) ==
  /\ rpc = "idle"
  /\ verdict = "none"
  /\ rpc' = "loop"
  /\ wanted' = n
  /\ UNCHANGED <<unread, ibuf, dstate, header, decoding, walk, crcs, got, verdict,
                 buf, fault>>

\* The top of the loop: fill an empty buffer, unless the file has ended.  It may
\* have been cut short.
Fill ==
  /\ rpc = "loop"
  /\ rpc' = "decompress"
  /\ IF ibuf # << >> \/ unread = << >>
     THEN UNCHANGED <<ibuf, unread, fault>>
     ELSE LET n == IF Len(unread) < BufLen THEN Len(unread) ELSE BufLen
          IN  \/ /\ ibuf' = SubSeq(unread, 1, n)
                 /\ unread' = SubSeq(unread, n + 1, Len(unread))
                 /\ UNCHANGED fault
              \/ /\ Intact /\ "cut" \in Faults
                 /\ \E m \in 0..(n - 1) : ibuf' = SubSeq(unread, 1, m)
                 /\ unread' = << >>
                 /\ fault' = "cut"
  /\ UNCHANGED <<dstate, header, decoding, walk, crcs, client, buf>>

\* Mutant: end of file is not noticed.
CallAgain ==
  /\ rpc = "return"
  /\ IF Len(buf) = wanted
     THEN /\ rpc' = "idle" /\ wanted' = 0 /\ buf' = << >> /\ got' = got \o buf
     ELSE /\ rpc' = "loop" /\ UNCHANGED <<wanted, buf, got>>
  /\ UNCHANGED <<unread, ibuf, dstate, header, decoding, walk, crcs, verdict, fault>>

\* BZ2_bzDecompress has returned BZ_OK: an error at the end of the file, an
\* answer when the client's buffer is full, and another round otherwise.
Returns ==
  /\ rpc = "return"
  /\ LET full == Len(buf) = wanted
         eof == unread = << >> /\ ibuf = << >> /\ ~full
     IN  /\ rpc' = IF full \/ eof THEN "idle" ELSE "loop"
         /\ verdict' = IF eof THEN "UNEXPECTED_EOF" ELSE verdict
         /\ got' = IF full THEN got \o buf ELSE got
         /\ buf' = IF full \/ eof THEN << >> ELSE buf
         /\ wanted' = IF full \/ eof THEN 0 ELSE wanted
  /\ UNCHANGED <<unread, ibuf, dstate, header, decoding, walk, crcs, fault>>

\* Every other return: an error gives the client nothing, the end of the stream
\* gives it what the call has produced.
Leave(v) ==
  /\ rpc' = "idle"
  /\ verdict' = v
  /\ got' = IF v = "end" THEN got \o buf ELSE got
  /\ buf' = << >>
  /\ wanted' = 0

Stay == UNCHANGED <<rpc, client, buf>>

---------------------------------------------------------------------------
(* BZ2_decompress, one token at a time.                                    *)

Decompress == rpc = "decompress" /\ dstate \in {"magic", "blkhdr", "mtf"}

\* GET_BITS without input: remember where we are and return.
NeedInput ==
  /\ Decompress
  /\ ibuf = << >>
  /\ rpc' = "return"
  /\ UNCHANGED <<unread, ibuf, dstate, header, decoding, walk, crcs, client, buf, fault>>

Take == ibuf # << >> /\ ibuf' = Tail(ibuf) /\ UNCHANGED unread

Magic ==
  /\ Decompress /\ dstate = "magic"
  /\ Take
  /\ IF Head(ibuf) = Hdr THEN dstate' = "blkhdr" /\ Stay
                         ELSE UNCHANGED dstate /\ Leave("DATA_ERROR")
  /\ UNCHANGED <<header, decoding, walk, crcs, fault>>

\* Mutant: what is left in the buffer behind the trailer is thrown away.
BlockHeaderDropsBuffer ==
  /\ Decompress /\ dstate = "blkhdr"
  /\ ibuf # << >> /\ UNCHANGED unread
  /\ IF Head(ibuf).k = "blk"
     THEN /\ ibuf' = Tail(ibuf) /\ header' = Head(ibuf) /\ dstate' = "mtf"
          /\ es' = -1 /\ N' = 1 /\ yy' = makeMaps(Head(ibuf).inUse) /\ column' = << >>
          /\ Stay
     ELSE /\ ibuf' = << >> /\ dstate' = "idle" /\ Leave("end") /\ UNCHANGED <<header, decoding>>
  /\ UNCHANGED <<walk, crcs, fault>>

\* A block header starts a block; the trailer ends the stream, if its CRC is the
\* one the blocks add up to.
BlockHeader ==
  /\ Decompress /\ dstate = "blkhdr"
  /\ Take
  /\ LET token == Head(ibuf)
     IN  CASE token.k = "blk" ->
                /\ header' = token
                /\ dstate' = "mtf"
                /\ es' = -1 /\ N' = 1
                /\ yy' = makeMaps(token.inUse)
                /\ column' = << >>
                /\ Stay
           [] token.k = "end" ->
                /\ dstate' = "idle"
                /\ Leave(IF token.crc = calculatedCombinedCRC THEN "end" ELSE "DATA_ERROR")
                /\ UNCHANGED <<header, decoding>>
           [] OTHER ->
                /\ Leave("DATA_ERROR")
                /\ UNCHANGED <<dstate, header, decoding>>
  /\ UNCHANGED <<walk, crcs, fault>>

\* The symbol that is read; once, it may be another one than was written.
Read(v) ==
  IF Head(ibuf).k # "sym"
  THEN v = -1 /\ UNCHANGED fault
  ELSE \/ v = Head(ibuf).v /\ UNCHANGED fault
       \/ /\ v # Head(ibuf).v
          /\ Intact /\ "damage" \in Faults
          /\ fault' = "damage"

\* Mutant: the run so far is forgotten when the input ends in the middle of it.
RunDigitRestarts(v) ==
  /\ LET fresh == Len(ibuf) = 1
     IN  /\ es' = (IF fresh THEN -1 ELSE es) + (IF v = BZ_RUNA THEN 1 ELSE 2) * N
         /\ N' = 2 * N
  /\ UNCHANGED <<dstate, yy, column, walk, crcs>>
  /\ Stay

\* One more digit of a run of zeros.
RunDigit(v) ==
  /\ IF N >= RunLimit
     THEN UNCHANGED <<es, N>> /\ Leave("DATA_ERROR")
     ELSE /\ es' = es + (IF v = BZ_RUNA THEN 1 ELSE 2) * N
          /\ N' = 2 * N
          /\ Stay
  /\ UNCHANGED <<dstate, yy, column, walk, crcs>>

\* The zeros that were pending before another symbol: copies of the first byte
\* of the list.
WithRun == IF N = 1 THEN column ELSE column \o Copies(yy[1], es + 1)

\* Any other symbol than the last: the byte at that place of the list.
Literal(v) ==
  /\ IF Len(WithRun) >= BlockSize
     THEN UNCHANGED <<es, N, yy, column>> /\ Leave("DATA_ERROR")
     ELSE /\ column' = Append(WithRun, yy[v])
          /\ yy' = MoveToFront(yy, v - 1)
          /\ es' = -1 /\ N' = 1
          /\ Stay
  /\ UNCHANGED <<dstate, walk, crcs>>

\* Mutant: save_nblock misses the run before the end-of-block symbol.
EndOfBlockMissesRun ==
  LET vec == InverseVector(WithRun)
      p0 == vec[header.origPtr].next
  IN  IF header.origPtr >= Len(WithRun)
      THEN UNCHANGED <<dstate, decoding, walk, crcs>> /\ Leave("DATA_ERROR")
      ELSE /\ es' = -1 /\ N' = 1
           /\ tt' = vec /\ k0' = vec[p0].ch /\ tPos' = vec[p0].next /\ nblock_used' = 1
           /\ state_out_ch' = 0 /\ state_out_len' = 0
           /\ calculatedBlockCRC' = << >>
           /\ dstate' = "output"
           /\ Stay
           /\ UNCHANGED <<yy, column, calculatedCombinedCRC>>

\* The end-of-block symbol: build tt, and fetch the first byte.
EndOfBlock ==
  LET vec == InverseVector(WithRun)
      p0 == vec[header.origPtr].next
  IN  IF Len(WithRun) > BlockSize \/ header.origPtr >= Len(WithRun)
      THEN UNCHANGED <<dstate, decoding, walk, crcs>> /\ Leave("DATA_ERROR")
      ELSE /\ column' = WithRun
           /\ es' = -1 /\ N' = 1
           /\ tt' = vec
           /\ k0' = vec[p0].ch
           /\ tPos' = vec[p0].next
           /\ nblock_used' = 1
           /\ state_out_ch' = 0 /\ state_out_len' = 0
           /\ calculatedBlockCRC' = << >>
           /\ dstate' = "output"
           /\ Stay
           /\ UNCHANGED <<yy, calculatedCombinedCRC>>

\* The loop over the symbols.
Symbol ==
  /\ Decompress /\ dstate = "mtf"
  /\ Take
  /\ \E v \in -1..(Cardinality(header.inUse) + 1) :
       /\ Read(v)
       /\ CASE v = -1 -> UNCHANGED <<dstate, decoding, walk, crcs>> /\ Leave("DATA_ERROR")
            [] v \in {BZ_RUNA, BZ_RUNB} -> RunDigit(v)
            [] v = Cardinality(header.inUse) + 1 -> EndOfBlock
            [] OTHER -> Literal(v)
  /\ UNCHANGED header

---------------------------------------------------------------------------
(* unRLE_obuf_to_output_FAST and the end of a block.                       *)

PutOut == rpc = "decompress" /\ dstate = "output"
nblockPP == Len(column) + 1

\* One byte of the run in progress.
Emit ==
  /\ PutOut
  /\ state_out_len > 0
  /\ Len(buf) < wanted
  /\ buf' = Append(buf, state_out_ch)
  /\ calculatedBlockCRC' = Append(calculatedBlockCRC, state_out_ch)
  /\ state_out_len' = state_out_len - 1
  /\ UNCHANGED <<rpc, unread, ibuf, dstate, header, decoding, tt, tPos, k0,
                 nblock_used, state_out_ch, calculatedCombinedCRC, client, fault>>

NeedSpace ==
  /\ PutOut
  /\ state_out_len > 0
  /\ Len(buf) = wanted
  /\ rpc' = "return"
  /\ UNCHANGED <<unread, ibuf, dstate, header, decoding, walk, crcs, client, buf, fault>>

\* The next run: bytes equal to k0, at most four and then a count, but not past
\* the end of the block.
NextRun ==
  LET a == tt[tPos]
      b == tt[a.next]
      c == tt[b.next]
      d == tt[c.next]
      e == tt[d.next]
      Ends(n) == nblock_used + n = nblockPP
      Run(len, ch, pos, used) == [len |-> len, k0 |-> ch, tPos |-> pos, used |-> nblock_used + used]
  IN  IF a.ch # k0 THEN Run(1, a.ch, a.next, 1)
      ELSE IF Ends(1) THEN Run(1, k0, a.next, 1)
      ELSE IF Ends(2) THEN Run(2, k0, b.next, 2)
      ELSE IF b.ch # k0 THEN Run(2, b.ch, b.next, 2)
      ELSE IF Ends(3) THEN Run(3, k0, c.next, 3)
      ELSE IF c.ch # k0 THEN Run(3, c.ch, c.next, 3)
      ELSE Run(d.ch + 4, e.ch, e.next, 5)

StartRun ==
  /\ PutOut
  /\ state_out_len = 0
  /\ nblock_used < nblockPP
  /\ state_out_ch' = k0
  /\ state_out_len' = NextRun.len
  /\ k0' = NextRun.k0
  /\ tPos' = NextRun.tPos
  /\ nblock_used' = NextRun.used
  /\ UNCHANGED <<rpc, unread, ibuf, dstate, header, decoding, tt, crcs, client, buf, fault>>

\* A count that lies behind the end of the block: the data are corrupt.
RunOverEnd ==
  /\ PutOut
  /\ state_out_len = 0
  /\ nblock_used > nblockPP
  /\ Leave("DATA_ERROR")
  /\ UNCHANGED <<unread, ibuf, dstate, header, decoding, walk, crcs, fault>>

\* The block is out: compare its CRC, and on to the next one.
BlockOut ==
  /\ PutOut
  /\ state_out_len = 0
  /\ nblock_used = nblockPP
  /\ IF calculatedBlockCRC = header.crc
     THEN /\ calculatedCombinedCRC' = Append(calculatedCombinedCRC, calculatedBlockCRC)
          /\ dstate' = "blkhdr"
          /\ Stay
     ELSE /\ Leave("DATA_ERROR")
          /\ UNCHANGED <<dstate, calculatedCombinedCRC>>
  /\ UNCHANGED <<unread, ibuf, header, decoding, walk, calculatedBlockCRC, fault>>

---------------------------------------------------------------------------
ReaderStep ==
  \/ Fill \/ Returns
  \/ NeedInput \/ Magic \/ BlockHeader \/ Symbol
  \/ Emit \/ NeedSpace \/ StartRun \/ RunOverEnd \/ BlockOut

ReaderNext ==
  \/ BZ2_bzReadOpen
  \/ \E n \in ReadLens : BZ2_bzRead(n)
  \/ ReaderStep

Init == WriterInit /\ ReaderInit

Next ==
  \/ WriterNext /\ UNCHANGED readerVars
  \/ ReaderNext /\ UNCHANGED writerVars

\* A call that runs goes on; nobody has to make another one.
Spec == Init /\ [][Next]_vars /\ WF_vars(ReaderStep /\ UNCHANGED writerVars)
---------------------------------------------------------------------------
(* Correctness.                                                            *)

\* The decoder's walk never leaves the block, even when a symbol is damaged:
\* what lies behind it in tt belongs to an earlier block.
WalkInsideBlock ==
  dstate = "output" =>
    /\ tPos \in 0..(Len(column) - 1)
    /\ \A p \in DOMAIN tt : tt[p].next \in DOMAIN tt

\* The reader stops right behind the trailer: what follows the stream is there
\* for whoever asks with BZ2_bzReadGetUnused.
StopsAtTrailer ==
  verdict = "end" => ibuf \o unread = IF fault = "more" THEN <<Junk>> ELSE << >>

\* Every call returns, however the file ends.
ReadReturns == rpc # "idle" /\ rpc # "shut" ~> rpc = "idle"

\* Writer, file and reader together are a byte stream.
Abstract == INSTANCE ByteStream WITH
  sent <- data,
  closed <- status = "closed",
  received <- got,
  verdict <- IF verdict \in {"none", "end"} THEN verdict ELSE "error",
  damaged <- status \in {"abandoned", "failed"} \/ fault \in {"cut", "damage"},
  garbled <- fault = "damage"

\* What the reader gets is what the writer wrote: the pieces in which either of
\* them works, the runs, the sorted blocks and the symbols between them do not
\* show; a cut or damaged file ends in an error and never in a wrong end.
ImplementsByteStream == Abstract!Spec
=============================================================================
