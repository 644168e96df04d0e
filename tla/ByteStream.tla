----------------------------- MODULE ByteStream -----------------------------
(***************************************************************************)
(* What a compressed file promises to the one who writes it and the one    *)
(* who reads it, without blocks, symbols, buffers or calls that stop half  *)
(* way: bytes come out in the order in which they went in, the reader is   *)
(* told that it has reached the end only when it has got every byte of a   *)
(* stream that was closed, and it is told of an error only when something  *)
(* went wrong with the file.                                               *)
(***************************************************************************)
EXTENDS Naturals, Sequences, SequencesExt

CONSTANT Byte

VARIABLES
  sent,       \* bytes the writer has put in
  closed,     \* the writer has closed the stream
  received,   \* bytes the reader has been given
  verdict,    \* "none", "end", "error"
  damaged,    \* the file is not what the writer would have left
  garbled     \* it is not even a part of it

vars == <<sent, closed, received, verdict, damaged, garbled>>

Init ==
  /\ sent = << >>
  /\ closed = FALSE
  /\ received = << >>
  /\ verdict = "none"
  /\ damaged = FALSE
  /\ garbled = FALSE

Send ==
  /\ ~closed
  /\ \E c \in Byte : sent' = Append(sent, c)
  /\ UNCHANGED <<closed, received, verdict, damaged, garbled>>

Close ==
  /\ ~closed
  /\ closed' = TRUE
  /\ UNCHANGED <<sent, received, verdict, damaged, garbled>>

\* The writer gives up, or the file is cut short or changed.
Damage ==
  /\ damaged' = TRUE
  /\ garbled' \in {garbled, TRUE}
  /\ UNCHANGED <<sent, closed, received, verdict>>

\* The reader is given more bytes, and perhaps told that these are all.
Receive ==
  /\ verdict = "none"
  /\ IsPrefix(received, received')
  /\ garbled \/ IsPrefix(received', sent)
  /\ verdict' \in {"none", "end"}
  /\ verdict' = "end" => closed /\ received' = sent
  /\ UNCHANGED <<sent, closed, damaged, garbled>>

\* The damage may have been done before, or be the very step that is refused.
Complain ==
  /\ verdict = "none"
  /\ verdict' = "error"
  /\ damaged' = TRUE
  /\ garbled' \in {garbled, TRUE}
  /\ UNCHANGED <<sent, closed, received>>

Next == Send \/ Close \/ Damage \/ Receive \/ Complain

Spec == Init /\ [][Next]_vars
=============================================================================
