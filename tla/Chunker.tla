------------------------------ MODULE Chunker ------------------------------
(***************************************************************************)
(* streamToChunks of src/src/utils/stream.ts: the generator that cuts the  *)
(* values of a stream into chunks of one size, the first one shorter by    *)
(* `skip` bytes, and marks the last one.  It learns that a chunk was the   *)
(* last only when the stream ends, so that it always keeps one back.       *)
(*                                                                         *)
(* A generator is a record and a step of it an operator on that record.    *)
(* Chunks it has yielded and nobody has taken yet are in `out`; it goes on *)
(* only when they are taken.                                               *)
(***************************************************************************)
EXTENDS Naturals, Sequences

CONSTANTS ChunkSize

ASSUME ChunkSizeAssumption == ChunkSize \in Nat \ {0}

\* `value` is what is left of the value read last, `pending` the chunk kept
\* back and `buffer` the beginning of the next one.
NewChunker(skip) ==
    [skip |-> skip, value |-> <<>>, buffer |-> <<>>, pending |-> <<>>, first |-> TRUE,
     index |-> 0, out |-> <<>>, ended |-> FALSE]

\* The size of the chunk the buffer is to become.
Target(c) == IF c.first THEN ChunkSize - c.skip ELSE ChunkSize

Suspended(c) == c.out # <<>>
Reading(c) == ~Suspended(c) /\ c.value = <<>> /\ ~c.ended
Filling(c) == ~Suspended(c) /\ c.value # <<>>

Chunk(c, bytes, done) == [index |-> c.index, chunk |-> bytes, done |-> done]

\* A value of the stream; it may be empty.
ReadValue(c, value) == [c EXCEPT !.value = value]

\* One turn of the inner loop: the buffer takes what it has space for; when it
\* is full it is kept back in place of the chunk before, which is yielded.
Fill(c) ==
    LET space == Target(c) - Len(c.buffer)
        taken == IF space < Len(c.value) THEN space ELSE Len(c.value)
        bytes == c.buffer \o SubSeq(c.value, 1, taken)
        full == Len(bytes) = Target(c)
        yields == full /\ c.pending # <<>>
    IN  [c EXCEPT !.value = SubSeq(c.value, taken + 1, Len(c.value)),
                  !.buffer = IF full THEN <<>> ELSE bytes,
                  !.pending = IF full THEN bytes ELSE c.pending,
                  !.first = c.first /\ ~full,
                  !.out = IF yields THEN <<Chunk(c, c.pending, FALSE)>> ELSE <<>>,
                  !.index = IF yields THEN c.index + 1 ELSE c.index]

\* Variant: the chunk kept back is taken for the last one.
AlwaysLast(c) == TRUE
PendingIsLast(c) == c.buffer = <<>>

\* The end of the stream: what was kept back, and what is in the buffer.
EndOfStream(c) ==
    LET kept == IF c.pending = <<>> THEN <<>>
                ELSE <<Chunk(c, c.pending, PendingIsLast(c))>>
        rest == IF c.buffer = <<>> THEN <<>>
                ELSE <<[index |-> c.index + Len(kept), chunk |-> c.buffer, done |-> TRUE]>>
    IN  [c EXCEPT !.out = kept \o rest, !.index = c.index + Len(kept) + Len(rest),
                  !.pending = <<>>, !.buffer = <<>>, !.ended = TRUE]

\* The consumer asks for the next chunk.
Taken(c) == [c EXCEPT !.out = Tail(c.out)]
=============================================================================
