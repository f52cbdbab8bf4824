---------------------------- MODULE MCSparseImage ----------------------------
(* Instances of SparseImage for TLC: images of up to three chunks, windows   *)
(* of eight words, slots and a fill buffer of two blocks of two words.  Fill *)
(* chunks are smaller and larger than the buffer, with the value of an       *)
(* erased medium and the one an earlier image may have left in the buffer.   *)
(* The length of a chunk of nine blocks wraps to one block.                  *)
EXTENDS SparseImage

Chunk(types, sizes, vals) == [type : types, blks : sizes, val : vals]
MCChunks == Chunk({"raw"}, {1, 2, 5}, {-3}) \cup Chunk({"fill"}, {1, 3}, {-2, -3})
            \cup Chunk({"fill"}, {9}, {-3})
            \cup Chunk({"dontcare"}, {1, 9}, {-3}) \cup Chunk({"bad"}, {1}, {-3})

MCImages == UNION {[1..n -> MCChunks] : n \in 1..3}
(* A fill chunk behind others: its header may be the last of a window.       *)
MCFills == {<<a, b>> : a \in Chunk({"raw"}, {1, 2}, {-3}), b \in Chunk({"fill"}, {1}, {-3})}
=============================================================================
