--------------------------- MODULE MCByteBuffers ----------------------------
(* Two interchangeable buffers of a few bytes over a two-letter alphabet.  *)
EXTENDS ByteBuffers, TLC

MCPayloads == {<<>>, <<1>>, <<0, 1>>}
Interchangeable == Permutations(Names)
=============================================================================
