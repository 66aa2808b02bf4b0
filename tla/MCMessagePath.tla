--------------------------- MODULE MCMessagePath ---------------------------
(* Bytes of three bits and two of them in a frame, so that the longest     *)
(* message allowed has five fragments and one byte more would be too many. *)
EXTENDS MessagePath

MCByteOf == [n \in 0 .. 7 |-> {b \in Bits : (n \div 2 ^ b) % 2 = 1}]
MCGenerator == {0, 1}
MCGarbage == {{0, 2}}
MCLists == {"input", "buffered", "outgoing", "incoming", "received"}

\* Eight bytes, one byte, and as many as a frame has room for.
MCTexts == {<<{0}, {1}, {2}, {0, 1}, {1, 2}, {0, 2}, {0, 1, 2}, {0}>>, <<{2}>>, <<{1}, {0, 1}>>}
MCValues == MCTexts \cup Frames
=============================================================================
