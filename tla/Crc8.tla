-------------------------------- MODULE Crc8 --------------------------------
(***************************************************************************)
(* The checksum of a frame (util.c: compute_crc8, set_checksum,            *)
(* frame_valid) and the one fault the switch makes, an inverted byte.  A   *)
(* byte is the set of its bits that are 1; one step is one turn of the     *)
(* inner loop of compute_crc8.                                             *)
(***************************************************************************)
EXTENDS Integers

CONSTANTS
    B,          \* the bits of a byte
    N,          \* the bytes of a frame, its checksum the last
    Generator   \* the polynomial without its leading term

Bits == 0 .. B - 1

ASSUME CrcAssumption ==
    /\ B \in Nat \ {0} /\ N \in Nat /\ N >= 2
    /\ Generator \subseteq Bits /\ 0 \in Generator

Byte == SUBSET Bits
Frames == [1 .. N -> Byte]
Places == (1 .. N) \X Bits

VARIABLES
    call,       \* who called compute_crc8
    buf,        \* the bytes it sums
    i, j,       \* bytes read, and bits of the next one
    remainder,
    trace,      \* history: the remainder at each place
    base, past, \* history: the frame that buf came from, and the trace of its sum
    sent        \* history: the frames that were given a checksum, and their traces

crc_vars == <<call, buf, i, j, remainder, trace, base, past, sent>>

Xor(a, b) == (a \ b) \cup (b \ a)

ShiftNoCarry(r, bit) ==  \* Mutant: the generator is not subtracted.
    {b \in Bits : IF b = 0 THEN bit ELSE b - 1 \in r}

ShiftWide(r, bit) ==  \* Mutant: the register is an int and keeps the bits shifted out.
    LET s == {b \in 0 .. 2 * B : IF b = 0 THEN bit ELSE b - 1 \in r}
    IN  IF B - 1 \in r THEN Xor(s, Generator) ELSE s

\* The register takes in one bit and loses its first, for which the generator is
\* subtracted.
Shift(r, bit) ==
    LET s == {b \in Bits : IF b = 0 THEN bit ELSE b - 1 \in r}
    IN  IF B - 1 \in r THEN Xor(s, Generator) ELSE s

CrcInit ==
    /\ call = "none"
    /\ buf = [n \in 1 .. N |-> {}] /\ base = buf
    /\ i = 1 /\ j = 0 /\ remainder = {}
    /\ trace = [p \in Places |-> {}] /\ past = trace /\ sent = {}

\* compute_crc8 starts with the first byte in the register.
Compute(who, f) ==
    /\ call' = who
    /\ buf' = f
    /\ i' = 1 /\ j' = 0 /\ remainder' = f[1]
    /\ trace' = [p \in Places |-> f[1]]

Computing == call # "none" /\ i < N
Computed == call # "none" /\ i = N

NextBit ==
    /\ Computing
    /\ remainder' = Shift(remainder, B - 1 - j \in buf[i + 1])
    /\ \/ j = B - 1 /\ i' = i + 1 /\ j' = 0
       \/ j < B - 1 /\ i' = i /\ j' = j + 1
    /\ trace' = [trace EXCEPT ![<<i', j'>>] = remainder']
    /\ UNCHANGED <<call, buf, base, past, sent>>

\* set_checksum: the sum is taken with the field at 0.
SetChecksum(f) ==
    /\ call = "none"
    /\ Compute("set", [f EXCEPT ![N] = {}])
    /\ UNCHANGED <<base, past, sent>>

\* The sum becomes the checksum, and handle_input_cmds tests the frame.
StoreChecksum ==
    /\ call = "set" /\ Computed
    /\ Compute("test", [buf EXCEPT ![N] = remainder])
    /\ base' = buf /\ past' = trace
    /\ UNCHANGED sent

Tested ==
    /\ call = "test" /\ Computed
    /\ call' = "none"
    /\ sent' = sent \cup {[frame |-> buf, trace |-> trace]}
    /\ UNCHANGED <<buf, i, j, remainder, trace, base, past>>

\* send_frame inverts one byte, or none (p = 0); frame_valid at the other end.
Corrupted(f, p) == IF p = 0 THEN f ELSE [f EXCEPT ![p] = Bits \ @]

Receive(f, p) ==
    /\ call = "none"
    /\ \E e \in sent : e.frame = f /\ past' = e.trace
    /\ Compute("receive", Corrupted(f, p))
    /\ base' = f
    /\ UNCHANGED sent

Received ==
    /\ call = "receive" /\ Computed
    /\ call' = "none"
    /\ UNCHANGED <<buf, i, j, remainder, trace, base, past, sent>>

CrcNext ==
    \/ NextBit \/ StoreChecksum \/ Tested \/ Received
    \/ \E f \in Frames : SetChecksum(f) \/ \E p \in 0 .. N : Receive(f, p)

CrcSpec == CrcInit /\ [][CrcNext]_crc_vars

-----------------------------------------------------------------------------

\* Types of compute_crc8's variables.
CrcTypeOK ==
    /\ call \in {"none", "set", "test", "receive"}
    /\ buf \in Frames /\ base \in Frames
    /\ i \in 1 .. N /\ j \in Bits /\ (i = N => j = 0)
    /\ remainder \in Byte
    /\ trace \in [Places -> Byte] /\ past \in [Places -> Byte]
    /\ sent \subseteq [frame : Frames, trace : [Places -> Byte]]

\* frame_valid accepts every frame that set_checksum has finished.
SentFramesValid == call = "test" /\ Computed => remainder = {}

\* frame_valid accepts a frame from the switch exactly when no byte of it was
\* inverted: a checksum that is itself inverted is found out too.
CorruptionDetected == call = "receive" /\ Computed => (remainder = {} <=> buf = base)
=============================================================================
