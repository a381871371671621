------------------------------- MODULE SeqNum -------------------------------
(***************************************************************************)
(* The 16 bit sequence numbers of the minetest transport protocol (MTP):   *)
(* the comparisons of network/mtp/internal.h and the window calculation    *)
(* of ConnectionSendThread::sendAsPacketReliable.  Every operator is the   *)
(* arithmetic of the code, with the width of u16 as the parameter          *)
(* SEQNUM_MAX + 1, so that TLC can enumerate a small number space and      *)
(* TLAPS can reason about any.                                             *)
(***************************************************************************)
EXTENDS Integers

CONSTANTS SEQNUM_MAX,                 \* internal.h: 65535
          MAX_RELIABLE_WINDOW_SIZE    \* internal.h: 0x8000

ASSUME SeqNumAssumption ==
    /\ SEQNUM_MAX \in Nat
    /\ MAX_RELIABLE_WINDOW_SIZE \in Nat \ {0}
    /\ SEQNUM_MAX + 1 = 2 * MAX_RELIABLE_WINDOW_SIZE

SeqNums == 0 .. SEQNUM_MAX

\* Conversion of an int to u16.
U16(x) == x % (SEQNUM_MAX + 1)

seqnum_higher(totest, base) ==
    IF totest > base
    THEN totest - base <= SEQNUM_MAX \div 2
    ELSE base - totest > SEQNUM_MAX \div 2

seqnum_in_window(seqnum, next, window_size) ==
    LET window_end == U16(next + window_size) IN
    IF next < window_end
    THEN seqnum >= next /\ seqnum < window_end
    ELSE seqnum < window_end \/ seqnum >= next

\* The % of C++ truncates towards zero.
CRemainder(a, b) == IF a >= 0 THEN a % b ELSE -((-a) % b)

\* Variant: the window taken to start at the next number to be given out.
SentWindowStart_Next(next_outgoing) == next_outgoing

\* "wtf is this calculation??": the lower end of the window in which a packet
\* that is sent may be buffered for resending.
SentWindowStart(next_outgoing) ==
    U16(CRemainder(next_outgoing - MAX_RELIABLE_WINDOW_SIZE,
                   MAX_RELIABLE_WINDOW_SIZE + 1))

\* Variant: only the comparison for numbers that did not wrap.
WindowExceeded_NoWrap(next_outgoing, lowest, window_size) ==
    next_outgoing - lowest > window_size

\* getOutgoingSequenceNumber's two comparisons, for a non-empty list of sent
\* packets whose first one has number lowest.
WindowExceeded(next_outgoing, lowest, window_size) ==
    IF lowest < next_outgoing
    THEN next_outgoing - lowest > window_size
    ELSE next_outgoing + (SEQNUM_MAX - lowest) > window_size

-----------------------------------------------------------------------------
(***************************************************************************)
(* What the arithmetic means, on the circle of sequence numbers.           *)
(***************************************************************************)

\* Number of steps from a forward to b.
Ahead(a, b) == IF a <= b THEN b - a ELSE b - a + SEQNUM_MAX + 1

\* The number d steps after (d >= 0) or before (d < 0) s; |d| <= SEQNUM_MAX.
Shift(s, d) ==
    IF s + d > SEQNUM_MAX THEN s + d - (SEQNUM_MAX + 1)
    ELSE IF s + d < 0 THEN s + d + SEQNUM_MAX + 1
    ELSE s + d
=============================================================================
