--------------------------- MODULE MCRoundBuffer ---------------------------
(***************************************************************************)
(* A ring of 5 bytes, headers of two bytes, packets of 2 and 3 bytes (and  *)
(* one too large), so that packets wrap at every offset, in the middle of  *)
(* a header too, and a wakeup may go to a producer whose packet does not   *)
(* fit.                                                                    *)
(***************************************************************************)
EXTENDS RoundBuffer

CONSTANTS a, b, c

MCPackets == {a, b, c}
MCLen == [p \in MCPackets |-> CASE p = a -> 2 [] p = b -> 3 [] p = c -> 6]

\* The abstract queue: the packets whose first byte is in the ring, and what
\* the last call of each reader handed out.
queue ==
    LET headers == SelectSeq(peek_data(size_), LAMBDA x : x[2] = 1)
    IN  [i \in 1 .. Len(headers) |-> headers[i][1]]

received ==
    [t \in Consumers \cup Pollers |->
        IF out[t] = << >> THEN None
        ELSE IF out[t] = PacketBytes(out[t][1][1]) THEN out[t][1][1]
        ELSE "garbled"]

Queue == INSTANCE PacketQueue WITH Consumers <- Consumers \cup Pollers

\* The ring is a FIFO queue of packets for any number of producers, blocking
\* and polling consumers.
IsPacketQueue == Queue!Spec
=============================================================================
