---------------------------- MODULE PacketQueue ----------------------------
(***************************************************************************)
(* What MutexRoundBuffer promises its users: packets come out whole, once, *)
(* and in the order in which they went in.                                 *)
(***************************************************************************)
EXTENDS Sequences

CONSTANTS Packets, Consumers

VARIABLES
    queue,    \* packets put in and not yet taken out, oldest first
    received  \* what each consumer got last

None == "none"

Init ==
    /\ queue = << >>
    /\ received = [c \in Consumers |-> None]

Enqueue(p) ==
    /\ queue' = Append(queue, p)
    /\ UNCHANGED received

Get(c) ==
    /\ queue # << >>
    /\ received' = [received EXCEPT ![c] = Head(queue)]
    /\ queue' = Tail(queue)

Next ==
    \/ \E p \in Packets : Enqueue(p)
    \/ \E c \in Consumers : Get(c)

Spec == Init /\ [][Next]_<<queue, received>>
=============================================================================
