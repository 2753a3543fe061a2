------------------------------ MODULE BoundedFifo ------------------------------
(***************************************************************************)
(* What a synchronized FMQ promises (MQDescriptorBase.h, MQFlavor): one    *)
(* writer and one reader share a first-in-first-out queue of bounded size. *)
(* The writer composes bytes in private and puts whole messages at the     *)
(* tail; the reader copies the bytes at the head, in any order, and takes  *)
(* whole messages away that it has copied exactly.  Either may give up.    *)
(***************************************************************************)
EXTENDS Integers, Sequences

CONSTANTS Capacity, MessageSize, Values, None

VARIABLES fifo,      \* the bytes put and not yet taken
          offered,   \* the bytes the writer has composed
          copied     \* the bytes the reader has copied

vars == <<fifo, offered, copied>>

Blank == [j \in 0..(Capacity - 1) |-> None]
Sizes == {k * MessageSize : k \in 0..(Capacity \div MessageSize)}

Init == fifo = <<>> /\ offered = Blank /\ copied = Blank

Compose ==
    /\ \E j \in DOMAIN offered, v \in Values :
          offered[j] = None /\ offered' = [offered EXCEPT ![j] = v]
    /\ UNCHANGED <<fifo, copied>>

Withdraw == offered' = Blank /\ UNCHANGED <<fifo, copied>>

Put(size) ==
    /\ Len(fifo) + size <= Capacity
    /\ \A j \in 0..(size - 1) : offered[j] # None
    /\ fifo' = fifo \o [i \in 1..size |-> offered[i - 1]]
    /\ offered' = Blank
    /\ UNCHANGED copied

Copy ==
    /\ \E i \in 1..Len(fifo) : copied' = [copied EXCEPT ![i - 1] = fifo[i]]
    /\ UNCHANGED <<fifo, offered>>

Take(size) ==
    /\ size <= Len(fifo)
    /\ \A i \in 1..size : copied[i - 1] = fifo[i]
    /\ fifo' = SubSeq(fifo, size + 1, Len(fifo))
    /\ copied' = Blank
    /\ UNCHANGED offered

Discard == copied' = Blank /\ UNCHANGED <<fifo, offered>>

Next == \/ Compose \/ Withdraw \/ Copy \/ Discard
        \/ \E size \in Sizes : Put(size) \/ Take(size)

Spec == Init /\ [][Next]_vars
=============================================================================
