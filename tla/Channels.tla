------------------------------ MODULE Channels ------------------------------
(***************************************************************************)
(* What sockets promise to those who use them.  Each of a set of links     *)
(* hands over whole messages, in the order they were sent, each once.      *)
(* Messages are lost only when the link breaks (the connection is reset,   *)
(* or the receiver closes it), and then only the last ones.  A step may    *)
(* use several links.                                                      *)
(***************************************************************************)
EXTENDS Naturals, Sequences, SequencesExt

CONSTANTS Links, Messages
VARIABLES
    queue,   \* sent and not handed over
    taken,   \* handed over in the last step
    broken

vars == <<queue, taken, broken>>

Init ==
    /\ queue = [l \in Links |-> <<>>] /\ taken = [l \in Links |-> <<>>]
    /\ broken = [l \in Links |-> FALSE]

Send(l) ==
    /\ ~broken[l] /\ ~broken'[l]
    /\ IsStrictPrefix(queue[l], queue'[l]) /\ Range(queue'[l]) \subseteq Messages
    /\ taken'[l] = <<>>

Receive(l) ==
    /\ broken'[l] = broken[l]
    /\ taken'[l] \o queue'[l] = queue[l]

Break(l) ==
    /\ broken'[l]
    /\ IsPrefix(taken'[l] \o queue'[l], queue[l])

Next == \A l \in Links : Receive(l) \/ Send(l) \/ Break(l)
Spec == Init /\ [][Next]_vars
=============================================================================
