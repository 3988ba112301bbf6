----------------------------- MODULE FuseQueue ------------------------------
(***************************************************************************)
(* fifo_priority_queue<FuseEntry, Time, PrioritizeFuseEntries>: a queue of *)
(* tokens for every priority in use.  A priority is the complement (~) of  *)
(* a time, so the earliest time has the largest priority.                  *)
(***************************************************************************)
EXTENDS Sublist, FiniteSetsExt, SequencesExt, Functions

CONSTANT LastTime
ASSUME LastTimeAssumption == LastTime \in Nat

Times == 0..LastTime

\* ~time, which is its own inverse
Priority(time) == LastTime - time

EmptyQueue == [p \in {} |-> <<>>]

\* Mutant: the queue of a priority is last in, first out
PushFirst(queue, entry) ==
    LET p == Priority(entry.time)
    IN  [q \in DOMAIN queue \cup {p} |->
            (IF q = p THEN <<entry.token>> ELSE <<>>) \o
            (IF q \in DOMAIN queue THEN queue[q] ELSE <<>>)]

Push(queue, entry) ==
    LET p == Priority(entry.time)
    IN  IF p \in DOMAIN queue
        THEN [queue EXCEPT ![p] = Append(@, entry.token)]
        ELSE [q \in DOMAIN queue \cup {p} |->
                 IF q = p THEN <<entry.token>> ELSE queue[q]]

TopPriority(queue) == Max(DOMAIN queue)
Top(queue) ==
    [time |-> Priority(TopPriority(queue)), token |-> Head(queue[TopPriority(queue)])]

\* The queue of a priority goes with its last entry
Pop(queue) ==
    LET p == TopPriority(queue)
    IN  IF Len(queue[p]) = 1 THEN Restrict(queue, DOMAIN queue \ {p})
                             ELSE [queue EXCEPT ![p] = Tail(@)]

Queued(queue) == UNION {Range(queue[p]) : p \in DOMAIN queue}

\* The entries of a queue but for some tokens, in the order in which they will
\* come to the top
EntriesAt(queue, removed, t) ==
    IF Priority(t) \notin DOMAIN queue THEN <<>>
    ELSE LET tokens == Without(queue[Priority(t)], removed)
         IN  [i \in DOMAIN tokens |-> [time |-> t, token |-> tokens[i]]]
InOrder(queue, removed) ==
    FlattenSeq([i \in 1..(LastTime + 1) |-> EntriesAt(queue, removed, i - 1)])

IsQueue(queue, tokens) ==
    /\ DOMAIN queue \subseteq {Priority(t) : t \in Times}
    /\ \A p \in DOMAIN queue : queue[p] \in Seq(tokens) /\ queue[p] # <<>>
=============================================================================
