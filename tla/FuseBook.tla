------------------------------ MODULE FuseBook ------------------------------
(***************************************************************************)
(* What the world promises to a game module that adds a fuse: it goes off  *)
(* once, in the tick it was set for, after those that were due before it   *)
(* or were set for the same tick before it, unless it was removed; and the *)
(* clock does not pass a fuse that is due.  The book lists the fuses that  *)
(* are still to go off, in the order in which they will.                   *)
(***************************************************************************)
EXTENDS Sublist, FiniteSets, SequencesExt

CONSTANTS Times, Tokens
VARIABLES now, book

Entries == [time : Times, token : Tokens]

\* The book with an entry put after all that are due no later
Entered(entry) ==
    LET before == Cardinality({i \in DOMAIN book : book[i].time <= entry.time})
    IN  InsertAt(book, before + 1, entry)

Init == now \in Times /\ book = <<>>

Add == \E entry \in Entries :
    /\ entry.time >= now
    /\ \A i \in DOMAIN book : book[i].token # entry.token
    /\ book' = Entered(entry)
    /\ UNCHANGED now

\* A unit that dies takes all its fuses with it
Drop == \E tokens \in SUBSET {book[i].token : i \in DOMAIN book} :
    /\ book' = Without(book, [time : Times, token : tokens])
    /\ UNCHANGED now

GoOff ==
    /\ book # <<>> /\ Head(book).time = now
    /\ book' = Tail(book)
    /\ UNCHANGED now

Tick ==
    /\ book # <<>> => Head(book).time > now
    /\ now' = now + 1
    /\ UNCHANGED book

Next == GoOff \/ Drop \/ Tick \/ Add
Spec == Init /\ [][Next]_<<now, book>>
=============================================================================
