--------------------------- MODULE OrderRegistry ---------------------------
(***************************************************************************)
(* What an order registry promises, whatever calls it makes in between:    *)
(* the abstract specification of connector/order_manager.py.  There are    *)
(* orders at an exchange, a registry in memory that knows some of them,    *)
(* and a durable copy from which a new process starts.                     *)
(***************************************************************************)
EXTENDS Naturals, Sequences

VARIABLES
    book,     \* the exchange: what became of the n-th order
    known,    \* memory: the orders the registry knows
    durable   \* storage: the orders that outlive the process

vars == <<book, known, durable>>

Init == book = <<>> /\ known = {} /\ durable = {}

\* An order is sent, then rests or is refused; a resting one ends at last.
Successors ==
    [sent |-> {"sent", "live", "refused"}, live |-> {"live", "gone"},
     refused |-> {"refused"}, gone |-> {"gone"}]

BookMoves ==
    /\ Len(book') = Len(book)
    /\ \A o \in DOMAIN book : book'[o] \in Successors[book[o]]
Submission == book' = Append(book, "sent")

\* Of a set of orders only those are given up that cannot trade any more,
\* and only orders that the exchange has accepted enter it.
GivesUpTheDead(orders, after) == \A o \in orders \ after : book'[o] = "gone"
LearnsAccepted(orders, after) ==
    \A o \in after \ orders : book'[o] \in {"live", "gone"}

\* Storage learns from memory.
Stores == GivesUpTheDead(durable, durable') /\ durable' \ durable \subseteq known'

\* The registry at work.
Track ==
    /\ BookMoves \/ Submission
    /\ GivesUpTheDead(known, known') /\ LearnsAccepted(known, known')
    /\ Stores

\* The process ends: memory is lost, storage is not.
Stop == BookMoves /\ known' = {} /\ GivesUpTheDead(durable, durable')
        /\ durable' \subseteq durable

\* A new process knows what was stored.
Restart == known = {} /\ known' = durable /\ UNCHANGED <<book, durable>>

Next == Track \/ Stop \/ Restart

Spec == Init /\ [][Next]_vars
=============================================================================
