------------------------------ MODULE BoundedFifo ------------------------------
(***************************************************************************)
(* What a receive buffer of the library promises to the code that polls it: *)
(* a first-in first-out store of bounded capacity that drops the newest     *)
(* arrival when it is full, and does nothing else to the data.  Arrivals    *)
(* are named by their order on the wire, 1, 2, 3, ..., so that a byte lost, *)
(* repeated or overtaken can be told from the others whatever its value.    *)
(***************************************************************************)
EXTENDS Naturals, Sequences

CONSTANTS Capacity,      \* arrivals the buffer can hold
          MaxArrivals    \* bound on the arrivals of one behaviour

\* What the theorems about this module assume of its constants.
FifoAssumption == Capacity \in Nat \ {0} /\ MaxArrivals \in Nat

VARIABLES arrived,       \* number of arrivals so far
          stored,        \* arrivals held, oldest first
          delivered,     \* arrivals handed to the rx handler, oldest first
          lost           \* number of arrivals dropped because the buffer was full

vars == <<arrived, stored, delivered, lost>>

Init == arrived = 0 /\ stored = <<>> /\ delivered = <<>> /\ lost = 0

Accept ==
    /\ arrived < MaxArrivals
    /\ Len(stored) < Capacity
    /\ arrived' = arrived + 1
    /\ stored' = Append(stored, arrived + 1)
    /\ UNCHANGED <<delivered, lost>>

Drop ==
    /\ arrived < MaxArrivals
    /\ Len(stored) = Capacity
    /\ arrived' = arrived + 1
    /\ lost' = lost + 1
    /\ UNCHANGED <<stored, delivered>>

Deliver ==
    /\ stored # <<>>
    /\ stored' = Tail(stored)
    /\ delivered' = Append(delivered, Head(stored))
    /\ UNCHANGED <<arrived, lost>>

Next == Accept \/ Drop \/ Deliver

Spec == Init /\ [][Next]_vars
--------------------------------------------------------------------------------
\* The arrivals held and handed over are numbers of arrivals, and no more were lost
\* than arrived.
TypeOK ==
    /\ arrived \in 0..MaxArrivals
    /\ stored \in Seq(0..MaxArrivals)
    /\ delivered \in Seq(0..MaxArrivals)
    /\ lost \in 0..MaxArrivals

Increasing(s) == \A i, j \in 1..Len(s) : i < j => s[i] < s[j]

\* Everything handed over or still held, oldest first
History == delivered \o stored

\* Arrivals keep their order, none is repeated, and every one that is neither
\* delivered nor held was counted as lost.
InOrderOnce ==
    /\ Increasing(History)
    /\ Len(History) + lost = arrived
================================================================================
