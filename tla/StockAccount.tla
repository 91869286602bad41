----------------------------- MODULE StockAccount -----------------------------
(***************************************************************************)
(* What the stock ledger promises to those who read it: one book for all   *)
(* places, to which bookings are added one at a time and in which nothing  *)
(* is ever changed.  What is on hand at a place is the sum of its bookings, *)
(* and a booking takes no more than that.  No requests, no balances that   *)
(* are kept beside the book, no checks ahead of the booking.               *)
(***************************************************************************)
EXTENDS Integers, Sequences, Functions

CONSTANTS
    Places,  \* where stock is kept
    Amounts  \* what a booking may add or, negative, take

VARIABLE booked  \* the bookings, as [place, amount], in order

\* The sum of the bookings of place p.
OnHand(p) ==
    SumFunctionOnSet([k \in DOMAIN booked |-> booked[k].amount],
                     {k \in DOMAIN booked : booked[k].place = p})

Init == booked = <<>>

Book(p, amount) ==
    /\ OnHand(p) + amount >= 0
    /\ booked' = Append(booked, [place |-> p, amount |-> amount])

Next == \E p \in Places, amount \in Amounts : Book(p, amount)

Spec == Init /\ [][Next]_booked
=============================================================================
