------------------------------- MODULE MCMail -------------------------------
(* Two players, one item and two mails, so that a mail is answered by its    *)
(* return or its payment.                                                    *)
EXTENDS Mail

\* Every mail holds money, and one with an item asks for money on delivery; a
\* mail that was returned holds the item and asks for nothing.
GiftAndPrice == {[money |-> 1, cod |-> 1]}

\* Bound: no mail expires after a crash.
CrashStopsExpiry == "crash" \in exposed => returner.stage = "idle"
=============================================================================
