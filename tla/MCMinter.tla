------------------------------ MODULE MCMinter ------------------------------
EXTENDS Minter, TLC

CONSTANTS s1, x1, alice, bob, a, b, r1, r2

\* One user, one seat: the reservation is polled again and again until it is settled.
OneUser == (r1 :> alice)

\* Two users after the same seat.
Rivals == (r1 :> alice) @@ (r2 :> bob)
SameSeat == [r \in Reservation |-> <<s1, x1>>]

Interchangeable == Permutations(Worker) \union Permutations(Address)
=============================================================================
