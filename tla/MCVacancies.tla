---------------------------- MODULE MCVacancies ----------------------------
EXTENDS Vacancies, TLC

CONSTANTS s1, s2, a, b, r1, r2, r3, r4

\* Two requests for one seat, one for its neighbour, one for the same seat elsewhere.
WantedSeats == (r1 :> <<s1, a>>) @@ (r2 :> <<s1, a>>) @@ (r3 :> <<s1, b>>) @@ (r4 :> <<s2, a>>)

\* Two requests for one seat.
RivalSeats == (r1 :> <<s1, a>>) @@ (r2 :> <<s1, a>>)
=============================================================================
