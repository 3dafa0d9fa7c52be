----------------------------- MODULE ClientGrid -----------------------------
(***************************************************************************)
(* grid_values of client.cpp and of range_pricer_client.py: the points lo, *)
(* lo + step, ... up to hi, by repeated addition.  The first adds in       *)
(* float, the second in double; both are modelled, in units of a smallest  *)
(* number, by integers with a limited number of significant bits.          *)
(***************************************************************************)
EXTENDS Integers

CONSTANTS
    Clients,    \* the clients
    Significands, \* how many significands each client's numbers have: 2^24, 2^53
    Eps,        \* 1e-6, in units
    Los, Spans, \* lo, and hi - lo
    Steps,
    MaxPoints   \* bound: the points that fit in memory

ASSUME ClientGridAssumption ==
    /\ Significands \in [Clients -> Nat \ {0}]
    /\ \A c \in Clients : Significands[c] % 2 = 0
    /\ Eps \in Nat /\ MaxPoints \in Nat
    /\ Los \subseteq Int /\ Spans \subseteq Int /\ Steps \subseteq Int

VARIABLES
    client, lo, hi, step,  \* the client and the arguments
    pc,                    \* "enter", "loop", "done" or "bad_alloc"
    x,                     \* the next point
    points                 \* how many points there are

vars == <<client, lo, hi, step, pc, x, points>>

Abs(n) == IF n < 0 THEN -n ELSE n

\* The distance of neighbouring numbers of the size of n: 1, doubled until the
\* significand suffices.
Spacing(wide) ==
    LET ulp[k \in Nat] == IF k < wide THEN 1 ELSE 2 * ulp[k \div 2]
    IN  ulp

Ulp(n) == Spacing(Significands[client])[Abs(n)]

\* To the nearest number, of two equally near to the even one.
RoundAbs(n, ulp) ==
    LET q == n \div ulp
        r == n % ulp
    IN  IF 2 * r > ulp \/ (2 * r = ulp /\ q % 2 = 1) THEN (q + 1) * ulp ELSE q * ulp

Round(n) == IF n < 0 THEN -RoundAbs(-n, Ulp(n)) ELSE RoundAbs(n, Ulp(n))

\* A step that is not positive gives the one point lo; wrongly, it is not
\* looked at.
OnePoint_Never == FALSE
OnePoint == step <= 0

Enter ==
    /\ pc = "enter"
    /\ x' = lo
    /\ IF OnePoint THEN points' = 1 /\ pc' = "done" ELSE points' = 0 /\ pc' = "loop"
    /\ UNCHANGED <<client, lo, hi, step>>

\* x <= hi + 1e-6; wrongly, x < hi + 1e-6.
InRange_Strict == x < Round(hi + Eps)
InRange == x <= Round(hi + Eps)

AddPoint ==
    /\ pc = "loop"
    /\ InRange
    /\ \/ /\ points < MaxPoints
          /\ points' = points + 1
          /\ x' = Round(x + step)
          /\ pc' = pc
       \/ /\ points = MaxPoints
          /\ pc' = "bad_alloc"
          /\ UNCHANGED <<points, x>>
    /\ UNCHANGED <<client, lo, hi, step>>

Leave ==
    /\ pc = "loop"
    /\ ~InRange
    /\ pc' = "done"
    /\ UNCHANGED <<client, lo, hi, step, x, points>>

Ended == pc \in {"done", "bad_alloc"} /\ UNCHANGED vars

\* The flags are doubles; the parameters of grid_values are the client's numbers.
Init ==
    /\ client \in Clients
    /\ \E l \in Los, s \in Spans : lo = Round(l) /\ hi = Round(l + s)
    /\ \E s \in Steps : step = Round(s)
    /\ pc = "enter" /\ x = 0 /\ points = 0

Next == Enter \/ AddPoint \/ Leave \/ Ended

Spec == Init /\ [][Next]_vars
-----------------------------------------------------------------------------
Limit == Round(hi + Eps)

\* The largest distance of neighbouring numbers between lo and the limit.
Coarsest == Ulp(IF Abs(lo) > Abs(Limit) THEN lo ELSE Limit)

\* The loop of grid_values fills the memory only if the step is at most half of that
\* distance, where x + step may round to x again, or if the range really asks for
\* more points than fit.
GridEnds ==
    pc = "bad_alloc" =>
        /\ step > 0
        /\ \/ 2 * step <= Coarsest
           \/ MaxPoints * (2 * step - Coarsest) <= 2 * (Limit - lo)

\* The number of points is the one that hi - lo and step ask for, up to the
\* rounding of each addition by half that distance: too few would leave the end of
\* the range unpriced, too many price beyond it.
GridSize ==
    pc = "done" /\ step > 0 /\ lo <= Limit /\ 2 * step > Coarsest =>
        /\ (points - 1) * (2 * step - Coarsest) <= 2 * (Limit - lo)
        /\ points * (2 * step + Coarsest) > 2 * (Limit - lo)
=============================================================================
