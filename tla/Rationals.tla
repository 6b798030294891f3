------------------------------ MODULE Rationals ------------------------------
(* Exact fractions <<numerator, denominator>>, reduced, denominator positive. *)
EXTENDS Integers

LOCAL gcd[p \in Nat \X Nat] == IF p[2] = 0 THEN p[1] ELSE gcd[<<p[2], p[1] % p[2]>>]
LOCAL Size(n) == IF n < 0 THEN -n ELSE n

Frac(n, d) == LET g == gcd[<<Size(n), Size(d)>>] * (IF d < 0 THEN -1 ELSE 1)
              IN  <<n \div g, d \div g>>
Whole(n) == <<n, 1>>
Plus(a, b) == LET g == gcd[<<a[2], b[2]>>]     \* over the least common denominator
              IN  Frac(a[1] * (b[2] \div g) + b[1] * (a[2] \div g), (a[2] \div g) * b[2])
Minus(a, b) == Plus(a, <<-b[1], b[2]>>)
Times(a, b) == LET x == Frac(a[1], b[2])     \* crosswise first: the products stay small
                   y == Frac(b[1], a[2])
               IN  <<x[1] * y[1], x[2] * y[2]>>
Over(a, b) == Times(a, IF b[1] < 0 THEN <<-b[2], -b[1]>> ELSE <<b[2], b[1]>>)
AtMost(a, b) == Minus(b, a)[1] >= 0
Below(a, b) == Minus(b, a)[1] > 0
Distance(a, b) == IF AtMost(a, b) THEN Minus(b, a) ELSE Minus(a, b)

\* Python's round(): to the nearest whole number, a half to the even one.
Rounded(a) == LET down == a[1] \div a[2]
                  rest == 2 * (a[1] % a[2])
              IN  IF rest < a[2] \/ (rest = a[2] /\ down % 2 = 0) THEN down ELSE down + 1
=============================================================================
