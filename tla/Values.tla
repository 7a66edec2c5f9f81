------------------------------- MODULE Values -------------------------------
(***************************************************************************)
(* The cells of the tables in analysis_py and the arithmetic on them.  A   *)
(* cell is the string '-' (never written) or a number.  Numbers are        *)
(* quotients n/d in lowest terms, or the r-th root of one (a geometric     *)
(* mean), so that no rounding hides a difference; a sum of roots, which no *)
(* property compares, is some number (Inexact).  An operation that makes   *)
(* Python raise (a division by zero, arithmetic on '-') gives Raised, which*)
(* every operation passes on: a table that holds Raised is a process that  *)
(* died before it finished the table.                                      *)
(*                                                                         *)
(* Loops are recursive functions over their steps.                         *)
(***************************************************************************)
EXTENDS Integers, Sequences, FiniteSets, SequencesExt, TLC

Dash == [n |-> 0, d |-> 0, r |-> 1]
Raised == [n |-> 1, d |-> 0, r |-> 1]
Inexact == [n |-> 1, d |-> 1, r |-> 0]
Num(k) == [n |-> k, d |-> 1, r |-> 1]
IsNum(v) == v.d # 0
Plain(v) == IsNum(v) /\ v.r = 1

\* Euclid's algorithm
Gcd(a, b) ==
    LET euclid[y \in 0..b] == [x \in Nat |-> IF y = 0 THEN x ELSE euclid[x % y][y]]
    IN  euclid[b][a]
Size(i) == IF i < 0 THEN -i ELSE i
Sign(i) == IF i < 0 THEN -1 ELSE 1

\* n/d in lowest terms; d is not 0.  A function, like the operations below:
\* its arguments are values, not expressions to evaluate again (TLC).
Fraction[q \in Int \X Int] ==
    LET g == Gcd(Size(q[1]), Size(q[2]))
    IN  [n |-> (Sign(q[2]) * q[1]) \div g, d |-> Size(q[2]) \div g, r |-> 1]
Quotient(n, d) == Fraction[<<n, d>>]

\* what an operation on a and b gives, n/d when both are exact
Exactly(a, b, n, d) ==
    IF Plain(a) /\ Plain(b) THEN Quotient(n, d) ELSE IF IsNum(a) /\ IsNum(b) THEN Inexact ELSE Raised

Cells == [n : Int, d : Nat, r : Nat]
Sum[x \in Cells \X Cells] == Exactly(x[1], x[2], x[1].n * x[2].d + x[2].n * x[1].d, x[1].d * x[2].d)
Difference[x \in Cells \X Cells] == Exactly(x[1], x[2], x[1].n * x[2].d - x[2].n * x[1].d, x[1].d * x[2].d)
Product[x \in Cells \X Cells] == Exactly(x[1], x[2], x[1].n * x[2].n, x[1].d * x[2].d)
Division[x \in Cells \X Cells] ==
    IF x[2].n = 0 THEN Raised ELSE Exactly(x[1], x[2], x[1].n * x[2].d, x[1].d * x[2].n)

Plus(a, b) == Sum[<<a, b>>]
Minus(a, b) == Difference[<<a, b>>]
Times(a, b) == Product[<<a, b>>]
Over(a, b) == Division[<<a, b>>]

HowMany(x) == Cardinality({n \in DOMAIN x : IsNum(x[n])})

Total(x) ==
    LET total[n \in 0..Len(x)] ==
          IF n = 0 THEN Num(0) ELSE IF IsNum(x[n]) THEN Plus(total[n - 1], x[n]) ELSE total[n - 1]
    IN  total[Len(x)]

\* The mean of what is not '-'; '-' when nothing is left.
arith_mean(x) == IF HowMany(x) = 0 THEN Dash ELSE Over(Total(x), Num(HowMany(x)))

Power(v, k) ==
    LET power[n \in 0..k] == IF n = 0 THEN 1 ELSE v * power[n - 1]
    IN  power[k]

RootsProduct[x \in Cells \X Cells] ==
    LET a == x[1]
        b == x[2]
    IN  IF a.r = b.r THEN [Quotient(a.n * b.n, a.d * b.d) EXCEPT !.r = a.r]
        ELSE [Quotient(Power(a.n, b.r) * Power(b.n, a.r), Power(a.d, b.r) * Power(b.d, a.r)) EXCEPT !.r = a.r * b.r]
RootTimes(a, b) == RootsProduct[<<a, b>>]

RootProduct(x) ==
    LET prod[n \in 0..Len(x)] ==
          IF n = 0 THEN Num(1) ELSE IF IsNum(x[n]) THEN RootTimes(prod[n - 1], x[n]) ELSE prod[n - 1]
    IN  prod[Len(x)]

\* The root is kept as a root: prod ** (1.0 / len(x)).
geo_mean(x) == IF HowMany(x) = 0 THEN Dash ELSE [RootProduct(x) EXCEPT !.r = @ * HowMany(x)]

\* f, with its values computed now and not at every application (TLC).
Settled(f) == CHOOSE v \in {f} : v = v

\* op of the values of x and y: they are computed once, here (TLC).
OnValues(op(_, _), x, y) == CHOOSE v \in {op(a, b) : a \in {x}, b \in {y}} : v = v

\* s folded from the left
FoldValues(op(_, _), base, s) ==
    LET fold[n \in 0..Len(s)] == IF n = 0 THEN base ELSE OnValues(op, fold[n - 1], s[n])
    IN  fold[Len(s)]

\* What s has of M, in its order.
Subsequence(s, M) ==
    LET those[n \in 0..Len(s)] ==
          IF n = 0 THEN <<>> ELSE IF s[n] \in M THEN Append(those[n - 1], s[n]) ELSE those[n - 1]
    IN  those[Len(s)]

\* The elements of s, each where it first stands.
FirstOnly(s) ==
    LET seen[n \in 0..Len(s)] ==
          IF n = 0 THEN <<>>
          ELSE IF \E m \in 1..(n - 1) : s[m] = s[n] THEN seen[n - 1] ELSE Append(seen[n - 1], s[n])
    IN  seen[Len(s)]
=============================================================================
