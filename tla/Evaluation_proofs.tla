-------------------------- MODULE Evaluation_proofs --------------------------
(***************************************************************************)
(* What is proved of the parsing pool, for any number of workers, any size *)
(* of the chunks and any listing of reports: the merged table mixes nothing*)
(* up (NoCrossTalk), and it is what a sequential loop would have made of   *)
(* the reports when those of one key are copies (SameAsSequential).  Then  *)
(* of an evaluation process, for any configuration and any reports: its    *)
(* pool is such a pool; its CSV files are written as CsvWriter says, and   *)
(* the two agree (CsvsAgree); the averages in them are over the same       *)
(* workloads (AveragesComparable); and the order in which the rows of a    *)
(* trace are made does not matter (OrderIndependent).                      *)
(***************************************************************************)
EXTENDS Evaluation, FiniteSetTheorems, WellFoundedInduction, TLAPS

-----------------------------------------------------------------------------
(* Numbers and loops.                                                      *)

\* A set of numbers that is not empty has a least element.
LEMMA LeastNumber ==
    ASSUME NEW T \in SUBSET Nat, T # {}
    PROVE  \E x \in T : \A y \in T : x <= y
  <1>1. PICK x \in T : \A y \in T : ~ (<<y, x>> \in OpToRel(<, Nat))
    BY NatLessThanWellFounded, WFMin
  <1>2. \A y \in Nat : y < x => <<y, x>> \in OpToRel(<, Nat)
    BY DEF OpToRel
  <1>3. \A y \in T : ~ (y < x)
    BY <1>1, <1>2, Zenon
  <1> QED
    BY <1>3

\* Settled, OnValues: the value itself
LEMMA SettledIs == ASSUME NEW f PROVE Settled(f) = f
  BY DEF Settled

-----------------------------------------------------------------------------
(* Numbers: quotients in lowest terms.                                     *)

Divides(e, x) == \E k \in Int : x = e * k

\* What divides a number and the divisor divides the rest, and conversely.
LEMMA DividesRest ==
    ASSUME NEW x \in Nat, NEW y \in Nat, y > 0, NEW e \in Nat, Divides(e, y)
    PROVE  Divides(e, x % y) <=> Divides(e, x)
  <1>1. PICK k \in Int : y = e * k
    BY DEF Divides
  <1> DEFINE q == x \div y
  <1>2. q \in Nat
    BY SMTT(30)
  <1>3. x = y * q + (x % y) /\ x % y \in Nat
    BY SMTT(30)
  <1> HIDE DEF q
  <1>4. y * q = e * (k * q) /\ k * q \in Int
    BY <1>1, <1>2, SMTT(30)
  <1>5. ASSUME NEW j \in Int, x % y = e * j PROVE Divides(e, x)
    <2>1. PICK i \in Int : i = k * q + j
      BY <1>4
    <2>2. e * (k * q) + e * j = e * i
      BY <1>4, <1>5, <2>1, SMTT(30)
    <2>3. x = e * i
      BY <1>3, <1>4, <1>5, <2>2
    <2> QED
      BY <2>3 DEF Divides
  <1>6. ASSUME NEW j \in Int, x = e * j PROVE Divides(e, x % y)
    <2>1. PICK m \in Int : m = k * q
      BY <1>4
    <2>2. PICK i \in Int : i = j - m
      OBVIOUS
    <2>3. e * j - e * m = e * i /\ e * j \in Int /\ e * m \in Int
      BY <2>1, <2>2, SMTT(30)
    <2>4. x = e * m + (x % y) /\ x % y \in Int
      BY <1>3, <1>4, <2>1
    <2>5. x % y = e * i
      BY <1>6, <2>3, <2>4
    <2> QED
      BY <2>5 DEF Divides
  <1> QED
    BY <1>5, <1>6 DEF Divides

\* A divisor of a positive number is not greater.
LEMMA DivisorBelow ==
    ASSUME NEW e \in Nat, NEW x \in Nat, x > 0, Divides(e, x)
    PROVE  e > 0 /\ e <= x
  <1>1. PICK k \in Int : x = e * k
    BY DEF Divides
  <1>2. e > 0
    BY <1>1, SMTT(30)
  <1>3. k > 0
    BY <1>1, <1>2, SMTT(30)
  <1>4. e <= e * k
    BY <1>2, <1>3, SMTT(30)
  <1> QED
    BY <1>1, <1>2, <1>4

\* g is the greatest common divisor of x and y.
Greatest(g, x, y) ==
    /\ g \in Nat
    /\ Divides(g, x) /\ Divides(g, y)
    /\ \A e \in Nat : Divides(e, x) /\ Divides(e, y) => Divides(e, g)

Euclid(f, b) == f = [y \in 0..b |-> [x \in Nat |-> IF y = 0 THEN x ELSE f[x % y][y]]]

\* Euclid's algorithm, for divisors up to b, is a function.
LEMMA EuclidExists == ASSUME NEW b \in Nat PROVE \E f : Euclid(f, b)
  <1> DEFINE T == {m \in Nat : ~ \E f : Euclid(f, m)}
             Remainders(f, y) == [x \in Nat |-> IF y = 0 THEN x ELSE f[x % y][y]]
  <1>1. \A f, m : Euclid(f, m) <=> f = [y \in 0..m |-> Remainders(f, y)]
    BY DEF Euclid
  <1>2. ASSUME NEW f, NEW g, NEW y \in Nat, \A z \in 0..y - 1 : f[z] = g[z] PROVE Remainders(f, y) = Remainders(g, y)
    <2>1. \A x \in Nat : y # 0 => x % y \in 0..y - 1
      OBVIOUS
    <2> QED
      BY <1>2, <2>1
  <1>4. SUFFICES ASSUME T # {} PROVE FALSE
    OBVIOUS
  <1> HIDE DEF Remainders
  <1>5. PICK m \in T : \A y \in T : m <= y
    BY <1>4, LeastNumber
  <1>6. m \in Nat /\ ~ \E f : Euclid(f, m)
    OBVIOUS
  <1>7. PICK f : \A y \in 0..m - 1 : f[y] = Remainders(f, y)
    <2>1. CASE m = 0
      BY <2>1
    <2>2. CASE m # 0
      <3>1. m - 1 \in Nat /\ m - 1 \notin T
        BY <1>5, <1>6, <2>2
      <3>2. PICK f : f = [y \in 0..m - 1 |-> Remainders(f, y)]
        BY <1>1, <3>1
      <3> QED
        BY <3>2
    <2> QED
      BY <2>1, <2>2
  <1> DEFINE g == [y \in 0..m |-> IF y = m THEN Remainders(f, m) ELSE f[y]]
  <1>8. \A y \in 0..m - 1 : y \in 0..m /\ g[y] = f[y]
    BY <1>6
  <1>9. g[m] = Remainders(f, m)
    BY <1>6
  <1>10. g = [y \in 0..m |-> g[y]]
    OBVIOUS
  <1> HIDE DEF g
  <1>11. \A y \in 0..m : g[y] = Remainders(g, y)
    <2> SUFFICES ASSUME NEW y \in 0..m PROVE g[y] = Remainders(g, y)
      OBVIOUS
    <2>1. \A z \in 0..y - 1 : z \in 0..m - 1
      BY <1>6
    <2>2. Remainders(f, y) = Remainders(g, y)
      BY <1>2, <1>6, <1>8, <2>1
    <2>3. y = m \/ y \in 0..m - 1
      BY <1>6
    <2> QED
      BY <1>7, <1>8, <1>9, <2>2, <2>3
  <1>12. Euclid(g, m)
    BY <1>1, <1>10, <1>11
  <1> QED
    BY <1>6, <1>12

\* Gcd
LEMMA GcdGreatest ==
    ASSUME NEW a \in Nat, NEW b \in Nat
    PROVE  Greatest(Gcd(a, b), a, b)
  <1> DEFINE f == CHOOSE g : Euclid(g, b)
             T == {y \in 0..b : \E x \in Nat : ~ Greatest(f[y][x], x, y)}
  <1>1. Euclid(f, b)
    BY EuclidExists, Zenon
  <1>2. Gcd(a, b) = f[b][a]
    BY DEF Gcd, Euclid
  <1> HIDE DEF f
  <1>3. \A y \in 0..b : \A x \in Nat : f[y][x] = IF y = 0 THEN x ELSE f[x % y][y]
    BY <1>1 DEF Euclid
  <1>4. SUFFICES ASSUME T # {} PROVE FALSE
    BY <1>2
  <1>5. PICK y \in T : \A z \in T : y <= z
    <2>1. T \in SUBSET Nat
      OBVIOUS
    <2> HIDE DEF T
    <2> QED
      BY <1>4, <2>1, LeastNumber
  <1>6. PICK x \in Nat : ~ Greatest(f[y][x], x, y)
    OBVIOUS
  <1>7. CASE y = 0
    <2>1. f[y][x] = x
      BY <1>3, <1>7
    <2>2. Divides(x, x) /\ Divides(x, 0)
      <3>1. x = x * 1 /\ 0 = x * 0
        OBVIOUS
      <3> QED
        BY <3>1 DEF Divides
    <2> QED
      BY <1>6, <1>7, <2>1, <2>2 DEF Greatest
  <1>8. CASE y # 0
    <2>1. y \in Nat /\ y > 0 /\ x % y \in 0..y - 1 /\ x % y \in 0..b /\ x % y \notin T
      BY <1>5, <1>8
    <2>2. Greatest(f[x % y][y], y, x % y)
      BY <2>1
    <2>3. f[y][x] = f[x % y][y]
      BY <1>3, <1>8
    <2>4. \A e \in Nat : Divides(e, y) => (Divides(e, x % y) <=> Divides(e, x))
      BY <2>1, DividesRest
    <2> QED
      BY <1>6, <2>2, <2>3, <2>4 DEF Greatest
  <1> QED
    BY <1>7, <1>8

\* No number but 1 divides both.
Coprime(n, d) == \A e \in Nat : Divides(e, n) /\ Divides(e, d) => e = 1
Numbers == {v \in Cells : IsNum(v) /\ v.r = 1 /\ Coprime(v.n, v.d)}

\* A whole number is its sign times its size, and its divisors are those of its size.
LEMMA SignSize ==
    ASSUME NEW n \in Int
    PROVE  /\ Size(n) \in Nat /\ Sign(n) \in {-1, 1} /\ n = Sign(n) * Size(n)
           /\ Size(n) = 0 <=> n = 0
           /\ \A e \in Nat : Divides(e, n) <=> Divides(e, Size(n))
  <1>1. /\ Size(n) \in Nat /\ Sign(n) \in {-1, 1} /\ n = Sign(n) * Size(n)
        /\ Size(n) = 0 <=> n = 0
    BY DEF Size, Sign
  <1>2. ASSUME NEW e \in Nat, NEW x \in Int, NEW y \in Int, y = -x, Divides(e, x) PROVE Divides(e, y)
    <2>1. PICK k \in Int : x = e * k
      BY <1>2 DEF Divides
    <2>2. PICK j \in Int : j = -k
      OBVIOUS
    <2>3. y = e * j
      BY <1>2, <2>1, <2>2, SMTT(30)
    <2> QED
      BY <2>3 DEF Divides
  <1>3. Size(n) = n \/ (Size(n) = -n /\ n = -Size(n))
    BY DEF Size
  <1>4. \A e \in Nat : Divides(e, n) <=> Divides(e, Size(n))
    BY <1>1, <1>2, <1>3
  <1> QED
    BY <1>1, <1>4

\* Fraction divides by the greatest common divisor.
LEMMA FractionIs ==
    ASSUME NEW n \in Int, NEW d \in Int
    PROVE  Quotient(n, d) = [n |-> (Sign(d) * n) \div Gcd(Size(n), Size(d)), d |-> Size(d) \div Gcd(Size(n), Size(d)), r |-> 1]
  BY DEF Quotient, Fraction

\* A quotient is a number in lowest terms.
LEMMA QuotientNumber ==
    ASSUME NEW n \in Int, NEW d \in Int, d # 0
    PROVE  Quotient(n, d) \in Numbers
  <1> DEFINE g == Gcd(Size(n), Size(d))
             q == Quotient(n, d)
  <1>1. Size(n) \in Nat /\ Size(d) \in Nat /\ Size(d) > 0 /\ Sign(d) \in {-1, 1}
    BY SignSize
  <1>2. Greatest(g, Size(n), Size(d))
    BY <1>1, GcdGreatest
  <1>3. g \in Nat /\ g > 0
    BY <1>1, <1>2, DivisorBelow DEF Greatest
  <1>4. PICK i \in Int, j \in Int : Sign(d) * n = g * i /\ Size(d) = g * j
    <2>1. Divides(g, n) /\ Divides(g, Size(d))
      BY <1>2, SignSize DEF Greatest
    <2>2. PICK i \in Int, j \in Int : n = g * i /\ Size(d) = g * j
      BY <2>1 DEF Divides
    <2>3. CASE Sign(d) = 1
      BY <2>2, <2>3
    <2>4. CASE Sign(d) = -1
      <3>1. PICK k \in Int : k = -i
        OBVIOUS
      <3>2. Sign(d) * n = g * k
        BY <1>3, <2>2, <2>4, <3>1, SMTT(30)
      <3> QED
        BY <2>2, <3>2
    <2> QED
      BY <1>1, <2>3, <2>4
  <1>5. j > 0
    BY <1>1, <1>3, <1>4, SMTT(30)
  <1>6. (g * i) \div g = i /\ (g * j) \div g = j
    BY <1>3, <1>4, SMTT(30)
  <1>7. q = [n |-> i, d |-> j, r |-> 1]
    BY <1>4, <1>6, FractionIs
  <1>8. ASSUME NEW e \in Nat, Divides(e, i), Divides(e, j) PROVE e = 1
    <2>1. PICK k \in Int, l \in Int : i = e * k /\ j = e * l
      BY <1>8 DEF Divides
    <2>2. PICK m \in Nat : m = g * e
      BY <1>3
    <2>3. Sign(d) * n = m * k /\ Size(d) = m * l
      BY <1>3, <1>4, <2>1, <2>2, SMTT(30)
    <2>4. Divides(m, Size(d)) /\ Divides(m, Sign(d) * n)
      BY <2>3 DEF Divides
    <2>5. Divides(m, n)
      <3>1. CASE Sign(d) = 1
        BY <2>4, <3>1
      <3>2. CASE Sign(d) = -1
        <4>1. PICK o \in Int : o = -k
          OBVIOUS
        <4>2. n = m * o
          BY <2>3, <2>2, <3>2, <4>1, SMTT(30)
        <4> QED
          BY <4>2 DEF Divides
      <3> QED
        BY <1>1, <3>1, <3>2
    <2>6. Divides(m, g)
      BY <1>2, <2>4, <2>5, SignSize DEF Greatest
    <2>7. m > 0 /\ m <= g
      BY <1>3, <2>6, DivisorBelow
    <2> QED
      BY <1>3, <2>2, <2>7, SMTT(30)
  <1>9. q \in Cells
    BY <1>5, <1>7 DEF Cells
  <1> QED
    BY <1>5, <1>7, <1>8, <1>9 DEF Numbers, Coprime, IsNum

\* In lowest terms already
LEMMA QuotientSame ==
    ASSUME NEW n \in Int, NEW d \in Nat, d # 0, Coprime(n, d)
    PROVE  Quotient(n, d) = [n |-> n, d |-> d, r |-> 1]
  <1> DEFINE g == Gcd(Size(n), Size(d))
  <1>1. Size(n) \in Nat /\ Size(d) = d /\ Sign(d) = 1
    BY SignSize DEF Size, Sign
  <1>2. Greatest(g, Size(n), d)
    BY <1>1, GcdGreatest
  <1>3. g = 1
    BY <1>1, <1>2, SignSize DEF Greatest, Coprime
  <1> HIDE DEF g
  <1>4. Quotient(n, d) = [n |-> (1 * n) \div 1, d |-> d \div 1, r |-> 1]
    BY <1>1, <1>3, FractionIs DEF g
  <1> QED
    BY <1>4, SMTT(30)

\* A count is a number.
LEMMA NumIs == ASSUME NEW k \in Nat PROVE Num(k) \in Numbers /\ Num(k).n = k /\ Num(k).d = 1 /\ Num(k).r = 1
  <1>1. ASSUME NEW e \in Nat, Divides(e, 1) PROVE e = 1
    BY <1>1, DivisorBelow
  <1> QED
    BY <1>1 DEF Num, Numbers, Cells, IsNum, Coprime

-----------------------------------------------------------------------------
(* Loops.                                                                  *)

\* What holds before a loop and is kept by its rounds holds after each.
LEMMA Rounds ==
    ASSUME NEW L \in Nat, NEW T, 0 \in T, \A n \in 1..L : n - 1 \in T => n \in T
    PROVE  0..L \subseteq T
  <1> DEFINE U == {n \in 0..L : n \notin T}
  <1>1. SUFFICES ASSUME U # {} PROVE FALSE
    OBVIOUS
  <1>2. U \in SUBSET Nat
    OBVIOUS
  <1>3. PICK n \in U : \A m \in U : n <= m
    <2> HIDE DEF U
    <2> QED
      BY <1>1, <1>2, LeastNumber
  <1>4. n \in 1..L /\ n - 1 \in 0..L /\ n - 1 \notin U
    BY <1>3
  <1> QED
    BY <1>3, <1>4

\* f[n] is what a loop of L rounds has computed after n of them.
LoopOf(f, X, L, base, step) ==
    /\ f \in [0..L -> X]
    /\ f[0] = base
    /\ \A n \in 1..L : f[n] = step[n][f[n - 1]]

\* Every loop computes something.
LEMMA LoopExists ==
    ASSUME NEW X, NEW L \in Nat, NEW base \in X, NEW step \in [1..L -> [X -> X]]
    PROVE  \E f : LoopOf(f, X, L, base, step)
  <1> DEFINE Upto(f, m) == LoopOf(f, X, m, base, step)
             T == {m \in 0..L : \E f : Upto(f, m)}
  <1>1. 0 \in T
    <2>1. Upto([m \in 0..0 |-> base], 0)
      BY DEF LoopOf
    <2> HIDE DEF Upto
    <2> QED
      BY <2>1
  <1>2. ASSUME NEW m \in 1..L, m - 1 \in T PROVE m \in T
    <2>1. PICK f : Upto(f, m - 1)
      BY <1>2
    <2>2. m - 1 \in 0..m - 1 /\ m \notin 0..m - 1
      OBVIOUS
    <2>3. step[m][f[m - 1]] \in X
      BY <2>1, <2>2 DEF LoopOf
    <2> DEFINE g == [n \in 0..m |-> IF n = m THEN step[m][f[m - 1]] ELSE f[n]]
    <2>4. g \in [0..m -> X]
      BY <2>1, <2>3 DEF LoopOf
    <2>5. g[m] = step[m][f[m - 1]] /\ \A n \in 0..m - 1 : g[n] = f[n]
      OBVIOUS
    <2> HIDE DEF g
    <2>6. g[0] = base
      BY <2>1, <2>5 DEF LoopOf
    <2>7. ASSUME NEW n \in 1..m PROVE g[n] = step[n][g[n - 1]]
      <3>1. CASE n = m
        BY <2>2, <2>5, <3>1
      <3>2. CASE n # m
        <4>1. n \in 1..m - 1 /\ n \in 0..m - 1 /\ n - 1 \in 0..m - 1
          BY <3>2
        <4> QED
          BY <2>1, <2>5, <4>1 DEF LoopOf
      <3> QED
        BY <3>1, <3>2
    <2>8. Upto(g, m)
      BY <2>4, <2>6, <2>7 DEF LoopOf
    <2> HIDE DEF Upto
    <2> QED
      BY <2>8
  <1>3. L \in T
    <2> HIDE DEF T
    <2>1. 0..L \subseteq T
      BY <1>1, <1>2, Rounds
    <2> QED
      BY <2>1
  <1> QED
    BY <1>3
-----------------------------------------------------------------------------
(* The operations of Values.                                               *)

\* what a cell of a table can hold
Good == Numbers \union {Dash, Raised}
\* what a mean can hold: a root of a number
Roots == {v \in Cells : IsNum(v) /\ v.r # 0 /\ Coprime(v.n, v.d)}

\* What cells can hold: the kinds of values differ.
LEMMA GoodCells ==
    /\ Good \subseteq Cells /\ Roots \subseteq Cells /\ Inexact \in Cells
    /\ ~ IsNum(Dash) /\ ~ IsNum(Raised) /\ IsNum(Inexact) /\ Inexact \notin Numbers
    /\ Numbers \subseteq Roots
    /\ Dash # Raised /\ Dash \notin Numbers /\ Raised \notin Numbers
    /\ \A v \in Numbers : IsNum(v) /\ Plain(v) /\ v.r = 1
  BY DEF Good, Numbers, Roots, Cells, Dash, Raised, Inexact, IsNum, Plain

\* Numbers give numbers; anything else raises.
LEMMA OperationsGood ==
    ASSUME NEW a \in Good, NEW b \in Good
    PROVE  /\ Plus(a, b) \in Numbers \union {Raised}
           /\ Minus(a, b) \in Numbers \union {Raised}
           /\ Times(a, b) \in Numbers \union {Raised}
           /\ Over(a, b) \in Numbers \union {Raised}
           /\ a \in Numbers /\ b \in Numbers => Plus(a, b) \in Numbers
           /\ a \in Numbers /\ b \in Numbers /\ b.n # 0 => Over(a, b) \in Numbers
  <1>1. a \in Cells /\ b \in Cells /\ a.n \in Int /\ a.d \in Nat /\ b.n \in Int /\ b.d \in Nat
    BY GoodCells DEF Cells
  <1>2. /\ Plain(a) => a \in Numbers
        /\ Plain(b) => b \in Numbers
        /\ IsNum(a) => Plain(a)
        /\ IsNum(b) => Plain(b)
        /\ Plain(a) => a.d # 0
        /\ Plain(b) => b.d # 0
        /\ a \in Numbers => Plain(a)
        /\ b \in Numbers => Plain(b)
    <2>1. \A v \in Good : IsNum(v) => v \in Numbers
      BY GoodCells DEF Good
    <2>2. \A v \in Numbers : IsNum(v) /\ Plain(v) /\ v.d # 0
      BY GoodCells DEF IsNum
    <2>3. \A v : Plain(v) => IsNum(v)
      BY DEF Plain
    <2> QED
      BY <2>1, <2>2, <2>3
  <1>3. ASSUME NEW n \in Int, NEW d \in Int, Plain(a) /\ Plain(b) => d # 0
        PROVE  /\ Exactly(a, b, n, d) \in Numbers \union {Raised}
               /\ a \in Numbers /\ b \in Numbers => Exactly(a, b, n, d) \in Numbers
    BY <1>2, <1>3, QuotientNumber DEF Exactly
  <1>4. /\ a.n * b.d + b.n * a.d \in Int /\ a.n * b.d - b.n * a.d \in Int /\ a.n * b.n \in Int
        /\ a.n * b.d \in Int /\ a.d * b.d \in Int /\ a.d * b.n \in Int
    BY <1>1, SMTT(30)
  <1>5. Plain(a) /\ Plain(b) => a.d * b.d # 0 /\ (b.n # 0 => a.d * b.n # 0)
    BY <1>1, <1>2, SMTT(30)
  <1>6. /\ Plus(a, b) = Exactly(a, b, a.n * b.d + b.n * a.d, a.d * b.d)
        /\ Minus(a, b) = Exactly(a, b, a.n * b.d - b.n * a.d, a.d * b.d)
        /\ Times(a, b) = Exactly(a, b, a.n * b.n, a.d * b.d)
        /\ Over(a, b) = IF b.n = 0 THEN Raised ELSE Exactly(a, b, a.n * b.d, a.d * b.n)
    BY <1>1 DEF Plus, Sum, Minus, Difference, Times, Product, Over, Division
  <1>7. /\ Plus(a, b) \in Numbers \union {Raised}
        /\ a \in Numbers /\ b \in Numbers => Plus(a, b) \in Numbers
    BY <1>3, <1>4, <1>5, <1>6
  <1>8. Minus(a, b) \in Numbers \union {Raised} /\ Times(a, b) \in Numbers \union {Raised}
    BY <1>3, <1>4, <1>5, <1>6
  <1>9. /\ Over(a, b) \in Numbers \union {Raised}
        /\ a \in Numbers /\ b \in Numbers /\ b.n # 0 => Over(a, b) \in Numbers
    BY <1>3, <1>4, <1>5, <1>6
  <1> QED
    BY <1>7, <1>8, <1>9

\* A total is exact or not, and never raises; its quotient neither.
LEMMA TotalsAdd ==
    ASSUME NEW a \in Numbers \union {Inexact}, NEW b \in Roots \union {Inexact}
    PROVE  /\ Plus(a, b) \in Numbers \union {Inexact}
           /\ a = Inexact \/ b \notin Numbers => Plus(a, b) = Inexact
  <1>1. a \in Cells /\ b \in Cells /\ a.n \in Int /\ a.d \in Nat /\ b.n \in Int /\ b.d \in Nat
    BY GoodCells DEF Cells
  <1>2. IsNum(a) /\ IsNum(b) /\ a.d # 0 /\ b.d # 0
    BY GoodCells DEF Roots, Numbers, IsNum
  <1>3. Plus(a, b) = Exactly(a, b, a.n * b.d + b.n * a.d, a.d * b.d)
    BY <1>1 DEF Plus, Sum
  <1>4. a.n * b.d + b.n * a.d \in Int /\ a.d * b.d \in Int /\ a.d * b.d # 0
    BY <1>1, <1>2, SMTT(30)
  <1>5. a = Inexact \/ b \notin Numbers => ~ (Plain(a) /\ Plain(b))
    BY DEF Inexact, Plain, Roots, Numbers
  <1> QED
    BY <1>2, <1>3, <1>4, <1>5, QuotientNumber DEF Exactly

\* Dividing a total by a count makes a number of a number, and keeps what is inexact.
LEMMA TotalsDivide ==
    ASSUME NEW a \in Numbers \union {Inexact}, NEW k \in Nat, k # 0
    PROVE  /\ a \in Numbers => Over(a, Num(k)) \in Numbers
           /\ a = Inexact => Over(a, Num(k)) = Inexact
  <1>1. Num(k) \in Numbers /\ Num(k).n = k
    BY NumIs
  <1>2. a \in Numbers => Over(a, Num(k)) \in Numbers
    BY <1>1, OperationsGood DEF Good
  <1>3. ASSUME a = Inexact PROVE Over(a, Num(k)) = Inexact
    <2>1. a \in Cells /\ Num(k) \in Cells /\ IsNum(a) /\ ~ Plain(a) /\ IsNum(Num(k))
      BY <1>1, <1>3, GoodCells DEF Numbers, Inexact, Plain
    <2> QED
      BY <1>1, <1>3, <2>1 DEF Over, Division, Exactly
  <1> QED
    BY <1>2, <1>3

\* Total, round by round
LEMMA TotalLoop ==
    ASSUME NEW x \in Seq(Roots \union {Inexact, Dash, Raised})
    PROVE  \E t : /\ Total(x) = t[Len(x)]
                  /\ t[0] = Num(0)
                  /\ \A n \in 1..Len(x) : t[n] = IF IsNum(x[n]) THEN Plus(t[n - 1], x[n]) ELSE t[n - 1]
                  /\ \A n \in 0..Len(x) : t[n] \in Numbers \union {Inexact}
  <1> DEFINE L == Len(x)
             X == Numbers \union {Inexact}
             After(v, n) == IF IsNum(x[n]) THEN Plus(v, x[n]) ELSE v
             step == [n \in 1..L |-> [v \in X |-> After(v, n)]]
             Loop(f) == f = [n \in 0..L |-> IF n = 0 THEN Num(0) ELSE After(f[n - 1], n)]
             t == CHOOSE f : Loop(f)
  <1>1. L \in Nat /\ \A n \in 1..L : x[n] \in Roots \union {Inexact, Dash, Raised}
    OBVIOUS
  <1>2. Num(0) \in X
    BY NumIs
  <1>3. \A v \in X, n \in 1..L : After(v, n) \in X
    BY <1>1, TotalsAdd, GoodCells
  <1>4. Total(x) = t[L]
    BY DEF Total
  <1> HIDE DEF L, X, After
  <1>5. step \in [1..L -> [X -> X]] /\ \A v \in X, n \in 1..L : step[n][v] = After(v, n)
    BY <1>3
  <1>6. PICK f : LoopOf(f, X, L, Num(0), step)
    <2> HIDE DEF step
    <2> QED
      BY <1>1, <1>2, <1>5, LoopExists
  <1>7. Loop(f)
    <2>1. \A n \in 0..L : n # 0 => n \in 1..L /\ n - 1 \in 0..L
      BY <1>1
    <2>2. \A n \in 0..L : f[n] = IF n = 0 THEN Num(0) ELSE After(f[n - 1], n)
      BY <1>5, <1>6, <2>1 DEF LoopOf
    <2> QED
      BY <1>6, <2>2 DEF LoopOf
  <1>8. Loop(t)
    BY <1>7
  <1> HIDE DEF t
  <1>9. t[0] = Num(0) /\ \A n \in 1..L : t[n] = After(t[n - 1], n)
    <2>1. 0 \in 0..L /\ \A n \in 1..L : n \in 0..L /\ n # 0
      BY <1>1
    <2> QED
      BY <1>8, <2>1
  <1>10. \A n \in 0..L : t[n] \in X
    <2> DEFINE T == {n \in 0..L : t[n] \in X}
    <2>1. 0 \in T
      BY <1>1, <1>2, <1>9
    <2>2. \A n \in 1..L : n - 1 \in T => n \in T
      BY <1>1, <1>3, <1>9
    <2>3. 0..L \subseteq T
      <3> HIDE DEF T
      <3> QED
        BY <1>1, <2>1, <2>2, Rounds
    <2> QED
      BY <2>3
  <1> QED
    BY <1>4, <1>9, <1>10 DEF L, X, After

\* HowMany counts the numbers of a column: all of them, some or none.
LEMMA HowManyIs ==
    ASSUME NEW x \in Seq(Roots \union {Inexact, Dash, Raised})
    PROVE  /\ HowMany(x) \in Nat
           /\ HowMany(x) = 0 <=> \A n \in 1..Len(x) : ~ IsNum(x[n])
           /\ (\A n \in 1..Len(x) : IsNum(x[n])) => HowMany(x) = Len(x)
  <1> DEFINE S == {n \in DOMAIN x : IsNum(x[n])}
  <1>1. Len(x) \in Nat /\ DOMAIN x = 1..Len(x)
    OBVIOUS
  <1>2. IsFiniteSet(1..Len(x)) /\ Cardinality(1..Len(x)) = Len(x)
    <2>1. PICK L \in Nat : L = Len(x)
      BY <1>1
    <2>2. IsFiniteSet(1..L) /\ Cardinality(1..L) = IF 1 > L THEN 0 ELSE L - 1 + 1
      BY FS_Interval
    <2>3. (IF 1 > L THEN 0 ELSE L - 1 + 1) = L
      OBVIOUS
    <2> QED
      BY <2>1, <2>2, <2>3
  <1>3. IsFiniteSet(S)
    BY <1>1, <1>2, FS_Subset
  <1>4. Cardinality(S) \in Nat /\ (Cardinality(S) = 0 <=> S = {})
    BY <1>3, FS_CardinalityType, FS_EmptySet
  <1>5. (\A n \in 1..Len(x) : IsNum(x[n])) => S = 1..Len(x)
    BY <1>1
  <1>6. HowMany(x) = Cardinality(S)
    BY DEF HowMany
  <1> QED
    BY <1>1, <1>2, <1>4, <1>5, <1>6

\* arith_mean never raises: exact for numbers, '-' for nothing.
LEMMA ArithMeanIs ==
    ASSUME NEW x \in Seq(Roots \union {Inexact, Dash, Raised})
    PROVE  /\ arith_mean(x) \in Numbers \union {Inexact, Dash}
           /\ x \in Seq(Good) => arith_mean(x) \in Numbers \union {Dash}
           /\ Len(x) > 0 /\ (\A n \in 1..Len(x) : x[n] \in Numbers) => arith_mean(x) \in Numbers
           /\ (\A n \in 1..Len(x) : ~ IsNum(x[n])) => arith_mean(x) = Dash
  <1>1. PICK t : /\ Total(x) = t[Len(x)]
                 /\ t[0] = Num(0)
                 /\ \A n \in 1..Len(x) : t[n] = IF IsNum(x[n]) THEN Plus(t[n - 1], x[n]) ELSE t[n - 1]
                 /\ \A n \in 0..Len(x) : t[n] \in Numbers \union {Inexact}
    BY TotalLoop, Zenon
  <1>2. Len(x) \in Nat
    OBVIOUS
  <1>3. ASSUME x \in Seq(Good) PROVE Total(x) \in Numbers
    <2> DEFINE T == {n \in 0..Len(x) : t[n] \in Numbers}
    <2>1. 0 \in T
      BY <1>1, <1>2, NumIs
    <2>2. ASSUME NEW n \in 1..Len(x), n - 1 \in T PROVE n \in T
      <3>1. x[n] \in Good /\ (IsNum(x[n]) => x[n] \in Numbers)
        BY <1>3, GoodCells DEF Good
      <3> QED
        BY <1>1, <2>2, <3>1, OperationsGood DEF Good
    <2>3. 0..Len(x) \subseteq T
      <3> HIDE DEF T
      <3> QED
        BY <1>2, <2>1, <2>2, Rounds
    <2> QED
      BY <1>1, <1>2, <2>3
  <1>4. Total(x) \in Numbers \union {Inexact}
    BY <1>1, <1>2
  <1>5. /\ HowMany(x) \in Nat
        /\ HowMany(x) = 0 <=> \A n \in 1..Len(x) : ~ IsNum(x[n])
    BY HowManyIs
  <1>6. arith_mean(x) = IF HowMany(x) = 0 THEN Dash ELSE Over(Total(x), Num(HowMany(x)))
    BY DEF arith_mean
  <1> HIDE DEF arith_mean
  <1>7. arith_mean(x) \in Numbers \union {Inexact, Dash}
    BY <1>4, <1>5, <1>6, TotalsDivide
  <1>8. ASSUME x \in Seq(Good) PROVE arith_mean(x) \in Numbers \union {Dash}
    BY <1>3, <1>5, <1>6, <1>8, TotalsDivide
  <1>9. ASSUME Len(x) > 0, \A n \in 1..Len(x) : x[n] \in Numbers PROVE arith_mean(x) \in Numbers
    <2>1. x \in Seq(Good)
      BY <1>9 DEF Good
    <2>2. 1 \in 1..Len(x) /\ IsNum(x[1])
      BY <1>2, <1>9, GoodCells
    <2>3. HowMany(x) # 0
      BY <1>5, <2>2
    <2> QED
      BY <1>3, <1>5, <1>6, <2>1, <2>3, TotalsDivide
  <1>10. ASSUME \A n \in 1..Len(x) : ~ IsNum(x[n]) PROVE arith_mean(x) = Dash
    BY <1>5, <1>6, <1>10
  <1> QED
    BY <1>7, <1>8, <1>9, <1>10

\* The mean of one cell is that cell.
LEMMA ArithMeanOfOne ==
    ASSUME NEW v \in Numbers \union {Inexact, Dash}
    PROVE  arith_mean(<<v>>) = v
  <1> DEFINE x == <<v>>
  <1>1. x \in Seq(Roots \union {Inexact, Dash, Raised}) /\ Len(x) = 1 /\ x[1] = v
    BY GoodCells
  <1> HIDE DEF x
  <1>2. PICK t : /\ Total(x) = t[Len(x)]
                 /\ t[0] = Num(0)
                 /\ \A n \in 1..Len(x) : t[n] = IF IsNum(x[n]) THEN Plus(t[n - 1], x[n]) ELSE t[n - 1]
    BY <1>1, TotalLoop, Zenon
  <1>3. /\ HowMany(x) = 0 <=> ~ IsNum(v)
        /\ IsNum(v) => HowMany(x) = 1
    <2>1. \A n \in 1..Len(x) : x[n] = v
      BY <1>1
    <2>2. 1 \in 1..Len(x)
      BY <1>1
    <2> QED
      BY <1>1, <2>1, <2>2, HowManyIs
  <1>4. arith_mean(x) = IF HowMany(x) = 0 THEN Dash ELSE Over(Total(x), Num(HowMany(x)))
    BY DEF arith_mean
  <1>5. CASE v = Dash
    BY <1>3, <1>4, <1>5, GoodCells DEF x
  <1>6. CASE v # Dash
    <2>1. IsNum(v) /\ v \in Numbers \union {Inexact}
      BY <1>6, GoodCells
    <2>2. Total(x) = Plus(Num(0), v)
      BY <1>1, <1>2, <2>1
    <2>3. arith_mean(x) = Over(Plus(Num(0), v), Num(1))
      BY <1>3, <1>4, <2>1, <2>2
    <2>4. CASE v = Inexact
      <3>1. Plus(Num(0), v) = Inexact
        BY <2>4, NumIs, TotalsAdd, GoodCells
      <3> QED
        BY <2>3, <2>4, <3>1, TotalsDivide DEF x
    <2>5. CASE v \in Numbers
      <3>1. /\ v \in Cells /\ v.n \in Int /\ v.d \in Nat /\ v.d # 0 /\ v.r = 1 /\ Plain(v) /\ Coprime(v.n, v.d)
            /\ v = [n |-> v.n, d |-> v.d, r |-> 1]
        BY <2>5 DEF Numbers, Cells, IsNum, Plain
      <3>2. /\ Num(0) \in Cells /\ Plain(Num(0)) /\ Num(0).n = 0 /\ Num(0).d = 1
            /\ Num(1) \in Cells /\ Plain(Num(1)) /\ Num(1).n = 1 /\ Num(1).d = 1
        BY NumIs, GoodCells DEF Numbers
      <3>3. Plus(Num(0), v) = Quotient(0 * v.d + v.n * 1, 1 * v.d)
        BY <3>1, <3>2 DEF Plus, Sum, Exactly
      <3>4. 0 * v.d + v.n * 1 = v.n /\ 1 * v.d = v.d /\ v.n * 1 = v.n /\ v.d * 1 = v.d
        BY <3>1
      <3>5. Plus(Num(0), v) = v
        BY <3>1, <3>3, <3>4, QuotientSame
      <3>6. Over(v, Num(1)) = Quotient(v.n * 1, v.d * 1)
        BY <3>1, <3>2 DEF Over, Division, Exactly
      <3>7. Over(v, Num(1)) = v
        BY <3>1, <3>4, <3>6, QuotientSame
      <3> QED
        BY <2>3, <3>5, <3>7 DEF x
    <2> QED
      BY <2>1, <2>4, <2>5
  <1> QED
    BY <1>5, <1>6

\* What an integer power is: positive, one for one, the number itself to the power of one.
LEMMA PowerIs ==
    ASSUME NEW v \in Int, NEW k \in Nat
    PROVE  /\ Power(v, k) \in Int
           /\ v \in Nat /\ v # 0 => Power(v, k) \in Nat /\ Power(v, k) # 0
           /\ v = 1 => Power(v, k) = 1
           /\ k = 1 => Power(v, k) = v
  <1> DEFINE step == [n \in 1..k |-> [i \in Int |-> v * i]]
             Loop(f) == f = [n \in 0..k |-> IF n = 0 THEN 1 ELSE v * f[n - 1]]
             p == CHOOSE f : Loop(f)
  <1>1. PICK f : LoopOf(f, Int, k, 1, step)
    <2>1. step \in [1..k -> [Int -> Int]]
      OBVIOUS
    <2>2. 1 \in Int
      OBVIOUS
    <2> HIDE DEF step
    <2> QED
      BY <2>1, <2>2, LoopExists, Zenon
  <1>2. Loop(f)
    <2>1. \A n \in 0..k : n # 0 => n \in 1..k /\ n - 1 \in 0..k
      OBVIOUS
    <2>2. f \in [0..k -> Int] /\ \A n \in 0..k : f[n] = IF n = 0 THEN 1 ELSE v * f[n - 1]
      BY <1>1, <2>1 DEF LoopOf
    <2> QED
      BY <2>2
  <1>3. Loop(p) /\ Power(v, k) = p[k]
    BY <1>2 DEF Power
  <1> HIDE DEF p
  <1>4. p[0] = 1 /\ \A n \in 1..k : p[n] = v * p[n - 1]
    <2>1. 0 \in 0..k /\ \A n \in 1..k : n \in 0..k /\ n # 0
      OBVIOUS
    <2> QED
      BY <1>3, <2>1
  <1> DEFINE T == {n \in 0..k : /\ p[n] \in Int
                                /\ v \in Nat /\ v # 0 => p[n] \in Nat /\ p[n] # 0
                                /\ v = 1 => p[n] = 1}
  <1>5. 0 \in T
    BY <1>4
  <1>6. ASSUME NEW n \in 1..k, n - 1 \in T PROVE n \in T
    <2>1. /\ p[n - 1] \in Int /\ p[n] = v * p[n - 1]
          /\ v \in Nat /\ v # 0 => p[n - 1] \in Nat /\ p[n - 1] # 0
          /\ v = 1 => p[n - 1] = 1
      BY <1>4, <1>6
    <2>2. v * p[n - 1] \in Int
      BY <2>1
    <2>3. v \in Nat /\ v # 0 => v * p[n - 1] \in Nat /\ v * p[n - 1] # 0
      BY <2>1, SMTT(30)
    <2> QED
      BY <2>1, <2>2, <2>3
  <1>7. k \in T
    <2> HIDE DEF T
    <2>1. 0..k \subseteq T
      BY <1>5, <1>6, Rounds
    <2> QED
      BY <2>1
  <1>8. k = 1 => p[k] = v
    BY <1>4
  <1> QED
    BY <1>3, <1>7, <1>8

\* A product of roots is one, of the product of their degrees if they differ.
LEMMA RootTimesIs ==
    ASSUME NEW a \in Roots, NEW b \in Roots
    PROVE  /\ RootTimes(a, b) \in Roots
           /\ a.r = 1 /\ b.r = 1 => RootTimes(a, b).r = 1
           /\ a = Num(1) => RootTimes(a, b) = b
  <1> DEFINE Q(n, d, r) == [Quotient(n, d) EXCEPT !.r = r]
  <1>1. /\ a \in Cells /\ a.n \in Int /\ a.d \in Nat /\ a.d # 0 /\ a.r \in Nat /\ a.r # 0
        /\ b \in Cells /\ b.n \in Int /\ b.d \in Nat /\ b.d # 0 /\ b.r \in Nat /\ b.r # 0
        /\ Coprime(b.n, b.d) /\ b = [n |-> b.n, d |-> b.d, r |-> b.r]
    BY DEF Roots, Cells, IsNum
  <1>2. RootTimes(a, b) =
            IF a.r = b.r THEN Q(a.n * b.n, a.d * b.d, a.r)
            ELSE Q(Power(a.n, b.r) * Power(b.n, a.r), Power(a.d, b.r) * Power(b.d, a.r), a.r * b.r)
    BY <1>1 DEF RootTimes, RootsProduct
  <1>3. ASSUME NEW n \in Int, NEW d \in Int, d # 0, NEW r \in Nat, r # 0
        PROVE  Q(n, d, r) \in Roots /\ Q(n, d, r).r = r
    <2>1. Quotient(n, d) \in Numbers
      BY <1>3, QuotientNumber
    <2> HIDE DEF Roots
    <2>2. PICK q \in Numbers : q = Quotient(n, d)
      BY <2>1
    <2>3. q = [n |-> q.n, d |-> q.d, r |-> 1] /\ q.n \in Int /\ q.d \in Nat /\ q.d # 0 /\ Coprime(q.n, q.d)
      BY DEF Numbers, Cells, IsNum
    <2>4. Q(n, d, r) = [n |-> q.n, d |-> q.d, r |-> r]
      BY <2>2, <2>3
    <2> QED
      BY <1>3, <2>3, <2>4 DEF Roots, Cells, IsNum
  <1>4. CASE a.r = b.r
    <2>1. a.n * b.n \in Int /\ a.d * b.d \in Int /\ a.d * b.d # 0
      BY <1>1, SMTT(30)
    <2>2. RootTimes(a, b) \in Roots /\ RootTimes(a, b).r = a.r
      BY <1>1, <1>2, <1>3, <1>4, <2>1
    <2>3. ASSUME a = Num(1) PROVE RootTimes(a, b) = b
      <3>1. a.n = 1 /\ a.d = 1 /\ a.r = 1
        BY <2>3, NumIs
      <3>2. RootTimes(a, b) = Q(b.n, b.d, 1)
        BY <1>1, <1>2, <1>4, <3>1
      <3>3. Quotient(b.n, b.d) = [n |-> b.n, d |-> b.d, r |-> 1]
        BY <1>1, QuotientSame
      <3> QED
        BY <1>1, <1>4, <3>1, <3>2, <3>3
    <2> QED
      BY <2>2, <2>3
  <1>5. CASE a.r # b.r
    <2>1. /\ Power(a.n, b.r) \in Int /\ Power(b.n, a.r) \in Int
          /\ Power(a.d, b.r) \in Nat /\ Power(a.d, b.r) # 0
          /\ Power(b.d, a.r) \in Nat /\ Power(b.d, a.r) # 0
      BY <1>1, PowerIs
    <2>2. /\ Power(a.n, b.r) * Power(b.n, a.r) \in Int
          /\ Power(a.d, b.r) * Power(b.d, a.r) \in Int
          /\ Power(a.d, b.r) * Power(b.d, a.r) # 0
          /\ a.r * b.r \in Nat /\ a.r * b.r # 0
      BY <1>1, <2>1, SMTT(30)
    <2>3. RootTimes(a, b) \in Roots
      <3> HIDE DEF Q
      <3> QED
        BY <1>2, <1>3, <1>5, <2>2
    <2>4. ASSUME a = Num(1) PROVE RootTimes(a, b) = b
      <3>1. a.n = 1 /\ a.d = 1 /\ a.r = 1
        BY <2>4, NumIs
      <3>2. Power(a.n, b.r) = 1 /\ Power(a.d, b.r) = 1 /\ Power(b.n, a.r) = b.n /\ Power(b.d, a.r) = b.d
        BY <1>1, <3>1, PowerIs
      <3>3. 1 * b.n = b.n /\ 1 * b.d = b.d /\ 1 * b.r = b.r
        BY <1>1
      <3>4. RootTimes(a, b) = Q(b.n, b.d, b.r)
        <4> HIDE DEF Q
        <4> QED
          BY <1>2, <1>5, <3>1, <3>2, <3>3
      <3>5. Quotient(b.n, b.d) = [n |-> b.n, d |-> b.d, r |-> 1]
        BY <1>1, QuotientSame
      <3> QED
        BY <1>1, <3>4, <3>5
    <2>5. ~ (a.r = 1 /\ b.r = 1)
      BY <1>5
    <2> QED
      BY <2>3, <2>4, <2>5
  <1> QED
    BY <1>4, <1>5

\* RootProduct, round by round
LEMMA RootProductLoop ==
    ASSUME NEW x \in Seq(Roots \union {Dash, Raised})
    PROVE  \E t : /\ RootProduct(x) = t[Len(x)]
                  /\ t[0] = Num(1)
                  /\ \A n \in 1..Len(x) : t[n] = IF IsNum(x[n]) THEN RootTimes(t[n - 1], x[n]) ELSE t[n - 1]
                  /\ \A n \in 0..Len(x) : t[n] \in Roots
  <1> DEFINE L == Len(x)
             After(v, n) == IF IsNum(x[n]) THEN RootTimes(v, x[n]) ELSE v
             step == [n \in 1..L |-> [v \in Roots |-> After(v, n)]]
             Loop(f) == f = [n \in 0..L |-> IF n = 0 THEN Num(1) ELSE After(f[n - 1], n)]
             t == CHOOSE f : Loop(f)
  <1>1. L \in Nat /\ \A n \in 1..L : x[n] \in Roots \union {Dash, Raised}
    OBVIOUS
  <1>2. Num(1) \in Roots
    BY NumIs, GoodCells
  <1>3. \A v \in Roots, n \in 1..L : After(v, n) \in Roots
    BY <1>1, RootTimesIs, GoodCells
  <1>4. RootProduct(x) = t[L]
    BY DEF RootProduct
  <1> HIDE DEF L, After
  <1>5. step \in [1..L -> [Roots -> Roots]] /\ \A v \in Roots, n \in 1..L : step[n][v] = After(v, n)
    BY <1>3
  <1>6. PICK f : LoopOf(f, Roots, L, Num(1), step)
    <2> HIDE DEF step
    <2> QED
      BY <1>1, <1>2, <1>5, LoopExists
  <1>7. Loop(f)
    <2>1. \A n \in 0..L : n # 0 => n \in 1..L /\ n - 1 \in 0..L
      BY <1>1
    <2>2. \A n \in 0..L : f[n] = IF n = 0 THEN Num(1) ELSE After(f[n - 1], n)
      BY <1>5, <1>6, <2>1 DEF LoopOf
    <2> QED
      BY <1>6, <2>2 DEF LoopOf
  <1>8. Loop(t)
    BY <1>7
  <1> HIDE DEF t
  <1>9. t[0] = Num(1) /\ \A n \in 1..L : t[n] = After(t[n - 1], n)
    <2>1. 0 \in 0..L /\ \A n \in 1..L : n \in 0..L /\ n # 0
      BY <1>1
    <2> QED
      BY <1>8, <2>1
  <1>10. \A n \in 0..L : t[n] \in Roots
    <2> DEFINE T == {n \in 0..L : t[n] \in Roots}
    <2>1. 0 \in T
      BY <1>1, <1>2, <1>9
    <2>2. \A n \in 1..L : n - 1 \in T => n \in T
      BY <1>1, <1>3, <1>9
    <2>3. 0..L \subseteq T
      <3> HIDE DEF T
      <3> QED
        BY <1>1, <2>1, <2>2, Rounds
    <2> QED
      BY <2>3
  <1> QED
    BY <1>4, <1>9, <1>10 DEF L, After

\* geo_mean never raises; of numbers it is the root whose degree is how many.
LEMMA GeoMeanIs ==
    ASSUME NEW x \in Seq(Roots \union {Dash, Raised})
    PROVE  /\ geo_mean(x) \in Roots \union {Dash}
           /\ Len(x) > 0 /\ (\A n \in 1..Len(x) : x[n] \in Numbers) => geo_mean(x).r = Len(x)
  <1>1. PICK t : /\ RootProduct(x) = t[Len(x)]
                 /\ t[0] = Num(1)
                 /\ \A n \in 1..Len(x) : t[n] = IF IsNum(x[n]) THEN RootTimes(t[n - 1], x[n]) ELSE t[n - 1]
                 /\ \A n \in 0..Len(x) : t[n] \in Roots
    BY RootProductLoop, Zenon
  <1>2. Len(x) \in Nat /\ x \in Seq(Roots \union {Inexact, Dash, Raised})
    OBVIOUS
  <1>3. /\ HowMany(x) \in Nat
        /\ (\A n \in 1..Len(x) : IsNum(x[n])) => HowMany(x) = Len(x)
    BY <1>2, HowManyIs
  <1>4. geo_mean(x) = IF HowMany(x) = 0 THEN Dash ELSE [RootProduct(x) EXCEPT !.r = RootProduct(x).r * HowMany(x)]
    BY DEF geo_mean
  <1> HIDE DEF geo_mean
  <1>5. PICK v \in Roots : RootProduct(x) = v
    BY <1>1, <1>2
  <1>6. v = [n |-> v.n, d |-> v.d, r |-> v.r] /\ v.n \in Int /\ v.d \in Nat /\ v.d # 0 /\ v.r \in Nat /\ v.r # 0
        /\ Coprime(v.n, v.d)
    BY DEF Roots, Cells, IsNum
  <1>7. HowMany(x) # 0 => geo_mean(x) = [n |-> v.n, d |-> v.d, r |-> v.r * HowMany(x)]
    BY <1>4, <1>5, <1>6
  <1>8. HowMany(x) # 0 => v.r * HowMany(x) \in Nat /\ v.r * HowMany(x) # 0
    BY <1>3, <1>6, SMTT(30)
  <1>9. geo_mean(x) \in Roots \union {Dash}
    BY <1>4, <1>6, <1>7, <1>8 DEF Roots, Cells, IsNum
  <1>10. ASSUME Len(x) > 0, \A n \in 1..Len(x) : x[n] \in Numbers PROVE geo_mean(x).r = Len(x)
    <2>1. HowMany(x) = Len(x)
      BY <1>3, <1>10, GoodCells
    <2> DEFINE T == {n \in 0..Len(x) : t[n].r = 1}
    <2>2. 0 \in T
      BY <1>1, <1>2, NumIs
    <2>3. ASSUME NEW n \in 1..Len(x), n - 1 \in T PROVE n \in T
      <3>1. IsNum(x[n]) /\ x[n] \in Roots /\ x[n].r = 1 /\ n - 1 \in 0..Len(x)
        BY <1>10, GoodCells
      <3>2. t[n] = RootTimes(t[n - 1], x[n]) /\ t[n - 1] \in Roots /\ t[n - 1].r = 1
        BY <1>1, <2>3, <3>1
      <3> QED
        BY <3>1, <3>2, RootTimesIs
    <2>4. Len(x) \in T
      <3> HIDE DEF T
      <3>1. 0..Len(x) \subseteq T
        BY <1>2, <2>2, <2>3, Rounds
      <3> QED
        BY <1>2, <3>1
    <2>5. v.r = 1
      BY <1>1, <1>5, <2>4
    <2> QED
      BY <1>2, <1>7, <1>10, <2>1, <2>5
  <1> QED
    BY <1>9, <1>10

\* The mean over one core is the core's value.
LEMMA GeoMeanOfOne ==
    ASSUME NEW v \in Roots \union {Dash}
    PROVE  geo_mean(<<v>>) = v
  <1> DEFINE x == <<v>>
  <1>1. x \in Seq(Roots \union {Dash, Raised}) /\ Len(x) = 1 /\ x[1] = v
    BY GoodCells
  <1> HIDE DEF x
  <1>2. PICK t : /\ RootProduct(x) = t[Len(x)]
                 /\ t[0] = Num(1)
                 /\ \A n \in 1..Len(x) : t[n] = IF IsNum(x[n]) THEN RootTimes(t[n - 1], x[n]) ELSE t[n - 1]
    BY <1>1, RootProductLoop, Zenon
  <1>3. /\ HowMany(x) = 0 <=> ~ IsNum(v)
        /\ IsNum(v) => HowMany(x) = 1
    <2>1. \A n \in 1..Len(x) : x[n] = v
      BY <1>1
    <2>2. 1 \in 1..Len(x) /\ x \in Seq(Roots \union {Inexact, Dash, Raised})
      BY <1>1
    <2> QED
      BY <1>1, <2>1, <2>2, HowManyIs
  <1>4. geo_mean(x) = IF HowMany(x) = 0 THEN Dash ELSE [RootProduct(x) EXCEPT !.r = RootProduct(x).r * HowMany(x)]
    BY DEF geo_mean
  <1>5. CASE v = Dash
    BY <1>3, <1>4, <1>5, GoodCells DEF x
  <1>6. CASE v # Dash
    <2>1. IsNum(v) /\ v \in Roots
      BY <1>6 DEF Roots
    <2>2. RootProduct(x) = v
      BY <1>1, <1>2, <2>1, RootTimesIs, NumIs, GoodCells
    <2>3. geo_mean(x) = [v EXCEPT !.r = v.r * 1]
      BY <1>3, <1>4, <2>1, <2>2
    <2>4. v = [n |-> v.n, d |-> v.d, r |-> v.r] /\ v.r \in Nat /\ v.r * 1 = v.r
      BY <2>1 DEF Roots, Cells
    <2> QED
      BY <2>3, <2>4 DEF x
  <1> QED
    BY <1>5, <1>6

-----------------------------------------------------------------------------
(* Lists: Subsequence and FirstOnly.                                       *)

Distinct(s) == \A i, j \in 1..Len(s) : s[i] = s[j] => i = j

\* An empty list has no members, and none twice.
LEMMA EmptyIs == ToSet(<<>>) = {} /\ Distinct(<<>>)
  <1>1. Len(<<>>) = 0 /\ DOMAIN <<>> = {}
    OBVIOUS
  <1>2. ToSet(<<>>) = {}
    BY <1>1 DEF ToSet
  <1>3. Distinct(<<>>)
    BY <1>1 DEF Distinct
  <1> QED
    BY <1>2, <1>3

\* An element appended to a list: its length, its members, and that none is there twice.
LEMMA AppendIs ==
    ASSUME NEW S, NEW s \in Seq(S), NEW e \in S
    PROVE  /\ Append(s, e) \in Seq(S)
           /\ Len(s) \in Nat /\ Len(Append(s, e)) = Len(s) + 1
           /\ Append(s, e)[Len(s) + 1] = e
           /\ \A i \in 1..Len(s) : Append(s, e)[i] = s[i]
           /\ ToSet(Append(s, e)) = ToSet(s) \union {e}
           /\ Distinct(s) /\ e \notin ToSet(s) => Distinct(Append(s, e))
  <1> DEFINE t == Append(s, e)
  <1>1. /\ t \in Seq(S) /\ Len(s) \in Nat /\ Len(t) = Len(s) + 1 /\ t[Len(s) + 1] = e
        /\ \A i \in 1..Len(s) : t[i] = s[i]
    OBVIOUS
  <1>2. /\ DOMAIN t = 1..Len(s) + 1
        /\ DOMAIN s = 1..Len(s)
    OBVIOUS
  <1> HIDE DEF t
  <1>3. \A i \in 1..Len(s) + 1 : i = Len(s) + 1 \/ i \in 1..Len(s)
    BY <1>1
  <1>4. \A i \in 1..Len(s) : i \in 1..Len(s) + 1
    BY <1>1
  <1>5. Len(s) + 1 \in 1..Len(s) + 1
    BY <1>1
  <1>6. ToSet(t) = ToSet(s) \union {e}
    BY <1>1, <1>2, <1>3, <1>4, <1>5 DEF ToSet
  <1>7. ASSUME Distinct(s), e \notin ToSet(s) PROVE Distinct(t)
    <2>1. \A i \in 1..Len(s) : s[i] # e
      BY <1>2, <1>7 DEF ToSet
    <2> QED
      BY <1>1, <1>3, <1>7, <2>1 DEF Distinct
  <1> QED
    BY <1>1, <1>6, <1>7 DEF t

\* A list with one element behind it ends in that element.
LEMMA LastAdded ==
    ASSUME NEW S, NEW s \in Seq(S), NEW e \in S
    PROVE  s \o <<e>> \in Seq(S) /\ Len(s \o <<e>>) = Len(s) + 1 /\ (s \o <<e>>)[Len(s \o <<e>>)] = e
  OBVIOUS

\* What a list has among its first n.
Start(s, n) == {s[m] : m \in 1..n}

\* The first n elements are the first n - 1 and the n-th.
LEMMA OneMore ==
    ASSUME NEW s, NEW n \in Nat, n # 0
    PROVE  Start(s, n) = Start(s, n - 1) \union {s[n]}
  <1>1. 1..n = (1..n - 1) \union {n}
    OBVIOUS
  <1> QED
    BY <1>1 DEF Start

\* The elements of a list that are in a set: they keep their order, and the last one.
LEMMA SubsequenceIs ==
    ASSUME NEW S, NEW s \in Seq(S), NEW M
    PROVE  /\ Subsequence(s, M) \in Seq(S)
           /\ ToSet(Subsequence(s, M)) = ToSet(s) \intersect M
           /\ Distinct(s) => Distinct(Subsequence(s, M))
           /\ Len(s) > 0 /\ s[Len(s)] \in M =>
                /\ Len(Subsequence(s, M)) \in Nat \ {0}
                /\ Subsequence(s, M)[Len(Subsequence(s, M))] = s[Len(s)]
  <1> DEFINE L == Len(s)
             After(v, n) == IF s[n] \in M THEN Append(v, s[n]) ELSE v
             step == [n \in 1..L |-> [v \in Seq(S) |-> After(v, n)]]
             Loop(f) == f = [n \in 0..L |-> IF n = 0 THEN <<>> ELSE After(f[n - 1], n)]
             t == CHOOSE f : Loop(f)
  <1>1. L \in Nat /\ \A n \in 1..L : s[n] \in S
    OBVIOUS
  <1>2. <<>> \in Seq(S)
    OBVIOUS
  <1>3. \A v \in Seq(S), n \in 1..L : After(v, n) \in Seq(S)
    BY <1>1
  <1>4. Subsequence(s, M) = t[L]
    BY DEF Subsequence
  <1>5. ToSet(s) = Start(s, L)
    BY DEF ToSet, Start
  <1>6. Distinct(s) => \A n \in 1..L : s[n] \notin Start(s, n - 1)
    <2>1. ASSUME NEW n \in 1..L, NEW m \in 1..n - 1 PROVE m \in 1..L /\ m # n
      <3>1. L \in Nat
        BY <1>1
      <3> HIDE DEF L
      <3> QED
        BY <3>1
    <2> QED
      BY <2>1 DEF Distinct, Start
  <1> HIDE DEF L
  <1>7. t[0] = <<>> /\ \A n \in 1..L : t[n] = After(t[n - 1], n)
    <2> HIDE DEF After
    <2>1. step \in [1..L -> [Seq(S) -> Seq(S)]] /\ \A v \in Seq(S), n \in 1..L : step[n][v] = After(v, n)
      BY <1>3
    <2>2. PICK f : LoopOf(f, Seq(S), L, <<>>, step)
      <3> HIDE DEF step
      <3> QED
        BY <1>1, <1>2, <2>1, LoopExists
    <2>3. Loop(f)
      <3>1. \A n \in 0..L : n # 0 => n \in 1..L /\ n - 1 \in 0..L
        BY <1>1
      <3>2. \A n \in 0..L : f[n] = IF n = 0 THEN <<>> ELSE After(f[n - 1], n)
        BY <2>1, <2>2, <3>1 DEF LoopOf
      <3> QED
        BY <2>2, <3>2 DEF LoopOf
    <2>4. Loop(t)
      BY <2>3
    <2> HIDE DEF t
    <2>5. 0 \in 0..L /\ \A n \in 1..L : n \in 0..L /\ n # 0
      BY <1>1
    <2> QED
      BY <2>4, <2>5
  <1> HIDE DEF t
  <1> DEFINE T == {n \in 0..L : /\ t[n] \in Seq(S)
                                /\ ToSet(t[n]) = Start(s, n) \intersect M
                                /\ Distinct(s) => Distinct(t[n])}
  <1>8. 0 \in T
    <2>1. Start(s, 0) = {}
      BY DEF Start
    <2>2. t[0] \in Seq(S)
      BY <1>2, <1>7
    <2>3. ToSet(t[0]) = {} /\ Distinct(t[0])
      BY <1>7, EmptyIs, Zenon
    <2> QED
      BY <1>1, <2>1, <2>2, <2>3
  <1>9. ASSUME NEW n \in 1..L, n - 1 \in T PROVE n \in T
    <2>1. /\ t[n - 1] \in Seq(S) /\ ToSet(t[n - 1]) = Start(s, n - 1) \intersect M
          /\ Distinct(s) => Distinct(t[n - 1])
      BY <1>9
    <2>2. s[n] \in S /\ n \in Nat /\ n # 0 /\ n \in 0..L
      BY <1>1
    <2>3. Start(s, n) = Start(s, n - 1) \union {s[n]}
      BY <2>2, OneMore
    <2>4. t[n] = After(t[n - 1], n)
      BY <1>7
    <2>5. CASE s[n] \in M
      <3>1. t[n] = Append(t[n - 1], s[n])
        BY <2>4, <2>5
      <3>2. /\ Append(t[n - 1], s[n]) \in Seq(S)
            /\ ToSet(Append(t[n - 1], s[n])) = ToSet(t[n - 1]) \union {s[n]}
            /\ Distinct(t[n - 1]) /\ s[n] \notin ToSet(t[n - 1]) => Distinct(Append(t[n - 1], s[n]))
        BY <2>1, <2>2, AppendIs
      <3>3. ToSet(t[n]) = Start(s, n) \intersect M
        BY <2>1, <2>3, <2>5, <3>1, <3>2
      <3>4. Distinct(s) => s[n] \notin ToSet(t[n - 1])
        BY <1>6, <2>1
      <3> QED
        BY <2>1, <2>2, <3>1, <3>2, <3>3, <3>4
    <2>6. CASE s[n] \notin M
      BY <2>1, <2>2, <2>3, <2>4, <2>6
    <2> QED
      BY <2>5, <2>6
  <1>10. 0..L \subseteq T
    <2> HIDE DEF T
    <2> QED
      BY <1>1, <1>8, <1>9, Rounds
  <1>11. L \in T
    BY <1>1, <1>10
  <1>12. ASSUME L > 0, s[L] \in M PROVE Len(t[L]) \in Nat \ {0} /\ t[L][Len(t[L])] = s[L]
    <2>1. L \in 1..L /\ L - 1 \in T
      BY <1>1, <1>10, <1>12
    <2>2. t[L] = Append(t[L - 1], s[L]) /\ t[L - 1] \in Seq(S) /\ s[L] \in S
      BY <1>1, <1>7, <1>12, <2>1
    <2> QED
      BY <2>2, AppendIs
  <1> QED
    BY <1>4, <1>5, <1>11, <1>12 DEF L

\* Without repetitions, a list has the members it had, each once.
LEMMA FirstOnlyIs ==
    ASSUME NEW S, NEW s \in Seq(S)
    PROVE  /\ FirstOnly(s) \in Seq(S)
           /\ ToSet(FirstOnly(s)) = ToSet(s)
           /\ Distinct(FirstOnly(s))
  <1> DEFINE L == Len(s)
             After(v, n) == IF \E m \in 1..(n - 1) : s[m] = s[n] THEN v ELSE Append(v, s[n])
             step == [n \in 1..L |-> [v \in Seq(S) |-> After(v, n)]]
             Loop(f) == f = [n \in 0..L |-> IF n = 0 THEN <<>> ELSE After(f[n - 1], n)]
             t == CHOOSE f : Loop(f)
  <1>1. L \in Nat /\ \A n \in 1..L : s[n] \in S
    OBVIOUS
  <1>2. <<>> \in Seq(S)
    OBVIOUS
  <1>3. \A v \in Seq(S), n \in 1..L : After(v, n) \in Seq(S)
    BY <1>1
  <1>4. FirstOnly(s) = t[L]
    BY DEF FirstOnly
  <1>5. ToSet(s) = Start(s, L)
    BY DEF ToSet, Start
  <1>6. \A v, n : s[n] \in Start(s, n - 1) => After(v, n) = v
    BY DEF Start
  <1>7. \A v, n : s[n] \notin Start(s, n - 1) => After(v, n) = Append(v, s[n])
    BY DEF Start
  <1> HIDE DEF L, After
  <1>8. t[0] = <<>> /\ \A n \in 1..L : t[n] = After(t[n - 1], n)
    <2>1. step \in [1..L -> [Seq(S) -> Seq(S)]] /\ \A v \in Seq(S), n \in 1..L : step[n][v] = After(v, n)
      BY <1>3
    <2>2. PICK f : LoopOf(f, Seq(S), L, <<>>, step)
      <3> HIDE DEF step
      <3> QED
        BY <1>1, <1>2, <2>1, LoopExists
    <2>3. Loop(f)
      <3>1. \A n \in 0..L : n # 0 => n \in 1..L /\ n - 1 \in 0..L
        BY <1>1
      <3>2. \A n \in 0..L : f[n] = IF n = 0 THEN <<>> ELSE After(f[n - 1], n)
        BY <2>1, <2>2, <3>1 DEF LoopOf
      <3> QED
        BY <2>2, <3>2 DEF LoopOf
    <2>4. Loop(t)
      BY <2>3
    <2> HIDE DEF t
    <2>5. 0 \in 0..L /\ \A n \in 1..L : n \in 0..L /\ n # 0
      BY <1>1
    <2> QED
      BY <2>4, <2>5
  <1> HIDE DEF t
  <1> DEFINE T == {n \in 0..L : t[n] \in Seq(S) /\ ToSet(t[n]) = Start(s, n) /\ Distinct(t[n])}
  <1>9. 0 \in T
    <2>1. Start(s, 0) = {}
      BY DEF Start
    <2>2. t[0] \in Seq(S)
      BY <1>2, <1>8
    <2>3. ToSet(t[0]) = {} /\ Distinct(t[0])
      BY <1>8, EmptyIs, Zenon
    <2>4. 0 \in 0..L /\ ToSet(t[0]) = Start(s, 0)
      BY <1>1, <2>1, <2>3
    <2> QED
      BY <2>2, <2>3, <2>4, Zenon
  <1>10. ASSUME NEW n \in 1..L, n - 1 \in T PROVE n \in T
    <2>1. t[n - 1] \in Seq(S) /\ ToSet(t[n - 1]) = Start(s, n - 1) /\ Distinct(t[n - 1])
      BY <1>10
    <2>2. s[n] \in S /\ n \in Nat /\ n # 0 /\ n \in 0..L
      BY <1>1
    <2>3. Start(s, n) = Start(s, n - 1) \union {s[n]}
      BY <2>2, OneMore
    <2>4. t[n] = After(t[n - 1], n)
      BY <1>8
    <2>5. CASE s[n] \in Start(s, n - 1)
      <3>1. t[n] = t[n - 1]
        BY <1>6, <2>4, <2>5
      <3>2. Start(s, n) = Start(s, n - 1)
        BY <2>3, <2>5
      <3> QED
        BY <2>1, <2>2, <3>1, <3>2
    <2>6. CASE s[n] \notin Start(s, n - 1)
      <3>1. t[n] = Append(t[n - 1], s[n])
        BY <1>7, <2>4, <2>6
      <3>2. /\ Append(t[n - 1], s[n]) \in Seq(S)
            /\ ToSet(Append(t[n - 1], s[n])) = ToSet(t[n - 1]) \union {s[n]}
            /\ Distinct(t[n - 1]) /\ s[n] \notin ToSet(t[n - 1]) => Distinct(Append(t[n - 1], s[n]))
        BY <2>1, <2>2, AppendIs
      <3> QED
        BY <2>1, <2>2, <2>3, <2>6, <3>1, <3>2
    <2> QED
      BY <2>5, <2>6
  <1>11. L \in T
    <2> HIDE DEF T
    <2>1. 0..L \subseteq T
      BY <1>1, <1>9, <1>10, Rounds
    <2> QED
      BY <1>1, <2>1
  <1> QED
    BY <1>4, <1>5, <1>11
-----------------------------------------------------------------------------
(* cal_final_results: the tables of a trace, and what a step of a row      *)
(* writes into them.                                                       *)

(* One row of the table: what a step reads, writes and leaves alone.       *)

Entries == [Fields \X Cores -> Good]
Tables(P) == [P -> Entries]

\* A cell's place is a field, which is a pair, and a core.
LEMMA CellPlace ==
    ASSUME NEW x \in Fields \X Cores
    PROVE  x[1] \in Fields /\ x[2] \in Cores /\ x = <<x[1], x[2]>> /\ x[1] = <<x[1][1], x[1][2]>>
  BY FieldsAssumption

\* With writes the named cells of one cache and core of a row, and no others.
LEMMA WithIs ==
    ASSUME NEW entry \in Entries, NEW c, NEW i, NEW N, NEW cells \in [N -> Good]
    PROVE  /\ With(entry, c, i, cells) \in Entries
           /\ \A x \in Fields \X Cores :
                With(entry, c, i, cells)[x] =
                    IF x[1][1] = c /\ x[2] = i /\ x[1][2] \in N THEN cells[x[1][2]] ELSE entry[x]
  <1>1. DOMAIN entry = Fields \X Cores /\ DOMAIN cells = N
    BY DEF Entries
  <1>2. With(entry, c, i, cells) =
            [x \in Fields \X Cores |-> IF x[1][1] = c /\ x[2] = i /\ x[1][2] \in N THEN cells[x[1][2]] ELSE entry[x]]
    BY <1>1 DEF With
  <1>3. \A x \in Fields \X Cores : entry[x] \in Good /\ (x[1][2] \in N => cells[x[1][2]] \in Good)
    BY DEF Entries
  <1> QED
    BY <1>2, <1>3 DEF Entries

\* Leaves writes cells of cache c and core i, of the row and of the baseline.
LEMMA LeavesIs ==
    ASSUME NEW P, "no" \in P, NEW s \in Tables(P), NEW p \in P, NEW c, NEW i,
           NEW M, NEW base \in [M -> Good], NEW N, NEW row \in [N -> Good]
    PROVE  /\ Leaves(s, p, c, i, base, row) \in Tables(P)
           /\ \A q \in P, x \in Fields \X Cores :
                Leaves(s, p, c, i, base, row)[q][x] =
                    IF q = p /\ x[1][1] = c /\ x[2] = i /\ x[1][2] \in N THEN row[x[1][2]]
                    ELSE IF q = "no" /\ p # "no" /\ x[1][1] = c /\ x[2] = i /\ x[1][2] \in M THEN base[x[1][2]]
                    ELSE s[q][x]
  <1> DEFINE b == With(s["no"], c, i, base)
             r == With(s[p], c, i, row)
             u == [q \in P |-> IF q = p THEN r ELSE IF q = "no" THEN b ELSE s[q]]
  <1>1. s["no"] \in Entries /\ s[p] \in Entries
    BY DEF Tables
  <1>2. b \in Entries /\ r \in Entries
    BY <1>1, WithIs
  <1>3. Leaves(s, p, c, i, base, row) = [[s EXCEPT !["no"] = b] EXCEPT ![p] = r]
    BY DEF Leaves, OnValues
  <1>4. \A x \in Fields \X Cores :
            /\ b[x] = IF x[1][1] = c /\ x[2] = i /\ x[1][2] \in M THEN base[x[1][2]] ELSE s["no"][x]
            /\ r[x] = IF x[1][1] = c /\ x[2] = i /\ x[1][2] \in N THEN row[x[1][2]] ELSE s[p][x]
    BY <1>1, WithIs
  <1> HIDE DEF b, r
  <1>5. Leaves(s, p, c, i, base, row) = u
    BY <1>3 DEF Tables
  <1>6. u \in Tables(P)
    BY <1>2 DEF Tables
  <1>7. \A q \in P : u[q] = IF q = p THEN r ELSE IF q = "no" THEN b ELSE s[q]
    OBVIOUS
  <1> HIDE DEF u
  <1> QED
    BY <1>4, <1>5, <1>6, <1>7

Readable(v) == RowFields(v) \subseteq Fields
Shared == {"Accesses", "Misses", "traffic", "Coverage", "Uncovered", "Overprediction", "Accuracy", "MPKI"}

\* What a step of a row reads are cells.
LEMMA ReadsCells ==
    ASSUME NEW v \in RowVariants, Readable(v), NEW P, NEW s \in Tables(P), NEW p \in P, NEW i \in Cores
    PROVE  /\ \A name \in {"IPC", "Instructions"} : In(s, p, <<"", name>>, i) \in Good
           /\ \A c \in EvaluateCaches, name \in Shared \union {"Prefetches", "Prefetch Hits", "Non-useful Prefetches"} :
                In(s, p, <<c, name>>, i) \in Good
           /\ v = "total traffic" => \A c \in EvaluateCaches : In(s, p, <<c, "TOTAL_Misses">>, i) \in Good
           /\ v = "miss traffic" => \A c \in EvaluateCaches, name \in {"Prefetch Miss", "Prefetch Access"} :
                In(s, p, <<c, name>>, i) \in Good
  <1>1. \A f \in Fields : In(s, p, f, i) \in Good
    BY DEF In, Tables, Entries
  <1>2. \A f \in RowFields(v) : In(s, p, f, i) \in Good
    BY <1>1 DEF Readable
  <1>3. \A name \in {"IPC", "Instructions"} : <<"", name>> \in RowFields(v)
    BY DEF RowFields
  <1>4. \A c \in EvaluateCaches, name \in Shared \union {"Prefetches", "Prefetch Hits", "Non-useful Prefetches"} :
            <<c, name>> \in RowFields(v)
    BY DEF RowFields, Shared
  <1>5. v = "total traffic" => \A c \in EvaluateCaches : <<c, "TOTAL_Misses">> \in RowFields(v)
    BY DEF RowFields
  <1>6. v = "miss traffic" => \A c \in EvaluateCaches, name \in {"Prefetch Miss", "Prefetch Access"} :
            <<c, name>> \in RowFields(v)
    BY DEF RowFields
  <1> QED
    BY <1>2, <1>3, <1>4, <1>5, <1>6

\* The constants of cal_final_results are numbers, and differ.
LEMMA NumbersOfRow == One \in Numbers /\ Zero \in Numbers /\ Num(1000) \in Numbers /\ One # Zero /\ One # Dash /\ Zero # Dash
  <1>1. One.n = 1 /\ Zero.n = 0 /\ One \in Numbers /\ Zero \in Numbers /\ Num(1000) \in Numbers
    BY NumIs DEF One, Zero
  <1> QED
    BY <1>1, GoodCells

\* The arithmetic of cal_final_results keeps to what a cell can hold: numbers, '-' and what raises.
LEMMA GoodStays ==
    \A a, b \in Good : Plus(a, b) \in Good /\ Minus(a, b) \in Good /\ Times(a, b) \in Good /\ Over(a, b) \in Good
  BY OperationsGood DEF Good

\* What the repairs leave are cells.
LEMMA RepairedTyped ==
    ASSUME NEW v \in RowVariants, Readable(v), NEW P, "no" \in P, NEW s \in Tables(P), NEW p \in P, NEW i \in Cores,
           NEW c \in EvaluateCaches
    PROVE  LET r == Repaired(s, p, c, i)
           IN  r.accesses \in Good /\ r.baseAccesses \in Good /\ r.baseMisses \in Good /\ r.misses \in Good
  <1>1. /\ In(s, p, <<c, "Accesses">>, i) \in Good /\ In(s, p, <<c, "Misses">>, i) \in Good
        /\ In(s, "no", <<c, "Accesses">>, i) \in Good /\ In(s, "no", <<c, "Misses">>, i) \in Good
    BY ReadsCells DEF Shared
  <1>2. One \in Good
    BY NumbersOfRow DEF Good
  <1> QED
    BY <1>1, <1>2 DEF Repaired, Or

\* The cells of a row are cells when the repairs and the derived ones are.
LEMMA RowCellsTyped ==
    ASSUME NEW v \in RowVariants, Readable(v), NEW P, NEW s \in Tables(P), NEW p \in P, NEW i \in Cores,
           NEW c \in EvaluateCaches, NEW r, r.accesses \in Good, r.misses \in Good,
           NEW traffic \in Good, NEW coverage \in Good, NEW over \in Good, NEW none \in Good
    PROVE  RowCells(s, p, c, i, r, traffic, coverage, over, none) \in [Shared -> Good]
  <1>1. /\ In(s, p, <<c, "Prefetch Hits">>, i) \in Good
        /\ In(s, p, <<c, "Non-useful Prefetches">>, i) \in Good
        /\ In(s, p, <<"", "Instructions">>, i) \in Good
    BY ReadsCells
  <1>2. One \in Good /\ Num(1000) \in Good
    BY NumbersOfRow DEF Good
  <1> DEFINE hits == In(s, p, <<c, "Prefetch Hits">>, i)
             used == Plus(hits, In(s, p, <<c, "Non-useful Prefetches">>, i))
             accuracy == IF used = Zero THEN none ELSE Over(hits, used)
             thousands == Times(Num(1000), r.misses)
             instructions == In(s, p, <<"", "Instructions">>, i)
             mpki == Over(thousands, instructions)
             cells == [name \in Shared |->
                CASE name = "Accesses" -> r.accesses
                  [] name = "Misses" -> r.misses
                  [] name = "traffic" -> traffic
                  [] name = "Coverage" -> coverage
                  [] name = "Uncovered" -> Minus(One, coverage)
                  [] name = "Overprediction" -> over
                  [] name = "Accuracy" -> accuracy
                  [] name = "MPKI" -> mpki]
  <1>3. used \in Good
    BY <1>1, GoodStays
  <1>4. accuracy \in Good
    <2>1. Over(hits, used) \in Good
      BY <1>1, <1>3, GoodStays
    <2> QED
      BY <2>1
  <1>5. mpki \in Good
    <2>1. thousands \in Good
      BY <1>2, GoodStays
    <2>2. instructions \in Good
      BY <1>1
    <2> HIDE DEF hits, used, accuracy, cells, thousands, instructions
    <2> QED
      BY <2>1, <2>2, GoodStays
  <1>6. Minus(One, coverage) \in Good
    BY <1>2, GoodStays
  <1>7. RowCells(s, p, c, i, r, traffic, coverage, over, none) = cells
    BY DEF RowCells, Shared
  <1> HIDE DEF accuracy, mpki
  <1>8. cells \in [Shared -> Good]
    BY <1>4, <1>5, <1>6 DEF Shared
  <1> QED
    BY <1>7, <1>8

\* A repair of the baseline writes two cells.
LEMMA BaseCellsTyped ==
    ASSUME NEW r, r.baseAccesses \in Good, r.baseMisses \in Good
    PROVE  BaseCells(r) \in [{"Accesses", "Misses"} -> Good]
  BY DEF BaseCells

\* The cells of a variant, with those it adds.
LEMMA AlsoTyped ==
    ASSUME NEW M, NEW N, NEW cells \in [M -> Good], NEW more \in [N -> Good]
    PROVE  Also(cells, more) \in [M \union N -> Good]
  <1>1. DOMAIN cells = M /\ DOMAIN more = N
    OBVIOUS
  <1> QED
    BY <1>1 DEF Also

\* Added cells do not replace the others.
LEMMA AlsoKeeps ==
    ASSUME NEW cells, NEW more, NEW name \in DOMAIN cells, name \notin DOMAIN more
    PROVE  Also(cells, more)[name] = cells[name]
  BY DEF Also

\* What the step of cache c, or the last one, writes: the baseline's names and
\* the row's.
BaseNames(v, c) ==
    IF c = "" THEN {} ELSE IF v = "total traffic" THEN {"Accesses", "Misses"} \union {"TOTAL_Misses"} ELSE {"Accesses", "Misses"}
RowNames(v, c) ==
    IF c = "" THEN {"IPCI", "Global Coverage"} \union (IF v = "miss traffic" /\ "LLC" \in EvaluateCaches THEN {"DRAM traffic"} ELSE {})
    ELSE IF v = "total traffic" THEN Shared \union {"TOTAL_Misses"}
    ELSE IF v = "miss traffic" THEN Shared \union {"Prefetch Miss", "Prefetch Access"} ELSE Shared

\* u is s with those cells of cache c and core i written.
Wrote(u, s, P, p, c, i, M, base, N, row) ==
    \A q \in P, x \in Fields \X Cores :
        u[q][x] = IF q = p /\ x[1][1] = c /\ x[2] = i /\ x[1][2] \in N THEN row[x[1][2]]
                  ELSE IF q = "no" /\ p # "no" /\ x[1][1] = c /\ x[2] = i /\ x[1][2] \in M THEN base[x[1][2]]
                  ELSE s[q][x]

Writes(u, s, P, p, c, i, M, base, N, row) ==
    base \in [M -> Good] /\ row \in [N -> Good] /\ u \in Tables(P) /\ Wrote(u, s, P, p, c, i, M, base, N, row)

\* What a cache's step leaves of the table: the baseline's cells and the row's are written, on that core.
LEMMA LeavesWrites ==
    ASSUME NEW P, "no" \in P, NEW s \in Tables(P), NEW p \in P, NEW c, NEW i,
           NEW M, NEW base \in [M -> Good], NEW N, NEW row \in [N -> Good]
    PROVE  Writes(Leaves(s, p, c, i, base, row), s, P, p, c, i, M, base, N, row)
  BY LeavesIs DEF Writes, Wrote

\* The last step of a row.
Completed(s, p, i, row) == [s EXCEPT ![p] = With(s[p], "", i, row)]

\* The last step writes into its own row only.
LEMMA CompleteWrites ==
    ASSUME NEW P, NEW s \in Tables(P), NEW p \in P, NEW i, NEW N, NEW row \in [N -> Good], NEW base \in [{} -> Good]
    PROVE  Writes(Completed(s, p, i, row), s, P, p, "", i, {}, base, N, row)
  <1> DEFINE r == With(s[p], "", i, row)
             u == [q \in P |-> IF q = p THEN r ELSE s[q]]
  <1>1. s[p] \in Entries
    BY DEF Tables
  <1>2. r \in Entries
    BY <1>1, WithIs
  <1>3. Completed(s, p, i, row) = [s EXCEPT ![p] = r]
    BY DEF Completed
  <1>4. \A x \in Fields \X Cores :
            r[x] = IF x[1][1] = "" /\ x[2] = i /\ x[1][2] \in N THEN row[x[1][2]] ELSE s[p][x]
    <2>1. \A c : \A x \in Fields \X Cores :
            With(s[p], c, i, row)[x] = IF x[1][1] = c /\ x[2] = i /\ x[1][2] \in N THEN row[x[1][2]] ELSE s[p][x]
      BY <1>1, WithIs
    <2> QED
      BY <2>1
  <1> HIDE DEF r
  <1>5. [s EXCEPT ![p] = r] = u
    BY DEF Tables
  <1>6. u \in Tables(P)
    BY <1>2 DEF Tables
  <1>7. \A q \in P : u[q] = IF q = p THEN r ELSE s[q]
    OBVIOUS
  <1> HIDE DEF u
  <1>8. Wrote(u, s, P, p, "", i, {}, base, N, row)
    BY <1>4, <1>7 DEF Wrote
  <1>9. Writes(u, s, P, p, "", i, {}, base, N, row)
    BY <1>6, <1>8 DEF Writes
  <1> QED
    BY <1>3, <1>5, <1>9

\* The traffic of a cache as the variants compute it, and what else they write.
Missed(s, p, c, i) == Or(In(s, p, <<c, "Prefetch Miss">>, i), Zero)
Asked(s, p, c, i) == Or(In(s, p, <<c, "Prefetch Access">>, i), Zero)
MissTraffic(s, p, c, i, r) ==
    IF r.baseAccesses = One THEN One ELSE Over(Plus(r.misses, Missed(s, p, c, i)), r.baseMisses)
TotalTraffic(s, p, c, i, t) ==
    Over(Plus(t.total, In(s, p, <<c, "Misses">>, i)), In(s, "no", <<c, "Misses">>, i))
ScaledCoverage(r) == Minus(One, Times(Ratio(r), Scale(r)))
PlainCoverage(r) == Minus(One, Ratio(r))
ScaledExcess(s, p, c, i, r) == Times(Useless(s, p, c, i, r), Scale(r))
Requests(s, p, c, i) ==
    [name \in {"Prefetch Miss", "Prefetch Access"} |->
        IF name = "Prefetch Miss" THEN Missed(s, p, c, i) ELSE Asked(s, p, c, i)]

\* The cells a step writes: the baseline's, and the row's.
NewBase(v, s, p, c, i) ==
    IF c = "" THEN [name \in {} |-> Dash]
    ELSE IF v = "total traffic"
    THEN Also(BaseCells(Repaired(s, p, c, i)), [name \in {"TOTAL_Misses"} |-> RepairedTotal(s, p, c, i).baseTotal])
    ELSE BaseCells(Repaired(s, p, c, i))

CacheRow(v, s, p, c, i, r) ==
    CASE v = "scaled" ->
            RowCells(s, p, c, i, r, RequestTraffic(s, p, c, i, r), ScaledCoverage(r), ScaledExcess(s, p, c, i, r), Dash)
      [] v = "plain" ->
            RowCells(s, p, c, i, r, RequestTraffic(s, p, c, i, r), PlainCoverage(r), ScaledExcess(s, p, c, i, r), Dash)
      [] v = "miss traffic" ->
            Also(RowCells(s, p, c, i, r, MissTraffic(s, p, c, i, r), ScaledCoverage(r), ScaledExcess(s, p, c, i, r), Dash),
                 Requests(s, p, c, i))
      [] v = "total traffic" ->
            Also(RowCells(s, p, c, i, r, TotalTraffic(s, p, c, i, RepairedTotal(s, p, c, i)),
                          PlainCoverage(r), Useless(s, p, c, i, r), One),
                 [name \in {"TOTAL_Misses"} |-> RepairedTotal(s, p, c, i).total])
NewRow(v, s, p, c, i) ==
    IF c # "" THEN CacheRow(v, s, p, c, i, Repaired(s, p, c, i))
    ELSE IF v = "miss traffic" /\ "LLC" \in EvaluateCaches
    THEN Also(Spanning(s, p, i), [name \in {"DRAM traffic"} |-> DramTraffic(s, p, i)])
    ELSE Spanning(s, p, i)

\* The last step's name is no cache, and the caches that are read are there.
LEMMA NotACache == "" \notin EvaluateCaches /\ {"L1D", "L2C"} \subseteq EvaluateCaches /\ EvaluateCaches \subseteq CACHES
  BY CachesAssumption DEF CACHES

\* A step on a cache is a Leaves.
LEMMA CacheStep ==
    ASSUME NEW v \in RowVariants, NEW s, NEW p, NEW i, NEW c \in EvaluateCaches
    PROVE  Step(v, s, p, c, i) = Leaves(s, p, c, i, NewBase(v, s, p, c, i), NewRow(v, s, p, c, i))
  <1>1. c # ""
    BY NotACache
  <1>2. CASE v = "scaled"
    <2>1. Step(v, s, p, c, i) = CacheScaled(s, p, c, i)
      BY <1>1, <1>2 DEF Step, StepScaled
    <2> QED
      BY <1>1, <1>2, <2>1 DEF CacheScaled, NewBase, NewRow, CacheRow, ScaledCoverage, ScaledExcess
  <1>3. CASE v = "plain"
    <2>1. Step(v, s, p, c, i) = CachePlain(s, p, c, i)
      BY <1>1, <1>3 DEF Step, StepPlain
    <2> QED
      BY <1>1, <1>3, <2>1 DEF CachePlain, NewBase, NewRow, CacheRow, PlainCoverage, ScaledExcess
  <1>4. CASE v = "miss traffic"
    <2>1. Step(v, s, p, c, i) = CacheMissTraffic(s, p, c, i)
      BY <1>1, <1>4 DEF Step, StepMissTraffic
    <2> QED
      BY <1>1, <1>4, <2>1
         DEF CacheMissTraffic, NewBase, NewRow, CacheRow, ScaledCoverage, ScaledExcess, Requests, MissTraffic, Missed, Asked
  <1>5. CASE v = "total traffic"
    <2>1. Step(v, s, p, c, i) = CacheTotalTraffic(s, p, c, i)
      BY <1>1, <1>5 DEF Step, StepTotalTraffic
    <2> QED
      BY <1>1, <1>5, <2>1 DEF CacheTotalTraffic, NewBase, NewRow, CacheRow, PlainCoverage, TotalTraffic
  <1> QED
    BY <1>2, <1>3, <1>4, <1>5 DEF RowVariants

\* The last step of a row writes what spans the caches.
LEMMA LastStep ==
    ASSUME NEW v \in RowVariants, NEW s, NEW p, NEW i
    PROVE  Step(v, s, p, "", i) = Completed(s, p, i, NewRow(v, s, p, "", i))
  <1>1. CASE v = "miss traffic"
    BY <1>1 DEF Step, StepMissTraffic, CompleteTraffic, NewRow, Completed
  <1>2. CASE v # "miss traffic"
    <2>1. Step(v, s, p, "", i) = Complete(s, p, i)
      BY <1>2 DEF Step, StepScaled, StepPlain, StepTotalTraffic, RowVariants
    <2> QED
      BY <1>2, <2>1 DEF Complete, NewRow, Completed
  <1> QED
    BY <1>1, <1>2

\* The baseline's cells are typed.
LEMMA NewBaseTyped ==
    ASSUME NEW v \in RowVariants, Readable(v), NEW P, "no" \in P, NEW s \in Tables(P), NEW p \in P, NEW i \in Cores,
           NEW c \in EvaluateCaches
    PROVE  NewBase(v, s, p, c, i) \in [BaseNames(v, c) -> Good]
  <1>1. c # ""
    BY NotACache
  <1>2. BaseCells(Repaired(s, p, c, i)) \in [{"Accesses", "Misses"} -> Good]
    BY RepairedTyped, BaseCellsTyped
  <1>3. CASE v = "total traffic"
    <2> DEFINE base == RepairedTotal(s, p, c, i).baseTotal
               more == [name \in {"TOTAL_Misses"} |-> base]
    <2>1. In(s, p, <<c, "TOTAL_Misses">>, i) \in Good /\ In(s, "no", <<c, "TOTAL_Misses">>, i) \in Good
      BY <1>3, ReadsCells
    <2>2. One \in Good /\ Zero \in Good
      BY NumbersOfRow DEF Good
    <2>3. base \in Good
      BY <2>1, <2>2 DEF RepairedTotal, Or
    <2>4. NewBase(v, s, p, c, i) = Also(BaseCells(Repaired(s, p, c, i)), more)
      BY <1>1, <1>3 DEF NewBase
    <2> HIDE DEF base
    <2>5. more \in [{"TOTAL_Misses"} -> Good]
      BY <2>3
    <2> HIDE DEF more
    <2>6. Also(BaseCells(Repaired(s, p, c, i)), more) \in [{"Accesses", "Misses"} \union {"TOTAL_Misses"} -> Good]
      BY <1>2, <2>5, AlsoTyped
    <2> QED
      BY <1>1, <1>3, <2>4, <2>6 DEF BaseNames
  <1>4. CASE v # "total traffic"
    BY <1>1, <1>2, <1>4 DEF NewBase, BaseNames
  <1> QED
    BY <1>3, <1>4

\* What the derived cells of a cache are made of are cells.
LEMMA DerivedTyped ==
    ASSUME NEW v \in RowVariants, Readable(v), NEW P, "no" \in P, NEW s \in Tables(P), NEW p \in P, NEW i \in Cores,
           NEW c \in EvaluateCaches, NEW r, r = Repaired(s, p, c, i)
    PROVE  /\ RequestTraffic(s, p, c, i, r) \in Good
           /\ ScaledCoverage(r) \in Good /\ PlainCoverage(r) \in Good
           /\ Useless(s, p, c, i, r) \in Good /\ ScaledExcess(s, p, c, i, r) \in Good
           /\ v = "miss traffic" => MissTraffic(s, p, c, i, r) \in Good /\ Requests(s, p, c, i) \in [{"Prefetch Miss", "Prefetch Access"} -> Good]
           /\ v = "total traffic" => /\ RepairedTotal(s, p, c, i).total \in Good
                                     /\ TotalTraffic(s, p, c, i, RepairedTotal(s, p, c, i)) \in Good
  <1>1. r.accesses \in Good /\ r.baseAccesses \in Good /\ r.baseMisses \in Good /\ r.misses \in Good
    BY RepairedTyped
  <1>2. One \in Good /\ Zero \in Good
    BY NumbersOfRow DEF Good
  <1>3. /\ In(s, p, <<c, "Prefetches">>, i) \in Good /\ In(s, p, <<c, "Non-useful Prefetches">>, i) \in Good
        /\ In(s, p, <<c, "Misses">>, i) \in Good /\ In(s, "no", <<c, "Misses">>, i) \in Good
    BY ReadsCells DEF Shared
  <1>4. RequestTraffic(s, p, c, i, r) \in Good
    <2>1. Plus(r.accesses, In(s, p, <<c, "Prefetches">>, i)) \in Good
      BY <1>1, <1>3, GoodStays
    <2> QED
      BY <1>1, <2>1, GoodStays DEF RequestTraffic
  <1>5. Ratio(r) \in Good /\ Scale(r) \in Good
    BY <1>1, GoodStays DEF Ratio, Scale
  <1>6. ScaledCoverage(r) \in Good /\ PlainCoverage(r) \in Good
    <2>1. Times(Ratio(r), Scale(r)) \in Good
      BY <1>5, GoodStays
    <2> QED
      BY <1>2, <1>5, <2>1, GoodStays DEF ScaledCoverage, PlainCoverage
  <1>7. Useless(s, p, c, i, r) \in Good
    BY <1>1, <1>3, GoodStays DEF Useless
  <1>8. ScaledExcess(s, p, c, i, r) \in Good
    BY <1>5, <1>7, GoodStays DEF ScaledExcess
  <1>9. ASSUME v = "miss traffic"
        PROVE  MissTraffic(s, p, c, i, r) \in Good /\ Requests(s, p, c, i) \in [{"Prefetch Miss", "Prefetch Access"} -> Good]
    <2>1. In(s, p, <<c, "Prefetch Miss">>, i) \in Good /\ In(s, p, <<c, "Prefetch Access">>, i) \in Good
      BY <1>9, ReadsCells
    <2>2. Missed(s, p, c, i) \in Good /\ Asked(s, p, c, i) \in Good
      BY <1>2, <2>1 DEF Missed, Asked, Or
    <2>3. Plus(r.misses, Missed(s, p, c, i)) \in Good
      BY <1>1, <2>2, GoodStays
    <2>4. Over(Plus(r.misses, Missed(s, p, c, i)), r.baseMisses) \in Good
      BY <1>1, <2>3, GoodStays
    <2> QED
      BY <1>2, <2>2, <2>4 DEF MissTraffic, Requests
  <1>10. ASSUME v = "total traffic"
         PROVE  /\ RepairedTotal(s, p, c, i).total \in Good
                /\ TotalTraffic(s, p, c, i, RepairedTotal(s, p, c, i)) \in Good
    <2>1. In(s, p, <<c, "TOTAL_Misses">>, i) \in Good /\ In(s, "no", <<c, "TOTAL_Misses">>, i) \in Good
      BY <1>10, ReadsCells
    <2>2. RepairedTotal(s, p, c, i).total \in Good
      BY <1>2, <2>1 DEF RepairedTotal, Or
    <2>3. \A t \in Good : Over(Plus(t, In(s, p, <<c, "Misses">>, i)), In(s, "no", <<c, "Misses">>, i)) \in Good
      <3>1. \A t \in Good : Plus(t, In(s, p, <<c, "Misses">>, i)) \in Good
        BY <1>3, GoodStays
      <3>2. \A t \in Good : Over(t, In(s, "no", <<c, "Misses">>, i)) \in Good
        BY <1>3, GoodStays
      <3> QED
        BY <3>1, <3>2
    <2> QED
      BY <2>2, <2>3 DEF TotalTraffic
  <1> QED
    BY <1>4, <1>6, <1>7, <1>8, <1>9, <1>10

\* RowCells with values for the derived cells.
LEMMA SharedCells ==
    ASSUME NEW v \in RowVariants, Readable(v), NEW P, "no" \in P, NEW s \in Tables(P), NEW p \in P, NEW i \in Cores,
           NEW c \in EvaluateCaches
    PROVE  \A a, b, d, e \in Good : RowCells(s, p, c, i, Repaired(s, p, c, i), a, b, d, e) \in [Shared -> Good]
  <1> DEFINE r == Repaired(s, p, c, i)
  <1>1. r.accesses \in Good /\ r.misses \in Good
    BY RepairedTyped
  <1> HIDE DEF r
  <1>2. \A a, b, d, e \in Good : RowCells(s, p, c, i, r, a, b, d, e) \in [Shared -> Good]
    BY <1>1, RowCellsTyped
  <1> QED
    BY <1>2 DEF r

\* In every variant the step of a cache writes values into the names of that variant.
LEMMA CacheRowTyped ==
    ASSUME NEW v \in RowVariants, Readable(v), NEW P, "no" \in P, NEW s \in Tables(P), NEW p \in P, NEW i \in Cores,
           NEW c \in EvaluateCaches
    PROVE  NewRow(v, s, p, c, i) \in [RowNames(v, c) -> Good]
  <1> DEFINE r == Repaired(s, p, c, i)
             total == RepairedTotal(s, p, c, i).total
             request == RequestTraffic(s, p, c, i, r)
             missed == MissTraffic(s, p, c, i, r)
             all == TotalTraffic(s, p, c, i, RepairedTotal(s, p, c, i))
             scaled == ScaledCoverage(r)
             plain == PlainCoverage(r)
             useless == Useless(s, p, c, i, r)
             excess == ScaledExcess(s, p, c, i, r)
             requests == Requests(s, p, c, i)
             more == [name \in {"TOTAL_Misses"} |-> total]
  <1>1. c # ""
    BY NotACache
  <1>2. NewRow(v, s, p, c, i) = CacheRow(v, s, p, c, i, r)
    BY <1>1 DEF NewRow
  <1>3. CacheRow(v, s, p, c, i, r) =
          CASE v = "scaled" -> RowCells(s, p, c, i, r, request, scaled, excess, Dash)
            [] v = "plain" -> RowCells(s, p, c, i, r, request, plain, excess, Dash)
            [] v = "miss traffic" -> Also(RowCells(s, p, c, i, r, missed, scaled, excess, Dash), requests)
            [] v = "total traffic" -> Also(RowCells(s, p, c, i, r, all, plain, useless, One), more)
    BY DEF CacheRow
  <1>4. /\ request \in Good /\ scaled \in Good /\ plain \in Good /\ useless \in Good /\ excess \in Good
        /\ v = "miss traffic" => missed \in Good /\ requests \in [{"Prefetch Miss", "Prefetch Access"} -> Good]
        /\ v = "total traffic" => total \in Good /\ all \in Good
    BY DerivedTyped, Zenon
  <1>5. One \in Good /\ Dash \in Good
    BY NumbersOfRow DEF Good
  <1>6. \A a, b, d, e \in Good : RowCells(s, p, c, i, r, a, b, d, e) \in [Shared -> Good]
    BY SharedCells
  <1> HIDE DEF r, total, request, missed, all, scaled, plain, useless, excess, requests
  <1>7. CASE v = "scaled"
    <2>1. RowNames(v, c) = Shared
      BY <1>1, <1>7 DEF RowNames
    <2>2. PICK cells : cells = RowCells(s, p, c, i, r, request, scaled, excess, Dash)
      OBVIOUS
    <2>3. cells \in [Shared -> Good]
      BY <1>4, <1>5, <1>6, <2>2
    <2>4. CacheRow(v, s, p, c, i, r) = cells
      BY <1>3, <1>7, <2>2
    <2> QED
      BY <1>2, <2>1, <2>3, <2>4
  <1>8. CASE v = "plain"
    <2>1. RowNames(v, c) = Shared
      BY <1>1, <1>8 DEF RowNames
    <2>2. PICK cells : cells = RowCells(s, p, c, i, r, request, plain, excess, Dash)
      OBVIOUS
    <2>3. cells \in [Shared -> Good]
      BY <1>4, <1>5, <1>6, <2>2
    <2>4. CacheRow(v, s, p, c, i, r) = cells
      BY <1>3, <1>8, <2>2
    <2> QED
      BY <1>2, <2>1, <2>3, <2>4
  <1>9. CASE v = "miss traffic"
    <2>1. PICK cells : cells = RowCells(s, p, c, i, r, missed, scaled, excess, Dash)
      OBVIOUS
    <2>2. cells \in [Shared -> Good]
      BY <1>4, <1>5, <1>6, <1>9, <2>1
    <2>3. Also(cells, requests) \in [Shared \union {"Prefetch Miss", "Prefetch Access"} -> Good]
      BY <1>4, <1>9, <2>2, AlsoTyped
    <2>4. CacheRow(v, s, p, c, i, r) = Also(cells, requests)
      BY <1>3, <1>9, <2>1
    <2> QED
      BY <1>1, <1>2, <1>9, <2>3, <2>4 DEF RowNames
  <1>10. CASE v = "total traffic"
    <2>1. PICK cells : cells = RowCells(s, p, c, i, r, all, plain, useless, One)
      OBVIOUS
    <2>2. cells \in [Shared -> Good]
      BY <1>4, <1>5, <1>6, <1>10, <2>1
    <2>3. more \in [{"TOTAL_Misses"} -> Good]
      BY <1>4, <1>10
    <2>4. CacheRow(v, s, p, c, i, r) = Also(cells, more)
      BY <1>3, <1>10, <2>1
    <2> HIDE DEF more
    <2>5. Also(cells, more) \in [Shared \union {"TOTAL_Misses"} -> Good]
      BY <2>2, <2>3, AlsoTyped
    <2> QED
      BY <1>1, <1>2, <1>10, <2>4, <2>5 DEF RowNames
  <1> QED
    BY <1>7, <1>8, <1>9, <1>10 DEF RowVariants

\* IPCI is a number, or raises.
LEMMA SpanningTyped ==
    ASSUME NEW v \in RowVariants, Readable(v), NEW P, "no" \in P, NEW s \in Tables(P), NEW p \in P, NEW i \in Cores
    PROVE  /\ NewRow(v, s, p, "", i) \in [RowNames(v, "") -> Good]
           /\ NewRow(v, s, p, "", i)["IPCI"] = Ipci(s, p, i)
           /\ Ipci(s, p, i) \in Numbers \union {Raised}
  <1>1. Ipci(s, p, i) \in Numbers \union {Raised}
    <2>1. In(s, p, <<"", "IPC">>, i) \in Good /\ In(s, "no", <<"", "IPC">>, i) \in Good
      BY ReadsCells
    <2> QED
      BY <2>1, OperationsGood DEF Ipci
  <1>2. GlobalCoverage(s, p, i) \in Good
    <2> DEFINE l1 == In(s, p, <<"L1D", "Coverage">>, i)
               l2 == In(s, p, <<"L2C", "Coverage">>, i)
    <2>1. l1 \in Good /\ l2 \in Good /\ One \in Good
      BY ReadsCells, NotACache, NumbersOfRow DEF Good, Shared
    <2>2. GlobalCoverage(s, p, i) = Plus(l1, Times(Minus(One, l1), l2))
      BY DEF GlobalCoverage
    <2> HIDE DEF l1, l2
    <2>3. Minus(One, l1) \in Good
      BY <2>1, GoodStays
    <2>4. Times(Minus(One, l1), l2) \in Good
      BY <2>1, <2>3, GoodStays
    <2> QED
      BY <2>1, <2>2, <2>4, GoodStays
  <1>3. /\ Spanning(s, p, i) \in [{"IPCI", "Global Coverage"} -> Good]
        /\ Spanning(s, p, i)["IPCI"] = Ipci(s, p, i)
    BY <1>1, <1>2 DEF Spanning, Good
  <1>4. CASE v = "miss traffic" /\ "LLC" \in EvaluateCaches
    <2> DEFINE dram == DramTraffic(s, p, i)
               more == [name \in {"DRAM traffic"} |-> dram]
    <2>1. /\ In(s, p, <<"LLC", "Misses">>, i) \in Good /\ In(s, p, <<"LLC", "Prefetch Miss">>, i) \in Good
          /\ In(s, "no", <<"LLC", "Misses">>, i) \in Good
      BY <1>4, ReadsCells DEF Shared
    <2>2. Plus(In(s, p, <<"LLC", "Misses">>, i), In(s, p, <<"LLC", "Prefetch Miss">>, i)) \in Good
      BY <2>1, GoodStays
    <2>3. dram \in Good
      BY <2>1, <2>2, GoodStays DEF DramTraffic
    <2>4. NewRow(v, s, p, "", i) = Also(Spanning(s, p, i), more)
      BY <1>4 DEF NewRow
    <2> HIDE DEF dram
    <2>5. more \in [{"DRAM traffic"} -> Good]
      BY <2>3
    <2> HIDE DEF more
    <2>6. /\ Also(Spanning(s, p, i), more) \in [{"IPCI", "Global Coverage"} \union {"DRAM traffic"} -> Good]
          /\ Also(Spanning(s, p, i), more)["IPCI"] = Spanning(s, p, i)["IPCI"]
      <3>1. PICK cells : cells = Spanning(s, p, i)
        OBVIOUS
      <3>2. cells \in [{"IPCI", "Global Coverage"} -> Good]
        BY <1>3, <3>1
      <3>3. Also(cells, more) \in [{"IPCI", "Global Coverage"} \union {"DRAM traffic"} -> Good]
        BY <2>5, <3>2, AlsoTyped
      <3>4. Also(cells, more)["IPCI"] = cells["IPCI"]
        <4>1. "IPCI" \in DOMAIN cells /\ "IPCI" \notin DOMAIN more
          BY <2>5, <3>2
        <4> QED
          BY <4>1, AlsoKeeps
      <3> QED
        BY <3>1, <3>3, <3>4
    <2> QED
      BY <1>1, <1>3, <1>4, <2>4, <2>6 DEF RowNames
  <1>5. CASE ~ (v = "miss traffic" /\ "LLC" \in EvaluateCaches)
    <2>1. NewRow(v, s, p, "", i) = Spanning(s, p, i)
      BY <1>5 DEF NewRow
    <2>2. RowNames(v, "") = {"IPCI", "Global Coverage"}
      BY <1>5 DEF RowNames
    <2> QED
      BY <1>1, <1>3, <2>1, <2>2
  <1> QED
    BY <1>4, <1>5

\* The last step writes its names, and an IPCI that is a number unless the division raises.
LEMMA SpanningRow ==
    ASSUME NEW v \in RowVariants, Readable(v), NEW P, "no" \in P, NEW s \in Tables(P), NEW p \in P, NEW i \in Cores,
           NEW c, c = ""
    PROVE  NewRow(v, s, p, c, i) \in [RowNames(v, c) -> Good] /\ NewRow(v, s, p, c, i)["IPCI"] \in Numbers \union {Raised}
  <1>1. /\ NewRow(v, s, p, "", i) \in [RowNames(v, "") -> Good]
        /\ NewRow(v, s, p, "", i)["IPCI"] \in Numbers \union {Raised}
    BY SpanningTyped
  <1> QED
    BY <1>1

\* What a step of a row writes.
LEMMA StepWrites ==
    ASSUME NEW v \in RowVariants, Readable(v), NEW P, "no" \in P, NEW s \in Tables(P), NEW p \in P, NEW i \in Cores,
           NEW c \in EvaluateCaches \union {""}
    PROVE  Writes(Step(v, s, p, c, i), s, P, p, c, i, BaseNames(v, c), NewBase(v, s, p, c, i), RowNames(v, c), NewRow(v, s, p, c, i))
  <1> DEFINE base == NewBase(v, s, p, c, i)
             row == NewRow(v, s, p, c, i)
  <1>1. CASE c = ""
    <2>1. BaseNames(v, c) = {} /\ base \in [{} -> Good]
      BY <1>1 DEF BaseNames, NewBase
    <2>2. row \in [RowNames(v, c) -> Good]
      BY <1>1, SpanningTyped
    <2>3. Step(v, s, p, c, i) = Completed(s, p, i, row)
      <3>1. Step(v, s, p, "", i) = Completed(s, p, i, NewRow(v, s, p, "", i))
        BY LastStep
      <3> QED
        BY <1>1, <3>1
    <2> HIDE DEF base, row
    <2>4. Writes(Completed(s, p, i, row), s, P, p, "", i, {}, base, RowNames(v, c), row)
      BY <2>1, <2>2, CompleteWrites
    <2> QED
      BY <1>1, <2>1, <2>3, <2>4 DEF base, row
  <1>2. CASE c # ""
    <2>1. c \in EvaluateCaches
      BY <1>2
    <2>2. base \in [BaseNames(v, c) -> Good]
      BY <2>1, NewBaseTyped
    <2>3. row \in [RowNames(v, c) -> Good]
      BY <2>1, CacheRowTyped
    <2>4. Step(v, s, p, c, i) = Leaves(s, p, c, i, base, row)
      BY <2>1, CacheStep
    <2> HIDE DEF base, row
    <2>5. Writes(Leaves(s, p, c, i, base, row), s, P, p, c, i, BaseNames(v, c), base, RowNames(v, c), row)
      BY <2>2, <2>3, LeavesWrites
    <2> QED
      BY <2>4, <2>5 DEF base, row
  <1> QED
    BY <1>1, <1>2

\* The places of a sequence of two or three, one appended.
LEMMA AppendToThree ==
    ASSUME NEW a, NEW b, NEW c, NEW d, NEW s, s = Append(<<a, b, c>>, d)
    PROVE  /\ Len(s) = 4 /\ s[1] = a /\ s[2] = b /\ s[3] = c /\ s[4] = d
           /\ 1..Len(s) = {1, 2, 3, 4} /\ 1..(Len(s) - 1) = {1, 2, 3}
  <1>1. Len(s) = 4
    OBVIOUS
  <1>2. 1..4 = {1, 2, 3, 4} /\ 1..3 = {1, 2, 3}
    OBVIOUS
  <1> QED
    BY <1>1, <1>2

\* A list of three.
LEMMA AppendToTwo ==
    ASSUME NEW a, NEW b, NEW d, NEW s, s = Append(<<a, b>>, d)
    PROVE  /\ Len(s) = 3 /\ s[1] = a /\ s[2] = b /\ s[3] = d
           /\ 1..Len(s) = {1, 2, 3} /\ 1..(Len(s) - 1) = {1, 2}
  <1>1. Len(s) = 3
    OBVIOUS
  <1>2. 1..2 = {1, 2} /\ 1..3 = {1, 2, 3}
    OBVIOUS
  <1> QED
    BY <1>1, <1>2

\* The steps of a row: each cache once, and then the last step.
LEMMA StepsAre ==
    /\ Len(Steps) \in Nat \ {0} /\ Steps[Len(Steps)] = ""
    /\ \A n \in 1..Len(Steps) : Steps[n] \in EvaluateCaches \union {""}
    /\ \A n \in 1..(Len(Steps) - 1) : Steps[n] \in EvaluateCaches
    /\ \A c \in EvaluateCaches : \E n \in 1..(Len(Steps) - 1) : Steps[n] = c
  <1>1. PICK l1, l2, llc, last : l1 = "L1D" /\ l2 = "L2C" /\ llc = "LLC" /\ last = ""
    OBVIOUS
  <1>2. CASE llc \in EvaluateCaches
    <2>1. Steps = Append(<<l1, l2, llc>>, last) /\ EvaluateCaches = {l1, l2, llc}
      BY <1>1, <1>2, NotACache DEF Steps, Caches, CACHES
    <2>2. /\ Len(Steps) = 4 /\ Steps[1] = l1 /\ Steps[2] = l2 /\ Steps[3] = llc /\ Steps[4] = last
          /\ 1..Len(Steps) = {1, 2, 3, 4} /\ 1..(Len(Steps) - 1) = {1, 2, 3}
      BY <2>1, AppendToThree
    <2>3. \A n \in 1..(Len(Steps) - 1) : Steps[n] \in EvaluateCaches
      BY <2>1, <2>2
    <2>4. \A n \in 1..Len(Steps) : Steps[n] \in EvaluateCaches \union {""}
      BY <1>1, <2>1, <2>2
    <2>5. \A c \in EvaluateCaches : \E n \in 1..(Len(Steps) - 1) : Steps[n] = c
      BY <2>1, <2>2
    <2>6. Len(Steps) \in Nat \ {0} /\ Steps[Len(Steps)] = ""
      <3>1. PICK m \in Nat : m = Len(Steps) /\ m # 0
        BY <2>2
      <3>2. Steps[m] = last
        BY <2>2, <3>1
      <3> QED
        BY <1>1, <3>1, <3>2
    <2> QED
      BY <2>3, <2>4, <2>5, <2>6
  <1>3. CASE llc \notin EvaluateCaches
    <2>1. Steps = Append(<<l1, l2>>, last) /\ EvaluateCaches = {l1, l2}
      BY <1>1, <1>3, NotACache DEF Steps, Caches, CACHES
    <2>2. /\ Len(Steps) = 3 /\ Steps[1] = l1 /\ Steps[2] = l2 /\ Steps[3] = last
          /\ 1..Len(Steps) = {1, 2, 3} /\ 1..(Len(Steps) - 1) = {1, 2}
      BY <2>1, AppendToTwo
    <2>3. \A n \in 1..(Len(Steps) - 1) : Steps[n] \in EvaluateCaches
      BY <2>1, <2>2
    <2>4. \A n \in 1..Len(Steps) : Steps[n] \in EvaluateCaches \union {""}
      BY <1>1, <2>1, <2>2
    <2>5. \A c \in EvaluateCaches : \E n \in 1..(Len(Steps) - 1) : Steps[n] = c
      BY <2>1, <2>2
    <2>6. Len(Steps) \in Nat \ {0} /\ Steps[Len(Steps)] = ""
      <3>1. PICK m \in Nat : m = Len(Steps) /\ m # 0
        BY <2>2
      <3>2. Steps[m] = last
        BY <2>2, <3>1
      <3> QED
        BY <1>1, <3>1, <3>2
    <2> QED
      BY <2>3, <2>4, <2>5, <2>6
  <1> QED
    BY <1>2, <1>3

\* A row is its steps, one after the other.
LEMMA RowLoop ==
    ASSUME NEW v \in RowVariants, Readable(v), NEW P, "no" \in P, NEW s \in Tables(P), NEW p \in P, NEW i \in Cores
    PROVE  \E t : /\ Row(v, s, p, i) = t[Len(Steps)]
                  /\ t[0] = s
                  /\ \A n \in 1..Len(Steps) : t[n] = Step(v, t[n - 1], p, Steps[n], i)
                  /\ \A n \in 0..Len(Steps) : t[n] \in Tables(P)
  <1> DEFINE L == Len(Steps)
             X == Tables(P)
             After(u, n) == CHOOSE w \in {Step(v, a, p, b, i) : a \in {u}, b \in {Steps[n]}} : w = w
             step == [n \in 1..L |-> [u \in X |-> After(u, n)]]
             Loop(f) == f = [n \in 0..L |-> IF n = 0 THEN s ELSE After(f[n - 1], n)]
             t == CHOOSE f : Loop(f)
  <1>1. L \in Nat
    BY StepsAre
  <1>2. s \in X
    OBVIOUS
  <1>3. \A u, n : After(u, n) = Step(v, u, p, Steps[n], i)
    OBVIOUS
  <1>4. Row(v, s, p, i) = t[L]
    BY DEF Row, FoldValues, OnValues
  <1> HIDE DEF After
  <1>5. \A u \in X, n \in 1..L : After(u, n) \in X
    <2> SUFFICES ASSUME NEW u \in X, NEW n \in 1..L PROVE After(u, n) \in X
      OBVIOUS
    <2>1. PICK c \in EvaluateCaches \union {""} : c = Steps[n]
      BY StepsAre
    <2>2. Step(v, u, p, c, i) \in Tables(P)
      BY StepWrites DEF Writes
    <2> QED
      BY <1>3, <2>1, <2>2
  <1> HIDE DEF L, X
  <1>6. step \in [1..L -> [X -> X]] /\ \A u \in X, n \in 1..L : step[n][u] = After(u, n)
    BY <1>5
  <1>7. PICK f : LoopOf(f, X, L, s, step)
    <2> HIDE DEF step
    <2> QED
      BY <1>1, <1>2, <1>6, LoopExists
  <1>8. Loop(f)
    <2>1. \A n \in 0..L : n # 0 => n \in 1..L /\ n - 1 \in 0..L
      BY <1>1
    <2>2. \A n \in 0..L : f[n] = IF n = 0 THEN s ELSE After(f[n - 1], n)
      BY <1>6, <1>7, <2>1 DEF LoopOf
    <2> QED
      BY <1>7, <2>2 DEF LoopOf
  <1>9. Loop(t)
    BY <1>8
  <1> HIDE DEF t
  <1>10. t[0] = s /\ \A n \in 1..L : t[n] = After(t[n - 1], n)
    <2>1. 0 \in 0..L /\ \A n \in 1..L : n \in 0..L /\ n # 0
      BY <1>1
    <2> QED
      BY <1>9, <2>1
  <1>11. \A n \in 0..L : t[n] \in X
    <2> DEFINE T == {n \in 0..L : t[n] \in X}
    <2>1. 0 \in T
      BY <1>1, <1>2, <1>10
    <2>2. \A n \in 1..L : n - 1 \in T => n \in T
      BY <1>1, <1>5, <1>10
    <2>3. 0..L \subseteq T
      <3> HIDE DEF T
      <3> QED
        BY <1>1, <2>1, <2>2, Rounds
    <2> QED
      BY <2>3
  <1> QED
    BY <1>3, <1>4, <1>10, <1>11 DEF L, X

\* The IPCI of a row on a core is a number, or raised.
Speed(s, q, j) == s[q][<<<<"", "IPCI">>, j>>] \in Numbers \union {Raised}

\* A step leaves an IPCI alone, or computes it.
LEMMA StepSpeed ==
    ASSUME NEW v \in RowVariants, Readable(v), NEW P, "no" \in P, NEW s \in Tables(P), NEW p \in P, NEW i \in Cores,
           NEW c \in EvaluateCaches \union {""}
    PROVE  /\ \A q \in P, j \in Cores : Speed(s, q, j) => Speed(Step(v, s, p, c, i), q, j)
           /\ c = "" => Speed(Step(v, s, p, c, i), p, i)
  <1> DEFINE base == NewBase(v, s, p, c, i)
             row == NewRow(v, s, p, c, i)
             u == Step(v, s, p, c, i)
             x(j) == <<<<"", "IPCI">>, j>>
  <1>1. Wrote(u, s, P, p, c, i, BaseNames(v, c), base, RowNames(v, c), row)
    BY StepWrites DEF Writes
  <1>2. c = "" => row["IPCI"] \in Numbers \union {Raised}
    BY SpanningRow
  <1>3. c = "" => BaseNames(v, c) = {} /\ "IPCI" \in RowNames(v, c)
    BY DEF BaseNames, RowNames
  <1>4. <<"", "IPCI">> \in Fields
    BY DEF Readable, RowFields
  <1>5. \A j \in Cores : x(j) \in Fields \X Cores /\ x(j)[1][1] = "" /\ x(j)[1][2] = "IPCI" /\ x(j)[2] = j
    BY <1>4
  <1> HIDE DEF base, row, u, x
  <1>6. \A q \in P, j \in Cores :
            u[q][x(j)] = IF q = p /\ c = "" /\ j = i THEN row["IPCI"] ELSE s[q][x(j)]
    <2> SUFFICES ASSUME NEW q \in P, NEW j \in Cores
                 PROVE  u[q][x(j)] = IF q = p /\ c = "" /\ j = i THEN row["IPCI"] ELSE s[q][x(j)]
      OBVIOUS
    <2>1. u[q][x(j)] = IF q = p /\ x(j)[1][1] = c /\ x(j)[2] = i /\ x(j)[1][2] \in RowNames(v, c) THEN row[x(j)[1][2]]
                       ELSE IF q = "no" /\ p # "no" /\ x(j)[1][1] = c /\ x(j)[2] = i /\ x(j)[1][2] \in BaseNames(v, c)
                       THEN base[x(j)[1][2]] ELSE s[q][x(j)]
      <3>1. x(j) \in Fields \X Cores
        BY <1>5
      <3> QED
        BY <1>1, <3>1 DEF Wrote
    <2>2. x(j)[1][1] = "" /\ x(j)[1][2] = "IPCI" /\ x(j)[2] = j
      BY <1>5
    <2> QED
      BY <1>3, <2>1, <2>2
  <1>7. \A q \in P, j \in Cores : (u[q][x(j)] \in Numbers \union {Raised}) = Speed(u, q, j)
    BY DEF Speed, x
  <1> QED
    BY <1>2, <1>6 DEF Speed, x, u

\* A row of cal_final_results has an IPCI on its core, and takes none from another row.
LEMMA RowSpeed ==
    ASSUME NEW v \in RowVariants, Readable(v), NEW P, "no" \in P, NEW s \in Tables(P), NEW p \in P, NEW i \in Cores
    PROVE  /\ Row(v, s, p, i) \in Tables(P)
           /\ \A q \in P, j \in Cores : Speed(s, q, j) => Speed(Row(v, s, p, i), q, j)
           /\ Speed(Row(v, s, p, i), p, i)
  <1>1. PICK t : /\ Row(v, s, p, i) = t[Len(Steps)]
                 /\ t[0] = s
                 /\ \A n \in 1..Len(Steps) : t[n] = Step(v, t[n - 1], p, Steps[n], i)
                 /\ \A n \in 0..Len(Steps) : t[n] \in Tables(P)
    BY RowLoop
  <1> DEFINE L == Len(Steps)
             T == {n \in 0..L : \A q \in P, j \in Cores : Speed(s, q, j) => Speed(t[n], q, j)}
  <1>2. L \in Nat \ {0} /\ \A n \in 1..L : n - 1 \in 0..L
    <2>1. \A k \in Nat : \A n \in 1..k : n - 1 \in 0..k
      OBVIOUS
    <2> QED
      BY <2>1, StepsAre
  <1>3. ASSUME NEW n \in 1..L
        PROVE  /\ \A q \in P, j \in Cores : Speed(t[n - 1], q, j) => Speed(t[n], q, j)
               /\ n = L => Speed(t[n], p, i)
    <2>1. PICK c \in EvaluateCaches \union {""} : c = Steps[n]
      BY StepsAre
    <2>2. PICK w \in Tables(P) : w = t[n - 1]
      <3>1. n - 1 \in 0..L
        BY <1>2
      <3> QED
        BY <1>1, <3>1
    <2>3. t[n] = Step(v, w, p, c, i)
      BY <1>1, <2>1, <2>2
    <2>4. n = L => c = ""
      BY <2>1, StepsAre
    <2> QED
      BY <2>2, <2>3, <2>4, StepSpeed
  <1> HIDE DEF L
  <1>4. 0 \in T
    BY <1>1, <1>2
  <1>5. \A n \in 1..L : n - 1 \in T => n \in T
    BY <1>2, <1>3
  <1>6. L \in T
    <2> HIDE DEF T
    <2>1. 0..L \subseteq T
      BY <1>2, <1>4, <1>5, Rounds
    <2> QED
      BY <1>2, <2>1
  <1>7. Row(v, s, p, i) = t[L] /\ t[L] \in Tables(P)
    BY <1>1, <1>2 DEF L
  <1> QED
    BY <1>2, <1>3, <1>6, <1>7

\* The cores of a row are visited in order, and all of them.
LEMMA CoresAre == core_num \in Nat \ {0} /\ Len(CoreOrder) = core_num /\ \A n \in 1..core_num : CoreOrder[n] = n - 1 /\ n - 1 \in Cores
  BY ConfigAssumption DEF CoreOrder, Cores

\* A row on all cores is the row on one core after the other.
LEMMA CoresLoop ==
    ASSUME NEW v \in RowVariants, Readable(v), NEW P, "no" \in P, NEW s \in Tables(P), NEW p \in P
    PROVE  \E t : /\ RowOnCores(v, s, p) = t[core_num]
                  /\ t[0] = s
                  /\ \A n \in 1..core_num : t[n] = Row(v, t[n - 1], p, n - 1)
                  /\ \A n \in 0..core_num : t[n] \in Tables(P)
  <1> DEFINE L == core_num
             X == Tables(P)
             s0 == s
             After(u, n) == CHOOSE w \in {Row(v, a, p, b) : a \in {u}, b \in {CoreOrder[n]}} : w = w
             step == [n \in 1..L |-> [u \in X |-> After(u, n)]]
             Loop(f) == f = [n \in 0..L |-> IF n = 0 THEN s0 ELSE After(f[n - 1], n)]
             t == CHOOSE f : Loop(f)
  <1>1. L \in Nat
    BY CoresAre
  <1>2. s0 \in X
    OBVIOUS
  <1>3. \A u : \A n \in 1..L : After(u, n) = Row(v, u, p, n - 1)
    BY CoresAre
  <1>4. RowOnCores(v, s, p) = t[L]
    BY CoresAre DEF RowOnCores, FoldValues, OnValues
  <1> HIDE DEF After, s0
  <1>5. \A u \in X, n \in 1..L : After(u, n) \in X
    <2> SUFFICES ASSUME NEW u \in X, NEW n \in 1..L PROVE After(u, n) \in X
      OBVIOUS
    <2>1. PICK j \in Cores : j = n - 1
      BY CoresAre
    <2>2. Row(v, u, p, j) \in Tables(P)
      BY RowSpeed
    <2> QED
      BY <1>3, <2>1, <2>2
  <1> HIDE DEF L, X
  <1>6. step \in [1..L -> [X -> X]] /\ \A u \in X, n \in 1..L : step[n][u] = After(u, n)
    BY <1>5
  <1>7. PICK f : LoopOf(f, X, L, s0, step)
    <2> HIDE DEF step
    <2> QED
      BY <1>1, <1>2, <1>6, LoopExists
  <1>8. Loop(f)
    <2>1. \A n \in 0..L : n # 0 => n \in 1..L /\ n - 1 \in 0..L
      BY <1>1
    <2>2. \A n \in 0..L : f[n] = IF n = 0 THEN s0 ELSE After(f[n - 1], n)
      BY <1>6, <1>7, <2>1 DEF LoopOf
    <2> QED
      BY <1>7, <2>2 DEF LoopOf
  <1>9. Loop(t)
    BY <1>8
  <1> HIDE DEF t
  <1>10. t[0] = s0 /\ \A n \in 1..L : t[n] = After(t[n - 1], n)
    <2>1. 0 \in 0..L /\ \A n \in 1..L : n \in 0..L /\ n # 0
      BY <1>1
    <2> QED
      BY <1>9, <2>1
  <1>11. \A n \in 0..L : t[n] \in X
    <2> DEFINE T == {n \in 0..L : t[n] \in X}
    <2>1. 0 \in T
      BY <1>1, <1>2, <1>10
    <2>2. \A n \in 1..L : n - 1 \in T => n \in T
      BY <1>1, <1>5, <1>10
    <2>3. 0..L \subseteq T
      <3> HIDE DEF T
      <3> QED
        BY <1>1, <2>1, <2>2, Rounds
    <2> QED
      BY <2>3
  <1> QED
    BY <1>3, <1>4, <1>10, <1>11 DEF L, X, s0

\* The rows of a prefetcher, core after core: each has an IPCI.
LEMMA CoresSpeed ==
    ASSUME NEW v \in RowVariants, Readable(v), NEW P, "no" \in P, NEW s \in Tables(P), NEW p \in P
    PROVE  /\ RowOnCores(v, s, p) \in Tables(P)
           /\ \A q \in P, j \in Cores : Speed(s, q, j) => Speed(RowOnCores(v, s, p), q, j)
           /\ \A j \in Cores : Speed(RowOnCores(v, s, p), p, j)
  <1>1. PICK t : /\ RowOnCores(v, s, p) = t[core_num]
                 /\ t[0] = s
                 /\ \A n \in 1..core_num : t[n] = Row(v, t[n - 1], p, n - 1)
                 /\ \A n \in 0..core_num : t[n] \in Tables(P)
    BY CoresLoop
  <1> DEFINE T == {n \in 0..core_num : /\ \A q \in P, j \in Cores : Speed(s, q, j) => Speed(t[n], q, j)
                                       /\ \A j \in 0..n - 1 : Speed(t[n], p, j)}
  <1>2. core_num \in Nat /\ Cores = 0..core_num - 1
    BY CoresAre DEF Cores
  <1>3. 0 \in T
    BY <1>1, <1>2
  <1>4. ASSUME NEW n \in 1..core_num, n - 1 \in T PROVE n \in T
    <2>1. PICK w \in Tables(P), i \in Cores : w = t[n - 1] /\ i = n - 1
      <3>1. n - 1 \in 0..core_num /\ n - 1 \in Cores
        BY <1>2
      <3> QED
        BY <1>1, <3>1
    <2>2. t[n] = Row(v, w, p, i)
      BY <1>1, <2>1
    <2>3. /\ \A q \in P, j \in Cores : Speed(w, q, j) => Speed(t[n], q, j)
          /\ Speed(t[n], p, i)
      BY <2>2, RowSpeed
    <2>4. \A j \in 0..n - 1 : j \in Cores /\ (j = i \/ j \in 0..(n - 1) - 1)
      BY <1>2, <2>1
    <2> QED
      BY <1>2, <1>4, <2>1, <2>3, <2>4
  <1>5. core_num \in T
    <2> HIDE DEF T
    <2>1. 0..core_num \subseteq T
      BY <1>2, <1>3, <1>4, Rounds
    <2> QED
      BY <1>2, <2>1
  <1> QED
    BY <1>1, <1>2, <1>5

\* A trace's rows are its prefetchers', one after the other.
LEMMA TraceLoop ==
    ASSUME NEW v \in RowVariants, Readable(v), NEW P, "no" \in P, NEW r, NEW x,
           NEW order \in Seq(P), TraceTable(r, order, x) \in Tables(P)
    PROVE  \E t : /\ RowsOfTrace(v, r, order, x) = t[Len(order)]
                  /\ t[0] = TraceTable(r, order, x)
                  /\ \A n \in 1..Len(order) : t[n] = RowOnCores(v, t[n - 1], order[n])
                  /\ \A n \in 0..Len(order) : t[n] \in Tables(P)
  <1> DEFINE L == Len(order)
             X == Tables(P)
             s0 == TraceTable(r, order, x)
             After(u, n) == CHOOSE w \in {RowOnCores(v, a, b) : a \in {u}, b \in {order[n]}} : w = w
             step == [n \in 1..L |-> [u \in X |-> After(u, n)]]
             Loop(f) == f = [n \in 0..L |-> IF n = 0 THEN s0 ELSE After(f[n - 1], n)]
             t == CHOOSE f : Loop(f)
  <1>1. L \in Nat
    OBVIOUS
  <1>2. s0 \in X
    OBVIOUS
  <1>3. \A u : \A n \in 1..L : After(u, n) = RowOnCores(v, u, order[n])
    OBVIOUS
  <1>4. RowsOfTrace(v, r, order, x) = t[L]
    BY DEF RowsOfTrace, FoldValues, OnValues
  <1> HIDE DEF After, s0
  <1>5. \A u \in X, n \in 1..L : After(u, n) \in X
    <2> SUFFICES ASSUME NEW u \in X, NEW n \in 1..L PROVE After(u, n) \in X
      OBVIOUS
    <2>1. PICK p \in P : p = order[n]
      OBVIOUS
    <2>2. RowOnCores(v, u, p) \in Tables(P)
      BY CoresSpeed
    <2> QED
      BY <1>3, <2>1, <2>2
  <1> HIDE DEF L, X
  <1>6. step \in [1..L -> [X -> X]] /\ \A u \in X, n \in 1..L : step[n][u] = After(u, n)
    BY <1>5
  <1>7. PICK f : LoopOf(f, X, L, s0, step)
    <2> HIDE DEF step
    <2> QED
      BY <1>1, <1>2, <1>6, LoopExists
  <1>8. Loop(f)
    <2>1. \A n \in 0..L : n # 0 => n \in 1..L /\ n - 1 \in 0..L
      BY <1>1
    <2>2. \A n \in 0..L : f[n] = IF n = 0 THEN s0 ELSE After(f[n - 1], n)
      BY <1>6, <1>7, <2>1 DEF LoopOf
    <2> QED
      BY <1>7, <2>2 DEF LoopOf
  <1>9. Loop(t)
    BY <1>8
  <1> HIDE DEF t
  <1>10. t[0] = s0 /\ \A n \in 1..L : t[n] = After(t[n - 1], n)
    <2>1. 0 \in 0..L /\ \A n \in 1..L : n \in 0..L /\ n # 0
      BY <1>1
    <2> QED
      BY <1>9, <2>1
  <1>11. \A n \in 0..L : t[n] \in X
    <2> DEFINE T == {n \in 0..L : t[n] \in X}
    <2>1. 0 \in T
      BY <1>1, <1>2, <1>10
    <2>2. \A n \in 1..L : n - 1 \in T => n \in T
      BY <1>1, <1>5, <1>10
    <2>3. 0..L \subseteq T
      <3> HIDE DEF T
      <3> QED
        BY <1>1, <2>1, <2>2, Rounds
    <2> QED
      BY <2>3
  <1> QED
    BY <1>3, <1>4, <1>10, <1>11 DEF L, X, s0

\* The rows of a trace, prefetcher after prefetcher: each has an IPCI, on every core.
LEMMA TraceSpeed ==
    ASSUME NEW v \in RowVariants, Readable(v), NEW P, "no" \in P, NEW r, NEW x,
           NEW order \in Seq(P), TraceTable(r, order, x) \in Tables(P)
    PROVE  /\ RowsOfTrace(v, r, order, x) \in Tables(P)
           /\ \A q \in ToSet(order), j \in Cores : Speed(RowsOfTrace(v, r, order, x), q, j)
  <1>1. PICK t : /\ RowsOfTrace(v, r, order, x) = t[Len(order)]
                 /\ \A n \in 1..Len(order) : t[n] = RowOnCores(v, t[n - 1], order[n])
                 /\ \A n \in 0..Len(order) : t[n] \in Tables(P)
    BY TraceLoop
  <1> DEFINE L == Len(order)
             T == {n \in 0..L : \A m \in 1..n : \A j \in Cores : Speed(t[n], order[m], j)}
  <1>2. L \in Nat
    OBVIOUS
  <1>3. 0 \in T
    BY <1>2
  <1>4. ASSUME NEW n \in 1..L, n - 1 \in T PROVE n \in T
    <2>1. PICK w \in Tables(P), p \in P : w = t[n - 1] /\ p = order[n]
      <3>1. n - 1 \in 0..L
        BY <1>2
      <3> QED
        BY <1>1, <3>1
    <2>2. t[n] = RowOnCores(v, w, p)
      BY <1>1, <2>1
    <2>3. /\ \A q \in P, j \in Cores : Speed(w, q, j) => Speed(t[n], q, j)
          /\ \A j \in Cores : Speed(t[n], p, j)
      BY <2>2, CoresSpeed
    <2>4. \A m \in 1..n : order[m] \in P /\ (order[m] = p \/ m \in 1..n - 1)
      BY <1>2, <2>1
    <2> QED
      BY <1>2, <1>4, <2>1, <2>3, <2>4
  <1>5. L \in T
    <2> HIDE DEF T
    <2>1. 0..L \subseteq T
      BY <1>2, <1>3, <1>4, Rounds
    <2> QED
      BY <1>2, <2>1
  <1>6. ToSet(order) = {order[m] : m \in 1..L}
    BY DEF ToSet
  <1> QED
    BY <1>1, <1>2, <1>5, <1>6

-----------------------------------------------------------------------------
(* The chunks cover the listing and stay inside it.                        *)

\* Euclid's division, for a positive divisor.
LEMMA Quotients ==
    ASSUME NEW a \in Nat, NEW d \in Nat, d > 0
    PROVE  /\ a \div d \in Nat
           /\ d * (a \div d) <= a
           /\ a < d * (a \div d) + d
  BY SMTT(30)

\* A chunk's reports are in the listing (FirstOf and LastOf).
LEMMA ChunkInside ==
    ASSUME files \in Seq(Reading), NEW n \in Nat, n > 0
    PROVE  /\ FirstOf(n) \in Nat /\ FirstOf(n) > 0
           /\ LastOf(n) \in Int
           /\ FirstOf(n)..LastOf(n) \subseteq 1..Len(files)
  <1> DEFINE C == ChunkSize
  <1>1. C \in Nat /\ C > 0
    BY ChunkAssumption
  <1>2. (n - 1) * C \in Nat /\ n * C \in Nat
    BY <1>1, SMTT(30)
  <1>3. Len(files) \in Nat
    OBVIOUS
  <1> HIDE DEF C
  <1>4. FirstOf(n) = (n - 1) * C + 1 /\ LastOf(n) = Min2(n * C, Len(files))
    BY DEF FirstOf, LastOf, C
  <1> QED
    BY <1>2, <1>3, <1>4 DEF Min2

\* Every report is in one of the chunks that the pool hands out (Chunks).
LEMMA ChunkOf ==
    ASSUME files \in Seq(Reading), NEW i \in 1..Len(files)
    PROVE  \E n \in 1..Chunks : i \in FirstOf(n)..LastOf(n)
  <1> DEFINE C == ChunkSize
             q == (i - 1) \div C
             m == (Len(files) + C - 1) \div C
  <1>1. C \in Nat /\ C > 0
    BY ChunkAssumption
  <1>2. Len(files) \in Nat /\ i - 1 \in Nat /\ Len(files) + C - 1 \in Nat
    BY <1>1
  <1> HIDE DEF C
  <1>3. q \in Nat /\ C * q <= i - 1 /\ i - 1 < C * q + C
    BY <1>1, <1>2, Quotients
  <1>4. m \in Nat /\ C * m <= Len(files) + C - 1 /\ Len(files) + C - 1 < C * m + C
    BY <1>1, <1>2, Quotients
  <1> HIDE DEF q, m
  <1>5. q + 1 <= m
    <2>1. C * q < C * m
      BY <1>1, <1>2, <1>3, <1>4, SMTT(30)
    <2> QED
      BY <2>1, <1>1, <1>3, <1>4, SMTT(30)
  <1>6. FirstOf(q + 1) = q * C + 1 /\ LastOf(q + 1) = Min2((q + 1) * C, Len(files))
    BY <1>3 DEF FirstOf, LastOf, C
  <1>7. q * C = C * q /\ (q + 1) * C = C * q + C /\ C * q \in Nat
    BY <1>1, <1>3, SMTT(30)
  <1>8. i \in FirstOf(q + 1)..LastOf(q + 1)
    BY <1>2, <1>3, <1>6, <1>7, <1>1 DEF Min2
  <1>9. Chunks = m
    BY DEF Chunks, m, C
  <1> QED
    BY <1>3, <1>4, <1>5, <1>8, <1>9
-----------------------------------------------------------------------------
(* Entries and tables.                                                     *)

\* Writing a report's cells into an entry gives an entry (parse_file).
LEMMA WriteTyped ==
    ASSUME NEW entry \in [Cell -> Value], NEW r \in Reading
    PROVE  Write(entry, r.cells) \in [Cell -> Value]
  BY ReadingAssumption DEF Write

\* add_entry's fresh entry is one.
LEMMA NewEntryTyped == NewEntry \in [Cell -> Value]
  BY BlankAssumption DEF NewEntry

\* Parsing a report a second time changes nothing.
LEMMA WriteTwice ==
    ASSUME NEW entry, NEW cells
    PROVE  Write(Write(entry, cells), cells) = Write(entry, cells)
  BY DEF Write

-----------------------------------------------------------------------------
(* The inductive invariant.  Typed keeps the positions inside the listing; *)
(* Accounted and Ready say that no report of a chunk is lost between the   *)
(* workers and the merge; Sourced is NoCrossTalk for the tables of the     *)
(* workers and for what they returned; Copied is SameAsSequential for them.*)

Typed ==
    /\ files \in Seq(Reading)
    /\ handed \in Nat
    /\ chunk \in [Worker -> 0..handed]
    /\ parsed \in [Worker -> Nat]
    /\ tables = [w \in Worker |-> tables[w]]
    /\ DOMAIN returned \subseteq 1..Len(files)
    /\ merged \in 0..Len(files)
    /\ failed \in BOOLEAN
    /\ pool \in {"open", "merging", "done", "died"}

\* a chunk that was handed out is on a worker, lost in a failure, or back
Accounted ==
    pool = "open" =>
        \A n \in 1..handed :
            \/ failed
            \/ \E w \in Worker : chunk[w] = n
            \/ FirstOf(n)..LastOf(n) \subseteq DOMAIN returned

\* when the results are merged they are all there
Ready == pool = "merging" => 1..Len(files) \subseteq DOMAIN returned

\* an entry whose cells were all written by reports of k
From(k, entry) ==
    /\ entry \in [Cell -> Value]
    /\ \A c \in Cell : entry[c] # Blank =>
        \E i \in 1..Len(files) : /\ files[i].key = k
                                 /\ IsRead(files[i])
                                 /\ c \in DOMAIN files[i].cells
                                 /\ entry[c] = files[i].cells[c]

Sourced ==
    /\ \A w \in Worker : \A k \in DOMAIN tables[w] : From(k, tables[w][k])
    /\ \A i \in DOMAIN returned : From(files[i].key, returned[i])
    /\ \A k \in DOMAIN roi : From(k, roi[k])

\* the entry every report of k would leave in an empty table
Alone(k, entry) ==
    \A i \in 1..Len(files) :
        files[i].key = k /\ IsRead(files[i]) => entry = Write(NewEntry, files[i].cells)

\* the reports the worker has parsed of its chunk are in its table
Met ==
    \A w \in Worker : chunk[w] # 0 =>
        \A i \in 1..Len(files) :
            i >= FirstOf(chunk[w]) /\ i < FirstOf(chunk[w]) + parsed[w] /\ IsRead(files[i])
                => files[i].key \in DOMAIN tables[w]

Copied ==
    CopiesOnly =>
        /\ \A w \in Worker : \A k \in DOMAIN tables[w] : Alone(k, tables[w][k])
        /\ \A i \in DOMAIN returned : IsRead(files[i]) => returned[i] = Write(NewEntry, files[i].cells)
        /\ \A k \in DOMAIN roi : Alone(k, roi[k])

\* the keys merged so far
Merged == DOMAIN roi = {files[i].key : i \in {j \in 1..merged : IsReached(files[j])}}
Whole == pool = "done" => merged = Len(files)

-----------------------------------------------------------------------------
(* Typed.                                                                  *)

\* The pool starts well typed.
LEMMA TypedInit == ASSUME PoolInit(Seq(Reading)) PROVE Typed
  <1> USE DEF PoolInit
  <1>1. files \in Seq(Reading) /\ handed \in Nat /\ failed \in BOOLEAN /\ pool = "open"
    OBVIOUS
  <1>2. chunk \in [Worker -> 0..handed] /\ parsed \in [Worker -> Nat]
    OBVIOUS
  <1>3. tables = [w \in Worker |-> tables[w]]
    OBVIOUS
  <1>4. DOMAIN returned = {}
    BY DEF Nobody
  <1>5. merged \in 0..Len(files)
    BY <1>1
  <1> QED
    BY <1>1, <1>2, <1>3, <1>4, <1>5 DEF Typed

\* Every step of the pool keeps the types.
LEMMA TypedNext == ASSUME Typed, [PoolNext]_poolVars PROVE Typed'
  <1> USE DEF Typed
  <1>1. CASE UNCHANGED poolVars
    BY <1>1 DEF poolVars
  <1>2. CASE \E w \in Worker : TakeChunk(w)
    <2>1. PICK w \in Worker : TakeChunk(w)
      BY <1>2
    <2>2. \A k \in 0..handed : k \in 0..(handed + 1)
      OBVIOUS
    <2> QED
      BY <2>1, <2>2 DEF TakeChunk
  <1>3. CASE \E w \in Worker : ParseReport(w)
    <2>1. PICK w \in Worker : ParseReport(w)
      BY <1>3
    <2>2. tables' = [v \in Worker |-> tables'[v]]
      BY <2>1 DEF ParseReport
    <2> QED
      BY <2>1, <2>2 DEF ParseReport
  <1>4. CASE \E w \in Worker : ParseRaises(w)
    BY <1>4 DEF ParseRaises
  <1>5. CASE \E w \in Worker : ReturnChunk(w)
    <2>1. PICK w \in Worker : ReturnChunk(w)
      BY <1>5
    <2>2. FirstOf(chunk[w])..LastOf(chunk[w]) \subseteq 1..Len(files)
      BY <2>1, ChunkInside DEF ReturnChunk
    <2> QED
      BY <2>1, <2>2 DEF ReturnChunk
  <1>6. CASE MapReturns
    BY <1>6 DEF MapReturns
  <1>7. CASE MergeResult
    BY <1>7 DEF MergeResult
  <1>8. CASE MergeEnds
    BY <1>8 DEF MergeEnds, Nobody
  <1> QED
    BY <1>1, <1>2, <1>3, <1>4, <1>5, <1>6, <1>7, <1>8 DEF PoolNext, ParentStep, WorkerStep
-----------------------------------------------------------------------------
(* No chunk is lost.                                                       *)

\* No step of the pool loses a chunk: one that was handed out is with a worker, or returned,
\* unless the parsing failed.
LEMMA AccountedNext ==
    ASSUME Typed, Accounted, [PoolNext]_poolVars
    PROVE  Accounted'
  <1> SUFFICES ASSUME pool' = "open", NEW n \in 1..handed'
              PROVE  \/ failed'
                     \/ \E w \in Worker : chunk'[w] = n
                     \/ FirstOf(n)'..LastOf(n)' \subseteq DOMAIN returned'
    BY DEF Accounted
  <1>1. CASE UNCHANGED poolVars
    BY <1>1 DEF poolVars, Accounted, FirstOf, LastOf
  <1>2. CASE \E w \in Worker : TakeChunk(w)
    <2>1. PICK w \in Worker : TakeChunk(w)
      BY <1>2
    <2>2. CASE n = handed + 1
      BY <2>1, <2>2 DEF TakeChunk, Typed
    <2>3. CASE n # handed + 1
      <3>1. n \in 1..handed
        BY <2>1, <2>3 DEF TakeChunk, Typed
      <3>2. ASSUME NEW v \in Worker, chunk[v] = n PROVE chunk'[v] = n
        BY <2>1, <3>1, <3>2 DEF TakeChunk, Typed
      <3> QED
        BY <2>1, <3>1, <3>2 DEF TakeChunk, Accounted, FirstOf, LastOf
    <2> QED
      BY <2>2, <2>3
  <1>3. CASE \E w \in Worker : ParseReport(w)
    BY <1>3 DEF ParseReport, Accounted, FirstOf, LastOf
  <1>4. CASE \E w \in Worker : ParseRaises(w)
    BY <1>4 DEF ParseRaises
  <1>5. CASE \E w \in Worker : ReturnChunk(w)
    <2>1. PICK w \in Worker : ReturnChunk(w)
      BY <1>5
    <2>2. DOMAIN returned' = DOMAIN returned \union (FirstOf(chunk[w])..LastOf(chunk[w]))
      BY <2>1 DEF ReturnChunk
    <2>3. UNCHANGED <<files, handed, failed>> /\ pool = "open"
      BY <2>1 DEF ReturnChunk
    <2>4. FirstOf(n)' = FirstOf(n) /\ LastOf(n)' = LastOf(n)
      BY <2>3 DEF FirstOf, LastOf
    <2>5. CASE chunk[w] = n
      BY <2>2, <2>4, <2>5
    <2>6. CASE chunk[w] # n
      <3>1. ASSUME NEW v \in Worker, chunk[v] = n PROVE chunk'[v] = n
        BY <2>1, <2>6, <3>1 DEF ReturnChunk, Typed
      <3> QED
        BY <2>2, <2>3, <2>4, <3>1 DEF Accounted
    <2> QED
      BY <2>5, <2>6
  <1>6. CASE MapReturns
    BY <1>6 DEF MapReturns
  <1>7. CASE MergeResult
    BY <1>7 DEF MergeResult
  <1>8. CASE MergeEnds
    BY <1>8 DEF MergeEnds
  <1> QED
    BY <1>1, <1>2, <1>3, <1>4, <1>5, <1>6, <1>7, <1>8 DEF PoolNext, ParentStep, WorkerStep

\* Every step keeps Ready: the merge begins when every report's result is there.
LEMMA ReadyNext ==
    ASSUME Typed, Accounted, Ready, [PoolNext]_poolVars
    PROVE  Ready'
  <1> SUFFICES ASSUME pool' = "merging" PROVE 1..Len(files') \subseteq DOMAIN returned'
    BY DEF Ready
  <1>1. CASE UNCHANGED poolVars
    BY <1>1 DEF poolVars, Ready
  <1>2. CASE \E w \in Worker : WorkerStep(w)
    BY <1>2 DEF WorkerStep, TakeChunk, ParseReport, ParseRaises, ReturnChunk
  <1>3. CASE MapReturns
    <2>1. ~ failed /\ handed = Chunks /\ pool = "open"
      BY <1>3 DEF MapReturns
    <2>2. \A w \in Worker : chunk[w] = 0
      BY <1>3 DEF MapReturns
    <2>3. SUFFICES ASSUME NEW i \in 1..Len(files) PROVE i \in DOMAIN returned
      BY <1>3 DEF MapReturns
    <2>4. PICK n \in 1..Chunks : i \in FirstOf(n)..LastOf(n)
      BY ChunkOf DEF Typed
    <2>5. n \in 1..handed /\ n # 0
      BY <2>1, <2>4 DEF Typed
    <2> QED
      BY <2>1, <2>2, <2>4, <2>5 DEF Accounted
  <1>4. CASE MergeResult
    BY <1>4 DEF MergeResult, Ready
  <1>5. CASE MergeEnds
    BY <1>5 DEF MergeEnds
  <1> QED
    BY <1>1, <1>2, <1>3, <1>4, <1>5 DEF PoolNext, ParentStep
-----------------------------------------------------------------------------
(* The steps that build entries, once for both invariants.                 *)

\* The report a worker parses next, and where it stands in the listing.
LEMMA CurrentReport ==
    ASSUME Typed, NEW w \in Worker, chunk[w] # 0,
           FirstOf(chunk[w]) + parsed[w] <= LastOf(chunk[w])
    PROVE  \E i \in 1..Len(files) :
                i = FirstOf(chunk[w]) + parsed[w] /\ Current(w) = files[i] /\ files[i] \in Reading
  <1> DEFINE i == FirstOf(chunk[w]) + parsed[w]
  <1>1. chunk[w] \in Nat /\ chunk[w] > 0 /\ parsed[w] \in Nat
    BY DEF Typed
  <1>2. /\ FirstOf(chunk[w]) \in Nat
        /\ LastOf(chunk[w]) \in Int
        /\ FirstOf(chunk[w])..LastOf(chunk[w]) \subseteq 1..Len(files)
    BY <1>1, ChunkInside DEF Typed
  <1>3. i \in FirstOf(chunk[w])..LastOf(chunk[w])
    BY <1>1, <1>2
  <1>4. i \in 1..Len(files) /\ Current(w) = files[i]
    BY <1>2, <1>3 DEF Current
  <1>5. files[i] \in Reading
    BY <1>4 DEF Typed
  <1> QED
    BY <1>4, <1>5

\* The tables after a report was parsed: one entry is written, the rest stay.
LEMMA ParsedTables ==
    ASSUME Typed, NEW w \in Worker, ParseReport(w)
    PROVE  \E i \in 1..Len(files) :
            /\ i = FirstOf(chunk[w]) + parsed[w]
            /\ files[i] \in Reading
            /\ \A v \in Worker : v # w => tables'[v] = tables[v]
            /\ files[i].kind = "skipped" => tables'[w] = tables[w]
            /\ files[i].kind # "skipped" =>
                    /\ DOMAIN tables'[w] = DOMAIN tables[w] \union {files[i].key}
                    /\ tables'[w][files[i].key] = Write(EntryOf(tables[w], files[i].key), files[i].cells)
                    /\ \A k \in DOMAIN tables[w] : k # files[i].key => tables'[w][k] = tables[w][k]
            /\ files[i].kind \in {"skipped", "unreached", "reached"}
  <1>1. PICK i \in 1..Len(files) :
            i = FirstOf(chunk[w]) + parsed[w] /\ Current(w) = files[i] /\ files[i] \in Reading
    BY CurrentReport DEF ParseReport
  <1>2. \A v \in Worker : v # w => tables'[v] = tables[v]
    BY DEF ParseReport, Typed
  <1>3. ASSUME files[i].kind = "skipped" PROVE tables'[w] = tables[w]
    BY <1>1, <1>3 DEF ParseReport
  <1>4. ASSUME files[i].kind # "skipped"
        PROVE  tables'[w] = Put(tables[w], files[i].key, Write(EntryOf(tables[w], files[i].key), files[i].cells))
    BY <1>1, <1>4 DEF ParseReport, Typed
  <1>5. files[i].kind \in {"skipped", "unreached", "reached"}
    BY <1>1, ReadingAssumption DEF ParseReport
  <1> QED
    BY <1>1, <1>2, <1>3, <1>4, <1>5 DEF Put

\* What a chunk gives back: the entry of each of its reports.
LEMMA ReturnedEntries ==
    ASSUME Typed, NEW w \in Worker, ReturnChunk(w)
    PROVE  /\ \A i \in DOMAIN returned : i \in DOMAIN returned' /\ returned'[i] = returned[i]
           /\ \A i \in DOMAIN returned' : i \notin DOMAIN returned =>
                /\ i \in FirstOf(chunk[w])..LastOf(chunk[w])
                /\ i \in 1..Len(files)
                /\ returned'[i] = EntryOf(tables[w], files[i].key)
  <1>1. chunk[w] \in Nat /\ chunk[w] > 0
    BY DEF Typed, ReturnChunk
  <1>2. FirstOf(chunk[w])..LastOf(chunk[w]) \subseteq 1..Len(files)
    BY <1>1, ChunkInside DEF Typed
  <1> QED
    BY <1>2 DEF ReturnChunk

-----------------------------------------------------------------------------
(* Nothing gets mixed up.                                                  *)

\* A new entry takes nothing from any report.
LEMMA FromNew == ASSUME NEW k PROVE From(k, NewEntry)
  BY NewEntryTyped DEF From, NewEntry

\* Writing a report's cells into its own key's entry mixes nothing up.
LEMMA FromWrite ==
    ASSUME Typed, NEW i \in 1..Len(files), files[i] \in Reading, IsRead(files[i]),
           NEW entry, From(files[i].key, entry)
    PROVE  From(files[i].key, Write(entry, files[i].cells))
  <1> DEFINE e == Write(entry, files[i].cells)
  <1>1. e \in [Cell -> Value]
    BY WriteTyped DEF From
  <1>2. ASSUME NEW c \in Cell, e[c] # Blank
        PROVE  \E j \in 1..Len(files) : /\ files[j].key = files[i].key
                                        /\ IsRead(files[j])
                                        /\ c \in DOMAIN files[j].cells
                                        /\ e[c] = files[j].cells[c]
    <2>1. CASE c \in DOMAIN files[i].cells
      BY <2>1 DEF Write
    <2>2. CASE c \notin DOMAIN files[i].cells
      <3>1. e[c] = entry[c]
        BY <2>2 DEF Write
      <3> QED
        BY <3>1, <1>2 DEF From
    <2> QED
      BY <2>1, <2>2
  <1> QED
    BY <1>1, <1>2 DEF From

\* Every step of the pool keeps what a table holds to reports of the same key.
LEMMA SourcedNext ==
    ASSUME Typed, Sourced, Ready, [PoolNext]_poolVars
    PROVE  Sourced'
  <1>0. files' = files
    BY DEF PoolNext, ParentStep, WorkerStep, poolVars, TakeChunk, ParseReport, ParseRaises, ReturnChunk,
           MapReturns, MergeResult, MergeEnds
  <1>2. CASE UNCHANGED <<tables, returned, roi>>
    BY <1>0, <1>2 DEF Sourced, From
  <1>3. CASE \E w \in Worker : ParseReport(w)
    <2>1. PICK w \in Worker : ParseReport(w)
      BY <1>3
    <2>2. PICK i \in 1..Len(files) :
            /\ files[i] \in Reading
            /\ \A v \in Worker : v # w => tables'[v] = tables[v]
            /\ files[i].kind = "skipped" => tables'[w] = tables[w]
            /\ files[i].kind # "skipped" =>
                    /\ DOMAIN tables'[w] = DOMAIN tables[w] \union {files[i].key}
                    /\ tables'[w][files[i].key] = Write(EntryOf(tables[w], files[i].key), files[i].cells)
                    /\ \A k \in DOMAIN tables[w] : k # files[i].key => tables'[w][k] = tables[w][k]
            /\ files[i].kind \in {"skipped", "unreached", "reached"}
      BY <2>1, ParsedTables
    <2>3. UNCHANGED <<returned, roi>>
      BY <2>1 DEF ParseReport
    <2>4. From(files[i].key, EntryOf(tables[w], files[i].key))
      BY FromNew DEF EntryOf, Sourced
    <2>5. files[i].kind # "skipped" => From(files[i].key, Write(EntryOf(tables[w], files[i].key), files[i].cells))
      BY <2>2, <2>4, FromWrite DEF IsRead
    <2>6. ASSUME NEW v \in Worker, NEW k \in DOMAIN tables'[v] PROVE From(k, tables'[v][k])
      BY <2>2, <2>5, <2>6 DEF Sourced
    <2> QED
      BY <1>0, <2>3, <2>6 DEF Sourced, From
  <1>4. CASE \E w \in Worker : ReturnChunk(w)
    <2>1. PICK w \in Worker : ReturnChunk(w)
      BY <1>4
    <2>2. UNCHANGED <<tables, roi>>
      BY <2>1 DEF ReturnChunk
    <2>3. \A k : From(k, EntryOf(tables[w], k))
      BY FromNew DEF EntryOf, Sourced
    <2>4. ASSUME NEW i \in DOMAIN returned' PROVE From(files[i].key, returned'[i])
      BY <2>1, <2>3, <2>4, ReturnedEntries DEF Sourced
    <2> QED
      BY <1>0, <2>2, <2>4 DEF Sourced, From
  <1>5. CASE MapReturns
    <2>1. \A w \in Worker : tables'[w] = Empty
      BY <1>5 DEF MapReturns
    <2>2. UNCHANGED <<returned, roi>>
      BY <1>5 DEF MapReturns
    <2> QED
      BY <1>0, <2>1, <2>2 DEF Sourced, From, Empty
  <1>6. CASE MergeResult
    <2>1. UNCHANGED <<tables, returned>>
      BY <1>6 DEF MergeResult
    <2>2. merged + 1 \in 1..Len(files) /\ merged + 1 \in DOMAIN returned
      BY <1>6 DEF MergeResult, Typed, Ready
    <2>3. ASSUME NEW k \in DOMAIN roi' PROVE From(k, roi'[k])
      BY <1>6, <2>2 DEF MergeResult, Put, Sourced
    <2> QED
      BY <1>0, <2>1, <2>3 DEF Sourced, From
  <1>7. CASE MergeEnds
    <2>1. UNCHANGED <<tables, roi>> /\ DOMAIN returned' = {}
      BY <1>7 DEF MergeEnds, Nobody
    <2> QED
      BY <1>0, <2>1 DEF Sourced, From
  <1> QED
    BY <1>2, <1>3, <1>4, <1>5, <1>6, <1>7
    DEF PoolNext, ParentStep, WorkerStep, poolVars, TakeChunk, ParseRaises
-----------------------------------------------------------------------------
(* What a sequential loop would make of it.                                *)

\* The list of reports does not change.
LEMMA FilesStay == ASSUME [PoolNext]_poolVars PROVE files' = files
  BY DEF PoolNext, ParentStep, WorkerStep, poolVars, TakeChunk, ParseReport, ParseRaises, ReturnChunk,
         MapReturns, MergeResult, MergeEnds

\* Every step keeps Met: a worker has an entry for each report it has parsed of its chunk.
LEMMA MetNext ==
    ASSUME Typed, Met, [PoolNext]_poolVars
    PROVE  Met'
  <1>0. files' = files
    BY FilesStay
  <1> SUFFICES ASSUME NEW v \in Worker, chunk'[v] # 0,
                      NEW i \in 1..Len(files),
                      i >= FirstOf(chunk'[v]), i < FirstOf(chunk'[v]) + parsed'[v], IsRead(files[i])
               PROVE  files[i].key \in DOMAIN tables'[v]
    BY <1>0 DEF Met, FirstOf
  <1>1. CASE UNCHANGED <<chunk, parsed, tables>>
    BY <1>1 DEF Met
  <1>2. CASE \E w \in Worker : TakeChunk(w)
    <2>1. PICK w \in Worker : TakeChunk(w)
      BY <1>2
    <2>2. CASE v = w
      <3>1. parsed'[v] = 0 /\ chunk'[v] = handed + 1
        BY <2>1, <2>2 DEF TakeChunk, Typed
      <3>2. FirstOf(chunk'[v]) \in Nat
        <4>1. files \in Seq(Reading) /\ handed + 1 \in Nat /\ handed + 1 > 0
          BY DEF Typed
        <4> QED
          BY <3>1, <4>1, ChunkInside
      <3> QED
        BY <3>1, <3>2
    <2>3. CASE v # w
      BY <2>1, <2>3 DEF TakeChunk, Typed, Met
    <2> QED
      BY <2>2, <2>3
  <1>3. CASE \E w \in Worker : ParseReport(w)
    <2>1. PICK w \in Worker : ParseReport(w)
      BY <1>3
    <2>2. PICK p \in 1..Len(files) :
            /\ p = FirstOf(chunk[w]) + parsed[w]
            /\ \A u \in Worker : u # w => tables'[u] = tables[u]
            /\ files[p].kind = "skipped" => tables'[w] = tables[w]
            /\ files[p].kind # "skipped" => DOMAIN tables'[w] = DOMAIN tables[w] \union {files[p].key}
      BY <2>1, ParsedTables
    <2>3. chunk' = chunk /\ parsed' = [parsed EXCEPT ![w] = @ + 1]
      BY <2>1 DEF ParseReport
    <2>4. CASE v # w
      BY <2>2, <2>3, <2>4 DEF Met, Typed
    <2>5. CASE v = w
      <3>1. parsed'[w] = parsed[w] + 1 /\ parsed[w] \in Nat
        BY <2>3 DEF Typed
      <3>2. chunk[w] \in Nat /\ chunk[w] > 0
        BY <2>3, <2>5 DEF Typed
      <3>3. FirstOf(chunk[w]) \in Nat
        BY <3>2, ChunkInside DEF Typed
      <3>4. i = p \/ i < FirstOf(chunk[w]) + parsed[w]
        BY <2>2, <2>3, <2>5, <3>1, <3>3
      <3>5. CASE i = p
        BY <2>2, <2>5, <3>5 DEF IsRead
      <3>6. CASE i < FirstOf(chunk[w]) + parsed[w]
        <4>1. files[i].key \in DOMAIN tables[w]
          BY <2>3, <2>5, <3>2, <3>6 DEF Met
        <4> QED
          BY <2>2, <2>5, <4>1
      <3> QED
        BY <3>4, <3>5, <3>6
    <2> QED
      BY <2>4, <2>5
  <1>4. CASE \E w \in Worker : ParseRaises(w) \/ ReturnChunk(w)
    <2>1. PICK w \in Worker : ParseRaises(w) \/ ReturnChunk(w)
      BY <1>4
    <2>2. chunk'[w] = 0 /\ (v # w => chunk'[v] = chunk[v]) /\ UNCHANGED <<parsed, tables>>
      BY <2>1 DEF ParseRaises, ReturnChunk, Typed
    <2> QED
      BY <2>2 DEF Met
  <1>5. CASE MapReturns
    BY <1>5 DEF MapReturns
  <1>6. CASE MergeResult
    BY <1>1, <1>6 DEF MergeResult
  <1>7. CASE MergeEnds
    BY <1>1, <1>7 DEF MergeEnds
  <1> QED
    BY <1>1, <1>2, <1>3, <1>4, <1>5, <1>6, <1>7 DEF PoolNext, ParentStep, WorkerStep, poolVars

\* The entry of a report in the table of the worker that parsed its chunk.
LEMMA ChunkMet ==
    ASSUME Typed, Met, NEW w \in Worker, ReturnChunk(w),
           NEW i \in 1..Len(files), i \in FirstOf(chunk[w])..LastOf(chunk[w]), IsRead(files[i])
    PROVE  files[i].key \in DOMAIN tables[w]
  <1>1. chunk[w] \in Nat /\ chunk[w] > 0
    BY DEF Typed, ReturnChunk
  <1>2. FirstOf(chunk[w]) \in Nat /\ LastOf(chunk[w]) \in Int /\ parsed[w] \in Nat
    BY <1>1, ChunkInside DEF Typed
  <1>3. i >= FirstOf(chunk[w]) /\ i < FirstOf(chunk[w]) + parsed[w]
    BY <1>2 DEF ReturnChunk
  <1> QED
    BY <1>1, <1>3 DEF Met

\* Every step keeps, where the reports of a key are copies, what one of them says.
LEMMA CopiedNext ==
    ASSUME Typed, Copied, Met, Ready, [PoolNext]_poolVars
    PROVE  Copied'
  <1>0. files' = files
    BY FilesStay
  <1>1. CopiesOnly' = CopiesOnly /\ Len(files') = Len(files)
    BY <1>0 DEF CopiesOnly
  <1>d. files \in Seq(Reading) /\ DOMAIN files = 1..Len(files)
    BY DEF Typed
  <1> SUFFICES ASSUME CopiesOnly
               PROVE  /\ \A w \in Worker : \A k \in DOMAIN tables'[w] : Alone(k, tables'[w][k])
                      /\ \A i \in DOMAIN returned' :
                            IsRead(files[i]) => returned'[i] = Write(NewEntry, files[i].cells)
                      /\ \A k \in DOMAIN roi' : Alone(k, roi'[k])
    BY <1>0, <1>1 DEF Copied, Alone
  <1>2. CASE UNCHANGED <<tables, returned, roi>>
    BY <1>2 DEF Copied
  <1>3. CASE \E w \in Worker : ParseReport(w)
    <2>1. PICK w \in Worker : ParseReport(w)
      BY <1>3
    <2>2. PICK p \in 1..Len(files) :
            /\ \A v \in Worker : v # w => tables'[v] = tables[v]
            /\ files[p].kind = "skipped" => tables'[w] = tables[w]
            /\ files[p].kind # "skipped" =>
                    /\ DOMAIN tables'[w] = DOMAIN tables[w] \union {files[p].key}
                    /\ tables'[w][files[p].key] = Write(EntryOf(tables[w], files[p].key), files[p].cells)
                    /\ \A k \in DOMAIN tables[w] : k # files[p].key => tables'[w][k] = tables[w][k]
            /\ files[p].kind \in {"skipped", "unreached", "reached"}
      BY <2>1, ParsedTables
    <2>3. UNCHANGED <<returned, roi>>
      BY <2>1 DEF ParseReport
    <2>4. ASSUME files[p].kind # "skipped"
          PROVE  Write(EntryOf(tables[w], files[p].key), files[p].cells) = Write(NewEntry, files[p].cells)
      <3>1. IsRead(files[p])
        BY <2>2, <2>4 DEF IsRead
      <3>2. CASE files[p].key \in DOMAIN tables[w]
        <4>1. tables[w][files[p].key] = Write(NewEntry, files[p].cells)
          BY <3>1, <3>2 DEF Copied, Alone
        <4> QED
          BY <3>2, <4>1, WriteTwice DEF EntryOf
      <3>3. CASE files[p].key \notin DOMAIN tables[w]
        BY <3>3 DEF EntryOf
      <3> QED
        BY <3>2, <3>3
    <2>5. ASSUME files[p].kind # "skipped" PROVE Alone(files[p].key, Write(NewEntry, files[p].cells))
      <3>1. IsRead(files[p])
        BY <2>2, <2>5 DEF IsRead
      <3> QED
        BY <3>1, <1>d DEF Alone, CopiesOnly
    <2>6. ASSUME NEW v \in Worker, NEW k \in DOMAIN tables'[v] PROVE Alone(k, tables'[v][k])
      BY <2>2, <2>4, <2>5, <2>6 DEF Copied
    <2> QED
      BY <2>3, <2>6 DEF Copied
  <1>4. CASE \E w \in Worker : ReturnChunk(w)
    <2>1. PICK w \in Worker : ReturnChunk(w)
      BY <1>4
    <2>2. UNCHANGED <<tables, roi>>
      BY <2>1 DEF ReturnChunk
    <2>3. ASSUME NEW i \in DOMAIN returned', IsRead(files[i])
          PROVE  returned'[i] = Write(NewEntry, files[i].cells)
      <3>1. CASE i \in DOMAIN returned
        BY <2>1, <2>3, <3>1, ReturnedEntries DEF Copied
      <3>2. CASE i \notin DOMAIN returned
        <4>1. /\ i \in FirstOf(chunk[w])..LastOf(chunk[w])
              /\ i \in 1..Len(files)
              /\ returned'[i] = EntryOf(tables[w], files[i].key)
          BY <2>1, <3>2, ReturnedEntries
        <4>2. files[i].key \in DOMAIN tables[w]
          BY <2>1, <2>3, <4>1, ChunkMet
        <4> QED
          BY <2>3, <4>1, <4>2 DEF EntryOf, Copied, Alone
      <3> QED
        BY <3>1, <3>2
    <2> QED
      BY <2>2, <2>3 DEF Copied
  <1>5. CASE MapReturns
    BY <1>5 DEF MapReturns, Copied, Empty
  <1>6. CASE MergeResult
    <2>1. UNCHANGED <<tables, returned>>
      BY <1>6 DEF MergeResult
    <2>2. merged + 1 \in 1..Len(files) /\ merged + 1 \in DOMAIN returned
      BY <1>6 DEF MergeResult, Typed, Ready
    <2>3. ASSUME IsReached(files[merged + 1])
          PROVE  Alone(files[merged + 1].key, returned[merged + 1])
      <3>1. IsRead(files[merged + 1])
        BY <2>3 DEF IsRead, IsReached
      <3>2. returned[merged + 1] = Write(NewEntry, files[merged + 1].cells)
        BY <2>2, <3>1 DEF Copied
      <3> QED
        BY <2>2, <3>1, <3>2, <1>d DEF Alone, CopiesOnly
    <2>4. ASSUME NEW k \in DOMAIN roi' PROVE Alone(k, roi'[k])
      BY <1>6, <2>3, <2>4 DEF MergeResult, Put, Copied, IsReached
    <2> QED
      BY <2>1, <2>4 DEF Copied
  <1>7. CASE MergeEnds
    BY <1>7 DEF MergeEnds, Nobody, Copied
  <1> QED
    BY <1>2, <1>3, <1>4, <1>5, <1>6, <1>7
    DEF PoolNext, ParentStep, WorkerStep, poolVars, TakeChunk, ParseRaises

\* Every step keeps Merged: the table has the keys of the results merged so far, and at the end of all.
LEMMA MergedNext ==
    ASSUME Typed, Merged, Whole, [PoolNext]_poolVars
    PROVE  Merged' /\ Whole'
  <1>0. files' = files
    BY FilesStay
  <1>1. CASE UNCHANGED <<roi, merged, pool>>
    BY <1>0, <1>1 DEF Merged, Whole, IsReached
  <1>2. CASE MapReturns
    BY <1>0, <1>2 DEF MapReturns, Merged, Whole, IsReached
  <1>3. CASE MergeResult
    <2> DEFINE r == files[merged + 1]
    <2>1. merged' = merged + 1 /\ merged \in Nat /\ pool' = "merging"
      BY <1>3 DEF MergeResult, Typed
    <2>2. CASE IsReached(r)
      <3>1. DOMAIN roi' = DOMAIN roi \union {r.key}
        BY <1>3, <2>2 DEF MergeResult, IsReached, Put
      <3> QED
        BY <1>0, <2>1, <2>2, <3>1 DEF Merged, Whole
    <2>3. CASE ~ IsReached(r)
      <3>1. roi' = roi
        BY <1>3, <2>3 DEF MergeResult, IsReached
      <3> QED
        BY <1>0, <2>1, <2>3, <3>1 DEF Merged, Whole
    <2> QED
      BY <2>2, <2>3
  <1>4. CASE MergeEnds
    BY <1>0, <1>4 DEF MergeEnds, Merged, Whole, IsReached
  <1> QED
    BY <1>1, <1>2, <1>3, <1>4
    DEF PoolNext, ParentStep, WorkerStep, poolVars, TakeChunk, ParseReport, ParseRaises, ReturnChunk

-----------------------------------------------------------------------------
(* The theorems.                                                           *)

IInv == Typed /\ Accounted /\ Ready /\ Sourced /\ Met /\ Copied /\ Merged /\ Whole

\* The pool starts in the invariant.
LEMMA IInvInit == ASSUME PoolInit(Seq(Reading)) PROVE IInv
  <1>1. Typed
    BY TypedInit
  <1>2. /\ handed = 0 /\ pool = "open" /\ merged = 0
        /\ \A w \in Worker : chunk[w] = 0 /\ DOMAIN tables[w] = {}
        /\ DOMAIN returned = {} /\ DOMAIN roi = {}
    BY DEF PoolInit, Empty, Nobody
  <1>3. Accounted /\ Ready /\ Whole
    BY <1>2 DEF Accounted, Ready, Whole
  <1>4. Sourced /\ Met /\ Copied
    BY <1>2 DEF Sourced, Met, Copied
  <1>5. Merged
    BY <1>2 DEF Merged
  <1> QED
    BY <1>1, <1>3, <1>4, <1>5 DEF IInv

\* The invariant of the pool holds in every state, for any number of workers and any chunks.
LEMMA Invariance == PoolSpec => []IInv
  <1>1. PoolInit(Seq(Reading)) => IInv
    BY IInvInit
  <1>2. IInv /\ [PoolNext]_poolVars => IInv'
    BY TypedNext, AccountedNext, ReadyNext, SourcedNext, MetNext, CopiedNext, MergedNext DEF IInv
  <1> QED
    BY <1>1, <1>2, PTL DEF PoolSpec

\* parse_origin_results mixes no two reports up: for every listing, every
\* number of workers and every size of the chunks, a cell of the merged table
\* was read from a report of its own trace and prefetcher.
THEOREM PoolMixesNothingUp == PoolSpec => []NoCrossTalk
  <1>1. IInv => NoCrossTalk
    BY DEF IInv, Sourced, From, NoCrossTalk, Typed
  <1> QED
    BY <1>1, Invariance, PTL

\* When the reports of one trace and prefetcher are copies of one file, as
\* those of the baseline directory are, parse_origin_results has the table
\* of a sequential loop over the listing, whatever the pool did.
THEOREM PoolIsSequential == PoolSpec => []SameAsSequential
  <1>1. IInv => SameAsSequential
    <2> SUFFICES ASSUME IInv, pool = "done", CopiesOnly
                 PROVE  /\ DOMAIN roi = {files[i].key : i \in {j \in DOMAIN files : IsReached(files[j])}}
                        /\ \A i \in DOMAIN files :
                            IsReached(files[i]) => roi[files[i].key] = Write(NewEntry, files[i].cells)
      BY DEF SameAsSequential
    <2>1. merged = Len(files) /\ DOMAIN files = 1..Len(files)
      BY DEF IInv, Whole, Typed
    <2>2. DOMAIN roi = {files[i].key : i \in {j \in DOMAIN files : IsReached(files[j])}}
      BY <2>1 DEF IInv, Merged
    <2>3. ASSUME NEW i \in DOMAIN files, IsReached(files[i])
          PROVE  roi[files[i].key] = Write(NewEntry, files[i].cells)
      <3>1. files[i].key \in DOMAIN roi /\ IsRead(files[i])
        BY <2>2, <2>3 DEF IsReached, IsRead
      <3> QED
        BY <2>1, <3>1 DEF IInv, Copied, Alone
    <2> QED
      BY <2>2, <2>3
  <1> QED
    BY <1>1, Invariance, PTL
-----------------------------------------------------------------------------
(* The evaluation around the pool.                                         *)

\* The pool steps of an evaluation are the pool's, and no other step of it
\* touches the pool.
LEMMA PoolSteps == ASSUME [Next]_vars PROVE [PoolNext]_poolVars
  <1>1. CASE ParentParses
    BY <1>1 DEF ParentParses, PoolNext
  <1>2. ASSUME NEW w \in Worker, WorkerParses(w) PROVE [PoolNext]_poolVars
    BY <1>2 DEF WorkerParses, PoolNext
  <1>3. CASE ParseDies
    BY <1>3 DEF ParseDies, Die
  <1>4. CASE FinalRaises
    BY <1>4 DEF FinalRaises, Die
  <1>5. CASE cal_final_results
    BY <1>5 DEF cal_final_results
  <1>6. CASE Record
    BY <1>6 DEF Record, OpenFigs, WriteLine, OpenResults, WriteRows, Finish
  <1>7. CASE RecordRaises
    BY <1>7 DEF RecordRaises, MergeRaises, LineRaises, Die
  <1>8. CASE UNCHANGED vars
    BY <1>8 DEF vars
  <1> QED
    BY <1>1, <1>2, <1>3, <1>4, <1>5, <1>6, <1>7, <1>8 DEF Next, Main

\* An evaluation's pool is a pool.
LEMMA PoolOfEvaluation == Spec => PoolSpec
  <1>1. Init => PoolInit(Seq(Reading))
    <2> SUFFICES ASSUME Init PROVE PoolInit(Seq(Reading))
      OBVIOUS
    <2>1. script \in Scripts /\ PoolInit(Listings(script))
      BY DEF Init
    <2>2. files \in Seq(Reading)
      BY <2>1, ListingsAssumption DEF PoolInit
    <2> QED
      BY <2>1, <2>2 DEF PoolInit
  <1> QED
    BY <1>1, PoolSteps, PTL DEF Spec, PoolSpec

\* In every evaluation, whatever its script and the reports it finds, a cell
\* of the merged table was written by a report of its own key.
THEOREM EvaluationMixesNothingUp == Spec => []NoCrossTalk
  BY PoolOfEvaluation, PoolMixesNothingUp, PTL

\* ... and the merged table is the one of a sequential loop.
THEOREM EvaluationIsSequential == Spec => []SameAsSequential
  BY PoolOfEvaluation, PoolIsSequential, PTL

-----------------------------------------------------------------------------
(* The two CSV files                                                       *)

IsList(s) == \E S : s \in Seq(S)

\* A list and the one that is longer by an element
LEMMA AppendLonger ==
    ASSUME NEW s, NEW e, IsList(s)
    PROVE  Len(s) \in Nat /\ IsList(Append(s, e)) /\ Len(Append(s, e)) = Len(s) + 1
  <1>1. PICK S : s \in Seq(S)
    BY DEF IsList
  <1>2. s \in Seq(S \union {e})
    <2>1. Len(s) \in Nat /\ s \in [1..Len(s) -> S]
      BY <1>1
    <2>2. s \in [1..Len(s) -> S \union {e}]
      BY <2>1
    <2> QED
      BY <2>1, <2>2
  <1>3. Append(s, e) \in Seq(S \union {e})
    BY <1>2
  <1> QED
    BY <1>1, <1>2, <1>3 DEF IsList

\* The lists of a configuration are lists.
LEMMA ConfigurationLists == output_workloads \in Seq(STRING) /\ output_prefetchers \in Seq(STRING) \ {<<>>}
  BY ConfigurationAssumption, Zenon

\* There are lines to write: 'Average' has one, the last.
LEMMA LinesToWrite ==
    ASSUME NEW kind, NEW table, HasFigsLine(kind, table, "Average")
    PROVE  /\ Len(WithLine(kind, table)) \in Nat \ {0}
           /\ WithLine(kind, table)[Len(WithLine(kind, table))] = "Average"
           /\ ToSet(WithLine(kind, table)) = {w \in ToSet(Workloads) : HasFigsLine(kind, table, w)}
  <1> DEFINE M == {w \in ToSet(Workloads) : HasFigsLine(kind, table, w)}
  <1>1. PICK S : Workloads \in Seq(S) /\ Len(Workloads) > 0 /\ Workloads[Len(Workloads)] = "Average"
    <2> DEFINE S == STRING \union {"Average"}
    <2>1. output_workloads \in Seq(S) /\ "Average" \in S
      BY ConfigurationLists
    <2> HIDE DEF S
    <2>2. output_workloads \o <<"Average">> \in Seq(S)
          /\ Len(output_workloads \o <<"Average">>) = Len(output_workloads) + 1
          /\ (output_workloads \o <<"Average">>)[Len(output_workloads \o <<"Average">>)] = "Average"
      BY <2>1, LastAdded, Zenon
    <2>3. Len(output_workloads) \in Nat
      BY <2>1
    <2> QED
      BY <2>2, <2>3 DEF Workloads
  <1>2. "Average" \in M
    BY <1>1 DEF ToSet
  <1> HIDE DEF M
  <1>3. /\ ToSet(Subsequence(Workloads, M)) = ToSet(Workloads) \intersect M
        /\ Len(Subsequence(Workloads, M)) \in Nat \ {0}
        /\ Subsequence(Workloads, M)[Len(Subsequence(Workloads, M))] = "Average"
    BY <1>1, <1>2, SubsequenceIs, Zenon
  <1>4. ToSet(Workloads) \intersect M = M
    BY DEF M
  <1> QED
    BY <1>3, <1>4 DEF WithLine, M

\* A file of this run that is being written, and how far it is
Growing(file, lines) ==
    /\ DOMAIN file = {"run", "lines"} /\ file.run = "this" /\ IsList(file.lines)
    /\ Len(file.lines) <= lines

\* What the process has written by each stage
Written ==
    /\ stage \in {"parse", "final", "figs", "results", "done", "died"}
    /\ stage \in {"parse", "final"} => figs = OldFile
    /\ stage \in {"parse", "final", "figs"} => results = OldFile
    /\ stage \in {"final", "figs", "results"} => HasFigsLine(script.record, stats, "Average")
    /\ stage \in {"figs", "results"} => Growing(figs, Len(FigsLines))
    /\ stage = "results" => /\ Len(figs.lines) = Len(FigsLines)
                            /\ Growing(results, Len(output_prefetchers))

\* A new file has no line, and one more line makes it a line longer.
LEMMA FileGrows ==
    ASSUME NEW lines \in Nat \ {0}
    PROVE  /\ Growing(NewFile, lines) /\ Extent(NewFile, lines) = "part"
           /\ \A file, name, cells :
                 Growing(file, lines) /\ Len(file.lines) < lines =>
                    /\ Growing(AppendTo(file, name, cells), lines)
                    /\ Extent(file, lines) = "part"
                    /\ Extent(AppendTo(file, name, cells), lines) \in {"part", "whole"}
  <1>1. NewFile.run = "this" /\ NewFile.lines = <<>> /\ DOMAIN NewFile = {"run", "lines"}
    BY DEF NewFile
  <1>2. IsList(<<>>) /\ Len(<<>>) = 0
    BY DEF IsList
  <1>3. ASSUME NEW file, NEW name, NEW cells, Growing(file, lines), Len(file.lines) < lines
        PROVE  /\ Growing(AppendTo(file, name, cells), lines)
               /\ Extent(file, lines) = "part"
               /\ Extent(AppendTo(file, name, cells), lines) \in {"part", "whole"}
    <2> DEFINE more == Append(file.lines, <<name, cells>>)
               longer == AppendTo(file, name, cells)
    <2>1. longer.run = file.run /\ longer.lines = more /\ DOMAIN longer = DOMAIN file
      BY <1>3 DEF AppendTo, Growing
    <2>2. Len(file.lines) \in Nat /\ IsList(more) /\ Len(more) = Len(file.lines) + 1
      BY <1>3, AppendLonger DEF Growing
    <2> HIDE DEF more, longer
    <2>3. Growing(longer, lines)
      BY <1>3, <2>1, <2>2 DEF Growing
    <2>4. Extent(longer, lines) \in {"part", "whole"}
      BY <1>3, <2>1 DEF Extent, Growing
    <2>5. Extent(file, lines) = "part"
      BY <1>3, <2>2 DEF Extent, Growing
    <2> QED
      BY <2>3, <2>4, <2>5 DEF longer
  <1>4. Growing(NewFile, lines) /\ Extent(NewFile, lines) = "part"
    BY <1>1, <1>2 DEF Growing, Extent
  <1> QED
    BY <1>3, <1>4

\* The phase and the files of CsvWriter
Phase == IF stage \in {"parse", "final"} THEN "run" ELSE stage
FigsExtent == Extent(figs, Len(FigsLines))
ResultsExtent == Extent(results, Len(output_prefetchers))

\* A step of the evaluation that is none of its files' is none of CsvWriter.
LEMMA OldIsOld == \A lines : Extent(OldFile, lines) = "old"
  BY DEF Extent, OldFile

\* There is a row to write.
LEMMA PrefetchersToWrite == Len(output_prefetchers) \in Nat \ {0}
  BY ConfigurationLists

\* A process that dies dies as CsvWriter does.
LEMMA DiesAsWriter ==
    ASSUME Written, Die, stage \in {"parse", "final"} \/ (stage = "figs" /\ FigsExtent = "part")
    PROVE  Written' /\ Writer!Die
  <1>1. /\ stage' = "died" /\ script' = script /\ stats' = stats /\ figs' = figs /\ results' = results
    BY DEF Die
  <1>2. FigsExtent' = FigsExtent /\ ResultsExtent' = ResultsExtent
    BY <1>1 DEF FigsExtent, ResultsExtent, FigsLines
  <1>3. Written'
    BY <1>1 DEF Written
  <1>4. Writer!Die
    BY <1>1, <1>2 DEF Writer!Die, FigsExtent, ResultsExtent
  <1> QED
    BY <1>3, <1>4

\* Each step keeps Written and is a step of CsvWriter or none of its.
LEMMA StepsAsWriter ==
    ASSUME Written, [Next]_vars
    PROVE  Written' /\ [Writer!Next]_(Writer!vars)
  <1> DEFINE Stutters == Phase' = Phase /\ FigsExtent' = FigsExtent /\ ResultsExtent' = ResultsExtent
  <1>1. Stutters => [Writer!Next]_(Writer!vars)
    BY DEF Phase, FigsExtent, ResultsExtent, Writer!vars
  <1>2. UNCHANGED evalVars => Written' /\ Stutters
    <2> SUFFICES ASSUME UNCHANGED evalVars PROVE Written' /\ Stutters
      OBVIOUS
    <2>1. /\ script' = script /\ stage' = stage /\ stats' = stats /\ figs' = figs
          /\ results' = results
      BY DEF evalVars
    <2>2. FigsLines' = FigsLines
      BY <2>1 DEF FigsLines
    <2>3. Written'
      BY <2>1, <2>2 DEF Written
    <2> QED
      BY <2>1, <2>2, <2>3 DEF Phase, FigsExtent, ResultsExtent
  <1> DEFINE Goal == Written' /\ [Writer!Next]_(Writer!vars)
  <1>3. CASE ParentParses \/ ParseDies
    <2>1. ParseDies => Goal
      BY DiesAsWriter DEF ParseDies, Writer!Next
    <2>2. ParentParses => Goal
      BY <1>1, <1>2 DEF ParentParses
    <2> QED
      BY <1>3, <2>1, <2>2
  <1>4. ASSUME NEW w \in Worker, WorkerParses(w) PROVE Goal
    BY <1>1, <1>2, <1>4 DEF WorkerParses
  <1>5. CASE FinalRaises
    BY <1>5, DiesAsWriter DEF FinalRaises, Writer!Next
  <1>6. CASE MergeRaises
    BY <1>6, DiesAsWriter DEF MergeRaises, Writer!Next
  <1>7. CASE cal_final_results
    <2>1. /\ stage = "parse" /\ stage' = "final" /\ figs' = figs /\ results' = results
          /\ script' = script
      BY <1>7 DEF cal_final_results
    <2>2. "Average" \in DOMAIN stats'
      <3>1. PICK means, order : stats' = WithAverage(means, order)
        BY <1>7 DEF cal_final_results
      <3>2. DOMAIN WithAverage(means, order) = DOMAIN means \union {"Average"}
        BY DEF WithAverage, Settled
      <3> QED
        BY <3>1, <3>2
    <2>3. HasFigsLine(script.record, stats, "Average")'
      BY <2>2 DEF HasFigsLine, HasPlainLine
    <2>4. figs = OldFile /\ results = OldFile
      BY <2>1 DEF Written
    <2>5. Written'
      BY <2>1, <2>3, <2>4 DEF Written
    <2>6. Stutters
      BY <2>1, <2>4, OldIsOld DEF Phase, FigsExtent, ResultsExtent
    <2> QED
      BY <1>1, <2>5, <2>6
  <1>8. CASE OpenFigs
    <2>1. /\ stage = "final" /\ stage' = "figs" /\ figs' = NewFile /\ results' = results
          /\ script' = script /\ stats' = stats /\ FigsLines' = FigsLines
      BY <1>8 DEF OpenFigs, FigsLines
    <2>2. Len(FigsLines) \in Nat \ {0}
      BY <2>1, LinesToWrite DEF Written, FigsLines
    <2>3. Growing(NewFile, Len(FigsLines)) /\ Extent(NewFile, Len(FigsLines)) = "part"
      BY <2>2, FileGrows
    <2>4. figs = OldFile /\ results = OldFile /\ HasFigsLine(script.record, stats, "Average")
      BY <2>1 DEF Written
    <2>5. Written'
      BY <2>1, <2>3, <2>4 DEF Written
    <2>6. Phase = "run" /\ Phase' = "figs" /\ FigsExtent' = "part" /\ ResultsExtent' = ResultsExtent
      BY <2>1, <2>3 DEF Phase, FigsExtent, ResultsExtent
    <2>7. Writer!OpenFigs
      BY <2>6 DEF Writer!OpenFigs, Phase, FigsExtent, ResultsExtent
    <2> QED
      BY <2>5, <2>7 DEF Writer!Next
  <1>9. CASE LineRaises \/ WriteLine
    <2>1. /\ stage = "figs" /\ Len(figs.lines) < Len(FigsLines) /\ Growing(figs, Len(FigsLines))
          /\ results = OldFile /\ HasFigsLine(script.record, stats, "Average")
      BY <1>9 DEF LineRaises, WriteLine, LinesLeft, Written
    <2>2. Len(FigsLines) \in Nat \ {0}
      BY <2>1, LinesToWrite DEF FigsLines
    <2>3. FigsExtent = "part"
      BY <2>1, <2>2, FileGrows DEF FigsExtent
    <2>4. CASE LineRaises
      BY <2>1, <2>3, <2>4, DiesAsWriter DEF LineRaises, Writer!Next
    <2>5. CASE WriteLine
      <3>1. PICK cells : figs' = AppendTo(figs, NextLine, cells)
        BY <2>5 DEF WriteLine
      <3>2. /\ script' = script /\ stage' = stage /\ stats' = stats /\ results' = results
            /\ FigsLines' = FigsLines
        BY <2>5 DEF WriteLine, FigsLines
      <3>3. /\ Growing(figs', Len(FigsLines))
            /\ Extent(figs', Len(FigsLines)) \in {"part", "whole"}
        BY <2>1, <2>2, <3>1, FileGrows
      <3>4. Written'
        BY <2>1, <3>2, <3>3 DEF Written
      <3>5. /\ Phase = "figs" /\ Phase' = Phase /\ ResultsExtent' = ResultsExtent
            /\ FigsExtent' \in {"part", "whole"}
        BY <2>1, <3>2, <3>3 DEF Phase, FigsExtent, ResultsExtent
      <3>6. CASE FigsExtent' = "part"
        BY <1>1, <2>3, <3>4, <3>5, <3>6
      <3>7. CASE FigsExtent' = "whole"
        <4>1. Writer!CloseFigs
          BY <2>3, <3>5, <3>7 DEF Writer!CloseFigs, Phase, FigsExtent, ResultsExtent
        <4> QED
          BY <3>4, <4>1 DEF Writer!Next
      <3> QED
        BY <3>5, <3>6, <3>7
    <2> QED
      BY <1>9, <2>4, <2>5
  <1>10. CASE OpenResults
    <2>1. /\ stage = "figs" /\ stage' = "results" /\ results' = NewFile /\ figs' = figs
          /\ Len(figs.lines) = Len(FigsLines)
          /\ script' = script /\ stats' = stats /\ FigsLines' = FigsLines
      BY <1>10 DEF OpenResults, FigsLines
    <2>2. /\ Growing(figs, Len(FigsLines)) /\ HasFigsLine(script.record, stats, "Average")
      BY <2>1 DEF Written
    <2>3. /\ Growing(NewFile, Len(output_prefetchers))
          /\ Extent(NewFile, Len(output_prefetchers)) = "part"
      BY PrefetchersToWrite, FileGrows
    <2>4. Written'
      BY <2>1, <2>2, <2>3 DEF Written
    <2>5. FigsExtent = "whole"
      BY <2>1, <2>2 DEF FigsExtent, Extent, Growing
    <2>6. /\ Phase = "figs" /\ Phase' = "results" /\ FigsExtent' = FigsExtent
          /\ ResultsExtent' = "part"
      BY <2>1, <2>3 DEF Phase, FigsExtent, ResultsExtent
    <2>7. Writer!OpenResults
      BY <2>5, <2>6 DEF Writer!OpenResults, Phase, FigsExtent, ResultsExtent
    <2> QED
      BY <2>4, <2>7 DEF Writer!Next
  <1>11. CASE WriteRows
    <2>1. /\ stage = "results" /\ Len(results.lines) < Len(output_prefetchers)
          /\ Growing(results, Len(output_prefetchers)) /\ Growing(figs, Len(FigsLines))
          /\ Len(figs.lines) = Len(FigsLines) /\ HasFigsLine(script.record, stats, "Average")
      BY <1>11 DEF WriteRows, RowsLeft, Written
    <2>2. PICK cells : results' = AppendTo(results, NextPrefetcher, cells)
      BY <1>11 DEF WriteRows
    <2>3. /\ script' = script /\ stage' = stage /\ stats' = stats /\ figs' = figs
          /\ FigsLines' = FigsLines
      BY <1>11 DEF WriteRows, FigsLines
    <2>4. /\ Growing(results', Len(output_prefetchers)) /\ ResultsExtent = "part"
          /\ ResultsExtent' \in {"part", "whole"}
      BY <2>1, <2>2, PrefetchersToWrite, FileGrows DEF ResultsExtent
    <2>5. Written'
      BY <2>1, <2>3, <2>4 DEF Written
    <2>6. Phase = "results" /\ Phase' = Phase /\ FigsExtent' = FigsExtent
      BY <2>1, <2>3 DEF Phase, FigsExtent
    <2>7. CASE ResultsExtent' = "part"
      BY <1>1, <2>4, <2>5, <2>6, <2>7
    <2>8. CASE ResultsExtent' = "whole"
      <3>1. Writer!CloseResults
        BY <2>4, <2>6, <2>8 DEF Writer!CloseResults, Phase, FigsExtent, ResultsExtent
      <3> QED
        BY <2>5, <3>1 DEF Writer!Next
    <2> QED
      BY <2>4, <2>7, <2>8
  <1>12. CASE Finish
    <2>1. /\ stage = "results" /\ stage' = "done" /\ results' = results /\ figs' = figs
          /\ Len(results.lines) = Len(output_prefetchers)
          /\ FigsLines' = FigsLines
      BY <1>12 DEF Finish, FigsLines
    <2>2. ResultsExtent = "whole"
      BY <2>1 DEF ResultsExtent, Extent, Written, Growing
    <2>3. /\ Phase = "results" /\ Phase' = "done" /\ FigsExtent' = FigsExtent
          /\ ResultsExtent' = ResultsExtent
      BY <2>1 DEF Phase, FigsExtent, ResultsExtent
    <2>4. Writer!Finish
      BY <2>2, <2>3 DEF Writer!Finish, Phase, FigsExtent, ResultsExtent
    <2>5. Written'
      BY <2>1 DEF Written
    <2> QED
      BY <2>4, <2>5 DEF Writer!Next
  <1>13. CASE UNCHANGED vars
    BY <1>1, <1>2, <1>13 DEF vars
  <1> QED
    BY <1>3, <1>4, <1>5, <1>6, <1>7, <1>8, <1>9, <1>10, <1>11, <1>12, <1>13
    DEF Next, Main, Record, RecordRaises

\* An evaluation process treats its two files as CsvWriter says, but for the
\* end it comes to (which WritesCsvs adds): whatever the reports hold, the
\* figures' CSV is whole before the results' CSV is opened, and a process that
\* dies leaves the results' CSV of an earlier run as it was.
THEOREM EvaluationWritesInOrder == Spec => Writer!Init /\ [][Writer!Next]_(Writer!vars)
  <1>1. Init => Written /\ Writer!Init
    <2> SUFFICES ASSUME Init PROVE Written /\ Writer!Init
      OBVIOUS
    <2>1. stage = "parse" /\ figs = OldFile /\ results = OldFile
      BY DEF Init
    <2> QED
      BY <2>1, OldIsOld DEF Written, Writer!Init
  <1>2. Written /\ [Next]_vars => Written' /\ [Writer!Next]_(Writer!vars)
    BY StepsAsWriter
  <1> QED
    BY <1>1, <1>2, PTL DEF Spec

\* the rows are the keys of the merged table, each once
Listed == rows \in Seq(Key) /\ Distinct(rows) /\ ToSet(rows) = DOMAIN roi

\* The pool inserts a key the first time it is merged.
LEMMA ListedInit == ASSUME PoolInit(Seq(Reading)) PROVE Listed
  <1>1. rows = <<>> /\ DOMAIN roi = {}
    BY DEF PoolInit, Empty
  <1>2. rows \in Seq(Key)
    BY <1>1
  <1> QED
    BY <1>1, <1>2, EmptyIs DEF Listed

\* Every step of the pool keeps the order of the keys a list without repetitions.
LEMMA ListedNext == ASSUME Typed, Listed, [PoolNext]_poolVars PROVE Listed'
  <1>1. CASE UNCHANGED <<roi, rows>>
    BY <1>1 DEF Listed, Distinct, ToSet
  <1>2. CASE MergeResult
    <2> DEFINE r == files[merged + 1]
    <2>1. r \in Reading /\ r.key \in Key
      BY <1>2, ReadingAssumption DEF MergeResult, Typed
    <2>2. CASE r.kind # "reached"
      BY <1>1, <1>2, <2>2 DEF MergeResult
    <2>3. CASE r.kind = "reached"
      <3>1. /\ roi' = Put(roi, r.key, returned[merged + 1])
            /\ rows' = IF r.key \in DOMAIN roi THEN rows ELSE Append(rows, r.key)
        BY <1>2, <2>3 DEF MergeResult
      <3>2. DOMAIN roi' = DOMAIN roi \union {r.key}
        BY <3>1 DEF Put
      <3>3. PICK k \in Key : k = r.key
        BY <2>1
      <3> HIDE DEF r
      <3>4. CASE k \in DOMAIN roi
        <4>1. rows' = rows /\ DOMAIN roi' = DOMAIN roi
          BY <3>1, <3>2, <3>3, <3>4
        <4> QED
          BY <4>1 DEF Listed, Distinct, ToSet
      <3>5. CASE k \notin DOMAIN roi
        <4>1. PICK s : s = rows
          OBVIOUS
        <4>2. /\ Append(s, k) \in Seq(Key)
              /\ ToSet(Append(s, k)) = ToSet(s) \union {k}
              /\ Distinct(s) /\ k \notin ToSet(s) => Distinct(Append(s, k))
          BY <4>1, AppendIs DEF Listed
        <4>3. rows' = Append(s, k)
          BY <3>1, <3>3, <3>5, <4>1
        <4>4. rows' \in Seq(Key) /\ ToSet(rows)' = DOMAIN roi' /\ Distinct(rows)'
          BY <3>2, <3>3, <3>5, <4>1, <4>2, <4>3 DEF Listed, ToSet, Distinct
        <4> QED
          BY <4>4 DEF Listed
      <3> QED
        BY <3>4, <3>5
    <2> QED
      BY <2>2, <2>3
  <1> QED
    BY <1>1, <1>2
    DEF PoolNext, ParentStep, WorkerStep, poolVars, MapReturns, MergeEnds, TakeChunk, ParseReport, ParseRaises, ReturnChunk

\* A list without repetitions is as long as its set.
LEMMA DistinctLength ==
    ASSUME NEW S, NEW s \in Seq(S), Distinct(s)
    PROVE  IsFiniteSet(ToSet(s)) /\ Cardinality(ToSet(s)) = Len(s)
  <1> DEFINE D == 1..Len(s)
             T == ToSet(s)
  <1>1. Len(s) \in Nat /\ DOMAIN s = D /\ s \in [D -> S]
    OBVIOUS
  <1>2. IsFiniteSet(D) /\ Cardinality(D) = Len(s)
    BY <1>1, FS_Interval
  <1>3. s \in [D -> T]
    BY <1>1 DEF ToSet
  <1>4. \A t \in T : \E i \in D : s[i] = t
    BY <1>1 DEF ToSet
  <1>5. \A i, j \in D : s[i] = s[j] => i = j
    BY DEF Distinct
  <1>6. s \in Injection(D, T) /\ s \in Surjection(D, T)
    BY <1>1, <1>3, <1>4, <1>5 DEF Injection, Surjection, IsInjective
  <1> HIDE DEF D, T
  <1>7. IsFiniteSet(T) /\ Cardinality(T) = Cardinality(D)
    BY <1>2, <1>6, FS_Surjection
  <1> QED
    BY <1>2, <1>7 DEF T

\* The traces in the order of their first rows (TraceOrder).
LEMMA TracesAre ==
    ASSUME NEW r \in Seq(Key)
    PROVE  /\ TraceOrder(r) \in Seq(STRING)
           /\ ToSet(TraceOrder(r)) = TracesOf(r)
           /\ Distinct(TraceOrder(r))
           /\ TracesOf(r) = {k[1] : k \in ToSet(r)}
           /\ Len(TraceOrder(r)) = Cardinality(TracesOf(r))
  <1>1. PICK u : u = [i \in DOMAIN r |-> r[i][1]]
    OBVIOUS
  <1>2. /\ DOMAIN r = 1..Len(r) /\ Len(r) \in Nat
        /\ \A i \in 1..Len(r) : r[i] \in Key
    OBVIOUS
  <1>3. \A i \in 1..Len(r) : r[i][1] \in STRING
    BY <1>2, KeyAssumption
  <1>4. u \in Seq(STRING) /\ Len(u) = Len(r)
    BY <1>1, <1>2, <1>3
  <1>5. ToSet(u) = TracesOf(r)
    BY <1>1, <1>2 DEF ToSet, TracesOf
  <1>6. TracesOf(r) = {k[1] : k \in ToSet(r)}
    BY <1>2 DEF ToSet, TracesOf
  <1>7. /\ FirstOnly(u) \in Seq(STRING)
        /\ ToSet(FirstOnly(u)) = ToSet(u)
        /\ Distinct(FirstOnly(u))
    BY <1>4, FirstOnlyIs
  <1>8. TraceOrder(r) = FirstOnly(u)
    BY <1>1 DEF TraceOrder
  <1>9. Cardinality(ToSet(FirstOnly(u))) = Len(FirstOnly(u))
    BY <1>7, DistinctLength
  <1> QED
    BY <1>5, <1>6, <1>7, <1>8, <1>9

\* The prefetchers of a trace, each once (PrefetchersOf).
LEMMA PrefetchersAre ==
    ASSUME NEW r \in Seq(Key), Distinct(r), NEW t
    PROVE  /\ PrefetchersOf(r, t) \in Seq(STRING)
           /\ Distinct(PrefetchersOf(r, t))
           /\ \A p : p \in ToSet(PrefetchersOf(r, t)) <=> <<t, p>> \in ToSet(r)
  <1>1. PICK M : M = {k \in ToSet(r) : k[1] = t}
    OBVIOUS
  <1>2. PICK mine : mine = Subsequence(r, M)
    OBVIOUS
  <1>3. /\ mine \in Seq(Key)
        /\ ToSet(mine) = ToSet(r) \intersect M
        /\ Distinct(mine)
    BY <1>2, SubsequenceIs
  <1>4. PICK o : o = [i \in DOMAIN mine |-> mine[i][2]]
    OBVIOUS
  <1>5. o = PrefetchersOf(r, t)
    BY <1>1, <1>2, <1>4 DEF PrefetchersOf
  <1>6. /\ DOMAIN mine = 1..Len(mine) /\ Len(mine) \in Nat
        /\ \A i \in 1..Len(mine) : mine[i] \in Key
    BY <1>3
  <1>7. \A i \in 1..Len(mine) : mine[i] \in ToSet(mine)
    BY <1>6 DEF ToSet
  <1>8. \A i \in 1..Len(mine) : mine[i][1] = t /\ mine[i][2] \in STRING /\ mine[i] = <<t, mine[i][2]>>
    BY <1>1, <1>3, <1>6, <1>7, KeyAssumption
  <1>9. o \in Seq(STRING) /\ Len(o) = Len(mine) /\ DOMAIN o = 1..Len(mine)
    BY <1>4, <1>6, <1>8
  <1>10. \A i \in 1..Len(mine) : o[i] = mine[i][2]
    BY <1>4, <1>6
  <1>11. Distinct(o)
    <2> SUFFICES ASSUME NEW i \in 1..Len(mine), NEW j \in 1..Len(mine), o[i] = o[j] PROVE i = j
      BY <1>9 DEF Distinct
    <2>1. mine[i] = mine[j]
      BY <1>8, <1>10
    <2> QED
      BY <1>3, <2>1 DEF Distinct
  <1>12. ASSUME NEW p \in ToSet(o) PROVE <<t, p>> \in ToSet(r)
    <2>1. PICK i \in 1..Len(mine) : p = o[i]
      BY <1>9 DEF ToSet
    <2>2. mine[i] = <<t, p>>
      BY <1>8, <1>10, <2>1
    <2> QED
      BY <1>3, <1>7, <2>2
  <1>13. ASSUME NEW p, <<t, p>> \in ToSet(r) PROVE p \in ToSet(o)
    <2>1. <<t, p>> \in ToSet(mine)
      BY <1>1, <1>3, <1>13
    <2>2. PICK i \in 1..Len(mine) : <<t, p>> = mine[i]
      BY <1>6, <2>1 DEF ToSet
    <2>3. o[i] = p
      BY <1>10, <2>2
    <2> QED
      BY <1>9, <2>3 DEF ToSet
  <1> QED
    BY <1>5, <1>9, <1>11, <1>12, <1>13

\* What a report holds is a cell of the tables.
LEMMA ReadingsGood == Value \subseteq Good /\ Cell = Fields \X Cores /\ [Cell -> Value] \subseteq Entries
  <1>1. ASSUME NEW v \in Value \ {Dash} PROVE v \in Numbers
    <2>1. v \in Cells /\ IsNum(v) /\ v.r = 1 /\ v = Quotient(v.n, v.d)
      BY <1>1, CellsAssumption DEF Plain
    <2>2. PICK n \in Int, d \in Int : n = v.n /\ d = v.d /\ d # 0
      BY <2>1 DEF Cells, IsNum
    <2> QED
      BY <2>1, <2>2, QuotientNumber
  <1>2. Value \subseteq Good
    BY <1>1 DEF Good
  <1> QED
    BY <1>2, CellsAssumption DEF Entries

\* A trace whose baseline was found has a table cal_final_results can read.
LEMMA TableOfTrace ==
    ASSUME Listed, Sourced, HasBaseline(rows), NEW t \in TracesOf(rows),
           NEW order, ToSet(order) = ToSet(PrefetchersOf(rows, t))
    PROVE  LET P == ToSet(PrefetchersOf(rows, t))
           IN  "no" \in P /\ TraceTable(roi, order, t) \in Tables(P)
  <1> DEFINE P == ToSet(PrefetchersOf(rows, t))
  <1>1. \A p : p \in P <=> <<t, p>> \in DOMAIN roi
    <2>1. PICK r : r = rows
      OBVIOUS
    <2>2. r \in Seq(Key) /\ Distinct(r)
      BY <2>1 DEF Listed
    <2>3. \A p : p \in ToSet(PrefetchersOf(r, t)) <=> <<t, p>> \in ToSet(r)
      BY <2>2, PrefetchersAre
    <2> QED
      BY <2>1, <2>3 DEF Listed
  <1>2. "no" \in P
    BY <1>1 DEF HasBaseline, Listed
  <1>3. \A p \in P : roi[<<t, p>>] \in Entries
    BY <1>1, ReadingsGood DEF Sourced, From
  <1>4. TraceTable(roi, order, t) = [p \in P |-> roi[<<t, p>>]]
    <2> DEFINE f == [p \in ToSet(order) |-> roi[<<t, p>>]]
    <2>1. Settled(f) = f
      BY SettledIs
    <2> QED
      BY <2>1 DEF TraceTable
  <1> QED
    BY <1>2, <1>3, <1>4 DEF Tables

-----------------------------------------------------------------------------
(* What an evaluation has computed, and what its files hold.               *)

\* The table of the rows, as cal_final_results computes it
FinalTable == RowsOf(script.final, roi, rows)

\* From cal_final_results on, the table is that of the merged reports
Computed ==
    stage \in {"final", "figs", "results", "done"} =>
        /\ pool = "done" /\ HasBaseline(rows)
        /\ Computes(FinalTable)
        /\ stats = WithAverage(CoreMeans(FinalTable), AverageTraces)

\* The lines and the rows the files are to hold
LineFor(w) == FigsLine(script.record, stats, Keys, w)
RowFor(p) == ResultRow(script.record, stats, Keys, p)

Filled ==
    /\ results.run = "this" => stage \in {"results", "done"}
    /\ stage \in {"figs", "results", "done"} =>
        /\ figs.run = "this"
        /\ \A k \in DOMAIN figs.lines :
            LineFor(FigsLines[k])[1] /\ figs.lines[k] = <<FigsLines[k], LineFor(FigsLines[k])[2]>>
    /\ stage \in {"results", "done"} =>
        /\ HasFigsLine(script.record, stats, "Average")
        /\ Len(figs.lines) = Len(FigsLines) /\ DOMAIN figs.lines = 1..Len(figs.lines)
        /\ \A k \in DOMAIN results.lines :
            /\ k \in 1..Len(output_prefetchers)
            /\ results.lines[k] = <<output_prefetchers[k], RowFor(output_prefetchers[k])>>

\* An evaluation goes on with what it has merged and computed.
LEMMA ComputedNext == ASSUME Computed, [Next]_vars PROVE Computed'
  <1> DEFINE Later == stage \in {"final", "figs", "results", "done"}
             Same == script' = script /\ roi' = roi /\ rows' = rows /\ stats' = stats /\ pool' = pool
  <1>1. CASE stage' \notin {"final", "figs", "results", "done"}
    BY <1>1 DEF Computed
  <1>2. CASE Later /\ Same
    <2>1. FinalTable' = FinalTable /\ Computes(FinalTable)' = Computes(FinalTable) /\ AverageTraces' = AverageTraces
      BY <1>2 DEF FinalTable, Computes, AverageTraces
    <2> QED
      BY <1>2, <2>1 DEF Computed
  <1>3. CASE cal_final_results
    <2>1. pool = "done" /\ pool' = "done" /\ script' = script /\ roi' = roi /\ rows' = rows /\ HasBaseline(rows)
      BY <1>3 DEF cal_final_results, poolVars
    <2>2. FinalTable' = FinalTable /\ AverageTraces' = AverageTraces /\ Computes(FinalTable)' = Computes(FinalTable)
      BY <2>1 DEF FinalTable, AverageTraces, Computes
    <2>3. \E table \in {FinalTable} :
            /\ Computes(table)
            /\ \E means \in {CoreMeans(table)}, order \in {AverageTraces} :
                \E all \in {WithAverage(means, order)} : stats' = all
      BY <1>3 DEF cal_final_results, FinalTable
    <2>4. Computes(FinalTable) /\ stats' = WithAverage(CoreMeans(FinalTable), AverageTraces)
      BY <2>3, Zenon
    <2>5. HasBaseline(rows)'
      BY <2>1
    <2>6. (stats = WithAverage(CoreMeans(FinalTable), AverageTraces))'
      BY <2>2, <2>4
    <2> QED
      BY <2>1, <2>2, <2>4, <2>5, <2>6 DEF Computed
  <1>4. CASE ParentParses \/ ParseDies \/ FinalRaises \/ RecordRaises
    BY <1>1, <1>4 DEF ParentParses, ParseDies, FinalRaises, RecordRaises, MergeRaises, LineRaises, Die, evalVars
  <1>5. ASSUME NEW w \in Worker, WorkerParses(w) PROVE Computed'
    BY <1>1, <1>5 DEF WorkerParses, evalVars
  <1>6. CASE Record
    <2>1. Same
      BY <1>6 DEF Record, OpenFigs, WriteLine, OpenResults, WriteRows, Finish, poolVars
    <2>2. Later
      BY <1>6 DEF Record, OpenFigs, WriteLine, LinesLeft, OpenResults, WriteRows, RowsLeft, Finish
    <2> QED
      BY <1>2, <2>1, <2>2
  <1>7. CASE UNCHANGED vars
    BY <1>1, <1>2, <1>7 DEF vars, poolVars, evalVars
  <1> QED
    BY <1>3, <1>4, <1>5, <1>6, <1>7 DEF Next, Main

\* A list that is longer by an element
LEMMA AppendPlaces ==
    ASSUME NEW s, NEW e, IsList(s)
    PROVE  /\ Len(s) \in Nat /\ DOMAIN s = 1..Len(s) /\ DOMAIN Append(s, e) = 1..(Len(s) + 1)
           /\ Append(s, e)[Len(s) + 1] = e
           /\ \A k \in 1..Len(s) : Append(s, e)[k] = s[k]
           /\ \A k \in 1..(Len(s) + 1) : k = Len(s) + 1 \/ k \in 1..Len(s)
  <1>1. PICK S : s \in Seq(S)
    BY DEF IsList
  <1>2. s \in Seq(S \union {e}) /\ e \in S \union {e}
    <2>1. Len(s) \in Nat /\ s \in [1..Len(s) -> S]
      BY <1>1
    <2>2. s \in [1..Len(s) -> S \union {e}]
      BY <2>1
    <2> QED
      BY <2>1, <2>2
  <1> DEFINE T == S \union {e}
  <1> HIDE DEF T
  <1>3. s \in Seq(T) /\ e \in T
    BY <1>2 DEF T
  <1>4. DOMAIN s = 1..Len(s) /\ DOMAIN Append(s, e) = 1..Len(Append(s, e))
    BY <1>3
  <1>5. /\ Len(s) \in Nat /\ Len(Append(s, e)) = Len(s) + 1
        /\ Append(s, e)[Len(s) + 1] = e
        /\ \A i \in 1..Len(s) : Append(s, e)[i] = s[i]
    BY <1>3, AppendIs
  <1>6. \A k \in 1..(Len(s) + 1) : k = Len(s) + 1 \/ k \in 1..Len(s)
    BY <1>5
  <1> QED
    BY <1>4, <1>5, <1>6

\* Every step of the recorder fills the two files line by line, with the rows of its table.
LEMMA FilledNext ==
    ASSUME Written, Filled, [Next]_vars
    PROVE  Filled'
  <1> DEFINE Same == script' = script /\ rows' = rows /\ stats' = stats
  <1>1. ASSUME Same PROVE /\ FigsLines' = FigsLines
                          /\ \A w : LineFor(w)' = LineFor(w)
                          /\ \A p : RowFor(p)' = RowFor(p)
                          /\ HasFigsLine(script.record, stats, "Average")' = HasFigsLine(script.record, stats, "Average")
    BY <1>1 DEF FigsLines, LineFor, RowFor, Keys
  <1>2. CASE UNCHANGED evalVars /\ (stage = "parse" \/ UNCHANGED rows)
    <2>1. stage' = stage /\ figs' = figs /\ results' = results /\ script' = script /\ stats' = stats
      BY <1>2 DEF evalVars
    <2>2. CASE stage = "parse"
      BY <2>1, <2>2 DEF Filled
    <2>3. CASE UNCHANGED rows
      <3>1. Same
        BY <2>1, <2>3
      <3> QED
        BY <1>1, <2>1, <3>1 DEF Filled
    <2> QED
      BY <1>2, <2>2, <2>3
  <1>3. ASSUME Die, stage \in {"parse", "final", "figs"} PROVE Filled'
    <2>1. stage' = "died" /\ results' = OldFile
      BY <1>3 DEF Die, Written
    <2> QED
      BY <2>1 DEF Filled, OldFile
  <1>4. CASE ParseDies \/ FinalRaises \/ RecordRaises
    BY <1>3, <1>4 DEF ParseDies, FinalRaises, RecordRaises, MergeRaises, LineRaises, LinesLeft
  <1>5. CASE ParentParses
    BY <1>2, <1>5 DEF ParentParses
  <1>6. ASSUME NEW w \in Worker, WorkerParses(w) PROVE Filled'
    BY <1>2, <1>6 DEF WorkerParses
  <1>7. CASE cal_final_results
    <2>1. stage = "parse" /\ stage' = "final" /\ results' = results
      BY <1>7 DEF cal_final_results
    <2>2. results = OldFile
      BY <2>1 DEF Written
    <2> QED
      BY <2>1, <2>2 DEF Filled, OldFile
  <1>8. CASE OpenFigs
    <2>1. stage = "final" /\ stage' = "figs" /\ figs' = NewFile /\ results' = results
      BY <1>8 DEF OpenFigs
    <2>2. results = OldFile
      BY <2>1 DEF Written
    <2>3. NewFile.run = "this" /\ NewFile.lines = <<>> /\ DOMAIN NewFile.lines = {}
      BY DEF NewFile
    <2> QED
      BY <2>1, <2>2, <2>3 DEF Filled, OldFile
  <1>9. CASE WriteLine
    <2>1. /\ stage = "figs" /\ stage' = stage /\ results' = results /\ Same
          /\ Len(figs.lines) < Len(FigsLines) /\ Growing(figs, Len(FigsLines)) /\ results = OldFile
      BY <1>9 DEF WriteLine, LinesLeft, Written, poolVars
    <2>2. PICK w : w = NextLine
      OBVIOUS
    <2>3. PICK cells : cells = LineFor(w)[2]
      OBVIOUS
    <2>4. LineFor(w)[1] /\ figs' = AppendTo(figs, w, cells)
      BY <1>9, <2>2, <2>3 DEF WriteLine, LineFor
    <2>5. PICK s, e : s = figs.lines /\ e = <<w, cells>>
      OBVIOUS
    <2>6. IsList(s) /\ figs.run = "this" /\ DOMAIN figs = {"run", "lines"}
      BY <2>1, <2>5 DEF Growing
    <2>7. /\ Len(s) \in Nat /\ DOMAIN s = 1..Len(s) /\ DOMAIN Append(s, e) = 1..(Len(s) + 1)
          /\ Append(s, e)[Len(s) + 1] = e
          /\ \A k \in 1..Len(s) : Append(s, e)[k] = s[k]
          /\ \A k \in 1..(Len(s) + 1) : k = Len(s) + 1 \/ k \in 1..Len(s)
      BY <2>6, AppendPlaces
    <2>8. figs'.run = "this" /\ figs'.lines = Append(s, e)
      BY <2>4, <2>5, <2>6 DEF AppendTo
    <2>9. FigsLines[Len(s) + 1] = w
      BY <2>2, <2>5 DEF NextLine
    <2>10. \A k \in 1..Len(s) : LineFor(FigsLines[k])[1] /\ s[k] = <<FigsLines[k], LineFor(FigsLines[k])[2]>>
      BY <2>1, <2>5, <2>7 DEF Filled
    <2>11. \A k \in 1..(Len(s) + 1) : LineFor(FigsLines[k])[1] /\ Append(s, e)[k] = <<FigsLines[k], LineFor(FigsLines[k])[2]>>
      BY <2>3, <2>4, <2>5, <2>7, <2>9, <2>10
    <2>12. \A k \in DOMAIN figs'.lines :
              LineFor(FigsLines[k])'[1] /\ figs'.lines[k] = <<FigsLines'[k], LineFor(FigsLines[k])'[2]>>
      BY <1>1, <2>1, <2>7, <2>8, <2>11
    <2> QED
      BY <2>1, <2>8, <2>12 DEF Filled, OldFile
  <1>10. CASE OpenResults
    <2>1. /\ stage = "figs" /\ stage' = "results" /\ results' = NewFile /\ figs' = figs /\ Same
          /\ Len(figs.lines) = Len(FigsLines)
          /\ Growing(figs, Len(FigsLines)) /\ HasFigsLine(script.record, stats, "Average")
      BY <1>10 DEF OpenResults, Written, poolVars
    <2>2. DOMAIN figs.lines = 1..Len(figs.lines)
      <3>1. IsList(figs.lines)
        BY <2>1 DEF Growing
      <3> QED
        BY <3>1, AppendPlaces
    <2>3. NewFile.run = "this" /\ NewFile.lines = <<>> /\ DOMAIN NewFile.lines = {}
      BY DEF NewFile
    <2> QED
      BY <1>1, <2>1, <2>2, <2>3 DEF Filled
  <1>11. CASE WriteRows
    <2>1. /\ stage = "results" /\ stage' = stage /\ figs' = figs /\ Same
          /\ Growing(results, Len(output_prefetchers)) /\ Len(results.lines) < Len(output_prefetchers)
      BY <1>11 DEF WriteRows, RowsLeft, Written, poolVars
    <2>2. PICK w : w = NextPrefetcher
      OBVIOUS
    <2>3. PICK cells : cells = RowFor(w)
      OBVIOUS
    <2>4. results' = AppendTo(results, w, cells)
      BY <1>11, <2>2, <2>3 DEF WriteRows, RowFor
    <2>5. PICK s, e : s = results.lines /\ e = <<w, cells>>
      OBVIOUS
    <2>6. IsList(s) /\ results.run = "this" /\ DOMAIN results = {"run", "lines"}
      BY <2>1, <2>5 DEF Growing
    <2>7. /\ Len(s) \in Nat /\ DOMAIN s = 1..Len(s) /\ DOMAIN Append(s, e) = 1..(Len(s) + 1)
          /\ Append(s, e)[Len(s) + 1] = e
          /\ \A k \in 1..Len(s) : Append(s, e)[k] = s[k]
          /\ \A k \in 1..(Len(s) + 1) : k = Len(s) + 1 \/ k \in 1..Len(s)
      BY <2>6, AppendPlaces
    <2>8. results'.run = "this" /\ results'.lines = Append(s, e)
      BY <2>4, <2>5, <2>6 DEF AppendTo
    <2>9. output_prefetchers[Len(s) + 1] = w
      BY <2>2, <2>5 DEF NextPrefetcher
    <2>10. \A k \in 1..Len(s) : s[k] = <<output_prefetchers[k], RowFor(output_prefetchers[k])>>
      BY <2>1, <2>5, <2>7 DEF Filled
    <2>11. \A k \in 1..(Len(s) + 1) : Append(s, e)[k] = <<output_prefetchers[k], RowFor(output_prefetchers[k])>>
      BY <2>3, <2>5, <2>7, <2>9, <2>10
    <2>12. \A k \in DOMAIN results'.lines :
              k \in 1..Len(output_prefetchers) /\ results'.lines[k] = <<output_prefetchers[k], RowFor(output_prefetchers[k])'>>
      <3>1. \A k \in 1..(Len(s) + 1) : k \in 1..Len(output_prefetchers)
        BY <2>1, <2>5, <2>7, PrefetchersToWrite
      <3> QED
        BY <1>1, <2>1, <2>7, <2>8, <2>11, <3>1
    <2> QED
      BY <1>1, <2>1, <2>8, <2>12 DEF Filled
  <1>12. CASE Finish
    <2>1. stage = "results" /\ stage' = "done" /\ figs' = figs /\ results' = results /\ Same
      BY <1>12 DEF Finish, poolVars
    <2> QED
      BY <1>1, <2>1 DEF Filled
  <1>13. CASE UNCHANGED vars
    BY <1>2, <1>13 DEF vars, poolVars
  <1> QED
    BY <1>4, <1>5, <1>6, <1>7, <1>8, <1>9, <1>10, <1>11, <1>12, <1>13 DEF Next, Main, Record

\* The inductive invariant of an evaluation
EvalInv ==
    /\ IInv /\ Listed /\ Written /\ Computed /\ Filled
    /\ script \in Scripts /\ files \in Listings(script)

\* The invariant of an evaluation holds in every state: its pool's, then the
\* tables', then the recorder's.
LEMMA EvaluationInvariance == Spec => []EvalInv
  <1>1. Init => Written /\ Computed /\ Filled /\ script \in Scripts /\ files \in Listings(script) /\ Listed
    <2> SUFFICES ASSUME Init PROVE Written /\ Computed /\ Filled /\ script \in Scripts /\ files \in Listings(script) /\ Listed
      OBVIOUS
    <2>1. stage = "parse" /\ figs = OldFile /\ results = OldFile /\ script \in Scripts /\ PoolInit(Listings(script))
      BY DEF Init
    <2>2. files \in Listings(script)
      BY <2>1 DEF PoolInit
    <2>3. Listed
      <3>1. PoolInit(Seq(Reading))
        BY <2>1, <2>2, ListingsAssumption DEF PoolInit
      <3> QED
        BY <3>1, ListedInit
    <2> QED
      BY <2>1, <2>2, <2>3 DEF Written, Computed, Filled, OldFile
  <1>2. Written /\ [Next]_vars => Written'
    BY StepsAsWriter
  <1>3. Computed /\ [Next]_vars => Computed'
    BY ComputedNext
  <1>4. Written /\ Filled /\ [Next]_vars => Filled'
    BY FilledNext
  <1>5. Typed /\ Listed /\ [Next]_vars => Listed'
    BY PoolSteps, ListedNext
  <1>6. [Next]_vars => script' = script /\ files' = files
    <2> SUFFICES ASSUME [Next]_vars PROVE script' = script /\ files' = files
      OBVIOUS
    <2>1. files' = files
      BY PoolSteps, FilesStay
    <2>2. script' = script
      BY DEF Next, Main, vars, evalVars, ParentParses, WorkerParses, ParseDies, Die, FinalRaises, cal_final_results,
             Record, OpenFigs, WriteLine, OpenResults, WriteRows, Finish, RecordRaises, MergeRaises, LineRaises
    <2> QED
      BY <2>1, <2>2
  <1>7. script \in Scripts /\ files \in Listings(script) /\ [Next]_vars => (script \in Scripts /\ files \in Listings(script))'
    BY <1>6
  <1>8. IInv => Typed
    BY DEF IInv
  <1>9. Spec => []IInv
    BY PoolOfEvaluation, Invariance, PTL
  <1> QED
    BY <1>1, <1>2, <1>3, <1>4, <1>5, <1>7, <1>8, <1>9, PTL DEF Spec, EvalInv

-----------------------------------------------------------------------------
(* The means.                                                              *)

\* A list of elements of a set is one of elements of a larger set.
LEMMA Wider ==
    ASSUME NEW S, NEW T, S \subseteq T, NEW s \in Seq(S)
    PROVE  s \in Seq(T)
  <1>1. Len(s) \in Nat /\ s \in [1..Len(s) -> S]
    OBVIOUS
  <1>2. s \in [1..Len(s) -> T]
    BY <1>1
  <1> QED
    BY <1>1, <1>2

\* The mean over the cores of what a row holds (OverCores).
LEMMA OverCoresAre ==
    ASSUME NEW e \in Entries, NEW f \in Fields
    PROVE  /\ OverCores(f, e) \in Roots \union {Dash}
           /\ f # <<"", "IPC">> => OverCores(f, e) \in Numbers \union {Dash}
           /\ f # <<"", "IPC">> /\ (\A i \in Cores : e[<<f, i>>] \in Numbers) => OverCores(f, e) \in Numbers
  <1>1. PICK s : s = [n \in 1..core_num |-> e[<<f, n - 1>>]]
    OBVIOUS
  <1>2. core_num \in Nat \ {0} /\ \A n \in 1..core_num : n - 1 \in Cores
    BY CoresAre
  <1>3. \A n \in 1..core_num : <<f, n - 1>> \in Fields \X Cores
    BY <1>2
  <1>4. \A n \in 1..core_num : s[n] = e[<<f, n - 1>>] /\ s[n] \in Good
    BY <1>1, <1>3 DEF Entries
  <1>5. s \in Seq(Good) /\ Len(s) = core_num
    BY <1>1, <1>2, <1>4
  <1>6. Good \subseteq Roots \union {Dash, Raised} /\ Good \subseteq Roots \union {Inexact, Dash, Raised} /\ Numbers \subseteq Roots
    BY GoodCells DEF Good
  <1>7. s \in Seq(Roots \union {Dash, Raised}) /\ s \in Seq(Roots \union {Inexact, Dash, Raised})
    <2>1. s \in Seq(Roots \union {Dash, Raised})
      BY <1>5, <1>6, Wider
    <2>2. s \in Seq(Roots \union {Inexact, Dash, Raised})
      BY <1>5, <1>6, Wider
    <2> QED
      BY <2>1, <2>2
  <1>8. geo_mean(s) \in Roots \union {Dash}
    BY <1>7, GeoMeanIs
  <1>9. /\ arith_mean(s) \in Numbers \union {Dash}
        /\ Len(s) > 0 /\ (\A n \in 1..Len(s) : s[n] \in Numbers) => arith_mean(s) \in Numbers
    BY <1>5, <1>7, ArithMeanIs
  <1>10. OverCores(f, e) = IF f = <<"", "IPC">> THEN geo_mean(s) ELSE arith_mean(s)
    BY <1>1 DEF OverCores
  <1>11. (\A i \in Cores : e[<<f, i>>] \in Numbers) => \A n \in 1..Len(s) : s[n] \in Numbers
    BY <1>2, <1>4, <1>5
  <1>12. Len(s) > 0
    BY <1>2, <1>5
  <1> QED
    BY <1>6, <1>8, <1>9, <1>10, <1>11, <1>12

\* The mean of a table's field: over traces, or over the parts of a workload.
LEMMA MeanOfAre ==
    ASSUME NEW f, NEW x \in Seq(Roots \union {Dash})
    PROVE  /\ f = <<"", "IPCI">> => MeanOf(f, x) \in Roots \union {Dash}
           /\ f # <<"", "IPCI">> => MeanOf(f, x) \in Numbers \union {Inexact, Dash}
  <1>1. x \in Seq(Roots \union {Dash, Raised})
    <2>1. Roots \union {Dash} \subseteq Roots \union {Dash, Raised}
      OBVIOUS
    <2> QED
      BY <2>1, Wider
  <1>2. x \in Seq(Roots \union {Inexact, Dash, Raised})
    <2>1. Roots \union {Dash} \subseteq Roots \union {Inexact, Dash, Raised}
      OBVIOUS
    <2> QED
      BY <2>1, Wider
  <1>3. geo_mean(x) \in Roots \union {Dash}
    BY <1>1, GeoMeanIs
  <1>4. arith_mean(x) \in Numbers \union {Inexact, Dash}
    BY <1>2, ArithMeanIs
  <1> QED
    BY <1>3, <1>4 DEF MeanOf

\* ... and of a single one, which it is.
LEMMA MeanOfOne ==
    ASSUME NEW f, NEW v,
           f = <<"", "IPCI">> => v \in Roots \union {Dash},
           f # <<"", "IPCI">> => v \in Numbers \union {Inexact, Dash}
    PROVE  MeanOf(f, <<v>>) = v
  <1>1. CASE f = <<"", "IPCI">>
    BY <1>1, GeoMeanOfOne DEF MeanOf
  <1>2. CASE f # <<"", "IPCI">>
    BY <1>2, ArithMeanOfOne DEF MeanOf
  <1> QED
    BY <1>1, <1>2

\* The tables of means hold the mean of each field (CoreMeans).
LEMMA CoreMeansAre ==
    ASSUME NEW table
    PROVE  /\ DOMAIN CoreMeans(table) = DOMAIN table
           /\ \A t \in DOMAIN table :
                /\ DOMAIN CoreMeans(table)[t] = DOMAIN table[t]
                /\ \A p \in DOMAIN table[t], f \in Fields : CoreMeans(table)[t][p][f] = OverCores(f, table[t][p])
  <1> DEFINE M == [t \in DOMAIN table |->
                    Settled([p \in DOMAIN table[t] |-> Settled([f \in Fields |-> OverCores(f, table[t][p])])])]
  <1>1. CoreMeans(table) = M
    BY DEF CoreMeans, Settled
  <1>2. ASSUME NEW t \in DOMAIN table
        PROVE  /\ DOMAIN M[t] = DOMAIN table[t]
               /\ \A p \in DOMAIN table[t], f \in Fields : M[t][p][f] = OverCores(f, table[t][p])
    <2> DEFINE R == [p \in DOMAIN table[t] |-> Settled([f \in Fields |-> OverCores(f, table[t][p])])]
    <2>1. M[t] = R
      BY DEF Settled
    <2>2. \A p \in DOMAIN table[t] : R[p] = [f \in Fields |-> OverCores(f, table[t][p])]
      BY DEF Settled
    <2>3. DOMAIN R = DOMAIN table[t]
      OBVIOUS
    <2>4. \A p \in DOMAIN table[t], f \in Fields : R[p][f] = OverCores(f, table[t][p])
      BY <2>2
    <2> HIDE DEF M, R
    <2> QED
      BY <2>1, <2>3, <2>4
  <1>3. DOMAIN M = DOMAIN table
    OBVIOUS
  <1> HIDE DEF M
  <1> QED
    BY <1>1, <1>2, <1>3

\* The table 'Average' holds the mean of each column.
LEMMA AverageOverIs ==
    ASSUME NEW means, NEW order
    PROVE  /\ DOMAIN AverageOver(means, order) = UNION {DOMAIN means[t] : t \in ToSet(order)}
           /\ \A p \in DOMAIN AverageOver(means, order), f \in Fields :
                AverageOver(means, order)[p][f] = MeanOf(f, Column(means, order, p, f))
  <1> DEFINE D == UNION {DOMAIN means[t] : t \in ToSet(order)}
             A == [p \in D |-> Settled([f \in Fields |-> MeanOf(f, Column(means, order, p, f))])]
  <1>1. AverageOver(means, order) = A
    BY DEF AverageOver, Settled
  <1>2. \A p \in D : A[p] = [f \in Fields |-> MeanOf(f, Column(means, order, p, f))]
    BY DEF Settled
  <1>3. \A p \in D, f \in Fields : A[p][f] = MeanOf(f, Column(means, order, p, f))
    BY <1>2
  <1>4. DOMAIN A = D
    OBVIOUS
  <1> HIDE DEF A
  <1> QED
    BY <1>1, <1>3, <1>4

\* The means that cal_final_results leaves in ROI_ORIGIN_STATS.
LEMMA WithAverageIs ==
    ASSUME NEW means, NEW order, "Average" \notin DOMAIN means
    PROVE  /\ DOMAIN WithAverage(means, order) = DOMAIN means \union {"Average"}
           /\ \A t \in DOMAIN means : WithAverage(means, order)[t] = means[t]
           /\ WithAverage(means, order)["Average"] = AverageOver(means, order)
  BY DEF WithAverage, Settled

\* A column over the traces: what it holds, how long it is, and its cells.
LEMMA ColumnTyped ==
    ASSUME NEW means, NEW order \in Seq(STRING), NEW p, NEW f, NEW S, Dash \in S,
           \A t \in ToSet(order) : p \in DOMAIN means[t] => means[t][p][f] \in S
    PROVE  Column(means, order, p, f) \in Seq(S)
  <1>1. DOMAIN order = 1..Len(order) /\ Len(order) \in Nat /\ \A n \in 1..Len(order) : order[n] \in ToSet(order)
    BY DEF ToSet
  <1>2. PICK x : x = Column(means, order, p, f)
    OBVIOUS
  <1>3. x = [n \in 1..Len(order) |-> IF p \in DOMAIN means[order[n]] THEN means[order[n]][p][f] ELSE Dash]
    BY <1>1, <1>2 DEF Column
  <1>4. \A n \in 1..Len(order) : x[n] = IF p \in DOMAIN means[order[n]] THEN means[order[n]][p][f] ELSE Dash
    BY <1>3
  <1>5. \A n \in 1..Len(order) : x[n] \in S
    BY <1>1, <1>4
  <1>6. x \in Seq(S)
    BY <1>1, <1>3, <1>5
  <1> QED
    BY <1>2, <1>6

\* A column takes a field from the listed traces, in their order.
LEMMA ColumnPlaces ==
    ASSUME NEW means, NEW order \in Seq(STRING), NEW p, NEW f, NEW x, x = Column(means, order, p, f)
    PROVE  DOMAIN x = 1..Len(order) /\ \A n \in 1..Len(order) : p \in DOMAIN means[order[n]] => x[n] = means[order[n]][p][f]
  <1>1. DOMAIN order = 1..Len(order)
    OBVIOUS
  <1> QED
    BY <1>1 DEF Column

Later == stage \in {"final", "figs", "results", "done"}

\* A list is one of its elements.
LEMMA OfItsOwn == ASSUME NEW S, NEW s \in Seq(S) PROVE s \in Seq(ToSet(s))
  <1>1. Len(s) \in Nat /\ DOMAIN s = 1..Len(s) /\ s = [n \in 1..Len(s) |-> s[n]]
    OBVIOUS
  <1>2. \A n \in 1..Len(s) : s[n] \in ToSet(s)
    BY <1>1 DEF ToSet
  <1> QED
    BY <1>1, <1>2

\* The rows of a trace, computed in some order of its prefetchers.
LEMMA RowsOfTraceAre ==
    ASSUME EvalInv, HasBaseline(rows), NEW t \in TracesOf(rows), NEW P, P = ToSet(PrefetchersOf(rows, t)),
           NEW order \in Seq(P), ToSet(order) = P
    PROVE  /\ "no" \in P
           /\ TraceTable(roi, order, t) \in Tables(P)
           /\ RowsOfTrace(script.final, roi, order, t) \in Tables(P)
           /\ \A p \in P, j \in Cores : Speed(RowsOfTrace(script.final, roi, order, t), p, j)
  <1>1. "no" \in P /\ TraceTable(roi, order, t) \in Tables(P)
    BY TableOfTrace DEF EvalInv, IInv
  <1>2. script.final \in RowVariants /\ Readable(script.final)
    BY ScriptsAssumption DEF EvalInv, Readable
  <1>3. PICK v, r : v = script.final /\ r = roi
    OBVIOUS
  <1>4. /\ v \in RowVariants /\ Readable(v) /\ TraceTable(r, order, t) \in Tables(P)
    BY <1>1, <1>2, <1>3
  <1>5. /\ RowsOfTrace(v, r, order, t) \in Tables(P)
        /\ \A q \in ToSet(order), j \in Cores : Speed(RowsOfTrace(v, r, order, t), q, j)
    BY <1>1, <1>4, TraceSpeed
  <1> QED
    BY <1>1, <1>3, <1>5

\* The prefetchers' order of a trace
LEMMA OrderOfTrace ==
    ASSUME EvalInv, NEW t
    PROVE  /\ PrefetchersOf(rows, t) \in Seq(ToSet(PrefetchersOf(rows, t)))
           /\ Distinct(PrefetchersOf(rows, t))
           /\ \A p : p \in ToSet(PrefetchersOf(rows, t)) <=> <<t, p>> \in DOMAIN roi
  <1>1. PICK r : r = rows
    OBVIOUS
  <1>2. r \in Seq(Key) /\ Distinct(r) /\ ToSet(r) = DOMAIN roi
    BY <1>1 DEF EvalInv, Listed
  <1>3. /\ PrefetchersOf(r, t) \in Seq(STRING)
        /\ Distinct(PrefetchersOf(r, t))
        /\ \A p : p \in ToSet(PrefetchersOf(r, t)) <=> <<t, p>> \in ToSet(r)
    BY <1>2, PrefetchersAre
  <1>4. PrefetchersOf(r, t) \in Seq(ToSet(PrefetchersOf(r, t)))
    BY <1>3, OfItsOwn
  <1> QED
    BY <1>1, <1>2, <1>3, <1>4

\* The rows that cal_final_results computed: every cell one that Python can
\* compute, every IPCI a number.
LEMMA FinalTableIs ==
    ASSUME EvalInv, Later
    PROVE  /\ DOMAIN FinalTable = TracesOf(rows)
           /\ \A t \in TracesOf(rows) :
                /\ FinalTable[t] = RowsOfTrace(script.final, roi, PrefetchersOf(rows, t), t)
                /\ FinalTable[t] \in Tables(ToSet(PrefetchersOf(rows, t)))
                /\ \A p \in ToSet(PrefetchersOf(rows, t)), i \in Cores :
                    FinalTable[t][p][<<<<"", "IPCI">>, i>>] \in Numbers
  <1>1. /\ pool = "done" /\ HasBaseline(rows) /\ NoneRaised(FinalTable)
    BY DEF EvalInv, Computed, Later, Computes
  <1>2. PICK F : F = [t \in TracesOf(rows) |-> RowsOfTrace(script.final, roi, PrefetchersOf(rows, t), t)]
    OBVIOUS
  <1>3. FinalTable = F
    BY <1>2 DEF FinalTable, RowsOf, Settled
  <1>4. DOMAIN F = TracesOf(rows) /\ \A t \in TracesOf(rows) : F[t] = RowsOfTrace(script.final, roi, PrefetchersOf(rows, t), t)
    BY <1>2
  <1>5. <<"", "IPCI">> \in Fields
    BY ConfigurationAssumption
  <1>6. ASSUME NEW t \in TracesOf(rows)
        PROVE  /\ F[t] \in Tables(ToSet(PrefetchersOf(rows, t)))
               /\ \A p \in ToSet(PrefetchersOf(rows, t)), i \in Cores : F[t][p][<<<<"", "IPCI">>, i>>] \in Numbers
    <2>1. PICK order, P : order = PrefetchersOf(rows, t) /\ P = ToSet(PrefetchersOf(rows, t))
      OBVIOUS
    <2>2. order \in Seq(P) /\ ToSet(order) = P
      BY <2>1, OrderOfTrace
    <2>3. /\ RowsOfTrace(script.final, roi, order, t) \in Tables(P)
          /\ \A p \in P, j \in Cores : Speed(RowsOfTrace(script.final, roi, order, t), p, j)
      BY <1>1, <1>6, <2>1, <2>2, RowsOfTraceAre
    <2>4. F[t] \in Tables(P) /\ \A p \in P, j \in Cores : Speed(F[t], p, j)
      BY <1>4, <2>1, <2>3
    <2>5. ASSUME NEW p \in P, NEW i \in Cores PROVE F[t][p][<<<<"", "IPCI">>, i>>] \in Numbers
      <3>1. p \in DOMAIN F[t] /\ t \in DOMAIN F
        BY <1>4, <2>4 DEF Tables
      <3>2. F[t][p][<<<<"", "IPCI">>, i>>] # Raised
        BY <1>1, <1>3, <1>5, <3>1 DEF NoneRaised, In
      <3> QED
        BY <2>4, <3>2 DEF Speed
    <2> QED
      BY <2>1, <2>4, <2>5
  <1> QED
    BY <1>3, <1>4, <1>6

\* 'Average' is no trace.
LEMMA AverageIsNoTrace == ASSUME EvalInv PROVE "Average" \notin TracesOf(rows)
  <1>1. rows \in Seq(Key)
    BY DEF EvalInv, Listed
  <1>2. \A i \in DOMAIN rows : rows[i] \in Key
    BY <1>1
  <1> QED
    BY <1>2, KeyAssumption DEF TracesOf

\* The order of the traces that 'Average' is made of
LEMMA AverageOrder ==
    ASSUME EvalInv, Later
    PROVE  AverageTraces \in Seq(STRING) /\ ToSet(AverageTraces) \subseteq TracesOf(rows)
  <1>1. PICK r : r = rows
    OBVIOUS
  <1>2. r \in Seq(Key)
    BY <1>1 DEF EvalInv, Listed
  <1>3. TraceOrder(r) \in Seq(STRING)
    BY <1>2, TracesAre
  <1>4. output_workloads \in Seq(STRING)
    BY ConfigurationLists
  <1>5. ToSet(AverageTraces) \subseteq TracesOf(rows)
    BY DEF EvalInv, Computed, Later, Computes
  <1> QED
    BY <1>1, <1>3, <1>4, <1>5 DEF AverageTraces

\* The means, of a trace and over them.
LEMMA StatsAre ==
    ASSUME EvalInv, Later
    PROVE  /\ DOMAIN stats = TracesOf(rows) \union {"Average"}
           /\ \A t \in TracesOf(rows) :
                /\ stats[t] = CoreMeans(FinalTable)[t]
                /\ DOMAIN stats[t] = ToSet(PrefetchersOf(rows, t))
                /\ \A p \in DOMAIN stats[t], f \in Fields : stats[t][p][f] \in Roots \union {Dash}
                /\ \A p \in DOMAIN stats[t] : stats[t][p][<<"", "IPCI">>] \in Numbers
           /\ DOMAIN stats["Average"] = UNION {DOMAIN stats[t] : t \in ToSet(AverageTraces)}
           /\ \A p \in DOMAIN stats["Average"], f \in Fields :
                stats["Average"][p][f] = MeanOf(f, Column(stats, AverageTraces, p, f))
  <1>1. PICK means : means = CoreMeans(FinalTable)
    OBVIOUS
  <1>2. PICK order : order = AverageTraces
    OBVIOUS
  <1>3. stats = WithAverage(means, order)
    BY <1>1, <1>2 DEF EvalInv, Computed, Later
  <1>4. PICK table : table = FinalTable
    OBVIOUS
  <1>5. /\ DOMAIN means = DOMAIN table
        /\ \A t \in DOMAIN table :
                /\ DOMAIN means[t] = DOMAIN table[t]
                /\ \A p \in DOMAIN table[t], f \in Fields : means[t][p][f] = OverCores(f, table[t][p])
    BY <1>1, <1>4, CoreMeansAre
  <1>6. /\ DOMAIN table = TracesOf(rows)
        /\ \A t \in TracesOf(rows) :
                /\ table[t] \in Tables(ToSet(PrefetchersOf(rows, t)))
                /\ \A p \in ToSet(PrefetchersOf(rows, t)), i \in Cores : table[t][p][<<<<"", "IPCI">>, i>>] \in Numbers
    BY <1>4, FinalTableIs
  <1>7. "Average" \notin DOMAIN means
    BY <1>5, <1>6, AverageIsNoTrace
  <1>8. /\ DOMAIN stats = DOMAIN means \union {"Average"}
        /\ \A t \in DOMAIN means : stats[t] = means[t]
        /\ stats["Average"] = AverageOver(means, order)
    BY <1>3, <1>7, WithAverageIs
  <1>9. <<"", "IPCI">> \in Fields /\ <<"", "IPCI">> # <<"", "IPC">>
    BY ConfigurationAssumption
  <1>10. ASSUME NEW t \in TracesOf(rows)
         PROVE  /\ stats[t] = means[t]
                /\ DOMAIN stats[t] = ToSet(PrefetchersOf(rows, t))
                /\ \A p \in DOMAIN stats[t], f \in Fields : stats[t][p][f] \in Roots \union {Dash}
                /\ \A p \in DOMAIN stats[t] : stats[t][p][<<"", "IPCI">>] \in Numbers
    <2>1. stats[t] = means[t] /\ DOMAIN means[t] = DOMAIN table[t]
      BY <1>5, <1>6, <1>8
    <2>2. DOMAIN table[t] = ToSet(PrefetchersOf(rows, t)) /\ \A p \in ToSet(PrefetchersOf(rows, t)) : table[t][p] \in Entries
      BY <1>6 DEF Tables
    <2>3. ASSUME NEW p \in DOMAIN stats[t], NEW f \in Fields PROVE stats[t][p][f] \in Roots \union {Dash}
      <3>1. PICK e \in Entries : e = table[t][p]
        BY <2>1, <2>2
      <3>2. stats[t][p][f] = OverCores(f, e)
        BY <1>5, <1>6, <2>1, <3>1
      <3> QED
        BY <3>2, OverCoresAre
    <2>4. ASSUME NEW p \in DOMAIN stats[t] PROVE stats[t][p][<<"", "IPCI">>] \in Numbers
      <3>1. PICK e \in Entries : e = table[t][p]
        BY <2>1, <2>2
      <3>2. PICK f \in Fields : f = <<"", "IPCI">> /\ f # <<"", "IPC">>
        BY <1>9
      <3>3. stats[t][p][f] = OverCores(f, e)
        BY <1>5, <1>6, <2>1, <3>1
      <3>4. \A i \in Cores : e[<<f, i>>] \in Numbers
        BY <1>6, <2>1, <2>2, <3>1, <3>2
      <3>5. OverCores(f, e) \in Numbers
        BY <3>2, <3>4, OverCoresAre
      <3> QED
        BY <3>2, <3>3, <3>5
    <2> QED
      BY <2>1, <2>2, <2>3, <2>4
  <1>11. ToSet(order) \subseteq TracesOf(rows)
    BY <1>2, AverageOrder
  <1>12. /\ DOMAIN AverageOver(means, order) = UNION {DOMAIN means[t] : t \in ToSet(order)}
         /\ \A p \in DOMAIN AverageOver(means, order), f \in Fields :
                AverageOver(means, order)[p][f] = MeanOf(f, Column(means, order, p, f))
    BY AverageOverIs
  <1>13. {DOMAIN means[t] : t \in ToSet(order)} = {DOMAIN stats[t] : t \in ToSet(order)}
    BY <1>10, <1>11
  <1>14. DOMAIN stats["Average"] = UNION {DOMAIN stats[t] : t \in ToSet(order)}
    BY <1>8, <1>12, <1>13
  <1>15. \A p, f : Column(means, order, p, f) = Column(stats, order, p, f)
    <2>1. \A n \in DOMAIN order : stats[order[n]] = means[order[n]]
      BY <1>10, <1>11 DEF ToSet
    <2> QED
      BY <2>1 DEF Column
  <1>16. \A p \in DOMAIN stats["Average"], f \in Fields : stats["Average"][p][f] = MeanOf(f, Column(stats, order, p, f))
    BY <1>8, <1>12, <1>15
  <1>17. DOMAIN stats = TracesOf(rows) \union {"Average"}
    BY <1>5, <1>6, <1>8
  <1> QED
    BY <1>1, <1>2, <1>10, <1>14, <1>16, <1>17

\* A cell of 'Average' is what its mean can be.
LEMMA AverageCells ==
    ASSUME EvalInv, Later, NEW p \in DOMAIN stats["Average"], NEW f \in Fields
    PROVE  /\ f = <<"", "IPCI">> => stats["Average"][p][f] \in Roots \union {Dash}
           /\ f # <<"", "IPCI">> => stats["Average"][p][f] \in Numbers \union {Inexact, Dash}
  <1>1. PICK order, means : order = AverageTraces /\ means = stats
    OBVIOUS
  <1>2. order \in Seq(STRING) /\ ToSet(order) \subseteq TracesOf(rows)
    BY <1>1, AverageOrder
  <1>3. \A t \in ToSet(order) : p \in DOMAIN means[t] => means[t][p][f] \in Roots \union {Dash}
    BY <1>1, <1>2, StatsAre
  <1>4. PICK S : S = Roots \union {Dash}
    OBVIOUS
  <1>5. Column(means, order, p, f) \in Seq(S)
    <2>1. Dash \in S /\ \A t \in ToSet(order) : p \in DOMAIN means[t] => means[t][p][f] \in S
      BY <1>3, <1>4
    <2> QED
      BY <1>2, <2>1, ColumnTyped
  <1>6. PICK x : x = Column(means, order, p, f) /\ x \in Seq(Roots \union {Dash})
    BY <1>4, <1>5
  <1>7. stats["Average"][p][f] = MeanOf(f, x)
    BY <1>1, <1>6, StatsAre
  <1> QED
    BY <1>6, <1>7, MeanOfAre

-----------------------------------------------------------------------------
(* The lines and the rows.                                                 *)

\* Every name of the configuration that has a line was written (Filled).
LEMMA LinesWritten ==
    ASSUME EvalInv, results.run = "this"
    PROVE  /\ Later /\ figs.run = "this" /\ Len(figs.lines) = Len(FigsLines)
           /\ Len(figs.lines) \in Nat \ {0}
           /\ figs.lines[Len(figs.lines)] = <<"Average", LineFor("Average")[2]>>
           /\ \A w \in ToSet(Workloads) : HasFigsLine(script.record, stats, w) => LineFor(w)[1]
           /\ LineFor("Average")[1]
           /\ \A k \in DOMAIN results.lines :
                /\ output_prefetchers[k] \in Prefetchers
                /\ results.lines[k] = <<output_prefetchers[k], RowFor(output_prefetchers[k])>>
  <1>1. stage \in {"results", "done"}
    BY DEF EvalInv, Filled
  <1>2. /\ figs.run = "this" /\ HasFigsLine(script.record, stats, "Average")
        /\ Len(figs.lines) = Len(FigsLines) /\ DOMAIN figs.lines = 1..Len(figs.lines)
        /\ \A k \in DOMAIN figs.lines :
            LineFor(FigsLines[k])[1] /\ figs.lines[k] = <<FigsLines[k], LineFor(FigsLines[k])[2]>>
        /\ \A k \in DOMAIN results.lines :
            /\ k \in 1..Len(output_prefetchers)
            /\ results.lines[k] = <<output_prefetchers[k], RowFor(output_prefetchers[k])>>
    BY <1>1 DEF EvalInv, Filled
  <1>3. PICK kind, table : kind = script.record /\ table = stats
    OBVIOUS
  <1>4. /\ Len(WithLine(kind, table)) \in Nat \ {0}
        /\ WithLine(kind, table)[Len(WithLine(kind, table))] = "Average"
        /\ ToSet(WithLine(kind, table)) = {w \in ToSet(Workloads) : HasFigsLine(kind, table, w)}
    BY <1>2, <1>3, LinesToWrite
  <1>5. FigsLines = WithLine(kind, table)
    BY <1>3 DEF FigsLines
  <1>6. /\ Len(figs.lines) \in Nat \ {0} /\ Len(figs.lines) \in DOMAIN figs.lines /\ FigsLines[Len(figs.lines)] = "Average"
    BY <1>2, <1>4, <1>5
  <1>7. ASSUME NEW w \in ToSet(Workloads), HasFigsLine(script.record, stats, w) PROVE LineFor(w)[1]
    <2>1. PICK S : Workloads \in Seq(S)
      <3> DEFINE S == STRING \union {"Average"}
      <3>1. output_workloads \in Seq(S) /\ "Average" \in S
        BY ConfigurationLists
      <3> HIDE DEF S
      <3>2. output_workloads \o <<"Average">> \in Seq(S)
        BY <3>1, LastAdded, Zenon
      <3> QED
        BY <3>2 DEF Workloads
    <2>2. FigsLines \in Seq(S)
      BY <2>1, SubsequenceIs DEF FigsLines, WithLine
    <2>3. w \in ToSet(FigsLines)
      BY <1>3, <1>4, <1>5, <1>7
    <2>4. DOMAIN FigsLines = 1..Len(FigsLines)
      BY <2>2
    <2>5. PICK k \in 1..Len(FigsLines) : w = FigsLines[k]
      BY <2>3, <2>4 DEF ToSet
    <2> QED
      BY <1>2, <2>5
  <1>8. \A k \in 1..Len(output_prefetchers) : output_prefetchers[k] \in Prefetchers
    <2>1. DOMAIN output_prefetchers = 1..Len(output_prefetchers)
      BY ConfigurationLists
    <2> QED
      BY <2>1 DEF Prefetchers, ToSet
  <1> QED
    BY <1>1, <1>2, <1>6, <1>7, <1>8 DEF Later

\* What a line holds when computing it did not raise (LineOf)
LEMMA LineParts ==
    ASSUME NEW ok \in BOOLEAN, NEW F, NEW line, line = <<ok, IF ok THEN F ELSE Nothing>>, line[1]
    PROVE  ok /\ line[2] = F
  BY Zenon

\* The line of a plain script (PlainLine)
LEMMA PlainLineIs ==
    ASSUME script.record = "plain", NEW w, LineFor(w)[1]
    PROVE  /\ Prefetchers \subseteq DOMAIN stats[w]
           /\ LineFor(w)[2] = [p \in Prefetchers |-> [f \in output_metrics |-> stats[w][p][f]]]
  <1>1. LineFor(w) = PlainLine(stats, w)
    BY DEF LineFor, FigsLine
  <1>2. PICK F : F = [p \in Prefetchers |-> [f \in output_metrics |-> stats[w][p][f]]]
    OBVIOUS
  <1>3. PICK ok \in BOOLEAN : ok = (Prefetchers \subseteq DOMAIN stats[w])
    OBVIOUS
  <1>4. LineFor(w) = <<ok, IF ok THEN F ELSE Nothing>>
    BY <1>1, <1>2, <1>3 DEF PlainLine, LineOf
  <1>5. ok /\ LineFor(w)[2] = F
    BY <1>4, LineParts
  <1> QED
    BY <1>2, <1>3, <1>5

\* A plain script reads the reports of its output workloads only, so that
\* each trace it found has a line.
LEMMA TracesHaveLines ==
    ASSUME EvalInv, Later, script.record = "plain", NEW t \in TracesOf(rows)
    PROVE  t \in ToSet(Workloads) /\ HasFigsLine(script.record, stats, t)
  <1>1. PICK i \in DOMAIN rows : t = rows[i][1]
    BY DEF TracesOf
  <1>2. PICK k : k = rows[i] /\ k \in DOMAIN roi
    BY <1>1 DEF EvalInv, Listed, ToSet
  <1>3. PICK j \in 1..merged : IsReached(files[j]) /\ k = files[j].key
    BY <1>2 DEF EvalInv, IInv, Merged
  <1>4. files \in Seq(Reading) /\ merged \in 0..Len(files)
    BY DEF EvalInv, IInv, Typed
  <1>5. j \in DOMAIN files
    BY <1>3, <1>4
  <1>6. k[1] \in ToSet(output_workloads)
    BY <1>3, <1>5, ListingsAssumption DEF EvalInv, IsReached
  <1>7. output_workloads \in Seq(STRING)
    BY ConfigurationLists
  <1>8. t \in ToSet(Workloads)
    <2>1. PICK s : s = output_workloads /\ s \in Seq(STRING)
      BY <1>7
    <2>2. PICK n \in 1..Len(s) : t = s[n]
      BY <1>1, <1>2, <1>6, <2>1 DEF ToSet
    <2>3. PICK u : u = s \o <<"Average">>
      OBVIOUS
    <2>4. n \in DOMAIN u /\ u[n] = s[n]
      BY <2>1, <2>2, <2>3
    <2> QED
      BY <2>1, <2>2, <2>3, <2>4 DEF Workloads, ToSet
  <1>9. t \in DOMAIN stats
    BY StatsAre
  <1> QED
    BY <1>8, <1>9 DEF HasFigsLine, HasPlainLine

\* In the results' CSV of a plain script, every prefetcher's IPCI is the mean
\* over the same traces: those with a finished report, each of which has the
\* prefetcher, for its line was written (PlainLine's assert).
LEMMA Comparable == ASSUME EvalInv PROVE AveragesComparable
  <1> SUFFICES ASSUME NEW i \in DOMAIN results.lines, results.run = "this", script.record = "plain"
               PROVE  results.lines[i][2][<<"", "IPCI">>].r = Cardinality(TracesOf(rows))
    BY DEF AveragesComparable
  <1>1. PICK q \in Prefetchers : results.lines[i] = <<q, RowFor(q)>>
    BY LinesWritten
  <1>2. PICK f : f = <<"", "IPCI">>
    OBVIOUS
  <1>3. f \in output_metrics /\ f \in Fields
    BY <1>2, ConfigurationAssumption
  <1>4. RowFor(q)[f] = stats["Average"][q][f]
    BY <1>3 DEF RowFor, ResultRow
  <1>5. Later /\ LineFor("Average")[1]
    BY LinesWritten
  <1>6. q \in DOMAIN stats["Average"]
    BY <1>5, PlainLineIs
  <1>7. PICK order, r : r = rows /\ order = TraceOrder(r)
    OBVIOUS
  <1>8. r \in Seq(Key)
    BY <1>7 DEF EvalInv, Listed
  <1>9. /\ order \in Seq(STRING) /\ ToSet(order) = TracesOf(r) /\ Len(order) = Cardinality(TracesOf(r))
    BY <1>7, <1>8, TracesAre
  <1>10. AverageTraces = order
    <2>1. script.average = "found"
      BY ScriptsAssumption DEF EvalInv
    <2> QED
      BY <1>7, <2>1 DEF AverageTraces
  <1>11. PICK means : means = stats
    OBVIOUS
  <1>12. \A t \in ToSet(order) : q \in DOMAIN means[t] /\ means[t][q][f] \in Numbers
    <2> SUFFICES ASSUME NEW t \in ToSet(order) PROVE q \in DOMAIN stats[t] /\ stats[t][q][f] \in Numbers
      BY <1>11
    <2>1. t \in TracesOf(rows)
      BY <1>7, <1>9
    <2>2. LineFor(t)[1]
      BY <1>5, <2>1, TracesHaveLines, LinesWritten
    <2>3. q \in DOMAIN stats[t]
      BY <2>2, PlainLineIs
    <2> QED
      BY <1>2, <1>5, <2>1, <2>3, StatsAre
  <1>13. PICK S : S = Roots \union {Dash}
    OBVIOUS
  <1>14. Dash \in S /\ \A t \in ToSet(order) : q \in DOMAIN means[t] => means[t][q][f] \in S
    BY <1>12, <1>13, GoodCells
  <1>15. PICK x : x = Column(means, order, q, f)
    OBVIOUS
  <1>16. /\ x \in Seq(S) /\ Len(x) = Len(order)
         /\ \A n \in 1..Len(order) : q \in DOMAIN means[order[n]] => x[n] = means[order[n]][q][f]
    <2>1. Column(means, order, q, f) \in Seq(S)
      BY <1>9, <1>14, ColumnTyped
    <2>2. order \in Seq(STRING) /\ Len(order) \in Nat
      BY <1>9
    <2>3. /\ DOMAIN x = 1..Len(order)
          /\ \A n \in 1..Len(order) : q \in DOMAIN means[order[n]] => x[n] = means[order[n]][q][f]
      BY <1>15, <2>2, ColumnPlaces
    <2>4. x \in Seq(S)
      BY <1>15, <2>1
    <2>5. DOMAIN x = 1..Len(x)
      BY <2>4
    <2>6. Len(x) = Len(order)
      BY <2>2, <2>3, <2>4
    <2> QED
      BY <2>3, <2>4, <2>6
  <1>17. \A n \in 1..Len(x) : x[n] \in Numbers
    <2>1. \A n \in 1..Len(order) : order[n] \in ToSet(order)
      BY <1>9 DEF ToSet
    <2> QED
      BY <1>12, <1>16, <2>1
  <1>18. Len(x) > 0
    <2>1. DOMAIN stats["Average"] = UNION {DOMAIN stats[t] : t \in ToSet(order)}
      BY <1>5, <1>10, StatsAre
    <2>2. PICK t : t \in ToSet(order)
      BY <1>6, <2>1
    <2>3. DOMAIN order = 1..Len(order) /\ Len(order) \in Nat
      BY <1>9
    <2>4. PICK n \in 1..Len(order) : t = order[n]
      BY <2>2, <2>3 DEF ToSet
    <2> QED
      BY <1>16, <2>3, <2>4
  <1>19. x \in Seq(Roots \union {Dash, Raised})
    <2>1. S \subseteq Roots \union {Dash, Raised}
      BY <1>13
    <2> QED
      BY <1>16, <2>1, Wider
  <1>20. geo_mean(x).r = Len(x)
    BY <1>17, <1>18, <1>19, GeoMeanIs
  <1>21. stats["Average"][q][f] = geo_mean(x)
    <2>1. stats["Average"][q][f] = MeanOf(f, Column(stats, AverageTraces, q, f))
      BY <1>3, <1>5, <1>6, StatsAre
    <2> QED
      BY <1>2, <1>10, <1>11, <1>15, <2>1 DEF MeanOf
  <1>22. results.lines[i][2][f] = geo_mean(x)
    BY <1>1, <1>4, <1>21
  <1>23. results.lines[i][2][f].r = Cardinality(TracesOf(rows))
    BY <1>7, <1>9, <1>16, <1>20, <1>22
  <1> QED
    BY <1>2, <1>23

\* The averages of the prefetchers in one CSV compare: those of IPCI are over
\* as many workloads, all that were read, since every row of every trace has an
\* IPCI (cal_final_results writes it last, or the run dies of the division).
THEOREM AveragesCompare == Spec => []AveragesComparable
  BY EvaluationInvariance, Comparable, PTL

\* The traces and 'Average', in the order of the table's keys
LEMMA KeysAre ==
    ASSUME EvalInv
    PROVE  /\ Keys \in Seq(STRING \union {"Average"})
           /\ Distinct(Keys) /\ ToSet(Keys) = TracesOf(rows) \union {"Average"}
  <1>1. PICK r, s, e : r = rows /\ s = TraceOrder(r) /\ e = "Average"
    OBVIOUS
  <1>2. r \in Seq(Key)
    BY <1>1 DEF EvalInv, Listed
  <1>3. s \in Seq(STRING) /\ ToSet(s) = TracesOf(r) /\ Distinct(s)
    BY <1>1, <1>2, TracesAre
  <1>4. PICK S : S = STRING \union {e}
    OBVIOUS
  <1>5. s \in Seq(S)
    <2>1. STRING \subseteq S
      BY <1>4
    <2> QED
      BY <1>3, <2>1, Wider
  <1>6. e \in S
    BY <1>4
  <1>7. /\ Append(s, e) \in Seq(S)
        /\ ToSet(Append(s, e)) = ToSet(s) \union {e}
        /\ Distinct(s) /\ e \notin ToSet(s) => Distinct(Append(s, e))
    BY <1>5, <1>6, AppendIs
  <1>8. e \notin ToSet(s)
    BY <1>1, <1>3, AverageIsNoTrace
  <1>9. Keys = Append(s, e)
    BY <1>1 DEF Keys
  <1> QED
    BY <1>1, <1>3, <1>4, <1>7, <1>8, <1>9

\* 'Average' is made of itself, as no trace's name contains it.
LEMMA PartsOfAverage ==
    ASSUME EvalInv, NEW M, M \intersect ToSet(Keys) = {"Average"}
    PROVE  Subsequence(Keys, M) = <<"Average">>
  <1>1. PICK S, s : s = Keys /\ S = STRING \union {"Average"}
    OBVIOUS
  <1>2. s \in Seq(S) /\ Distinct(s)
    BY <1>1, KeysAre
  <1>3. PICK u : u = Subsequence(s, M)
    OBVIOUS
  <1>4. u \in Seq(S) /\ ToSet(u) = ToSet(s) \intersect M /\ Distinct(u)
    BY <1>2, <1>3, SubsequenceIs
  <1>5. ToSet(u) = {"Average"}
    BY <1>1, <1>4
  <1>6. Cardinality(ToSet(u)) = Len(u)
    BY <1>4, DistinctLength
  <1>7. Len(u) = 1
    BY <1>5, <1>6, FS_Singleton
  <1>8. DOMAIN u = 1..Len(u)
    BY <1>4
  <1>9. u[1] = "Average"
    BY <1>5, <1>7, <1>8 DEF ToSet
  <1>10. u = <<"Average">>
    BY <1>4, <1>7, <1>9
  <1> QED
    BY <1>1, <1>3, <1>10

\* The line 'Average' of the scripts that merge the simpoints of a workload
LEMMA MergedAverage ==
    ASSUME EvalInv, Later, NEW parts, parts = <<"Average">>, NEW line, line = MergedLine(stats, parts), line[1]
    PROVE  line[2] = [p \in Prefetchers |-> [f \in output_metrics |-> stats["Average"][p][f]]]
  <1>1. DOMAIN parts = {1} /\ parts[1] = "Average" /\ ToSet(parts) = {"Average"}
    <2>1. DOMAIN parts = 1..1 /\ parts[1] = "Average"
      OBVIOUS
    <2>2. 1..1 = {1}
      OBVIOUS
    <2> QED
      BY <2>1, <2>2 DEF ToSet
  <1>2. PICK F : F = [p \in Prefetchers |-> [f \in output_metrics |-> MeanOf(f, [n \in DOMAIN parts |-> stats[parts[n]][p][f]])]]
    OBVIOUS
  <1>3. PICK ok \in BOOLEAN : ok = (\A t \in ToSet(parts) : Prefetchers \subseteq DOMAIN stats[t])
    OBVIOUS
  <1>4. line = <<ok, IF ok THEN F ELSE Nothing>>
    BY <1>2, <1>3 DEF MergedLine, LineOf
  <1>5. ok /\ line[2] = F
    BY <1>4, LineParts
  <1>6. Prefetchers \subseteq DOMAIN stats["Average"]
    BY <1>1, <1>3, <1>5
  <1>7. ASSUME NEW p \in Prefetchers, NEW f \in output_metrics
        PROVE  MeanOf(f, [n \in DOMAIN parts |-> stats[parts[n]][p][f]]) = stats["Average"][p][f]
    <2>1. PICK v : v = stats["Average"][p][f]
      OBVIOUS
    <2>2. f \in Fields /\ p \in DOMAIN stats["Average"]
      BY <1>6, ConfigurationAssumption
    <2>3. /\ f = <<"", "IPCI">> => v \in Roots \union {Dash}
          /\ f # <<"", "IPCI">> => v \in Numbers \union {Inexact, Dash}
      BY <2>1, <2>2, AverageCells
    <2>4. [n \in DOMAIN parts |-> stats[parts[n]][p][f]] = <<v>>
      <3>1. PICK x : x = [n \in DOMAIN parts |-> stats[parts[n]][p][f]]
        OBVIOUS
      <3>2. x = [n \in {1} |-> v]
        BY <1>1, <2>1, <3>1
      <3>3. <<v>> = [n \in {1} |-> v]
        <4>1. DOMAIN <<v>> = 1..1 /\ <<v>>[1] = v /\ 1..1 = {1}
          OBVIOUS
        <4> QED
          BY <4>1
      <3> QED
        BY <3>1, <3>2, <3>3
    <2>5. MeanOf(f, <<v>>) = v
      BY <2>3, MeanOfOne
    <2> QED
      BY <2>1, <2>4, <2>5
  <1>8. F = [p \in Prefetchers |-> [f \in output_metrics |-> stats["Average"][p][f]]]
    BY <1>2, <1>7
  <1> QED
    BY <1>5, <1>8

\* No trace's name contains 'Average' the way the names of simpoints contain
\* their workload's.
LEMMA NoPartOfAverage ==
    ASSUME EvalInv, NEW t \in TracesOf(rows)
    PROVE  /\ t # "Average" /\ ~ Occurs("Average" \o "-", t) /\ ~ Occurs("Average" \o ".com", t) /\ ~ Occurs("Average", t)
           /\ ~ Occurs("." \o "Average" \o "-", t) /\ ~ Occurs("Average" \o "_phase", t)
  <1>1. PICK i \in DOMAIN rows : t = rows[i][1]
    BY DEF TracesOf
  <1>2. PICK k \in Key : k = rows[i]
    BY <1>1 DEF EvalInv, Listed
  <1>3. /\ k[1] # "Average"
        /\ \A s \in {"Average" \o "-", "Average" \o ".com", "Average", "." \o "Average" \o "-", "Average" \o "_phase"} :
            ~ Occurs(s, k[1])
    BY KeyAssumption
  <1> QED
    BY <1>1, <1>2, <1>3

\* Whatever kind of script: the figures' line 'Average' holds the rows.
LEMMA AverageLine ==
    ASSUME EvalInv, Later, LineFor("Average")[1]
    PROVE  LineFor("Average")[2] = [q \in Prefetchers |-> RowFor(q)]
  <1>1. PICK line : line = LineFor("Average")
    OBVIOUS
  <1>2. /\ script.record \in {"plain", "gap", "ligra", "spec", "storage", "cs", "gap4", "ligra4", "parsec4", "spec4"}
    BY ScriptsAssumption DEF EvalInv
  <1>3. \A q : script.record # "cs" => RowFor(q) = [f \in output_metrics |-> stats["Average"][q][f]]
    BY DEF RowFor, ResultRow
  <1>4. CASE script.record = "cs"
    <2>1. \A q : RowFor(q) = line[2][q]
      BY <1>1, <1>4 DEF RowFor, ResultRow, LineFor, FigsLine
    <2>2. PICK found : found = CsMerged(stats, Keys)
      OBVIOUS
    <2>3. PICK F : F = [p \in Prefetchers |-> [f \in output_metrics |->
                MeanOf(f, [n \in DOMAIN output_workloads |-> found[output_workloads[n]][2][p][f]])]]
      OBVIOUS
    <2>4. PICK ok \in BOOLEAN : ok = (\A x \in DOMAIN found : found[x][1])
      OBVIOUS
    <2>5. line = CsLine(stats, Keys, "Average")
      BY <1>1, <1>4 DEF LineFor, FigsLine
    <2>6. line = <<ok, IF ok THEN F ELSE Nothing>>
      BY <2>2, <2>3, <2>4, <2>5 DEF CsLine, LineOf
    <2>7. line[2] = F
      BY <1>1, <2>6, LineParts
    <2>8. F = [q \in Prefetchers |-> F[q]]
      BY <2>3
    <2> QED
      BY <1>1, <2>1, <2>7, <2>8
  <1>5. CASE script.record = "plain"
    <2>1. PICK w : w = "Average"
      OBVIOUS
    <2>2. LineFor(w)[1]
      BY <2>1
    <2>3. LineFor(w)[2] = [p \in Prefetchers |-> [f \in output_metrics |-> stats[w][p][f]]]
      BY <1>5, <2>2, PlainLineIs
    <2> QED
      BY <1>3, <1>5, <2>1, <2>3
  <1>6. ASSUME NEW parts, parts = <<"Average">>, line = MergedLine(stats, parts), script.record # "cs"
        PROVE  line[2] = [q \in Prefetchers |-> RowFor(q)]
    <2>1. line[2] = [p \in Prefetchers |-> [f \in output_metrics |-> stats["Average"][p][f]]]
      BY <1>1, <1>6, MergedAverage
    <2> QED
      BY <1>3, <1>6, <2>1
  <1>7. ToSet(Keys) = TracesOf(rows) \union {"Average"}
    BY KeysAre
  <1>8. \A t \in TracesOf(rows) : 
           /\ t # "Average" /\ ~ Occurs("Average" \o "-", t) /\ ~ Occurs("Average" \o ".com", t) /\ ~ Occurs("Average", t)
           /\ ~ Occurs("." \o "Average" \o "-", t) /\ ~ Occurs("Average" \o "_phase", t)
    BY NoPartOfAverage
  <1>9. CASE script.record \in {"gap", "spec", "gap4", "spec4"}
    <2>1. PICK M : M = {t \in ToSet(Keys) : Occurs("Average" \o "-", t) \/ t = "Average"}
      OBVIOUS
    <2>2. M \intersect ToSet(Keys) = {"Average"}
      BY <1>7, <1>8, <2>1
    <2>3. GapParts(Keys, "Average") = <<"Average">>
      BY <2>1, <2>2, PartsOfAverage DEF GapParts
    <2>4. line = MergedLine(stats, GapParts(Keys, "Average"))
      BY <1>1, <1>9 DEF LineFor, FigsLine, GapLine, SpecLine, Gap4Line, Spec4Line
    <2> QED
      BY <1>1, <1>6, <1>9, <2>3, <2>4
  <1>10. CASE script.record \in {"ligra", "ligra4"}
    <2>1. PICK M : M = {t \in ToSet(Keys) : Occurs("Average" \o ".com", t) \/ t = "Average"}
      OBVIOUS
    <2>2. M \intersect ToSet(Keys) = {"Average"}
      BY <1>7, <1>8, <2>1
    <2>3. LigraParts(Keys, "Average") = <<"Average">>
      BY <2>1, <2>2, PartsOfAverage DEF LigraParts
    <2>4. line = MergedLine(stats, LigraParts(Keys, "Average"))
      BY <1>1, <1>10 DEF LineFor, FigsLine, LigraLine, Ligra4Line
    <2> QED
      BY <1>1, <1>6, <1>10, <2>3, <2>4
  <1>11. CASE script.record = "parsec4"
    <2>1. PICK M : M = {t \in ToSet(Keys) : Occurs("Average", t) \/ t = "Average"}
      OBVIOUS
    <2>2. M \intersect ToSet(Keys) = {"Average"}
      BY <1>7, <1>8, <2>1
    <2>3. ParsecParts(Keys, "Average") = <<"Average">>
      BY <2>1, <2>2, PartsOfAverage DEF ParsecParts
    <2>4. line = MergedLine(stats, ParsecParts(Keys, "Average"))
      BY <1>1, <1>11 DEF LineFor, FigsLine, Parsec4Line
    <2> QED
      BY <1>1, <1>6, <1>11, <2>3, <2>4
  <1>12. CASE script.record = "storage"
    <2>1. PICK M : M = {t \in ToSet(Keys) : Occurs("." \o "Average" \o "-", t) \/ t = "Average"}
      OBVIOUS
    <2>2. M \intersect ToSet(Keys) = {"Average"}
      BY <1>7, <1>8, <2>1
    <2>3. StorageParts(Keys, "Average") = <<"Average">>
      BY <2>1, <2>2, PartsOfAverage DEF StorageParts
    <2>4. line = MergedLine(stats, StorageParts(Keys, "Average"))
      BY <1>1, <1>12 DEF LineFor, FigsLine, StorageLine
    <2> QED
      BY <1>1, <1>6, <1>12, <2>3, <2>4
  <1> QED
    BY <1>1, <1>2, <1>4, <1>5, <1>9, <1>10, <1>11, <1>12

\* The line 'Average' of the figures' CSV and the rows of the results' CSV
LEMMA Agreement == ASSUME EvalInv PROVE CsvsAgree
  <1> SUFFICES ASSUME results.run = "this"
               PROVE  /\ figs.run = "this"
                      /\ Len(figs.lines) = Len(FigsLines)
                      /\ \A i \in DOMAIN results.lines :
                          figs.lines[Len(figs.lines)] =
                            <<"Average", [figs.lines[Len(figs.lines)][2] EXCEPT ![results.lines[i][1]] = results.lines[i][2]]>>
    BY DEF CsvsAgree
  <1>1. PICK F, last : F = LineFor("Average")[2] /\ last = figs.lines[Len(figs.lines)]
    OBVIOUS
  <1>2. /\ Later /\ figs.run = "this" /\ Len(figs.lines) = Len(FigsLines)
        /\ last = <<"Average", F>> /\ LineFor("Average")[1]
    BY <1>1, LinesWritten
  <1>3. F = [q \in Prefetchers |-> RowFor(q)]
    BY <1>1, <1>2, AverageLine
  <1>4. ASSUME NEW i \in DOMAIN results.lines
        PROVE  last = <<"Average", [last[2] EXCEPT ![results.lines[i][1]] = results.lines[i][2]]>>
    <2>1. PICK q \in Prefetchers : results.lines[i] = <<q, RowFor(q)>>
      BY LinesWritten
    <2>2. PICK x : x = RowFor(q) /\ F[q] = x
      BY <1>3
    <2>3. results.lines[i][1] = q /\ results.lines[i][2] = x
      BY <2>1, <2>2
    <2>4. F = [p \in DOMAIN F |-> F[p]]
      BY <1>3
    <2>5. [F EXCEPT ![q] = x] = F
      BY <2>2, <2>4
    <2> QED
      BY <1>2, <2>3, <2>5
  <1> QED
    BY <1>1, <1>2, <1>4

\* Whatever the script, the configuration and the reports: the results' CSV
\* of a run has beside it that run's whole figures' CSV, whose line 'Average'
\* holds the same numbers.
THEOREM EvaluationCsvsAgree == Spec => []CsvsAgree
  BY EvaluationInvariance, Agreement, PTL

-----------------------------------------------------------------------------
(* The order of the rows of a trace.                                       *)

\* A variant whose rows read of the baseline what a repair leaves as it is
OrderFree(v) == v # "total traffic"
Misses(v) == v = "miss traffic"

\* What the repairs of a baseline make of a cell of field f
Repairs == EvaluateCaches \X {"Accesses", "Misses"}
Mended(f, v) ==
    IF f \in Repairs /\ f[2] = "Accesses" THEN Or(v, One)
    ELSE IF f \in Repairs /\ f[2] = "Misses" THEN IF v \in {Dash, Zero} THEN One ELSE v
    ELSE v

\* The fields of the baseline that the other rows read
IpcField == <<"", "IPC">>
BaseFields == Repairs \union {IpcField}

\* Tables whose row p on core i cal_final_results makes the same of: the same
\* row, and a baseline that differs in repairs at most
Alike(s, t, p, i) ==
    /\ p # "no" => \A f \in Fields : In(s, p, f, i) = In(t, p, f, i)
    /\ \A f \in (IF p = "no" THEN Fields ELSE BaseFields) : Mended(f, In(s, "no", f, i)) = Mended(f, In(t, "no", f, i))

\* The baseline's cells of cache c on core i are repaired.
Sound(s, c, i) ==
    \A name \in {"Accesses", "Misses"} : Mended(<<c, name>>, In(s, "no", <<c, name>>, i)) = In(s, "no", <<c, name>>, i)

\* A repair repairs, and touches only what it repairs.
LEMMA MendedOnce ==
    ASSUME NEW f, NEW v
    PROVE  /\ Mended(f, Mended(f, v)) = Mended(f, v)
           /\ f \notin Repairs => Mended(f, v) = v
  BY NumbersOfRow DEF Mended, Or

\* What the repairs make of accesses and of misses, each.
LEMMA MendedCells ==
    ASSUME NEW c \in EvaluateCaches, NEW v
    PROVE  /\ Mended(<<c, "Accesses">>, v) = Or(v, One)
           /\ Mended(<<c, "Misses">>, v) = IF v \in {Dash, Zero} THEN One ELSE v
  BY DEF Mended, Repairs

\* The fields of Readable
LEMMA FieldsRead ==
    ASSUME NEW v \in RowVariants, Readable(v)
    PROVE  /\ BaseFields \subseteq Fields
           /\ <<"", "IPC">> \in Fields /\ <<"", "Instructions">> \in Fields
           /\ \A c \in EvaluateCaches : \A name \in Shared \union {"Prefetches", "Prefetch Hits", "Non-useful Prefetches"} : <<c, name>> \in Fields
           /\ v = "miss traffic" => \A c \in EvaluateCaches : \A name \in {"Prefetch Miss", "Prefetch Access"} : <<c, name>> \in Fields
  <1>1. <<"", "IPC">> \in Fields /\ <<"", "Instructions">> \in Fields
    BY DEF Readable, RowFields
  <1>2. \A c \in EvaluateCaches : \A name \in Shared \union {"Prefetches", "Prefetch Hits", "Non-useful Prefetches"} : <<c, name>> \in Fields
    BY DEF Readable, RowFields, Shared
  <1>3. v = "miss traffic" => \A c \in EvaluateCaches : \A name \in {"Prefetch Miss", "Prefetch Access"} : <<c, name>> \in Fields
    BY DEF Readable, RowFields
  <1>4. ASSUME NEW f \in Repairs PROVE f \in Fields
    <2>1. PICK c \in EvaluateCaches, name \in {"Accesses", "Misses"} : f = <<c, name>>
      BY DEF Repairs
    <2>2. name \in Shared
      BY <2>1 DEF Shared
    <2> QED
      BY <1>2, <2>1, <2>2
  <1> QED
    BY <1>1, <1>2, <1>3, <1>4 DEF BaseFields, IpcField

\* What a row reads of alike tables is the same.
LEMMA ReadsAlike ==
    ASSUME NEW v \in RowVariants, Readable(v), NEW s, NEW t, NEW p, NEW i, Alike(s, t, p, i)
    PROVE  \A f \in Fields \ Repairs : In(s, p, f, i) = In(t, p, f, i)
  BY MendedOnce DEF Alike

\* The repairs of a step find the same in alike tables.
LEMMA RepairsAlike ==
    ASSUME NEW v \in RowVariants, Readable(v), NEW s, NEW t, NEW p, NEW i, Alike(s, t, p, i), NEW c \in EvaluateCaches
    PROVE  Repaired(s, p, c, i) = Repaired(t, p, c, i)
  <1>1. <<c, "Accesses">> \in Fields /\ <<c, "Misses">> \in Fields /\ <<c, "Accesses">> \in BaseFields /\ <<c, "Misses">> \in BaseFields
    BY FieldsRead DEF Shared, BaseFields, Repairs
  <1>2. PICK sa, sm, ta, tm : /\ sa = In(s, "no", <<c, "Accesses">>, i) /\ sm = In(s, "no", <<c, "Misses">>, i)
                              /\ ta = In(t, "no", <<c, "Accesses">>, i) /\ tm = In(t, "no", <<c, "Misses">>, i)
    OBVIOUS
  <1>3. /\ Mended(<<c, "Accesses">>, sa) = Mended(<<c, "Accesses">>, ta)
        /\ Mended(<<c, "Misses">>, sm) = Mended(<<c, "Misses">>, tm)
    BY <1>1, <1>2 DEF Alike
  <1>4. /\ Or(sa, One) = Or(ta, One)
        /\ (IF sm \in {Dash, Zero} THEN One ELSE sm) = (IF tm \in {Dash, Zero} THEN One ELSE tm)
    BY <1>3, MendedCells
  <1>5. CASE p = "no"
    BY <1>2, <1>4, <1>5 DEF Repaired
  <1>6. CASE p # "no"
    <2>1. In(s, p, <<c, "Accesses">>, i) = In(t, p, <<c, "Accesses">>, i) /\ In(s, p, <<c, "Misses">>, i) = In(t, p, <<c, "Misses">>, i)
      BY <1>1, <1>6 DEF Alike
    <2> QED
      BY <1>2, <1>4, <1>6, <2>1 DEF Repaired
  <1> QED
    BY <1>5, <1>6

\* What a step reads of a row besides what it repairs
Requested == {"Prefetches", "Prefetch Hits", "Non-useful Prefetches"}
\* The fields of Requested are read, and no repair touches them.
LEMMA OwnFields ==
    ASSUME NEW v \in RowVariants, Readable(v), NEW c \in EvaluateCaches
    PROVE  \A name \in Requested : <<c, name>> \in Fields \ Repairs
  BY FieldsRead DEF Repairs, Requested

Missing == {"Prefetch Miss", "Prefetch Access"}
\* The two fields of the miss traffic are read, and no repair touches them.
LEMMA MissFields ==
    ASSUME NEW v \in RowVariants, Readable(v), Misses(v), NEW c \in EvaluateCaches
    PROVE  \A name \in Missing : <<c, name>> \in Fields \ Repairs
  BY FieldsRead DEF Repairs, Misses, Missing

\* The IPC and the instructions are read, and no repair touches them.
LEMMA RowNumbers ==
    ASSUME NEW v \in RowVariants, Readable(v)
    PROVE  \A name \in {"IPC", "Instructions"} : <<"", name>> \in Fields \ Repairs
  BY FieldsRead, NotACache DEF Repairs

\* The cells of a row that alike tables give
LEMMA TrafficAlike ==
    ASSUME NEW v \in RowVariants, Readable(v), NEW s, NEW t, NEW p, NEW i, Alike(s, t, p, i), NEW c \in EvaluateCaches, NEW r
    PROVE  RequestTraffic(s, p, c, i, r) = RequestTraffic(t, p, c, i, r)
  <1>1. \A f \in Fields \ Repairs : In(s, p, f, i) = In(t, p, f, i)
    BY ReadsAlike
  <1>2. \A name \in Requested : In(s, p, <<c, name>>, i) = In(t, p, <<c, name>>, i)
    BY <1>1, OwnFields
  <1>3. In(s, p, <<c, "Prefetches">>, i) = In(t, p, <<c, "Prefetches">>, i)
    BY <1>2 DEF Requested
  <1> QED
    BY <1>3 DEF RequestTraffic

\* The overprediction of alike tables is the same.
LEMMA ExcessAlike ==
    ASSUME NEW v \in RowVariants, Readable(v), NEW s, NEW t, NEW p, NEW i, Alike(s, t, p, i), NEW c \in EvaluateCaches, NEW r
    PROVE  ScaledExcess(s, p, c, i, r) = ScaledExcess(t, p, c, i, r)
  <1>1. \A f \in Fields \ Repairs : In(s, p, f, i) = In(t, p, f, i)
    BY ReadsAlike
  <1>2. \A name \in Requested : In(s, p, <<c, name>>, i) = In(t, p, <<c, name>>, i)
    BY <1>1, OwnFields
  <1>3. In(s, p, <<c, "Non-useful Prefetches">>, i) = In(t, p, <<c, "Non-useful Prefetches">>, i)
    BY <1>2 DEF Requested
  <1> QED
    BY <1>3 DEF ScaledExcess, Useless

\* The miss traffic of alike tables is the same.
LEMMA RequestsAlike ==
    ASSUME NEW v \in RowVariants, Readable(v), Misses(v),
           NEW s, NEW t, NEW p, NEW i, Alike(s, t, p, i), NEW c \in EvaluateCaches
    PROVE  /\ \A r : MissTraffic(s, p, c, i, r) = MissTraffic(t, p, c, i, r)
           /\ Requests(s, p, c, i) = Requests(t, p, c, i)
  <1>1. \A f \in Fields \ Repairs : In(s, p, f, i) = In(t, p, f, i)
    BY ReadsAlike
  <1>2. \A name \in Missing : In(s, p, <<c, name>>, i) = In(t, p, <<c, name>>, i)
    BY <1>1, MissFields
  <1>3. Missed(s, p, c, i) = Missed(t, p, c, i) /\ Asked(s, p, c, i) = Asked(t, p, c, i)
    BY <1>2 DEF Missed, Asked, Missing
  <1> QED
    BY <1>3 DEF MissTraffic, Requests

\* The cells that all variants write are the same in alike tables.
LEMMA CellsAlike ==
    ASSUME NEW v \in RowVariants, Readable(v), NEW s, NEW t, NEW p, NEW i, Alike(s, t, p, i), NEW c \in EvaluateCaches,
           NEW r, NEW a, NEW b, NEW d, NEW e
    PROVE  RowCells(s, p, c, i, r, a, b, d, e) = RowCells(t, p, c, i, r, a, b, d, e)
  <1> DEFINE hits(w) == In(w, p, <<c, "Prefetch Hits">>, i)
             used(w) == Plus(hits(w), In(w, p, <<c, "Non-useful Prefetches">>, i))
             accuracy(w) == IF used(w) = Zero THEN e ELSE Over(hits(w), used(w))
             instructions(w) == In(w, p, <<"", "Instructions">>, i)
             mpki(w) == Over(Times(Num(1000), r.misses), instructions(w))
             cells(x, y) == [name \in Shared |->
                CASE name = "Accesses" -> r.accesses
                  [] name = "Misses" -> r.misses
                  [] name = "traffic" -> a
                  [] name = "Coverage" -> b
                  [] name = "Uncovered" -> Minus(One, b)
                  [] name = "Overprediction" -> d
                  [] name = "Accuracy" -> x
                  [] name = "MPKI" -> y]
  <1>1. \A f \in Fields \ Repairs : In(s, p, f, i) = In(t, p, f, i)
    BY ReadsAlike
  <1>2. \A name \in Requested : In(s, p, <<c, name>>, i) = In(t, p, <<c, name>>, i)
    BY <1>1, OwnFields
  <1>3. hits(s) = hits(t)
    BY <1>2 DEF Requested
  <1>4. used(s) = used(t)
    <2>1. In(s, p, <<c, "Non-useful Prefetches">>, i) = In(t, p, <<c, "Non-useful Prefetches">>, i)
      BY <1>2 DEF Requested
    <2> HIDE DEF hits
    <2> QED
      BY <1>3, <2>1
  <1>5. accuracy(s) = accuracy(t)
    <2> HIDE DEF hits, used
    <2> QED
      BY <1>3, <1>4
  <1>6. mpki(s) = mpki(t)
    <2>1. \A name \in {"IPC", "Instructions"} : <<"", name>> \in Fields \ Repairs
      BY RowNumbers
    <2>2. instructions(s) = instructions(t)
      BY <1>1, <2>1
    <2> HIDE DEF instructions
    <2> QED
      BY <2>2
  <1>7. RowCells(s, p, c, i, r, a, b, d, e) = cells(accuracy(s), mpki(s))
    BY DEF RowCells, Shared
  <1>8. RowCells(t, p, c, i, r, a, b, d, e) = cells(accuracy(t), mpki(t))
    BY DEF RowCells, Shared
  <1> HIDE DEF accuracy, mpki, cells
  <1> QED
    BY <1>5, <1>6, <1>7, <1>8

\* A cache's step writes the same into alike tables.
LEMMA NewBaseAlike ==
    ASSUME NEW v \in RowVariants, Readable(v), OrderFree(v),
           NEW s, NEW t, NEW p, NEW i, Alike(s, t, p, i), NEW c \in EvaluateCaches
    PROVE  NewBase(v, s, p, c, i) = NewBase(v, t, p, c, i)
  <1>1. Repaired(s, p, c, i) = Repaired(t, p, c, i)
    BY RepairsAlike
  <1>2. c # ""
    BY NotACache
  <1> QED
    BY <1>1, <1>2 DEF NewBase, OrderFree

\* The cells of a cache that a variant writes are the same in alike tables, the total traffic's aside.
LEMMA CacheRowAlike ==
    ASSUME NEW v \in RowVariants, Readable(v), OrderFree(v),
           NEW s, NEW t, NEW p, NEW i, Alike(s, t, p, i), NEW c \in EvaluateCaches, NEW r
    PROVE  CacheRow(v, s, p, c, i, r) = CacheRow(v, t, p, c, i, r)
  <1> DEFINE cells(w, a, b, d, e) == RowCells(w, p, c, i, r, a, b, d, e)
  <1>1. \A a, b, d, e : cells(s, a, b, d, e) = cells(t, a, b, d, e)
    BY CellsAlike
  <1>2. PICK tr : tr = RequestTraffic(s, p, c, i, r) /\ tr = RequestTraffic(t, p, c, i, r)
    BY TrafficAlike
  <1>3. PICK ex : ex = ScaledExcess(s, p, c, i, r) /\ ex = ScaledExcess(t, p, c, i, r)
    BY ExcessAlike
  <1>4. CASE v = "scaled"
    <2>1. CacheRow(v, s, p, c, i, r) = cells(s, tr, ScaledCoverage(r), ex, Dash)
      BY <1>2, <1>3, <1>4 DEF CacheRow
    <2>2. CacheRow(v, t, p, c, i, r) = cells(t, tr, ScaledCoverage(r), ex, Dash)
      BY <1>2, <1>3, <1>4 DEF CacheRow
    <2> HIDE DEF cells
    <2> QED
      BY <1>1, <2>1, <2>2
  <1>5. CASE v = "plain"
    <2>1. CacheRow(v, s, p, c, i, r) = cells(s, tr, PlainCoverage(r), ex, Dash)
      BY <1>2, <1>3, <1>5 DEF CacheRow
    <2>2. CacheRow(v, t, p, c, i, r) = cells(t, tr, PlainCoverage(r), ex, Dash)
      BY <1>2, <1>3, <1>5 DEF CacheRow
    <2> HIDE DEF cells
    <2> QED
      BY <1>1, <2>1, <2>2
  <1>6. CASE v = "miss traffic"
    <2>0. Misses(v)
      BY <1>6 DEF Misses
    <2>1. PICK mt : mt = MissTraffic(s, p, c, i, r) /\ mt = MissTraffic(t, p, c, i, r)
      BY <2>0, RequestsAlike
    <2>2. PICK rq : rq = Requests(s, p, c, i) /\ rq = Requests(t, p, c, i)
      BY <2>0, RequestsAlike
    <2>3. CacheRow(v, s, p, c, i, r) = Also(cells(s, mt, ScaledCoverage(r), ex, Dash), rq)
      BY <1>3, <1>6, <2>1, <2>2 DEF CacheRow
    <2>4. CacheRow(v, t, p, c, i, r) = Also(cells(t, mt, ScaledCoverage(r), ex, Dash), rq)
      BY <1>3, <1>6, <2>1, <2>2 DEF CacheRow
    <2> HIDE DEF cells
    <2> QED
      BY <1>1, <2>3, <2>4
  <1> QED
    BY <1>4, <1>5, <1>6 DEF RowVariants, OrderFree

\* A cache's step writes the same row into alike tables.
LEMMA NewRowAlike ==
    ASSUME NEW v \in RowVariants, Readable(v), OrderFree(v),
           NEW s, NEW t, NEW p, NEW i, Alike(s, t, p, i), NEW c \in EvaluateCaches
    PROVE  NewRow(v, s, p, c, i) = NewRow(v, t, p, c, i)
  <1>1. Repaired(s, p, c, i) = Repaired(t, p, c, i)
    BY RepairsAlike
  <1>2. PICK r : r = Repaired(s, p, c, i)
    OBVIOUS
  <1>3. c # ""
    BY NotACache
  <1>4. NewRow(v, s, p, c, i) = CacheRow(v, s, p, c, i, r)
    BY <1>2, <1>3 DEF NewRow
  <1>5. NewRow(v, t, p, c, i) = CacheRow(v, t, p, c, i, r)
    BY <1>1, <1>2, <1>3 DEF NewRow
  <1> QED
    BY <1>4, <1>5, CacheRowAlike

\* The steps of a row: the caches', and the last one
AfterCaches == ""
RowSteps == EvaluateCaches \union {AfterCaches}

\* The last step is none of a cache.
LEMMA LastIs == AfterCaches \notin EvaluateCaches /\ RowSteps = EvaluateCaches \union {""}
  BY NotACache DEF AfterCaches, RowSteps

\* The last step leaves the baseline alone, and what other rows read.
LEMMA LastNames ==
    ASSUME NEW v
    PROVE  /\ BaseNames(v, AfterCaches) = {}
           /\ \A name \in {"IPC", "Accesses", "Misses"} : name \notin RowNames(v, AfterCaches)
  BY DEF BaseNames, RowNames, AfterCaches

\* The IPC is read by the last step, and no repair touches it.
LEMMA IpcFieldIs == IpcField[1] = AfterCaches /\ IpcField[2] = "IPC" /\ IpcField \notin Repairs
  BY NotACache DEF IpcField, Repairs, AfterCaches

\* A field is a pair.
LEMMA FieldPair == ASSUME NEW f \in Fields PROVE f = <<f[1], f[2]>>
  BY FieldsAssumption

\* What a step writes, cell by cell.
CellAfter(u, s, p, c, i, M, base, N, row, q, f, j) ==
    In(u, q, f, j) = IF q = p /\ f[1] = c /\ j = i /\ f[2] \in N THEN row[f[2]]
                     ELSE IF q = "no" /\ p # "no" /\ f[1] = c /\ j = i /\ f[2] \in M THEN base[f[2]]
                     ELSE In(s, q, f, j)

\* What one step of a row leaves in every cell of the table.
LEMMA StepCells ==
    ASSUME NEW v \in RowVariants, Readable(v), NEW P, "no" \in P, NEW s \in Tables(P), NEW p \in P, NEW i \in Cores,
           NEW c \in RowSteps, NEW q \in P, NEW f \in Fields, NEW j \in Cores
    PROVE  CellAfter(Step(v, s, p, c, i), s, p, c, i, BaseNames(v, c), NewBase(v, s, p, c, i), RowNames(v, c),
                     NewRow(v, s, p, c, i), q, f, j)
  <1> DEFINE u == Step(v, s, p, c, i)
             base == NewBase(v, s, p, c, i)
             row == NewRow(v, s, p, c, i)
             M == BaseNames(v, c)
             N == RowNames(v, c)
  <1>1. Wrote(u, s, P, p, c, i, M, base, N, row)
    BY LastIs, StepWrites DEF Writes
  <1> HIDE DEF u, base, row, M, N
  <1>2. PICK x \in Fields \X Cores : x = <<f, j>>
    OBVIOUS
  <1>3. x[1] = f /\ x[2] = j
    BY <1>2
  <1>4. u[q][x] = IF q = p /\ x[1][1] = c /\ x[2] = i /\ x[1][2] \in N THEN row[x[1][2]]
                  ELSE IF q = "no" /\ p # "no" /\ x[1][1] = c /\ x[2] = i /\ x[1][2] \in M THEN base[x[1][2]]
                  ELSE s[q][x]
    BY <1>1 DEF Wrote
  <1> QED
    BY <1>2, <1>3, <1>4 DEF CellAfter, In, u, base, row, M, N

\* A step of another row, or on another core
LEMMA StepElsewhere ==
    ASSUME NEW v \in RowVariants, Readable(v), NEW P, "no" \in P, NEW s \in Tables(P), NEW p \in P, NEW i \in Cores,
           NEW c \in RowSteps, NEW q \in P, NEW f \in Fields, NEW j \in Cores,
           q \notin {p, "no"} \/ j # i
    PROVE  In(Step(v, s, p, c, i), q, f, j) = In(s, q, f, j)
  <1> DEFINE M == BaseNames(v, c)
             N == RowNames(v, c)
             base == NewBase(v, s, p, c, i)
             row == NewRow(v, s, p, c, i)
             u == Step(v, s, p, c, i)
  <1>1. CellAfter(u, s, p, c, i, M, base, N, row, q, f, j)
    BY StepCells
  <1> HIDE DEF M, N, base, row, u
  <1>2. In(u, q, f, j) = In(s, q, f, j)
    BY <1>1 DEF CellAfter
  <1> QED
    BY <1>2 DEF u

\* The repairs a step makes of its cache's baseline
LEMMA BaseIsMended ==
    ASSUME NEW v, OrderFree(v), NEW s, NEW p, NEW i, NEW c \in EvaluateCaches, NEW name \in {"Accesses", "Misses"},
           NEW f, f = <<c, name>>
    PROVE  NewBase(v, s, p, c, i)[name] = Mended(f, In(s, "no", f, i))
  <1>1. PICK r : r = Repaired(s, p, c, i)
    OBVIOUS
  <1>2. PICK a, m : a = In(s, "no", <<c, "Accesses">>, i) /\ m = In(s, "no", <<c, "Misses">>, i)
    OBVIOUS
  <1>3. r.baseAccesses = Or(a, One) /\ r.baseMisses = IF m \in {Dash, Zero} THEN One ELSE m
    BY <1>1, <1>2 DEF Repaired
  <1>4. NewBase(v, s, p, c, i) = BaseCells(r)
    BY <1>1, NotACache DEF NewBase, OrderFree
  <1>5. /\ BaseCells(r)["Accesses"] = Or(a, One)
        /\ BaseCells(r)["Misses"] = IF m \in {Dash, Zero} THEN One ELSE m
    BY <1>3 DEF BaseCells
  <1>6. /\ Mended(<<c, "Accesses">>, a) = Or(a, One)
        /\ Mended(<<c, "Misses">>, m) = IF m \in {Dash, Zero} THEN One ELSE m
    BY MendedCells
  <1> QED
    BY <1>2, <1>4, <1>5, <1>6

\* What a cache's row says of its accesses and misses
LEMMA RowCellsRepairs ==
    ASSUME NEW s, NEW p, NEW c, NEW i, NEW r, NEW a, NEW b, NEW d, NEW e
    PROVE  LET cells == RowCells(s, p, c, i, r, a, b, d, e)
           IN  DOMAIN cells = Shared /\ cells["Accesses"] = r.accesses /\ cells["Misses"] = r.misses
  BY DEF RowCells, Shared

\* A step writes into its own row the accesses and the misses it repaired.
LEMMA NewRowRepairs ==
    ASSUME NEW v \in RowVariants, OrderFree(v), NEW s, NEW p, NEW i, NEW c \in EvaluateCaches
    PROVE  /\ NewRow(v, s, p, c, i)["Accesses"] = Repaired(s, p, c, i).accesses
           /\ NewRow(v, s, p, c, i)["Misses"] = Repaired(s, p, c, i).misses
  <1>1. PICK r : r = Repaired(s, p, c, i)
    OBVIOUS
  <1>2. NewRow(v, s, p, c, i) = CacheRow(v, s, p, c, i, r)
    BY <1>1, NotACache DEF NewRow
  <1>3. PICK tr, co, ex, e, cells, more :
            /\ cells = RowCells(s, p, c, i, r, tr, co, ex, e)
            /\ more = Requests(s, p, c, i)
            /\ CacheRow(v, s, p, c, i, r) \in {cells, Also(cells, more)}
    <2>1. CASE v = "scaled"
      BY <2>1 DEF CacheRow
    <2>2. CASE v = "plain"
      BY <2>2 DEF CacheRow
    <2>3. CASE v = "miss traffic"
      BY <2>3 DEF CacheRow
    <2> QED
      BY <2>1, <2>2, <2>3 DEF RowVariants, OrderFree
  <1>4. DOMAIN cells = Shared /\ cells["Accesses"] = r.accesses /\ cells["Misses"] = r.misses
    BY <1>3, RowCellsRepairs
  <1>5. "Accesses" \in DOMAIN cells /\ "Misses" \in DOMAIN cells
    BY <1>4 DEF Shared
  <1>6. "Accesses" \notin DOMAIN more /\ "Misses" \notin DOMAIN more
    BY <1>3 DEF Requests
  <1>7. Also(cells, more)["Accesses"] = cells["Accesses"] /\ Also(cells, more)["Misses"] = cells["Misses"]
    BY <1>5, <1>6, AlsoKeeps
  <1> QED
    BY <1>1, <1>2, <1>3, <1>4, <1>7

\* and the baseline's own step
LEMMA RowIsMended ==
    ASSUME NEW v \in RowVariants, Readable(v), OrderFree(v), NEW P, "no" \in P, NEW s \in Tables(P), NEW i \in Cores,
           NEW c \in EvaluateCaches, NEW name \in {"Accesses", "Misses"}, NEW f, f = <<c, name>>
    PROVE  NewRow(v, s, "no", c, i)[name] = Mended(f, In(s, "no", f, i))
  <1>1. PICK r : r = Repaired(s, "no", c, i)
    OBVIOUS
  <1>2. PICK a, m : a = In(s, "no", <<c, "Accesses">>, i) /\ m = In(s, "no", <<c, "Misses">>, i)
    OBVIOUS
  <1>3. r.accesses = Or(a, One) /\ r.misses = IF m \in {Dash, Zero} THEN One ELSE m
    BY <1>1, <1>2 DEF Repaired
  <1>4. NewRow(v, s, "no", c, i)["Accesses"] = r.accesses /\ NewRow(v, s, "no", c, i)["Misses"] = r.misses
    BY <1>1, NewRowRepairs
  <1>5. /\ Mended(<<c, "Accesses">>, a) = Or(a, One)
        /\ Mended(<<c, "Misses">>, m) = IF m \in {Dash, Zero} THEN One ELSE m
    BY MendedCells
  <1> QED
    BY <1>2, <1>3, <1>4, <1>5

\* A cache's names
LEMMA CacheNames ==
    ASSUME NEW v, OrderFree(v), NEW c \in EvaluateCaches
    PROVE  /\ BaseNames(v, c) = {"Accesses", "Misses"}
           /\ {"Accesses", "Misses"} \subseteq RowNames(v, c)
           /\ "IPC" \notin RowNames(v, c)
  <1>1. c # ""
    BY NotACache
  <1> QED
    BY <1>1 DEF BaseNames, RowNames, OrderFree, Shared

\* A cell and its repair
Kept(f, u, s) == u \in {s, Mended(f, s)}

\* The fields of the baseline that a row of p may only repair
Untouched(p) == IF p = "no" THEN BaseFields ELSE Fields

\* A repaired field is one of a cache's accesses or misses.
LEMMA RepairsAre ==
    ASSUME NEW f \in Repairs
    PROVE  f[1] \in EvaluateCaches /\ f[2] \in {"Accesses", "Misses"} /\ f = <<f[1], f[2]>>
  BY DEF Repairs

\* What a step leaves of the baseline's cells
LEMMA StepKeeps ==
    ASSUME NEW v \in RowVariants, Readable(v), OrderFree(v), NEW P, "no" \in P, NEW s \in Tables(P), NEW p \in P,
           NEW i \in Cores, NEW c \in RowSteps, NEW f \in Untouched(p)
    PROVE  Kept(f, In(Step(v, s, p, c, i), "no", f, i), In(s, "no", f, i))
  <1> DEFINE M == BaseNames(v, c)
             N == RowNames(v, c)
             base == NewBase(v, s, p, c, i)
             row == NewRow(v, s, p, c, i)
             u == Step(v, s, p, c, i)
  <1>1. f \in Fields
    BY FieldsRead DEF Untouched
  <1>2. CellAfter(u, s, p, c, i, M, base, N, row, "no", f, i)
    BY <1>1, StepCells
  <1> HIDE DEF M, N, base, row, u
  <1>3. In(u, "no", f, i) = IF "no" = p /\ f[1] = c /\ f[2] \in N THEN row[f[2]]
                            ELSE IF p # "no" /\ f[1] = c /\ f[2] \in M THEN base[f[2]]
                            ELSE In(s, "no", f, i)
    BY <1>2 DEF CellAfter
  <1>4. CASE c = AfterCaches
    <2>1. M = {} /\ \A name \in {"IPC", "Accesses", "Misses"} : name \notin N
      BY <1>4, LastNames DEF M, N
    <2>2. p = "no" /\ f[1] = c => f[2] \notin N
      <3>1. p = "no" => f \in Repairs \/ f = IpcField
        BY DEF Untouched, BaseFields
      <3> QED
        BY <2>1, <3>1, RepairsAre, IpcFieldIs
    <2> QED
      BY <1>3, <2>1, <2>2 DEF u, Kept
  <1>5. CASE c \in EvaluateCaches
    <2>1. c \in EvaluateCaches
      BY <1>5
    <2>2. M = {"Accesses", "Misses"}
      BY <2>1, CacheNames DEF M
    <2>3. CASE p = "no" /\ f[1] = c /\ f[2] \in N
      <3>1. f \in Repairs
        <4>1. f \in Repairs \/ f = IpcField
          BY <2>3 DEF Untouched, BaseFields
        <4> QED
          BY <1>5, <2>3, <4>1, LastIs, IpcFieldIs
      <3>2. PICK name \in {"Accesses", "Misses"} : f = <<c, name>> /\ f[2] = name
        BY <2>3, <3>1, RepairsAre
      <3>3. NewRow(v, s, "no", c, i)[name] = Mended(f, In(s, "no", f, i))
        BY <2>1, <3>2, RowIsMended
      <3>4. row[name] = Mended(f, In(s, "no", f, i))
        BY <2>3, <3>2, <3>3 DEF row
      <3> QED
        BY <1>3, <2>3, <3>2, <3>4 DEF u, Kept
    <2>4. CASE p # "no" /\ f[1] = c /\ f[2] \in M
      <3>1. PICK name \in {"Accesses", "Misses"} : f[2] = name
        BY <2>2, <2>4
      <3>2. f = <<c, name>>
        BY <1>1, <2>4, <3>1, FieldPair
      <3>3. base[name] = Mended(f, In(s, "no", f, i))
        BY <2>1, <3>2, BaseIsMended DEF base
      <3> QED
        BY <1>3, <2>4, <3>1, <3>3 DEF u, Kept
    <2> QED
      BY <1>3, <2>3, <2>4 DEF u, Kept
  <1> QED
    BY <1>4, <1>5 DEF RowSteps

\* The step of a cache repairs its baseline.
LEMMA StepMends ==
    ASSUME NEW v \in RowVariants, Readable(v), OrderFree(v), NEW P, "no" \in P, NEW s \in Tables(P), NEW p \in P,
           NEW i \in Cores, NEW c \in EvaluateCaches, NEW f \in Repairs, f[1] = c
    PROVE  In(Step(v, s, p, c, i), "no", f, i) = Mended(f, In(s, "no", f, i))
  <1> DEFINE M == BaseNames(v, c)
             N == RowNames(v, c)
             base == NewBase(v, s, p, c, i)
             row == NewRow(v, s, p, c, i)
             u == Step(v, s, p, c, i)
  <1>1. f \in Fields
    BY FieldsRead DEF BaseFields
  <1>0. c \in RowSteps
    BY DEF RowSteps
  <1>2. PICK name \in {"Accesses", "Misses"} : f = <<c, name>> /\ f[2] = name
    BY RepairsAre
  <1>3. CellAfter(u, s, p, c, i, M, base, N, row, "no", f, i)
    BY <1>0, <1>1, StepCells
  <1>4. name \in M /\ name \in N
    BY CacheNames
  <1>5. base[name] = Mended(f, In(s, "no", f, i))
    BY <1>2, BaseIsMended
  <1>6. p = "no" => row[name] = Mended(f, In(s, "no", f, i))
    BY <1>2, RowIsMended
  <1> HIDE DEF M, N, base, row, u
  <1>7. In(u, "no", f, i) = IF "no" = p THEN row[name] ELSE base[name]
    BY <1>2, <1>3, <1>4 DEF CellAfter
  <1> QED
    BY <1>5, <1>6, <1>7 DEF u

\* The step of a cache keeps tables alike.
LEMMA StepAlike ==
    ASSUME NEW v \in RowVariants, Readable(v), OrderFree(v), NEW P, "no" \in P, NEW s \in Tables(P), NEW t \in Tables(P),
           NEW p \in P, NEW i \in Cores, Alike(s, t, p, i), NEW c \in EvaluateCaches
    PROVE  Alike(Step(v, s, p, c, i), Step(v, t, p, c, i), p, i)
  <1> DEFINE M == BaseNames(v, c)
             N == RowNames(v, c)
             sb == NewBase(v, s, p, c, i)
             tb == NewBase(v, t, p, c, i)
             sr == NewRow(v, s, p, c, i)
             tr == NewRow(v, t, p, c, i)
             su == Step(v, s, p, c, i)
             tu == Step(v, t, p, c, i)
  <1>1. sb = tb
    BY NewBaseAlike
  <1>2. sr = tr
    BY NewRowAlike
  <1>3. c \in RowSteps
    BY DEF RowSteps
  <1>4. \A q \in P, f \in Fields : CellAfter(su, s, p, c, i, M, sb, N, sr, q, f, i)
    BY <1>3, StepCells
  <1>5. \A q \in P, f \in Fields : CellAfter(tu, t, p, c, i, M, tb, N, tr, q, f, i)
    BY <1>3, StepCells
  <1> HIDE DEF M, N, sb, tb, sr, tr, su, tu
  <1>6. \A q \in {p, "no"}, f \in Fields : In(s, q, f, i) = In(t, q, f, i) => In(su, q, f, i) = In(tu, q, f, i)
    BY <1>1, <1>2, <1>4, <1>5 DEF CellAfter
  <1>7. ASSUME NEW f \in Fields, Mended(f, In(s, "no", f, i)) = Mended(f, In(t, "no", f, i))
        PROVE  Mended(f, In(su, "no", f, i)) = Mended(f, In(tu, "no", f, i))
    <2>1. In(su, "no", f, i) = In(tu, "no", f, i) \/ (In(su, "no", f, i) = In(s, "no", f, i) /\ In(tu, "no", f, i) = In(t, "no", f, i))
      BY <1>1, <1>2, <1>4, <1>5 DEF CellAfter
    <2> QED
      BY <1>7, <2>1
  <1>8. p # "no" => \A f \in Fields : In(su, p, f, i) = In(tu, p, f, i)
    BY <1>6 DEF Alike
  <1>9. \A f \in (IF p = "no" THEN Fields ELSE BaseFields) : f \in Fields
    BY FieldsRead
  <1>10. \A f \in (IF p = "no" THEN Fields ELSE BaseFields) :
            Mended(f, In(su, "no", f, i)) = Mended(f, In(tu, "no", f, i))
    BY <1>7, <1>9 DEF Alike
  <1> QED
    BY <1>8, <1>10 DEF Alike, su, tu

\* Tables whose row p and baseline are repaired and alike: what the last step
\* reads of them is the same
Same(s, t, p, i) ==
    /\ \A f \in Fields : In(s, p, f, i) = In(t, p, f, i)
    /\ \A f \in BaseFields : In(s, "no", f, i) = In(t, "no", f, i)

\* The baseline on core i is repaired.
Repairless(s, i) == \A f \in Repairs : Mended(f, In(s, "no", f, i)) = In(s, "no", f, i)

\* Tables that are alike and repaired are the same to the last step.
LEMMA AlikeSame ==
    ASSUME NEW v \in RowVariants, Readable(v), NEW s, NEW t, NEW p, NEW i, Alike(s, t, p, i), Repairless(s, i), Repairless(t, i)
    PROVE  Same(s, t, p, i)
  <1>1. \A f : Mended(f, In(s, "no", f, i)) = In(s, "no", f, i) /\ Mended(f, In(t, "no", f, i)) = In(t, "no", f, i)
    BY MendedOnce DEF Repairless
  <1>2. \A f \in (IF p = "no" THEN Fields ELSE BaseFields) : In(s, "no", f, i) = In(t, "no", f, i)
    BY <1>1 DEF Alike
  <1>3. BaseFields \subseteq Fields
    BY FieldsRead
  <1> QED
    BY <1>2, <1>3 DEF Same, Alike

\* The last step writes the same into both.
LEMMA LastRowSame ==
    ASSUME NEW v \in RowVariants, Readable(v), NEW s, NEW t, NEW p, NEW i, Same(s, t, p, i)
    PROVE  NewRow(v, s, p, AfterCaches, i) = NewRow(v, t, p, AfterCaches, i)
  <1>1. \A f \in Fields : In(s, p, f, i) = In(t, p, f, i)
    BY DEF Same
  <1>2. \A f \in BaseFields : In(s, "no", f, i) = In(t, "no", f, i)
    BY DEF Same
  <1>3. Ipci(s, p, i) = Ipci(t, p, i)
    <2>1. IpcField \in Fields /\ IpcField \in BaseFields
      BY FieldsRead DEF BaseFields
    <2>2. In(s, p, IpcField, i) = In(t, p, IpcField, i) /\ In(s, "no", IpcField, i) = In(t, "no", IpcField, i)
      BY <1>1, <1>2, <2>1
    <2> QED
      BY <2>2 DEF Ipci, IpcField
  <1>4. GlobalCoverage(s, p, i) = GlobalCoverage(t, p, i)
    <2>1. <<"L1D", "Coverage">> \in Fields /\ <<"L2C", "Coverage">> \in Fields
      BY FieldsRead, NotACache DEF Shared
    <2>2. /\ In(s, p, <<"L1D", "Coverage">>, i) = In(t, p, <<"L1D", "Coverage">>, i)
          /\ In(s, p, <<"L2C", "Coverage">>, i) = In(t, p, <<"L2C", "Coverage">>, i)
      BY <1>1, <2>1
    <2> QED
      BY <2>2 DEF GlobalCoverage
  <1>5. Spanning(s, p, i) = Spanning(t, p, i)
    BY <1>3, <1>4 DEF Spanning
  <1>6. CASE Misses(v) /\ "LLC" \in EvaluateCaches
    <2>1. \A name \in Missing : <<"LLC", name>> \in Fields
      BY <1>6, MissFields
    <2>2. <<"LLC", "Misses">> \in Repairs
      BY <1>6 DEF Repairs
    <2>3. <<"LLC", "Misses">> \in BaseFields /\ <<"LLC", "Misses">> \in Fields
      BY <2>2, FieldsRead DEF BaseFields
    <2>4. /\ In(s, p, <<"LLC", "Misses">>, i) = In(t, p, <<"LLC", "Misses">>, i)
          /\ In(s, "no", <<"LLC", "Misses">>, i) = In(t, "no", <<"LLC", "Misses">>, i)
      BY <1>1, <1>2, <2>3
    <2>5. In(s, p, <<"LLC", "Prefetch Miss">>, i) = In(t, p, <<"LLC", "Prefetch Miss">>, i)
      BY <1>1, <2>1 DEF Missing
    <2>6. DramTraffic(s, p, i) = DramTraffic(t, p, i)
      BY <2>4, <2>5 DEF DramTraffic
    <2>7. NewRow(v, s, p, AfterCaches, i) = Also(Spanning(s, p, i), [name \in {"DRAM traffic"} |-> DramTraffic(s, p, i)])
      BY <1>6 DEF NewRow, Misses, AfterCaches
    <2>8. NewRow(v, t, p, AfterCaches, i) = Also(Spanning(t, p, i), [name \in {"DRAM traffic"} |-> DramTraffic(t, p, i)])
      BY <1>6 DEF NewRow, Misses, AfterCaches
    <2> QED
      BY <1>5, <2>6, <2>7, <2>8
  <1>7. CASE ~ (Misses(v) /\ "LLC" \in EvaluateCaches)
    <2>1. NewRow(v, s, p, AfterCaches, i) = Spanning(s, p, i) /\ NewRow(v, t, p, AfterCaches, i) = Spanning(t, p, i)
      BY <1>7 DEF NewRow, Misses, AfterCaches
    <2> QED
      BY <1>5, <2>1
  <1> QED
    BY <1>6, <1>7

\* The last step makes the same row of tables that are the same to it.
LEMMA LastStepSame ==
    ASSUME NEW v \in RowVariants, Readable(v), NEW P, "no" \in P, NEW s \in Tables(P), NEW t \in Tables(P),
           NEW p \in P, NEW i \in Cores, Same(s, t, p, i)
    PROVE  \A f \in Fields : In(Step(v, s, p, AfterCaches, i), p, f, i) = In(Step(v, t, p, AfterCaches, i), p, f, i)
  <1> DEFINE M == BaseNames(v, AfterCaches)
             N == RowNames(v, AfterCaches)
             sb == NewBase(v, s, p, AfterCaches, i)
             tb == NewBase(v, t, p, AfterCaches, i)
             sr == NewRow(v, s, p, AfterCaches, i)
             tr == NewRow(v, t, p, AfterCaches, i)
             su == Step(v, s, p, AfterCaches, i)
             tu == Step(v, t, p, AfterCaches, i)
  <1>1. sr = tr
    BY LastRowSame
  <1>2. PICK c \in RowSteps : c = AfterCaches
    BY DEF RowSteps
  <1>3. \A f \in Fields : CellAfter(su, s, p, c, i, M, sb, N, sr, p, f, i)
    BY <1>2, StepCells
  <1>4. \A f \in Fields : CellAfter(tu, t, p, c, i, M, tb, N, tr, p, f, i)
    BY <1>2, StepCells
  <1>5. \A f \in Fields : In(s, p, f, i) = In(t, p, f, i)
    BY DEF Same
  <1> HIDE DEF M, N, sb, tb, sr, tr, su, tu
  <1>6. \A f \in Fields : In(su, p, f, i) = In(tu, p, f, i)
    BY <1>1, <1>3, <1>4, <1>5 DEF CellAfter
  <1> QED
    BY <1>6 DEF su, tu

\* The steps of a row: every cache's, and the last one at the end.
LEMMA StepsKinds ==
    /\ Len(Steps) \in Nat \ {0} /\ Steps[Len(Steps)] = AfterCaches
    /\ \A n \in 1..Len(Steps) : Steps[n] \in RowSteps
    /\ \A n \in 1..(Len(Steps) - 1) : Steps[n] \in EvaluateCaches
    /\ \A c \in EvaluateCaches : \E n \in 1..(Len(Steps) - 1) : Steps[n] = c
  BY StepsAre, Zenon DEF AfterCaches, RowSteps

\* What a row, or a step of it, leaves of a table
Frame(u, s, P, p, i) ==
    /\ \A q \in P, f \in Fields, j \in Cores : q \notin {p, "no"} \/ j # i => In(u, q, f, j) = In(s, q, f, j)
    /\ \A f \in Untouched(p) : Kept(f, In(u, "no", f, i), In(s, "no", f, i))

\* A step leaves the other rows and cores, and repairs the baseline at most.
LEMMA FrameStep ==
    ASSUME NEW v \in RowVariants, Readable(v), OrderFree(v), NEW P, "no" \in P, NEW s \in Tables(P), NEW p \in P,
           NEW i \in Cores, NEW c \in RowSteps
    PROVE  Frame(Step(v, s, p, c, i), s, P, p, i)
  BY StepElsewhere, StepKeeps DEF Frame

\* Repairing twice repairs.
LEMMA KeptTwice == ASSUME NEW f, NEW a, NEW b, NEW c, Kept(f, a, b), Kept(f, b, c) PROVE Kept(f, a, c)
  BY MendedOnce DEF Kept

\* What is repaired stays as it is.
LEMMA KeptMended == ASSUME NEW f, NEW a, NEW b, Kept(f, a, b) PROVE Mended(f, a) = Mended(f, b) /\ (Mended(f, b) = b => a = b)
  BY MendedOnce DEF Kept

\* Two steps of a row leave what each leaves.
LEMMA FrameTwice ==
    ASSUME NEW P, NEW p, NEW i, NEW w, NEW u, NEW s, Frame(w, u, P, p, i), Frame(u, s, P, p, i)
    PROVE  Frame(w, s, P, p, i)
  <1>1. \A q \in P, f \in Fields, j \in Cores : q \notin {p, "no"} \/ j # i => In(w, q, f, j) = In(s, q, f, j)
    BY DEF Frame
  <1>2. ASSUME NEW f \in Untouched(p) PROVE Kept(f, In(w, "no", f, i), In(s, "no", f, i))
    <2>1. Kept(f, In(w, "no", f, i), In(u, "no", f, i)) /\ Kept(f, In(u, "no", f, i), In(s, "no", f, i))
      BY DEF Frame
    <2> QED
      BY <2>1, KeptTwice
  <1> QED
    BY <1>1, <1>2 DEF Frame

\* Repaired cells stay.
LEMMA FrameRepaired ==
    ASSUME NEW v \in RowVariants, Readable(v), NEW P, NEW p, NEW i, NEW u, NEW s, Frame(u, s, P, p, i),
           NEW f \in Repairs, Mended(f, In(s, "no", f, i)) = In(s, "no", f, i)
    PROVE  In(u, "no", f, i) = In(s, "no", f, i)
  <1>1. f \in Untouched(p)
    BY FieldsRead DEF Untouched, BaseFields
  <1>2. Kept(f, In(u, "no", f, i), In(s, "no", f, i))
    BY <1>1 DEF Frame
  <1> QED
    BY <1>2, KeptMended

\* t holds the tables after each step of a row.
RowRounds(t, v, s, P, p, i) ==
    /\ t[0] = s
    /\ \A n \in 1..Len(Steps) : t[n] = Step(v, t[n - 1], p, Steps[n], i)
    /\ \A n \in 0..Len(Steps) : t[n] \in Tables(P)

\* A row is made in rounds, a step each.
LEMMA RowHasRounds ==
    ASSUME NEW v \in RowVariants, Readable(v), NEW P, "no" \in P, NEW s \in Tables(P), NEW p \in P, NEW i \in Cores
    PROVE  \E t : Row(v, s, p, i) = t[Len(Steps)] /\ RowRounds(t, v, s, P, p, i)
  BY RowLoop DEF RowRounds

\* What the rounds of a row have done: all of them, and those of the caches
LEMMA RoundsFrame ==
    ASSUME NEW v \in RowVariants, Readable(v), OrderFree(v), NEW P, "no" \in P, NEW s \in Tables(P), NEW p \in P, NEW i \in Cores,
           NEW t, RowRounds(t, v, s, P, p, i)
    PROVE  /\ Frame(t[Len(Steps)], s, P, p, i)
           /\ Repairless(t[Len(Steps) - 1], i) /\ Repairless(t[Len(Steps)], i)
  <1>1. /\ t[0] = s
        /\ \A n \in 1..Len(Steps) : t[n] = Step(v, t[n - 1], p, Steps[n], i)
        /\ \A n \in 0..Len(Steps) : t[n] \in Tables(P)
    BY DEF RowRounds
  <1> DEFINE L == Len(Steps)
             T == {n \in 0..L : /\ Frame(t[n], s, P, p, i)
                                /\ \A m \in 1..n : \A f \in Repairs :
                                     f[1] = Steps[m] => Mended(f, In(t[n], "no", f, i)) = In(t[n], "no", f, i)}
  <1>2. L \in Nat \ {0} /\ (\A n \in 1..L : n - 1 \in 0..L) /\ 0 \in 0..L /\ L \in 0..L
    <2>1. \A k \in Nat \ {0} : (\A n \in 1..k : n - 1 \in 0..k) /\ 0 \in 0..k /\ k \in 0..k
      OBVIOUS
    <2> QED
      BY <2>1, StepsKinds
  <1>3. 0 \in T
    <2>1. Frame(s, s, P, p, i)
      BY DEF Frame, Kept
    <2> QED
      BY <1>1, <1>2, <2>1
  <1>4. ASSUME NEW n \in 1..L, n - 1 \in T PROVE n \in T
    <2>1. PICK w \in Tables(P) : w = t[n - 1]
      BY <1>1, <1>2
    <2>2. PICK c \in RowSteps : c = Steps[n]
      BY StepsKinds
    <2>3. t[n] = Step(v, w, p, c, i)
      BY <1>1, <2>1, <2>2
    <2>4. Frame(t[n], w, P, p, i)
      BY <2>3, FrameStep
    <2>5. Frame(w, s, P, p, i)
      BY <1>4, <2>1
    <2>6. Frame(t[n], s, P, p, i)
      BY <2>4, <2>5, FrameTwice
    <2>7. ASSUME NEW m \in 1..n, NEW f \in Repairs, f[1] = Steps[m]
          PROVE  Mended(f, In(t[n], "no", f, i)) = In(t[n], "no", f, i)
      <3>1. CASE m = n
        <4>1. f[1] = c /\ c \in EvaluateCaches
          BY <2>2, <2>7, <3>1, RepairsAre
        <4>2. In(t[n], "no", f, i) = Mended(f, In(w, "no", f, i))
          BY <2>3, <4>1, StepMends
        <4> QED
          BY <4>2, MendedOnce
      <3>2. CASE m # n
        <4>1. m \in 1..(n - 1)
          BY <1>2, <3>2
        <4>2. Mended(f, In(w, "no", f, i)) = In(w, "no", f, i)
          BY <1>4, <2>1, <2>7, <4>1
        <4>3. In(t[n], "no", f, i) = In(w, "no", f, i)
          BY <2>4, <4>2, FrameRepaired
        <4> QED
          BY <4>2, <4>3
      <3> QED
        BY <3>1, <3>2
    <2> QED
      BY <1>2, <2>6, <2>7
  <1>5. \A n \in 0..L : n \in T
    <2> HIDE DEF T, L
    <2> QED
      BY <1>2, <1>3, <1>4, Rounds
  <1>6. ASSUME NEW n \in {L - 1, L} PROVE Repairless(t[n], i)
    <2>1. n \in 0..L /\ \A m \in 1..(L - 1) : m \in 1..n
      BY <1>2
    <2>2. ASSUME NEW f \in Repairs PROVE Mended(f, In(t[n], "no", f, i)) = In(t[n], "no", f, i)
      <3>1. PICK m \in 1..(L - 1) : Steps[m] = f[1]
        BY RepairsAre, StepsKinds
      <3> QED
        BY <1>5, <2>1, <3>1
    <2> QED
      BY <2>2 DEF Repairless
  <1> QED
    BY <1>2, <1>5, <1>6

\* A row leaves the other rows and cores, and the baseline repaired.
LEMMA RowFrame ==
    ASSUME NEW v \in RowVariants, Readable(v), OrderFree(v), NEW P, "no" \in P, NEW s \in Tables(P), NEW p \in P, NEW i \in Cores
    PROVE  Frame(Row(v, s, p, i), s, P, p, i) /\ Repairless(Row(v, s, p, i), i)
  <1>1. PICK t : Row(v, s, p, i) = t[Len(Steps)] /\ RowRounds(t, v, s, P, p, i)
    BY RowHasRounds
  <1> QED
    BY <1>1, RoundsFrame

\* Rows of alike tables are the same.
LEMMA RowAlike ==
    ASSUME NEW v \in RowVariants, Readable(v), OrderFree(v), NEW P, "no" \in P, NEW s \in Tables(P), NEW t \in Tables(P),
           NEW p \in P, NEW i \in Cores, Alike(s, t, p, i)
    PROVE  \A f \in Fields : In(Row(v, s, p, i), p, f, i) = In(Row(v, t, p, i), p, f, i)
  <1>1. PICK a : Row(v, s, p, i) = a[Len(Steps)] /\ RowRounds(a, v, s, P, p, i)
    BY RowHasRounds
  <1>2. PICK b : Row(v, t, p, i) = b[Len(Steps)] /\ RowRounds(b, v, t, P, p, i)
    BY RowHasRounds
  <1> DEFINE L == Len(Steps)
             K == L - 1
             T == {n \in 0..K : Alike(a[n], b[n], p, i)}
  <1>3. /\ L \in Nat \ {0} /\ K \in Nat /\ K \in 0..L /\ 0 \in 0..K /\ L \in 1..L /\ L - 1 = K
        /\ \A n \in 1..K : n \in 1..L /\ n - 1 \in 0..L
    <2>1. \A k \in Nat \ {0} : /\ k - 1 \in Nat /\ k - 1 \in 0..k /\ 0 \in 0..(k - 1) /\ k \in 1..k
                               /\ \A n \in 1..(k - 1) : n \in 1..k /\ n - 1 \in 0..k
      OBVIOUS
    <2> QED
      BY <2>1, StepsKinds
  <1>4. 0 \in T
    BY <1>1, <1>2, <1>3 DEF RowRounds
  <1>5. ASSUME NEW n \in 1..K, n - 1 \in T PROVE n \in T
    <2>1. PICK x \in Tables(P), y \in Tables(P) : x = a[n - 1] /\ y = b[n - 1]
      BY <1>1, <1>2, <1>3 DEF RowRounds
    <2>2. PICK c \in EvaluateCaches : c = Steps[n]
      BY StepsKinds
    <2>3. a[n] = Step(v, x, p, c, i) /\ b[n] = Step(v, y, p, c, i)
      BY <1>1, <1>2, <1>3, <2>1, <2>2 DEF RowRounds
    <2>4. Alike(x, y, p, i)
      BY <1>5, <2>1
    <2>5. Alike(a[n], b[n], p, i)
      BY <2>3, <2>4, StepAlike
    <2> QED
      BY <1>3, <2>5
  <1>6. K \in T
    <2> HIDE DEF T, K, L
    <2>1. 0..K \subseteq T
      BY <1>3, <1>4, <1>5, Rounds
    <2> QED
      BY <1>3, <2>1
  <1>7. PICK x \in Tables(P), y \in Tables(P) : x = a[K] /\ y = b[K]
    BY <1>1, <1>2, <1>3 DEF RowRounds
  <1>8. Row(v, s, p, i) = Step(v, x, p, AfterCaches, i) /\ Row(v, t, p, i) = Step(v, y, p, AfterCaches, i)
    BY <1>1, <1>2, <1>3, <1>7, StepsKinds DEF RowRounds
  <1>9. Alike(x, y, p, i)
    BY <1>6, <1>7
  <1>10. Repairless(x, i) /\ Repairless(y, i)
    <2>1. Repairless(a[Len(Steps) - 1], i) /\ Repairless(b[Len(Steps) - 1], i)
      BY <1>1, <1>2, RoundsFrame
    <2> QED
      BY <1>7, <2>1
  <1>11. Same(x, y, p, i)
    BY <1>9, <1>10, AlikeSame
  <1> QED
    BY <1>8, <1>11, LastStepSame

\* The table u on the way from s: the rows and cores of D are what a row makes
\* of s, the others as they were, the baseline repaired here and there.
OnTheWay(u, v, s, P, D) ==
    /\ \A q \in P, j \in Cores, f \in Fields :
         /\ <<q, j>> \in D => In(u, q, f, j) = In(Row(v, s, q, j), q, f, j)
         /\ <<q, j>> \notin D /\ q # "no" => In(u, q, f, j) = In(s, q, f, j)
         /\ <<"no", j>> \notin D => Mended(f, In(u, "no", f, j)) = Mended(f, In(s, "no", f, j))
    /\ \A j \in Cores, f \in BaseFields : Mended(f, In(u, "no", f, j)) = Mended(f, In(s, "no", f, j))

\* Before the first row, the table is on the way.
LEMMA OnTheWayInit ==
    ASSUME NEW v, NEW P, NEW s, NEW D, D = {}
    PROVE  OnTheWay(s, v, s, P, D)
  BY DEF OnTheWay

\* The next row, on one core
LEMMA OnTheWayNext ==
    ASSUME NEW v \in RowVariants, Readable(v), OrderFree(v), NEW P, "no" \in P, NEW s \in Tables(P), NEW u \in Tables(P),
           NEW p \in P, NEW i \in Cores, NEW D, OnTheWay(u, v, s, P, D), <<p, i>> \notin D,
           NEW E, \A q \in P, j \in Cores : <<q, j>> \in E <=> <<q, j>> \in D \/ (q = p /\ j = i)
    PROVE  OnTheWay(Row(v, u, p, i), v, s, P, E)
  <1> DEFINE w == Row(v, u, p, i)
  <1>1. BaseFields \subseteq Fields
    BY FieldsRead
  <1>2. Alike(u, s, p, i)
    <2>1. p # "no" => \A f \in Fields : In(u, p, f, i) = In(s, p, f, i)
      BY DEF OnTheWay
    <2>2. \A f \in BaseFields : Mended(f, In(u, "no", f, i)) = Mended(f, In(s, "no", f, i))
      BY DEF OnTheWay
    <2>3. p = "no" => \A f \in Fields : Mended(f, In(u, "no", f, i)) = Mended(f, In(s, "no", f, i))
      BY DEF OnTheWay
    <2> QED
      BY <2>1, <2>2, <2>3 DEF Alike
  <1>3. \A f \in Fields : In(w, p, f, i) = In(Row(v, s, p, i), p, f, i)
    BY <1>2, RowAlike
  <1>4. Frame(w, u, P, p, i)
    BY RowFrame
  <1> HIDE DEF w
  <1>5. \A q \in P, f \in Fields, j \in Cores : q \notin {p, "no"} \/ j # i => In(w, q, f, j) = In(u, q, f, j)
    BY <1>4 DEF Frame
  <1>6. \A f \in Untouched(p) : Kept(f, In(w, "no", f, i), In(u, "no", f, i))
    BY <1>4 DEF Frame
  <1>7. ASSUME NEW q \in P, NEW j \in Cores, NEW f \in Fields, <<q, j>> \in E
        PROVE  In(w, q, f, j) = In(Row(v, s, q, j), q, f, j)
    <2>1. CASE q = p /\ j = i
      BY <1>3, <2>1
    <2>2. CASE <<q, j>> \in D
      <3>1. In(u, q, f, j) = In(Row(v, s, q, j), q, f, j)
        BY <2>2 DEF OnTheWay
      <3>2. CASE q \notin {p, "no"} \/ j # i
        BY <1>5, <3>1, <3>2
      <3>3. CASE q = "no" /\ p # "no" /\ j = i
        <4>1. Kept(f, In(w, "no", f, i), In(u, "no", f, i))
          BY <1>6, <3>3 DEF Untouched
        <4>2. Repairless(Row(v, s, "no", i), i)
          BY RowFrame
        <4>3. Mended(f, In(u, "no", f, i)) = In(u, "no", f, i)
          <5>1. In(u, "no", f, i) = In(Row(v, s, "no", i), "no", f, i)
            BY <3>1, <3>3
          <5>2. PICK z : z = In(Row(v, s, "no", i), "no", f, i)
            OBVIOUS
          <5>3. f \in Repairs => Mended(f, z) = z
            BY <4>2, <5>2 DEF Repairless
          <5>4. Mended(f, z) = z
            BY <5>3, MendedOnce
          <5> QED
            BY <5>1, <5>2, <5>4
        <4>4. In(w, "no", f, i) = In(u, "no", f, i)
          BY <4>1, <4>3, KeptMended
        <4> QED
          BY <3>1, <3>3, <4>4
      <3> QED
        BY <2>2, <3>2, <3>3
    <2> QED
      BY <1>7, <2>1, <2>2
  <1>8. ASSUME NEW q \in P, NEW j \in Cores, NEW f \in Fields, <<q, j>> \notin E, q # "no"
        PROVE  In(w, q, f, j) = In(s, q, f, j)
    <2>1. <<q, j>> \notin D /\ (q # p \/ j # i)
      BY <1>8
    <2>2. In(u, q, f, j) = In(s, q, f, j)
      BY <1>8, <2>1 DEF OnTheWay
    <2> QED
      BY <1>5, <1>8, <2>1, <2>2
  <1>9. ASSUME NEW j \in Cores, NEW f \in Fields, Mended(f, In(u, "no", f, j)) = Mended(f, In(s, "no", f, j)),
               f \in BaseFields \/ p # "no" \/ j # i
        PROVE  Mended(f, In(w, "no", f, j)) = Mended(f, In(s, "no", f, j))
    <2>1. CASE j # i
      <3>1. In(w, "no", f, j) = In(u, "no", f, j)
        BY <1>5, <2>1
      <3> QED
        BY <1>9, <3>1
    <2>2. CASE j = i
      <3>1. f \in Untouched(p)
        BY <1>9, <2>2 DEF Untouched
      <3>2. Kept(f, In(w, "no", f, i), In(u, "no", f, i))
        BY <1>6, <3>1
      <3>3. Mended(f, In(w, "no", f, i)) = Mended(f, In(u, "no", f, i))
        BY <3>2, KeptMended
      <3> QED
        BY <1>9, <2>2, <3>3
    <2> QED
      BY <2>1, <2>2
  <1>10. ASSUME NEW j \in Cores, NEW f \in Fields, <<"no", j>> \notin E
         PROVE  Mended(f, In(w, "no", f, j)) = Mended(f, In(s, "no", f, j))
    <2>1. <<"no", j>> \notin D /\ (p # "no" \/ j # i)
      BY <1>10
    <2>2. Mended(f, In(u, "no", f, j)) = Mended(f, In(s, "no", f, j))
      BY <2>1 DEF OnTheWay
    <2> QED
      BY <1>9, <2>1, <2>2
  <1>11. \A j \in Cores, f \in BaseFields : Mended(f, In(w, "no", f, j)) = Mended(f, In(s, "no", f, j))
    <2>1. \A j \in Cores, f \in BaseFields : Mended(f, In(u, "no", f, j)) = Mended(f, In(s, "no", f, j))
      BY DEF OnTheWay
    <2> QED
      BY <1>1, <1>9, <2>1
  <1>12. OnTheWay(w, v, s, P, E)
    BY <1>7, <1>8, <1>10, <1>11 DEF OnTheWay
  <1> QED
    BY <1>12 DEF w

\* The next row, on all cores
LEMMA OnTheWayCores ==
    ASSUME NEW v \in RowVariants, Readable(v), OrderFree(v), NEW P, "no" \in P, NEW s \in Tables(P), NEW u \in Tables(P),
           NEW p \in P, NEW S \in SUBSET P, p \notin S, OnTheWay(u, v, s, P, S \X Cores)
    PROVE  OnTheWay(RowOnCores(v, u, p), v, s, P, (S \union {p}) \X Cores)
  <1>1. PICK t : /\ RowOnCores(v, u, p) = t[core_num]
                 /\ t[0] = u
                 /\ \A n \in 1..core_num : t[n] = Row(v, t[n - 1], p, n - 1)
                 /\ \A n \in 0..core_num : t[n] \in Tables(P)
    BY CoresLoop
  <1> DEFINE D(n) == S \X Cores \union {p} \X (0..(n - 1))
             T == {n \in 0..core_num : OnTheWay(t[n], v, s, P, D(n))}
  <1>2. core_num \in Nat /\ Cores = 0..(core_num - 1)
    BY CoresAre DEF Cores
  <1>3. D(0) = S \X Cores
    OBVIOUS
  <1>4. D(core_num) = (S \union {p}) \X Cores
    BY <1>2
  <1>5. ASSUME NEW n \in 1..core_num
        PROVE  /\ <<p, n - 1>> \notin D(n - 1)
               /\ \A q \in P, j \in Cores : <<q, j>> \in D(n) <=> <<q, j>> \in D(n - 1) \/ (q = p /\ j = n - 1)
    <2>1. \A q \in P, j \in Cores : <<q, j>> \in D(n) <=> q \in S \/ (q = p /\ j \in 0..(n - 1))
      OBVIOUS
    <2>2. \A q \in P, j \in Cores : <<q, j>> \in D(n - 1) <=> q \in S \/ (q = p /\ j \in 0..((n - 1) - 1))
      OBVIOUS
    <2>3. n - 1 \in Cores /\ n - 1 \notin 0..((n - 1) - 1) /\ \A j \in Cores : j \in 0..(n - 1) <=> j \in 0..((n - 1) - 1) \/ j = n - 1
      BY <1>2
    <2> HIDE DEF D
    <2> QED
      BY <2>1, <2>2, <2>3
  <1> HIDE DEF D
  <1>6. 0 \in T
    <2>1. OnTheWay(t[0], v, s, P, D(0))
      BY <1>1, <1>3
    <2> QED
      BY <1>2, <2>1
  <1>7. ASSUME NEW n \in 1..core_num, n - 1 \in T PROVE n \in T
    <2>1. PICK x \in Tables(P), i \in Cores : x = t[n - 1] /\ i = n - 1
      <3>1. n - 1 \in 0..core_num /\ n - 1 \in Cores
        BY <1>2
      <3> QED
        BY <1>1, <3>1
    <2>2. t[n] = Row(v, x, p, i)
      BY <1>1, <2>1
    <2>3. PICK A, B : A = D(n - 1) /\ B = D(n)
      OBVIOUS
    <2>4. OnTheWay(x, v, s, P, A)
      BY <1>7, <2>1, <2>3
    <2>5. <<p, i>> \notin A /\ \A q \in P, j \in Cores : <<q, j>> \in B <=> <<q, j>> \in A \/ (q = p /\ j = i)
      BY <1>5, <2>1, <2>3
    <2>6. OnTheWay(t[n], v, s, P, B)
      BY <2>2, <2>4, <2>5, OnTheWayNext
    <2> QED
      BY <1>2, <2>3, <2>6
  <1>8. core_num \in T
    <2> HIDE DEF T
    <2>1. 0..core_num \subseteq T
      BY <1>2, <1>6, <1>7, Rounds
    <2> QED
      BY <1>2, <2>1
  <1> QED
    BY <1>1, <1>4, <1>8

\* Every row of a trace is what it would be alone.
LEMMA RowsAlone ==
    ASSUME NEW v \in RowVariants, Readable(v), OrderFree(v), NEW P, "no" \in P, NEW r, NEW x,
           NEW order \in Seq(P), Distinct(order), ToSet(order) = P, NEW s \in Tables(P), s = TraceTable(r, order, x)
    PROVE  \A q \in P, j \in Cores, f \in Fields :
             In(RowsOfTrace(v, r, order, x), q, f, j) = In(Row(v, s, q, j), q, f, j)
  <1>1. PICK t : /\ RowsOfTrace(v, r, order, x) = t[Len(order)]
                 /\ t[0] = s
                 /\ \A n \in 1..Len(order) : t[n] = RowOnCores(v, t[n - 1], order[n])
                 /\ \A n \in 0..Len(order) : t[n] \in Tables(P)
    BY TraceLoop
  <1> DEFINE L == Len(order)
             S(n) == {order[m] : m \in 1..n}
             T == {n \in 0..L : OnTheWay(t[n], v, s, P, S(n) \X Cores)}
  <1>2. L \in Nat /\ S(L) = P /\ \A n \in 0..L : S(n) \subseteq P
    <2>1. \A n \in 0..L : \A m \in 1..n : order[m] \in P
      OBVIOUS
    <2> QED
      BY <2>1 DEF ToSet
  <1>3. S(0) \X Cores = {}
    OBVIOUS
  <1>4. ASSUME NEW n \in 1..L PROVE order[n] \notin S(n - 1) /\ S(n) = S(n - 1) \union {order[n]}
    <2>1. \A m \in 1..(n - 1) : order[m] # order[n]
      BY DEF Distinct
    <2>2. \A m : m \in 1..n <=> m \in 1..(n - 1) \/ m = n
      OBVIOUS
    <2> QED
      BY <2>1, <2>2
  <1> HIDE DEF S
  <1>5. 0 \in T
    <2>1. PICK D : D = S(0) \X Cores
      OBVIOUS
    <2>2. OnTheWay(s, v, s, P, D)
      BY <1>3, <2>1, OnTheWayInit
    <2> QED
      BY <1>1, <1>2, <2>1, <2>2
  <1>6. ASSUME NEW n \in 1..L, n - 1 \in T PROVE n \in T
    <2>1. PICK w \in Tables(P), p \in P, A \in SUBSET P : w = t[n - 1] /\ p = order[n] /\ A = S(n - 1)
      <3>1. n - 1 \in 0..L
        BY <1>2
      <3> QED
        BY <1>1, <1>2, <3>1
    <2>2. t[n] = RowOnCores(v, w, p)
      BY <1>1, <2>1
    <2>3. p \notin A /\ S(n) = A \union {p}
      BY <1>4, <2>1
    <2>4. OnTheWay(w, v, s, P, A \X Cores)
      BY <1>6, <2>1
    <2>5. OnTheWay(t[n], v, s, P, (A \union {p}) \X Cores)
      BY <2>2, <2>3, <2>4, OnTheWayCores
    <2>6. OnTheWay(t[n], v, s, P, S(n) \X Cores)
      BY <2>3, <2>5
    <2> QED
      BY <1>2, <2>6
  <1>7. L \in T
    <2> HIDE DEF T
    <2>1. 0..L \subseteq T
      BY <1>2, <1>5, <1>6, Rounds
    <2> QED
      BY <1>2, <2>1
  <1>8. PICK D : D = P \X Cores
    OBVIOUS
  <1>9. OnTheWay(t[L], v, s, P, D)
    BY <1>2, <1>7, <1>8
  <1>10. \A q \in P, j \in Cores : <<q, j>> \in D
    BY <1>8
  <1>11. \A q \in P, j \in Cores, f \in Fields : In(t[L], q, f, j) = In(Row(v, s, q, j), q, f, j)
    BY <1>9, <1>10 DEF OnTheWay
  <1> QED
    BY <1>1, <1>11

\* A trace's rows are the same in whatever order they are made.
LEMMA OrdersAgree ==
    ASSUME NEW v \in RowVariants, Readable(v), OrderFree(v), NEW P, "no" \in P, NEW r, NEW x,
           NEW a \in Seq(P), Distinct(a), ToSet(a) = P, NEW b \in Seq(P), Distinct(b), ToSet(b) = P,
           TraceTable(r, a, x) \in Tables(P)
    PROVE  RowsOfTrace(v, r, a, x) = RowsOfTrace(v, r, b, x)
  <1>1. PICK s \in Tables(P) : s = TraceTable(r, a, x)
    OBVIOUS
  <1>2. s = TraceTable(r, b, x)
    BY <1>1 DEF TraceTable
  <1>3. PICK u \in Tables(P) : u = RowsOfTrace(v, r, a, x)
    BY TraceSpeed
  <1>4. PICK w \in Tables(P) : w = RowsOfTrace(v, r, b, x)
    BY <1>1, <1>2, TraceSpeed
  <1>5. \A q \in P, j \in Cores, f \in Fields : In(u, q, f, j) = In(Row(v, s, q, j), q, f, j)
    BY <1>1, <1>3, RowsAlone
  <1>6. \A q \in P, j \in Cores, f \in Fields : In(w, q, f, j) = In(Row(v, s, q, j), q, f, j)
    BY <1>2, <1>4, RowsAlone
  <1>7. \A q \in P, z \in Fields \X Cores : u[q][z] = w[q][z]
    <2> SUFFICES ASSUME NEW q \in P, NEW z \in Fields \X Cores PROVE u[q][z] = w[q][z]
      OBVIOUS
    <2>1. PICK f \in Fields, j \in Cores : z = <<f, j>>
      BY CellPlace
    <2>2. In(u, q, f, j) = In(w, q, f, j)
      BY <1>5, <1>6
    <2> QED
      BY <2>1, <2>2 DEF In
  <1>8. ASSUME NEW q \in P PROVE u[q] = w[q]
    <2>1. u[q] \in Entries /\ w[q] \in Entries
      BY DEF Tables
    <2>2. \A z \in Fields \X Cores : u[q][z] = w[q][z]
      BY <1>7
    <2>3. PICK D : D = Fields \X Cores
      OBVIOUS
    <2>4. u[q] \in [D -> Good] /\ w[q] \in [D -> Good]
      BY <2>1, <2>3 DEF Entries
    <2>5. \A z \in D : u[q][z] = w[q][z]
      BY <2>2, <2>3
    <2> QED
      BY <2>4, <2>5
  <1>9. u = w
    BY <1>8 DEF Tables
  <1> QED
    BY <1>3, <1>4, <1>9

\* What the means of a trace are made of
TraceMeans(entries) == Settled([p \in DOMAIN entries |-> Settled([f \in Fields |-> OverCores(f, entries[p])])])

\* The means of a trace are of its own rows.
LEMMA CoreMeansOf ==
    ASSUME NEW table, NEW t \in DOMAIN table
    PROVE  CoreMeans(table)[t] = TraceMeans(table[t])
  <1>1. CoreMeans(table) = [x \in DOMAIN table |-> TraceMeans(table[x])]
    BY SettledIs DEF CoreMeans, TraceMeans
  <1> QED
    BY <1>1

\* The members of SetToSeqs
LEMMA OrdersAre ==
    ASSUME NEW S, IsFiniteSet(S), NEW order \in SetToSeqs(S)
    PROVE  order \in Seq(S) /\ Distinct(order) /\ ToSet(order) = S
  <1> DEFINE n == Cardinality(S)
  <1>1. n \in Nat
    BY FS_CardinalityType
  <1>2. order \in [1..n -> S] /\ \A i, j \in 1..n : i # j => order[i] # order[j]
    BY DEF SetToSeqs
  <1> HIDE DEF n
  <1>3. order \in Seq(S) /\ Len(order) = n /\ DOMAIN order = 1..n
    BY <1>1, <1>2
  <1>4. Distinct(order)
    BY <1>2, <1>3 DEF Distinct
  <1>5. Cardinality(ToSet(order)) = n
    BY <1>3, <1>4, DistinctLength
  <1>6. ToSet(order) \in SUBSET S
    BY <1>2, <1>3 DEF ToSet
  <1>7. ToSet(order) = S
    <2>1. PICK T \in SUBSET S : T = ToSet(order)
      BY <1>6
    <2>2. Cardinality(S) = Cardinality(T)
      BY <1>5, <2>1 DEF n
    <2> QED
      BY <2>1, <2>2, FS_Subset
  <1> QED
    BY <1>3, <1>4, <1>7

\* In the invariant, any other order of a trace's prefetchers makes the same rows.
LEMMA Independent == ASSUME EvalInv PROVE OrderIndependent
  <1> SUFFICES ASSUME stage = "final", OrderFree(script.final), NEW t \in TracesOf(rows),
                      NEW order \in SetToSeqs(ToSet(PrefetchersOf(rows, t)))
               PROVE  CoreMeans(Settled([u \in {t} |-> RowsOfTrace(script.final, roi, order, t)]))[t] = stats[t]
    BY DEF OrderIndependent, OrderFree
  <1>1. PICK P, v, r, mine : P = ToSet(PrefetchersOf(rows, t)) /\ v = script.final /\ r = roi /\ mine = PrefetchersOf(rows, t)
    OBVIOUS
  <1>2. Later
    BY DEF Later
  <1>3. HasBaseline(rows)
    BY <1>2 DEF EvalInv, Computed, Later
  <1>4. mine \in Seq(P) /\ Distinct(mine) /\ ToSet(mine) = P
    BY <1>1, OrderOfTrace
  <1>5. IsFiniteSet(P)
    BY <1>4, DistinctLength
  <1>6. order \in Seq(P) /\ Distinct(order) /\ ToSet(order) = P
    BY <1>1, <1>5, OrdersAre
  <1>7. "no" \in P /\ TraceTable(r, order, t) \in Tables(P)
    BY <1>1, <1>3, <1>6, RowsOfTraceAre
  <1>8. v \in RowVariants /\ Readable(v) /\ OrderFree(v)
    BY <1>1, ScriptsAssumption DEF EvalInv, Readable
  <1>9. RowsOfTrace(v, r, order, t) = RowsOfTrace(v, r, mine, t)
    BY <1>4, <1>6, <1>7, <1>8, OrdersAgree
  <1>10. PICK rowsOf : rowsOf = RowsOfTrace(v, r, mine, t)
    OBVIOUS
  <1>11. FinalTable[t] = rowsOf /\ t \in DOMAIN FinalTable
    BY <1>1, <1>2, <1>10, FinalTableIs
  <1>12. stats[t] = TraceMeans(rowsOf)
    <2>1. stats[t] = CoreMeans(FinalTable)[t]
      BY <1>2, StatsAre
    <2> QED
      BY <1>11, <2>1, CoreMeansOf
  <1>13. PICK one : one = Settled([u \in {t} |-> RowsOfTrace(script.final, roi, order, t)])
    OBVIOUS
  <1>14. t \in DOMAIN one /\ one[t] = rowsOf
    BY <1>1, <1>9, <1>10, <1>13, SettledIs
  <1>15. CoreMeans(one)[t] = TraceMeans(rowsOf)
    BY <1>14, CoreMeansOf
  <1> QED
    BY <1>12, <1>13, <1>15

\* Whatever the reports and the order glob listed them in: cal_final_results
\* computes what it would have from any other order of the rows, although each
\* row repairs the baseline for the next; but for the variant "total traffic",
\* whose first row leaves its own misses in the baseline.
THEOREM EvaluationOrderIndependent == Spec => []OrderIndependent
  BY EvaluationInvariance, Independent, PTL
=============================================================================
