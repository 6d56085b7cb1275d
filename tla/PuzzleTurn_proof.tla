--------------------------- MODULE PuzzleTurn_proof ---------------------------
(* Theorems about PuzzleTurn, for every size of the board and every bound.        *)
EXTENDS PuzzleTurn, TLAPS, WellFoundedInduction

----------------------------------------------------------------------------
(* Induction over numbers and the existence of functions defined by recursion, for *)
(* sets instead of predicates and with the step given as a function, so that the   *)
(* provers can instantiate them.                                                   *)

\* A set of numbers that is not empty has a least one.
LEMMA LeastNat ==
    ASSUME NEW T \in SUBSET Nat, T # {}
    PROVE  \E n \in T : \A m \in T : n <= m
<1> DEFINE R == OpToRel(<, Nat)
<1>1. IsWellFoundedOn(R, Nat)
  BY NatLessThanWellFounded
<1>2. \E x \in T : \A y \in T : ~(<<y, x>> \in R)
  <2> HIDE DEF R
  <2>1. QED BY <1>1, WFMin
<1>3. PICK x \in T : \A y \in T : ~(<<y, x>> \in R)
  BY <1>2
<1>4. \A y \in T : x <= y
  <2> SUFFICES ASSUME NEW y \in T, ~(x <= y) PROVE FALSE
    OBVIOUS
  <2>1. x \in Nat /\ y \in Nat /\ y < x
    OBVIOUS
  <2>2. <<y, x>> \in {ss \in Nat \X Nat : ss[1] < ss[2]}
    BY <2>1
  <2>3. <<y, x>> \in R
    BY <2>2 DEF OpToRel
  <2>4. QED BY <2>3, <1>3
<1>5. QED BY <1>4

\* Induction, over a set instead of a predicate.
LEMMA Induction ==
    ASSUME NEW S, 0 \in S, \A n \in Nat : n \in S => n + 1 \in S
    PROVE  Nat \subseteq S
<1> DEFINE T == {n \in Nat : n \notin S}
<1>1. SUFFICES ASSUME T # {} PROVE FALSE
  OBVIOUS
<1>2. PICK n \in T : \A m \in T : n <= m
  BY <1>1, LeastNat
<1>3. n \in Nat /\ n # 0 /\ n - 1 \in Nat
  BY <1>2
<1>4. n - 1 \notin T
  BY <1>2, <1>3
<1>5. n - 1 \in S
  BY <1>3, <1>4
<1>6. (n - 1) + 1 \in S
  BY <1>3, <1>5
<1>7. QED BY <1>3, <1>6, <1>2

\* The same, up to a bound.
LEMMA BoundedInduction ==
    ASSUME NEW n \in Nat, NEW S, 0 \in S, \A i \in 1..n : i - 1 \in S => i \in S
    PROVE  0..n \subseteq S
<1> DEFINE T == {i \in Nat : i <= n => i \in S}
<1>1. 0 \in T
  OBVIOUS
<1>2. ASSUME NEW i \in Nat, i \in T PROVE i + 1 \in T
  <2>1. CASE i + 1 <= n
    <3>1. i \in S /\ i + 1 \in 1..n /\ (i + 1) - 1 = i
      BY <1>2, <2>1
    <3>2. i + 1 \in S
      BY <3>1
    <3>3. QED BY <3>2
  <2>2. QED BY <2>1
<1>3. Nat \subseteq T
  <2> HIDE DEF T
  <2>1. QED BY <1>1, <1>2, Induction
<1>4. QED BY <1>3

\* The tables of step from a, one entry longer than m, that stay in S.
Tables(S, a, step, m) ==
    {f \in [0..m -> S] : f[0] = a /\ \A i \in 1..m : f[i] = step[<<i, f[i - 1]>>]}

\* A function defined by recursion over 0..n exists.
LEMMA Recursion ==
    ASSUME NEW n \in Nat, NEW S, NEW a \in S, NEW step \in [(1..n) \X S -> S]
    PROVE  Tables(S, a, step, n) # {}
<1> DEFINE T == {m \in Nat : Tables(S, a, step, m) # {}}
<1>1. 0 \in T
  <2>1. [i \in 0..0 |-> a] \in Tables(S, a, step, 0)
    BY DEF Tables
  <2>2. QED BY <2>1
<1>2. ASSUME NEW m \in 1..n, m - 1 \in T PROVE m \in T
  <2>1. PICK f \in Tables(S, a, step, m - 1) : TRUE
    BY <1>2
  <2>2. /\ f \in [0..(m - 1) -> S] /\ f[0] = a
        /\ \A i \in 1..(m - 1) : f[i] = step[<<i, f[i - 1]>>]
    BY <2>1 DEF Tables
  <2> DEFINE g == [i \in 0..m |-> IF i = m THEN step[<<m, f[m - 1]>>] ELSE f[i]]
  <2>3. <<m, f[m - 1]>> \in (1..n) \X S
    BY <2>2
  <2>4. g \in [0..m -> S]
    BY <2>2, <2>3
  <2>5. g[0] = a
    BY <2>2
  <2>6. ASSUME NEW i \in 1..m PROVE g[i] = step[<<i, g[i - 1]>>]
    <3>1. i - 1 \in 0..m /\ i - 1 # m /\ g[i - 1] = f[i - 1]
      OBVIOUS
    <3>2. CASE i = m
      BY <3>1, <3>2
    <3>3. CASE i # m
      BY <2>2, <3>1, <3>3
    <3>4. QED BY <3>2, <3>3
  <2>7. g \in Tables(S, a, step, m)
    <3> HIDE DEF g
    <3>1. QED BY <2>4, <2>5, <2>6 DEF Tables
  <2>8. QED BY <2>7
<1>3. 0..n \subseteq T
  <2> HIDE DEF T
  <2>1. QED BY <1>1, <1>2, BoundedInduction
<1>4. QED BY <1>3

----------------------------------------------------------------------------
(* The stock of ojama: what updateOjama and fallOjamaPieces leave is a stock again, *)
(* and how many ojama it holds.                                                    *)

\* A stock: a number for each of n columns.
Stocks(n) == [1..n -> Nat]

LEMMA StockLength ==
    ASSUME NEW n \in Nat, NEW s \in Stocks(n)
    PROVE  Len(s) = n /\ DOMAIN s = 1..n
<1>1. s \in Seq(Nat)
  BY DEF Stocks
<1>2. DOMAIN s = 1..n /\ Len(s) \in Nat
  BY <1>1 DEF Stocks
<1>3. Len(s) = n
  BY <1>1, <1>2
<1>4. QED BY <1>2, <1>3

LEMMA UpToTable ==
    ASSUME NEW n \in Nat, NEW s \in Stocks(n)
    PROVE  /\ UpTo(s) = [i \in 0..n |-> IF i = 0 THEN 0 ELSE UpTo(s)[i - 1] + s[i]]
           /\ UpTo(s) \in [0..n -> Nat]
<1>1. Len(s) = n
  BY StockLength
<1> DEFINE step == [x \in (1..n) \X Nat |-> x[2] + s[x[1]]]
<1>2. step \in [(1..n) \X Nat -> Nat]
  BY DEF Stocks
<1>3. PICK f \in Tables(Nat, 0, step, n) : TRUE
  <2> HIDE DEF step
  <2>1. QED BY <1>2, Recursion
<1>4. f = [i \in 0..n |-> IF i = 0 THEN 0 ELSE f[i - 1] + s[i]]
  <2>1. /\ f \in [0..n -> Nat] /\ f[0] = 0
        /\ \A i \in 1..n : f[i] = step[<<i, f[i - 1]>>]
    BY <1>3 DEF Tables
  <2>2. ASSUME NEW i \in 1..n PROVE f[i] = f[i - 1] + s[i]
    <3>1. <<i, f[i - 1]>> \in (1..n) \X Nat
      BY <2>1
    <3>2. QED BY <2>1, <3>1
  <2>3. QED BY <2>1, <2>2
<1>5. UpTo(s) = [i \in 0..n |-> IF i = 0 THEN 0 ELSE UpTo(s)[i - 1] + s[i]]
  BY <1>1, <1>4 DEF UpTo
<1>6. \A i \in 0..n : UpTo(s)[i] \in Nat
  <2> DEFINE u == UpTo(s)
             N == {i \in 0..n : u[i] \in Nat}
  <2>0. u = [i \in 0..n |-> IF i = 0 THEN 0 ELSE u[i - 1] + s[i]]
    BY <1>5
  <2> HIDE DEF u
  <2>1. u[0] = 0 /\ \A i \in 1..n : u[i] = u[i - 1] + s[i]
    BY <2>0
  <2>2. 0 \in N /\ \A i \in 1..n : i - 1 \in N => i \in N
    BY <2>1 DEF Stocks
  <2>3. 0..n \subseteq N
    <3> HIDE DEF N
    <3>1. QED BY <2>2, BoundedInduction
  <2>4. QED BY <2>3 DEF u
<1>7. QED BY <1>5, <1>6

LEMMA UpToSteps ==
    ASSUME NEW n \in Nat, NEW s \in Stocks(n)
    PROVE  /\ UpTo(s) \in [0..n -> Nat] /\ UpTo(s)[0] = 0
           /\ \A i \in 1..n : UpTo(s)[i] = UpTo(s)[i - 1] + s[i]
           /\ Total(s) = UpTo(s)[n] /\ Total(s) \in Nat
<1> DEFINE u == UpTo(s)
<1>1. /\ u = [i \in 0..n |-> IF i = 0 THEN 0 ELSE u[i - 1] + s[i]]
      /\ u \in [0..n -> Nat]
  BY UpToTable
<1>2. Total(s) = u[n]
  BY StockLength DEF Total
<1> HIDE DEF u
<1>3. u[0] = 0 /\ \A i \in 1..n : u[i] = u[i - 1] + s[i]
  BY <1>1
<1>4. u[n] \in Nat
  BY <1>1
<1>5. QED BY <1>1, <1>2, <1>3, <1>4 DEF u

LEMMA LeftSteps ==
    ASSUME NEW n \in Nat, NEW s \in Stocks(n), NEW count \in Nat
    PROVE  /\ Left(s, count) \in [0..n -> Nat] /\ Left(s, count)[0] = count + 1
           /\ \A i \in 1..n : Left(s, count)[i] = Left(s, count)[i - 1] \div 2
<1>1. Len(s) = n
  BY StockLength
<1> DEFINE step == [x \in (1..n) \X Nat |-> x[2] \div 2]
<1>2. step \in [(1..n) \X Nat -> Nat]
  OBVIOUS
<1>3. PICK f \in Tables(Nat, count + 1, step, n) : TRUE
  <2> HIDE DEF step
  <2>1. count + 1 \in Nat
    OBVIOUS
  <2>2. QED BY <1>2, <2>1, Recursion
<1>4. f = [i \in 0..n |-> IF i = 0 THEN count + 1 ELSE f[i - 1] \div 2]
  <2>1. /\ f \in [0..n -> Nat] /\ f[0] = count + 1
        /\ \A i \in 1..n : f[i] = step[<<i, f[i - 1]>>]
    BY <1>3 DEF Tables
  <2>2. ASSUME NEW i \in 1..n PROVE f[i] = f[i - 1] \div 2
    <3>1. <<i, f[i - 1]>> \in (1..n) \X Nat
      BY <2>1
    <3>2. QED BY <2>1, <3>1
  <2>3. QED BY <2>1, <2>2
<1> DEFINE u == Left(s, count)
<1>5. u = [i \in 0..n |-> IF i = 0 THEN count + 1 ELSE u[i - 1] \div 2]
  BY <1>1, <1>4 DEF Left
<1> HIDE DEF u, step
<1>6. u[0] = count + 1 /\ \A i \in 1..n : u[i] = u[i - 1] \div 2
  BY <1>5
<1>7. \A i \in 0..n : u[i] \in Nat
  <2> DEFINE N == {i \in 0..n : u[i] \in Nat}
  <2>1. 0 \in N /\ \A i \in 1..n : i - 1 \in N => i \in N
    BY <1>6
  <2>2. 0..n \subseteq N
    <3> HIDE DEF N
    <3>1. QED BY <2>1, BoundedInduction
  <2>3. QED BY <2>2
<1>8. u \in [0..n -> Nat]
  BY <1>5, <1>7
<1>9. QED BY <1>6, <1>8 DEF u

\* What updateOjama has reached between two columns.
Progress(n) == [count : Int, remaining : Nat, stock : Stocks(n)]

LEMMA ReduceColumnTypes ==
    ASSUME NEW n \in Nat, NEW done \in Progress(n), NEW i \in 1..n
    PROVE  ReduceColumn(done, i) \in Progress(n)
<1>1. /\ done.count \in Int /\ done.remaining \in Nat /\ done.stock \in Stocks(n)
      /\ done.stock[i] \in Nat
  BY DEF Progress, Stocks
<1>2. Half(done.count) \in Int
  BY <1>1 DEF Half
<1> DEFINE count == Half(done.count) - done.remaining
           left == done.stock[i] + count
<1>3. count \in Int /\ left \in Int
  BY <1>1, <1>2
<1> HIDE DEF count, left
<1> DEFINE columns == [done.stock EXCEPT ![i] = IF left < 0 THEN 0 ELSE left]
           rest == IF left < 0 THEN -left ELSE 0
<1>4. columns \in Stocks(n) /\ rest \in Nat
  BY <1>1, <1>3 DEF Stocks
<1> HIDE DEF columns, rest
<1>5. ReduceColumn(done, i) =
        IF done.stock[i] = 0 THEN done
        ELSE [count |-> count, remaining |-> rest, stock |-> columns]
  BY DEF ReduceColumn, count, left, columns, rest
<1>6. QED BY <1>3, <1>4, <1>5 DEF Progress

LEMMA ReduceTypes ==
    ASSUME NEW n \in Nat, NEW s \in Stocks(n), NEW count \in Int
    PROVE  Reduce(s, count) \in Stocks(n)
<1>1. Len(s) = n
  BY StockLength
<1> DEFINE P == Progress(n)
           first == [count |-> count - 1, remaining |-> 0, stock |-> s]
           step == [x \in (1..n) \X P |-> ReduceColumn(x[2], n + 1 - x[1])]
<1>2. first \in P
  BY DEF Progress
<1>3. \A i \in 1..n, d \in P : ReduceColumn(d, n + 1 - i) \in P
  BY ReduceColumnTypes
<1> HIDE DEF P, first
<1>4. step \in [(1..n) \X P -> P]
  BY <1>3
<1>5. PICK f \in Tables(P, first, step, n) : TRUE
  <2> HIDE DEF step
  <2>1. QED BY <1>2, <1>4, Recursion
<1>6. f = [i \in 0..n |-> IF i = 0 THEN first ELSE ReduceColumn(f[i - 1], n + 1 - i)]
  <2>1. /\ f \in [0..n -> P] /\ f[0] = first
        /\ \A i \in 1..n : f[i] = step[<<i, f[i - 1]>>]
    BY <1>5 DEF Tables
  <2>2. ASSUME NEW i \in 1..n PROVE f[i] = ReduceColumn(f[i - 1], n + 1 - i)
    <3>1. <<i, f[i - 1]>> \in (1..n) \X P
      BY <2>1
    <3>2. QED BY <2>1, <3>1
  <2>3. QED BY <2>1, <2>2
<1> DEFINE u == Reduced(s, count)
<1>7. u = [i \in 0..n |-> IF i = 0 THEN first ELSE ReduceColumn(u[i - 1], n + 1 - i)]
  BY <1>1, <1>6 DEF Reduced, first
<1> HIDE DEF u, step
<1>8. u[0] = first /\ \A i \in 1..n : u[i] = ReduceColumn(u[i - 1], n + 1 - i)
  BY <1>7
<1>9. \A i \in 0..n : u[i] \in P
  <2> DEFINE N == {i \in 0..n : u[i] \in P}
  <2>1. 0 \in N /\ \A i \in 1..n : i - 1 \in N => i \in N
    BY <1>2, <1>3, <1>8
  <2>2. 0..n \subseteq N
    <3> HIDE DEF N
    <3>1. QED BY <2>1, BoundedInduction
  <2>3. QED BY <2>2
<1>10. u[n] \in P
  BY <1>9
<1>11. Reduce(s, count) = u[n].stock
  BY <1>1 DEF Reduce, u
<1>12. QED BY <1>10, <1>11 DEF P, Progress

\* An update leaves a stock: no column falls below zero (updateOjama).
LEMMA UpdateTypes ==
    ASSUME NEW n \in Nat, NEW s \in Stocks(n), NEW count \in Int
    PROVE  UpdateOjama(s, count) \in Stocks(n)
<1>1. CASE count < 0
  BY <1>1, ReduceTypes DEF UpdateOjama
<1>2. CASE ~(count < 0)
  <2>1. count \in Nat
    BY <1>2
  <2>2. Left(s, count) \in [0..n -> Nat] /\ DOMAIN s = 1..n
    BY <2>1, LeftSteps, StockLength
  <2>3. Increase(s, count) \in Stocks(n)
    BY <2>2 DEF Increase, Stocks
  <2>4. QED BY <1>2, <2>3 DEF UpdateOjama
<1>3. QED BY <1>1, <1>2

LEMMA TakeTypes ==
    ASSUME NEW n \in Nat, NEW s \in Stocks(n), NEW k \in Nat
    PROVE  Take(s, k) \in Stocks(n)
<1> DEFINE u == UpTo(s)
           kept(i) == IF u[i] > k THEN u[i] - k ELSE 0
<1>1. u \in [0..n -> Nat] /\ DOMAIN s = 1..n
  BY UpToSteps, StockLength
<1>2. Take(s, k) = [i \in 1..n |-> IF kept(i) < s[i] THEN kept(i) ELSE s[i]]
  BY <1>1 DEF Take
<1> HIDE DEF u
<1>3. \A i \in 1..n : kept(i) \in Nat /\ s[i] \in Nat
  BY <1>1 DEF Stocks
<1> HIDE DEF kept
<1>4. QED BY <1>2, <1>3 DEF Stocks

\* A stock loses exactly the ojama that fall, however they are spread over the columns
\* (fallOjamaPieces).
THEOREM StockLosesWhatFalls ==
    ASSUME NEW n \in Nat, NEW s \in Stocks(n), NEW k \in Nat, k <= Total(s)
    PROVE  Total(Take(s, k)) = Total(s) - k
<1> DEFINE u == UpTo(s)
           r == Take(s, k)
           v == UpTo(r)
<1>1. /\ u \in [0..n -> Nat] /\ u[0] = 0 /\ \A i \in 1..n : u[i] = u[i - 1] + s[i]
      /\ Total(s) = u[n]
  BY UpToSteps
<1>2. r \in Stocks(n)
  BY TakeTypes
<1>3. /\ v \in [0..n -> Nat] /\ v[0] = 0 /\ \A i \in 1..n : v[i] = v[i - 1] + r[i]
      /\ Total(r) = v[n]
  BY <1>2, UpToSteps
<1> DEFINE kept(i) == IF u[i] > k THEN u[i] - k ELSE 0
<1>4. \A i \in 1..n : r[i] = IF kept(i) < s[i] THEN kept(i) ELSE s[i]
  BY StockLength DEF Take
<1> HIDE DEF u, v, r
<1> DEFINE N == {i \in 0..n : v[i] = kept(i)}
<1>5. 0 \in N
  BY <1>1, <1>3
<1>6. ASSUME NEW i \in 1..n, i - 1 \in N PROVE i \in N
  <2>1. /\ u[i] \in Nat /\ u[i - 1] \in Nat /\ s[i] \in Nat /\ v[i - 1] \in Nat
        /\ u[i] = u[i - 1] + s[i] /\ v[i] = v[i - 1] + r[i] /\ v[i - 1] = kept(i - 1)
    BY <1>1, <1>3, <1>6 DEF Stocks
  <2>2. v[i] = kept(i)
    BY <1>4, <2>1
  <2>3. QED BY <2>2
<1>7. 0..n \subseteq N
  <2> HIDE DEF N
  <2>1. QED BY <1>5, <1>6, BoundedInduction
<1>8. v[n] = kept(n)
  BY <1>7
<1>9. u[n] \in Nat
  BY <1>1
<1>10. QED BY <1>1, <1>3, <1>8, <1>9 DEF r

\* An attack adds no more ojama to a stock than it has power, although each column
\* rounds its share (updateOjama with a positive count).
THEOREM StockGrowsByNoMore ==
    ASSUME NEW n \in Nat, NEW s \in Stocks(n), NEW count \in Nat
    PROVE  Total(UpdateOjama(s, count)) <= Total(s) + count
<1> DEFINE u == UpTo(s)
           r == UpdateOjama(s, count)
           v == UpTo(r)
           left == Left(s, count)
<1>1. /\ u \in [0..n -> Nat] /\ u[0] = 0 /\ \A i \in 1..n : u[i] = u[i - 1] + s[i]
      /\ Total(s) = u[n]
  BY UpToSteps
<1>2. r \in Stocks(n)
  BY UpdateTypes
<1>3. /\ v \in [0..n -> Nat] /\ v[0] = 0 /\ \A i \in 1..n : v[i] = v[i - 1] + r[i]
      /\ Total(r) = v[n]
  BY <1>2, UpToSteps
<1>4. /\ left \in [0..n -> Nat] /\ left[0] = count + 1
      /\ \A i \in 1..n : left[i] = left[i - 1] \div 2
  BY LeftSteps
<1>5. \A i \in 1..n : r[i] = s[i] + left[i]
  BY StockLength DEF UpdateOjama, Increase
<1> HIDE DEF u, v, r, left
<1> DEFINE N == {i \in 0..n : v[i] + (IF left[i] = 0 THEN 1 ELSE left[i]) <= u[i] + count + 1}
<1>6. 0 \in N
  BY <1>1, <1>3, <1>4
<1>7. ASSUME NEW i \in 1..n, i - 1 \in N PROVE i \in N
  <2>0. /\ u[i] \in Nat /\ u[i - 1] \in Nat /\ s[i] \in Nat /\ v[i - 1] \in Nat
        /\ left[i] \in Nat /\ left[i - 1] \in Nat
    BY <1>1, <1>3, <1>4 DEF Stocks
  <2>1. /\ u[i] = u[i - 1] + s[i] /\ v[i] = v[i - 1] + (s[i] + left[i])
        /\ left[i] = left[i - 1] \div 2
        /\ v[i - 1] + (IF left[i - 1] = 0 THEN 1 ELSE left[i - 1]) <= u[i - 1] + count + 1
    BY <1>1, <1>3, <1>4, <1>5, <1>7
  <2>2. left[i] + (IF left[i] = 0 THEN 1 ELSE left[i])
          <= (IF left[i - 1] = 0 THEN 1 ELSE left[i - 1])
    BY <2>0, <2>1
  <2>3. v[i] + (IF left[i] = 0 THEN 1 ELSE left[i]) <= u[i] + count + 1
    BY <2>0, <2>1, <2>2
  <2>4. QED BY <2>3
<1>8. 0..n \subseteq N
  <2> HIDE DEF N
  <2>1. QED BY <1>6, <1>7, BoundedInduction
<1>9. v[n] + (IF left[n] = 0 THEN 1 ELSE left[n]) <= u[n] + count + 1
  BY <1>8
<1>10. v[n] \in Nat /\ u[n] \in Nat /\ left[n] \in Nat
  BY <1>1, <1>3, <1>4
<1>11. QED BY <1>1, <1>3, <1>9, <1>10 DEF r

----------------------------------------------------------------------------
(* The state of the two layers.                                                    *)

\* The types the argument needs; the stocks are not among them.
TurnTypes ==
    /\ moving \in [Layer -> BOOLEAN] /\ falling_ \in [Layer -> BOOLEAN]
    /\ erasing \in [Layer -> BOOLEAN] /\ effect \in [Layer -> BOOLEAN]
    /\ attacking_ \in [Layer -> BOOLEAN] /\ counterAttack_ \in [Layer -> BOOLEAN]
    /\ lockOjama \in [Layer -> BOOLEAN] /\ ojamaFalled_ \in [Layer -> BOOLEAN]
    /\ fallers \in [Layer -> Nat] /\ landers \in [Layer -> Nat]
    /\ landingAnimationCount_ \in [Layer -> Nat] /\ landingAnimationMax_ \in [Layer -> Nat]
    /\ posted \in [Layer -> Nat]
    /\ half \in [Layer -> {"none", "first", "latter"}]
    /\ DOMAIN ojamaCountOnAttack_ = Layer
    /\ isGameOver \in BOOLEAN

Falling(l) == fallers[l] + landers[l] > 0

\* OneActivity of a layer, spelled out.
One(l) ==
    \/ moving[l] /\ ~Falling(l) /\ ~erasing[l] /\ ~effect[l] /\ ~counterAttack_[l]
    \/ ~moving[l] /\ Falling(l) /\ ~erasing[l] /\ ~effect[l] /\ ~counterAttack_[l]
    \/ ~moving[l] /\ ~Falling(l) /\ erasing[l] /\ ~effect[l] /\ ~counterAttack_[l]
    \/ ~moving[l] /\ ~Falling(l) /\ ~erasing[l] /\ effect[l]
    \/ ~moving[l] /\ ~Falling(l) /\ ~erasing[l] /\ ~effect[l] /\ counterAttack_[l]

\* Every piece that falls or lands is counted, so the last landing is recognised; the
\* flags fallOjamaPieces looks at are those of animations that run.
Counted(l) ==
    /\ landingAnimationMax_[l] = landingAnimationCount_[l] + fallers[l] + landers[l]
    /\ falling_[l] => fallers[l] > 0
    /\ attacking_[l] => effect[l]

\* While a counter attack is posted, the opponent has no attack in flight that would
\* restart a running animation and announce the counter attack again.
PostedInv(l) ==
    /\ posted[l] > 0 => posted[l] = 1 /\ Waiting(l)
    /\ posted[l] > 0 /\ half[l] # "none" => ~(effect[Opponent(l)] /\ ~counterAttack_[Opponent(l)])

LockInv(l) ==
    /\ AttackOn(l) => lockOjama[l]
    /\ lockOjama[l] => ~moving[Opponent(l)]

LayerInv(l) == Counted(l) /\ PostedInv(l) /\ LockInv(l) /\ (~isGameOver => One(l))

TurnInv == TurnTypes /\ \A l \in Layer : LayerInv(l)

LEMMA Layers ==
    \A l \in Layer : /\ Opponent(l) \in Layer /\ Opponent(l) # l
                    /\ Opponent(Opponent(l)) = l
                    /\ \A k \in Layer : k = l \/ k = Opponent(l)
BY DEF Layer, Opponent

\* One is OneActivity of one layer.
LEMMA Exactly ==
    ASSUME TurnTypes, NEW l \in Layer
    PROVE  One(l) <=> \E i \in 1..5 : Activity(l)[i] /\ \A j \in 1..5 \ {i} : ~Activity(l)[j]
<1> DEFINE A == Activity(l)
<1>1. /\ A[1] = moving[l] /\ A[2] = (fallers[l] + landers[l] > 0) /\ A[3] = erasing[l]
      /\ A[4] = effect[l] /\ A[5] = Waiting(l)
  BY DEF Activity
<1>2. 1..5 = {1, 2, 3, 4, 5}
  OBVIOUS
<1>3. /\ moving[l] \in BOOLEAN /\ erasing[l] \in BOOLEAN /\ effect[l] \in BOOLEAN
      /\ counterAttack_[l] \in BOOLEAN
  BY DEF TurnTypes
<1> HIDE DEF A
<1>4. (\E i \in 1..5 : A[i] /\ \A j \in 1..5 \ {i} : ~A[j]) <=>
        \/ A[1] /\ ~A[2] /\ ~A[3] /\ ~A[4] /\ ~A[5]
        \/ ~A[1] /\ A[2] /\ ~A[3] /\ ~A[4] /\ ~A[5]
        \/ ~A[1] /\ ~A[2] /\ A[3] /\ ~A[4] /\ ~A[5]
        \/ ~A[1] /\ ~A[2] /\ ~A[3] /\ A[4] /\ ~A[5]
        \/ ~A[1] /\ ~A[2] /\ ~A[3] /\ ~A[4] /\ A[5]
  BY ONLY <1>2
<1>5. One(l) <=>
        \/ A[1] /\ ~A[2] /\ ~A[3] /\ ~A[4] /\ ~A[5]
        \/ ~A[1] /\ A[2] /\ ~A[3] /\ ~A[4] /\ ~A[5]
        \/ ~A[1] /\ ~A[2] /\ A[3] /\ ~A[4] /\ ~A[5]
        \/ ~A[1] /\ ~A[2] /\ ~A[3] /\ A[4] /\ ~A[5]
        \/ ~A[1] /\ ~A[2] /\ ~A[3] /\ ~A[4] /\ A[5]
  BY <1>1, <1>3 DEF One, Falling, Waiting
<1>6. QED BY <1>4, <1>5 DEF A

LEMMA InitInv == Init => TurnInv
<1> SUFFICES ASSUME Init PROVE TurnInv
  OBVIOUS
<1>1. TurnTypes
  BY DEF Init, TurnTypes
<1>2. ASSUME NEW l \in Layer PROVE LayerInv(l)
  BY Layers DEF Init, LayerInv, Counted, PostedInv, LockInv, AttackOn, One, Falling, Waiting
<1>3. QED BY <1>1, <1>2 DEF TurnInv

----------------------------------------------------------------------------
(* What fallOjamaPieces and fallPieces leave behind, when they are called for a     *)
(* layer at rest: pieces fall, or the next block is moved, or the match is over.    *)

OutcomeTypes ==
    /\ moving' \in [Layer -> BOOLEAN] /\ falling_' \in [Layer -> BOOLEAN]
    /\ lockOjama' \in [Layer -> BOOLEAN] /\ ojamaFalled_' \in [Layer -> BOOLEAN]
    /\ fallers' \in [Layer -> Nat] /\ landingAnimationMax_' \in [Layer -> Nat]
    /\ isGameOver' \in BOOLEAN

OutcomeHere(l, m) ==
    /\ landingAnimationMax_'[l] = m + fallers'[l]
    /\ falling_'[l] => fallers'[l] > 0
    /\ ~isGameOver' => (moving'[l] <=> fallers'[l] = 0)
    /\ isGameOver' => \A k \in Layer : ~moving'[k]
    /\ moving'[l] => ~lockOjama'[Opponent(l)]
    /\ ~ojamaFalled_[l] /\ ojamaFalled_'[l] => ~lockOjama[l]

OutcomeThere(l) ==
    LET o == Opponent(l)
    IN  /\ fallers'[o] = fallers[o] /\ falling_'[o] = falling_[o]
        /\ landingAnimationMax_'[o] = landingAnimationMax_[o]
        /\ ojamaFalled_'[o] = ojamaFalled_[o]
        /\ lockOjama'[l] = lockOjama[l]
        /\ lockOjama'[o] => lockOjama[o]
        /\ ~moving'[l] => lockOjama'[o] = lockOjama[o]
        /\ ~isGameOver' => moving'[o] = moving[o]

Outcome(l, m) == OutcomeTypes /\ OutcomeHere(l, m) /\ OutcomeThere(l)

AtRest(l) == /\ ~isGameOver /\ fallers[l] = 0 /\ ~falling_[l] /\ ~moving[l]

LEMMA StartFallOutcome ==
    ASSUME TurnTypes, NEW l \in Layer, NEW m \in Nat, NEW n \in Nat \ {0}, AtRest(l),
           StartFall(l, n, m), UNCHANGED <<moving, lockOjama, isGameOver>>,
           \/ UNCHANGED ojamaFalled_
           \/ ~lockOjama[l] /\ ojamaFalled_' = [ojamaFalled_ EXCEPT ![l] = TRUE]
    PROVE  Outcome(l, m)
<1>1. OutcomeTypes
  <2>1. fallers' \in [Layer -> Nat] /\ landingAnimationMax_' \in [Layer -> Nat]
    BY DEF TurnTypes, StartFall
  <2>2. (falling_[l] \/ n > 0) \in BOOLEAN
    OBVIOUS
  <2>3. falling_' \in [Layer -> BOOLEAN]
    BY <2>2 DEF TurnTypes, StartFall
  <2>4. ojamaFalled_' \in [Layer -> BOOLEAN]
    BY DEF TurnTypes
  <2>5. QED BY <2>1, <2>3, <2>4 DEF TurnTypes, OutcomeTypes
<1>2. OutcomeHere(l, m)
  BY DEF TurnTypes, OutcomeHere, StartFall, AtRest
<1>3. OutcomeThere(l)
  BY Layers DEF TurnTypes, OutcomeThere, StartFall
<1>4. QED BY <1>1, <1>2, <1>3 DEF Outcome

LEMMA OjamaOutcome ==
    ASSUME TurnTypes, TurnAssumption, NEW l \in Layer, NEW s, NEW m \in Nat, AtRest(l),
           ~attacking_'[l], FallOjamaPieces(l, s, m)
    PROVE  Outcome(l, m)
<1>1. CASE GameOver(s, l, m)
  <2>1. OutcomeTypes
    BY <1>1 DEF TurnTypes, OutcomeTypes, GameOver
  <2>2. OutcomeHere(l, m)
    BY <1>1, Layers DEF TurnTypes, OutcomeHere, GameOver, AtRest
  <2>3. OutcomeThere(l)
    BY <1>1, Layers DEF TurnTypes, OutcomeThere, GameOver
  <2>4. QED BY <2>1, <2>2, <2>3 DEF Outcome
<1>2. CASE ~lockOjama[l] /\ DropOjama(l, s, m)
  <2>1. PICK n \in 1..MaxRoom : StartFall(l, n, m)
    BY <1>2 DEF DropOjama
  <2>2. n \in Nat \ {0}
    BY TurnAssumption DEF TurnAssumption
  <2>3. QED BY <1>2, <2>1, <2>2, StartFallOutcome DEF DropOjama
<1>3. CASE CreateNewBlock(l, s, m)
  <2>1. OutcomeTypes
    BY <1>3, Layers DEF TurnTypes, OutcomeTypes, CreateNewBlock
  <2>2. OutcomeHere(l, m)
    BY <1>3, Layers DEF TurnTypes, OutcomeHere, CreateNewBlock, AtRest
  <2>3. OutcomeThere(l)
    BY <1>3, Layers DEF TurnTypes, OutcomeThere, CreateNewBlock
  <2>4. QED BY <2>1, <2>2, <2>3 DEF Outcome
<1>4. QED BY <1>1, <1>2, <1>3 DEF FallOjamaPieces, AtRest

LEMMA PiecesOutcome ==
    ASSUME TurnTypes, TurnAssumption, NEW l \in Layer, NEW s, AtRest(l), ~attacking_'[l],
           FallPieces(l, s)
    PROVE  Outcome(l, landingAnimationMax_[l])
<1>1. landingAnimationMax_[l] \in Nat
  BY DEF TurnTypes
<1>2. CASE FallOjamaPieces(l, s, landingAnimationMax_[l])
  BY <1>1, <1>2, OjamaOutcome
<1>3. CASE /\ \E n \in 1..MaxFall : StartFall(l, n, landingAnimationMax_[l])
           /\ UNCHANGED <<moving, lockOjama, ojamaFalled_, isGameOver>>
  <2>1. PICK n \in 1..MaxFall : StartFall(l, n, landingAnimationMax_[l])
    BY <1>3
  <2>2. n \in Nat \ {0}
    BY TurnAssumption DEF TurnAssumption
  <2>3. QED BY <1>1, <1>3, <2>1, <2>2, StartFallOutcome
<1>4. QED BY <1>2, <1>3 DEF FallPieces

----------------------------------------------------------------------------
(* Every step keeps the invariant.                                                 *)

LEMMA Untouched ==
    ASSUME NEW k, LayerInv(k), ~isGameOver' => ~isGameOver /\ moving'[k] = moving[k],
           fallers'[k] = fallers[k], landers'[k] = landers[k],
           falling_'[k] = falling_[k], erasing'[k] = erasing[k],
           landingAnimationCount_'[k] = landingAnimationCount_[k],
           landingAnimationMax_'[k] = landingAnimationMax_[k], effect'[k] = effect[k],
           attacking_'[k] = attacking_[k], counterAttack_'[k] = counterAttack_[k]
    PROVE  Counted(k)' /\ (~isGameOver' => One(k)')
BY DEF LayerInv, Counted, One, Falling

LEMMA DecideBlockKeeps ==
    ASSUME TurnInv, NEW l \in Layer, DecideBlock(l) PROVE TurnInv'
<1> DEFINE o == Opponent(l)
<1>o. /\ o \in Layer /\ o # l /\ Opponent(l) = o /\ Opponent(o) = l
      /\ \A k \in Layer : k = l \/ k = o
  BY Layers
<1> HIDE DEF o
<1>1. TurnTypes /\ LayerInv(l) /\ LayerInv(o) /\ One(l) /\ moving[l]
  BY <1>o DEF TurnInv, LayerInv, DecideBlock
<1>2. PICK n \in 0..1 : /\ StartFall(l, n, landingAnimationMax_[l] + 2 - n)
                       /\ landers' = [landers EXCEPT ![l] = @ + 2 - n]
  BY DEF DecideBlock
<1>3. TurnTypes'
  <2>1. /\ fallers' \in [Layer -> Nat] /\ landingAnimationMax_' \in [Layer -> Nat]
        /\ landers' \in [Layer -> Nat]
    BY <1>1, <1>2 DEF TurnTypes, StartFall
  <2>2. (falling_[l] \/ n > 0) \in BOOLEAN
    OBVIOUS
  <2>3. falling_' \in [Layer -> BOOLEAN] /\ moving' \in [Layer -> BOOLEAN]
    BY <1>1, <1>2, <2>2 DEF TurnTypes, StartFall, DecideBlock
  <2>4. QED BY <1>1, <2>1, <2>3 DEF TurnTypes, DecideBlock, chain, attack, ojama, status
<1>4. /\ fallers'[l] = fallers[l] + n /\ landers'[l] = landers[l] + 2 - n
      /\ landingAnimationMax_'[l] = landingAnimationMax_[l] + 2
      /\ falling_'[l] = (falling_[l] \/ n > 0) /\ ~moving'[l]
  BY <1>1, <1>2 DEF TurnTypes, StartFall, DecideBlock
<1>5. /\ fallers'[o] = fallers[o] /\ landers'[o] = landers[o]
      /\ landingAnimationMax_'[o] = landingAnimationMax_[o]
      /\ falling_'[o] = falling_[o] /\ moving'[o] = moving[o]
  BY <1>1, <1>2, <1>o DEF TurnTypes, StartFall, DecideBlock
<1>6. UNCHANGED <<landingAnimationCount_, erasing, effect, attacking_, counterAttack_,
                  ojamaCountOnAttack_, posted, lockOjama, half, isGameOver>>
  BY DEF DecideBlock, attack, ojama, status
<1>7. LayerInv(l)'
  <2>1. Counted(l)'
    BY <1>1, <1>4, <1>6 DEF TurnTypes, LayerInv, Counted
  <2>2. PostedInv(l)' /\ LockInv(l)'
    BY <1>1, <1>o, <1>4, <1>5, <1>6 DEF LayerInv, PostedInv, LockInv, Waiting, AttackOn
  <2>3. One(l)'
    BY <1>1, <1>4, <1>6 DEF TurnTypes, One, Falling
  <2>4. QED BY <2>1, <2>2, <2>3 DEF LayerInv
<1>8. LayerInv(o)'
  <2>1. Counted(o)' /\ (~isGameOver' => One(o)')
    BY <1>1, <1>5, <1>6, Untouched
  <2>2. PostedInv(o)' /\ LockInv(o)'
    BY <1>1, <1>o, <1>4, <1>5, <1>6 DEF LayerInv, PostedInv, LockInv, Waiting, AttackOn
  <2>3. QED BY <2>1, <2>2 DEF LayerInv
<1>9. QED BY <1>3, <1>7, <1>8, <1>o DEF TurnInv

LEMMA OnStopMoverKeeps ==
    ASSUME TurnInv, NEW l \in Layer, OnStopMover(l) PROVE TurnInv'
<1> DEFINE o == Opponent(l)
<1>o. /\ o \in Layer /\ o # l /\ Opponent(l) = o /\ Opponent(o) = l
      /\ \A k \in Layer : k = l \/ k = o
  BY Layers
<1> HIDE DEF o
<1>1. TurnTypes /\ LayerInv(l) /\ LayerInv(o) /\ One(l) /\ fallers[l] > 0
  BY <1>o DEF TurnInv, LayerInv, OnStopMover
<1>3. TurnTypes'
  <2>1. fallers' \in [Layer -> Nat] /\ landers' \in [Layer -> Nat]
    BY <1>1 DEF TurnTypes, OnStopMover
  <2>2. falling_' \in [Layer -> BOOLEAN]
    BY <1>1 DEF TurnTypes, OnStopMover
  <2>3. QED BY <1>1, <2>1, <2>2 DEF TurnTypes, OnStopMover, chain, attack, ojama, status
<1>4. fallers'[l] = fallers[l] - 1 /\ landers'[l] = landers[l] + 1 /\ ~falling_'[l]
  BY <1>1 DEF TurnTypes, OnStopMover
<1>5. fallers'[o] = fallers[o] /\ landers'[o] = landers[o] /\ falling_'[o] = falling_[o]
  BY <1>1, <1>o DEF TurnTypes, OnStopMover
<1>6. UNCHANGED <<moving, landingAnimationCount_, landingAnimationMax_, erasing, effect,
                  attacking_, counterAttack_, ojamaCountOnAttack_, posted, lockOjama, half,
                  isGameOver>>
  BY DEF OnStopMover, attack, ojama, status
<1>7. LayerInv(l)'
  <2>1. Counted(l)'
    BY <1>1, <1>4, <1>6 DEF TurnTypes, LayerInv, Counted
  <2>2. PostedInv(l)' /\ LockInv(l)'
    BY <1>1, <1>o, <1>6 DEF LayerInv, PostedInv, LockInv, Waiting, AttackOn
  <2>3. One(l)'
    BY <1>1, <1>4, <1>6 DEF TurnTypes, One, Falling
  <2>4. QED BY <2>1, <2>2, <2>3 DEF LayerInv
<1>8. LayerInv(o)'
  <2>1. Counted(o)' /\ (~isGameOver' => One(o)')
    BY <1>1, <1>5, <1>6, Untouched
  <2>2. PostedInv(o)' /\ LockInv(o)'
    BY <1>1, <1>o, <1>6 DEF LayerInv, PostedInv, LockInv, Waiting, AttackOn
  <2>3. QED BY <2>1, <2>2 DEF LayerInv
<1>9. QED BY <1>3, <1>7, <1>8, <1>o DEF TurnInv


LEMMA FirstHalfEndsKeeps ==
    ASSUME TurnInv, NEW l \in Layer, FirstHalfEnds(l) PROVE TurnInv'
<1> DEFINE o == Opponent(l)
<1>o. /\ o \in Layer /\ o # l /\ Opponent(l) = o /\ Opponent(o) = l
      /\ \A k \in Layer : k = l \/ k = o
  BY Layers
<1> HIDE DEF o
<1>1. TurnTypes /\ LayerInv(l) /\ LayerInv(o) /\ One(l) /\ half[l] = "first"
  BY <1>o DEF TurnInv, LayerInv, FirstHalfEnds
<1>2. half' = [half EXCEPT ![l] = "latter"]
  BY DEF FirstHalfEnds
<1>3. TurnTypes'
  BY <1>1, <1>2 DEF TurnTypes, FirstHalfEnds, board, chain, attack
<1>6. UNCHANGED <<moving, fallers, landers, falling_, landingAnimationCount_,
                  landingAnimationMax_, erasing, effect, attacking_, counterAttack_,
                  ojamaCountOnAttack_, posted, lockOjama, isGameOver>>
  BY DEF FirstHalfEnds, board, attack
<1>4. half'[l] = "latter" /\ half'[o] = half[o]
  BY <1>1, <1>2, <1>o DEF TurnTypes
<1>7. LayerInv(l)'
  <2>1. Counted(l)' /\ (~isGameOver' => One(l)')
    BY <1>1, <1>6, Untouched
  <2>2. PostedInv(l)' /\ LockInv(l)'
    BY <1>1, <1>o, <1>4, <1>6 DEF LayerInv, PostedInv, LockInv, Waiting, AttackOn
  <2>3. QED BY <2>1, <2>2 DEF LayerInv
<1>8. LayerInv(o)'
  <2>1. Counted(o)' /\ (~isGameOver' => One(o)')
    BY <1>1, <1>6, Untouched
  <2>2. PostedInv(o)' /\ LockInv(o)'
    BY <1>1, <1>o, <1>4, <1>6 DEF LayerInv, PostedInv, LockInv, Waiting, AttackOn
  <2>3. QED BY <2>1, <2>2 DEF LayerInv
<1>9. QED BY <1>3, <1>7, <1>8, <1>o DEF TurnInv


LEMMA LatterHalfEndsKeeps ==
    ASSUME TurnInv, NEW l \in Layer, LatterHalfEnds(l) PROVE TurnInv'
<1> DEFINE o == Opponent(l)
<1>o. /\ o \in Layer /\ o # l /\ Opponent(l) = o /\ Opponent(o) = l
      /\ \A k \in Layer : k = l \/ k = o
  BY Layers
<1> HIDE DEF o
<1>1. TurnTypes /\ LayerInv(l) /\ LayerInv(o) /\ One(l) /\ posted[l] = 0
  BY <1>o DEF TurnInv, LayerInv, LatterHalfEnds
<1>2. /\ half' = [half EXCEPT ![l] = "none"]
      /\ posted' = posted \/ posted' = [posted EXCEPT ![l] = @ + CounterDue(l)]
  BY DEF LatterHalfEnds
<1>c. CounterDue(l) \in 0..1 /\ (CounterDue(l) = 1 => Waiting(l))
  BY DEF CounterDue, Waiting
<1>3. TurnTypes'
  <2>1. posted' \in [Layer -> Nat]
    BY <1>1, <1>2, <1>c DEF TurnTypes
  <2>2. QED BY <1>1, <1>2, <2>1 DEF TurnTypes, LatterHalfEnds, board, chain, ojama
<1>6. UNCHANGED <<moving, fallers, landers, falling_, landingAnimationCount_,
                  landingAnimationMax_, erasing, effect, attacking_, counterAttack_,
                  ojamaCountOnAttack_, lockOjama, isGameOver>>
  BY DEF LatterHalfEnds, board, ojama
<1>4. /\ half'[l] = "none" /\ half'[o] = half[o] /\ posted'[o] = posted[o]
      /\ posted'[l] > 0 => posted'[l] = 1 /\ Waiting(l)
  BY <1>1, <1>2, <1>c, <1>o DEF TurnTypes
<1>7. LayerInv(l)'
  <2>1. Counted(l)' /\ (~isGameOver' => One(l)')
    BY <1>1, <1>6, Untouched
  <2>2. PostedInv(l)' /\ LockInv(l)'
    BY <1>1, <1>o, <1>4, <1>6 DEF LayerInv, PostedInv, LockInv, Waiting, AttackOn
  <2>3. QED BY <2>1, <2>2 DEF LayerInv
<1>8. LayerInv(o)'
  <2>1. Counted(o)' /\ (~isGameOver' => One(o)')
    BY <1>1, <1>6, Untouched
  <2>2. PostedInv(o)' /\ LockInv(o)'
    BY <1>1, <1>o, <1>4, <1>6 DEF LayerInv, PostedInv, LockInv, Waiting, AttackOn
  <2>3. QED BY <2>1, <2>2 DEF LayerInv
<1>9. QED BY <1>3, <1>7, <1>8, <1>o DEF TurnInv


LEMMA EndEraseKeeps ==
    ASSUME TurnInv, NEW l \in Layer, EndErase(l) PROVE TurnInv'
<1> DEFINE o == Opponent(l)
<1>o. /\ o \in Layer /\ o # l /\ Opponent(l) = o /\ Opponent(o) = l
      /\ \A k \in Layer : k = l \/ k = o
  BY Layers
<1> HIDE DEF o
<1>1. TurnTypes /\ LayerInv(l) /\ LayerInv(o) /\ One(l) /\ erasing[l] /\ posted[l] = 0 /\ posted[o] = 0
  BY <1>o DEF TurnInv, LayerInv, EndErase
<1>3. TurnTypes'
  <2>1. lockOjama' \in [Layer -> BOOLEAN]
    BY <1>1 DEF TurnTypes, EndErase, LockOpponent
  <2>2. QED BY <1>1, <2>1 DEF TurnTypes, EndErase, chain, status
<1>4. /\ ~erasing'[l] /\ effect'[l] /\ attacking_'[l] /\ ~counterAttack_'[l]
      /\ lockOjama'[l] = lockOjama[l]
      /\ Total(stock[l]) = 0 => lockOjama'[o]
      /\ ojamaCountOnAttack_'[l] = Total(stock[l])
  BY <1>1, <1>o DEF TurnTypes, EndErase, LockOpponent
<1>5. /\ erasing'[o] = erasing[o] /\ effect'[o] = effect[o] /\ attacking_'[o] = attacking_[o]
      /\ counterAttack_'[o] = counterAttack_[o]
      /\ ojamaCountOnAttack_'[o] = ojamaCountOnAttack_[o]
  BY <1>1, <1>o DEF TurnTypes, EndErase
<1>6. UNCHANGED <<moving, fallers, landers, falling_, landingAnimationCount_,
                  landingAnimationMax_, posted, half, isGameOver>>
  BY DEF EndErase, status
<1>7. LayerInv(l)'
  <2>1. Counted(l)'
    BY <1>1, <1>4, <1>6 DEF LayerInv, Counted
  <2>2. PostedInv(l)' /\ LockInv(l)'
    BY <1>1, <1>o, <1>4, <1>5, <1>6 DEF LayerInv, PostedInv, LockInv, AttackOn
  <2>3. One(l)'
    BY <1>1, <1>4, <1>6 DEF One, Falling
  <2>4. QED BY <2>1, <2>2, <2>3 DEF LayerInv
<1>8. LayerInv(o)'
  <2>1. Counted(o)' /\ (~isGameOver' => One(o)')
    BY <1>1, <1>5, <1>6, Untouched
  <2>2. PostedInv(o)'
    BY <1>1, <1>6 DEF PostedInv
  <2>3. AttackOn(o)' => lockOjama'[o]
    BY <1>o, <1>4 DEF AttackOn
  <2>4. ~moving'[l]
    BY <1>1, <1>6 DEF One
  <2>5. QED BY <1>o, <2>1, <2>2, <2>3, <2>4 DEF LayerInv, LockInv
<1>9. QED BY <1>3, <1>7, <1>8, <1>o DEF TurnInv


LEMMA StartCounterKeeps ==
    ASSUME TurnInv, NEW l \in Layer, StartCounterAttackEffect(l) PROVE TurnInv'
<1> DEFINE o == Opponent(l)
<1>o. /\ o \in Layer /\ o # l /\ Opponent(l) = o /\ Opponent(o) = l
      /\ \A k \in Layer : k = l \/ k = o
  BY Layers
<1> HIDE DEF o
<1>1. TurnTypes /\ LayerInv(l) /\ LayerInv(o) /\ One(l) /\ posted[l] > 0
  BY <1>o DEF TurnInv, LayerInv, StartCounterAttackEffect
<1>3. TurnTypes'
  <2>1. posted' \in [Layer -> Nat]
    BY <1>1 DEF TurnTypes, StartCounterAttackEffect
  <2>2. effect' \in [Layer -> BOOLEAN] /\ DOMAIN ojamaCountOnAttack_' = Layer
    BY <1>1 DEF TurnTypes, StartCounterAttackEffect
  <2>3. QED BY <1>1, <2>1, <2>2 DEF TurnTypes, StartCounterAttackEffect, board, chain, ojama, status
<1>4. effect'[l] /\ posted'[l] = posted[l] - 1 /\ posted[l] = 1 /\ Waiting(l)
  BY <1>1 DEF TurnTypes, StartCounterAttackEffect, LayerInv, PostedInv
<1>5. /\ effect'[o] = effect[o] /\ posted'[o] = posted[o]
      /\ ojamaCountOnAttack_'[o] = ojamaCountOnAttack_[o]
  BY <1>1, <1>o DEF TurnTypes, StartCounterAttackEffect
<1>6. UNCHANGED <<moving, fallers, landers, falling_, landingAnimationCount_,
                  landingAnimationMax_, erasing, attacking_, counterAttack_, lockOjama, half,
                  isGameOver>>
  BY DEF StartCounterAttackEffect, board, ojama, status
<1>7. LayerInv(l)'
  <2>1. Counted(l)'
    BY <1>1, <1>4, <1>6 DEF LayerInv, Counted
  <2>2. PostedInv(l)' /\ LockInv(l)'
    BY <1>1, <1>o, <1>4, <1>5, <1>6 DEF LayerInv, PostedInv, LockInv, AttackOn
  <2>3. One(l)'
    BY <1>1, <1>4, <1>6 DEF One, Falling, Waiting
  <2>4. QED BY <2>1, <2>2, <2>3 DEF LayerInv
<1>8. LayerInv(o)'
  <2>1. Counted(o)' /\ (~isGameOver' => One(o)')
    BY <1>1, <1>5, <1>6, Untouched
  <2>2. PostedInv(o)' /\ LockInv(o)'
    BY <1>1, <1>o, <1>4, <1>5, <1>6 DEF LayerInv, PostedInv, LockInv, AttackOn, Waiting
  <2>3. QED BY <2>1, <2>2 DEF LayerInv
<1>9. QED BY <1>3, <1>7, <1>8, <1>o DEF TurnInv

LEMMA EndLandingKeeps ==
    ASSUME TurnInv, TurnAssumption, NEW l \in Layer, EndLanding(l) PROVE TurnInv'
<1> DEFINE o == Opponent(l)
<1>o. /\ o \in Layer /\ o # l /\ Opponent(l) = o /\ Opponent(o) = l
      /\ \A k \in Layer : k = l \/ k = o
  BY Layers
<1> HIDE DEF o
<1>1. TurnTypes /\ LayerInv(l) /\ LayerInv(o) /\ One(l) /\ landers[l] > 0 /\ ~isGameOver
  BY <1>o DEF TurnInv, LayerInv, EndLanding
<1> DEFINE landed == landingAnimationCount_[l] + 1
           all == LastLanded(l, landed)
<1>2. /\ landers' = [landers EXCEPT ![l] = @ - 1]
      /\ landingAnimationCount_' = [landingAnimationCount_ EXCEPT ![l] = IF all THEN 0 ELSE landed]
      /\ UNCHANGED <<effect, attacking_, counterAttack_, ojamaCountOnAttack_, posted, half>>
  BY DEF EndLanding, attack, status
<1>3. landers' \in [Layer -> Nat] /\ landingAnimationCount_' \in [Layer -> Nat]
  BY <1>1, <1>2 DEF TurnTypes
<1>4. /\ landers'[l] = landers[l] - 1 /\ landers'[o] = landers[o]
      /\ landingAnimationCount_'[l] = IF all THEN 0 ELSE landed
      /\ landingAnimationCount_'[o] = landingAnimationCount_[o]
  BY <1>1, <1>2, <1>o DEF TurnTypes
<1>5. /\ ~moving[l] /\ ~erasing[l] /\ ~effect[l] /\ ~counterAttack_[l] /\ ~attacking_[l]
      /\ posted[l] = 0
  BY <1>1 DEF TurnTypes, One, Falling, LayerInv, Counted, PostedInv, Waiting
<1>6. CASE ~all
  <2>1. UNCHANGED <<moving, fallers, falling_, landingAnimationMax_, erasing, lockOjama,
                    ojamaFalled_, isGameOver>>
    BY <1>6 DEF EndLanding, ojama
  <2>2. TurnTypes'
    BY <1>1, <1>2, <1>3, <2>1 DEF TurnTypes
  <2>3. LayerInv(l)'
    <3>1. Counted(l)'
      BY <1>1, <1>2, <1>4, <1>6, <2>1 DEF TurnTypes, LayerInv, Counted
    <3>2. PostedInv(l)' /\ LockInv(l)'
      BY <1>1, <1>2, <1>o, <2>1 DEF LayerInv, PostedInv, LockInv, Waiting, AttackOn
    <3>3. fallers'[l] + landers'[l] > 0
      BY <1>1, <1>4, <1>6, <2>1 DEF TurnTypes, LayerInv, Counted, LastLanded
    <3>4. One(l)'
      BY <1>2, <1>5, <2>1, <3>3 DEF One, Falling
    <3>5. QED BY <3>1, <3>2, <3>4 DEF LayerInv
  <2>4. LayerInv(o)'
    <3>1. Counted(o)' /\ (~isGameOver' => One(o)')
      BY <1>1, <1>2, <1>4, <2>1, Untouched
    <3>2. PostedInv(o)' /\ LockInv(o)'
      BY <1>1, <1>2, <1>o, <2>1 DEF LayerInv, PostedInv, LockInv, Waiting, AttackOn
    <3>3. QED BY <3>1, <3>2 DEF LayerInv
  <2>5. QED BY <2>2, <2>3, <2>4, <1>o DEF TurnInv
<1>7. CASE all
  <2>1. fallers[l] = 0 /\ landers[l] = 1 /\ ~falling_[l]
    BY <1>1, <1>7 DEF TurnTypes, LayerInv, Counted, LastLanded
  <2>2. landers'[l] = 0 /\ landingAnimationCount_'[l] = 0
    BY <1>4, <1>7, <2>1
  <2>3. ErasePieces(l)
    BY <1>7 DEF EndLanding
  <2>4. CASE /\ erasing' = [erasing EXCEPT ![l] = TRUE]
             /\ landingAnimationMax_' = [landingAnimationMax_ EXCEPT ![l] = 0]
             /\ UNCHANGED <<moving, fallers, falling_, lockOjama, ojamaFalled_, isGameOver>>
    <3>1. TurnTypes'
      BY <1>1, <1>2, <1>3, <2>4 DEF TurnTypes
    <3>2. /\ erasing'[l] /\ landingAnimationMax_'[l] = 0
          /\ erasing'[o] = erasing[o] /\ landingAnimationMax_'[o] = landingAnimationMax_[o]
      BY <1>1, <1>o, <2>4 DEF TurnTypes
    <3>3. LayerInv(l)'
      <4>1. Counted(l)'
        BY <1>2, <1>5, <2>1, <2>2, <2>4, <3>2 DEF Counted
      <4>2. PostedInv(l)' /\ LockInv(l)'
        BY <1>1, <1>2, <1>o, <2>4 DEF LayerInv, PostedInv, LockInv, Waiting, AttackOn
      <4>3. One(l)'
        BY <1>2, <1>5, <2>1, <2>2, <2>4, <3>2 DEF One, Falling
      <4>4. QED BY <4>1, <4>2, <4>3 DEF LayerInv
    <3>4. LayerInv(o)'
      <4>1. Counted(o)' /\ (~isGameOver' => One(o)')
        BY <1>1, <1>2, <1>4, <2>4, <3>2, Untouched
      <4>2. PostedInv(o)' /\ LockInv(o)'
        BY <1>1, <1>2, <1>o, <2>4 DEF LayerInv, PostedInv, LockInv, Waiting, AttackOn
      <4>3. QED BY <4>1, <4>2 DEF LayerInv
    <3>5. QED BY <3>1, <3>3, <3>4, <1>o DEF TurnInv
  <2>5. CASE FallOjamaPieces(l, stock, 0) /\ UNCHANGED erasing
    <3>1. Outcome(l, 0)
      BY <1>1, <1>2, <1>5, <2>1, <2>5, OjamaOutcome DEF AtRest
    <3>2. TurnTypes'
      BY <1>1, <1>2, <1>3, <2>5, <3>1 DEF TurnTypes, Outcome, OutcomeTypes
    <3>3. LayerInv(l)'
      <4>1. Counted(l)'
        BY <1>2, <1>5, <2>2, <3>1, <3>2 DEF TurnTypes, Counted, Outcome, OutcomeHere
      <4>2. PostedInv(l)'
        BY <1>2, <1>5 DEF PostedInv
      <4>3. LockInv(l)'
        BY <1>1, <1>2, <1>o, <3>1 DEF LayerInv, LockInv, AttackOn, Outcome, OutcomeHere, OutcomeThere
      <4>4. ~isGameOver' => One(l)'
        BY <1>2, <1>5, <2>2, <2>5, <3>1, <3>2
           DEF TurnTypes, One, Falling, Outcome, OutcomeHere
      <4>5. QED BY <4>1, <4>2, <4>3, <4>4 DEF LayerInv
    <3>4. LayerInv(o)'
      <4>1. Counted(o)' /\ (~isGameOver' => One(o)')
        BY <1>1, <1>2, <1>4, <1>o, <2>5, <3>1, Untouched DEF Outcome, OutcomeThere
      <4>2. PostedInv(o)'
        BY <1>1, <1>2 DEF LayerInv, PostedInv, Waiting
      <4>3. LockInv(o)'
        BY <1>1, <1>2, <1>5, <1>o, <3>1 DEF LayerInv, LockInv, AttackOn, Outcome, OutcomeHere, OutcomeThere
      <4>4. QED BY <4>1, <4>2, <4>3 DEF LayerInv
    <3>5. QED BY <3>2, <3>3, <3>4, <1>o DEF TurnInv
  <2>6. QED BY <2>3, <2>4, <2>5 DEF ErasePieces, ojama
<1>8. QED BY <1>6, <1>7

\* What the three ends of an attack effect share.  The turn goes on (FallPieces), or a
\* counter attack is due.
LEMMA EffectStopsKeeps ==
    ASSUME TurnInv, TurnAssumption, NEW l \in Layer, NEW s, EffectStops(l),
           counterAttack_' \in [Layer -> BOOLEAN], posted' \in [Layer -> Nat],
           half' \in [Layer -> {"none", "first", "latter"}],
           counterAttack_'[Opponent(l)] = counterAttack_[Opponent(l)], posted'[l] = 0,
           posted'[Opponent(l)] > 0 => posted'[Opponent(l)] = 1 /\ Waiting(Opponent(l)),
           \/ ~counterAttack_'[l] /\ FallPieces(l, s)
           \/ /\ counterAttack_'[l]
              /\ UNCHANGED <<moving, fallers, falling_, landingAnimationMax_, lockOjama,
                             ojamaFalled_, isGameOver>>
    PROVE  TurnInv'
<1> DEFINE o == Opponent(l)
<1>o. /\ o \in Layer /\ o # l /\ Opponent(l) = o /\ Opponent(o) = l
      /\ \A k \in Layer : k = l \/ k = o
  BY Layers
<1> HIDE DEF o
<1>1. TurnTypes /\ LayerInv(l) /\ LayerInv(o) /\ One(l) /\ effect[l] /\ ~isGameOver
  BY <1>o DEF TurnInv, LayerInv, EffectStops
<1>2. effect' \in [Layer -> BOOLEAN] /\ attacking_' \in [Layer -> BOOLEAN]
  BY <1>1 DEF TurnTypes, EffectStops
<1>3. /\ ~effect'[l] /\ ~attacking_'[l] /\ effect'[o] = effect[o] /\ attacking_'[o] = attacking_[o]
      /\ UNCHANGED <<landers, landingAnimationCount_, erasing, ojamaCountOnAttack_>>
  BY <1>1, <1>o DEF TurnTypes, EffectStops
<1>4. ~moving[l] /\ ~erasing[l] /\ fallers[l] = 0 /\ landers[l] = 0 /\ ~falling_[l]
  <2>1. ~moving[l] /\ ~erasing[l] /\ ~Falling(l)
    BY <1>1 DEF One
  <2>2. fallers[l] = 0 /\ landers[l] = 0
    BY <1>1, <2>1 DEF TurnTypes, Falling
  <2>3. ~(fallers[l] > 0)
    BY <2>2
  <2>4. QED BY <1>1, <2>1, <2>2, <2>3 DEF LayerInv, Counted
<1>5. PostedInv(l)' /\ PostedInv(o)'
  BY <1>3, <1>o DEF PostedInv, Waiting
<1>6. CASE /\ counterAttack_'[l]
           /\ UNCHANGED <<moving, fallers, falling_, landingAnimationMax_, lockOjama,
                          ojamaFalled_, isGameOver>>
  <2>1. TurnTypes'
    BY <1>1, <1>2, <1>3, <1>6 DEF TurnTypes
  <2>2. LayerInv(l)'
    <3>1. Counted(l)'
      BY <1>1, <1>3, <1>6 DEF LayerInv, Counted
    <3>2. LockInv(l)'
      BY <1>1, <1>3, <1>6, <1>o DEF LayerInv, LockInv, AttackOn
    <3>3. One(l)'
      BY <1>1, <1>3, <1>4, <1>6 DEF One, Falling
    <3>4. QED BY <1>5, <3>1, <3>2, <3>3 DEF LayerInv
  <2>3. LayerInv(o)'
    <3>1. Counted(o)' /\ (~isGameOver' => One(o)')
      BY <1>1, <1>3, <1>6, <1>o, Untouched
    <3>2. LockInv(o)'
      BY <1>1, <1>3, <1>6, <1>o DEF LayerInv, LockInv, AttackOn
    <3>3. QED BY <1>5, <3>1, <3>2 DEF LayerInv
  <2>4. QED BY <2>1, <2>2, <2>3, <1>o DEF TurnInv
<1>7. CASE ~counterAttack_'[l] /\ FallPieces(l, s)
  <2>1. Outcome(l, landingAnimationMax_[l])
    BY <1>1, <1>3, <1>4, <1>7, PiecesOutcome DEF AtRest
  <2>2. TurnTypes'
    BY <1>1, <1>2, <1>3, <2>1 DEF TurnTypes, Outcome, OutcomeTypes
  <2>3. LayerInv(l)'
    <3>1. Counted(l)'
      BY <1>1, <1>3, <1>4, <2>1, <2>2
         DEF TurnTypes, LayerInv, Counted, Outcome, OutcomeHere
    <3>2. LockInv(l)'
      BY <1>1, <1>3, <1>o, <2>1 DEF LayerInv, LockInv, AttackOn, Outcome, OutcomeHere, OutcomeThere
    <3>3. ~isGameOver' => One(l)'
      BY <1>3, <1>4, <1>7, <2>1, <2>2 DEF TurnTypes, One, Falling, Outcome, OutcomeHere
    <3>4. QED BY <1>5, <3>1, <3>2, <3>3 DEF LayerInv
  <2>4. LayerInv(o)'
    <3>1. Counted(o)' /\ (~isGameOver' => One(o)')
      BY <1>1, <1>3, <1>o, <2>1, Untouched DEF Outcome, OutcomeThere
    <3>2. LockInv(o)'
      BY <1>1, <1>3, <1>o, <2>1 DEF LayerInv, LockInv, AttackOn, Outcome, OutcomeHere, OutcomeThere
    <3>3. QED BY <1>5, <3>1, <3>2 DEF LayerInv
  <2>5. QED BY <2>2, <2>3, <2>4, <1>o DEF TurnInv
<1>8. QED BY <1>6, <1>7

LEMMA AddOjamaTypes ==
    ASSUME TurnTypes, NEW t \in Layer, NEW n, NEW b \in BOOLEAN, AddOjama(t, n, b)
    PROVE  /\ posted' \in [Layer -> Nat] /\ half' \in [Layer -> {"none", "first", "latter"}]
           /\ posted'[Opponent(t)] = posted[Opponent(t)]
           /\ \/ posted'[t] = posted[t]
              \/ ~b /\ half[t] # "none" /\ posted'[t] = posted[t] + CounterDue(t)
<1>1. CounterDue(t) \in Nat
  BY DEF CounterDue
<1>2. posted' \in [Layer -> Nat]
  BY <1>1 DEF TurnTypes, AddOjama
<1>3. half' \in [Layer -> {"none", "first", "latter"}]
  BY DEF TurnTypes, AddOjama
<1>4. posted'[Opponent(t)] = posted[Opponent(t)]
  BY Layers DEF TurnTypes, AddOjama
<1>5. \/ posted'[t] = posted[t]
      \/ ~b /\ half[t] # "none" /\ posted'[t] = posted[t] + CounterDue(t)
  BY DEF TurnTypes, AddOjama
<1>6. QED BY <1>2, <1>3, <1>4, <1>5

\* A layer whose effect runs has no call posted.
LEMMA EffectNotPosted ==
    ASSUME TurnInv, NEW l \in Layer, effect[l] PROVE posted[l] = 0
BY DEF TurnInv, TurnTypes, LayerInv, PostedInv, Waiting

LEMMA AttackEndsKeeps ==
    ASSUME TurnInv, TurnAssumption, NEW l \in Layer, AttackEnds(l) PROVE TurnInv'
<1> DEFINE o == Opponent(l)
<1>o. /\ o \in Layer /\ o # l /\ Opponent(l) = o /\ Opponent(o) = l
      /\ \A k \in Layer : k = l \/ k = o
  BY Layers
<1> HIDE DEF o
<1>1. TurnTypes /\ LayerInv(o) /\ EffectStops(l) /\ effect[l] /\ ~counterAttack_[l]
  BY <1>o DEF TurnInv, AttackEnds, EffectStops
<1>2. AddOjama(o, Power(l), FALSE)
  BY <1>o DEF AttackEnds
<1>3. /\ posted' \in [Layer -> Nat] /\ half' \in [Layer -> {"none", "first", "latter"}]
      /\ posted'[l] = posted[l]
      /\ \/ posted'[o] = posted[o]
         \/ half[o] # "none" /\ posted'[o] = posted[o] + CounterDue(o)
  BY <1>1, <1>2, <1>o, AddOjamaTypes
<1>4. posted'[o] > 0 => posted'[o] = 1 /\ Waiting(o)
  <2>1. CASE posted'[o] = posted[o]
    BY <1>1, <2>1 DEF LayerInv, PostedInv
  <2>2. CASE half[o] # "none" /\ posted'[o] = posted[o] + CounterDue(o)
    <3>1. posted[o] = 0
      BY <1>1, <1>o, <2>2 DEF TurnTypes, LayerInv, PostedInv
    <3>2. QED BY <2>2, <3>1 DEF CounterDue, Waiting
  <2>3. QED BY <1>3, <2>1, <2>2
<1>5. counterAttack_' = counterAttack_ /\ counterAttack_ \in [Layer -> BOOLEAN]
  BY <1>1 DEF TurnTypes, AttackEnds
<1>6. FallPieces(l, StockWith(o, Power(l)))
  BY <1>o DEF AttackEnds
<1>7. posted'[l] = 0
  BY <1>1, <1>3, EffectNotPosted
<1>8. QED BY <1>o, <1>1, <1>3, <1>4, <1>5, <1>6, <1>7, EffectStopsKeeps

LEMMA OffsetEndsKeeps ==
    ASSUME TurnInv, TurnAssumption, NEW l \in Layer, OffsetEnds(l) PROVE TurnInv'
<1> DEFINE o == Opponent(l)
<1>o. /\ o \in Layer /\ o # l /\ Opponent(l) = o /\ Opponent(o) = l
      /\ \A k \in Layer : k = l \/ k = o
  BY Layers
<1> HIDE DEF o
<1> DEFINE s == StockWith(l, -Power(l))
           left == Total(s[l]) - Power(l)
<1>1. TurnTypes /\ LayerInv(o) /\ EffectStops(l) /\ effect[l] /\ ~counterAttack_[l]
  BY <1>o DEF TurnInv, OffsetEnds, EffectStops
<1>2. /\ AddOjama(l, -Power(l), FALSE)
      /\ counterAttack_' = [counterAttack_ EXCEPT ![l] = left < 0]
  BY DEF OffsetEnds
<1>3. /\ posted' \in [Layer -> Nat] /\ half' \in [Layer -> {"none", "first", "latter"}]
      /\ posted'[o] = posted[o]
      /\ \/ posted'[l] = posted[l]
         \/ posted'[l] = posted[l] + CounterDue(l)
  BY <1>1, <1>2, <1>o, AddOjamaTypes
<1>4. posted'[o] > 0 => posted'[o] = 1 /\ Waiting(o)
  BY <1>1, <1>3 DEF LayerInv, PostedInv
<1>5. posted'[l] = 0
  BY <1>1, <1>3, EffectNotPosted DEF CounterDue
<1> HIDE DEF left, s
<1>6. (left < 0) \in BOOLEAN
  OBVIOUS
<1>7. /\ counterAttack_' \in [Layer -> BOOLEAN] /\ counterAttack_'[o] = counterAttack_[o]
      /\ counterAttack_'[l] = (left < 0)
  BY <1>1, <1>2, <1>6, <1>o DEF TurnTypes
<1>8. \/ ~counterAttack_'[l] /\ FallPieces(l, s)
      \/ /\ counterAttack_'[l]
         /\ UNCHANGED <<moving, fallers, falling_, landingAnimationMax_, lockOjama,
                        ojamaFalled_, isGameOver>>
  <2>1. \/ ~(left < 0) /\ FallPieces(l, s)
        \/ /\ left < 0
           /\ UNCHANGED <<moving, fallers, falling_, landingAnimationMax_, lockOjama,
                          ojamaFalled_, isGameOver>>
    BY DEF OffsetEnds, left, s
  <2>2. QED BY <1>7, <2>1
<1>9. QED BY <1>o, <1>1, <1>3, <1>4, <1>5, <1>7, <1>8, EffectStopsKeeps

LEMMA CounterEndsKeeps ==
    ASSUME TurnInv, TurnAssumption, NEW l \in Layer, CounterEnds(l) PROVE TurnInv'
<1> DEFINE o == Opponent(l)
<1>o. /\ o \in Layer /\ o # l /\ Opponent(l) = o /\ Opponent(o) = l
      /\ \A k \in Layer : k = l \/ k = o
  BY Layers
<1> HIDE DEF o
<1>1. TurnTypes /\ LayerInv(o) /\ EffectStops(l) /\ effect[l]
  BY <1>o DEF TurnInv, CounterEnds, EffectStops
<1>2. AddOjama(o, -remainingOjama_[l], TRUE)
  BY <1>o DEF CounterEnds
<1>3. /\ posted' \in [Layer -> Nat] /\ half' \in [Layer -> {"none", "first", "latter"}]
      /\ posted'[l] = posted[l] /\ posted'[o] = posted[o]
  BY <1>1, <1>2, <1>o, AddOjamaTypes
<1>4. posted'[o] > 0 => posted'[o] = 1 /\ Waiting(o)
  BY <1>1, <1>3 DEF LayerInv, PostedInv
<1>5. /\ counterAttack_' \in [Layer -> BOOLEAN] /\ counterAttack_'[o] = counterAttack_[o]
      /\ ~counterAttack_'[l]
  BY <1>1, <1>o DEF TurnTypes, CounterEnds
<1>6. FallPieces(l, StockWith(o, -remainingOjama_[l]))
  BY <1>o DEF CounterEnds
<1>7. posted'[l] = 0
  BY <1>1, <1>3, EffectNotPosted
<1>8. QED BY <1>o, <1>1, <1>3, <1>4, <1>5, <1>6, <1>7, EffectStopsKeeps

LEMMA StutterKeeps == TurnInv /\ UNCHANGED vars => TurnInv'
<1> SUFFICES ASSUME TurnInv, UNCHANGED vars PROVE TurnInv'
  OBVIOUS
<1>1. UNCHANGED <<moving, fallers, landers, falling_, landingAnimationCount_,
                  landingAnimationMax_, erasing, effect, attacking_, counterAttack_,
                  ojamaCountOnAttack_, posted, lockOjama, ojamaFalled_, half, isGameOver>>
  BY DEF vars, board, attack, ojama, status
<1>2. TurnTypes'
  BY <1>1 DEF TurnInv, TurnTypes
<1>3. ASSUME NEW l \in Layer PROVE LayerInv(l)'
  BY <1>1 DEF TurnInv, LayerInv, Counted, PostedInv, LockInv, Waiting, AttackOn, One, Falling
<1>4. QED BY <1>2, <1>3 DEF TurnInv

LEMMA NextKeeps == TurnInv /\ [Next]_vars => TurnInv'
<1> USE TurnAssumption
<1> SUFFICES ASSUME TurnInv, Next PROVE TurnInv'
  BY StutterKeeps
<1>1. PICK l \in Layer : DecideBlock(l) \/ Step(l)
  BY DEF Next
<1>2. CASE DecideBlock(l)              BY <1>2, DecideBlockKeeps
<1>3. CASE OnStopMover(l)              BY <1>3, OnStopMoverKeeps
<1>4. CASE EndLanding(l)               BY <1>4, EndLandingKeeps
<1>5. CASE EndErase(l)                 BY <1>5, EndEraseKeeps
<1>6. CASE AttackEnds(l)               BY <1>6, AttackEndsKeeps
<1>7. CASE OffsetEnds(l)               BY <1>7, OffsetEndsKeeps
<1>8. CASE StartCounterAttackEffect(l) BY <1>8, StartCounterKeeps
<1>9. CASE CounterEnds(l)              BY <1>9, CounterEndsKeeps
<1>10. CASE FirstHalfEnds(l)           BY <1>10, FirstHalfEndsKeeps
<1>11. CASE LatterHalfEnds(l)          BY <1>11, LatterHalfEndsKeeps
<1>12. QED
  BY <1>1, <1>2, <1>3, <1>4, <1>5, <1>6, <1>7, <1>8, <1>9, <1>10, <1>11 DEF Step

LEMMA TurnInvariant == Spec => []TurnInv
BY InitInv, NextKeeps, PTL DEF Spec

----------------------------------------------------------------------------
(* The theorems.                                                                   *)

\* While the match runs a layer does exactly one thing at a time: every animation that
\* ends continues its own turn, and pieces are erased only when the last one has landed
\* (endLanding, endErase, onAttackEffectEvent).
THEOREM TurnIsSequential == Spec => []OneActivity
<1>1. TurnInv => OneActivity
  BY Exactly DEF TurnInv, LayerInv, OneActivity
<1>2. QED BY <1>1, TurnInvariant, PTL

\* A counter attack is posted at most once, for a layer that waits for it
\* (onEndOjamaAnimation, which two different animations announce).
THEOREM CounterIsPostedOnce == Spec => []CounterPostedOnce
<1>1. TurnInv => CounterPostedOnce
  BY DEF TurnInv, LayerInv, PostedInv, CounterPostedOnce
<1>2. QED BY <1>1, TurnInvariant, PTL

\* The lock on the opponent's ojama ends with the attacker's turn (createNewBlock).
THEOREM LockIsReleased == Spec => []LockEnds
<1>1. TurnInv => LockEnds
  BY DEF TurnInv, LayerInv, LockInv, LockEnds
<1>2. QED BY <1>1, TurnInvariant, PTL

\* Ojama of a player fall only in his own handlers.
LEMMA DropIsOwn ==
    ASSUME TurnInv, TurnAssumption, Next, NEW l \in Layer, ~ojamaFalled_[l], ojamaFalled_'[l]
    PROVE  ~lockOjama[l]
<1>1. PICK k \in Layer : DecideBlock(k) \/ Step(k)
  BY DEF Next
<1>2. TurnTypes /\ LayerInv(k)
  BY DEF TurnInv
<1>3. ASSUME NEW s, NEW m, FallOjamaPieces(k, s, m) PROVE ~lockOjama[l]
  <2>1. CASE GameOver(s, k, m)
    BY <2>1 DEF GameOver
  <2>2. CASE UNCHANGED ojamaFalled_
    BY <2>2
  <2>3. CASE ~lockOjama[k] /\ DropOjama(k, s, m)
    BY <1>2, <2>3 DEF DropOjama, TurnTypes
  <2>4. CASE CreateNewBlock(k, s, m)
    BY <1>2, <2>4 DEF CreateNewBlock, TurnTypes
  <2>5. QED BY <1>3, <2>1, <2>2, <2>3, <2>4 DEF FallOjamaPieces
<1>4. ASSUME NEW s, FallPieces(k, s) PROVE ~lockOjama[l]
  BY <1>3, <1>4 DEF FallPieces
<1>5. CASE DecideBlock(k)              BY <1>5 DEF DecideBlock, ojama
<1>6. CASE OnStopMover(k)              BY <1>6 DEF OnStopMover, ojama
<1>7. CASE EndLanding(k)
  <2>1. CASE UNCHANGED ojama
    BY <2>1 DEF ojama
  <2>2. CASE ErasePieces(k)
    BY <1>3, <2>1, <2>2 DEF ErasePieces
  <2>3. QED BY <1>7, <2>1, <2>2 DEF EndLanding
<1>8. CASE EndErase(k)                 BY <1>8 DEF EndErase
<1>9. CASE AttackEnds(k)               BY <1>4, <1>9 DEF AttackEnds
<1>10. CASE OffsetEnds(k)              BY <1>4, <1>10 DEF OffsetEnds
<1>11. CASE CounterEnds(k)             BY <1>4, <1>11 DEF CounterEnds
<1>12. CASE StartCounterAttackEffect(k) BY <1>12 DEF StartCounterAttackEffect, ojama
<1>13. CASE FirstHalfEnds(k)           BY <1>13 DEF FirstHalfEnds
<1>14. CASE LatterHalfEnds(k)          BY <1>14 DEF LatterHalfEnds, ojama
<1>15. QED
  BY <1>1, <1>5, <1>6, <1>7, <1>8, <1>9, <1>10, <1>11, <1>12, <1>13, <1>14 DEF Step

\* No ojama start to fall on a player while an attack flies at him
\* (lockOjama, startAttackEffect and fallOjamaPieces).
THEOREM AttackHoldsOjama == Spec => NoDropUnderAttack
<1>1. ASSUME TurnInv, [Next]_vars
      PROVE  [\A l \in Layer : ~ojamaFalled_[l] /\ ojamaFalled_'[l] => ~AttackOn(l)]_vars
  <2>1. CASE UNCHANGED vars
    BY <2>1
  <2>2. CASE Next
    <3>1. ASSUME NEW l \in Layer, ~ojamaFalled_[l], ojamaFalled_'[l] PROVE ~AttackOn(l)
      <4>1. ~lockOjama[l]
        BY <1>1, <2>2, <3>1, TurnAssumption, DropIsOwn
      <4>2. QED BY <1>1, <4>1 DEF TurnInv, LayerInv, LockInv
    <3>2. QED BY <3>1
  <2>3. QED BY <1>1, <2>1, <2>2
<1>2. QED BY <1>1, TurnInvariant, PTL DEF Spec, NoDropUnderAttack

----------------------------------------------------------------------------
(* The counts.                                                                     *)

CountTypes ==
    /\ chainCount_ \in [Layer -> Nat] /\ eraseCount_ \in [Layer -> Nat]
    /\ ojamaCountOnAttack_ \in [Layer -> Nat] /\ turns \in [Layer -> Nat]
    /\ remainingOjama_ \in [Layer -> Int] /\ addCount_ \in [Layer -> Int]
    /\ opponentAdded_ \in [Layer -> BOOLEAN]
    /\ stock \in [Layer -> Stocks(Columns)]

LEMMA TotalTypes ==
    ASSUME TurnAssumption, NEW s \in [Layer -> Stocks(Columns)], NEW l \in Layer
    PROVE  Total(s[l]) \in Nat
<1>1. s[l] \in Stocks(Columns) /\ Columns \in Nat
  BY DEF TurnAssumption
<1>2. QED BY <1>1, UpToSteps

LEMMA StockWithTypes ==
    ASSUME TurnAssumption, CountTypes, NEW l \in Layer, NEW count \in Int
    PROVE  StockWith(l, count) \in [Layer -> Stocks(Columns)]
<1>1. stock[l] \in Stocks(Columns) /\ Columns \in Nat
  BY DEF TurnAssumption, CountTypes
<1>2. UpdateOjama(stock[l], count) \in Stocks(Columns)
  BY <1>1, UpdateTypes
<1>3. QED BY <1>2 DEF CountTypes, StockWith

LEMMA PowerTypes ==
    ASSUME CountTypes, NEW l \in Layer
    PROVE  Power(l) \in Int /\ -Power(l) \in Int
<1>1. eraseCount_[l] \in Nat /\ chainCount_[l] \in Nat
  BY DEF CountTypes
<1> DEFINE e == eraseCount_[l]
           c == chainCount_[l]
<1>2. Power(l) = e * c
  BY DEF Power
<1> HIDE DEF e, c
<1>3. e \in Nat /\ c \in Nat
  BY <1>1 DEF e, c
<1>4. e * c \in Nat
  BY <1>3
<1>5. QED BY <1>2, <1>4

LEMMA DropTypes ==
    ASSUME TurnAssumption, CountTypes, NEW l \in Layer,
           NEW s \in [Layer -> Stocks(Columns)], NEW m, FallOjamaPieces(l, s, m)
    PROVE  stock' \in [Layer -> Stocks(Columns)] /\ chainCount_' \in [Layer -> Nat]
<1>1. CASE GameOver(s, l, m)
  BY <1>1 DEF GameOver, CountTypes
<1>2. CASE stock' = s /\ UNCHANGED chainCount_
  BY <1>2 DEF CountTypes
<1>3. CASE DropOjama(l, s, m)
  <2>1. PICK n \in 1..MaxRoom : stock' = [s EXCEPT ![l] = Take(@, n)]
    BY <1>3 DEF DropOjama
  <2>2. Take(s[l], n) \in Stocks(Columns)
    BY TakeTypes DEF TurnAssumption
  <2>3. stock' \in [Layer -> Stocks(Columns)]
    BY <2>1, <2>2
  <2>4. QED BY <1>3, <2>3 DEF DropOjama, CountTypes
<1>4. CASE CreateNewBlock(l, s, m)
  BY <1>4 DEF CreateNewBlock, CountTypes
<1>5. QED BY <1>1, <1>2, <1>3, <1>4 DEF FallOjamaPieces

LEMMA FallTypes ==
    ASSUME TurnAssumption, CountTypes, NEW l \in Layer,
           NEW s \in [Layer -> Stocks(Columns)], FallPieces(l, s)
    PROVE  stock' \in [Layer -> Stocks(Columns)] /\ chainCount_' \in [Layer -> Nat]
<1>1. CASE stock' = s /\ UNCHANGED chainCount_
  BY <1>1 DEF CountTypes
<1>2. CASE FallOjamaPieces(l, s, landingAnimationMax_[l])
  BY <1>2, DropTypes
<1>3. QED BY <1>1, <1>2 DEF FallPieces

LEMMA ErasePiecesTypes ==
    ASSUME TurnAssumption, CountTypes, NEW l \in Layer, ErasePieces(l)
    PROVE  /\ stock' \in [Layer -> Stocks(Columns)]
           /\ chainCount_' \in [Layer -> Nat] /\ eraseCount_' \in [Layer -> Nat]
<1>1. CASE /\ \E n \in 1..MaxGroups :
                 /\ chainCount_' = [chainCount_ EXCEPT ![l] = @ + n]
                 /\ eraseCount_' = [eraseCount_ EXCEPT ![l] = n * Linking]
           /\ UNCHANGED ojama
  <2>1. PICK n \in 1..MaxGroups : /\ chainCount_' = [chainCount_ EXCEPT ![l] = @ + n]
                                  /\ eraseCount_' = [eraseCount_ EXCEPT ![l] = n * Linking]
    BY <1>1
  <2>2. n \in Nat /\ Linking \in Nat
    BY DEF TurnAssumption
  <2>3. n * Linking \in Nat
    BY <2>2
  <2>4. chainCount_' \in [Layer -> Nat] /\ eraseCount_' \in [Layer -> Nat]
    BY <2>1, <2>2, <2>3 DEF CountTypes
  <2>5. QED BY <1>1, <2>4 DEF CountTypes, ojama
<1>2. CASE /\ eraseCount_' = [eraseCount_ EXCEPT ![l] = 0]
           /\ FallOjamaPieces(l, stock, 0)
  <2>1. stock \in [Layer -> Stocks(Columns)] /\ eraseCount_' \in [Layer -> Nat]
    BY <1>2 DEF CountTypes
  <2>2. QED BY <1>2, <2>1, DropTypes
<1>3. QED BY <1>1, <1>2 DEF ErasePieces

LEMMA AddOjamaCounts ==
    ASSUME CountTypes, NEW t \in Layer, NEW n \in Int, NEW b \in BOOLEAN, AddOjama(t, n, b)
    PROVE  addCount_' \in [Layer -> Int] /\ opponentAdded_' \in [Layer -> BOOLEAN]
BY DEF CountTypes, AddOjama

LEMMA CountsKept ==
    ASSUME TurnAssumption, CountTypes, Next
    PROVE  CountTypes'
<1>1. PICK l \in Layer : DecideBlock(l) \/ Step(l)
  BY DEF Next
<1>2. Opponent(l) \in Layer
  BY Layers
<1>3. CASE DecideBlock(l)
  BY <1>3 DEF DecideBlock, CountTypes, chain, attack, ojama, status
<1>4. CASE OnStopMover(l)
  BY <1>4 DEF OnStopMover, CountTypes, chain, attack, ojama, status
<1>5. CASE EndLanding(l)
  <2>1. UNCHANGED <<turns, attack, status>>
    BY <1>5 DEF EndLanding
  <2>2. CASE ErasePieces(l)
    BY <2>1, <2>2, ErasePiecesTypes DEF CountTypes, attack, status
  <2>3. CASE UNCHANGED <<chain, ojama>>
    BY <2>1, <2>3 DEF CountTypes, chain, ojama, attack, status
  <2>4. QED BY <1>5, <2>2, <2>3 DEF EndLanding
<1>6. CASE EndErase(l)
  <2>1. Total(stock[l]) \in Nat
    BY TotalTypes DEF CountTypes
  <2>2. ojamaCountOnAttack_' \in [Layer -> Nat]
    BY <1>6, <2>1 DEF EndErase, CountTypes
  <2>3. QED BY <1>6, <2>2 DEF EndErase, CountTypes, chain, status
<1>7. CASE StartCounterAttackEffect(l)
  <2>1. Total(stock[l]) \in Nat
    BY TotalTypes DEF CountTypes
  <2>2. ojamaCountOnAttack_' \in [Layer -> Nat]
    BY <1>7, <2>1 DEF StartCounterAttackEffect, CountTypes
  <2>3. QED
    BY <1>7, <2>2 DEF StartCounterAttackEffect, CountTypes, board, chain, ojama, status
<1>8. CASE FirstHalfEnds(l)
  <2>1. addCount_[l] \in Int /\ stock[l] \in Stocks(Columns) /\ Columns \in Nat
    BY DEF CountTypes, TurnAssumption
  <2>2. UpdateOjama(stock[l], addCount_[l]) \in Stocks(Columns)
    BY <2>1, UpdateTypes
  <2>3. stock' \in [Layer -> Stocks(Columns)]
    BY <1>8, <2>2 DEF FirstHalfEnds, CountTypes
  <2>4. QED BY <1>8, <2>3 DEF FirstHalfEnds, CountTypes, board, chain, attack
<1>9. CASE LatterHalfEnds(l)
  BY <1>9 DEF LatterHalfEnds, CountTypes, board, chain, ojama
<1>10. CASE AttackEnds(l)
  <2> DEFINE o == Opponent(l)
             s == StockWith(o, Power(l))
  <2>1. s \in [Layer -> Stocks(Columns)]
    BY <1>2, PowerTypes, StockWithTypes
  <2>2. stock' \in [Layer -> Stocks(Columns)] /\ chainCount_' \in [Layer -> Nat]
    <3>1. FallPieces(l, s)
      BY <1>10 DEF AttackEnds
    <3> HIDE DEF s
    <3>2. QED BY <2>1, <3>1, FallTypes
  <2>3. addCount_' \in [Layer -> Int] /\ opponentAdded_' \in [Layer -> BOOLEAN]
    <3>1. AddOjama(o, Power(l), FALSE)
      BY <1>10 DEF AttackEnds
    <3>2. QED BY <1>2, <3>1, PowerTypes, AddOjamaCounts
  <2>4. remainingOjama_' \in [Layer -> Int]
    BY <1>10 DEF AttackEnds, CountTypes
  <2>5. UNCHANGED <<turns, eraseCount_, ojamaCountOnAttack_>>
    BY <1>10 DEF AttackEnds, EffectStops
  <2>6. QED BY <2>2, <2>3, <2>4, <2>5 DEF CountTypes
<1>11. CASE OffsetEnds(l)
  <2> DEFINE s == StockWith(l, -Power(l))
             left == Total(s[l]) - Power(l)
  <2>1. s \in [Layer -> Stocks(Columns)]
    BY PowerTypes, StockWithTypes
  <2>2. /\ AddOjama(l, -Power(l), FALSE)
        /\ remainingOjama_' = [remainingOjama_ EXCEPT ![l] = left]
        /\ FallPieces(l, s) \/ (stock' = s /\ UNCHANGED chainCount_)
    BY <1>11 DEF OffsetEnds
  <2>3. left \in Int
    <3> HIDE DEF s
    <3>1. Total(s[l]) \in Nat
      BY <2>1, TotalTypes
    <3>2. QED BY <3>1, PowerTypes
  <2> HIDE DEF s, left
  <2>4. stock' \in [Layer -> Stocks(Columns)] /\ chainCount_' \in [Layer -> Nat]
    BY <2>1, <2>2, FallTypes DEF CountTypes
  <2>5. addCount_' \in [Layer -> Int] /\ opponentAdded_' \in [Layer -> BOOLEAN]
    BY <2>2, PowerTypes, AddOjamaCounts
  <2>6. remainingOjama_' \in [Layer -> Int]
    BY <2>2, <2>3 DEF CountTypes
  <2>7. UNCHANGED <<turns, eraseCount_, ojamaCountOnAttack_>>
    BY <1>11 DEF OffsetEnds, EffectStops
  <2>8. QED BY <2>4, <2>5, <2>6, <2>7 DEF CountTypes
<1>12. CASE CounterEnds(l)
  <2> DEFINE o == Opponent(l)
             count == -remainingOjama_[l]
             s == StockWith(o, count)
  <2>1. count \in Int
    BY DEF CountTypes
  <2>2. /\ AddOjama(o, count, TRUE) /\ FallPieces(l, s)
        /\ remainingOjama_' = [remainingOjama_ EXCEPT ![l] = 0]
        /\ UNCHANGED <<turns, eraseCount_, ojamaCountOnAttack_>>
    BY <1>12 DEF CounterEnds, EffectStops
  <2> HIDE DEF count
  <2>3. s \in [Layer -> Stocks(Columns)]
    BY <1>2, <2>1, StockWithTypes
  <2> HIDE DEF s
  <2>4. stock' \in [Layer -> Stocks(Columns)] /\ chainCount_' \in [Layer -> Nat]
    BY <2>2, <2>3, FallTypes
  <2>5. addCount_' \in [Layer -> Int] /\ opponentAdded_' \in [Layer -> BOOLEAN]
    BY <1>2, <2>1, <2>2, AddOjamaCounts
  <2>6. remainingOjama_' \in [Layer -> Int]
    BY <2>2 DEF CountTypes
  <2>7. QED BY <2>2, <2>4, <2>5, <2>6 DEF CountTypes
<1>13. QED
  BY <1>1, <1>3, <1>4, <1>5, <1>6, <1>7, <1>8, <1>9, <1>10, <1>11, <1>12 DEF Step

\* Every count is a number: no column of a stock falls below zero, however an attack is
\* offset, and what is left of an attack may be negative (updateOjama, fallOjamaPieces).
THEOREM TypeCorrect == Spec => []TypeOK
<1>1. Init => CountTypes
  <2> SUFFICES ASSUME Init PROVE CountTypes
    OBVIOUS
  <2>1. stock \in [Layer -> Stocks(Columns)]
    BY DEF Init, Stocks
  <2>2. /\ chainCount_ \in [Layer -> Nat] /\ eraseCount_ \in [Layer -> Nat]
        /\ ojamaCountOnAttack_ \in [Layer -> Nat] /\ turns \in [Layer -> Nat]
    BY DEF Init
  <2>3. /\ remainingOjama_ \in [Layer -> Int] /\ addCount_ \in [Layer -> Int]
        /\ opponentAdded_ \in [Layer -> BOOLEAN]
    BY DEF Init
  <2>4. QED BY <2>1, <2>2, <2>3 DEF CountTypes
<1>2. CountTypes /\ [Next]_vars => CountTypes'
  <2>1. CountTypes /\ UNCHANGED vars => CountTypes'
    BY DEF CountTypes, vars, board, chain, attack, ojama, status
  <2>2. QED BY <2>1, CountsKept, TurnAssumption
<1>3. Spec => []CountTypes
  BY <1>1, <1>2, PTL DEF Spec
<1>4. TurnInv /\ CountTypes => TypeOK
  BY DEF TurnInv, TurnTypes, CountTypes, TypeOK, Stocks
<1>5. QED BY <1>3, <1>4, TurnInvariant, PTL

================================================================================
