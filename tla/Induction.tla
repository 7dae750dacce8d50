----------------------------- MODULE Induction ------------------------------
(***************************************************************************)
(* Induction over the natural numbers and over finite sets, and recursive  *)
(* functions, for the theorems of this development.  The library's facts   *)
(* take an operator as a parameter; these take a set or a function, so     *)
(* that each use is a matter of first-order logic.                         *)
(***************************************************************************)
EXTENDS Naturals, FiniteSets, FiniteSetTheorems, TLAPS

(***************************************************************************)
(* A set that has 0 and with each number the next one has them all.  If it *)
(* had not n, adding one would map its numbers up to n, one to one, into   *)
(* those of them that are not 0: too few.                                  *)
(***************************************************************************)
THEOREM SetInduction ==
  ASSUME NEW S, 0 \in S, \A n \in Nat : n \in S => n + 1 \in S
  PROVE  Nat \subseteq S
<1>1. SUFFICES ASSUME NEW n \in Nat, n \notin S
               PROVE  FALSE
  OBVIOUS
<1> DEFINE A == S \cap (0..n)
           B == A \ {0}
           next == [m \in A |-> m + 1]
<1>2. IsFiniteSet(A)
  <2>1. IsFiniteSet(0..n)
    BY FS_Interval
  <2> QED BY <2>1, FS_Subset
<1>3. 0 \in A
  OBVIOUS
<1>4. IsFiniteSet(B) /\ Cardinality(B) = Cardinality(A) - 1 /\ Cardinality(A) \in Nat
  BY <1>2, <1>3, FS_RemoveElement, FS_CardinalityType
<1>5. next \in [A -> B]
  <2>1. ASSUME NEW m \in A PROVE m + 1 \in B
    <3>1. m # n
      BY <1>1
    <3> QED BY <3>1
  <2> QED BY <2>1
<1>6. \A x, y \in A : next[x] = next[y] => x = y
  OBVIOUS
<1> HIDE DEF A, B, next
<1>7. Cardinality(B) < Cardinality(A)
  BY <1>4
<1> QED BY <1>2, <1>4, <1>5, <1>6, <1>7, FS_PigeonHole

(***************************************************************************)
(* A function is given by its first value and by how each follows from the *)
(* one before: there is one, and only one.                                 *)
(***************************************************************************)
Recurs(f, n, base, step) ==
  f[0] = base /\ \A i \in 1..n : f[i] = step[i][f[i - 1]]

\* One more value continues such a function.
LEMMA RecursionContinues ==
  ASSUME NEW k \in Nat, NEW D, NEW base, NEW step, NEW f \in [0..k -> D],
         Recurs(f, k, base, step), step[k + 1][f[k]] \in D
  PROVE  \E g \in [0..(k + 1) -> D] : Recurs(g, k + 1, base, step)
<1> DEFINE last == step[k + 1][f[k]]
           g == [i \in 0..(k + 1) |-> IF i = k + 1 THEN last ELSE f[i]]
<1>1. \A i \in 0..k : f[i] \in D
  OBVIOUS
<1>2. last \in D
  OBVIOUS
<1>3. g \in [0..(k + 1) -> D]
  <2> HIDE DEF last
  <2>1. \A i \in 0..(k + 1) : i # k + 1 => i \in 0..k
    OBVIOUS
  <2> QED BY <1>1, <1>2, <2>1
<1>4. g[0] = base
  <2>1. 0 \in 0..(k + 1) /\ 0 # k + 1 /\ f[0] = base
    BY DEF Recurs
  <2> QED BY <2>1
<1>5. \A i \in 0..k : g[i] = f[i]
  <2> HIDE DEF last
  <2> QED OBVIOUS
<1>6. g[k + 1] = last
  OBVIOUS
<1>7. ASSUME NEW i \in 1..(k + 1) PROVE g[i] = step[i][g[i - 1]]
  <2> HIDE DEF g
  <2>1. CASE i = k + 1
    <3>1. i - 1 = k /\ k \in 0..k
      BY <2>1
    <3>2. g[i - 1] = f[k]
      BY <1>5, <3>1
    <3> QED BY <1>6, <2>1, <3>2
  <2>2. CASE i \in 1..k
    <3>1. i \in 0..k /\ i - 1 \in 0..k
      BY <2>2
    <3>2. g[i] = f[i] /\ g[i - 1] = f[i - 1]
      BY <1>5, <3>1
    <3> QED BY <2>2, <3>2 DEF Recurs
  <2> QED BY <2>1, <2>2
<1> HIDE DEF g
<1> QED BY <1>3, <1>4, <1>7 DEF Recurs

\* There is one.
THEOREM Recursion ==
  ASSUME NEW n \in Nat, NEW D, NEW base \in D, NEW step \in [1..n -> [D -> D]]
  PROVE  \E f \in [0..n -> D] : Recurs(f, n, base, step)
<1> DEFINE Has(k) == \E f \in [0..k -> D] : Recurs(f, k, base, step)
           S == {k \in Nat : k <= n => Has(k)}
<1>1. 0 \in S
  <2> DEFINE f == [i \in 0..0 |-> base]
  <2>1. f \in [0..0 -> D] /\ f[0] = base
    OBVIOUS
  <2> HIDE DEF f
  <2>2. Recurs(f, 0, base, step)
    BY <2>1 DEF Recurs
  <2> QED BY <2>1, <2>2
<1>2. ASSUME NEW k \in Nat, k \in S PROVE k + 1 \in S
  <2>1. SUFFICES ASSUME k + 1 <= n PROVE Has(k + 1)
    OBVIOUS
  <2>2. PICK f \in [0..k -> D] : Recurs(f, k, base, step)
    BY <1>2, <2>1
  <2>3. k + 1 \in 1..n /\ f[k] \in D
    BY <2>1
  <2>4. step[k + 1] \in [D -> D]
    BY <2>3
  <2>5. step[k + 1][f[k]] \in D
    BY <2>3, <2>4
  <2> QED BY <2>2, <2>5, RecursionContinues
<1>3. n \in S
  <2> HIDE DEF S
  <2> QED BY <1>1, <1>2, SetInduction
<1> QED BY <1>3

\* And only one.
THEOREM RecursionUnique ==
  ASSUME NEW n \in Nat, NEW base, NEW step, NEW f, NEW g,
         Recurs(f, n, base, step), Recurs(g, n, base, step)
  PROVE  \A i \in 0..n : f[i] = g[i]
<1> DEFINE S == {k \in Nat : k <= n => f[k] = g[k]}
<1>1. 0 \in S
  BY DEF Recurs
<1>2. ASSUME NEW k \in Nat, k \in S PROVE k + 1 \in S
  <2>1. SUFFICES ASSUME k + 1 <= n
                 PROVE  f[k + 1] = g[k + 1]
    OBVIOUS
  <2>2. PICK i \in 1..n : i = k + 1
    BY <2>1
  <2>3. i - 1 = k /\ f[k] = g[k]
    BY <1>2, <2>1, <2>2
  <2>4. f[i] = step[i][f[i - 1]] /\ g[i] = step[i][g[i - 1]]
    BY DEF Recurs
  <2> QED BY <2>2, <2>3, <2>4
<1>3. Nat \subseteq S
  <2> HIDE DEF S
  <2> QED BY <1>1, <1>2, SetInduction
<1> QED BY <1>3

\* Induction up to a bound.
THEOREM BoundedInduction ==
  ASSUME NEW n \in Nat, NEW S, 0 \in S, \A k \in 0..(n - 1) : k \in S => k + 1 \in S
  PROVE  0..n \subseteq S
<1> DEFINE T == {k \in Nat : k <= n => k \in S}
<1>1. 0 \in T
  OBVIOUS
<1>2. ASSUME NEW k \in Nat, k \in T PROVE k + 1 \in T
  <2>1. CASE k + 1 <= n
    <3>1. k \in 0..(n - 1) /\ k \in S
      BY <1>2, <2>1
    <3> QED BY <3>1
  <2>2. CASE ~(k + 1 <= n)
    BY <2>2
  <2> QED BY <2>1, <2>2
<1>3. Nat \subseteq T
  <2> HIDE DEF T
  <2> QED BY <1>1, <1>2, SetInduction
<1> QED BY <1>3

-----------------------------------------------------------------------------
(***************************************************************************)
(* Sums of natural numbers: s[i] is the sum of w[1] to w[i].               *)
(***************************************************************************)
Adds(s, n, w) == s[0] = 0 /\ \A i \in 1..n : s[i] = s[i - 1] + w[i]
Sums(s, n, w) == s \in [0..n -> Nat] /\ Adds(s, n, w)

\* There are such sums, of any numbers.
THEOREM SumsExist ==
  ASSUME NEW n \in Nat, NEW w \in [1..n -> Nat]
  PROVE  \E s : Sums(s, n, w)
<1> DEFINE step == [i \in 1..n |-> [d \in Nat |-> d + w[i]]]
<1>1. step \in [1..n -> [Nat -> Nat]]
  OBVIOUS
<1>2. \A i \in 1..n : \A d \in Nat : step[i][d] = d + w[i]
  OBVIOUS
<1> HIDE DEF step
<1>3. PICK s \in [0..n -> Nat] : Recurs(s, n, 0, step)
  BY <1>1, Recursion
<1>4. ASSUME NEW i \in 1..n PROVE s[i] = s[i - 1] + w[i]
  <2>1. i - 1 \in 0..n
    OBVIOUS
  <2>2. s[i - 1] \in Nat
    BY <2>1
  <2> QED BY <1>2, <1>3, <2>2 DEF Recurs
<1> QED BY <1>3, <1>4 DEF Recurs, Sums, Adds

\* A sum has the value its summands give it.
THEOREM SumsAgree ==
  ASSUME NEW n \in Nat, NEW m \in Nat, NEW k \in Nat, k <= n, k <= m,
         NEW s, NEW w, Adds(s, n, w), NEW t, NEW v, Adds(t, m, v),
         \A i \in 1..k : w[i] = v[i]
  PROVE  s[k] = t[k]
<1> DEFINE S == {j \in 0..k : s[j] = t[j]}
<1>1. 0 \in S
  BY DEF Adds
<1>2. ASSUME NEW j \in 0..(k - 1), j \in S PROVE j + 1 \in S
  <2>1. PICK i \in 1..k : i = j + 1
    BY <1>2
  <2>2. i \in 1..n /\ i \in 1..m /\ i - 1 = j
    BY <2>1
  <2>3. s[i] = s[j] + w[i] /\ t[i] = t[j] + v[i]
    BY <2>2 DEF Adds
  <2> QED BY <1>2, <2>1, <2>3
<1>3. 0..k \subseteq S
  <2> HIDE DEF S
  <2> QED BY <1>1, <1>2, BoundedInduction
<1>4. k \in 0..k
  OBVIOUS
<1> QED BY <1>3, <1>4

\* Smaller summands have a smaller sum.
THEOREM SumsMonotone ==
  ASSUME NEW n \in Nat, NEW w \in [1..n -> Nat], NEW v \in [1..n -> Nat],
         NEW s, Sums(s, n, w), NEW t, Sums(t, n, v),
         \A i \in 1..n : w[i] <= v[i]
  PROVE  s[n] <= t[n]
<1> DEFINE S == {j \in 0..n : s[j] <= t[j]}
<1>1. 0 \in S
  BY DEF Sums, Adds
<1>2. ASSUME NEW j \in 0..(n - 1), j \in S PROVE j + 1 \in S
  <2>1. PICK i \in 1..n : i = j + 1
    BY <1>2
  <2>2. i - 1 = j /\ j \in 0..n
    BY <2>1
  <2>3. /\ s[i] = s[j] + w[i] /\ t[i] = t[j] + v[i]
        /\ s[j] \in Nat /\ t[j] \in Nat /\ w[i] \in Nat /\ v[i] \in Nat
    BY <2>2 DEF Sums, Adds
  <2>4. s[i] <= t[i]
    BY <1>2, <2>3
  <2> QED BY <2>1, <2>4
<1>3. 0..n \subseteq S
  <2> HIDE DEF S
  <2> QED BY <1>1, <1>2, BoundedInduction
<1>4. n \in 0..n
  OBVIOUS
<1> QED BY <1>3, <1>4

\* The summands w are those of v and one more, the k-th.
OneMore(w, v, n, k) == v[k] = 0 /\ \A i \in 1..n : i # k => w[i] = v[i]

\* (The provers use a sum in the conclusion of a theorem under a name only.)
IsSum(a, b, c) == a = b + c

\* The sum is greater by that summand.
THEOREM SumsOneMore ==
  ASSUME NEW n \in Nat, NEW v \in [1..n -> Nat], NEW w \in [1..n -> Nat],
         NEW s, Sums(s, n, v), NEW t, Sums(t, n, w),
         NEW k \in 1..n, OneMore(w, v, n, k)
  PROVE  IsSum(t[n], s[n], w[k])
<1> DEFINE S == {j \in 0..n : t[j] = IF j < k THEN s[j] ELSE s[j] + w[k]}
<1>1. 0 \in S
  BY DEF Sums, Adds
<1>2. ASSUME NEW j \in 0..(n - 1), j \in S PROVE j + 1 \in S
  <2>1. PICK i \in 1..n : i = j + 1
    BY <1>2
  <2>2. i - 1 = j /\ j \in 0..n
    BY <2>1
  <2>3. /\ s[i] = s[j] + v[i] /\ t[i] = t[j] + w[i]
        /\ s[j] \in Nat /\ t[j] \in Nat /\ v[i] \in Nat /\ w[i] \in Nat /\ w[k] \in Nat
        /\ v[k] = 0 /\ (i # k => w[i] = v[i])
    BY <2>2 DEF Sums, Adds, OneMore
  <2>4. t[i] = IF i < k THEN s[i] ELSE s[i] + w[k]
    <3>1. CASE i < k
      BY <1>2, <2>1, <2>3, <3>1
    <3>2. CASE i = k
      BY <1>2, <2>1, <2>3, <3>2
    <3>3. CASE i > k
      BY <1>2, <2>1, <2>3, <3>3
    <3> QED BY <3>1, <3>2, <3>3
  <2> QED BY <2>1, <2>4
<1>3. 0..n \subseteq S
  <2> HIDE DEF S
  <2> QED BY <1>1, <1>2, BoundedInduction
<1>4. n \in 0..n
  OBVIOUS
<1>5. t[n] = s[n] + w[k]
  BY <1>3, <1>4
<1> QED BY <1>5 DEF IsSum

\* The summands w are n of u and then m of v.
Joined(w, n, u, m, v) ==
  (\A i \in 1..n : w[i] = u[i]) /\ \A i \in 1..m : w[n + i] = v[i]

\* Their sum is that of both.
THEOREM SumsJoined ==
  ASSUME NEW n \in Nat, NEW m \in Nat, NEW u, NEW v, NEW w, Joined(w, n, u, m, v),
         NEW r, Sums(r, n, u), NEW s, Sums(s, m, v), NEW t, Sums(t, n + m, w),
         v \in [1..m -> Nat]
  PROVE  IsSum(t[n + m], r[n], s[m])
<1>1. t[n] = r[n]
  <2>1. n + m \in Nat /\ n <= n + m /\ n <= n /\ \A i \in 1..n : w[i] = u[i]
    BY DEF Joined
  <2>2. Adds(t, n + m, w) /\ Adds(r, n, u)
    BY DEF Sums
  <2> QED BY <2>1, <2>2, SumsAgree
<1> DEFINE S == {j \in 0..m : t[n + j] = r[n] + s[j]}
<1>2. 0 \in S
  <2>1. r[n] \in Nat /\ s[0] = 0
    BY DEF Sums, Adds
  <2> QED BY <1>1, <2>1
<1>3. ASSUME NEW j \in 0..(m - 1), j \in S PROVE j + 1 \in S
  <2>1. PICK i \in 1..m : i = j + 1
    BY <1>3
  <2>2. PICK k \in 1..(n + m) : k = n + i
    OBVIOUS
  <2>3. i - 1 = j /\ k - 1 = n + j /\ k - 1 \in 0..(n + m) /\ j \in 0..m
    BY <2>1, <2>2
  <2>4. /\ t[k] = t[n + j] + v[i] /\ s[i] = s[j] + v[i]
        /\ r[n] \in Nat /\ s[j] \in Nat /\ v[i] \in Nat
    <3>1. w[k] = v[i]
      BY <2>2 DEF Joined
    <3>2. t[k] = t[k - 1] + w[k] /\ s[i] = s[i - 1] + v[i]
      BY DEF Sums, Adds
    <3>3. r[n] \in Nat /\ s[j] \in Nat /\ v[i] \in Nat
      BY <2>3 DEF Sums
    <3> QED BY <2>3, <3>1, <3>2, <3>3
  <2>5. t[k] = r[n] + s[i]
    BY <1>3, <2>4
  <2> QED BY <2>1, <2>2, <2>5
<1>4. 0..m \subseteq S
  <2> HIDE DEF S
  <2> QED BY <1>2, <1>3, BoundedInduction
<1>5. m \in 0..m
  OBVIOUS
<1>6. t[n + m] = r[n] + s[m]
  BY <1>4, <1>5
<1> QED BY <1>6 DEF IsSum
=============================================================================
