----------------------------- MODULE CodeProofs -----------------------------
(***************************************************************************)
(* What is coded comes back: CodesInvert for every vector, field, map,      *)
(* puncturing and generator.  Most of it is computed by recursive functions *)
(* over the bits; what they compute is shown by induction (Induction below, *)
(* from the least element of a set of numbers), once for the powers of two, *)
(* once for the accumulated bits and once for the shift registers.          *)
(***************************************************************************)
EXTENDS BitCodes, GsmTimeProofs, FiniteSetTheorems

-----------------------------------------------------------------------------
(* Recursive functions over the naturals.                                   *)

\* What holds of 0 and of every successor holds of every natural number.
LEMMA Induction ==
  ASSUME NEW S, 0 \in S, \A n \in Nat : n \in S => n + 1 \in S
  PROVE  \A n \in Nat : n \in S
<1> DEFINE Missing == {n \in Nat : n \notin S}
<1>1. ASSUME Missing # {} PROVE FALSE
  <2>1. Missing \subseteq Nat  OBVIOUS
  <2>2. PICK n \in Missing : \A m \in Missing : n <= m
    <3> HIDE DEF Missing
    <3>1. QED  BY <1>1, <2>1, LeastNatural
  <2>3. n # 0 /\ n \in Nat  OBVIOUS
  <2>4. n - 1 \in Nat /\ (n - 1) + 1 = n /\ ~(n <= n - 1)  BY <2>3
  <2>5. n - 1 \in S  BY <2>2, <2>4
  <2>6. QED  BY <2>4, <2>5
<1>2. QED  BY <1>1

\* A sequence of states, each from the one before it.
Runs(f, n, S, s0, step) ==
  f \in [0 .. n -> S] /\ f[0] = s0 /\ \A m \in 0 .. n - 1 : f[m + 1] = step[m][f[m]]

\* Every such sequence has a next state.
LEMMA RunGoesOn ==
  ASSUME NEW S, NEW s0 \in S, NEW step \in [Nat -> [S -> S]], NEW n \in Nat,
         NEW f, Runs(f, n, S, s0, step)
  PROVE  \E g : Runs(g, n + 1, S, s0, step)
<1> DEFINE g == [m \in 0 .. n + 1 |-> IF m = n + 1 THEN step[n][f[n]] ELSE f[m]]
<1>1. f \in [0 .. n -> S] /\ n \in 0 .. n  BY DEF Runs
<1>2. step[n][f[n]] \in S  BY <1>1
<1>3. g \in [0 .. n + 1 -> S]
  <2>1. ASSUME NEW m \in 0 .. n + 1, m # n + 1 PROVE f[m] \in S
    <3>1. m \in 0 .. n  BY <2>1
    <3>2. QED  BY <1>1, <3>1
  <2>2. QED  BY <1>2, <2>1
<1>4. g[0] = s0  BY DEF Runs
<1>5. ASSUME NEW m \in 0 .. (n + 1) - 1 PROVE g[m + 1] = step[m][g[m]]
  <2>1. m \in 0 .. n + 1 /\ m + 1 \in 0 .. n + 1 /\ m # n + 1  OBVIOUS
  <2>2. CASE m = n  BY <2>1, <2>2
  <2>3. CASE m # n
    <3>1. m \in 0 .. n - 1 /\ m + 1 # n + 1  BY <2>3
    <3>2. QED  BY <2>1, <3>1 DEF Runs
  <2>4. QED  BY <2>2, <2>3
<1>6. QED  BY <1>3, <1>4, <1>5 DEF Runs

\* So there is one of every length.
LEMMA RunsExist ==
  ASSUME NEW S, NEW s0 \in S, NEW step \in [Nat -> [S -> S]]
  PROVE  \A n \in Nat : \E f : Runs(f, n, S, s0, step)
<1> DEFINE I == {n \in Nat : \E f : Runs(f, n, S, s0, step)}
<1>1. 0 \in I
  <2>1. PICK f : f = [m \in 0 .. 0 |-> s0]  OBVIOUS
  <2>2. Runs(f, 0, S, s0, step)  BY <2>1 DEF Runs
  <2>3. QED  BY <2>2
<1>2. ASSUME NEW n \in Nat, n \in I PROVE n + 1 \in I
  <2>1. PICK f : Runs(f, n, S, s0, step)  BY <1>2
  <2>2. \E g : Runs(g, n + 1, S, s0, step)  BY <2>1, RunGoesOn
  <2>3. QED  BY <2>2
<1>3. \A n \in Nat : n \in I
  <2> HIDE DEF I
  <2>1. QED  BY <1>1, <1>2, Induction
<1>4. QED  BY <1>3

\* And only one, as far as two of them go.
LEMMA RunsAgree ==
  ASSUME NEW S, NEW s0 \in S, NEW step, NEW n \in Nat, NEW k \in Nat,
         NEW f, Runs(f, n, S, s0, step), NEW g, Runs(g, k, S, s0, step)
  PROVE  \A m \in Nat : m <= n /\ m <= k => f[m] = g[m]
<1> DEFINE I == {m \in Nat : m <= n /\ m <= k => f[m] = g[m]}
<1>1. 0 \in I  BY DEF Runs
<1>2. ASSUME NEW m \in Nat, m \in I PROVE m + 1 \in I
  <2>1. CASE m + 1 <= n /\ m + 1 <= k
    <3>1. m \in 0 .. n - 1 /\ m \in 0 .. k - 1 /\ m <= n /\ m <= k  BY <2>1
    <3>2. f[m] = g[m]  BY <1>2, <3>1
    <3>3. f[m + 1] = step[m][f[m]] /\ g[m + 1] = step[m][g[m]]  BY <3>1 DEF Runs
    <3>4. QED  BY <3>2, <3>3
  <2>2. QED  BY <2>1
<1>3. \A m \in Nat : m \in I
  <2> HIDE DEF I
  <2>1. QED  BY <1>1, <1>2, Induction
<1>4. QED  BY <1>3

\* There is a function with a given first value and a given step.
RunsOn(f, S, s0, step) ==
  f \in [Nat -> S] /\ f[0] = s0 /\ \A n \in Nat : f[n + 1] = step[n][f[n]]

\* The last values of all these sequences are that function.
LEMMA RecursionExists ==
  ASSUME NEW S, NEW s0, NEW step, s0 \in S, step \in [Nat -> [S -> S]]
  PROVE  \E f : RunsOn(f, S, s0, step)
<1> DEFINE G(n) == CHOOSE g : Runs(g, n, S, s0, step)
           f == [n \in Nat |-> G(n)[n]]
<1>1. \A n \in Nat : Runs(G(n), n, S, s0, step)  BY RunsExist
<1> HIDE DEF G
<1>2. \A n \in Nat : G(n)[n] \in S
  <2>1. TAKE n \in Nat
  <2>2. G(n) \in [0 .. n -> S] /\ n \in 0 .. n  BY <1>1 DEF Runs
  <2>3. QED  BY <2>2
<1>3. f \in [Nat -> S] /\ \A n \in Nat : f[n] = G(n)[n]  BY <1>2
<1> HIDE DEF f
<1>4. f[0] = s0  BY <1>1, <1>3 DEF Runs
<1>5. ASSUME NEW n \in Nat PROVE f[n + 1] = step[n][f[n]]
  <2>1. n + 1 \in Nat /\ n \in 0 .. (n + 1) - 1 /\ n <= n /\ n <= n + 1  OBVIOUS
  <2>2. Runs(G(n), n, S, s0, step) /\ Runs(G(n + 1), n + 1, S, s0, step)  BY <1>1, <2>1
  <2>3. G(n)[n] = G(n + 1)[n]  BY <2>1, <2>2, RunsAgree
  <2>4. G(n + 1)[n + 1] = step[n][G(n + 1)[n]]  BY <2>1, <2>2 DEF Runs
  <2>5. QED  BY <1>3, <2>1, <2>3, <2>4
<1>6. QED  BY <1>3, <1>4, <1>5 DEF RunsOn

-----------------------------------------------------------------------------
(* Powers of two and accumulated bits.                                      *)

\* 1 << n is what its recursion says.
LEMMA PowersOfTwo ==
  /\ Pow2[0] = 1
  /\ \A n \in Nat : Pow2[n] \in Nat \ {0} /\ Pow2[n + 1] = 2 * Pow2[n]
<1> DEFINE step == [n \in Nat |-> [x \in Nat \ {0} |-> 2 * x]]
<1>1. step \in [Nat -> [Nat \ {0} -> Nat \ {0}]] /\ 1 \in Nat \ {0}  OBVIOUS
<1>2. PICK f \in [Nat -> Nat \ {0}] : f[0] = 1 /\ \A n \in Nat : f[n + 1] = step[n][f[n]]
  <2>1. PICK S, z, st : S = Nat \ {0} /\ z = 1 /\ st = step  OBVIOUS
  <2>2. z \in S /\ st \in [Nat -> [S -> S]]  BY <1>1, <2>1
  <2>3. PICK f : RunsOn(f, S, z, st)  BY <2>2, RecursionExists
  <2> HIDE DEF step
  <2>4. QED  BY <2>1, <2>3 DEF RunsOn
<1>3. f = [n \in Nat |-> IF n = 0 THEN 1 ELSE 2 * f[n - 1]]
  <2>1. ASSUME NEW n \in Nat PROVE f[n] = IF n = 0 THEN 1 ELSE 2 * f[n - 1]
    <3>1. CASE n # 0
      <4>1. n - 1 \in Nat /\ (n - 1) + 1 = n  BY <3>1
      <4>2. f[(n - 1) + 1] = step[n - 1][f[n - 1]] /\ f[n - 1] \in Nat \ {0}  BY <1>2, <4>1
      <4>3. QED  BY <3>1, <4>1, <4>2
    <3>2. QED  BY <1>2, <3>1
  <2>2. QED  BY <1>2, <2>1
<1>4. \E g : g = [n \in Nat |-> IF n = 0 THEN 1 ELSE 2 * g[n - 1]]  BY <1>3, Zenon
<1>5. Pow2 = [n \in Nat |-> IF n = 0 THEN 1 ELSE 2 * Pow2[n - 1]]  BY <1>4, Zenon DEF Pow2
<1>6. Pow2[0] = 1 /\ \A n \in Nat : Pow2[n + 1] = 2 * Pow2[n]
  <2>1. Pow2[0] = 1  BY <1>5
  <2>2. ASSUME NEW n \in Nat PROVE Pow2[n + 1] = 2 * Pow2[n]
    <3>1. n + 1 \in Nat /\ n + 1 # 0 /\ (n + 1) - 1 = n  OBVIOUS
    <3>2. Pow2[n + 1] = 2 * Pow2[(n + 1) - 1]  BY <1>5, <3>1
    <3>3. QED  BY <3>1, <3>2
  <2>3. QED  BY <2>1, <2>2
<1> DEFINE I == {n \in Nat : Pow2[n] \in Nat \ {0}}
<1>7. \A n \in Nat : n \in I
  <2>1. 0 \in I  BY <1>6
  <2>2. ASSUME NEW n \in Nat, n \in I PROVE n + 1 \in I  BY <1>6, <2>2
  <2> HIDE DEF I
  <2>3. QED  BY <2>1, <2>2, Induction
<1>8. QED  BY <1>6, <1>7

\* The same for one n, in the form the leaves below use.
LEMMA PowerIs ==
  ASSUME NEW n \in Nat
  PROVE  /\ Pow2[n] \in Nat /\ Pow2[n] > 0 /\ Pow2[n + 1] \in Nat /\ Pow2[n + 1] = 2 * Pow2[n]
<1>1. PICK P : P = Pow2[n]  OBVIOUS
<1>2. P \in Nat \ {0} /\ Pow2[n + 1] = 2 * P  BY <1>1, PowersOfTwo
<1>3. QED  BY <1>1, <1>2

\* Dropping one more place halves the number.
LEMMA HalvesAgain ==
  ASSUME NEW a \in Nat, NEW n \in Nat
  PROVE  /\ a \div Pow2[n] \in Nat
         /\ a \div Pow2[n + 1] = (a \div Pow2[n]) \div 2
         /\ a \div Pow2[n + 1] = (a \div 2) \div Pow2[n]
<1>1. PICK P \in Nat \ {0} : P = Pow2[n] /\ Pow2[n + 1] = 2 * P  BY PowersOfTwo
<1>2. /\ a \div P \in Int /\ a % P \in 0 .. P - 1 /\ a = P * (a \div P) + (a % P)
      /\ a \div 2 \in Int /\ a % 2 \in 0 .. 1 /\ a = 2 * (a \div 2) + (a % 2)
  BY Division
<1>3. a \div P \in Nat /\ a \div 2 \in Nat  BY <1>2
<1>4. a \div (2 * P) = (a \div P) \div 2
  <2>1. PICK q \in Int, r \in 0 .. 1, s \in 0 .. P - 1 :
          q = (a \div P) \div 2 /\ a \div P = 2 * q + r /\ a = P * (a \div P) + s
    <3>1. PICK d \in Nat : d = a \div P  BY <1>3
    <3>2. d \div 2 \in Int /\ d % 2 \in 0 .. 1 /\ d = 2 * (d \div 2) + (d % 2)  BY Division
    <3>3. QED  BY <1>2, <3>1, <3>2
  <2>2. P * (2 * q + r) = (2 * P) * q + P * r  OBVIOUS
  <2>3. a = (2 * P) * q + (P * r + s)  BY <2>1, <2>2
  <2>4. P * r = 0 \/ P * r = P  BY <2>1
  <2>5. P * r + s \in 0 .. 2 * P - 1  BY <2>4
  <2>6. 2 * P \in Nat /\ 2 * P > 0  OBVIOUS
  <2>7. PICK PP \in Nat : PP = 2 * P /\ PP > 0  BY <2>6
  <2>8. PICK rest \in 0 .. PP - 1 : rest = P * r + s  BY <2>5, <2>7
  <2>9. a = PP * q + rest  BY <2>3, <2>7, <2>8
  <2>10. a \div PP = q  BY <2>7, <2>9, DivisionIsUnique
  <2>11. QED  BY <2>1, <2>7, <2>10
<1>5. a \div (2 * P) = (a \div 2) \div P
  <2>1. PICK q \in Int, r \in 0 .. P - 1, s \in 0 .. 1 :
          q = (a \div 2) \div P /\ a \div 2 = P * q + r /\ a = 2 * (a \div 2) + s
    <3>1. PICK d \in Nat : d = a \div 2  BY <1>3
    <3>2. d \div P \in Int /\ d % P \in 0 .. P - 1 /\ d = P * (d \div P) + (d % P)  BY Division
    <3>3. QED  BY <1>2, <3>1, <3>2
  <2>2. 2 * (P * q + r) = (2 * P) * q + 2 * r  OBVIOUS
  <2>3. a = (2 * P) * q + (2 * r + s)  BY <2>1, <2>2
  <2>4. PICK PP \in Nat : PP = 2 * P /\ PP > 0  OBVIOUS
  <2>5. PICK rest \in 0 .. PP - 1 : rest = 2 * r + s  BY <2>4
  <2>6. a = PP * q + rest  BY <2>3, <2>4, <2>5
  <2>7. a \div PP = q  BY <2>4, <2>6, DivisionIsUnique
  <2>8. QED  BY <2>1, <2>4, <2>7
<1>6. QED  BY <1>1, <1>3, <1>4, <1>5

\* Accumulated is a sequence of numbers that take up one bit each.
LEMMA AccumulatedRuns ==
  ASSUME NEW length \in Nat, NEW bits \in Words(length)
  PROVE  \E f \in [0 .. length -> Nat] :
           /\ f[0] = 0 /\ Accumulated(bits, length) = f[length]
           /\ \A n \in 0 .. length - 1 : f[n + 1] = 2 * f[n] + bits[n]
<1> DEFINE b(n) == IF n < length THEN bits[n] ELSE 0
           step == [n \in Nat |-> [x \in Nat |-> 2 * x + b(n)]]
           accum == CHOOSE g :
                      g = [n \in 0 .. length |-> IF n = 0 THEN 0 ELSE 2 * g[n - 1] + bits[n - 1]]
<1>1. \A n \in Nat : b(n) \in Nat
  <2>1. TAKE n \in Nat
  <2>2. CASE n < length
    <3>1. n \in Indices(length)  BY <2>2 DEF Indices
    <3>2. QED  BY <2>2, <3>1 DEF Words
  <2>3. QED  BY <2>2
<1> HIDE DEF b
<1>2. step \in [Nat -> [Nat -> Nat]]  BY <1>1
<1>3. PICK f \in [Nat -> Nat] : f[0] = 0 /\ \A n \in Nat : f[n + 1] = step[n][f[n]]
  <2>1. PICK S, z, st : S = Nat /\ z = 0 /\ st = step  OBVIOUS
  <2>2. z \in S /\ st \in [Nat -> [S -> S]]  BY <1>2, <2>1
  <2>3. PICK f : RunsOn(f, S, z, st)  BY <2>2, RecursionExists
  <2> HIDE DEF step
  <2>4. QED  BY <2>1, <2>3 DEF RunsOn
<1>4. PICK g : g = [n \in 0 .. length |-> f[n]]  OBVIOUS
<1>5. ASSUME NEW n \in 0 .. length - 1 PROVE g[n + 1] = 2 * g[n] + bits[n]
  <2>1. n \in Nat /\ n + 1 \in 0 .. length /\ n \in 0 .. length /\ n < length  OBVIOUS
  <2>2. f[n + 1] = 2 * f[n] + b(n)  BY <1>3, <2>1
  <2>3. b(n) = bits[n]  BY <2>1 DEF b
  <2>4. QED  BY <1>4, <2>1, <2>2, <2>3
<1>6. g = [n \in 0 .. length |-> IF n = 0 THEN 0 ELSE 2 * g[n - 1] + bits[n - 1]]
  <2>1. ASSUME NEW n \in 0 .. length
        PROVE  g[n] = IF n = 0 THEN 0 ELSE 2 * g[n - 1] + bits[n - 1]
    <3>1. CASE n # 0
      <4>1. n - 1 \in 0 .. length - 1 /\ (n - 1) + 1 = n  BY <3>1
      <4>2. QED  BY <1>5, <3>1, <4>1
    <3>2. QED  BY <1>3, <1>4, <3>1
  <2>2. QED  BY <1>4, <2>1
<1>7. accum = [n \in 0 .. length |-> IF n = 0 THEN 0 ELSE 2 * accum[n - 1] + bits[n - 1]]
  BY <1>6, Zenon
<1>8. Accumulated(bits, length) = accum[length]  BY Zenon DEF Accumulated
<1> HIDE DEF accum
<1>9. accum[0] = 0  BY <1>7
<1>10. ASSUME NEW n \in 0 .. length - 1 PROVE accum[n + 1] = 2 * accum[n] + bits[n]
  <2>1. n + 1 \in 0 .. length /\ n + 1 # 0 /\ (n + 1) - 1 = n  OBVIOUS
  <2>2. accum[n + 1] = 2 * accum[(n + 1) - 1] + bits[(n + 1) - 1]  BY <1>7, <2>1
  <2>3. QED  BY <2>1, <2>2
<1> DEFINE I == {n \in Nat : n <= length => accum[n] \in Nat}
<1>11. \A n \in Nat : n \in I
  <2>1. 0 \in I  BY <1>9
  <2>2. ASSUME NEW n \in Nat, n \in I PROVE n + 1 \in I
    <3>1. CASE n + 1 <= length
      <4>1. n \in 0 .. length - 1 /\ n <= length /\ n \in Indices(length)
        BY <3>1 DEF Indices
      <4>2. accum[n] \in Nat /\ bits[n] \in {0, 1}  BY <2>2, <4>1 DEF Words
      <4>3. accum[n + 1] = 2 * accum[n] + bits[n]  BY <1>10, <4>1
      <4>4. QED  BY <4>2, <4>3
    <3>2. QED  BY <3>1
  <2> HIDE DEF I
  <2>3. QED  BY <2>1, <2>2, Induction
<1>12. accum \in [0 .. length -> Nat]
  <2>1. \A n \in 0 .. length : accum[n] \in Nat  BY <1>11
  <2>2. QED  BY <1>7, <2>1
<1>13. QED  BY <1>8, <1>9, <1>10, <1>12

\* The accumulated bits are the bits of the number.
LEMMA BitsOfAccumulated ==
  ASSUME NEW length \in Nat, NEW bits \in Words(length)
  PROVE  /\ Accumulated(bits, length) \in Indices(Pow2[length])
         /\ \A i \in Indices(length) :
              (Accumulated(bits, length) \div Pow2[length - 1 - i]) % 2 = bits[i]
<1>1. PICK f \in [0 .. length -> Nat] :
           /\ f[0] = 0 /\ Accumulated(bits, length) = f[length]
           /\ \A n \in 0 .. length - 1 : f[n + 1] = 2 * f[n] + bits[n]
  BY AccumulatedRuns
<1> DEFINE Right(k) == /\ f[k] < Pow2[k]
                       /\ \A i \in 0 .. k - 1 : (f[k] \div Pow2[k - 1 - i]) % 2 = bits[i]
           I == {k \in Nat : k <= length => Right(k)}
<1>2. \A n \in Nat : n \in I
  <2>1. 0 \in I
    <3>1. f[0] < Pow2[0]  BY <1>1, PowersOfTwo
    <3>2. QED  BY <3>1
  <2>2. ASSUME NEW k \in Nat, k \in I, k + 1 <= length PROVE Right(k + 1)
    <3>1. k \in 0 .. length - 1 /\ k <= length /\ k \in Indices(length)
      BY <2>2 DEF Indices
    <3>2. f[k + 1] = 2 * f[k] + bits[k] /\ bits[k] \in {0, 1} /\ f[k] \in Nat /\ f[k + 1] \in Nat
      <4>1. f[k] \in Nat /\ k + 1 \in 0 .. length  BY <3>1
      <4>2. bits[k] \in {0, 1}  BY <3>1 DEF Words
      <4>3. QED  BY <1>1, <3>1, <4>1, <4>2
    <3>3. Right(k)  BY <2>2, <3>1
    <3>4. f[k + 1] < Pow2[k + 1]
      <4>1. PICK P \in Nat : P = Pow2[k] /\ Pow2[k + 1] = 2 * P  BY PowersOfTwo
      <4>2. f[k] < P  BY <3>3, <4>1
      <4>3. QED  BY <3>2, <4>1, <4>2
    <3>5. ASSUME NEW i \in 0 .. (k + 1) - 1
          PROVE  (f[k + 1] \div Pow2[(k + 1) - 1 - i]) % 2 = bits[i]
      <4>0. PICK x \in Nat, b \in {0, 1} : x = f[k] /\ b = bits[k] /\ f[k + 1] = 2 * x + b
        BY <3>2
      <4>1. CASE i = k
        <5>1. (k + 1) - 1 - i = 0  BY <4>1
        <5>2. (2 * x + b) \div 1 = 2 * x + b  OBVIOUS
        <5>3. (2 * x + b) % 2 = b  OBVIOUS
        <5>4. QED  BY <4>0, <4>1, <5>1, <5>2, <5>3, PowersOfTwo
      <4>2. CASE i # k
        <5>1. PICK j \in Nat : j = k - 1 - i /\ (k + 1) - 1 - i = j + 1  BY <4>2
        <5>2. (2 * x + b) \div 2 = x  OBVIOUS
        <5>3. PICK a \in Nat : a = f[k + 1]  BY <3>2
        <5>4. a \div Pow2[j + 1] = (a \div 2) \div Pow2[j]  BY HalvesAgain
        <5>5. f[k + 1] \div Pow2[j + 1] = x \div Pow2[j]  BY <4>0, <5>2, <5>3, <5>4
        <5>6. i \in 0 .. k - 1  BY <4>2
        <5>7. (f[k] \div Pow2[k - 1 - i]) % 2 = bits[i]  BY <3>3, <5>6
        <5>8. QED  BY <4>0, <5>1, <5>5, <5>7
      <4>3. QED  BY <4>1, <4>2
    <3>6. QED  BY <3>4, <3>5
  <2>3. ASSUME NEW k \in Nat, k \in I PROVE k + 1 \in I
    <3> HIDE DEF Right
    <3>1. QED  BY <2>2, <2>3
  <2> HIDE DEF I
  <2>4. QED  BY <2>1, <2>3, Induction
<1>3. Right(length)  BY <1>2
<1>4. f[length] \in Nat /\ Pow2[length] \in Nat  BY PowerIs
<1>5. QED  BY <1>1, <1>3, <1>4 DEF Indices

\* The bits of a number accumulate to it.
LEMMA AccumulatedBits ==
  ASSUME NEW length \in Nat, NEW value \in Indices(Pow2[length]), NEW bits,
         bits = [i \in Indices(length) |-> (value \div Pow2[length - 1 - i]) % 2]
  PROVE  bits \in Words(length) /\ Accumulated(bits, length) = value
<1>1. value \in Nat /\ value < Pow2[length] /\ Pow2[length] \in Nat /\ Pow2[length] > 0
  <2>1. PICK P \in Nat : P = Pow2[length] /\ P > 0  BY PowerIs
  <2>2. value \in Nat /\ value < P  BY <2>1 DEF Indices
  <2>3. QED  BY <2>1, <2>2
<1>2. bits \in Words(length)
  <2>1. ASSUME NEW i \in Indices(length)
        PROVE  (value \div Pow2[length - 1 - i]) % 2 \in {0, 1}
    <3>1. PICK j \in Nat : j = length - 1 - i  BY DEF Indices
    <3>2. PICK d \in Nat : d = value \div Pow2[j]  BY <1>1, HalvesAgain
    <3>3. d % 2 \in {0, 1}  OBVIOUS
    <3>4. QED  BY <3>1, <3>2, <3>3
  <2>2. QED  BY <2>1 DEF Words
<1>3. PICK f \in [0 .. length -> Nat] :
           /\ f[0] = 0 /\ Accumulated(bits, length) = f[length]
           /\ \A n \in 0 .. length - 1 : f[n + 1] = 2 * f[n] + bits[n]
  BY <1>2, AccumulatedRuns
<1> DEFINE I == {k \in Nat : k <= length => f[k] = value \div Pow2[length - k]}
<1>4. \A n \in Nat : n \in I
  <2>1. 0 \in I
    <3>1. PICK P \in Nat : P = Pow2[length] /\ P > 0 /\ value \in 0 .. P - 1  BY <1>1
    <3>2. value \div P = 0  BY <3>1, SmallDivision
    <3>3. QED  BY <1>3, <3>1, <3>2
  <2>2. ASSUME NEW k \in Nat, k \in I, k + 1 <= length
        PROVE  f[k + 1] = value \div Pow2[length - (k + 1)]
    <3>1. k \in 0 .. length - 1 /\ k <= length /\ k \in Indices(length)
      BY <2>2 DEF Indices
    <3>2. PICK j \in Nat : j = length - (k + 1) /\ length - k = j + 1 /\ length - 1 - k = j
      BY <2>2
    <3>3. f[k] = value \div Pow2[j + 1]  BY <2>2, <3>1, <3>2
    <3>4. PICK d \in Nat : d = value \div Pow2[j] /\ value \div Pow2[j + 1] = d \div 2
      <4>1. value \in Nat  BY <1>1
      <4>2. QED  BY <4>1, HalvesAgain
    <3>5. bits[k] = d % 2  BY <3>1, <3>2, <3>4
    <3>6. f[k + 1] = 2 * f[k] + bits[k]  BY <1>3, <3>1
    <3>7. 2 * (d \div 2) + (d % 2) = d  OBVIOUS
    <3>8. QED  BY <3>2, <3>3, <3>4, <3>5, <3>6, <3>7
  <2>3. ASSUME NEW k \in Nat, k \in I PROVE k + 1 \in I  BY <2>2, <2>3
  <2> HIDE DEF I
  <2>4. QED  BY <2>1, <2>3, Induction
<1>5. f[length] = value \div Pow2[length - length]  BY <1>4
<1>6. Pow2[length - length] = 1 /\ value \div 1 = value  BY <1>1, PowersOfTwo
<1>7. QED  BY <1>2, <1>3, <1>5, <1>6

-----------------------------------------------------------------------------
(* Fields and the serial forms made of them.                                *)

\* size() of a vector is the number of its places.
LEMMA SizeIs ==
  ASSUME NEW n \in Nat, NEW v, DOMAIN v = Indices(n) PROVE Size(v) = n
<1>1. CASE n = 0
  <2>1. DOMAIN v = {}  BY <1>1 DEF Indices
  <2>2. QED  BY <1>1, <2>1 DEF Size
<1>2. CASE n # 0
  <2>1. n - 1 \in DOMAIN v /\ (n - 1) + 1 \notin DOMAIN v  BY <1>2 DEF Indices
  <2>2. PICK last : last = CHOOSE i \in DOMAIN v : i + 1 \notin DOMAIN v  OBVIOUS
  <2>3. last \in DOMAIN v /\ last + 1 \notin DOMAIN v  BY <2>1, <2>2
  <2>4. last = n - 1  BY <2>3 DEF Indices
  <2>5. Size(v) = 1 + last  BY <2>1, <2>2, Zenon DEF Size
  <2>6. QED  BY <2>4, <2>5
<1>3. QED  BY <1>1, <1>2

\* One binary digit of a number.
LEMMA DigitIs ==
  ASSUME NEW a \in Nat, NEW n \in Nat
  PROVE  /\ (a \div Pow2[n]) % 2 \in {0, 1}
         /\ ((a \div Pow2[n]) % 2) % 2 = (a \div Pow2[n]) % 2
<1>1. PICK d \in Nat : d = a \div Pow2[n]  BY HalvesAgain
<1>2. d % 2 \in {0, 1} /\ (d % 2) % 2 = d % 2  OBVIOUS
<1>3. QED  BY <1>1, <1>2

\* peekField reads the number that fillField has written.
LEMMA FieldComesBack ==
  ASSUME NEW v, NEW at \in Nat, NEW length \in Nat, NEW value \in Indices(Pow2[length]),
         \A i \in Indices(length) : at + i \in DOMAIN v
  PROVE  peekField(fillField(v, at, value, length), at, length) = value
<1> DEFINE w == fillField(v, at, value, length)
           bits == [i \in Indices(length) |-> bit(w, at + i)]
<1>1. value \in Nat  BY PowerIs DEF Indices
<1>2. ASSUME NEW i \in Indices(length)
      PROVE  bits[i] = (value \div Pow2[length - 1 - i]) % 2
  <2>1. PICK j \in DOMAIN v : j = at + i  OBVIOUS
  <2>2. PICK k \in Nat : k = length - 1 - i /\ k = at + length - 1 - j
    BY <2>1 DEF Indices
  <2>3. j >= at /\ j < at + length  BY <2>1 DEF Indices
  <2>4. w[j] = (value \div Pow2[k]) % 2  BY <2>2, <2>3 DEF fillField
  <2>5. w[j] % 2 = (value \div Pow2[k]) % 2  BY <1>1, <2>4, DigitIs
  <2>6. QED  BY <2>1, <2>2, <2>5 DEF bit
<1>3. bits = [i \in Indices(length) |-> (value \div Pow2[length - 1 - i]) % 2]  BY <1>2
<1>4. peekField(w, at, length) = Accumulated(bits, length)  BY DEF peekField
<1> HIDE DEF w, bits
<1>5. Accumulated(bits, length) = value  BY <1>3, AccumulatedBits
<1>6. QED  BY <1>4, <1>5 DEF w

\* peekFieldReversed reads the number that fillFieldReversed has written.
LEMMA ReversedFieldComesBack ==
  ASSUME NEW v, NEW at \in Nat, NEW length \in Nat, NEW value \in Indices(Pow2[length]),
         \A i \in Indices(length) : at + i \in DOMAIN v
  PROVE  peekFieldReversed(fillFieldReversed(v, at, value, length), at, length) = value
<1> DEFINE w == fillFieldReversed(v, at, value, length)
           bits == [i \in Indices(length) |-> bit(w, at + length - 1 - i)]
<1>1. value \in Nat  BY PowerIs DEF Indices
<1>2. ASSUME NEW i \in Indices(length)
      PROVE  bits[i] = (value \div Pow2[length - 1 - i]) % 2
  <2>1. PICK k \in Indices(length) : k = length - 1 - i /\ k \in Nat  BY DEF Indices
  <2>2. PICK j \in DOMAIN v : j = at + k /\ j = at + length - 1 - i /\ j - at = k
    BY <2>1 DEF Indices
  <2>3. j >= at /\ j < at + length  BY <2>1, <2>2 DEF Indices
  <2>4. w[j] = (value \div Pow2[k]) % 2  BY <2>2, <2>3 DEF fillFieldReversed
  <2>5. w[j] % 2 = (value \div Pow2[k]) % 2  BY <1>1, <2>1, <2>4, DigitIs
  <2>6. QED  BY <2>1, <2>2, <2>5 DEF bit
<1>3. bits = [i \in Indices(length) |-> (value \div Pow2[length - 1 - i]) % 2]  BY <1>2
<1>4. peekFieldReversed(w, at, length) = Accumulated(bits, length)  BY DEF peekFieldReversed
<1> HIDE DEF w, bits
<1>5. Accumulated(bits, length) = value  BY <1>3, AccumulatedBits
<1>6. QED  BY <1>4, <1>5 DEF w

\* Fields come back, and their neighbours stay as they are.
LEMMA FieldingInverts == Fielding => CodesInvert'
<1> SUFFICES ASSUME Fielding PROVE CodesInvert'
  OBVIOUS
<1> DEFINE Written(at, filled, reversed, length, value) ==
             LET v == [i \in Indices(FieldSize) |-> filled]
                 w == IF reversed THEN fillFieldReversed(v, at, value, length)
                      ELSE fillField(v, at, value, length)
             IN coding' = [op |-> "field", at |-> at, length |-> length, value |-> value,
                           filled |-> filled, out |-> w,
                           back |-> IF reversed THEN peekFieldReversed(w, at, length)
                                    ELSE peekField(w, at, length)]
<1>1. PICK at \in Indices(FieldSize), filled \in {0, 1}, reversed \in BOOLEAN :
        \E length \in 0 .. FieldSize - at : \E value \in Indices(Pow2[length]) :
          Written(at, filled, reversed, length, value)
  BY DEF Fielding
<1>a. PICK length \in 0 .. FieldSize - at :
        \E value \in Indices(Pow2[length]) : Written(at, filled, reversed, length, value)
  <2> HIDE DEF Written
  <2>1. QED  BY <1>1
<1>2. PICK value \in Indices(Pow2[length]) : Written(at, filled, reversed, length, value)
  <2> HIDE DEF Written
  <2>1. QED  BY <1>a
<1> DEFINE v == [i \in Indices(FieldSize) |-> filled]
           w == IF reversed THEN fillFieldReversed(v, at, value, length)
                ELSE fillField(v, at, value, length)
<1>3. /\ at \in Nat /\ length \in Nat /\ DOMAIN v = Indices(FieldSize)
      /\ \A i \in Indices(length) : at + i \in DOMAIN v
  BY CodesAssumption DEF Indices
<1>4. value = IF reversed THEN peekFieldReversed(w, at, length) ELSE peekField(w, at, length)
  <2> HIDE DEF v
  <2>1. QED  BY <1>3, FieldComesBack, ReversedFieldComesBack
<1>5. DOMAIN w = DOMAIN v
  <2> HIDE DEF v
  <2>1. QED  BY DEF fillField, fillFieldReversed
<1>6. ASSUME NEW i \in DOMAIN w, i \notin at .. at + length - 1 PROVE w[i] = filled
  <2>1. i \in Indices(FieldSize) /\ i \in Int
    <3>1. i \in Indices(FieldSize)
      <4> HIDE DEF v, w
      <4>1. QED  BY <1>3, <1>5
    <3>2. QED  BY <3>1 DEF Indices
  <2>2. ~(i >= at /\ i < at + length)  BY <1>3, <1>6, <2>1
  <2>3. v[i] = filled /\ i \in DOMAIN v  BY <2>1
  <2> HIDE DEF v
  <2>4. QED  BY <2>2, <2>3 DEF fillField, fillFieldReversed
<1>7. coding' = [op |-> "field", at |-> at, length |-> length, value |-> value,
                 filled |-> filled, out |-> w, back |-> value]
  <2>1. coding' = [op |-> "field", at |-> at, length |-> length, value |-> value,
                   filled |-> filled, out |-> w,
                   back |-> IF reversed THEN peekFieldReversed(w, at, length)
                            ELSE peekField(w, at, length)]
    BY <1>2
  <2> HIDE DEF w
  <2>2. QED  BY <1>4, <2>1
<1> HIDE DEF w
<1>8. QED  BY <1>6, <1>7 DEF CodesInvert

\* A field that is read and written again.
LEMMA FilledBack ==
  ASSUME NEW v, NEW at \in Nat, NEW length \in Nat,
         \A i \in Indices(length) : v[at + i] \in {0, 1}
  PROVE  /\ peekField(v, at, length) \in Indices(Pow2[length])
         /\ \A i \in Indices(length) :
              fillField([j \in Indices(length) |-> 0], 0, peekField(v, at, length), length)[i]
                = v[at + i]
<1> DEFINE bits == [i \in Indices(length) |-> bit(v, at + i)]
<1>1. \A i \in Indices(length) : bits[i] = v[at + i]  BY DEF bit
<1>2. bits \in Words(length)  BY <1>1 DEF Words
<1>3. PICK value : value = peekField(v, at, length) /\ value = Accumulated(bits, length)
  BY DEF peekField
<1> HIDE DEF bits
<1>4. /\ value \in Indices(Pow2[length])
      /\ \A i \in Indices(length) : (value \div Pow2[length - 1 - i]) % 2 = bits[i]
  BY <1>2, <1>3, BitsOfAccumulated
<1>5. ASSUME NEW i \in Indices(length)
      PROVE  fillField([j \in Indices(length) |-> 0], 0, value, length)[i] = v[at + i]
  <2>1. i >= 0 /\ i < 0 + length /\ 0 + length - 1 - i = length - 1 - i  BY DEF Indices
  <2>2. fillField([j \in Indices(length) |-> 0], 0, value, length)[i]
          = (value \div Pow2[length - 1 - i]) % 2
    BY <2>1 DEF fillField
  <2>3. QED  BY <1>1, <1>4, <2>2
<1>6. QED  BY <1>3, <1>4, <1>5

\* What is coded and comes back whole.
LEMMA SerialInverts == ASSUME NEW v, Serial(v, v) PROVE CodesInvert'
BY DEF Serial, CodesInvert

\* unpack reads what pack has written, a last byte that is not full included.
LEMMA PackComesBack ==
  ASSUME NEW n \in Nat, NEW v \in Words(n) PROVE unpack(n, pack(v)) = v
<1> DEFINE whole == n \div 8  rem == n % 8
<1>1. /\ whole \in Nat /\ rem \in 0 .. 7 /\ n = 8 * whole + rem /\ Size(v) = n
      /\ DOMAIN v = Indices(n)
  <2>1. DOMAIN v = Indices(n)  BY DEF Words
  <2>2. QED  BY <2>1, SizeIs, Division
<1>2. PICK src : src = pack(v)  OBVIOUS
<1>3. src = [i \in Indices(whole + IF rem = 0 THEN 0 ELSE 1) |->
               IF i < whole THEN peekField(v, 8 * i, 8)
               ELSE peekField(v, 8 * whole, rem) * Pow2[8 - rem]]
  BY <1>1, <1>2 DEF pack
<1>4. ASSUME NEW i \in Indices(n) PROVE unpack(n, src)[i] = v[i]
  <2>1. CASE i < 8 * whole
    <3>1. PICK b \in Nat, l \in Indices(8) : b = i \div 8 /\ l = i % 8 /\ i = 8 * b + l
      <4>1. i \in Nat  BY DEF Indices
      <4>2. i \div 8 \in Nat /\ i % 8 \in 0 .. 8 - 1 /\ i = 8 * (i \div 8) + (i % 8)
        BY <4>1
      <4>3. QED  BY <4>2 DEF Indices
    <3>2. b < whole /\ b \in Indices(whole + IF rem = 0 THEN 0 ELSE 1)
      BY <1>1, <2>1, <3>1 DEF Indices
    <3>3. src[b] = peekField(v, 8 * b, 8)  BY <1>3, <3>2
    <3>4. \A j \in Indices(8) : 8 * b + j \in Indices(n)  BY <1>1, <3>2 DEF Indices
    <3>5. \A j \in Indices(8) : v[8 * b + j] \in {0, 1}  BY <3>4 DEF Words
    <3>6. PICK at \in Nat : at = 8 * b  OBVIOUS
    <3>7. fillField([j \in Indices(8) |-> 0], 0, src[b], 8)[l] = v[at + l]
      <4>1. 8 \in Nat  OBVIOUS
      <4>2. QED  BY <3>3, <3>5, <3>6, <4>1, FilledBack
    <3>8. unpack(n, src)[i] = fillField([j \in 0 .. 7 |-> 0], 0, src[b], 8)[l]
      BY <2>1, <3>1 DEF unpack
    <3>9. Indices(8) = 0 .. 7  BY DEF Indices
    <3>10. QED  BY <3>1, <3>6, <3>7, <3>8, <3>9
  <2>2. CASE ~(i < 8 * whole)
    <3>1. PICK l \in Indices(rem) : i = 8 * whole + l /\ i \in Nat  BY <1>1, <2>2 DEF Indices
    <3>2. l = i % 8 /\ rem # 0 /\ 8 - rem \in Nat /\ rem \in Nat  BY <1>1, <3>1 DEF Indices
    <3>3. whole \in Indices(whole + IF rem = 0 THEN 0 ELSE 1) /\ ~(whole < whole)
      BY <1>1, <3>2 DEF Indices
    <3>4. src[whole] = peekField(v, 8 * whole, rem) * Pow2[8 - rem]  BY <1>3, <3>3
    <3>5. \A j \in Indices(rem) : 8 * whole + j \in Indices(n)  BY <1>1 DEF Indices
    <3>6. \A j \in Indices(rem) : v[8 * whole + j] \in {0, 1}  BY <3>5 DEF Words
    <3>7. PICK at \in Nat : at = 8 * whole  BY <1>1
    <3>8. PICK value : value = peekField(v, at, rem)  OBVIOUS
    <3>9. /\ value \in Indices(Pow2[rem])
          /\ fillField([j \in Indices(rem) |-> 0], 0, value, rem)[l] = v[at + l]
      <4> HIDE DEF rem
      <4>1. QED  BY <3>2, <3>6, <3>7, <3>8, FilledBack
    <3>10. src[whole] \div Pow2[8 - rem] = value
      <4>1. PICK P \in Nat : P = Pow2[8 - rem] /\ P > 0  BY <3>2, PowerIs
      <4>2. value \in Int  BY <3>9 DEF Indices
      <4>3. value * P = P * value + 0 /\ 0 \in 0 .. P - 1  BY <4>1, <4>2
      <4>4. (value * P) \div P = value  BY <4>1, <4>2, <4>3, DivisionIsUnique
      <4>5. QED  BY <3>4, <3>7, <3>8, <4>1, <4>4
    <3>11. unpack(n, src)[i]
             = fillField([j \in Indices(rem) |-> 0], 0, src[whole] \div Pow2[8 - rem], rem)[i % 8]
      BY <2>2 DEF unpack
    <3>12. QED  BY <3>1, <3>2, <3>7, <3>9, <3>10, <3>11
  <2>3. QED  BY <2>1, <2>2
<1>5. DOMAIN unpack(n, src) = Indices(n)  BY DEF unpack
<1>6. unpack(n, src) = v
  <2>1. unpack(n, src) = [i \in Indices(n) |-> unpack(n, src)[i]]  BY DEF unpack
  <2>2. v = [i \in Indices(n) |-> v[i]]  BY DEF Words
  <2>3. QED  BY <1>4, <2>1, <2>2
<1>7. QED  BY <1>2, <1>6

\* unhex reads the digits that hex has written.
LEMMA HexComesBack ==
  ASSUME NEW n \in Nat, n % 4 = 0, NEW v \in Words(n) PROVE unhex(n, hex(v)) = v
<1> DEFINE digits == n \div 4
<1>1. digits \in Nat /\ n = 4 * digits /\ Size(v) = n /\ DOMAIN v = Indices(n)
  <2>1. DOMAIN v = Indices(n)  BY DEF Words
  <2>2. QED  BY <2>1, SizeIs, Division
<1>2. PICK src : src = hex(v)  OBVIOUS
<1>3. src = [i \in Indices(digits) |-> peekField(v, 4 * i, 4)]  BY <1>1, <1>2 DEF hex
<1>4. ASSUME NEW i \in Indices(n) PROVE unhex(n, src)[i] = v[i]
  <2>1. PICK d \in Indices(digits), l \in Indices(4) :
          d = i \div 4 /\ l = i % 4 /\ i = 4 * d + l /\ d \in Nat
    <3>1. i \in Nat  BY DEF Indices
    <3>2. i \div 4 \in Nat /\ i % 4 \in 0 .. 4 - 1 /\ i = 4 * (i \div 4) + (i % 4)  BY <3>1
    <3>3. QED  BY <1>1, <3>2 DEF Indices
  <2>2. src[d] = peekField(v, 4 * d, 4)  BY <1>3, <2>1
  <2>3. \A j \in Indices(4) : 4 * d + j \in Indices(n)  BY <1>1, <2>1 DEF Indices
  <2>4. \A j \in Indices(4) : v[4 * d + j] \in {0, 1}  BY <2>3 DEF Words
  <2>5. PICK at \in Nat : at = 4 * d  BY <2>1
  <2>6. fillField([j \in Indices(4) |-> 0], 0, src[d], 4)[l] = v[at + l]
    <3>1. 4 \in Nat  OBVIOUS
    <3>2. QED  BY <2>2, <2>4, <2>5, <3>1, FilledBack
  <2>7. n - 4 * (n \div 4) = 0 /\ i < n - 0  BY <1>1 DEF Indices
  <2>8. unhex(n, src)[i] = fillField([j \in Indices(4) |-> 0], 0, src[d], 4)[l]
    BY <2>1, <2>7 DEF unhex
  <2>9. QED  BY <2>1, <2>5, <2>6, <2>8
<1>5. unhex(n, src) = v
  <2>1. unhex(n, src) = [i \in Indices(n) |-> unhex(n, src)[i]]  BY DEF unhex
  <2>2. v = [i \in Indices(n) |-> v[i]]  BY DEF Words
  <2>3. QED  BY <1>4, <2>1, <2>2
<1>6. QED  BY <1>2, <1>5

-----------------------------------------------------------------------------
(* Reordered and punctured vectors.                                         *)

\* Reversing the bytes twice changes nothing.
LEMMA ReversedComesBack ==
  ASSUME NEW n \in Nat, NEW v \in Words(n) PROVE LSB8MSB(LSB8MSB(v)) = v
<1> DEFINE w == LSB8MSB(v)  whole == n \div 8
<1>1. whole \in Nat /\ 8 * whole <= n /\ Size(v) = n /\ DOMAIN v = Indices(n)
  <2>1. DOMAIN v = Indices(n)  BY DEF Words
  <2>2. QED  BY <2>1, SizeIs, Division
<1>2. DOMAIN w = Indices(n) /\ Size(w) = n
  <2>1. DOMAIN w = Indices(n)  BY <1>1 DEF LSB8MSB
  <2> HIDE DEF w
  <2>2. QED  BY <2>1, SizeIs
<1>3. ASSUME NEW i \in Indices(n) PROVE LSB8MSB(w)[i] = v[i]
  <2>1. CASE i < 8 * whole
    <3>1. PICK b \in Nat : b = i \div 8 /\ i - 8 * b \in 0 .. 7
      <4>1. i \in Nat  BY DEF Indices
      <4>2. i \div 8 \in Nat /\ i % 8 \in 0 .. 8 - 1 /\ i = 8 * (i \div 8) + (i % 8)  BY <4>1
      <4>3. QED  BY <4>2
    <3>2. PICK j \in Nat : j = 2 * (8 * b) + 7 - i  BY <3>1 DEF Indices
    <3>3. /\ j \in Indices(n) /\ j < 8 * whole /\ 2 * (8 * b) + 7 - j = i
          /\ j = 8 * b + (j - 8 * b) /\ j - 8 * b \in 0 .. 8 - 1
      BY <1>1, <2>1, <3>1, <3>2 DEF Indices
    <3>4. j \div 8 = b
      <4>1. PICK r \in 0 .. 7 : r = j - 8 * b /\ j = 8 * b + r  BY <3>3
      <4>2. PICK eight \in Nat : eight = 8  OBVIOUS
      <4>3. j = eight * b + r /\ r \in 0 .. eight - 1 /\ eight > 0 /\ b \in Int  BY <4>1, <4>2
      <4>4. j \div eight = b  BY <4>3, DivisionIsUnique
      <4>5. QED  BY <4>2, <4>4
    <3>5. w[j] = v[i]  BY <1>1, <3>3, <3>4 DEF LSB8MSB, reverse8
    <3> HIDE DEF w
    <3>6. LSB8MSB(w)[i] = w[j]  BY <1>2, <2>1, <3>1, <3>2 DEF LSB8MSB, reverse8
    <3>7. QED  BY <3>5, <3>6
  <2>2. CASE ~(i < 8 * whole)
    <3>1. w[i] = v[i]  BY <1>1, <2>2 DEF LSB8MSB
    <3> HIDE DEF w
    <3>2. LSB8MSB(w)[i] = w[i]  BY <1>2, <2>2 DEF LSB8MSB
    <3>3. QED  BY <3>1, <3>2
  <2>3. QED  BY <2>1, <2>2
<1> HIDE DEF w
<1>4. LSB8MSB(w) = [i \in Indices(n) |-> LSB8MSB(w)[i]]  BY <1>2 DEF LSB8MSB
<1>5. v = [i \in Indices(n) |-> v[i]]  BY DEF Words
<1>6. QED  BY <1>3, <1>4, <1>5 DEF w

\* Inverting twice changes nothing, although the chars between are not bits.
LEMMA InvertedComesBack ==
  ASSUME NEW n \in Nat, NEW v \in Words(n) PROVE invert(invert(v)) = v
<1>1. PICK w : w = invert(v)  OBVIOUS
<1>2. DOMAIN w = Indices(n) /\ \A i \in Indices(n) : w[i] = 255 - v[i] /\ v[i] \in {0, 1}
  BY <1>1 DEF invert, Words
<1>3. ASSUME NEW i \in Indices(n) PROVE 255 - w[i] = v[i]  BY <1>2
<1>4. invert(w) = [i \in Indices(n) |-> v[i]]  BY <1>2, <1>3 DEF invert
<1>5. v = [i \in Indices(n) |-> v[i]]  BY DEF Words
<1>6. QED  BY <1>1, <1>4, <1>5

\* map finds what unmap has put at the places of a map without collisions.
LEMMA MappedComesBack ==
  ASSUME NEW n \in Nat, NEW v \in Words(n), NEW places \in [Indices(n) -> Indices(n + 1)],
         \A i, j \in Indices(n) : places[i] = places[j] => i = j
  PROVE  map(unmap(v, places, [i \in Indices(n + 1) |-> 0]), places, [i \in Indices(n) |-> 0]) = v
<1>1. PICK u : u = unmap(v, places, [i \in Indices(n + 1) |-> 0])  OBVIOUS
<1>2. ASSUME NEW i \in Indices(n) PROVE u[places[i]] = v[i]
  <2>1. PICK p : p = places[i] /\ p \in Indices(n + 1)  OBVIOUS
  <2>2. PICK c : c = CHOOSE j \in DOMAIN places : places[j] = p  OBVIOUS
  <2>3. i \in DOMAIN places /\ DOMAIN places = Indices(n)  OBVIOUS
  <2>4. c \in Indices(n) /\ places[c] = p  BY <2>1, <2>2, <2>3
  <2>5. c = i  BY <2>1, <2>4
  <2>6. u[p] = v[c]  BY <1>1, <2>1, <2>2, <2>3 DEF unmap
  <2>7. QED  BY <2>1, <2>5, <2>6
<1>3. map(u, places, [i \in Indices(n) |-> 0]) = [i \in Indices(n) |-> u[places[i]]]
  BY DEF map
<1>4. v = [i \in Indices(n) |-> v[i]]  BY DEF Words
<1>5. QED  BY <1>1, <1>2, <1>3, <1>4

\* More places are copied before a later place.
LEMMA CopiesGrow ==
  ASSUME NEW puncture, NEW i \in Nat, NEW k \in Nat, i < k, i \notin puncture
  PROVE  Copied(puncture, i) \in Nat /\ Copied(puncture, k) \in Nat
         /\ Copied(puncture, i) < Copied(puncture, k)
<1> DEFINE S == Indices(i) \ puncture  T == Indices(k) \ puncture
<1>1. IsFiniteSet(Indices(k))  BY FS_Interval DEF Indices
<1>2. IsFiniteSet(T)  BY <1>1, FS_Subset
<1>3. S \subseteq T /\ i \in T /\ i \notin S  BY DEF Indices
<1> HIDE DEF S, T
<1>4. IsFiniteSet(S) /\ Cardinality(S) <= Cardinality(T) /\ Cardinality(S) # Cardinality(T)
  BY <1>2, <1>3, FS_Subset
<1>5. Cardinality(S) \in Nat /\ Cardinality(T) \in Nat  BY <1>2, <1>4, FS_CardinalityType
<1>6. Cardinality(S) < Cardinality(T)  BY <1>4, <1>5
<1>7. QED  BY <1>5, <1>6 DEF S, T, Copied

\* The places that are copied have different numbers.
LEMMA CopiedOnce ==
  ASSUME NEW n \in Nat, NEW puncture,
         NEW i \in Indices(n) \ puncture, NEW k \in Indices(n) \ puncture,
         Copied(puncture, i) = Copied(puncture, k)
  PROVE  i = k
<1>1. i \in Nat /\ k \in Nat  BY DEF Indices
<1>2. CASE i < k
  <2>1. PICK a, b : a = Copied(puncture, i) /\ b = Copied(puncture, k)  OBVIOUS
  <2>2. a \in Nat /\ b \in Nat /\ a < b  BY <1>1, <1>2, <2>1, CopiesGrow
  <2>3. QED  BY <2>1, <2>2
<1>3. CASE k < i
  <2>1. PICK a, b : a = Copied(puncture, i) /\ b = Copied(puncture, k)  OBVIOUS
  <2>2. a \in Nat /\ b \in Nat /\ b < a  BY <1>1, <1>3, <2>1, CopiesGrow
  <2>3. QED  BY <2>1, <2>2
<1>4. QED  BY <1>1, <1>2, <1>3

\* Copied places come back, punctured ones are unknown.
LEMMA PuncturingInverts == Puncturing => CodesInvert'
<1> SUFFICES ASSUME NEW n \in DataSizes, NEW v \in Words(n), NEW puncture \in SUBSET Indices(n),
                    coding' = [op |-> "puncture", in |-> v, puncture |-> puncture,
                               out |->
                                 copyUnPunctured(soft(copyPunctured(v, puncture)), puncture, n),
                               back |-> sliced(soft(v))]
             PROVE  CodesInvert'
  BY DEF Puncturing
<1>1. n \in Nat /\ DOMAIN v = Indices(n) /\ \A i \in Indices(n) : v[i] \in {0, 1}
  BY CodesAssumption DEF Words
<1>2. sliced(soft(v)) = v
  <2>1. PICK s : s = soft(v)  OBVIOUS
  <2>2. DOMAIN s = Indices(n) /\ \A i \in Indices(n) : s[i] = 2 * v[i]
    BY <1>1, <2>1 DEF soft, bit
  <2>3. \A i \in Indices(n) : (IF s[i] > 1 THEN 1 ELSE 0) = v[i]  BY <1>1, <2>2
  <2>4. sliced(s) = [i \in Indices(n) |-> v[i]]  BY <2>2, <2>3 DEF sliced
  <2>5. v = [i \in Indices(n) |-> v[i]]  BY DEF Words
  <2>6. QED  BY <2>1, <2>4, <2>5
<1>3. PICK c : c = copyPunctured(v, puncture)  OBVIOUS
<1>4. ASSUME NEW i \in Indices(n), i \notin puncture
      PROVE  copyUnPunctured(soft(c), puncture, n)[i] = 2 * v[i]
  <2>1. PICK j : j = Copied(puncture, i)  OBVIOUS
  <2>2. Size(v) = n  BY <1>1, SizeIs
  <2>3. j \in Indices(Copied(puncture, n))
    <3>1. i \in Nat /\ i < n  BY <1>1 DEF Indices
    <3>2. PICK top : top = Copied(puncture, n)  OBVIOUS
    <3>3. j \in Nat /\ top \in Nat /\ j < top  BY <1>1, <1>4, <2>1, <3>1, <3>2, CopiesGrow
    <3>4. QED  BY <3>2, <3>3 DEF Indices
  <2>4. PICK k : k = CHOOSE l \in DOMAIN v \ puncture : Copied(puncture, l) = j  OBVIOUS
  <2>5. i \in DOMAIN v \ puncture  BY <1>1, <1>4
  <2>6. k \in DOMAIN v \ puncture /\ Copied(puncture, k) = j  BY <2>1, <2>4, <2>5
  <2>7. k = i  BY <1>1, <2>1, <2>5, <2>6, CopiedOnce
  <2>8. j \in DOMAIN c /\ c[j] = v[i]  BY <1>3, <2>2, <2>3, <2>4, <2>7 DEF copyPunctured
  <2>9. soft(c)[j] = 2 * (v[i] % 2)  BY <2>8 DEF soft, bit
  <2>10. v[i] % 2 = v[i]  BY <1>1
  <2>11. copyUnPunctured(soft(c), puncture, n)[i] = soft(c)[j]
    BY <1>4, <2>1 DEF copyUnPunctured
  <2>12. QED  BY <2>9, <2>10, <2>11
<1>5. ASSUME NEW i \in Indices(n)
      PROVE  copyUnPunctured(soft(c), puncture, n)[i] = IF i \in puncture THEN 1 ELSE 2 * v[i]
  <2>1. CASE i \in puncture  BY <2>1 DEF copyUnPunctured
  <2>2. CASE i \notin puncture  BY <1>4, <2>2
  <2>3. QED  BY <2>1, <2>2
<1>6. PICK out : out = copyUnPunctured(soft(c), puncture, n)  OBVIOUS
<1>7. coding' = [op |-> "puncture", in |-> v, puncture |-> puncture, out |-> out, back |-> v]
  BY <1>2, <1>3, <1>6
<1>8. \A i \in DOMAIN v : out[i] = IF i \in puncture THEN 1 ELSE 2 * v[i]  BY <1>1, <1>5, <1>6
<1>9. QED  BY <1>7, <1>8 DEF CodesInvert

-----------------------------------------------------------------------------
(* Shift registers are linear: what is fed in can be added bit by bit.      *)

Generating(g) == g.len \in Nat /\ g.len > 0 /\ g.coeff \in Words(g.len)

Xor(s, t, n) == [i \in Indices(n) |-> (s[i] + t[i]) % 2]
Zero(n) == [i \in Indices(n) |-> 0]
Ones(n) == [i \in Indices(n) |-> 1]
Unit(k, n) == [i \in Indices(n) |-> IF i = k THEN 1 ELSE 0]
Turned(s, g) == syndromeShift(s, g, 0)

\* Sums of bits, as the shifts form them.
LEMMA BitSums ==
  ASSUME NEW a \in {0, 1}, NEW b \in {0, 1}, NEW c \in {0, 1}, NEW x \in {0, 1}, NEW y \in {0, 1}
  PROVE  /\ (a + x * c) % 2 \in {0, 1} /\ (a + b) % 2 \in {0, 1}
         /\ (((a + b) % 2) + ((x + y) % 2) * c) % 2 = (((a + x * c) % 2) + ((b + y * c) % 2)) % 2
         /\ (a + ((x + y) % 2) * c) % 2 = (((a + x * c) % 2) + y * c) % 2
<1>1. /\ x = 0 => x * c = 0 /\ (x + y) % 2 = y
      /\ x = 1 => x * c = c /\ (x + y) % 2 = 1 - y
      /\ y = 0 => y * c = 0
      /\ y = 1 => y * c = c
  OBVIOUS
<1>2. CASE x = 0 /\ y = 0  BY <1>1, <1>2
<1>3. CASE x = 0 /\ y = 1  BY <1>1, <1>3
<1>4. CASE x = 1 /\ y = 0  BY <1>1, <1>4
<1>5. CASE x = 1 /\ y = 1  BY <1>1, <1>5
<1>6. QED  BY <1>2, <1>3, <1>4, <1>5

\* Words are closed under addition bit by bit.
LEMMA WordsAre ==
  ASSUME NEW n \in Nat
  PROVE  /\ Zero(n) \in Words(n) /\ Ones(n) \in Words(n)
         /\ \A k : Unit(k, n) \in Words(n)
         /\ \A s, t \in Words(n) : Xor(s, t, n) \in Words(n)
         /\ \A s \in Words(n) : Xor(s, Zero(n), n) = s /\ Xor(s, s, n) = Zero(n)
<1>1. Zero(n) \in Words(n) /\ Ones(n) \in Words(n) /\ \A k : Unit(k, n) \in Words(n)
  BY DEF Zero, Ones, Unit, Words
<1>2. ASSUME NEW s \in Words(n), NEW t \in Words(n) PROVE Xor(s, t, n) \in Words(n)
  <2>1. \A i \in Indices(n) : s[i] \in {0, 1} /\ t[i] \in {0, 1}  BY DEF Words
  <2>2. \A i \in Indices(n) : (s[i] + t[i]) % 2 \in {0, 1}  BY <2>1
  <2>3. QED  BY <2>2 DEF Xor, Words
<1>3. ASSUME NEW s \in Words(n) PROVE Xor(s, Zero(n), n) = s /\ Xor(s, s, n) = Zero(n)
  <2>1. \A i \in Indices(n) : s[i] \in {0, 1}  BY DEF Words
  <2>2. \A i \in Indices(n) : (s[i] + 0) % 2 = s[i] /\ (s[i] + s[i]) % 2 = 0  BY <2>1
  <2>3. s = [i \in Indices(n) |-> s[i]]  BY DEF Words
  <2>4. QED  BY <2>2, <2>3 DEF Xor, Zero
<1>4. QED  BY <1>1, <1>2, <1>3

\* A shifted register is a register.
LEMMA ShiftsAre ==
  ASSUME NEW g, Generating(g), NEW s \in Words(g.len), NEW in \in {0, 1}
  PROVE  /\ g.len - 1 \in Indices(g.len) /\ s[g.len - 1] \in {0, 1}
         /\ syndromeShift(s, g, in) \in Words(g.len) /\ encoderShift(s, g, in) \in Words(g.len)
         /\ \A i \in Indices(g.len) : i # 0 => i - 1 \in Indices(g.len) /\ s[i - 1] \in {0, 1}
<1>1. g.len - 1 \in Indices(g.len)  BY DEF Generating, Indices
<1>2. s[g.len - 1] \in {0, 1}  BY <1>1 DEF Words
<1>3. ASSUME NEW i \in Indices(g.len), i # 0 PROVE i - 1 \in Indices(g.len) /\ s[i - 1] \in {0, 1}
  <2>1. i - 1 \in Indices(g.len)  BY <1>3 DEF Indices, Generating
  <2>2. QED  BY <2>1 DEF Words
<1>4. ASSUME NEW a \in {0, 1}, NEW x \in {0, 1} PROVE Shifted(s, g, a, x) \in Words(g.len)
  <2>1. ASSUME NEW i \in Indices(g.len)
        PROVE  ((IF i = 0 THEN a ELSE s[i - 1]) + x * g.coeff[i]) % 2 \in {0, 1}
    <3>1. PICK p, c : p = (IF i = 0 THEN a ELSE s[i - 1]) /\ c = g.coeff[i]  OBVIOUS
    <3>2. p \in {0, 1} /\ c \in {0, 1}  BY <1>3, <3>1 DEF Generating, Words
    <3>3. QED  BY <3>1, <3>2, BitSums
  <2>2. QED  BY <2>1 DEF Shifted, Words
<1>5. (s[g.len - 1] + in) % 2 \in {0, 1} /\ 0 \in {0, 1}  BY <1>2
<1>6. QED  BY <1>1, <1>2, <1>3, <1>4, <1>5 DEF syndromeShift, encoderShift

\* The register of two sums is the sum of the registers.
LEMMA ShiftIsLinear ==
  ASSUME NEW g, Generating(g), NEW s \in Words(g.len), NEW t \in Words(g.len),
         NEW a \in {0, 1}, NEW b \in {0, 1}
  PROVE  syndromeShift(Xor(s, t, g.len), g, (a + b) % 2)
           = Xor(syndromeShift(s, g, a), syndromeShift(t, g, b), g.len)
<1> DEFINE u == Xor(s, t, g.len)  top == g.len - 1
<1>1. top \in Indices(g.len) /\ s[top] \in {0, 1} /\ t[top] \in {0, 1}  BY ShiftsAre
<1>2. u[top] = (s[top] + t[top]) % 2  BY <1>1 DEF Xor
<1> HIDE DEF u
<1>3. PICK S, T, L : /\ S = syndromeShift(s, g, a) /\ T = syndromeShift(t, g, b)
                     /\ L = syndromeShift(u, g, (a + b) % 2)
  OBVIOUS
<1>4. L = [i \in Indices(g.len) |->
             ((IF i = 0 THEN (a + b) % 2 ELSE u[i - 1]) + u[top] * g.coeff[i]) % 2]
  BY <1>3 DEF syndromeShift, Shifted
<1>5. /\ S = [i \in Indices(g.len) |-> ((IF i = 0 THEN a ELSE s[i - 1]) + s[top] * g.coeff[i]) % 2]
      /\ T = [i \in Indices(g.len) |-> ((IF i = 0 THEN b ELSE t[i - 1]) + t[top] * g.coeff[i]) % 2]
  BY <1>3 DEF syndromeShift, Shifted
<1>7. ASSUME NEW i \in Indices(g.len) PROVE L[i] = (S[i] + T[i]) % 2
  <2>1. PICK p, q, c, x, y, d, e :
          /\ p = (IF i = 0 THEN a ELSE s[i - 1]) /\ q = (IF i = 0 THEN b ELSE t[i - 1])
          /\ c = g.coeff[i] /\ x = s[top] /\ y = t[top]
          /\ d = (IF i = 0 THEN (a + b) % 2 ELSE u[i - 1]) /\ e = u[top]
    OBVIOUS
  <2>2. /\ i # 0 => i - 1 \in Indices(g.len) /\ s[i - 1] \in {0, 1} /\ t[i - 1] \in {0, 1}
        /\ c \in {0, 1} /\ x \in {0, 1} /\ y \in {0, 1}
    BY <1>1, <2>1, ShiftsAre DEF Generating, Words
  <2>3. p \in {0, 1} /\ q \in {0, 1}  BY <2>1, <2>2
  <2>4. d = (p + q) % 2 /\ e = (x + y) % 2
    BY <1>2, <2>1, <2>2 DEF Xor, u
  <2>5. (((p + q) % 2) + ((x + y) % 2) * c) % 2 = (((p + x * c) % 2) + ((q + y * c) % 2)) % 2
    BY <2>2, <2>3, BitSums
  <2> HIDE DEF top
  <2>6. L[i] = (d + e * c) % 2
    <3>1. PICK in : in = (a + b) % 2  OBVIOUS
    <3>2. L = [j \in Indices(g.len) |->
                 ((IF j = 0 THEN in ELSE u[j - 1]) + u[top] * g.coeff[j]) % 2]
      BY <1>4, <3>1, Zenon
    <3>3. d = IF i = 0 THEN in ELSE u[i - 1]  BY <2>1, <3>1, Zenon
    <3>4. QED  BY <2>1, <3>2, <3>3, Zenon
  <2>7. S[i] = (p + x * c) % 2  BY <1>5, <2>1, Zenon
  <2>8. T[i] = (q + y * c) % 2  BY <1>5, <2>1, Zenon
  <2>9. (d + e * c) % 2 = (((p + q) % 2) + ((x + y) % 2) * c) % 2  BY <2>4, Zenon
  <2>10. (S[i] + T[i]) % 2 = (((p + x * c) % 2) + ((q + y * c) % 2)) % 2  BY <2>7, <2>8, Zenon
  <2>11. QED  BY <2>5, <2>6, <2>9, <2>10, Zenon
<1>8. L = [i \in Indices(g.len) |-> L[i]]  BY <1>4, Zenon
<1>9. L = Xor(S, T, g.len)  BY <1>7, <1>8 DEF Xor
<1>10. QED  BY <1>3, <1>9 DEF u

\* Turning the register without input, and what one bit in it becomes.
LEMMA TurnedIs ==
  ASSUME NEW g, Generating(g)
  PROVE  /\ Turned(Zero(g.len), g) = Zero(g.len)
         /\ \A k \in Nat : k + 1 < g.len => Turned(Unit(k, g.len), g) = Unit(k + 1, g.len)
         /\ Turned(Unit(g.len - 1, g.len), g) = g.coeff
         /\ \A s \in Words(g.len) : Turned(s, g) \in Words(g.len)
         /\ syndromeShift(Zero(g.len), g, 1) = Unit(0, g.len)
<1> DEFINE len == g.len  c == g.coeff
<1>1. len \in Nat /\ len - 1 \in Indices(len) /\ \A i \in Indices(len) : c[i] \in {0, 1}
  BY DEF Generating, Indices, Words
<1>2. \A s, in : syndromeShift(s, g, in)
              = [i \in Indices(len) |-> ((IF i = 0 THEN in ELSE s[i - 1]) + s[len - 1] * c[i]) % 2]
  BY DEF syndromeShift, Shifted
<1>3. \A i \in Indices(len) : i \in Int /\ (i # 0 => i - 1 \in Indices(len))  BY <1>1 DEF Indices
<1>4. c = [i \in Indices(len) |-> c[i]]  BY DEF Generating, Words
<1>a. Generating(g)  OBVIOUS
<1>5. \A s \in Words(len) : Turned(s, g) \in Words(len)
  <2>1. 0 \in {0, 1}  OBVIOUS
  <2>2. QED  BY <1>a, <2>1, ShiftsAre DEF Turned
<1> HIDE DEF len, c
<1>6. ASSUME NEW in \in {0, 1}
      PROVE  syndromeShift(Zero(len), g, in) = [i \in Indices(len) |-> IF i = 0 THEN in ELSE 0]
  <2>1. ASSUME NEW i \in Indices(len)
        PROVE  ((IF i = 0 THEN in ELSE Zero(len)[i - 1]) + Zero(len)[len - 1] * c[i]) % 2
                 = IF i = 0 THEN in ELSE 0
    BY <1>1, <1>3 DEF Zero
  <2>2. QED  BY <1>2, <2>1
<1>7. Turned(Zero(len), g) = Zero(len)
  <2>1. [i \in Indices(len) |-> IF i = 0 THEN 0 ELSE 0] = Zero(len)  BY DEF Zero
  <2>2. QED  BY <1>6, <2>1 DEF Turned
<1>8. syndromeShift(Zero(len), g, 1) = Unit(0, len)  BY <1>6 DEF Unit
<1>9. ASSUME NEW k \in Nat, k + 1 < len PROVE Turned(Unit(k, len), g) = Unit(k + 1, len)
  <2>1. ASSUME NEW i \in Indices(len)
        PROVE  ((IF i = 0 THEN 0 ELSE Unit(k, len)[i - 1]) + Unit(k, len)[len - 1] * c[i]) % 2
                 = IF i = k + 1 THEN 1 ELSE 0
    <3>1. Unit(k, len)[len - 1] = 0  BY <1>1, <1>9 DEF Unit
    <3>2. i # 0 => Unit(k, len)[i - 1] = IF i = k + 1 THEN 1 ELSE 0  BY <1>3 DEF Unit
    <3>3. QED  BY <1>1, <3>1, <3>2
  <2>2. Turned(Unit(k, len), g) = [i \in Indices(len) |-> IF i = k + 1 THEN 1 ELSE 0]
    <3>1. PICK u : u = Unit(k, len)  OBVIOUS
    <3>2. syndromeShift(u, g, 0)
            = [i \in Indices(len) |-> ((IF i = 0 THEN 0 ELSE u[i - 1]) + u[len - 1] * c[i]) % 2]
      BY <1>2
    <3>3. QED  BY <2>1, <3>1, <3>2 DEF Turned
  <2>3. QED  BY <2>2 DEF Unit
<1>10. Turned(Unit(len - 1, len), g) = c
  <2>1. ASSUME NEW i \in Indices(len)
        PROVE  ((IF i = 0 THEN 0 ELSE Unit(len - 1, len)[i - 1])
                  + Unit(len - 1, len)[len - 1] * c[i]) % 2 = c[i]
    <3>1. Unit(len - 1, len)[len - 1] = 1  BY <1>1 DEF Unit
    <3>2. i # 0 => Unit(len - 1, len)[i - 1] = 0
      <4>1. i # 0 => i - 1 # len - 1  BY <1>1 DEF Indices
      <4>2. QED  BY <1>3, <4>1 DEF Unit
    <3>3. QED  BY <1>1, <3>1, <3>2
  <2>2. QED  BY <1>2, <1>4, <2>1 DEF Turned
<1>11. QED  BY <1>5, <1>7, <1>8, <1>9, <1>10 DEF len, c

-----------------------------------------------------------------------------
(* The register over a whole word.                                          *)

\* The register after every bit of a word: for the syndrome, for the parity,
\* and turned without input.
Syndromes(f, g, v, n) ==
  /\ f \in [0 .. n -> Words(g.len)] /\ f[0] = Zero(g.len)
  /\ \A m \in 0 .. n - 1 : f[m + 1] = syndromeShift(f[m], g, v[m])

Encodings(f, g, v, n) ==
  /\ f \in [0 .. n -> Words(g.len)] /\ f[0] = Zero(g.len)
  /\ \A m \in 0 .. n - 1 : f[m + 1] = encoderShift(f[m], g, v[m])

Turnings(f, g, s) ==
  f \in [Nat -> Words(g.len)] /\ f[0] = s /\ \A k \in Nat : f[k + 1] = Turned(f[k], g)

\* A register can be turned for ever.
LEMMA TurningsExist ==
  ASSUME NEW g, Generating(g), NEW s \in Words(g.len) PROVE \E f : Turnings(f, g, s)
<1> DEFINE step == [k \in Nat |-> [x \in Words(g.len) |-> Turned(x, g)]]
<1>1. step \in [Nat -> [Words(g.len) -> Words(g.len)]]
  <2>1. \A x \in Words(g.len) : Turned(x, g) \in Words(g.len)  BY TurnedIs
  <2>2. QED  BY <2>1
<1>2. PICK S, z, st : S = Words(g.len) /\ z = s /\ st = step  OBVIOUS
<1>3. z \in S /\ st \in [Nat -> [S -> S]]  BY <1>1, <1>2
<1>4. PICK f : RunsOn(f, S, z, st)  BY <1>3, RecursionExists
<1>5. f \in [Nat -> Words(g.len)] /\ f[0] = s  BY <1>2, <1>4 DEF RunsOn
<1>6. ASSUME NEW k \in Nat PROVE f[k + 1] = Turned(f[k], g)
  <2>1. f[k + 1] = st[k][f[k]] /\ f[k] \in Words(g.len)  BY <1>4, <1>5 DEF RunsOn
  <2>2. step[k][f[k]] = Turned(f[k], g)  BY <2>1
  <2>3. QED  BY <1>2, <2>1, <2>2
<1>7. QED  BY <1>5, <1>6 DEF Turnings

\* What is given by its first value and its steps is such a sequence.
LEMMA StepsAreRuns ==
  ASSUME NEW S, NEW s0 \in S, NEW step \in [Nat -> [S -> S]], NEW n \in Nat, NEW f,
         f = [m \in 0 .. n |-> f[m]], f[0] = s0,
         \A m \in 0 .. n - 1 : f[m] \in S => f[m + 1] = step[m][f[m]]
  PROVE  Runs(f, n, S, s0, step)
<1> DEFINE I == {m \in Nat : m <= n => f[m] \in S}
<1>1. 0 \in I  OBVIOUS
<1>2. ASSUME NEW m \in Nat, m \in I PROVE m + 1 \in I
  <2>1. CASE m + 1 <= n
    <3>1. m \in 0 .. n - 1 /\ m <= n  BY <2>1
    <3>2. f[m] \in S  BY <1>2, <3>1
    <3>3. f[m + 1] = step[m][f[m]]  BY <3>1, <3>2
    <3>4. step[m][f[m]] \in S  BY <3>2
    <3>5. QED  BY <3>3, <3>4
  <2>2. QED  BY <2>1
<1>3. \A m \in Nat : m \in I
  <2> HIDE DEF I
  <2>1. QED  BY <1>1, <1>2, Induction
<1>4. \A m \in 0 .. n : f[m] \in S  BY <1>3
<1>5. f \in [0 .. n -> S]  BY <1>4
<1>6. ASSUME NEW m \in 0 .. n - 1 PROVE f[m + 1] = step[m][f[m]]
  <2>1. m \in 0 .. n  OBVIOUS
  <2>2. f[m] \in S  BY <1>4, <2>1
  <2>3. QED  BY <2>2
<1>7. QED  BY <1>5, <1>6 DEF Runs

\* syndrome() is the end of such a sequence.
LEMMA SyndromeRuns ==
  ASSUME NEW g, Generating(g), NEW n \in Nat, NEW v \in Words(n)
  PROVE  \E f : Syndromes(f, g, v, n) /\ Through(v, g, syndromeShift) = f[n]
<1> DEFINE W == Words(g.len)
           b(m) == IF m < n THEN v[m] ELSE 0
           step == [m \in Nat |-> [x \in W |-> syndromeShift(x, g, b(m))]]
           after == CHOOSE h : h = [m \in 0 .. Size(v) |->
                      IF m = 0 THEN [i \in Indices(g.len) |-> 0]
                      ELSE syndromeShift(h[m - 1], g, bit(v, m - 1))]
<1>1. Size(v) = n
  <2>1. DOMAIN v = Indices(n)  BY DEF Words
  <2>2. QED  BY <2>1, SizeIs
<1>2. \A m \in Nat : b(m) \in {0, 1} /\ (m \in 0 .. n - 1 => b(m) = bit(v, m) /\ b(m) = v[m])
  <2>1. TAKE m \in Nat
  <2>2. CASE m < n
    <3>1. m \in Indices(n)  BY <2>2 DEF Indices
    <3>2. v[m] \in {0, 1}  BY <3>1 DEF Words
    <3>3. QED  BY <2>2, <3>2 DEF bit
  <2>3. QED  BY <2>2
<1> HIDE DEF b
<1>3. Zero(g.len) \in W /\ Zero(g.len) = [i \in Indices(g.len) |-> 0]
  BY WordsAre DEF Generating, Zero
<1>4. step \in [Nat -> [W -> W]] /\ \A m \in Nat, x \in W : step[m][x] = syndromeShift(x, g, b(m))
  <2>1. \A m \in Nat, x \in W : syndromeShift(x, g, b(m)) \in W  BY <1>2, ShiftsAre
  <2>2. QED  BY <2>1
<1> HIDE DEF W, step
<1>5. PICK f : Runs(f, n, W, Zero(g.len), step)  BY <1>3, <1>4, RunsExist
<1>6. f = [m \in 0 .. n |-> IF m = 0 THEN [i \in Indices(g.len) |-> 0]
                            ELSE syndromeShift(f[m - 1], g, bit(v, m - 1))]
  <2>1. ASSUME NEW m \in 0 .. n
        PROVE  f[m] = IF m = 0 THEN [i \in Indices(g.len) |-> 0]
                      ELSE syndromeShift(f[m - 1], g, bit(v, m - 1))
    <3>1. CASE m # 0
      <4>1. PICK k \in 0 .. n - 1 : k = m - 1 /\ m = k + 1 /\ k \in Nat /\ k \in 0 .. n
        BY <3>1
      <4>2. f[k + 1] = step[k][f[k]] /\ f[k] \in W  BY <1>5, <4>1 DEF Runs
      <4>3. f[m] = syndromeShift(f[k], g, b(k))  BY <1>4, <4>1, <4>2
      <4>4. b(k) = bit(v, k)  BY <1>2, <4>1
      <4>5. QED  BY <3>1, <4>1, <4>3, <4>4
    <3>2. QED  BY <1>3, <1>5, <3>1 DEF Runs
  <2>2. f = [m \in 0 .. n |-> f[m]]  BY <1>5 DEF Runs
  <2>3. QED  BY <2>1, <2>2
<1>7. after = [m \in 0 .. n |-> IF m = 0 THEN [i \in Indices(g.len) |-> 0]
                                ELSE syndromeShift(after[m - 1], g, bit(v, m - 1))]
  BY <1>1, <1>6, Zenon
<1>8. Through(v, g, syndromeShift) = after[n]  BY <1>1, Zenon DEF Through
<1> HIDE DEF after
<1>9. after[0] = Zero(g.len)  BY <1>3, <1>7
<1>10. ASSUME NEW m \in 0 .. n - 1 PROVE after[m + 1] = syndromeShift(after[m], g, b(m))
  <2>1. m + 1 \in 0 .. n /\ m + 1 # 0 /\ (m + 1) - 1 = m /\ m \in Nat  OBVIOUS
  <2>2. after[m + 1] = syndromeShift(after[(m + 1) - 1], g, bit(v, (m + 1) - 1))
    BY <1>7, <2>1
  <2>3. QED  BY <1>2, <2>1, <2>2
<1>11. Runs(after, n, W, Zero(g.len), step)
  <2>1. after = [m \in 0 .. n |-> after[m]]  BY <1>7
  <2>2. ASSUME NEW m \in 0 .. n - 1, after[m] \in W PROVE after[m + 1] = step[m][after[m]]
    BY <1>4, <1>10, <2>2
  <2>3. QED  BY <1>3, <1>4, <1>9, <2>1, <2>2, StepsAreRuns
<1>12. Syndromes(after, g, v, n)
  <2>1. after \in [0 .. n -> W]  BY <1>11 DEF Runs
  <2>2. \A m \in 0 .. n - 1 : after[m + 1] = syndromeShift(after[m], g, v[m])
    BY <1>2, <1>10
  <2>3. QED  BY <1>9, <2>1, <2>2 DEF Syndromes, W
<1>13. QED  BY <1>8, <1>12

\* And so is parity().
LEMMA EncoderRuns ==
  ASSUME NEW g, Generating(g), NEW n \in Nat, NEW v \in Words(n)
  PROVE  \E f : Encodings(f, g, v, n) /\ Through(v, g, encoderShift) = f[n]
<1> DEFINE W == Words(g.len)
           b(m) == IF m < n THEN v[m] ELSE 0
           step == [m \in Nat |-> [x \in W |-> encoderShift(x, g, b(m))]]
           after == CHOOSE h : h = [m \in 0 .. Size(v) |->
                      IF m = 0 THEN [i \in Indices(g.len) |-> 0]
                      ELSE encoderShift(h[m - 1], g, bit(v, m - 1))]
<1>1. Size(v) = n
  <2>1. DOMAIN v = Indices(n)  BY DEF Words
  <2>2. QED  BY <2>1, SizeIs
<1>2. \A m \in Nat : b(m) \in {0, 1} /\ (m \in 0 .. n - 1 => b(m) = bit(v, m) /\ b(m) = v[m])
  <2>1. TAKE m \in Nat
  <2>2. CASE m < n
    <3>1. m \in Indices(n)  BY <2>2 DEF Indices
    <3>2. v[m] \in {0, 1}  BY <3>1 DEF Words
    <3>3. QED  BY <2>2, <3>2 DEF bit
  <2>3. QED  BY <2>2
<1> HIDE DEF b
<1>3. Zero(g.len) \in W /\ Zero(g.len) = [i \in Indices(g.len) |-> 0]
  BY WordsAre DEF Generating, Zero
<1>4. step \in [Nat -> [W -> W]] /\ \A m \in Nat, x \in W : step[m][x] = encoderShift(x, g, b(m))
  <2>1. \A m \in Nat, x \in W : encoderShift(x, g, b(m)) \in W  BY <1>2, ShiftsAre
  <2>2. QED  BY <2>1
<1> HIDE DEF W, step
<1>5. PICK f : Runs(f, n, W, Zero(g.len), step)  BY <1>3, <1>4, RunsExist
<1>6. f = [m \in 0 .. n |-> IF m = 0 THEN [i \in Indices(g.len) |-> 0]
                            ELSE encoderShift(f[m - 1], g, bit(v, m - 1))]
  <2>1. ASSUME NEW m \in 0 .. n
        PROVE  f[m] = IF m = 0 THEN [i \in Indices(g.len) |-> 0]
                      ELSE encoderShift(f[m - 1], g, bit(v, m - 1))
    <3>1. CASE m # 0
      <4>1. PICK k \in 0 .. n - 1 : k = m - 1 /\ m = k + 1 /\ k \in Nat /\ k \in 0 .. n
        BY <3>1
      <4>2. f[k + 1] = step[k][f[k]] /\ f[k] \in W  BY <1>5, <4>1 DEF Runs
      <4>3. f[m] = encoderShift(f[k], g, b(k))  BY <1>4, <4>1, <4>2
      <4>4. b(k) = bit(v, k)  BY <1>2, <4>1
      <4>5. QED  BY <3>1, <4>1, <4>3, <4>4
    <3>2. QED  BY <1>3, <1>5, <3>1 DEF Runs
  <2>2. f = [m \in 0 .. n |-> f[m]]  BY <1>5 DEF Runs
  <2>3. QED  BY <2>1, <2>2
<1>7. after = [m \in 0 .. n |-> IF m = 0 THEN [i \in Indices(g.len) |-> 0]
                                ELSE encoderShift(after[m - 1], g, bit(v, m - 1))]
  BY <1>1, <1>6, Zenon
<1>8. Through(v, g, encoderShift) = after[n]  BY <1>1, Zenon DEF Through
<1> HIDE DEF after
<1>9. after[0] = Zero(g.len)  BY <1>3, <1>7
<1>10. ASSUME NEW m \in 0 .. n - 1 PROVE after[m + 1] = encoderShift(after[m], g, b(m))
  <2>1. m + 1 \in 0 .. n /\ m + 1 # 0 /\ (m + 1) - 1 = m /\ m \in Nat  OBVIOUS
  <2>2. after[m + 1] = encoderShift(after[(m + 1) - 1], g, bit(v, (m + 1) - 1))
    BY <1>7, <2>1
  <2>3. QED  BY <1>2, <2>1, <2>2
<1>11. Runs(after, n, W, Zero(g.len), step)
  <2>1. after = [m \in 0 .. n |-> after[m]]  BY <1>7
  <2>2. ASSUME NEW m \in 0 .. n - 1, after[m] \in W PROVE after[m + 1] = step[m][after[m]]
    BY <1>4, <1>10, <2>2
  <2>3. QED  BY <1>3, <1>4, <1>9, <2>1, <2>2, StepsAreRuns
<1>12. Encodings(after, g, v, n)
  <2>1. after \in [0 .. n -> W]  BY <1>11 DEF Runs
  <2>2. \A m \in 0 .. n - 1 : after[m + 1] = encoderShift(after[m], g, v[m])
    BY <1>2, <1>10
  <2>3. QED  BY <1>9, <2>1, <2>2 DEF Encodings, W
<1>13. QED  BY <1>8, <1>12

\* A sequence of turns without its first is a sequence of turns.
LEMMA TurningsGoOn ==
  ASSUME NEW g, Generating(g), NEW s \in Words(g.len), NEW f, Turnings(f, g, s)
  PROVE  \E h : Turnings(h, g, Turned(s, g)) /\ \A k \in Nat : h[k] = f[k + 1]
<1> DEFINE h == [k \in Nat |-> f[k + 1]]
<1>1. h \in [Nat -> Words(g.len)] /\ \A k \in Nat : h[k] = f[k + 1]
  BY DEF Turnings
<1>2. h[0] = Turned(s, g)  BY <1>1 DEF Turnings
<1>3. ASSUME NEW k \in Nat PROVE h[k + 1] = Turned(h[k], g)
  <2>1. k + 1 \in Nat  OBVIOUS
  <2>2. f[(k + 1) + 1] = Turned(f[k + 1], g)  BY <2>1 DEF Turnings
  <2>3. QED  BY <1>1, <2>1, <2>2
<1>4. Turnings(h, g, Turned(s, g))
  <2> HIDE DEF h
  <2>1. QED  BY <1>1, <1>2, <1>3 DEF Turnings
<1>5. QED  BY <1>1, <1>4

\* Turning is linear over any number of turns.
LEMMA TurningsAdd ==
  ASSUME NEW g, Generating(g), NEW s \in Words(g.len), NEW t \in Words(g.len),
         NEW p, Turnings(p, g, s), NEW q, Turnings(q, g, t),
         NEW f, Turnings(f, g, Xor(s, t, g.len))
  PROVE  \A k \in Nat : f[k] = Xor(p[k], q[k], g.len)
<1> DEFINE I == {k \in Nat : f[k] = Xor(p[k], q[k], g.len)}
<1>1. 0 \in I  BY DEF Turnings
<1>2. ASSUME NEW k \in Nat, k \in I PROVE k + 1 \in I
  <2>1. p[k] \in Words(g.len) /\ q[k] \in Words(g.len) /\ f[k] = Xor(p[k], q[k], g.len)
    BY <1>2 DEF Turnings
  <2>2. /\ f[k + 1] = syndromeShift(f[k], g, 0)
        /\ p[k + 1] = syndromeShift(p[k], g, 0) /\ q[k + 1] = syndromeShift(q[k], g, 0)
    BY DEF Turnings, Turned
  <2>3. PICK x \in Words(g.len), y \in Words(g.len), a \in {0, 1} :
          x = p[k] /\ y = q[k] /\ a = 0 /\ (a + a) % 2 = 0
    BY <2>1
  <2>4. syndromeShift(Xor(x, y, g.len), g, (a + a) % 2)
          = Xor(syndromeShift(x, g, a), syndromeShift(y, g, a), g.len)
    BY ShiftIsLinear
  <2>5. f[k + 1] = Xor(p[k + 1], q[k + 1], g.len)  BY <2>1, <2>2, <2>3, <2>4
  <2>6. QED  BY <2>5
<1>3. \A k \in Nat : k \in I
  <2> HIDE DEF I
  <2>1. QED  BY <1>1, <1>2, Induction
<1>4. QED  BY <1>3

\* Where zero and a single bit end up after as many turns as the parity is long.
LEMMA WhereTurnsEnd ==
  ASSUME NEW g, Generating(g)
  PROVE  /\ \A f : Turnings(f, g, Zero(g.len)) => \A k \in Nat : f[k] = Zero(g.len)
         /\ \A f : Turnings(f, g, Unit(0, g.len)) => f[g.len] = g.coeff
<1>1. ASSUME NEW f, Turnings(f, g, Zero(g.len)) PROVE \A k \in Nat : f[k] = Zero(g.len)
  <2> DEFINE I == {k \in Nat : f[k] = Zero(g.len)}
  <2>1. 0 \in I  BY <1>1 DEF Turnings
  <2>2. ASSUME NEW k \in Nat, k \in I PROVE k + 1 \in I
    BY <1>1, <2>2, TurnedIs DEF Turnings
  <2>3. \A k \in Nat : k \in I
    <3> HIDE DEF I
    <3>1. QED  BY <2>1, <2>2, Induction
  <2>4. QED  BY <2>3
<1>2. ASSUME NEW f, Turnings(f, g, Unit(0, g.len)) PROVE f[g.len] = g.coeff
  <2> DEFINE I == {k \in Nat : k < g.len => f[k] = Unit(k, g.len)}
  <2>1. 0 \in I  BY <1>2 DEF Turnings
  <2>2. ASSUME NEW k \in Nat, k \in I PROVE k + 1 \in I
    <3>1. CASE k + 1 < g.len
      <4>1. k < g.len  BY <3>1 DEF Generating
      <4>2. f[k + 1] = Turned(Unit(k, g.len), g)  BY <1>2, <2>2, <4>1 DEF Turnings
      <4>3. f[k + 1] = Unit(k + 1, g.len)  BY <3>1, <4>2, TurnedIs
      <4>4. QED  BY <4>3
    <3>2. QED  BY <3>1
  <2>3. \A k \in Nat : k \in I
    <3> HIDE DEF I
    <3>1. QED  BY <2>1, <2>2, Induction
  <2>4. PICK k \in Nat : k = g.len - 1 /\ k + 1 = g.len /\ k < g.len  BY DEF Generating
  <2>5. f[k] = Unit(k, g.len)  BY <2>3, <2>4
  <2>6. f[k + 1] = Turned(Unit(k, g.len), g)  BY <1>2, <2>5 DEF Turnings
  <2>7. QED  BY <2>4, <2>6, TurnedIs
<1>3. QED  BY <1>1, <1>2

-----------------------------------------------------------------------------
(* What the encoder computes and what the syndrome register makes of it.    *)

\* What one bit is worth that comes in at the front, and at the feedback.
Front(b, g) == syndromeShift(Zero(g.len), g, b)
Fed(b, g) == IF b = 1 THEN g.coeff ELSE Zero(g.len)

\* A bit at the front is one bit of the register.
LEMMA FrontIs ==
  ASSUME NEW g, Generating(g), NEW b \in {0, 1}
  PROVE  /\ Front(b, g) = IF b = 1 THEN Unit(0, g.len) ELSE Zero(g.len)
         /\ Front(b, g) \in Words(g.len) /\ Fed(b, g) \in Words(g.len)
<1>1. CASE b = 1  BY <1>1, TurnedIs, WordsAre DEF Front, Fed, Generating
<1>2. CASE b = 0  BY <1>2, TurnedIs, WordsAre DEF Front, Fed, Turned, Generating
<1>3. QED  BY <1>1, <1>2

\* syndromeShift turns the register and adds the bit at the front.
LEMMA SyndromeStep ==
  ASSUME NEW g, Generating(g), NEW s \in Words(g.len), NEW b \in {0, 1}
  PROVE  syndromeShift(s, g, b) = Xor(Turned(s, g), Front(b, g), g.len)
<1>1. PICK z \in Words(g.len), a \in {0, 1} :
        z = Zero(g.len) /\ Xor(s, z, g.len) = s /\ a = 0 /\ (a + b) % 2 = b
  BY WordsAre DEF Generating
<1>2. syndromeShift(Xor(s, z, g.len), g, (a + b) % 2)
        = Xor(syndromeShift(s, g, a), syndromeShift(z, g, b), g.len)
  BY ShiftIsLinear
<1>3. QED  BY <1>1, <1>2 DEF Turned, Front

\* encoderShift turns the register and adds the bit to what is fed back.
LEMMA EncoderStep ==
  ASSUME NEW g, Generating(g), NEW s \in Words(g.len), NEW b \in {0, 1}
  PROVE  encoderShift(s, g, b) = Xor(Turned(s, g), Fed(b, g), g.len)
<1> DEFINE top == g.len - 1
<1>1. PICK T, F, E : T = Turned(s, g) /\ F = Fed(b, g) /\ E = encoderShift(s, g, b)  OBVIOUS
<1>2. T = [i \in Indices(g.len) |-> ((IF i = 0 THEN 0 ELSE s[i - 1]) + s[top] * g.coeff[i]) % 2]
  BY <1>1 DEF Turned, syndromeShift, Shifted
<1>3. E = [i \in Indices(g.len) |->
             ((IF i = 0 THEN 0 ELSE s[i - 1]) + ((s[top] + b) % 2) * g.coeff[i]) % 2]
  BY <1>1 DEF encoderShift, Shifted
<1>4. ASSUME NEW i \in Indices(g.len) PROVE E[i] = (T[i] + F[i]) % 2
  <2>1. PICK p, c, x :
          p = (IF i = 0 THEN 0 ELSE s[i - 1]) /\ c = g.coeff[i] /\ x = s[top]
    OBVIOUS
  <2>2. p \in {0, 1} /\ c \in {0, 1} /\ x \in {0, 1}
    <3>1. b \in {0, 1}  OBVIOUS
    <3>2. x \in {0, 1} /\ (i # 0 => s[i - 1] \in {0, 1})  BY <2>1, <3>1, ShiftsAre
    <3>3. QED  BY <2>1, <3>2 DEF Generating, Words
  <2>3. (p + ((x + b) % 2) * c) % 2 = (((p + x * c) % 2) + b * c) % 2  BY <2>2, BitSums
  <2>4. F[i] = b * c
    <3>1. CASE b = 1  BY <1>1, <2>1, <2>2, <3>1 DEF Fed
    <3>2. CASE b = 0  BY <1>1, <2>1, <2>2, <3>2 DEF Fed, Zero
    <3>3. QED  BY <3>1, <3>2
  <2> HIDE DEF top
  <2>5. E[i] = (p + ((x + b) % 2) * c) % 2  BY <1>3, <2>1, Zenon
  <2>6. T[i] = (p + x * c) % 2  BY <1>2, <2>1, Zenon
  <2>7. (T[i] + F[i]) % 2 = (((p + x * c) % 2) + b * c) % 2  BY <2>4, <2>6, Zenon
  <2>8. QED  BY <2>3, <2>5, <2>7, Zenon
<1>5. E = [i \in Indices(g.len) |-> E[i]]  BY <1>3, Zenon
<1>6. E = Xor(T, F, g.len)  BY <1>4, <1>5 DEF Xor
<1>7. QED  BY <1>1, <1>6

\* The encoder is the syndrome register turned by the length of the parity.
LEMMA EncodedIsTurned ==
  ASSUME NEW g, Generating(g), NEW n \in Nat, NEW v \in Words(n),
         NEW S, Syndromes(S, g, v, n), NEW E, Encodings(E, g, v, n)
  PROVE  \A f : Turnings(f, g, S[n]) => f[g.len] = E[n]
<1> DEFINE Right(m) == \A f : Turnings(f, g, S[m]) => f[g.len] = E[m]
           I == {m \in Nat : m <= n => Right(m)}
<1>0. g.len \in Nat  BY DEF Generating
<1>1. 0 \in I
  <2>1. S[0] = Zero(g.len) /\ E[0] = Zero(g.len)  BY DEF Syndromes, Encodings
  <2>2. Right(0)  BY <1>0, <2>1, WhereTurnsEnd
  <2>3. QED  BY <2>2
<1>2. ASSUME NEW m \in Nat, Right(m), m + 1 <= n PROVE Right(m + 1)
  <2>1. m \in 0 .. n - 1 /\ m \in 0 .. n /\ m \in Indices(n)  BY <1>2 DEF Indices
  <2>2. PICK s \in Words(g.len), e \in Words(g.len), b \in {0, 1} :
          s = S[m] /\ e = E[m] /\ b = v[m]
    BY <2>1 DEF Syndromes, Encodings, Words
  <2>3. S[m + 1] = Xor(Turned(s, g), Front(b, g), g.len)
    <3>1. S[m + 1] = syndromeShift(S[m], g, v[m])  BY <2>1 DEF Syndromes
    <3>2. QED  BY <2>2, <3>1, SyndromeStep
  <2>4. E[m + 1] = Xor(Turned(e, g), Fed(b, g), g.len)
    <3>1. E[m + 1] = encoderShift(E[m], g, v[m])  BY <2>1 DEF Encodings
    <3>2. QED  BY <2>2, <3>1, EncoderStep
  <2>5. Turned(s, g) \in Words(g.len) /\ Front(b, g) \in Words(g.len)  BY TurnedIs, FrontIs
  <2>6. PICK p : Turnings(p, g, s)  BY TurningsExist
  <2>7. p[g.len] = e  BY <1>2, <2>2, <2>6
  <2>8. PICK h : Turnings(h, g, Turned(s, g)) /\ \A k \in Nat : h[k] = p[k + 1]
    BY <2>6, TurningsGoOn
  <2>9. h[g.len] = Turned(e, g)
    <3>1. h[g.len] = p[g.len + 1]  BY <1>0, <2>8
    <3>2. p[g.len + 1] = Turned(p[g.len], g)  BY <1>0, <2>6 DEF Turnings
    <3>3. QED  BY <2>7, <3>1, <3>2
  <2>10. PICK q : Turnings(q, g, Front(b, g))  BY <2>5, TurningsExist
  <2>11. q[g.len] = Fed(b, g)
    <3>1. CASE b = 1  BY <2>10, <3>1, FrontIs, WhereTurnsEnd DEF Fed
    <3>2. CASE b = 0  BY <1>0, <2>10, <3>2, FrontIs, WhereTurnsEnd DEF Fed
    <3>3. QED  BY <3>1, <3>2
  <2>12. ASSUME NEW f, Turnings(f, g, S[m + 1]) PROVE f[g.len] = E[m + 1]
    <3>1. Turnings(f, g, Xor(Turned(s, g), Front(b, g), g.len))  BY <2>3, <2>12
    <3>2. PICK x \in Words(g.len), y \in Words(g.len) : x = Turned(s, g) /\ y = Front(b, g)
      BY <2>5
    <3>a. Turnings(h, g, x) /\ Turnings(q, g, y) /\ Turnings(f, g, Xor(x, y, g.len))
      BY <2>8, <2>10, <3>1, <3>2
    <3>b. \A k \in Nat : f[k] = Xor(h[k], q[k], g.len)  BY <3>a, TurningsAdd
    <3>c. f[g.len] = Xor(h[g.len], q[g.len], g.len)  BY <1>0, <3>b
    <3>3. QED  BY <2>4, <2>9, <2>11, <3>c
  <2>13. QED  BY <2>12
<1>3. ASSUME NEW m \in Nat, m \in I PROVE m + 1 \in I
  <2> HIDE DEF Right
  <2>1. QED  BY <1>2, <1>3
<1>4. \A m \in Nat : m \in I
  <2> HIDE DEF I
  <2>1. QED  BY <1>1, <1>3, Induction
<1>5. QED  BY <1>4

\* The last bits that came in, as they stand in a register without feedback.
Tail(w, n, k, len) == [i \in Indices(len) |-> IF i < k THEN w[n + k - 1 - i] ELSE 0]

\* As long as the parity is not through, nothing is fed back.
LEMMA TailShifts ==
  ASSUME NEW g, Generating(g), NEW n \in Nat, NEW w \in Words(n + g.len),
         NEW k \in Nat, k < g.len
  PROVE  /\ Tail(w, n, k, g.len) \in Words(g.len) /\ w[n + k] \in {0, 1}
         /\ syndromeShift(Tail(w, n, k, g.len), g, w[n + k]) = Tail(w, n, k + 1, g.len)
<1> DEFINE top == g.len - 1
<1>1. PICK t, b : t = Tail(w, n, k, g.len) /\ b = w[n + k]  OBVIOUS
<1>2. b \in {0, 1}
  <2>1. n + k \in Indices(n + g.len)  BY DEF Indices, Generating
  <2>2. QED  BY <1>1, <2>1 DEF Words
<1>3. t \in Words(g.len)
  <2>1. ASSUME NEW i \in Indices(g.len), i < k PROVE w[n + k - 1 - i] \in {0, 1}
    <3>1. n + k - 1 - i \in Indices(n + g.len)  BY <2>1 DEF Indices, Generating
    <3>2. QED  BY <3>1 DEF Words
  <2>2. QED  BY <1>1, <2>1 DEF Tail, Words
<1>4. t[top] = 0 /\ top \in Indices(g.len)
  <2>1. top \in Indices(g.len) /\ ~(top < k)  BY DEF Indices, Generating
  <2>2. QED  BY <1>1, <2>1 DEF Tail
<1>5. syndromeShift(t, g, b)
        = [i \in Indices(g.len) |-> ((IF i = 0 THEN b ELSE t[i - 1]) + t[top] * g.coeff[i]) % 2]
  BY DEF syndromeShift, Shifted
<1> HIDE DEF top
<1>6. ASSUME NEW i \in Indices(g.len)
      PROVE  ((IF i = 0 THEN b ELSE t[i - 1]) + t[top] * g.coeff[i]) % 2
               = IF i < k + 1 THEN w[n + (k + 1) - 1 - i] ELSE 0
  <2>1. PICK d, c : d = (IF i = 0 THEN b ELSE t[i - 1]) /\ c = g.coeff[i]  OBVIOUS
  <2>2. d \in {0, 1} /\ c \in {0, 1}
    <3>1. i # 0 => t[i - 1] \in {0, 1}  BY <1>2, <1>3, ShiftsAre
    <3>2. QED  BY <1>2, <2>1, <3>1 DEF Generating, Words
  <2>3. (d + 0 * c) % 2 = d  BY <2>2
  <2>4. d = IF i < k + 1 THEN w[n + (k + 1) - 1 - i] ELSE 0
    <3>1. i \in Int /\ i >= 0  BY DEF Indices, Generating
    <3>2. CASE i = 0
      <4>1. n + (k + 1) - 1 - i = n + k /\ i < k + 1  BY <3>2
      <4>2. QED  BY <1>1, <2>1, <3>2, <4>1
    <3>3. CASE i # 0
      <4>1. i - 1 \in Indices(g.len) /\ (i - 1 < k <=> i < k + 1)
            /\ n + k - 1 - (i - 1) = n + (k + 1) - 1 - i
        BY <3>1, <3>3 DEF Indices, Generating
      <4>2. t[i - 1] = IF i - 1 < k THEN w[n + k - 1 - (i - 1)] ELSE 0
        BY <1>1, <4>1 DEF Tail
      <4>3. QED  BY <2>1, <3>3, <4>1, <4>2
    <3>4. QED  BY <3>2, <3>3
  <2>5. ((IF i = 0 THEN b ELSE t[i - 1]) + t[top] * g.coeff[i]) % 2 = (d + 0 * c) % 2
    BY <1>4, <2>1, Zenon
  <2>6. QED  BY <2>3, <2>4, <2>5, Zenon
<1>7. syndromeShift(t, g, b) = Tail(w, n, k + 1, g.len)  BY <1>5, <1>6 DEF Tail
<1>8. QED  BY <1>1, <1>2, <1>3, <1>7

\* After the parity the register is the sum of its turns and of the parity.
LEMMA AfterTail ==
  ASSUME NEW g, Generating(g), NEW n \in Nat, NEW w \in Words(n + g.len),
         NEW f, Syndromes(f, g, w, n + g.len), NEW z, Turnings(z, g, f[n])
  PROVE  f[n + g.len] = Xor(z[g.len], Tail(w, n, g.len, g.len), g.len)
<1> DEFINE I == {k \in Nat : k <= g.len => f[n + k] = Xor(z[k], Tail(w, n, k, g.len), g.len)}
<1>0. g.len \in Nat /\ f[n] \in Words(g.len)
  <2>1. g.len \in Nat /\ n \in 0 .. n + g.len  BY DEF Generating
  <2>2. QED  BY <2>1 DEF Syndromes
<1>1. 0 \in I
  <2>1. Tail(w, n, 0, g.len) = Zero(g.len)
    <3>1. \A i \in Indices(g.len) : ~(i < 0)  BY <1>0 DEF Indices
    <3>2. QED  BY <3>1 DEF Tail, Zero
  <2>2. Xor(f[n], Zero(g.len), g.len) = f[n]  BY <1>0, WordsAre
  <2>3. z[0] = f[n] /\ n + 0 = n  BY DEF Turnings
  <2>4. QED  BY <2>1, <2>2, <2>3
<1>2. ASSUME NEW k \in Nat, k \in I, k + 1 <= g.len
      PROVE  f[n + (k + 1)] = Xor(z[k + 1], Tail(w, n, k + 1, g.len), g.len)
  <2>1. k < g.len /\ k <= g.len  BY <1>0, <1>2
  <2>2. PICK t \in Words(g.len), b \in {0, 1} :
          /\ t = Tail(w, n, k, g.len) /\ b = w[n + k]
          /\ syndromeShift(t, g, b) = Tail(w, n, k + 1, g.len)
    BY <2>1, TailShifts
  <2>3. PICK x \in Words(g.len), a \in {0, 1} : x = z[k] /\ a = 0 /\ (a + b) % 2 = b
    BY DEF Turnings
  <2>4. f[n + k] = Xor(x, t, g.len)  BY <1>2, <2>1, <2>2, <2>3
  <2>5. f[n + (k + 1)] = syndromeShift(f[n + k], g, b)
    <3>1. n + k \in 0 .. (n + g.len) - 1 /\ (n + k) + 1 = n + (k + 1)  BY <1>0, <2>1
    <3>2. f[(n + k) + 1] = syndromeShift(f[n + k], g, w[n + k])  BY <3>1 DEF Syndromes
    <3>3. QED  BY <2>2, <3>1, <3>2
  <2>6. syndromeShift(Xor(x, t, g.len), g, (a + b) % 2)
          = Xor(syndromeShift(x, g, a), syndromeShift(t, g, b), g.len)
    BY ShiftIsLinear
  <2>7. z[k + 1] = syndromeShift(x, g, a)  BY <2>3 DEF Turnings, Turned
  <2>8. QED  BY <2>2, <2>3, <2>4, <2>5, <2>6, <2>7
<1>3. ASSUME NEW k \in Nat, k \in I PROVE k + 1 \in I  BY <1>2, <1>3
<1>4. \A k \in Nat : k \in I
  <2> HIDE DEF I
  <2>1. QED  BY <1>1, <1>3, Induction
<1>5. QED  BY <1>0, <1>4

\* A bit that comes in wrong is never lost, if the generator has a constant term.
LEMMA ShiftTells ==
  ASSUME NEW g, Generating(g), NEW s \in Words(g.len), NEW t \in Words(g.len),
         NEW a \in {0, 1}, NEW b \in {0, 1},
         syndromeShift(s, g, a) = syndromeShift(t, g, b)
  PROVE  /\ s = t => a = b
         /\ a = b /\ g.coeff[0] = 1 => s = t
<1> DEFINE top == g.len - 1
<1>1. /\ top \in Indices(g.len) /\ 0 \in Indices(g.len) /\ g.len \in Nat
      /\ s[top] \in {0, 1} /\ t[top] \in {0, 1} /\ g.coeff[0] \in {0, 1}
  <2>1. top \in Indices(g.len) /\ 0 \in Indices(g.len) /\ g.len \in Nat
    BY DEF Generating, Indices
  <2>2. QED  BY <2>1 DEF Generating, Words
<1>2. /\ syndromeShift(s, g, a)
           = [i \in Indices(g.len) |-> ((IF i = 0 THEN a ELSE s[i - 1]) + s[top] * g.coeff[i]) % 2]
      /\ syndromeShift(t, g, b)
           = [i \in Indices(g.len) |-> ((IF i = 0 THEN b ELSE t[i - 1]) + t[top] * g.coeff[i]) % 2]
  BY DEF syndromeShift, Shifted
<1>3. ASSUME NEW i \in Indices(g.len)
      PROVE  ((IF i = 0 THEN a ELSE s[i - 1]) + s[top] * g.coeff[i]) % 2
               = ((IF i = 0 THEN b ELSE t[i - 1]) + t[top] * g.coeff[i]) % 2
  <2> HIDE DEF top
  <2>1. PICK l, r : l = syndromeShift(s, g, a) /\ r = syndromeShift(t, g, b)  OBVIOUS
  <2>2. l[i] = ((IF i = 0 THEN a ELSE s[i - 1]) + s[top] * g.coeff[i]) % 2  BY <1>2, <2>1, Zenon
  <2>3. r[i] = ((IF i = 0 THEN b ELSE t[i - 1]) + t[top] * g.coeff[i]) % 2  BY <1>2, <2>1, Zenon
  <2>4. l = r  BY <2>1
  <2>5. QED  BY <2>2, <2>3, <2>4, Zenon
<1>4. PICK x \in {0, 1}, y \in {0, 1}, c \in {0, 1} : x = s[top] /\ y = t[top] /\ c = g.coeff[0]
  BY <1>1
<1>5. (a + x * c) % 2 = (b + y * c) % 2  BY <1>1, <1>3, <1>4
<1>6. ASSUME s = t PROVE a = b
  <2>1. x = y  BY <1>4, <1>6
  <2>2. x * c \in {0, 1}  OBVIOUS
  <2>3. QED  BY <1>5, <2>1, <2>2
<1>7. ASSUME a = b, c = 1 PROVE s = t
  <2>1. x = y  BY <1>5, <1>7
  <2>2. ASSUME NEW j \in Indices(g.len) PROVE s[j] = t[j]
    <3>1. CASE j = top  BY <1>4, <2>1, <3>1
    <3>2. CASE j # top
      <4>1. PICK i \in Indices(g.len) : i = j + 1 /\ i # 0 /\ i - 1 = j
        BY <1>1, <3>2 DEF Indices
      <4>2. PICK d, p, q : d = g.coeff[i] /\ p = s[j] /\ q = t[j]  OBVIOUS
      <4>3. d \in {0, 1} /\ p \in {0, 1} /\ q \in {0, 1}
        BY <4>2 DEF Generating, Words
      <4> HIDE DEF top
      <4>4. (p + x * d) % 2 = (q + x * d) % 2  BY <1>3, <1>4, <2>1, <4>1, <4>2
      <4>5. x * d \in {0, 1}  BY <4>3
      <4>6. p = q  BY <4>3, <4>4, <4>5
      <4>7. QED  BY <4>2, <4>6
    <3>3. QED  BY <3>1, <3>2
  <2>3. s = [i \in Indices(g.len) |-> s[i]] /\ t = [i \in Indices(g.len) |-> t[i]]  BY DEF Words
  <2>4. QED  BY <2>2, <2>3
<1>8. QED  BY <1>4, <1>6, <1>7

\* One wrong bit keeps the registers of two words apart to their end.
LEMMA WrongBitShows ==
  ASSUME NEW g, Generating(g), g.coeff[0] = 1, NEW n \in Nat,
         NEW v \in Words(n), NEW w \in Words(n), NEW wrong \in Indices(n),
         w[wrong] # v[wrong], \A i \in Indices(n) : i # wrong => w[i] = v[i],
         NEW f, Syndromes(f, g, v, n), NEW h, Syndromes(h, g, w, n)
  PROVE  f[n] # h[n]
<1> DEFINE Right(m) == (m <= wrong => f[m] = h[m]) /\ (m > wrong => f[m] # h[m])
           I == {m \in Nat : m <= n => Right(m)}
<1>0. wrong \in Nat /\ wrong < n  BY DEF Indices
<1>1. 0 \in I  BY <1>0 DEF Syndromes
<1>2. ASSUME NEW m \in Nat, Right(m), m + 1 <= n PROVE Right(m + 1)
  <2>1. m \in 0 .. n - 1 /\ m \in 0 .. n /\ m \in Indices(n)  BY <1>2 DEF Indices
  <2>2. PICK s \in Words(g.len), t \in Words(g.len), a \in {0, 1}, b \in {0, 1} :
          s = f[m] /\ t = h[m] /\ a = v[m] /\ b = w[m]
    BY <2>1 DEF Syndromes, Words
  <2>3. f[m + 1] = syndromeShift(s, g, a) /\ h[m + 1] = syndromeShift(t, g, b)
    BY <2>1, <2>2 DEF Syndromes
  <2>4. f[m + 1] = h[m + 1] => (s = t => a = b) /\ (a = b => s = t)
    <3>1. ASSUME f[m + 1] = h[m + 1] PROVE (s = t => a = b) /\ (a = b => s = t)
      <4>1. syndromeShift(s, g, a) = syndromeShift(t, g, b)  BY <2>3, <3>1
      <4>2. QED  BY <4>1, ShiftTells
    <3>2. QED  BY <3>1
  <2>5. CASE m < wrong
    <3>1. a = b /\ s = t  BY <1>0, <1>2, <2>1, <2>2, <2>5
    <3>2. QED  BY <1>0, <2>3, <2>5, <3>1
  <2>6. CASE m = wrong
    <3>1. a # b /\ s = t  BY <1>0, <1>2, <2>1, <2>2, <2>6
    <3>2. QED  BY <1>0, <2>4, <2>6, <3>1
  <2>7. CASE m > wrong
    <3>1. a = b /\ s # t  BY <1>0, <1>2, <2>1, <2>2, <2>7
    <3>2. QED  BY <1>0, <2>4, <2>7, <3>1
  <2>8. QED  BY <1>0, <2>5, <2>6, <2>7
<1>3. ASSUME NEW m \in Nat, m \in I PROVE m + 1 \in I
  <2> HIDE DEF Right
  <2>1. QED  BY <1>2, <1>3
<1>4. \A m \in Nat : m \in I
  <2> HIDE DEF I
  <2>1. QED  BY <1>1, <1>3, Induction
<1>5. QED  BY <1>0, <1>4

-----------------------------------------------------------------------------
(* Registers as numbers.                                                    *)

\* The complement of a word is its number subtracted from all ones.
LEMMA Complements ==
  ASSUME NEW n \in Nat, NEW bits \in Words(n), NEW other \in Words(n),
         \A i \in Indices(n) : other[i] = 1 - bits[i]
  PROVE  Accumulated(other, n) = Pow2[n] - 1 - Accumulated(bits, n)
<1>1. PICK f \in [0 .. n -> Nat] :
        /\ f[0] = 0 /\ Accumulated(bits, n) = f[n]
        /\ \A m \in 0 .. n - 1 : f[m + 1] = 2 * f[m] + bits[m]
  BY AccumulatedRuns
<1>2. PICK h \in [0 .. n -> Nat] :
        /\ h[0] = 0 /\ Accumulated(other, n) = h[n]
        /\ \A m \in 0 .. n - 1 : h[m + 1] = 2 * h[m] + other[m]
  BY AccumulatedRuns
<1> DEFINE Right(m) == h[m] = Pow2[m] - 1 - f[m]
           I == {m \in Nat : m <= n => Right(m)}
<1>3. 0 \in I
  <2>1. PICK P : P = Pow2[0] /\ P = 1  BY PowersOfTwo
  <2>2. h[0] = P - 1 - f[0]  BY <1>1, <1>2, <2>1
  <2>3. QED  BY <2>1, <2>2
<1>4. ASSUME NEW m \in Nat, Right(m), m + 1 <= n PROVE Right(m + 1)
  <2>1. m \in 0 .. n - 1 /\ m \in 0 .. n /\ m \in Indices(n) /\ m <= n  BY <1>4 DEF Indices
  <2>2. PICK P \in Nat : P = Pow2[m] /\ Pow2[m + 1] = 2 * P  BY PowerIs
  <2>3. PICK x \in Nat, y \in Nat, b \in {0, 1} :
          x = f[m] /\ y = h[m] /\ b = bits[m] /\ other[m] = 1 - b
    BY <2>1 DEF Words
  <2>4. f[m + 1] = 2 * x + b /\ h[m + 1] = 2 * y + (1 - b)  BY <1>1, <1>2, <2>1, <2>3
  <2>5. y = P - 1 - x  BY <1>4, <2>1, <2>2, <2>3
  <2>6. 2 * y + (1 - b) = 2 * P - 1 - (2 * x + b)  BY <2>5
  <2>7. QED  BY <2>2, <2>4, <2>6
<1>5. ASSUME NEW m \in Nat, m \in I PROVE m + 1 \in I
  <2> HIDE DEF Right
  <2>1. m + 1 <= n => m <= n  OBVIOUS
  <2>2. QED  BY <1>4, <1>5, <2>1
<1>6. \A m \in Nat : m \in I
  <2> HIDE DEF I
  <2>1. QED  BY <1>3, <1>5, Induction
<1>7. QED  BY <1>1, <1>2, <1>6

\* state() shows every bit of the register, and can be told from others.
LEMMA NumberIs ==
  ASSUME NEW g, Generating(g), NEW s \in Words(g.len)
  PROVE  /\ Number(s, g) \in Indices(Pow2[g.len])
         /\ \A j \in Indices(g.len) : (Number(s, g) \div Pow2[j]) % 2 = s[j]
         /\ \A t \in Words(g.len) : (\A j \in Indices(g.len) : t[j] = 1 - s[j]) =>
              Number(t, g) = Pow2[g.len] - 1 - Number(s, g)
<1> DEFINE bits(x) == [i \in Indices(g.len) |-> bit(x, 0 + g.len - 1 - i)]
<1>0. g.len \in Nat  BY DEF Generating
<1>1. ASSUME NEW x \in Words(g.len)
      PROVE  /\ bits(x) \in Words(g.len) /\ Number(x, g) = Accumulated(bits(x), g.len)
             /\ \A i \in Indices(g.len) : bits(x)[i] = x[g.len - 1 - i]
  <2>1. ASSUME NEW i \in Indices(g.len)
        PROVE  bits(x)[i] = x[g.len - 1 - i] /\ bits(x)[i] \in {0, 1}
    <3>1. PICK k \in Indices(g.len) : k = g.len - 1 - i /\ k = 0 + g.len - 1 - i
      BY <1>0 DEF Indices
    <3>2. x[k] \in {0, 1} /\ x[k] % 2 = x[k]
      <4>1. x[k] \in {0, 1}  BY DEF Words
      <4>2. QED  BY <4>1
    <3>3. bits(x)[i] = x[k] % 2  BY <3>1 DEF bit
    <3>4. QED  BY <3>1, <3>2, <3>3
  <2>2. bits(x) \in Words(g.len)  BY <2>1 DEF Words
  <2>3. Number(x, g) = Accumulated(bits(x), g.len)  BY DEF Number, peekFieldReversed
  <2>4. QED  BY <2>1, <2>2, <2>3
<1> HIDE DEF bits
<1>2. /\ Number(s, g) \in Indices(Pow2[g.len])
      /\ \A i \in Indices(g.len) :
           (Number(s, g) \div Pow2[g.len - 1 - i]) % 2 = s[g.len - 1 - i]
  <2>1. PICK b \in Words(g.len) : /\ b = bits(s) /\ Number(s, g) = Accumulated(b, g.len)
                                  /\ \A i \in Indices(g.len) : b[i] = s[g.len - 1 - i]
    BY <1>1
  <2>2. /\ Accumulated(b, g.len) \in Indices(Pow2[g.len])
        /\ \A i \in Indices(g.len) : (Accumulated(b, g.len) \div Pow2[g.len - 1 - i]) % 2 = b[i]
    BY <1>0, BitsOfAccumulated
  <2>3. QED  BY <2>1, <2>2
<1>3. ASSUME NEW j \in Indices(g.len) PROVE (Number(s, g) \div Pow2[j]) % 2 = s[j]
  <2>1. PICK i \in Indices(g.len) : g.len - 1 - i = j
    <3>1. g.len - 1 - j \in Indices(g.len) /\ g.len - 1 - (g.len - 1 - j) = j
      BY <1>0 DEF Indices
    <3>2. QED  BY <3>1
  <2>2. QED  BY <1>2, <2>1
<1>4. ASSUME NEW t \in Words(g.len), \A j \in Indices(g.len) : t[j] = 1 - s[j]
      PROVE  Number(t, g) = Pow2[g.len] - 1 - Number(s, g)
  <2>1. PICK b \in Words(g.len), c \in Words(g.len) : b = bits(s) /\ c = bits(t)  BY <1>1
  <2>2. ASSUME NEW i \in Indices(g.len) PROVE c[i] = 1 - b[i]
    <3>1. g.len - 1 - i \in Indices(g.len)  BY <1>0 DEF Indices
    <3>2. QED  BY <1>1, <1>4, <2>1, <3>1
  <2>3. Accumulated(c, g.len) = Pow2[g.len] - 1 - Accumulated(b, g.len)
    BY <1>0, <2>2, Complements
  <2>4. QED  BY <1>1, <2>1, <2>3
<1>5. QED  BY <1>2, <1>3, <1>4

-----------------------------------------------------------------------------
(* Codewords.                                                               *)

\* The two numbers that a right codeword has as its syndrome.
LEMMA EndsAsNumbers ==
  ASSUME NEW g, Generating(g)
  PROVE  Number(Zero(g.len), g) = 0 /\ Number(Ones(g.len), g) = Pow2[g.len] - 1
<1>0. g.len \in Nat  BY DEF Generating
<1>1. PICK n \in Nat, P \in Nat : n = g.len /\ P = Pow2[n] /\ P > 0  BY <1>0, PowerIs
<1>2. PICK z \in Words(n), o \in Words(n) : z = Zero(n) /\ o = Ones(n)  BY WordsAre
<1>3. Number(z, g) = 0
  <2> DEFINE bits == [i \in Indices(n) |-> bit(z, 0 + n - 1 - i)]
             digits == [i \in Indices(n) |-> (0 \div Pow2[n - 1 - i]) % 2]
  <2>1. ASSUME NEW i \in Indices(n) PROVE bits[i] = 0 /\ digits[i] = 0
    <3>1. PICK k \in Indices(n) : k = n - 1 - i /\ k = 0 + n - 1 - i /\ k \in Nat
      BY DEF Indices
    <3>2. z[k] = 0 /\ 0 % 2 = 0  BY <1>2 DEF Zero
    <3>3. PICK Q \in Nat : Q = Pow2[k] /\ Q > 0  BY <3>1, PowerIs
    <3>4. 0 \div Q = 0
      <4>1. 0 \in 0 .. Q - 1  BY <3>3
      <4>2. QED  BY <3>3, <4>1, SmallDivision
    <3>5. bits[i] = 0  BY <3>1, <3>2 DEF bit
    <3>6. digits[i] = 0  BY <3>1, <3>2, <3>3, <3>4
    <3>7. QED  BY <3>5, <3>6
  <2>2. bits = digits  BY <2>1
  <2>3. PICK b, zero : b = bits /\ zero = 0  OBVIOUS
  <2>4. b = [i \in Indices(n) |-> (zero \div Pow2[n - 1 - i]) % 2]  BY <2>2, <2>3
  <2>5. zero \in Indices(Pow2[n])  BY <1>1, <2>3 DEF Indices
  <2>6. Accumulated(b, n) = zero  BY <2>4, <2>5, AccumulatedBits
  <2>7. Number(z, g) = Accumulated(bits, n)  BY <1>1 DEF Number, peekFieldReversed
  <2>8. QED  BY <2>3, <2>6, <2>7
<1>4. Number(o, g) = Pow2[n] - 1 - Number(z, g)
  <2>1. \A j \in Indices(n) : o[j] = 1 - z[j]  BY <1>2 DEF Zero, Ones
  <2>2. QED  BY <1>1, <2>1, NumberIs
<1>5. QED  BY <1>1, <1>2, <1>3, <1>4

\* What follows the data is the register of the encoder, the last bit first,
\* or its complement.
Sent(e, g, inverted) == [i \in Indices(g.len) |-> IF inverted THEN 1 - e[i] ELSE e[i]]

\* writeParityWord appends the register, the highest bit first.
LEMMA CodewordIs ==
  ASSUME NEW g, Generating(g), NEW n \in Nat, NEW v \in Words(n), NEW inverted \in BOOLEAN,
         NEW e \in Words(g.len), parity(v, g) = Number(e, g),
         NEW w, w = writeParityWord(v, g, inverted)
  PROVE  /\ w \in Words(n + g.len) /\ \A m \in Indices(n) : w[m] = v[m]
         /\ Tail(w, n, g.len, g.len) = Sent(e, g, inverted)
<1> DEFINE out == Sent(e, g, inverted)
           number == IF inverted THEN Pow2[g.len] - 1 - parity(v, g) ELSE parity(v, g)
           target == fillField([i \in Indices(g.len) |-> 0], 0, number, g.len)
<1>0. g.len \in Nat  BY DEF Generating
<1>1. Size(v) = n
  <2>1. DOMAIN v = Indices(n)  BY DEF Words
  <2>2. QED  BY <2>1, SizeIs
<1>2. \A i \in Indices(g.len) : e[i] \in {0, 1} /\ 1 - e[i] \in {0, 1}
  <2>1. \A i \in Indices(g.len) : e[i] \in {0, 1}  BY DEF Words
  <2>2. QED  BY <2>1
<1>3. out \in Words(g.len)  BY <1>2 DEF Sent, Words
<1>4. number = Number(out, g)
  <2>1. CASE inverted
    <3>1. \A i \in Indices(g.len) : out[i] = 1 - e[i]  BY <2>1 DEF Sent
    <3>2. PICK o \in Words(g.len) : o = out  BY <1>3
    <3> HIDE DEF out
    <3>3. Number(o, g) = Pow2[g.len] - 1 - Number(e, g)  BY <3>1, <3>2, NumberIs
    <3>4. QED  BY <2>1, <3>2, <3>3
  <2>2. CASE ~inverted
    <3>1. out = [i \in Indices(g.len) |-> e[i]]  BY <2>2 DEF Sent
    <3>2. e = [i \in Indices(g.len) |-> e[i]]  BY DEF Words
    <3>3. out = e  BY <3>1, <3>2
    <3>4. QED  BY <2>2, <3>3
  <2>3. QED  BY <2>1, <2>2
<1>5. ASSUME NEW j \in Indices(g.len)
      PROVE  g.len - 1 - j \in Indices(g.len) /\ target[j] = out[g.len - 1 - j]
  <2>1. PICK k \in Indices(g.len) : k = g.len - 1 - j /\ k = 0 + g.len - 1 - j
    BY <1>0 DEF Indices
  <2>2. j >= 0 /\ j < 0 + g.len  BY <1>0 DEF Indices
  <2>3. target[j] = (number \div Pow2[k]) % 2
    <3> HIDE DEF number
    <3>1. QED  BY <2>1, <2>2 DEF fillField
  <2>4. PICK o \in Words(g.len) : o = out  BY <1>3
  <2>5. (Number(o, g) \div Pow2[k]) % 2 = o[k]  BY NumberIs
  <2> HIDE DEF out, number, target
  <2>6. QED  BY <1>4, <2>1, <2>3, <2>4, <2>5
<1>6. w = [i \in Indices(n + g.len) |-> IF i < n THEN v[i] ELSE target[i - n]]
  BY <1>1 DEF writeParityWord
<1> HIDE DEF out, number, target
<1>7. ASSUME NEW m \in Indices(n) PROVE w[m] = v[m] /\ v[m] \in {0, 1}
  <2>1. m \in Indices(n + g.len) /\ m < n  BY <1>0 DEF Indices
  <2>2. QED  BY <1>6, <2>1 DEF Words
<1>8. ASSUME NEW i \in Indices(n + g.len), ~(i < n)
      PROVE  i - n \in Indices(g.len) /\ w[i] = out[g.len - 1 - (i - n)] /\ w[i] \in {0, 1}
  <2>1. PICK j \in Indices(g.len) : j = i - n  BY <1>0, <1>8 DEF Indices
  <2>2. w[i] = target[j]  BY <1>6, <1>8, <2>1
  <2>3. out[g.len - 1 - j] \in {0, 1}  BY <1>3, <1>5 DEF Words
  <2>4. QED  BY <1>5, <2>1, <2>2, <2>3
<1>9. w \in Words(n + g.len)
  <2>1. ASSUME NEW i \in Indices(n + g.len) PROVE w[i] \in {0, 1}
    <3>1. CASE i < n
      <4>1. i \in Indices(n)  BY <1>0, <3>1 DEF Indices
      <4>2. QED  BY <1>7, <4>1
    <3>2. CASE ~(i < n)  BY <1>8, <3>2
    <3>3. QED  BY <3>1, <3>2
  <2>2. w = [i \in Indices(n + g.len) |-> w[i]]  BY <1>6
  <2>3. QED  BY <2>1, <2>2 DEF Words
<1>10. ASSUME NEW i \in Indices(g.len)
       PROVE  (IF i < g.len THEN w[n + g.len - 1 - i] ELSE 0) = out[i]
  <2>1. PICK k \in Indices(n + g.len) :
          /\ k = n + g.len - 1 - i /\ ~(k < n) /\ g.len - 1 - (k - n) = i /\ i < g.len
    BY <1>0 DEF Indices
  <2>2. w[k] = out[i]  BY <1>8, <2>1
  <2>3. QED  BY <2>1, <2>2
<1>11. Tail(w, n, g.len, g.len) = out
  <2>1. out = [i \in Indices(g.len) |-> out[i]]  BY <1>3 DEF Words
  <2>2. QED  BY <1>10, <2>1 DEF Tail
<1>12. QED  BY <1>7, <1>9, <1>11 DEF out

\* The syndrome register of a codeword ends with zeros, or with ones only.
LEMMA CodewordEnds ==
  ASSUME NEW g, Generating(g), NEW n \in Nat, NEW v \in Words(n), NEW inverted \in BOOLEAN,
         NEW w, w = writeParityWord(v, g, inverted)
  PROVE  /\ w \in Words(n + g.len)
         /\ \A f : Syndromes(f, g, w, n + g.len) =>
              f[n + g.len] = IF inverted THEN Ones(g.len) ELSE Zero(g.len)
<1>0. g.len \in Nat  BY DEF Generating
<1>1. PICK E : Encodings(E, g, v, n) /\ Through(v, g, encoderShift) = E[n]  BY EncoderRuns
<1>2. PICK e \in Words(g.len) : e = E[n] /\ parity(v, g) = Number(e, g)
  <2>1. E[n] \in Words(g.len)  BY <1>1 DEF Encodings
  <2>2. QED  BY <1>1, <2>1 DEF parity
<1>3. /\ w \in Words(n + g.len) /\ \A m \in Indices(n) : w[m] = v[m]
      /\ Tail(w, n, g.len, g.len) = Sent(e, g, inverted)
  BY <1>2, CodewordIs
<1>4. ASSUME NEW f, Syndromes(f, g, w, n + g.len)
      PROVE  f[n + g.len] = IF inverted THEN Ones(g.len) ELSE Zero(g.len)
  <2>1. PICK S : S = [m \in 0 .. n |-> f[m]]  OBVIOUS
  <2>2. Syndromes(S, g, v, n)
    <3>1. \A m \in 0 .. n : m \in 0 .. n + g.len /\ S[m] = f[m]  BY <1>0, <2>1
    <3>2. S \in [0 .. n -> Words(g.len)]
      <4>1. \A m \in 0 .. n : f[m] \in Words(g.len)  BY <1>4, <3>1 DEF Syndromes
      <4>2. QED  BY <2>1, <4>1
    <3>3. S[0] = Zero(g.len)  BY <1>4, <3>1 DEF Syndromes
    <3>4. ASSUME NEW m \in 0 .. n - 1 PROVE S[m + 1] = syndromeShift(S[m], g, v[m])
      <4>1. m \in 0 .. (n + g.len) - 1 /\ m \in Indices(n) /\ m + 1 \in 0 .. n /\ m \in 0 .. n
        BY <1>0 DEF Indices
      <4>2. f[m + 1] = syndromeShift(f[m], g, w[m])  BY <1>4, <4>1 DEF Syndromes
      <4>3. w[m] = v[m] /\ S[m] = f[m] /\ S[m + 1] = f[m + 1]  BY <1>3, <3>1, <4>1
      <4>4. QED  BY <4>2, <4>3
    <3>5. QED  BY <3>2, <3>3, <3>4 DEF Syndromes
  <2>3. S[n] = f[n] /\ S[n] \in Words(g.len)  BY <2>1, <2>2 DEF Syndromes
  <2>4. PICK s \in Words(g.len) : s = S[n]  BY <2>3
  <2>5. PICK z : Turnings(z, g, s)  BY TurningsExist
  <2>6. z[g.len] = e  BY <1>1, <1>2, <2>2, <2>4, <2>5, EncodedIsTurned
  <2>7. f[n + g.len] = Xor(z[g.len], Tail(w, n, g.len, g.len), g.len)
    <3>1. Turnings(z, g, f[n])  BY <2>3, <2>4, <2>5
    <3>2. QED  BY <1>3, <1>4, <3>1, AfterTail
  <2>8. f[n + g.len] = Xor(e, Sent(e, g, inverted), g.len)  BY <1>3, <2>6, <2>7
  <2>9. \A i \in Indices(g.len) : (e[i] + e[i]) % 2 = 0 /\ (e[i] + (1 - e[i])) % 2 = 1
    <3>1. \A i \in Indices(g.len) : e[i] \in {0, 1}  BY DEF Words
    <3>2. QED  BY <3>1
  <2>10. CASE inverted
    <3>1. Xor(e, Sent(e, g, inverted), g.len) = Ones(g.len)
      BY <2>9, <2>10 DEF Xor, Sent, Ones
    <3>2. QED  BY <2>8, <2>10, <3>1
  <2>11. CASE ~inverted
    <3>1. Xor(e, Sent(e, g, inverted), g.len) = Zero(g.len)
      BY <2>9, <2>11 DEF Xor, Sent, Zero
    <3>2. QED  BY <2>8, <2>11, <3>1
  <2>12. QED  BY <2>10, <2>11
<1>5. QED  BY <1>3, <1>4

\* A codeword has the right syndrome, and with one wrong bit it has not.
LEMMA ProtectingInverts == Protecting => CodesInvert'
<1> SUFFICES ASSUME Protecting PROVE CodesInvert'
  OBVIOUS
<1>1. PICK n \in DataSizes, g \in Generators, inverted \in BOOLEAN :
        \E v \in Words(n) : \E wrong \in -1 .. n + g.len - 1 :
          LET sent == writeParityWord(v, g, inverted)
          IN coding' = [op |-> "parity", inverted |-> inverted, wrong |-> wrong, g |-> g,
                        syndrome |-> syndrome([i \in DOMAIN sent |->
                                                 IF i = wrong THEN 1 - sent[i] ELSE sent[i]], g)]
  BY DEF Protecting
<1>2. PICK v \in Words(n), wrong \in -1 .. n + g.len - 1 :
        LET sent == writeParityWord(v, g, inverted)
        IN coding' = [op |-> "parity", inverted |-> inverted, wrong |-> wrong, g |-> g,
                      syndrome |-> syndrome([i \in DOMAIN sent |->
                                               IF i = wrong THEN 1 - sent[i] ELSE sent[i]], g)]
  BY <1>1
<1>3. n \in Nat /\ Generating(g) /\ g.len \in Nat  BY CodesAssumption DEF Generating
<1>4. PICK sent : sent = writeParityWord(v, g, inverted)  OBVIOUS
<1>5. PICK N \in Nat : N = n + g.len  BY <1>3
<1>6. /\ sent \in Words(N) /\ DOMAIN sent = Indices(N)
      /\ \A f : Syndromes(f, g, sent, N) =>
           f[N] = IF inverted THEN Ones(g.len) ELSE Zero(g.len)
  <2>1. /\ sent \in Words(n + g.len)
        /\ \A f : Syndromes(f, g, sent, n + g.len) =>
             f[n + g.len] = IF inverted THEN Ones(g.len) ELSE Zero(g.len)
    BY <1>3, <1>4, CodewordEnds
  <2>2. DOMAIN sent = Indices(n + g.len)  BY <2>1 DEF Words
  <2>3. QED  BY <1>5, <2>1, <2>2
<1>7. PICK got : got = [i \in Indices(N) |-> IF i = wrong THEN 1 - sent[i] ELSE sent[i]]
  OBVIOUS
<1>8. got \in Words(N)
  <2>1. \A i \in Indices(N) : sent[i] \in {0, 1} /\ 1 - sent[i] \in {0, 1}
    <3>1. \A i \in Indices(N) : sent[i] \in {0, 1}  BY <1>6 DEF Words
    <3>2. QED  BY <3>1
  <2>2. QED  BY <1>7, <2>1 DEF Words
<1>9. PICK h : Syndromes(h, g, got, N) /\ Through(got, g, syndromeShift) = h[N]
  BY <1>3, <1>8, SyndromeRuns
<1>10. PICK f : Syndromes(f, g, sent, N)  BY <1>3, <1>6, SyndromeRuns
<1>11. PICK x, y : x = f[N] /\ y = h[N]  OBVIOUS
<1>12. x \in Words(g.len) /\ y \in Words(g.len)  BY <1>9, <1>10, <1>11 DEF Syndromes
<1>13. syndrome(got, g) = Number(y, g)  BY <1>9, <1>11 DEF syndrome
<1>14. PICK right : right = IF inverted THEN Pow2[g.len] - 1 ELSE 0  OBVIOUS
<1>15. Number(x, g) = right
  <2>1. x = IF inverted THEN Ones(g.len) ELSE Zero(g.len)  BY <1>6, <1>10, <1>11
  <2>2. QED  BY <1>3, <1>14, <2>1, EndsAsNumbers
<1>16. wrong = -1 => Number(y, g) = right
  <2>1. ASSUME wrong = -1 PROVE Number(y, g) = right
    <3>1. \A i \in Indices(N) : i # wrong  BY <2>1 DEF Indices
    <3>2. got = [i \in Indices(N) |-> sent[i]]  BY <1>7, <3>1
    <3>3. sent = [i \in Indices(N) |-> sent[i]]  BY <1>6 DEF Words
    <3>4. got = sent  BY <3>2, <3>3
    <3>5. y = IF inverted THEN Ones(g.len) ELSE Zero(g.len)  BY <1>6, <1>9, <1>11, <3>4
    <3>6. QED  BY <1>3, <1>14, <3>5, EndsAsNumbers
  <2>2. QED  BY <2>1
<1>17. wrong # -1 /\ g.coeff[0] = 1 => Number(y, g) # right
  <2>1. ASSUME wrong # -1, g.coeff[0] = 1 PROVE Number(y, g) # right
    <3>1. wrong \in Indices(N)  BY <1>2, <1>3, <1>5, <2>1 DEF Indices
    <3>2. got[wrong] # sent[wrong]
      <4>1. sent[wrong] \in {0, 1} /\ got[wrong] = 1 - sent[wrong]
        BY <1>6, <1>7, <3>1 DEF Words
      <4>2. QED  BY <4>1
    <3>3. \A i \in Indices(N) : i # wrong => got[i] = sent[i]  BY <1>7
    <3>4. x # y
      BY <1>3, <1>6, <1>8, <1>9, <1>10, <1>11, <2>1, <3>1, <3>2, <3>3, WrongBitShows
    <3>5. ASSUME Number(y, g) = Number(x, g) PROVE x = y
      <4>1. \A j \in Indices(g.len) :
              (Number(x, g) \div Pow2[j]) % 2 = x[j] /\ (Number(y, g) \div Pow2[j]) % 2 = y[j]
        BY <1>3, <1>12, NumberIs
      <4>2. \A j \in Indices(g.len) : x[j] = y[j]  BY <3>5, <4>1
      <4>3. x = [j \in Indices(g.len) |-> x[j]] /\ y = [j \in Indices(g.len) |-> y[j]]
        BY <1>12 DEF Words
      <4>4. QED  BY <4>2, <4>3
    <3>6. QED  BY <1>15, <3>4, <3>5
  <2>2. QED  BY <2>1
<1>18. PICK last : last = syndrome(got, g)  OBVIOUS
<1>19. coding' = [op |-> "parity", inverted |-> inverted, wrong |-> wrong, g |-> g,
                  syndrome |-> last]
  BY <1>2, <1>4, <1>6, <1>7, <1>18
<1>20. (wrong = -1 => last = right) /\ (wrong # -1 /\ g.coeff[0] = 1 => last # right)
  BY <1>13, <1>16, <1>17, <1>18
<1>21. QED  BY <1>14, <1>19, <1>20 DEF CodesInvert

-----------------------------------------------------------------------------
\* No coding and no decoding breaks what can be read back.
LEMMA CodesStep == CodesInvert /\ [CodesNext]_coding => CodesInvert'
<1> SUFFICES ASSUME CodesInvert, [CodesNext]_coding PROVE CodesInvert'
  OBVIOUS
<1>1. \A v \in PackWords : Size(v) \in Nat /\ v \in Words(Size(v))  BY CodesAssumption
<1>2. CASE Fielding  BY <1>2, FieldingInverts
<1>3. CASE Packing
  <2>1. PICK v \in PackWords : Serial(v, unpack(Size(v), pack(v)))  BY <1>3 DEF Packing
  <2>2. Serial(v, v)  BY <1>1, <2>1, PackComesBack
  <2>3. QED  BY <2>2, SerialInverts
<1>4. CASE Hexing
  <2>1. PICK v \in PackWords : Size(v) % 4 = 0 /\ Serial(v, unhex(Size(v), hex(v)))
    BY <1>4 DEF Hexing
  <2>2. Serial(v, v)  BY <1>1, <2>1, HexComesBack
  <2>3. QED  BY <2>2, SerialInverts
<1>5. CASE Reversing
  <2>1. PICK v \in PackWords : Serial(v, LSB8MSB(LSB8MSB(v)))  BY <1>5 DEF Reversing
  <2>2. Serial(v, v)  BY <1>1, <2>1, ReversedComesBack
  <2>3. QED  BY <2>2, SerialInverts
<1>6. CASE Inverting
  <2>1. PICK v \in PackWords : Serial(v, invert(invert(v)))  BY <1>6 DEF Inverting
  <2>2. Serial(v, v)  BY <1>1, <2>1, InvertedComesBack
  <2>3. QED  BY <2>2, SerialInverts
<1>7. CASE Mapping
  <2>1. PICK n \in DataSizes :
          \E v \in Words(n), places \in [Indices(n) -> Indices(n + 1)] :
            /\ \A i, j \in Indices(n) : places[i] = places[j] => i = j
            /\ LET dest == [i \in Indices(n + 1) |-> 0]
               IN Serial(v, map(unmap(v, places, dest), places, [i \in Indices(n) |-> 0]))
    BY <1>7 DEF Mapping
  <2>2. PICK v \in Words(n), places \in [Indices(n) -> Indices(n + 1)] :
            /\ \A i, j \in Indices(n) : places[i] = places[j] => i = j
            /\ LET dest == [i \in Indices(n + 1) |-> 0]
               IN Serial(v, map(unmap(v, places, dest), places, [i \in Indices(n) |-> 0]))
    BY <2>1
  <2>3. n \in Nat  BY CodesAssumption
  <2>4. Serial(v, v)  BY <2>2, <2>3, MappedComesBack
  <2>5. QED  BY <2>4, SerialInverts
<1>8. CASE Puncturing  BY <1>8, PuncturingInverts
<1>9. CASE Protecting  BY <1>9, ProtectingInverts
<1>10. CASE Decoded  BY <1>10 DEF Decoded, uncoded, CodesInvert
<1>11. CASE UNCHANGED coding  BY <1>11 DEF CodesInvert
<1>12. QED  BY <1>2, <1>3, <1>4, <1>5, <1>6, <1>7, <1>8, <1>9, <1>10, <1>11
            DEF CodesNext, Coding

\* CodesInvert of BitCodes: whatever is coded can be read back, and a codeword
\* shows a wrong bit (BitVector.cpp), for every vector, map and generator.
THEOREM CodesComeBack == CodesSpec => []CodesInvert
<1>1. CodesInit => CodesInvert  BY DEF CodesInit, uncoded, CodesInvert
<1>2. QED  BY <1>1, CodesStep, PTL DEF CodesSpec
=============================================================================
