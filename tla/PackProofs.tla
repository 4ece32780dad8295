----------------------------- MODULE PackProofs -----------------------------
(***************************************************************************)
(* What pack writes, unpack reads: for every layout, every tuple of types    *)
(* and all values that fit them.                                            *)
(***************************************************************************)
EXTENDS Pack, TLAPS, WellFoundedInduction, SequenceTheorems

(***************************************************************************)
(* Induction and recursion over the numbers, as facts about sets.           *)
(***************************************************************************)
LEMMA Induction ==
    ASSUME NEW T, 0 \in T, \A n \in Nat : n \in T => n + 1 \in T
    PROVE  \A n \in Nat : n \in T
<1> DEFINE less == {ss \in Nat \X Nat : ss[1] < ss[2]}
           bad  == {n \in Nat : n \notin T}
<1>1. IsWellFoundedOn(less, Nat)
  BY NatLessThanWellFounded DEF OpToRel
<1>2. SUFFICES ASSUME bad # {} PROVE FALSE
  OBVIOUS
<1>3. PICK m \in bad : \A n \in bad : <<n, m>> \notin less
  BY <1>1, <1>2, WFMin
<1>4. m \in Nat /\ m # 0 /\ m \notin T
  OBVIOUS
<1>5. m - 1 \in Nat /\ <<m - 1, m>> \in less
  BY <1>4
<1>6. m - 1 \in T
  BY <1>3, <1>5
<1>7. (m - 1) + 1 \in T
  BY <1>5, <1>6
<1>8. QED
  BY <1>4, <1>7

LEMMA InductionTo ==
    ASSUME NEW n \in Nat, NEW T, 0 \in T, \A i \in 0 .. (n - 1) : i \in T => i + 1 \in T
    PROVE  \A i \in 0 .. n : i \in T
<1> DEFINE U == {i \in Nat : i <= n => i \in T}
<1>1. 0 \in U
  OBVIOUS
<1>2. ASSUME NEW i \in Nat, i \in U PROVE i + 1 \in U
  <2>1. CASE i + 1 <= n
    <3>1. i \in 0 .. (n - 1) /\ i \in T
      BY <1>2, <2>1
    <3>2. QED
      BY <3>1
  <2>2. QED
    BY <2>1
<1> HIDE DEF U
<1>3. \A i \in Nat : i \in U
  BY <1>1, <1>2, Induction
<1>4. QED
  BY <1>3 DEF U

-----------------------------------------------------------------------------
(***************************************************************************)
(* Division by Base.                                                        *)
(***************************************************************************)
LEMMA DivMod ==
    ASSUME NEW v \in Nat
    PROVE  /\ v \div Base \in Nat
           /\ v % Base \in Byte
           /\ v = (v % Base) + Base * (v \div Base)
BY PackAssumption DEF Byte

\* The function that Left recurs on.
Halves(v, n, f) == f = [i \in 0 .. n |-> IF i = 0 THEN v ELSE f[i - 1] \div Base]

LEMMA HalvesExist ==
    ASSUME NEW v \in Nat
    PROVE  \A n \in Nat : \E f \in [0 .. n -> Nat] : Halves(v, n, f)
<1> DEFINE T == {m \in Nat : \E f \in [0 .. m -> Nat] : Halves(v, m, f)}
<1>1. 0 \in T
  <2>1. Halves(v, 0, [i \in 0 .. 0 |-> v]) /\ [i \in 0 .. 0 |-> v] \in [0 .. 0 -> Nat]
    BY DEF Halves
  <2>2. QED
    BY <2>1
<1>2. ASSUME NEW m \in Nat, m \in T PROVE m + 1 \in T
  <2>1. PICK f \in [0 .. m -> Nat] : Halves(v, m, f)
    BY <1>2
  <2>2. f[0] = v /\ \A i \in 1 .. m : f[i] = f[i - 1] \div Base
    BY <2>1 DEF Halves
  <2> DEFINE g == [i \in 0 .. (m + 1) |-> IF i = m + 1 THEN f[m] \div Base ELSE f[i]]
  <2>3. g \in [0 .. (m + 1) -> Nat] /\ g[0] = v
    <3>1. f[m] \div Base \in Nat
      BY DivMod
    <3>2. QED
      BY <2>2, <3>1
  <2>4. ASSUME NEW i \in 1 .. (m + 1) PROVE g[i] = g[i - 1] \div Base
    <3>1. CASE i = m + 1
      <4>1. g[i] = f[m] \div Base /\ g[i - 1] = f[m]
        BY <3>1
      <4>2. QED
        BY <4>1
    <3>2. CASE i # m + 1
      <4>1. i \in 1 .. m /\ i - 1 \in 0 .. m /\ i - 1 # m + 1
        BY <3>2
      <4>2. g[i] = f[i] /\ g[i - 1] = f[i - 1]
        BY <3>2, <4>1
      <4>3. QED
        BY <2>2, <4>1, <4>2
    <3>3. QED
      BY <3>1, <3>2
  <2> HIDE DEF g
  <2>5. Halves(v, m + 1, g)
    <3>1. \A i \in 0 .. (m + 1) : g[i] = IF i = 0 THEN v ELSE g[i - 1] \div Base
      BY <2>3, <2>4
    <3>2. DOMAIN g = 0 .. (m + 1) /\ g = [i \in 0 .. (m + 1) |-> g[i]]
      BY <2>3
    <3>3. QED
      BY <3>1, <3>2 DEF Halves
  <2>6. QED
    BY <2>3, <2>5
<1> HIDE DEF T
<1>3. \A n \in Nat : n \in T
  BY <1>1, <1>2, Induction
<1>4. QED
  BY <1>3 DEF T

LEMMA HalvesUnique ==
    ASSUME NEW v, NEW n \in Nat, NEW f, Halves(v, n, f), NEW g, Halves(v, n + 1, g)
    PROVE  \A i \in 0 .. n : f[i] = g[i]
<1>1. f[0] = v /\ \A i \in 1 .. n : f[i] = f[i - 1] \div Base
  BY DEF Halves
<1>2. g[0] = v /\ \A i \in 1 .. n : g[i] = g[i - 1] \div Base
  BY DEF Halves
<1> DEFINE T == {i \in 0 .. n : f[i] = g[i]}
<1>3. 0 \in T
  BY <1>1, <1>2
<1>4. ASSUME NEW i \in 0 .. (n - 1), i \in T PROVE i + 1 \in T
  <2>1. i + 1 \in 1 .. n /\ (i + 1) - 1 = i
    OBVIOUS
  <2>2. f[i + 1] = f[i] \div Base /\ g[i + 1] = g[i] \div Base
    BY <1>1, <1>2, <2>1
  <2>3. QED
    BY <1>4, <2>1, <2>2
<1> HIDE DEF T
<1>5. \A i \in 0 .. n : i \in T
  BY <1>3, <1>4, InductionTo
<1>6. QED
  BY <1>5 DEF T

LEMMA LeftSteps ==
    ASSUME NEW v \in Nat
    PROVE  /\ Left(v, 0) = v
           /\ \A k \in Nat : Left(v, k) \in Nat /\ Left(v, k + 1) = Left(v, k) \div Base
<1>1. ASSUME NEW n \in Nat
      PROVE  \E f : Halves(v, n, f) /\ Left(v, n) = f[n]
  <2>1. \E f : Halves(v, n, f)
    BY HalvesExist
  <2>2. Left(v, n) = (CHOOSE f : Halves(v, n, f))[n]
    BY DEF Left, Halves
  <2>3. QED
    BY <2>1, <2>2
<1>2. Left(v, 0) = v
  BY <1>1 DEF Halves
<1>3. ASSUME NEW k \in Nat PROVE Left(v, k) \in Nat /\ Left(v, k + 1) = Left(v, k) \div Base
  <2>1. PICK f : Halves(v, k, f) /\ Left(v, k) = f[k]
    BY <1>1
  <2>2. PICK g : Halves(v, k + 1, g) /\ Left(v, k + 1) = g[k + 1]
    BY <1>1
  <2>3. PICK h \in [0 .. k -> Nat] : Halves(v, k, h)
    BY HalvesExist
  <2>4. \A i \in 0 .. k : f[i] = g[i]
    BY <2>1, <2>2, HalvesUnique
  <2>5. \A i \in 0 .. k : h[i] = g[i]
    BY <2>2, <2>3, HalvesUnique
  <2>6. k \in 0 .. k /\ k + 1 \in 0 .. (k + 1) /\ k + 1 # 0 /\ (k + 1) - 1 = k
    OBVIOUS
  <2>7. g[k + 1] = g[k] \div Base
    BY <2>2, <2>6 DEF Halves
  <2>8. g[k] \in Nat /\ f[k] = g[k]
    BY <2>3, <2>4, <2>5, <2>6
  <2>9. QED
    BY <2>1, <2>2, <2>7, <2>8
<1>4. QED
  BY <1>2, <1>3

-----------------------------------------------------------------------------
(***************************************************************************)
(* Bytes and Number are inverse to each other.                              *)
(***************************************************************************)
LEMMA BytesType ==
    ASSUME NEW v \in Nat, NEW size \in Nat
    PROVE  /\ Bytes(v, size) \in Seq(Byte)
           /\ Len(Bytes(v, size)) = size
           /\ \A i \in 1 .. size : Bytes(v, size)[i] = Left(v, i - 1) % Base
<1>1. \A i \in 1 .. size : Left(v, i - 1) % Base \in Byte
  <2>1. SUFFICES ASSUME NEW i \in 1 .. size PROVE Left(v, i - 1) % Base \in Byte
    OBVIOUS
  <2>2. i - 1 \in Nat
    OBVIOUS
  <2>3. Left(v, i - 1) \in Nat
    BY <2>2, LeftSteps
  <2>4. QED
    BY <2>3, DivMod
<1>2. Bytes(v, size) \in [1 .. size -> Byte]
  BY <1>1 DEF Bytes
<1>3. QED
  BY <1>2, LenProperties DEF Bytes

\* The function that Number recurs on.
Spelled(b, f) ==
    f = [k \in 0 .. Len(b) |-> IF k = 0 THEN 0 ELSE b[Len(b) + 1 - k] + Base * f[k - 1]]

LEMMA NumberBytes ==
    ASSUME NEW v \in Nat, NEW size \in Nat, Left(v, size) = 0
    PROVE  Number(Bytes(v, size)) = v
<1> DEFINE b == Bytes(v, size)
           g == [k \in 0 .. size |-> Left(v, size - k)]
<1>1. /\ Len(b) = size
      /\ \A i \in 1 .. size : b[i] = Left(v, i - 1) % Base
  BY BytesType
<1>2. g[0] = 0
  BY DEF g
<1>3. ASSUME NEW k \in 1 .. size PROVE g[k] = b[size + 1 - k] + Base * g[k - 1]
  <2>1. size - k \in Nat /\ (size - k) + 1 = size - (k - 1) /\ size + 1 - k \in 1 .. size
        /\ (size + 1 - k) - 1 = size - k /\ k - 1 \in 0 .. size /\ k \in 0 .. size
    OBVIOUS
  <2>2. Left(v, size - k) \in Nat /\ Left(v, (size - k) + 1) = Left(v, size - k) \div Base
    BY <2>1, LeftSteps
  <2>3. Left(v, size - k) = (Left(v, size - k) % Base) + Base * (Left(v, size - k) \div Base)
    BY <2>2, DivMod
  <2>4. b[size + 1 - k] = Left(v, size - k) % Base
    BY <1>1, <2>1
  <2>5. g[k] = Left(v, size - k) /\ g[k - 1] = Left(v, (size - k) + 1)
    BY <2>1
  <2>6. QED
    BY <2>2, <2>3, <2>4, <2>5
<1> HIDE DEF b
<1>4. Spelled(b, g)
  <2> HIDE DEF g
  <2>1. \A k \in 0 .. size : g[k] = IF k = 0 THEN 0 ELSE b[size + 1 - k] + Base * g[k - 1]
    BY <1>2, <1>3
  <2>2. g = [k \in 0 .. size |-> g[k]]
    BY DEF g
  <2>3. QED
    BY <1>1, <2>1, <2>2 DEF Spelled
<1>5. PICK f : Spelled(b, f) /\ Number(b) = f[size]
  <2>1. Number(b) = (CHOOSE f : Spelled(b, f))[Len(b)]
    BY DEF Number, Spelled
  <2>2. QED
    BY <1>1, <1>4, <2>1
<1>6. f[0] = 0 /\ \A k \in 1 .. size : f[k] = b[size + 1 - k] + Base * f[k - 1]
  BY <1>1, <1>5 DEF Spelled
<1> HIDE DEF g
<1> DEFINE T == {k \in 0 .. size : f[k] = g[k]}
<1>7. 0 \in T
  BY <1>2, <1>6
<1>8. ASSUME NEW k \in 0 .. (size - 1), k \in T PROVE k + 1 \in T
  <2>1. k + 1 \in 1 .. size /\ (k + 1) - 1 = k
    OBVIOUS
  <2>2. f[k + 1] = b[size + 1 - (k + 1)] + Base * f[k]
    BY <1>6, <2>1
  <2>3. g[k + 1] = b[size + 1 - (k + 1)] + Base * g[k]
    BY <1>3, <2>1
  <2>4. QED
    BY <1>8, <2>1, <2>2, <2>3
<1> HIDE DEF T
<1>9. \A k \in 0 .. size : k \in T
  BY <1>7, <1>8, InductionTo
<1>10. f[size] = g[size]
  BY <1>9 DEF T
<1>11. g[size] = v
  BY LeftSteps DEF g
<1>12. QED
  BY <1>5, <1>10, <1>11 DEF b

-----------------------------------------------------------------------------
(***************************************************************************)
(* FlattenSeq, from both ends.                                              *)
(***************************************************************************)
Iterated(n, base, step, f) ==
    f[0] = base /\ \A i \in 1 .. n : f[i] = step[i][f[i - 1]]

LEMMA Iteration ==
    ASSUME NEW S, NEW base \in S, NEW n \in Nat, NEW step \in [1 .. n -> [S -> S]]
    PROVE  \E f \in [0 .. n -> S] : Iterated(n, base, step, f)
<1> DEFINE T == {m \in 0 .. n : \E f \in [0 .. m -> S] : Iterated(m, base, step, f)}
<1>1. 0 \in T
  <2>1. [i \in 0 .. 0 |-> base] \in [0 .. 0 -> S] /\ Iterated(0, base, step, [i \in 0 .. 0 |-> base])
    BY DEF Iterated
  <2>2. QED
    BY <2>1
<1>2. ASSUME NEW m \in 0 .. (n - 1), m \in T PROVE m + 1 \in T
  <2>1. PICK f \in [0 .. m -> S] : Iterated(m, base, step, f)
    BY <1>2
  <2>2. f[0] = base /\ \A i \in 1 .. m : f[i] = step[i][f[i - 1]]
    BY <2>1 DEF Iterated
  <2> DEFINE g == [i \in 0 .. (m + 1) |-> IF i = m + 1 THEN step[m + 1][f[m]] ELSE f[i]]
  <2>3. g \in [0 .. (m + 1) -> S] /\ g[0] = base
    <3>1. step[m + 1] \in [S -> S] /\ f[m] \in S
      BY <2>1
    <3>2. step[m + 1][f[m]] \in S
      BY <3>1
    <3>3. QED
      BY <2>2, <3>2
  <2>4. ASSUME NEW i \in 1 .. (m + 1) PROVE g[i] = step[i][g[i - 1]]
    <3>1. CASE i = m + 1
      <4>1. i - 1 = m /\ m \in 0 .. (m + 1) /\ m # m + 1
        BY <3>1
      <4>2. g[i] = step[m + 1][f[m]] /\ g[i - 1] = f[m]
        BY <3>1, <4>1
      <4>3. QED
        BY <3>1, <4>2
    <3>2. CASE i # m + 1
      <4>1. i \in 1 .. m /\ i - 1 \in 0 .. (m + 1) /\ i - 1 # m + 1
        BY <3>2
      <4>2. g[i] = f[i] /\ g[i - 1] = f[i - 1]
        BY <3>2, <4>1
      <4>3. QED
        BY <2>2, <4>1, <4>2
    <3>3. QED
      BY <3>1, <3>2
  <2> HIDE DEF g
  <2>5. Iterated(m + 1, base, step, g)
    BY <2>3, <2>4 DEF Iterated
  <2>6. m + 1 \in 0 .. n
    OBVIOUS
  <2>7. QED
    BY <2>3, <2>5, <2>6
<1> HIDE DEF T
<1>3. \A i \in 0 .. n : i \in T
  BY <1>1, <1>2, InductionTo
<1>4. QED
  BY <1>3 DEF T

\* What comes before the element after i of a sequence of pieces, and what after.
Befores(ss, pre) ==
    pre[0] = << >> /\ \A i \in 1 .. Len(ss) : pre[i] = pre[i - 1] \o ss[i]

Afters(ss, suf) ==
    suf[Len(ss)] = << >> /\ \A i \in 1 .. Len(ss) : suf[i - 1] = ss[i] \o suf[i]

LEMMA BeforesExist ==
    ASSUME NEW ss \in Seq(Seq(Byte))
    PROVE  \E pre \in [0 .. Len(ss) -> Seq(Byte)] : Befores(ss, pre)
<1> DEFINE n == Len(ss)
           step == [i \in 1 .. n |-> [x \in Seq(Byte) |-> x \o ss[i]]]
<1>1. n \in Nat /\ \A i \in 1 .. n : ss[i] \in Seq(Byte)
  OBVIOUS
<1>2. << >> \in Seq(Byte)
  OBVIOUS
<1>3. \A i \in 1 .. n : \A x \in Seq(Byte) : x \o ss[i] \in Seq(Byte)
  BY <1>1, ConcatProperties
<1>4. step \in [1 .. n -> [Seq(Byte) -> Seq(Byte)]]
  BY <1>3
<1>5. \A i \in 1 .. n : \A x \in Seq(Byte) : step[i][x] = x \o ss[i]
  OBVIOUS
<1> HIDE DEF n, step
<1>6. PICK pre \in [0 .. n -> Seq(Byte)] : Iterated(n, << >>, step, pre)
  BY <1>1, <1>2, <1>4, Iteration
<1>7. \A i \in 1 .. n : pre[i] = pre[i - 1] \o ss[i]
  <2>1. SUFFICES ASSUME NEW i \in 1 .. n PROVE pre[i] = pre[i - 1] \o ss[i]
    OBVIOUS
  <2>2. i - 1 \in 0 .. n
    BY <1>1
  <2>3. pre[i - 1] \in Seq(Byte)
    BY <2>2
  <2>4. pre[i] = step[i][pre[i - 1]]
    BY <1>6 DEF Iterated
  <2>5. QED
    BY <1>5, <2>3, <2>4
<1>8. QED
  BY <1>6, <1>7 DEF Befores, Iterated, n

LEMMA AftersExist ==
    ASSUME NEW ss \in Seq(Seq(Byte))
    PROVE  \E suf \in [0 .. Len(ss) -> Seq(Byte)] : Afters(ss, suf)
<1> DEFINE n == Len(ss)
           step == [i \in 1 .. n |-> [x \in Seq(Byte) |-> ss[n + 1 - i] \o x]]
<1>1. n \in Nat /\ \A i \in 1 .. n : ss[i] \in Seq(Byte)
  OBVIOUS
<1>2. << >> \in Seq(Byte)
  OBVIOUS
<1>3. \A i \in 1 .. n : \A x \in Seq(Byte) : ss[n + 1 - i] \o x \in Seq(Byte)
  <2>1. \A i \in 1 .. n : n + 1 - i \in 1 .. n
    BY <1>1
  <2>2. \A i \in 1 .. n : ss[n + 1 - i] \in Seq(Byte)
    BY <1>1, <2>1
  <2>3. QED
    BY <2>2, ConcatProperties
<1>4. step \in [1 .. n -> [Seq(Byte) -> Seq(Byte)]]
  BY <1>3
<1>5. \A i \in 1 .. n : \A x \in Seq(Byte) : step[i][x] = ss[n + 1 - i] \o x
  OBVIOUS
<1> HIDE DEF n, step
<1>6. PICK f \in [0 .. n -> Seq(Byte)] : Iterated(n, << >>, step, f)
  BY <1>1, <1>2, <1>4, Iteration
<1> DEFINE suf == [i \in 0 .. n |-> f[n - i]]
<1>7. \A i \in 0 .. n : n - i \in 0 .. n
  BY <1>1
<1>8. suf \in [0 .. n -> Seq(Byte)]
  BY <1>7
<1>9. \A i \in 1 .. n : suf[i - 1] = ss[i] \o suf[i]
  <2>1. SUFFICES ASSUME NEW i \in 1 .. n PROVE suf[i - 1] = ss[i] \o suf[i]
    OBVIOUS
  <2>2. /\ i - 1 \in 0 .. n /\ n - (i - 1) = n + 1 - i /\ n + 1 - i \in 1 .. n
        /\ (n + 1 - i) - 1 = n - i /\ n - i \in 0 .. n /\ n + 1 - (n + 1 - i) = i
    BY <1>1
  <2>3. f[n - i] \in Seq(Byte)
    BY <2>2
  <2>4. f[n + 1 - i] = step[n + 1 - i][f[n - i]]
    BY <1>6, <2>2 DEF Iterated
  <2>5. step[n + 1 - i][f[n - i]] = ss[i] \o f[n - i]
    BY <1>5, <2>2, <2>3
  <2>6. suf[i - 1] = f[n + 1 - i] /\ suf[i] = f[n - i]
    BY <2>2
  <2>7. QED
    BY <2>4, <2>5, <2>6
<1>10. suf[n] = << >>
  <2>1. n \in 0 .. n /\ n - n = 0
    BY <1>1
  <2>2. QED
    BY <1>6, <2>1 DEF Iterated
<1> HIDE DEF suf
<1>11. QED
  BY <1>8, <1>9, <1>10 DEF Afters, n

\* The function that FlattenSeq recurs on.
Flattened(ss, f) == f = [i \in 1 .. Len(ss) |-> IF i = 1 THEN ss[i] ELSE f[i - 1] \o ss[i]]

LEMMA FlattenBefores ==
    ASSUME NEW ss \in Seq(Seq(Byte)), NEW pre \in [0 .. Len(ss) -> Seq(Byte)], Befores(ss, pre)
    PROVE  FlattenSeq(ss) = pre[Len(ss)]
<1>1. Len(ss) \in Nat /\ \A i \in 1 .. Len(ss) : ss[i] \in Seq(Byte)
  OBVIOUS
<1>2. CASE Len(ss) = 0
  <2>1. ss = << >>
    BY <1>2, EmptySeq
  <2>2. FlattenSeq(ss) = ss
    BY <1>2 DEF FlattenSeq
  <2>3. QED
    BY <1>2, <2>1, <2>2 DEF Befores
<1>3. CASE Len(ss) # 0
  <2> DEFINE n == Len(ss)
             g == [i \in 1 .. n |-> pre[i]]
  <2>1. n \in Nat /\ n >= 1
    BY <1>1, <1>3
  <2>2. pre[0] = << >> /\ \A i \in 1 .. n : pre[i] = pre[i - 1] \o ss[i]
    BY DEF Befores
  <2>3. g[1] = ss[1]
    <3>1. 1 \in 1 .. n /\ 1 - 1 = 0
      BY <2>1
    <3>2. pre[1] = << >> \o ss[1] /\ ss[1] \in Seq(Byte)
      BY <1>1, <2>2, <3>1
    <3>3. << >> \o ss[1] = ss[1]
      BY <3>2, ConcatEmptySeq
    <3>4. QED
      BY <3>1, <3>2, <3>3
  <2>4. \A i \in 1 .. n : i # 1 => g[i] = g[i - 1] \o ss[i]
    <3>1. \A i \in 1 .. n : i # 1 => i - 1 \in 1 .. n
      BY <2>1
    <3>2. QED
      BY <2>2, <3>1
  <2>5. g = [i \in 1 .. n |-> g[i]]
    OBVIOUS
  <2> HIDE DEF g
  <2>6. Flattened(ss, g)
    BY <2>3, <2>4, <2>5 DEF Flattened
  <2>7. FlattenSeq(ss) = (CHOOSE f : Flattened(ss, f))[n]
    BY <1>3 DEF FlattenSeq, Flattened
  <2> HIDE DEF n
  <2>8. PICK f : Flattened(ss, f) /\ FlattenSeq(ss) = f[n]
    BY <2>6, <2>7
  <2>9. f[1] = ss[1] /\ \A i \in 1 .. n : i # 1 => f[i] = f[i - 1] \o ss[i]
    <3>1. f = [i \in 1 .. n |-> IF i = 1 THEN ss[i] ELSE f[i - 1] \o ss[i]]
      BY <2>8 DEF Flattened, n
    <3>2. \A i \in 1 .. n : f[i] = IF i = 1 THEN ss[i] ELSE f[i - 1] \o ss[i]
      BY <3>1
    <3>3. 1 \in 1 .. n
      BY <2>1
    <3>4. QED
      BY <3>2, <3>3
  <2> DEFINE T == {i \in 0 .. n : i # 0 => f[i] = g[i]}
  <2>10. 0 \in T
    BY <2>1
  <2>11. ASSUME NEW i \in 0 .. (n - 1), i \in T PROVE i + 1 \in T
    <3>1. i + 1 \in 1 .. n /\ (i + 1) - 1 = i
      BY <2>1
    <3>2. CASE i = 0
      <4>1. i + 1 = 1
        BY <3>2
      <4>2. f[i + 1] = g[i + 1]
        BY <2>3, <2>9, <4>1
      <4>3. QED
        BY <3>1, <4>2
    <3>3. CASE i # 0
      <4>1. f[i] = g[i] /\ i + 1 # 1
        BY <2>11, <3>1, <3>3
      <4>2. f[i + 1] = f[i] \o ss[i + 1] /\ g[i + 1] = g[i] \o ss[i + 1]
        BY <2>4, <2>9, <3>1, <4>1
      <4>3. f[i + 1] = g[i + 1]
        BY <4>1, <4>2
      <4>4. QED
        BY <3>1, <4>3
    <3>4. QED
      BY <3>2, <3>3
  <2> HIDE DEF T
  <2>12. \A i \in 0 .. n : i \in T
    BY <2>1, <2>10, <2>11, InductionTo
  <2>13. f[n] = g[n]
    BY <2>1, <2>12 DEF T
  <2>14. g[n] = pre[n]
    BY <2>1 DEF g
  <2>15. QED
    BY <2>8, <2>13, <2>14 DEF n
<1>4. QED
  BY <1>2, <1>3

LEMMA FlattenSplit ==
    ASSUME NEW ss \in Seq(Seq(Byte)),
           NEW pre \in [0 .. Len(ss) -> Seq(Byte)], Befores(ss, pre),
           NEW suf \in [0 .. Len(ss) -> Seq(Byte)], Afters(ss, suf)
    PROVE  /\ FlattenSeq(ss) \in Seq(Byte)
           /\ \A i \in 0 .. Len(ss) : pre[i] \o suf[i] = FlattenSeq(ss)
<1> DEFINE n == Len(ss)
           T == {i \in 0 .. n : pre[i] \o suf[i] = pre[0] \o suf[0]}
<1>1. n \in Nat /\ \A i \in 1 .. n : ss[i] \in Seq(Byte)
  OBVIOUS
<1> HIDE DEF n
<1>2. 0 \in T
  BY <1>1
<1>3. ASSUME NEW i \in 0 .. (n - 1), i \in T PROVE i + 1 \in T
  <2>1. i + 1 \in 1 .. n /\ (i + 1) - 1 = i /\ i \in 0 .. n /\ i + 1 \in 0 .. n
    BY <1>1
  <2>2. pre[i] \in Seq(Byte) /\ suf[i + 1] \in Seq(Byte) /\ ss[i + 1] \in Seq(Byte)
    BY <1>1, <2>1 DEF n
  <2>3. pre[i + 1] = pre[i] \o ss[i + 1] /\ suf[i] = ss[i + 1] \o suf[i + 1]
    BY <2>1 DEF Befores, Afters, n
  <2>4. (pre[i] \o ss[i + 1]) \o suf[i + 1] = pre[i] \o (ss[i + 1] \o suf[i + 1])
    <3>1. \A a, b, c \in Seq(Byte) : (a \o b) \o c = a \o (b \o c)
      BY ConcatAssociative
    <3>2. QED
      BY <2>2, <3>1
  <2>5. pre[i] \o suf[i] = pre[0] \o suf[0]
    BY <1>3
  <2>6. QED
    BY <2>1, <2>3, <2>4, <2>5
<1> HIDE DEF T
<1>4. \A i \in 0 .. n : i \in T
  BY <1>1, <1>2, <1>3, InductionTo
<1>5. \A i \in 0 .. n : pre[i] \o suf[i] = pre[n] \o suf[n]
  <2>1. n \in 0 .. n
    BY <1>1
  <2>2. QED
    BY <1>4, <2>1 DEF T
<1>6. pre[n] \o suf[n] = pre[n] /\ pre[n] \in Seq(Byte)
  <2>1. pre[n] \in Seq(Byte) /\ suf[n] = << >>
    BY <1>1 DEF Afters, n
  <2>2. QED
    BY <2>1, ConcatEmptySeq
<1>7. FlattenSeq(ss) = pre[n]
  BY FlattenBefores DEF n
<1>8. QED
  BY <1>5, <1>6, <1>7 DEF n

-----------------------------------------------------------------------------
(***************************************************************************)
(* Reading what has been written.                                           *)
(***************************************************************************)
LEMMA ConcatType ==
    /\ \A a, b \in Seq(Byte) : a \o b \in Seq(Byte) /\ Len(a \o b) = Len(a) + Len(b)
    /\ \A a, b, c \in Seq(Byte) : (a \o b) \o c = a \o (b \o c)
    /\ \A a \in Seq(Byte) : a \o << >> = a /\ << >> \o a = a /\ Len(a) \in Nat
    /\ << >> \in Seq(Byte)
BY ConcatProperties, ConcatAssociative, ConcatEmptySeq, LenProperties, EmptySeq

LEMMA ConcatShift ==
    \A x, y, z \in Seq(Byte) : (x \o y) \o z = x \o (y \o z) /\ y \o z \in Seq(Byte)
<1>1. \A x, y, z \in Seq(Byte) : (x \o y) \o z = x \o (y \o z)
  BY ConcatType, Zenon
<1>2. \A y, z \in Seq(Byte) : y \o z \in Seq(Byte)
  BY ConcatType, Zenon
<1>3. QED
  BY <1>1, <1>2, Zenon

LEMMA SubSeqConcat ==
    ASSUME NEW b \in Seq(Byte), NEW r \in Seq(Byte)
    PROVE  /\ SubSeq(b \o r, 1, Len(b)) = b
           /\ SubSeq(b \o r, Len(b) + 1, Len(b \o r)) = r
<1> DEFINE s == b \o r
           head == SubSeq(s, 1, Len(b))
           rest == SubSeq(s, Len(b) + 1, Len(s))
<1>1. /\ s \in Seq(Byte) /\ Len(s) = Len(b) + Len(r) /\ Len(b) \in Nat /\ Len(r) \in Nat
      /\ \A i \in 1 .. Len(b) + Len(r) : s[i] = IF i <= Len(b) THEN b[i] ELSE r[i - Len(b)]
  BY ConcatProperties
<1>2. \A i \in 1 .. Len(s) : s[i] \in Byte
  BY <1>1
<1> HIDE DEF s
<1>3. head \in Seq(Byte) /\ Len(head) = Len(b) /\ \A i \in 1 .. Len(b) : head[i] = b[i]
  <2>1. \A i \in 1 .. Len(b) : s[i] \in Byte /\ s[i] = b[i]
    BY <1>1, <1>2
  <2>2. head \in Seq(Byte) /\ Len(head) = Len(b) /\ \A i \in 1 .. Len(b) : head[i] = s[i]
    BY <1>1, <2>1
  <2>3. QED
    BY <2>1, <2>2
<1>4. rest \in Seq(Byte) /\ Len(rest) = Len(r) /\ \A i \in 1 .. Len(r) : rest[i] = r[i]
  <2>1. \A i \in 1 .. Len(r) : s[Len(b) + i] = r[i]
    BY <1>1, SMTT(60)
  <2>2. \A i \in (Len(b) + 1) .. Len(s) : s[i] \in Byte
    BY <1>1, <1>2
  <2>3. rest \in Seq(Byte) /\ Len(rest) = Len(r) /\ \A i \in 1 .. Len(r) : rest[i] = s[Len(b) + i]
    BY <1>1, <2>2
  <2>4. QED
    BY <2>1, <2>3
<1> HIDE DEF head, rest
<1>5. head = b
  BY <1>3, SeqEqual
<1>6. rest = r
  BY <1>4, SeqEqual
<1>7. QED
  BY <1>5, <1>6 DEF head, rest, s

LEMMA ReadWhole ==
    ASSUME NEW b \in Seq(Byte), NEW r \in Seq(Byte)
    PROVE  /\ Got(Stream(b \o r), Len(b)) = b
           /\ After(Stream(b \o r), Len(b)) = Stream(r)
<1>1. Len(b \o r) = Len(b) + Len(r) /\ Len(b) \in Nat /\ Len(r) \in Nat
  BY ConcatType
<1>2. Got(Stream(b \o r), Len(b)) = b
  <2>1. (IF Len(b) < Len(b \o r) THEN Len(b) ELSE Len(b \o r)) = Len(b)
    BY <1>1
  <2>2. Got(Stream(b \o r), Len(b)) = SubSeq(b \o r, 1, Len(b))
    BY <2>1 DEF Got, Stream
  <2>3. QED
    BY <2>2, SubSeqConcat
<1>3. After(Stream(b \o r), Len(b)) = Stream(r)
  <2>1. Len(b \o r) >= Len(b)
    BY <1>1
  <2>2. After(Stream(b \o r), Len(b)) =
            [rest |-> SubSeq(b \o r, Len(b) + 1, Len(b \o r)), good |-> TRUE]
    BY <1>2, <2>1 DEF After, Stream
  <2>3. QED
    BY <2>2, SubSeqConcat DEF Stream
<1>4. QED
  BY <1>2, <1>3

LEMMA OverWhole ==
    ASSUME NEW b \in Seq(Byte), NEW old \in Seq(Nat), Len(old) = Len(b)
    PROVE  Over(old, b) = b
<1>1. \A i \in 1 .. Len(old) : i <= Len(b)
  BY LenProperties
<1>2. Over(old, b) = [i \in 1 .. Len(b) |-> b[i]]
  BY <1>1 DEF Over
<1>3. QED
  BY <1>2, LenProperties

LEMMA SeqOfFunction ==
    ASSUME NEW S, NEW n \in Nat, NEW f \in [1 .. n -> S]
    PROVE  f \in Seq(S) /\ Len(f) = n
OBVIOUS

\* Pieces that are equally long.
LEMMA PieceLengths ==
    ASSUME NEW ss \in Seq(Seq(Byte)), NEW elem \in Nat, \A i \in 1 .. Len(ss) : Len(ss[i]) = elem,
           NEW pre \in [0 .. Len(ss) -> Seq(Byte)], Befores(ss, pre)
    PROVE  \A i \in 0 .. Len(ss) : Len(pre[i]) = i * elem
<1> DEFINE n == Len(ss)
           T == {i \in 0 .. n : Len(pre[i]) = i * elem}
<1>1. n \in Nat /\ \A i \in 1 .. n : ss[i] \in Seq(Byte) /\ Len(ss[i]) = elem
  OBVIOUS
<1>2. pre \in [0 .. n -> Seq(Byte)] /\ pre[0] = << >> /\ \A i \in 1 .. n : pre[i] = pre[i - 1] \o ss[i]
  BY DEF Befores
<1> HIDE DEF n
<1>3. 0 \in T
  BY <1>1, <1>2
<1>4. ASSUME NEW i \in 0 .. (n - 1), i \in T PROVE i + 1 \in T
  <2>1. i + 1 \in 1 .. n /\ (i + 1) - 1 = i /\ i \in 0 .. n /\ i + 1 \in 0 .. n /\ i \in Nat
    BY <1>1
  <2>2. pre[i + 1] = pre[i] \o ss[i + 1]
    BY <1>2, <2>1
  <2>3. pre[i] \in Seq(Byte) /\ ss[i + 1] \in Seq(Byte) /\ Len(ss[i + 1]) = elem
    BY <1>1, <1>2, <2>1
  <2>4. Len(pre[i + 1]) = i * elem + elem
    <3>1. Len(pre[i + 1]) = Len(pre[i]) + Len(ss[i + 1])
      BY <2>2, <2>3, ConcatType
    <3>2. Len(pre[i]) = i * elem
      BY <1>4
    <3>3. QED
      BY <2>3, <3>1, <3>2
  <2>5. i * elem + elem = (i + 1) * elem
    BY <2>1
  <2>6. QED
    BY <2>1, <2>4, <2>5
<1> HIDE DEF T
<1>5. \A i \in 0 .. n : i \in T
  BY <1>1, <1>3, <1>4, InductionTo
<1>6. QED
  BY <1>5 DEF T, n

\* What is left of a whole when its end is cut off.
LEMMA CutBehind ==
    ASSUME NEW h \in Seq(Byte), NEW r \in Seq(Byte), NEW k \in Nat, Len(h) <= k, k <= Len(h \o r)
    PROVE  \E q \in Seq(Byte) : SubSeq(h \o r, 1, k) = h \o q
<1> DEFINE s == h \o r
           q == SubSeq(r, 1, k - Len(h))
           x == SubSeq(s, 1, k)
           y == h \o q
<1>1. /\ s \in Seq(Byte) /\ Len(s) = Len(h) + Len(r) /\ Len(h) \in Nat /\ Len(r) \in Nat
      /\ \A i \in 1 .. Len(h) + Len(r) : s[i] = IF i <= Len(h) THEN h[i] ELSE r[i - Len(h)]
  BY ConcatProperties
<1> HIDE DEF s
<1>2. k <= Len(h) + Len(r)
  BY <1>1 DEF s
<1>3. q \in Seq(Byte) /\ Len(q) = k - Len(h) /\ \A i \in 1 .. (k - Len(h)) : q[i] = r[i]
  <2>1. \A i \in 1 .. (k - Len(h)) : r[i] \in Byte
    BY <1>1, <1>2
  <2>2. k - Len(h) \in Nat
    BY <1>1
  <2>3. QED
    BY <2>1, <2>2
<1> HIDE DEF q
<1>4. /\ y \in Seq(Byte) /\ Len(y) = k
      /\ \A i \in 1 .. k : y[i] = IF i <= Len(h) THEN h[i] ELSE q[i - Len(h)]
  <2>1. Len(h) + Len(q) = k
    BY <1>1, <1>3
  <2>2. QED
    BY <1>1, <1>3, <2>1, ConcatProperties
<1> HIDE DEF y
<1>5. x \in Seq(Byte) /\ Len(x) = k /\ \A i \in 1 .. k : x[i] = s[i]
  <2>1. \A i \in 1 .. k : s[i] \in Byte
    BY <1>1, <1>2
  <2>2. QED
    BY <2>1
<1> HIDE DEF x
<1>6. \A i \in 1 .. k : x[i] = y[i]
  <2>1. SUFFICES ASSUME NEW i \in 1 .. k PROVE x[i] = y[i]
    OBVIOUS
  <2>2. i \in 1 .. Len(h) + Len(r)
    BY <1>1, <1>2
  <2>3. CASE i <= Len(h)
    BY <1>1, <1>4, <1>5, <2>2, <2>3
  <2>4. CASE ~(i <= Len(h))
    <3>1. i - Len(h) \in 1 .. (k - Len(h))
      BY <1>1, <2>4
    <3>2. QED
      BY <1>1, <1>3, <1>4, <1>5, <2>2, <2>4, <3>1
  <2>5. QED
    BY <2>3, <2>4
<1>7. x = y
  BY <1>4, <1>5, <1>6, SeqEqual
<1>8. QED
  BY <1>3, <1>7 DEF x, y, s

LEMMA FillType ==
    ASSUME NEW n \in Nat
    PROVE  [i \in 1 .. n |-> 0] \in Seq(Nat) /\ Len([i \in 1 .. n |-> 0]) = n
<1>1. [i \in 1 .. n |-> 0] \in [1 .. n -> Nat]
  OBVIOUS
<1>2. QED
  BY <1>1

LEMMA UnpackPlainBytes ==
    ASSUME NEW v \in Nat, NEW size \in Nat, Left(v, size) = 0, NEW r \in Seq(Byte), NEW old \in Nat
    PROVE  /\ UnpackPlain(Stream(Bytes(v, size) \o r), size, old) = v
           /\ After(Stream(Bytes(v, size) \o r), size) = Stream(r)
<1>1. Bytes(v, size) \in Seq(Byte) /\ Len(Bytes(v, size)) = size
  BY BytesType
<1>2. Bytes(old, size) \in Seq(Nat) /\ Len(Bytes(old, size)) = size
  <2>1. Byte \subseteq Nat
    BY PackAssumption DEF Byte
  <2>2. Bytes(old, size) \in Seq(Byte) /\ Len(Bytes(old, size)) = size
    BY BytesType
  <2>3. QED
    BY <2>1, <2>2, SeqMonotonic
<1>3. /\ Got(Stream(Bytes(v, size) \o r), size) = Bytes(v, size)
      /\ After(Stream(Bytes(v, size) \o r), size) = Stream(r)
  BY <1>1, ReadWhole
<1>4. Over(Bytes(old, size), Bytes(v, size)) = Bytes(v, size)
  BY <1>1, <1>2, OverWhole
<1>5. QED
  BY <1>3, <1>4, NumberBytes DEF UnpackPlain

-----------------------------------------------------------------------------
(***************************************************************************)
(* A value survives the way from a platform to one that lays it out alike.  *)
(***************************************************************************)
Alike(a, b, type) ==
    /\ type.kind \in {"plain", "vector"} => a.sizeof[type.of] = b.sizeof[type.of]
    /\ type.kind = "string" => a.sizeof["unsigned int"] = b.sizeof["unsigned int"]
    /\ type.kind = "vector" => a.sizeof[a.size_t] = b.sizeof[b.size_t]

Survives(a, b, type, v) ==
    \A r \in Seq(Byte), junk \in Nat :
        UnpackValue(b, type, Stream(PackValue(a, type, v) \o r), junk)
            = [value |-> v, stream |-> Stream(r)]

LEMMA PlatformType ==
    ASSUME NEW a \in Platform
    PROVE  /\ \A t \in Fundamental : a.sizeof[t] \in Nat
           /\ a.size_t \in Fundamental /\ "unsigned int" \in Fundamental
BY DEF Platform, Fundamental

LEMMA PlainSurvives ==
    ASSUME NEW a \in Platform, NEW b \in Platform, NEW t \in Fundamental, NEW v,
           Fits(a, Plain(t), v)
    PROVE  /\ PackValue(a, Plain(t), v) \in Seq(Byte)
           /\ Alike(a, b, Plain(t)) => Survives(a, b, Plain(t), v)
<1> DEFINE size == a.sizeof[t]
<1>1. v \in Nat /\ Left(v, size) = 0 /\ size \in Nat
  BY PlatformType DEF Fits, FitsPlain, Plain
<1>2. PackValue(a, Plain(t), v) = Bytes(v, size)
  BY DEF PackValue, PackPlain, Plain
<1>3. ASSUME Alike(a, b, Plain(t)), NEW r \in Seq(Byte), NEW junk \in Nat
      PROVE  UnpackValue(b, Plain(t), Stream(Bytes(v, size) \o r), junk)
                 = [value |-> v, stream |-> Stream(r)]
  <2>1. b.sizeof[t] = size
    BY <1>3 DEF Alike, Plain
  <2>2. UnpackValue(b, Plain(t), Stream(Bytes(v, size) \o r), junk) =
            [value  |-> UnpackPlain(Stream(Bytes(v, size) \o r), size, 0),
             stream |-> After(Stream(Bytes(v, size) \o r), size)]
    BY <2>1 DEF UnpackValue, Plain
  <2>3. QED
    BY <1>1, <2>2, UnpackPlainBytes
<1>4. QED
  BY <1>1, <1>2, <1>3, BytesType DEF Survives

LEMMA StringSurvives ==
    ASSUME NEW a \in Platform, NEW b \in Platform, NEW v, Fits(a, String, v)
    PROVE  /\ PackValue(a, String, v) \in Seq(Byte)
           /\ Alike(a, b, String) => Survives(a, b, String, v)
<1> DEFINE uint == a.sizeof["unsigned int"]
           size == Bytes(Len(v), uint)
<1>1. /\ v \in Seq(Byte) /\ Len(v) \in Nat /\ Left(Len(v), uint) = 0 /\ uint \in Nat
      /\ size \in Seq(Byte)
  <2>1. v \in Seq(Byte) /\ Len(v) \in Nat /\ Left(Len(v), uint) = 0 /\ uint \in Nat
    BY PlatformType DEF Fits, FitsPlain, String
  <2>2. QED
    BY <2>1, BytesType
<1>2. PackValue(a, String, v) = size \o v
  <2>1. PackValue(a, String, v) = size \o SubSeq(v, 1, Number(size))
    BY DEF PackValue, PackString, PackPlain, String
  <2>2. SubSeq(v, 1, Number(size)) = v
    BY <1>1, NumberBytes, SubSeqFull
  <2>3. QED
    BY <2>1, <2>2
<1> HIDE DEF size
<1>3. ASSUME Alike(a, b, String), NEW r \in Seq(Byte), NEW junk \in Nat
      PROVE  UnpackValue(b, String, Stream((size \o v) \o r), junk)
                 = [value |-> v, stream |-> Stream(r)]
  <2> DEFINE stream == Stream(size \o (v \o r))
  <2>1. b.sizeof["unsigned int"] = uint
    BY <1>3 DEF Alike, String
  <2>2. (size \o v) \o r = size \o (v \o r) /\ v \o r \in Seq(Byte)
    BY <1>1, ConcatType
  <2>3. UnpackPlain(stream, uint, 0) = Len(v) /\ After(stream, uint) = Stream(v \o r)
    BY <1>1, <2>2, UnpackPlainBytes DEF size
  <2>4. Got(Stream(v \o r), Len(v)) = v /\ After(Stream(v \o r), Len(v)) = Stream(r)
    BY <1>1, ReadWhole
  <2>5. Over([i \in 1 .. Len(v) |-> 0], v) = v
    BY <1>1, FillType, OverWhole
  <2> HIDE DEF stream, uint
  <2>6. UnpackString(b, stream) = [value |-> v, stream |-> Stream(r)]
    BY <2>1, <2>3, <2>4, <2>5 DEF UnpackString
  <2>7. UnpackValue(b, String, stream, junk) = UnpackString(b, stream)
    BY DEF UnpackValue, String
  <2>8. QED
    BY <2>2, <2>6, <2>7 DEF stream
<1>4. size \o v \in Seq(Byte)
  BY <1>1, ConcatType
<1>5. Alike(a, b, String) => Survives(a, b, String, v)
  BY <1>2, <1>3 DEF Survives
<1>6. QED
  BY <1>2, <1>4, <1>5

LEMMA VectorSurvives ==
    ASSUME NEW a \in Platform, NEW b \in Platform, NEW t \in Fundamental, NEW v,
           Fits(a, Vector(t), v)
    PROVE  /\ PackValue(a, Vector(t), v) \in Seq(Byte)
           /\ Alike(a, b, Vector(t)) => Survives(a, b, Vector(t), v)
<1> DEFINE word == a.sizeof[a.size_t]
           elem == a.sizeof[t]
           n    == Len(v)
           size == Bytes(n, word)
           ss   == [i \in 1 .. n |-> Bytes(v[i], elem)]
           flat == FlattenSeq(ss)
<1>1. /\ v \in Seq(Nat) /\ n \in Nat /\ Left(n, word) = 0 /\ word \in Nat /\ elem \in Nat
      /\ \A i \in 1 .. n : v[i] \in Nat /\ Left(v[i], elem) = 0
  BY PlatformType DEF Fits, FitsPlain, Vector
<1>2. size \in Seq(Byte)
  BY <1>1, BytesType
<1>3. \A i \in 1 .. n : Bytes(v[i], elem) \in Seq(Byte) /\ Len(Bytes(v[i], elem)) = elem
  BY <1>1, BytesType
<1>4. /\ ss \in Seq(Seq(Byte)) /\ Len(ss) = n
      /\ \A i \in 1 .. n : ss[i] = Bytes(v[i], elem)
  <2>1. ss \in [1 .. n -> Seq(Byte)]
    BY <1>3
  <2> HIDE DEF n
  <2>2. ss \in Seq(Seq(Byte)) /\ Len(ss) = n
    BY <1>1, <2>1
  <2>3. QED
    BY <2>2
<1>5. PackValue(a, Vector(t), v) = size \o flat
  BY DEF PackValue, PackVector, PackPlain, Vector
<1> HIDE DEF ss, size, elem, word, n
<1>6. PICK pre \in [0 .. n -> Seq(Byte)] : Befores(ss, pre)
  BY <1>4, BeforesExist
<1>7. PICK suf \in [0 .. n -> Seq(Byte)] : Afters(ss, suf)
  BY <1>4, AftersExist
<1>8. flat \in Seq(Byte) /\ \A i \in 0 .. n : pre[i] \o suf[i] = flat
  BY <1>4, <1>6, <1>7, FlattenSplit
<1> HIDE DEF flat
<1>9. \A i \in 0 .. n : Len(pre[i]) = i * elem
  <2>1. \A i \in 1 .. Len(ss) : Len(ss[i]) = elem
    BY <1>3, <1>4
  <2>2. QED
    BY <1>1, <1>4, <1>6, <2>1, PieceLengths
<1>10. ASSUME Alike(a, b, Vector(t)), NEW r \in Seq(Byte), NEW junk \in Nat
       PROVE  UnpackValue(b, Vector(t), Stream((size \o flat) \o r), junk)
                  = [value |-> v, stream |-> Stream(r)]
  <2> DEFINE stream == Stream(size \o (flat \o r))
             at(i) == After(After(stream, word), i * elem)
  <2>1. b.sizeof[b.size_t] = word /\ b.sizeof[t] = elem
    BY <1>10 DEF Alike, Vector, word, elem
  <2>2. (size \o flat) \o r = size \o (flat \o r) /\ flat \o r \in Seq(Byte)
    BY <1>2, <1>8, ConcatType
  <2>3. UnpackPlain(stream, word, junk) = n /\ After(stream, word) = Stream(flat \o r)
    <3>1. \A q \in Seq(Byte) : /\ UnpackPlain(Stream(Bytes(n, word) \o q), word, junk) = n
                              /\ After(Stream(Bytes(n, word) \o q), word) = Stream(q)
      BY <1>1, UnpackPlainBytes
    <3>2. QED
      BY <2>2, <3>1 DEF size
  <2> HIDE DEF stream
  <2>4. ASSUME NEW i \in 0 .. n PROVE at(i) = Stream(suf[i] \o r)
    <3>1. pre[i] \in Seq(Byte) /\ suf[i] \in Seq(Byte) /\ Len(pre[i]) = i * elem
          /\ flat = pre[i] \o suf[i]
      BY <1>6, <1>7, <1>8, <1>9
    <3>2. flat \o r = pre[i] \o (suf[i] \o r) /\ suf[i] \o r \in Seq(Byte)
      BY <3>1, ConcatType
    <3>3. After(Stream(pre[i] \o (suf[i] \o r)), Len(pre[i])) = Stream(suf[i] \o r)
      BY <3>1, <3>2, ReadWhole
    <3>4. QED
      BY <2>3, <3>1, <3>2, <3>3
  <2>5. ASSUME NEW i \in 1 .. n PROVE UnpackPlain(at(i - 1), elem, 0) = v[i]
    <3>1. i - 1 \in 0 .. n /\ i \in 0 .. n
      BY <1>1
    <3>2. suf[i - 1] = Bytes(v[i], elem) \o suf[i]
      BY <1>4, <1>7 DEF Afters
    <3>3. suf[i] \in Seq(Byte) /\ Bytes(v[i], elem) \in Seq(Byte)
      BY <1>3, <1>7, <3>1
    <3>4. suf[i - 1] \o r = Bytes(v[i], elem) \o (suf[i] \o r) /\ suf[i] \o r \in Seq(Byte)
      <4>1. \A x \in Seq(Byte) : (x \o suf[i]) \o r = x \o (suf[i] \o r) /\ suf[i] \o r \in Seq(Byte)
        BY <3>3, ConcatShift
      <4>2. QED
        BY <3>2, <3>3, <4>1
    <3>5. at(i - 1) = Stream(Bytes(v[i], elem) \o (suf[i] \o r))
      BY <2>4, <3>1, <3>4
    <3>6. UnpackPlain(Stream(Bytes(v[i], elem) \o (suf[i] \o r)), elem, 0) = v[i]
      <4>1. \A q \in Seq(Byte) : UnpackPlain(Stream(Bytes(v[i], elem) \o q), elem, 0) = v[i]
        <5>1. v[i] \in Nat /\ Left(v[i], elem) = 0 /\ elem \in Nat /\ 0 \in Nat
          BY <1>1
        <5>2. QED
          BY <5>1, UnpackPlainBytes
      <4>2. QED
        BY <3>4, <4>1
    <3>7. QED
      BY <3>5, <3>6
  <2>6. at(n) = Stream(r)
    <3>1. n \in 0 .. n /\ suf[n] = << >>
      BY <1>1, <1>4, <1>7 DEF Afters
    <3>2. << >> \o r = r
      BY ConcatType
    <3>3. at(n) = Stream(suf[n] \o r)
      BY <2>4, <3>1
    <3>4. QED
      BY <3>1, <3>2, <3>3
  <2>7. UnpackVector(b, t, stream, junk) =
            [value |-> [i \in 1 .. n |-> UnpackPlain(at(i - 1), elem, 0)], stream |-> at(n)]
    BY <2>1, <2>3 DEF UnpackVector
  <2>8. [i \in 1 .. n |-> UnpackPlain(at(i - 1), elem, 0)] = v
    <3>1. [i \in 1 .. n |-> UnpackPlain(at(i - 1), elem, 0)] = [i \in 1 .. n |-> v[i]]
      BY <2>5
    <3>2. v = [i \in 1 .. n |-> v[i]]
      BY <1>1, LenProperties DEF n
    <3>3. QED
      BY <3>1, <3>2
  <2> HIDE DEF at
  <2>9. UnpackValue(b, Vector(t), stream, junk) = UnpackVector(b, t, stream, junk)
    BY DEF UnpackValue, Vector
  <2>10. QED
    BY <2>2, <2>6, <2>7, <2>8, <2>9 DEF stream
<1>11. size \o flat \in Seq(Byte)
  BY <1>2, <1>8, ConcatType
<1>12. Alike(a, b, Vector(t)) => Survives(a, b, Vector(t), v)
  BY <1>5, <1>10 DEF Survives, flat
<1>13. QED
  BY <1>5, <1>11, <1>12 DEF flat

LEMMA ValueSurvives ==
    ASSUME NEW a \in Platform, NEW b \in Platform, NEW type \in Type, NEW v, Fits(a, type, v)
    PROVE  /\ PackValue(a, type, v) \in Seq(Byte)
           /\ Alike(a, b, type) => Survives(a, b, type, v)
BY PlainSurvives, StringSurvives, VectorSurvives DEF Type

(***************************************************************************)
(* So does a tuple of values.                                               *)
(***************************************************************************)
LEMMA AppendNext ==
    ASSUME NEW n \in Nat, NEW vs, NEW i \in 0 .. (n - 1)
    PROVE  Append([j \in 1 .. i |-> vs[j]], vs[i + 1]) = [j \in 1 .. (i + 1) |-> vs[j]]
<1> DEFINE S == {vs[j] : j \in 1 .. n}
           f == [j \in 1 .. i |-> vs[j]]
           g == [j \in 1 .. (i + 1) |-> vs[j]]
<1>1. i \in Nat /\ i + 1 \in Nat /\ i + 1 \in 1 .. n /\ 1 .. i \subseteq 1 .. n /\ 1 .. (i + 1) \subseteq 1 .. n
  OBVIOUS
<1>2. f \in [1 .. i -> S] /\ g \in [1 .. (i + 1) -> S] /\ vs[i + 1] \in S
  BY <1>1
<1>3. /\ \A j \in 1 .. i : f[j] = vs[j]
      /\ \A j \in 1 .. (i + 1) : g[j] = vs[j]
  OBVIOUS
<1> HIDE DEF S, f, g
<1>4. f \in Seq(S) /\ Len(f) = i /\ g \in Seq(S) /\ Len(g) = i + 1
  BY <1>1, <1>2
<1> DEFINE h == Append(f, vs[i + 1])
<1>5. /\ h \in Seq(S) /\ Len(h) = i + 1
      /\ \A j \in 1 .. i : h[j] = f[j]
      /\ h[i + 1] = vs[i + 1]
  BY <1>2, <1>4, AppendProperties
<1> HIDE DEF h
<1>6. \A j \in 1 .. (i + 1) : h[j] = g[j]
  <2>1. SUFFICES ASSUME NEW j \in 1 .. (i + 1) PROVE h[j] = g[j]
    OBVIOUS
  <2>2. CASE j = i + 1
    BY <1>3, <1>5, <2>2
  <2>3. CASE j # i + 1
    <3>1. j \in 1 .. i
      BY <1>1, <2>3
    <3>2. QED
      BY <1>3, <1>5, <3>1
  <2>4. QED
    BY <2>2, <2>3
<1>7. h = g
  BY <1>4, <1>5, <1>6, SeqEqual
<1>8. QED
  BY <1>7 DEF f, g, h

\* The function that UnpackTuple recurs on.
Gotten(b, types, stream, junk, got) ==
    got = [i \in 0 .. Len(types) |->
               IF i = 0 THEN [values |-> << >>, stream |-> stream]
               ELSE LET before == got[i - 1]
                        next   == UnpackValue(b, types[i], before.stream, junk)
                    IN  [values |-> Append(before.values, next.value), stream |-> next.stream]]

GetsNext(b, types, junk, got, i) ==
    LET next == UnpackValue(b, types[i], got[i - 1].stream, junk)
    IN  got[i] = [values |-> Append(got[i - 1].values, next.value), stream |-> next.stream]

LEMMA GottenSteps ==
    ASSUME NEW b, NEW types, NEW stream, NEW junk, NEW got, Len(types) \in Nat,
           Gotten(b, types, stream, junk, got)
    PROVE  /\ got[0] = [values |-> << >>, stream |-> stream]
           /\ \A i \in 1 .. Len(types) : GetsNext(b, types, junk, got, i)
<1>1. got = [i \in 0 .. Len(types) |->
                 IF i = 0 THEN [values |-> << >>, stream |-> stream]
                 ELSE LET before == got[i - 1]
                          next   == UnpackValue(b, types[i], before.stream, junk)
                      IN  [values |-> Append(before.values, next.value), stream |-> next.stream]]
  BY DEF Gotten
<1>2. \A i \in 0 .. Len(types) :
          got[i] = IF i = 0 THEN [values |-> << >>, stream |-> stream]
                   ELSE LET before == got[i - 1]
                            next   == UnpackValue(b, types[i], before.stream, junk)
                        IN  [values |-> Append(before.values, next.value), stream |-> next.stream]
  BY <1>1, Zenon
<1>3. 0 \in 0 .. Len(types) /\ \A i \in 1 .. Len(types) : i \in 0 .. Len(types) /\ i # 0
  OBVIOUS
<1>4. QED
  BY <1>2, <1>3, Zenon DEF GetsNext

(***************************************************************************)
(* unpack gives back what pack was given: for every tuple of numbers,        *)
(* strings and vectors that fit their types on the sender's platform, of any *)
(* length and whatever follows them in the stream, provided that the two     *)
(* platforms agree on the sizes of these types.                             *)
(***************************************************************************)
THEOREM RoundTrip ==
    ASSUME NEW a \in Platform, NEW b \in Platform, NEW types \in Seq(Type), NEW vs,
           FitsTuple(a, types, vs)
    PROVE  /\ PackTuple(a, types, vs) \in Seq(Byte)
           /\ (\A i \in 1 .. Len(types) : Alike(a, b, types[i])) =>
                 \A r \in Seq(Byte), junk \in Nat :
                     UnpackTuple(b, types, Stream(PackTuple(a, types, vs) \o r), junk)
                         = [values |-> vs, stream |-> Stream(r)]
<1> DEFINE n  == Len(types)
           ss == [i \in 1 .. n |-> PackValue(a, types[i], vs[i])]
           flat == FlattenSeq(ss)
<1>1. n \in Nat /\ \A i \in 1 .. n : types[i] \in Type /\ Fits(a, types[i], vs[i])
  BY LenProperties DEF FitsTuple
<1>2. vs = [i \in 1 .. n |-> vs[i]]
  BY DEF FitsTuple
<1>3. ASSUME NEW i \in 1 .. n
      PROVE  /\ PackValue(a, types[i], vs[i]) \in Seq(Byte)
             /\ Alike(a, b, types[i]) => Survives(a, b, types[i], vs[i])
  BY <1>1, ValueSurvives
<1>4. ss \in [1 .. n -> Seq(Byte)] /\ \A i \in 1 .. n : ss[i] = PackValue(a, types[i], vs[i])
  BY <1>3
<1>5. PackTuple(a, types, vs) = flat
  BY DEF PackTuple
<1> HIDE DEF n, ss
<1>6. ss \in Seq(Seq(Byte)) /\ Len(ss) = n
  BY <1>1, <1>4
<1>7. PICK pre \in [0 .. n -> Seq(Byte)] : Befores(ss, pre)
  BY <1>6, BeforesExist
<1>8. PICK suf \in [0 .. n -> Seq(Byte)] : Afters(ss, suf)
  BY <1>6, AftersExist
<1>9. flat \in Seq(Byte) /\ pre[0] \o suf[0] = flat
  <2>1. flat \in Seq(Byte) /\ \A i \in 0 .. n : pre[i] \o suf[i] = flat
    BY <1>6, <1>7, <1>8, FlattenSplit
  <2>2. 0 \in 0 .. n
    BY <1>1
  <2>3. QED
    BY <2>1, <2>2
<1> HIDE DEF flat
<1>10. suf[0] = flat
  <2>1. pre[0] = << >> /\ suf[0] \in Seq(Byte)
    BY <1>1, <1>7, <1>8 DEF Befores
  <2>2. QED
    BY <1>9, <2>1, ConcatType
<1>11. ASSUME \A i \in 1 .. n : Alike(a, b, types[i]), NEW r \in Seq(Byte), NEW junk \in Nat
       PROVE  UnpackTuple(b, types, Stream(flat \o r), junk) = [values |-> vs, stream |-> Stream(r)]
  <2> DEFINE stream == Stream(flat \o r)
             g == [i \in 0 .. n |-> [values |-> [j \in 1 .. i |-> vs[j]],
                                     stream |-> Stream(suf[i] \o r)]]
  <2>1. g[0] = [values |-> << >>, stream |-> stream]
    <3>1. 0 \in 0 .. n /\ [j \in 1 .. 0 |-> vs[j]] = << >>
      BY <1>1
    <3>2. QED
      BY <1>10, <3>1
  <2>2. ASSUME NEW i \in 1 .. n
        PROVE  LET next == UnpackValue(b, types[i], g[i - 1].stream, junk)
               IN  g[i] = [values |-> Append(g[i - 1].values, next.value), stream |-> next.stream]
    <3>1. i \in 0 .. n /\ i - 1 \in 0 .. (n - 1) /\ i - 1 \in 0 .. n /\ (i - 1) + 1 = i
      BY <1>1
    <3>2. suf[i - 1] = ss[i] \o suf[i] /\ suf[i] \in Seq(Byte) /\ ss[i] \in Seq(Byte)
      BY <1>4, <1>6, <1>8, <3>1 DEF Afters
    <3>3. suf[i - 1] \o r = ss[i] \o (suf[i] \o r) /\ suf[i] \o r \in Seq(Byte)
      <4>1. (ss[i] \o suf[i]) \o r = ss[i] \o (suf[i] \o r) /\ suf[i] \o r \in Seq(Byte)
        BY <3>2, ConcatShift
      <4>2. QED
        BY <3>2, <4>1
    <3>4. Survives(a, b, types[i], vs[i]) /\ ss[i] = PackValue(a, types[i], vs[i])
      BY <1>3, <1>4, <1>11
    <3>5. \A q \in Seq(Byte) : UnpackValue(b, types[i], Stream(ss[i] \o q), junk)
                                   = [value |-> vs[i], stream |-> Stream(q)]
      BY <3>4 DEF Survives
    <3>6. UnpackValue(b, types[i], Stream(suf[i - 1] \o r), junk)
              = [value |-> vs[i], stream |-> Stream(suf[i] \o r)]
      BY <3>3, <3>5
    <3>7. /\ g[i - 1].stream = Stream(suf[i - 1] \o r)
          /\ g[i - 1].values = [j \in 1 .. (i - 1) |-> vs[j]]
          /\ g[i] = [values |-> [j \in 1 .. i |-> vs[j]], stream |-> Stream(suf[i] \o r)]
      BY <3>1
    <3>8. Append([j \in 1 .. (i - 1) |-> vs[j]], vs[i]) = [j \in 1 .. i |-> vs[j]]
      <4>1. Append([j \in 1 .. (i - 1) |-> vs[j]], vs[(i - 1) + 1]) = [j \in 1 .. ((i - 1) + 1) |-> vs[j]]
        BY <1>1, <3>1, AppendNext
      <4>2. QED
        BY <3>1, <4>1
    <3> HIDE DEF g
    <3> DEFINE next == UnpackValue(b, types[i], g[i - 1].stream, junk)
    <3>9. next = [value |-> vs[i], stream |-> Stream(suf[i] \o r)]
      BY <3>6, <3>7
    <3> HIDE DEF next
    <3>10. next.value = vs[i] /\ next.stream = Stream(suf[i] \o r)
      BY <3>9
    <3>11. g[i] = [values |-> Append(g[i - 1].values, next.value), stream |-> next.stream]
      BY <3>7, <3>8, <3>10
    <3>12. QED
      BY <3>11 DEF next
  <2>3. g[n] = [values |-> vs, stream |-> Stream(r)]
    <3>1. n \in 0 .. n /\ suf[n] = << >>
      BY <1>1, <1>6, <1>8 DEF Afters
    <3>2. << >> \o r = r
      BY ConcatType
    <3>3. QED
      BY <1>2, <3>1, <3>2
  <2>4. g = [i \in 0 .. n |-> g[i]]
    OBVIOUS
  <2> HIDE DEF g, stream
  <2>5. Gotten(b, types, stream, junk, g)
    <3>1. \A i \in 0 .. n : g[i] =
              IF i = 0 THEN [values |-> << >>, stream |-> stream]
              ELSE LET before == g[i - 1]
                       next   == UnpackValue(b, types[i], before.stream, junk)
                   IN  [values |-> Append(before.values, next.value), stream |-> next.stream]
      BY <1>1, <2>1, <2>2
    <3>2. QED
      BY <2>4, <3>1 DEF Gotten, n
  <2>6. PICK got : Gotten(b, types, stream, junk, got) /\ UnpackTuple(b, types, stream, junk) = got[n]
    <3>1. UnpackTuple(b, types, stream, junk)
              = (CHOOSE got : Gotten(b, types, stream, junk, got))[Len(types)]
      BY DEF UnpackTuple, Gotten
    <3>2. QED
      BY <2>5, <3>1 DEF n
  <2>7. /\ got[0] = [values |-> << >>, stream |-> stream]
        /\ \A i \in 1 .. n :
               LET next == UnpackValue(b, types[i], got[i - 1].stream, junk)
               IN  got[i] = [values |-> Append(got[i - 1].values, next.value),
                             stream |-> next.stream]
    <3>1. Len(types) \in Nat /\ Gotten(b, types, stream, junk, got)
      BY <1>1, <2>6 DEF n
    <3>2. /\ got[0] = [values |-> << >>, stream |-> stream]
          /\ \A i \in 1 .. Len(types) : GetsNext(b, types, junk, got, i)
      BY <3>1, GottenSteps
    <3>3. QED
      BY <3>2 DEF n, GetsNext
  <2> DEFINE T == {i \in 0 .. n : got[i] = g[i]}
  <2>8. 0 \in T
    BY <1>1, <2>1, <2>7
  <2>9. ASSUME NEW i \in 0 .. (n - 1), i \in T PROVE i + 1 \in T
    <3>1. i + 1 \in 1 .. n /\ (i + 1) - 1 = i /\ got[i] = g[i] /\ i + 1 \in 0 .. n
      BY <1>1, <2>9
    <3> DEFINE next == UnpackValue(b, types[i + 1], g[i].stream, junk)
    <3>2. got[i + 1] = [values |-> Append(g[i].values, next.value), stream |-> next.stream]
      BY <2>7, <3>1
    <3>3. g[i + 1] = [values |-> Append(g[i].values, next.value), stream |-> next.stream]
      BY <2>2, <3>1
    <3>4. got[i + 1] = g[i + 1]
      BY <3>2, <3>3
    <3>5. QED
      BY <3>1, <3>4
  <2> HIDE DEF T
  <2>10. \A i \in 0 .. n : i \in T
    BY <1>1, <2>8, <2>9, InductionTo
  <2>11. got[n] = g[n]
    BY <1>1, <2>10 DEF T
  <2>12. QED
    BY <2>3, <2>6, <2>11 DEF stream
<1>12. QED
  BY <1>5, <1>9, <1>11 DEF n

\* The length of a tuple of numbers of one type.
LEMMA PlainTuple ==
    ASSUME NEW a \in Platform, NEW t \in Fundamental, NEW n \in Nat, NEW types, NEW vs,
           types = [i \in 1 .. n |-> Plain(t)], FitsTuple(a, types, vs)
    PROVE  Len(PackTuple(a, types, vs)) = n * a.sizeof[t]
<1> DEFINE elem == a.sizeof[t]
           ss == [i \in 1 .. n |-> PackValue(a, types[i], vs[i])]
<1>1. Len(types) = n /\ elem \in Nat
  <2>1. types \in [1 .. n -> {Plain(t)}]
    OBVIOUS
  <2>2. types \in Seq({Plain(t)}) /\ Len(types) = n
    BY <2>1
  <2>3. QED
    BY <2>2, PlatformType
<1>2. ASSUME NEW i \in 1 .. n
      PROVE  PackValue(a, types[i], vs[i]) \in Seq(Byte) /\ Len(PackValue(a, types[i], vs[i])) = elem
  <2>1. types[i] = Plain(t) /\ Fits(a, Plain(t), vs[i])
    BY <1>1 DEF FitsTuple
  <2>2. vs[i] \in Nat /\ PackValue(a, types[i], vs[i]) = Bytes(vs[i], elem)
    BY <2>1 DEF Fits, FitsPlain, PackValue, PackPlain, Plain
  <2>3. Bytes(vs[i], elem) \in Seq(Byte) /\ Len(Bytes(vs[i], elem)) = elem
    BY <1>1, <2>2, BytesType
  <2>4. QED
    BY <2>2, <2>3
<1>3. ss \in [1 .. n -> Seq(Byte)] /\ \A i \in 1 .. n : ss[i] = PackValue(a, types[i], vs[i])
  BY <1>2
<1>4. PackTuple(a, types, vs) = FlattenSeq(ss)
  BY <1>1 DEF PackTuple
<1> HIDE DEF ss, elem
<1>5. ss \in Seq(Seq(Byte)) /\ Len(ss) = n
  BY <1>3
<1>6. PICK pre \in [0 .. n -> Seq(Byte)] : Befores(ss, pre)
  BY <1>5, BeforesExist
<1>7. FlattenSeq(ss) = pre[n]
  BY <1>5, <1>6, FlattenBefores
<1>8. \A i \in 0 .. n : Len(pre[i]) = i * elem
  <2>1. \A i \in 1 .. Len(ss) : Len(ss[i]) = elem
    BY <1>2, <1>3, <1>5
  <2>2. QED
    BY <1>1, <1>5, <1>6, <2>1, PieceLengths
<1>9. QED
  BY <1>4, <1>7, <1>8 DEF elem
=============================================================================
