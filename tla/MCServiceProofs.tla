--------------------------- MODULE MCServiceProofs ---------------------------
(***************************************************************************)
(* Proofs about the pure functions of ContextWindow and Splitting: for     *)
(* every length of a history, every size of its messages, of the prompt    *)
(* and of the tools, and every model; for every text and every limit.      *)
(*                                                                         *)
(* The recursive functions are shown to exist (RecursionExists, for one    *)
(* that uses its last value; TableExists, for one that uses any earlier    *)
(* value) and then reasoned about by induction. Sums of beginnings relate  *)
(* what is sent to what is left of the budget; the places between which    *)
(* the parts of a text stand are built from its end.                       *)
(***************************************************************************)
EXTENDS MCService, SequenceTheorems, WellFoundedInduction, TLAPS

\* Induction over the numbers, for a set in place of a predicate.
LEMMA SetInduction ==
    ASSUME NEW S \in SUBSET Nat, 0 \in S, \A n \in S : n + 1 \in S
    PROVE  S = Nat
  <1> DEFINE T == Nat \ S
             R == {p \in Nat \X Nat : p[1] < p[2]}
  <1>1. IsWellFoundedOn(R, Nat)
    BY NatLessThanWellFounded DEF OpToRel
  <1>2. ASSUME T # {}
        PROVE  FALSE
    <2>1. \E x \in T : \A y \in T : ~ (<<y, x>> \in R)
      <3> HIDE DEF R
      <3> QED
        BY <1>1, <1>2, WFMin
    <2>2. PICK x \in T : \A y \in T : ~ (y < x)
      BY <2>1
    <2>3. x \in Nat /\ x # 0 /\ x \notin S
      OBVIOUS
    <2>4. x - 1 \in Nat /\ x - 1 < x /\ x - 1 + 1 = x
      BY <2>3
    <2>5. x - 1 \in S
      BY <2>2, <2>4
    <2> QED
      BY <2>3, <2>4, <2>5
  <1> QED
    BY <1>2
-----------------------------------------------------------------------------
Computes(f, n, A, first, step) ==
    /\ f \in [0..n -> A]
    /\ f[0] = first
    /\ \A i \in 1..n : f[i] = step[i][f[i - 1]]

\* A recursive function over the first numbers exists and has its values where its steps
\* stay.
LEMMA RecursionExists ==
    ASSUME NEW n \in Nat, NEW A, NEW first \in A, NEW step \in [1..n -> [A -> A]]
    PROVE  \E f : Computes(f, n, A, first, step)
  <1> DEFINE S == {m \in Nat : m <= n => \E f : Computes(f, m, A, first, step)}
  <1>1. 0 \in S
    <2> DEFINE f == [i \in 0..0 |-> first]
    <2>1. Computes(f, 0, A, first, step)
      BY DEF Computes
    <2> QED
      BY <2>1
  <1>2. ASSUME NEW m \in S
        PROVE  m + 1 \in S
    <2> SUFFICES ASSUME m + 1 <= n
                 PROVE  \E g : Computes(g, m + 1, A, first, step)
      OBVIOUS
    <2>1. m \in Nat /\ m <= n /\ m + 1 \in 1..n
      BY <1>2
    <2>2. PICK f : Computes(f, m, A, first, step)
      BY <1>2, <2>1
    <2>3. m \in 0..m /\ f[m] \in A /\ step[m + 1][f[m]] \in A
      BY <2>1, <2>2 DEF Computes
    <2> DEFINE g == [i \in 0..m + 1 |-> IF i <= m THEN f[i] ELSE step[m + 1][f[m]]]
    <2>4. g \in [0..m + 1 -> A]
      BY <2>1, <2>2, <2>3 DEF Computes
    <2>5. g[0] = first
      BY <2>1, <2>2 DEF Computes
    <2>6. ASSUME NEW i \in 1..m + 1
          PROVE  g[i] = step[i][g[i - 1]]
      <3>1. i - 1 \in 0..m + 1 /\ i - 1 <= m /\ i \in 0..m + 1
        BY <2>1
      <3>2. g[i - 1] = f[i - 1]
        BY <3>1
      <3>3. CASE i <= m
        <4>1. i \in 1..m
          BY <2>1, <3>3
        <4> QED
          BY <2>2, <3>1, <3>2, <3>3, <4>1 DEF Computes
      <3>4. CASE i = m + 1
        <4>1. i - 1 = m /\ ~ (i <= m)
          BY <2>1, <3>4
        <4> QED
          BY <3>1, <3>2, <3>4, <4>1
      <3> QED
        BY <2>1, <3>3, <3>4
    <2> HIDE DEF g
    <2> QED
      BY <2>4, <2>5, <2>6 DEF Computes
  <1> HIDE DEF S
  <1>3. S = Nat
    BY <1>1, <1>2, SetInduction DEF S
  <1>4. n \in S /\ n <= n
    BY <1>3
  <1> QED
    BY <1>4 DEF S
-----------------------------------------------------------------------------
\* Total's sum.
Sums(s, f) == f = [i \in 0..Len(s) |-> IF i = 0 THEN 0 ELSE f[i - 1] + s[i]]

SumOf(s) == CHOOSE f : Sums(s, f)

LEMMA TotalIsSum ==
    ASSUME NEW s \in Seq(Nat)
    PROVE  /\ Total(s) = SumOf(s)[Len(s)]
           /\ SumOf(s)[0] = 0
           /\ \A i \in 1..Len(s) : SumOf(s)[i] = SumOf(s)[i - 1] + s[i]
           /\ \A i \in 0..Len(s) : SumOf(s)[i] \in Nat
  <1> DEFINE n == Len(s)
             step == [i \in 1..n |-> [x \in Nat |-> x + s[i]]]
  <1>1. n \in Nat /\ \A i \in 1..n : s[i] \in Nat
    BY LenProperties, ElementOfSeq
  <1> HIDE DEF n
  <1>2. step \in [1..n -> [Nat -> Nat]]
    BY <1>1
  <1> HIDE DEF step
  <1>3. PICK f : Computes(f, n, Nat, 0, step)
    <2>1. 0 \in Nat
      OBVIOUS
    <2> QED
      BY <1>1, <1>2, <2>1, RecursionExists
  <1>4. ASSUME NEW i \in 0..n, i # 0
        PROVE  i - 1 \in 0..n /\ step[i][f[i - 1]] = f[i - 1] + s[i]
    <2>1. i \in 1..n /\ i - 1 \in 0..n
      BY <1>1, <1>4
    <2>2. f[i - 1] \in Nat
      BY <1>3, <2>1 DEF Computes
    <2> QED
      BY <2>1, <2>2 DEF step
  <1>5. Sums(s, f)
    <2>1. ASSUME NEW i \in 0..n
          PROVE  f[i] = IF i = 0 THEN 0 ELSE f[i - 1] + s[i]
      <3>1. i # 0 => i \in 1..n
        BY <1>1
      <3> QED
        BY <1>3, <1>4, <3>1 DEF Computes
    <2>2. f = [i \in 0..n |-> f[i]]
      BY <1>3 DEF Computes
    <2> QED
      BY <2>1, <2>2 DEF Sums, n
  <1>6. Sums(s, SumOf(s))
    BY <1>5 DEF SumOf
  <1>7. Total(s) = SumOf(s)[n]
    BY DEF Total, SumOf, Sums, n
  <1> DEFINE g == SumOf(s)
  <1> HIDE DEF g
  <1>8. g[0] = 0 /\ \A i \in 1..n : g[i] = g[i - 1] + s[i]
    BY <1>1, <1>6 DEF Sums, g, n
  <1> DEFINE S == {m \in Nat : m <= n => g[m] \in Nat}
  <1>9. S = Nat
    <2>1. 0 \in S
      BY <1>8
    <2>2. ASSUME NEW m \in S
          PROVE  m + 1 \in S
      <3> SUFFICES ASSUME m + 1 <= n
                   PROVE  g[m + 1] \in Nat
        OBVIOUS
      <3>1. m \in Nat /\ g[m] \in Nat /\ m + 1 \in 1..n /\ m + 1 - 1 = m
        BY <1>1, <2>2
      <3> QED
        <4>1. g[m + 1] = g[m] + s[m + 1] /\ s[m + 1] \in Nat
          BY <1>1, <1>8, <3>1
        <4> QED
          BY <3>1, <4>1
    <2> HIDE DEF S
    <2> QED
      BY <2>1, <2>2, SetInduction DEF S
  <1> QED
    BY <1>1, <1>7, <1>8, <1>9 DEF g, n

\* The size of a sequence's end is what the beginning lacks.
LEMMA TotalOfEnd ==
    ASSUME NEW s \in Seq(Nat), NEW k \in 0..Len(s)
    PROVE  LET t == SubSeq(s, k + 1, Len(s))
           IN  /\ t \in Seq(Nat) /\ Len(t) = Len(s) - k
               /\ Total(t) = SumOf(s)[Len(s)] - SumOf(s)[k]
  <1> DEFINE t == SubSeq(s, k + 1, Len(s))
             n == Len(s)
             f == SumOf(s)
             g == SumOf(t)
  <1>1. n \in Nat /\ DOMAIN s = 1..n
    BY LenProperties
  <1>2. \A i \in 1..n : s[i] \in Nat
    BY <1>1, ElementOfSeq
  <1>3. \A i \in k + 1..n : s[i] \in Nat
    BY <1>1, <1>2
  <1>4. /\ t \in Seq(Nat)
        /\ Len(t) = IF k + 1 <= n THEN n - (k + 1) + 1 ELSE 0
        /\ \A i \in 1..n - (k + 1) + 1 : t[i] = s[k + 1 + i - 1]
    BY <1>1, <1>3, SubSeqProperties
  <1>5. /\ f[0] = 0
        /\ \A i \in 1..n : f[i] = f[i - 1] + s[i]
        /\ \A i \in 0..n : f[i] \in Nat
    BY TotalIsSum
  <1>6. /\ g[0] = 0
        /\ \A i \in 1..Len(t) : g[i] = g[i - 1] + t[i]
        /\ \A i \in 0..Len(t) : g[i] \in Nat
        /\ Total(t) = g[Len(t)]
    BY <1>4, TotalIsSum
  <1> HIDE DEF t, n, f, g
  <1>7. Len(t) = n - k
    <2>1. n \in Nat /\ k \in 0..n
      BY <1>1 DEF n
    <2>2. Len(t) = IF k + 1 <= n THEN n - (k + 1) + 1 ELSE 0
      BY <1>4
    <2> QED
      BY <2>1, <2>2
  <1>8. \A i \in 1..n - k : t[i] = s[k + i]
    <2> SUFFICES ASSUME NEW i \in 1..n - k
                 PROVE  t[i] = s[k + i]
      OBVIOUS
    <2>1. i \in 1..n - (k + 1) + 1 /\ k + 1 + i - 1 = k + i
      BY <1>1
    <2> QED
      BY <1>4, <2>1
  <1> DEFINE S == {m \in Nat : m <= n - k => g[m] = f[k + m] - f[k]}
  <1>9. S = Nat
    <2>1. 0 \in S
      BY <1>1, <1>5, <1>6 DEF n
    <2>2. ASSUME NEW m \in S
          PROVE  m + 1 \in S
      <3> SUFFICES ASSUME m + 1 <= n - k
                   PROVE  g[m + 1] = f[k + (m + 1)] - f[k]
        OBVIOUS
      <3>1. /\ m \in Nat /\ m + 1 \in 1..n - k /\ m + 1 - 1 = m
            /\ k + (m + 1) \in 1..n /\ k + (m + 1) - 1 = k + m /\ k + m \in 0..n /\ k \in 0..n
        BY <1>1, <2>2 DEF n
      <3>2. g[m] = f[k + m] - f[k]
        BY <1>1, <2>2, <3>1 DEF n
      <3>3. g[m + 1] = g[m] + s[k + (m + 1)]
        BY <1>6, <1>7, <1>8, <3>1
      <3>4. f[k + (m + 1)] = f[k + m] + s[k + (m + 1)]
        BY <1>5, <3>1
      <3>5. f[k] \in Nat /\ f[k + m] \in Nat /\ s[k + (m + 1)] \in Nat
        BY <1>2, <1>5, <3>1
      <3> QED
        BY <3>2, <3>3, <3>4, <3>5
    <2> HIDE DEF S
    <2> QED
      BY <2>1, <2>2, SetInduction DEF S
  <1>10. n - k \in Nat /\ k + (n - k) = n
    BY <1>1 DEF n
  <1>11. g[n - k] = f[n] - f[k]
    <2>1. n - k \in S /\ n - k <= n - k
      BY <1>9, <1>10
    <2> QED
      BY <1>10, <2>1
  <1> QED
    BY <1>4, <1>6, <1>7, <1>11 DEF t, n, f
-----------------------------------------------------------------------------
\* Excluded's loop: from[i] tells, for what is left of the budget, how many of the i oldest
\* messages are not sent.
Loop(h, from) ==
    from = [i \in 0..Len(h) |->
              [left \in Int |-> IF i = 0 \/ left <= 0 THEN i
                                ELSE IF h[i] > left THEN i
                                ELSE from[i - 1][left - h[i]]]]

FromOf(h) == CHOOSE from : Loop(h, from)

LEMMA ExcludedIsLoop ==
    ASSUME NEW h \in Seq(Nat)
    PROVE  /\ \A budget : Excluded(h, budget) = FromOf(h)[Len(h)][budget]
           /\ \A i \in 0..Len(h) : \A left \in Int :
                FromOf(h)[i][left] = IF i = 0 \/ left <= 0 THEN i
                                     ELSE IF h[i] > left THEN i
                                     ELSE FromOf(h)[i - 1][left - h[i]]
  <1> DEFINE n == Len(h)
             A == [Int -> Int]
             step == [i \in 1..n |-> [F \in A |-> [left \in Int |->
                        IF i = 0 \/ left <= 0 THEN i
                        ELSE IF h[i] > left THEN i ELSE F[left - h[i]]]]]
             first == [left \in Int |-> 0]
  <1>1. n \in Nat /\ \A i \in 1..n : h[i] \in Nat
    BY LenProperties, ElementOfSeq
  <1> HIDE DEF n
  <1>2. step \in [1..n -> [A -> A]]
    <2>1. ASSUME NEW i \in 1..n, NEW F \in A, NEW left \in Int
          PROVE  (IF i = 0 \/ left <= 0 THEN i
                  ELSE IF h[i] > left THEN i ELSE F[left - h[i]]) \in Int
      <3>1. h[i] \in Nat /\ left - h[i] \in Int
        <4>1. h[i] \in Nat
          BY <1>1
        <4> QED
          BY <4>1
      <3>2. F[left - h[i]] \in Int /\ i \in Int
        BY <1>1, <3>1
      <3> QED
        BY <3>2
    <2>2. ASSUME NEW i \in 1..n, NEW F \in A
          PROVE  step[i][F] \in A
      BY <2>1, <2>2
    <2> QED
      BY <2>2
  <1>3. first \in A
    OBVIOUS
  <1> HIDE DEF step, first
  <1>4. PICK from : Computes(from, n, A, first, step)
    <2> HIDE DEF A
    <2> QED
      BY <1>1, <1>2, <1>3, RecursionExists
  <1>5. ASSUME NEW i \in 0..n
        PROVE  from[i] = [left \in Int |-> IF i = 0 \/ left <= 0 THEN i
                                           ELSE IF h[i] > left THEN i
                                           ELSE from[i - 1][left - h[i]]]
    <2>1. CASE i = 0
      BY <1>4, <2>1 DEF first, Computes
    <2>2. CASE i # 0
      <3>1. i \in 1..n /\ i - 1 \in 0..n /\ from[i - 1] \in A
        <4>1. i \in 1..n /\ i - 1 \in 0..n
          BY <1>1, <2>2
        <4> QED
          BY <1>4, <4>1 DEF Computes
      <3>2. from[i] = step[i][from[i - 1]]
        BY <1>4, <3>1 DEF Computes
      <3> QED
        BY <3>1, <3>2 DEF step
    <2> QED
      BY <2>1, <2>2
  <1>6. Loop(h, from)
    <2>1. from = [i \in 0..n |-> from[i]]
      BY <1>4 DEF Computes
    <2> QED
      BY <1>5, <2>1 DEF Loop, n
  <1>7. Loop(h, FromOf(h))
    BY <1>6 DEF FromOf
  <1>8. \A budget : Excluded(h, budget) = FromOf(h)[n][budget]
    BY DEF Excluded, FromOf, Loop, n
  <1> DEFINE g == FromOf(h)
  <1> HIDE DEF g
  <1>9. \A i \in 0..n : g[i] = [left \in Int |-> IF i = 0 \/ left <= 0 THEN i
                                                ELSE IF h[i] > left THEN i
                                                ELSE g[i - 1][left - h[i]]]
    BY <1>7 DEF Loop, g, n
  <1>10. ASSUME NEW i \in 0..n, NEW left \in Int
         PROVE  g[i][left] = IF i = 0 \/ left <= 0 THEN i
                             ELSE IF h[i] > left THEN i
                             ELSE g[i - 1][left - h[i]]
    BY <1>9
  <1> QED
    BY <1>8, <1>10 DEF g, n

\* Where the loop stops, at u of the m oldest messages: what it has passed fits into what
\* was left, and the next message would not, unless it is empty.
Stops(h, m, left, u) ==
    /\ u \in 0..m
    /\ u < m => SumOf(h)[m] - SumOf(h)[u] <= left
    /\ u > 0 /\ h[u] > 0 => SumOf(h)[m] - SumOf(h)[u - 1] > left

LEMMA ExcludedStops ==
    ASSUME NEW h \in Seq(Nat), NEW budget \in Int
    PROVE  Stops(h, Len(h), budget, Excluded(h, budget))
  <1> DEFINE n == Len(h)
             f == SumOf(h)
             from == FromOf(h)
             S == {m \in Nat : m <= n => \A left \in Int : Stops(h, m, left, from[m][left])}
  <1>1. n \in Nat /\ \A i \in 1..n : h[i] \in Nat
    BY LenProperties, ElementOfSeq
  <1>2. /\ f[0] = 0
        /\ \A i \in 1..n : f[i] = f[i - 1] + h[i]
        /\ \A i \in 0..n : f[i] \in Nat
    BY TotalIsSum
  <1>3. \A i \in 0..n : \A left \in Int :
          from[i][left] = IF i = 0 \/ left <= 0 THEN i
                          ELSE IF h[i] > left THEN i
                          ELSE from[i - 1][left - h[i]]
    BY ExcludedIsLoop
  <1>4. Excluded(h, budget) = from[n][budget]
    BY ExcludedIsLoop
  <1> HIDE DEF n, f, from
  <1>5. 0 \in S
    <2>1. ASSUME NEW left \in Int
          PROVE  Stops(h, 0, left, 0)
      BY DEF Stops
    <2>2. ASSUME NEW left \in Int
          PROVE  from[0][left] = 0
      BY <1>1, <1>3
    <2> QED
      BY <2>1, <2>2
  <1>6. ASSUME NEW m \in S
        PROVE  m + 1 \in S
    <2> SUFFICES ASSUME m + 1 <= n, NEW left \in Int
                 PROVE  Stops(h, m + 1, left, from[m + 1][left])
      OBVIOUS
    <2> DEFINE u == from[m + 1][left]
    <2>1. m \in Nat /\ m + 1 \in 1..n /\ m + 1 \in 0..n /\ m + 1 - 1 = m /\ m + 1 # 0 /\ m \in 0..n
      BY <1>1
    <2>2. h[m + 1] \in Nat /\ f[m + 1] = f[m] + h[m + 1] /\ f[m] \in Nat
      BY <1>1, <1>2, <2>1
    <2>3. u = IF left <= 0 \/ h[m + 1] > left THEN m + 1 ELSE from[m][left - h[m + 1]]
      BY <1>3, <2>1
    <2> HIDE DEF u
    <2>4. CASE left <= 0 \/ h[m + 1] > left
      <3>1. u = m + 1
        BY <2>3, <2>4
      <3>2. h[u] > 0 => f[m + 1] - f[u - 1] > left
        BY <2>1, <2>2, <2>4, <3>1
      <3> QED
        BY <2>1, <3>1, <3>2 DEF Stops, u, f
    <2>5. CASE ~ (left <= 0 \/ h[m + 1] > left)
      <3>1. u = from[m][left - h[m + 1]]
        BY <2>3, <2>5
      <3>2. left - h[m + 1] \in Int
        BY <2>2
      <3>3. Stops(h, m, left - h[m + 1], u)
        BY <1>6, <2>1, <3>1, <3>2 DEF n
      <3>4. /\ u \in 0..m
            /\ u < m => f[m] - f[u] <= left - h[m + 1]
            /\ u > 0 /\ h[u] > 0 => f[m] - f[u - 1] > left - h[m + 1]
        BY <3>3 DEF Stops, f
      <3>5. u \in 0..n /\ (u > 0 => u - 1 \in 0..n)
        BY <1>1, <2>1, <3>4
      <3>6. f[u] \in Nat /\ (u > 0 => f[u - 1] \in Nat)
        BY <1>2, <3>5
      <3>7. u \in 0..m + 1
        BY <2>1, <3>4
      <3>8. f[m + 1] - f[u] <= left
        <4>1. CASE u < m
          BY <2>2, <3>4, <3>6, <4>1
        <4>2. CASE u = m
          BY <2>2, <2>5, <4>2
        <4> QED
          BY <2>1, <3>4, <4>1, <4>2
      <3>9. u > 0 /\ h[u] > 0 => f[m + 1] - f[u - 1] > left
        <4> SUFFICES ASSUME u > 0 /\ h[u] > 0
                     PROVE  f[m + 1] - f[u - 1] > left
          OBVIOUS
        <4>1. f[m] - f[u - 1] > left - h[m + 1] /\ f[u - 1] \in Nat
          BY <3>4, <3>6
        <4>2. \A a, b, c \in Nat, d \in Int : a - b > d - c => (a + c) - b > d
          OBVIOUS
        <4>3. (f[m] + h[m + 1]) - f[u - 1] > left
          BY <2>2, <4>1, <4>2
        <4> QED
          BY <2>2, <4>3
      <3> QED
        BY <3>7, <3>8, <3>9 DEF Stops, u, f
    <2> QED
      BY <2>4, <2>5
  <1>7. S = Nat
    <2> HIDE DEF S
    <2> QED
      BY <1>5, <1>6, SetInduction DEF S
  <1>8. n \in S /\ n <= n
    BY <1>1, <1>7
  <1> QED
    BY <1>4, <1>8 DEF n

LEMMA WindowAlwaysFits == WindowFits
  <1> SUFFICES ASSUME NEW history \in Histories, NEW system \in Sizes, NEW tools \in Sizes
               PROVE  LET sent == Assemble(history, Budget(system, tools))
                          used == system + tools + Total(sent)
                          room == IF MaxContext - system - tools > ResponseReserve
                                    THEN ResponseReserve ELSE 0
                          cut  == Len(history) - Len(sent)
                      IN  /\ sent = SubSeq(history, cut + 1, Len(history))
                          /\ sent # <<>> => used + room <= MaxContext
                          /\ cut > 0 /\ history[cut] > 0 => used + room + history[cut] > MaxContext
    BY DEF WindowFits
  <1> DEFINE n == Len(history)
             f == SumOf(history)
             budget == Budget(system, tools)
             u == Excluded(history, budget)
             sent == SubSeq(history, u + 1, n)
             room == IF MaxContext - system - tools > ResponseReserve THEN ResponseReserve ELSE 0
  <1>1. history \in Seq(Nat)
    <2>1. PICK k \in 0..MaxHistory : history \in [1..k -> Sizes]
      BY DEF Histories
    <2>2. k \in Nat /\ Sizes \subseteq Nat
      BY WindowAssumption
    <2>3. history \in [1..k -> Nat]
      BY <2>1, <2>2
    <2> QED
      BY <2>2, <2>3
  <1>2. n \in Nat /\ \A i \in 1..n : history[i] \in Nat
    BY <1>1, LenProperties, ElementOfSeq
  <1>3. system \in Nat /\ tools \in Nat /\ MaxContext \in Int /\ ResponseReserve \in Nat
    BY WindowAssumption
  <1>4. budget \in Int /\ room \in Nat /\ budget + room = MaxContext - system - tools
    BY <1>3 DEF Budget
  <1> HIDE DEF budget, room
  <1>5. Stops(history, n, budget, u)
    BY <1>1, <1>4, ExcludedStops
  <1> HIDE DEF u
  <1>6. u \in 0..n
    BY <1>5 DEF Stops
  <1>7. sent \in Seq(Nat) /\ Len(sent) = n - u /\ Total(sent) = f[n] - f[u]
    BY <1>1, <1>6, TotalOfEnd
  <1>8. /\ \A i \in 1..n : f[i] = f[i - 1] + history[i]
        /\ \A i \in 0..n : f[i] \in Nat
    BY <1>1, TotalIsSum
  <1>9. /\ u < n => f[n] - f[u] <= budget
        /\ u > 0 /\ history[u] > 0 => f[n] - f[u - 1] > budget
    BY <1>5 DEF Stops
  <1> HIDE DEF n, f
  <1>10. n - Len(sent) = u
    BY <1>2, <1>6, <1>7
  <1>11. f[n] \in Nat /\ f[u] \in Nat
    BY <1>2, <1>6, <1>8
  <1>12. sent # <<>> => system + tools + Total(sent) + room <= MaxContext
    <2> SUFFICES ASSUME sent # <<>>
                 PROVE  system + tools + Total(sent) + room <= MaxContext
      OBVIOUS
    <2>1. Len(sent) # 0
      BY <1>7, EmptySeq
    <2>2. u < n
      BY <1>2, <1>6, <1>7, <2>1
    <2> QED
      BY <1>3, <1>4, <1>7, <1>9, <1>11, <2>2
  <1>13. u > 0 /\ history[u] > 0
           => system + tools + Total(sent) + room + history[u] > MaxContext
    <2> SUFFICES ASSUME u > 0, history[u] > 0
                 PROVE  system + tools + Total(sent) + room + history[u] > MaxContext
      OBVIOUS
    <2>1. u \in 1..n /\ u - 1 \in 0..n
      BY <1>2, <1>6
    <2>2. f[u] = f[u - 1] + history[u] /\ f[u - 1] \in Nat /\ history[u] \in Nat
      BY <1>2, <1>8, <2>1
    <2>3. f[n] - f[u - 1] > budget
      BY <1>9
    <2> QED
      BY <1>3, <1>4, <1>7, <1>11, <2>2, <2>3
  <1>14. Assemble(history, Budget(system, tools)) = sent
    BY DEF Assemble, u, budget, n
  <1> HIDE DEF sent
  <1> QED
    BY <1>10, <1>12, <1>13, <1>14 DEF room, n, sent

\* Assemble: for every history, prompt and model, what is sent is an end of the history
\* that fits, and the longest one, counting only messages that have a size.
THEOREM HistoryAlwaysFits == Spec => []HistoryFits
  <1>1. HistoryFits
    BY WindowAlwaysFits DEF HistoryFits
  <1> QED
    BY <1>1, PTL
-----------------------------------------------------------------------------
\* A set of integers within bounds has a greatest element.
LEMMA MaxExists ==
    ASSUME NEW lo \in Int, NEW hi \in Int, NEW S \in SUBSET (lo..hi), S # {}
    PROVE  Max(S) \in S /\ \A y \in S : y <= Max(S)
  <1> DEFINE HasMax(T) == \E x \in T : \A y \in T : x >= y
             M == {m \in Nat : \A T \in SUBSET (lo..lo + m) : T # {} => HasMax(T)}
  <1>1. 0 \in M
    <2> SUFFICES ASSUME NEW T \in SUBSET (lo..lo + 0), T # {}
                 PROVE  HasMax(T)
      OBVIOUS
    <2>1. \A y \in T : y = lo
      OBVIOUS
    <2>2. PICK x \in T : TRUE
      OBVIOUS
    <2> QED
      BY <2>1, <2>2
  <1>2. ASSUME NEW m \in M
        PROVE  m + 1 \in M
    <2> SUFFICES ASSUME NEW T \in SUBSET (lo..lo + (m + 1)), T # {}
                 PROVE  HasMax(T)
      OBVIOUS
    <2>1. CASE lo + (m + 1) \in T
      BY <2>1
    <2>2. CASE lo + (m + 1) \notin T
      <3>1. T \in SUBSET (lo..lo + m)
        BY <2>2
      <3> QED
        BY <1>2, <3>1
    <2> QED
      BY <2>1, <2>2
  <1>3. M = Nat
    <2> HIDE DEF M
    <2> QED
      BY <1>1, <1>2, SetInduction DEF M
  <1>4. HasMax(S)
    <2>1. PICK z \in S : z \in lo..hi
      OBVIOUS
    <2>2. hi - lo \in Nat /\ lo + (hi - lo) = hi
      BY <2>1
    <2>3. hi - lo \in M
      <3> HIDE DEF M
      <3> QED
        BY <1>3, <2>2
    <2> HIDE DEF HasMax
    <2> QED
      BY <2>2, <2>3
  <1>5. Max(S) \in S /\ \A y \in S : Max(S) >= y
    BY <1>4 DEF Max
  <1> QED
    BY <1>5

\* strings.LastIndex: not found, or a place at which the pattern fits into the text.
LEMMA LastIndexRange ==
    ASSUME NEW text \in Seq(Bytes), NEW pattern \in Seq(Bytes)
    PROVE  /\ LastIndex(text, pattern) \in Int
           /\ LastIndex(text, pattern) >= 0
                => LastIndex(text, pattern) + Len(pattern) <= Len(text)
  <1> DEFINE found == {i \in 0..Len(text) - Len(pattern) :
                         SubSeq(text, i + 1, i + Len(pattern)) = pattern}
             S == found \cup {-1}
  <1>1. Len(text) \in Nat /\ Len(pattern) \in Nat
    BY LenProperties
  <1>2. S \in SUBSET (-1..Len(text)) /\ S # {}
    BY <1>1
  <1>3. \A i \in S : i \in Int /\ (i >= 0 => i + Len(pattern) <= Len(text))
    BY <1>1
  <1>4. LastIndex(text, pattern) = Max(S)
    BY DEF LastIndex
  <1>5. Max(S) \in S
    <2>1. -1 \in Int /\ Len(text) \in Int
      BY <1>1
    <2> HIDE DEF S
    <2> QED
      BY <1>2, <2>1, MaxExists
  <1> QED
    BY <1>3, <1>4, <1>5

\* A cut is within the limit and beyond its first quarter.
LEMMA SplitAtRange ==
    ASSUME NEW maxLen \in Nat \ {0}, NEW chunk \in Seq(Bytes), Len(chunk) = maxLen
    PROVE  SplitAt(chunk, maxLen) \in 1..maxLen /\ SplitAt(chunk, maxLen) > maxLen \div 4
  <1> DEFINE ends(pattern) == LastIndex(chunk, pattern) > maxLen \div 4
             after(pattern) == LastIndex(chunk, pattern) + Len(pattern)
             fits(at) == at \in 1..maxLen /\ at > maxLen \div 4
  <1>1. maxLen \div 4 \in Nat /\ maxLen \div 4 < maxLen
    OBVIOUS
  <1>2. ASSUME NEW pattern \in Seq(Bytes), Len(pattern) > 0, ends(pattern)
        PROVE  fits(after(pattern))
    <2>1. Len(pattern) \in Nat
      BY LenProperties
    <2>2. LastIndex(chunk, pattern) \in Int /\ LastIndex(chunk, pattern) >= 0
      BY <1>1, <1>2, LastIndexRange
    <2>3. LastIndex(chunk, pattern) + Len(pattern) <= maxLen
      BY <2>2, LastIndexRange
    <2> QED
      BY <1>1, <1>2, <2>1, <2>2, <2>3
  <1>3. /\ <<"n", "n">> \in Seq(Bytes) /\ Len(<<"n", "n">>) > 0
        /\ <<"n">> \in Seq(Bytes) /\ Len(<<"n">>) > 0
        /\ <<".", " ">> \in Seq(Bytes) /\ Len(<<".", " ">>) > 0
        /\ <<" ">> \in Seq(Bytes) /\ Len(<<" ">>) > 0
    <2>1. "n" \in Bytes /\ "." \in Bytes /\ " " \in Bytes
      BY DEF Bytes
    <2>2. \A a, b \in Bytes : /\ <<a>> \in Seq(Bytes) /\ Len(<<a>>) > 0
                             /\ <<a, b>> \in Seq(Bytes) /\ Len(<<a, b>>) > 0
      OBVIOUS
    <2> QED
      BY <2>1, <2>2
  <1>4. fits(maxLen)
    BY <1>1
  <1>5. \/ ends(<<"n", "n">>) /\ SplitAt(chunk, maxLen) = after(<<"n", "n">>)
        \/ ends(<<"n">>) /\ SplitAt(chunk, maxLen) = after(<<"n">>)
        \/ ends(<<".", " ">>) /\ SplitAt(chunk, maxLen) = after(<<".", " ">>)
        \/ ends(<<" ">>) /\ SplitAt(chunk, maxLen) = after(<<" ">>)
        \/ SplitAt(chunk, maxLen) = maxLen
    <2> DEFINE A == ends(<<"n", "n">>)
               B == ends(<<"n">>)
               C == ends(<<".", " ">>)
               D == ends(<<" ">>)
               p == after(<<"n", "n">>)
               q == after(<<"n">>)
               r == after(<<".", " ">>)
               s == after(<<" ">>)
    <2>1. SplitAt(chunk, maxLen) = CASE A -> p
                                     [] ~ A /\ B -> q
                                     [] ~ B /\ C -> r
                                     [] ~ B /\ ~ C /\ D -> s
                                     [] OTHER -> maxLen
      BY DEF SplitAt
    <2> HIDE DEF A, B, C, D, p, q, r, s
    <2>2. \/ A /\ SplitAt(chunk, maxLen) = p
          \/ B /\ SplitAt(chunk, maxLen) = q
          \/ C /\ SplitAt(chunk, maxLen) = r
          \/ D /\ SplitAt(chunk, maxLen) = s
          \/ SplitAt(chunk, maxLen) = maxLen
      BY <2>1
    <2> QED
      BY <2>2 DEF A, B, C, D, p, q, r, s
  <1> HIDE DEF ends, after, fits
  <1>6. fits(SplitAt(chunk, maxLen))
    BY <1>2, <1>3, <1>4, <1>5
  <1> QED
    BY <1>6 DEF fits

\* TrimRight loses only spaces, and only those at the end.
LEMMA TrimRightKeeps ==
    ASSUME NEW text \in Seq(Bytes)
    PROVE  /\ TrimRight(text) \in Seq(Bytes)
           /\ Len(TrimRight(text)) <= Len(text)
           /\ \A j \in 1..Len(text) :
                IF j <= Len(TrimRight(text)) THEN TrimRight(text)[j] = text[j]
                                             ELSE text[j] = " "
  <1> DEFINE S == {0} \cup {i \in DOMAIN text : text[i] # " "}
             k == Max(S)
  <1>1. Len(text) \in Nat /\ DOMAIN text = 1..Len(text) /\ \A i \in 1..Len(text) : text[i] \in Bytes
    BY LenProperties, ElementOfSeq
  <1>2. S \in SUBSET (0..Len(text)) /\ S # {}
    <2>1. \A i \in S : i \in {0} \cup DOMAIN text
      OBVIOUS
    <2>2. 0 \in S
      OBVIOUS
    <2> HIDE DEF S
    <2> QED
      BY <1>1, <2>1, <2>2
  <1>3. k \in S /\ \A y \in S : y <= k
    <2>1. 0 \in Int /\ Len(text) \in Int
      BY <1>1
    <2> HIDE DEF S
    <2> QED
      BY <1>2, <2>1, MaxExists
  <1> HIDE DEF k
  <1>4. ASSUME NEW j \in 1..Len(text), j > k
        PROVE  text[j] = " "
    <2>1. j \notin S
      <3> HIDE DEF S
      <3>1. k \in Int
        BY <1>1, <1>2, <1>3
      <3> QED
        BY <1>3, <1>4, <3>1
    <2> QED
      BY <1>1, <2>1
  <1>5. k \in 0..Len(text)
    BY <1>2, <1>3
  <1>6. TrimRight(text) = SubSeq(text, 1, k)
    BY DEF TrimRight, k
  <1>7. /\ SubSeq(text, 1, k) \in Seq(Bytes)
        /\ Len(SubSeq(text, 1, k)) = k
        /\ \A j \in 1..k : SubSeq(text, 1, k)[j] = text[j]
    BY <1>1, <1>5
  <1>8. Len(SubSeq(text, 1, k)) <= Len(text)
    BY <1>1, <1>5, <1>7
  <1>9. ASSUME NEW j \in 1..Len(text)
        PROVE  IF j <= k THEN SubSeq(text, 1, k)[j] = text[j] ELSE text[j] = " "
    <2>1. CASE j <= k
      BY <1>5, <1>7, <2>1
    <2>2. CASE ~ (j <= k)
      <3>1. j > k
        BY <1>1, <1>5, <2>2
      <3> QED
        BY <1>4, <2>2, <3>1
    <2> QED
      BY <2>1, <2>2
  <1> HIDE DEF S
  <1> QED
    BY <1>6, <1>7, <1>8, <1>9
-----------------------------------------------------------------------------
\* A step makes a value from a table and uses only what is in it at earlier places.
LooksBack(step, n, A) ==
    /\ step \in [0..n -> [[0..n -> A] -> A]]
    /\ \A i \in 0..n : \A F, G \in [0..n -> A] :
         (\A j \in 0..i - 1 : F[j] = G[j]) => step[i][F] = step[i][G]

IsTable(f, step, n, A) == f \in [0..n -> A] /\ \A i \in 0..n : f[i] = step[i][f]

\* A recursive function whose values are made from any earlier ones exists.
LEMMA TableExists ==
    ASSUME NEW n \in Nat, NEW A, NEW first \in A, NEW step, LooksBack(step, n, A)
    PROVE  \E f : IsTable(f, step, n, A)
  <1> DEFINE Filled(F, m) == F \in [0..n -> A] /\ \A i \in 0..m : F[i] = step[i][F]
             S == {m \in Nat : m <= n => \E F : Filled(F, m)}
  <1>0. /\ step \in [0..n -> [[0..n -> A] -> A]]
        /\ \A i \in 0..n : \A F, G \in [0..n -> A] :
             (\A j \in 0..i - 1 : F[j] = G[j]) => step[i][F] = step[i][G]
    BY DEF LooksBack
  <1>1. ASSUME NEW m \in 0..n, NEW F \in [0..n -> A],
               \A i \in 0..m - 1 : F[i] = step[i][F]
        PROVE  Filled([F EXCEPT ![m] = step[m][F]], m)
    <2> DEFINE G == [F EXCEPT ![m] = step[m][F]]
    <2>1. step[m][F] \in A
      BY <1>0
    <2>2. G \in [0..n -> A] /\ G[m] = step[m][F] /\ \A j \in 0..m - 1 : G[j] = F[j]
      BY <2>1
    <2> HIDE DEF G
    <2>3. ASSUME NEW i \in 0..m
          PROVE  G[i] = step[i][G]
      <3>1. i \in 0..n /\ \A j \in 0..i - 1 : G[j] = F[j]
        BY <2>2
      <3>2. step[i][G] = step[i][F]
        BY <1>0, <2>2, <3>1
      <3>3. CASE i = m
        BY <2>2, <3>2, <3>3
      <3>4. CASE i # m
        <4>1. i \in 0..m - 1
          BY <3>4
        <4> QED
          BY <1>1, <2>2, <3>2, <4>1
      <3> QED
        BY <3>3, <3>4
    <2> QED
      BY <2>2, <2>3 DEF G
  <1> HIDE DEF Filled
  <1>2. 0 \in S
    <2> DEFINE F == [i \in 0..n |-> first]
    <2>1. F \in [0..n -> A] /\ 0 \in 0..n /\ \A i \in 0..0 - 1 : F[i] = step[i][F]
      OBVIOUS
    <2> HIDE DEF F
    <2>2. \E G : Filled(G, 0)
      BY <1>1, <2>1
    <2> QED
      BY <2>2
  <1>3. ASSUME NEW m \in S
        PROVE  m + 1 \in S
    <2> SUFFICES ASSUME m + 1 <= n
                 PROVE  \E G : Filled(G, m + 1)
      OBVIOUS
    <2> DEFINE k == m + 1
    <2>1. m \in Nat /\ k \in 0..n /\ k - 1 = m
      OBVIOUS
    <2>2. PICK F : Filled(F, m)
      BY <1>3, <2>1
    <2> HIDE DEF k
    <2>3. F \in [0..n -> A] /\ \A i \in 0..k - 1 : F[i] = step[i][F]
      BY <2>1, <2>2 DEF Filled
    <2>4. Filled([F EXCEPT ![k] = step[k][F]], k)
      BY <1>1, <2>1, <2>3
    <2> QED
      BY <2>4 DEF k
  <1>4. S = Nat
    <2> HIDE DEF S
    <2> QED
      BY <1>2, <1>3, SetInduction DEF S
  <1>5. n \in S
    <2> HIDE DEF S
    <2> QED
      BY <1>4
  <1>6. PICK f : Filled(f, n)
    BY <1>5
  <1> QED
    BY <1>6 DEF Filled, IsTable
-----------------------------------------------------------------------------
\* Induction over the first numbers, from all earlier ones.
LEMMA StrongInduction ==
    ASSUME NEW n \in Nat, NEW S, \A m \in 0..n : (\A j \in 0..m - 1 : j \in S) => m \in S
    PROVE  \A m \in 0..n : m \in S
  <1> DEFINE T == {m \in Nat : m <= n => \A j \in 0..m : j \in S}
  <1>1. 0 \in T
    BY Z3
  <1>2. ASSUME NEW m \in T
        PROVE  m + 1 \in T
    <2> SUFFICES ASSUME m + 1 <= n, NEW k \in 0..m + 1
                 PROVE  k \in S
      OBVIOUS
    <2>1. m \in Nat /\ m + 1 \in 0..n /\ \A j \in 0..m + 1 - 1 : j \in S
      BY <1>2
    <2>2. m + 1 \in S
      BY <2>1
    <2>3. k = m + 1 \/ k \in 0..m
      OBVIOUS
    <2> QED
      BY <1>2, <2>1, <2>2, <2>3
  <1>3. T = Nat
    <2> HIDE DEF T
    <2> QED
      BY <1>1, <1>2, SetInduction DEF T
  <1>4. n \in T
    <2> HIDE DEF T
    <2> QED
      BY <1>3
  <1> QED
    BY <1>4
-----------------------------------------------------------------------------
\* What is left of a text, and where SplitMessage cuts it.
Remainder(s, left) == SubSeq(s, Len(s) - left + 1, Len(s))
CutOf(s, maxLen, left) == SplitAt(SubSeq(Remainder(s, left), 1, maxLen), maxLen)
FirstPart(s, maxLen, left) == TrimRight(SubSeq(Remainder(s, left), 1, CutOf(s, maxLen, left)))

\* SplitMessage's recursive function.
Splits(s, maxLen, f) ==
    f = [left \in 0..Len(s) |->
           IF left <= maxLen
             THEN IF left = 0 THEN <<>> ELSE <<Remainder(s, left)>>
             ELSE <<FirstPart(s, maxLen, left)>> \o f[Rest(left, CutOf(s, maxLen, left))]]

SplitOf(s, maxLen) == CHOOSE f : Splits(s, maxLen, f)

\* What is left are the last bytes.
LEMMA EndIsEnd ==
    ASSUME NEW s \in Seq(Bytes), NEW left \in 0..Len(s)
    PROVE  /\ Remainder(s, left) \in Seq(Bytes) /\ Len(Remainder(s, left)) = left
           /\ \A j \in 1..left : Remainder(s, left)[j] = s[Len(s) - left + j]
  <1> DEFINE n == Len(s)
  <1>1. n \in Nat /\ \A i \in 1..n : s[i] \in Bytes
    BY LenProperties, ElementOfSeq
  <1>2. \A i \in n - left + 1..n : s[i] \in Bytes
    BY <1>1
  <1>3. /\ SubSeq(s, n - left + 1, n) \in Seq(Bytes)
        /\ Len(SubSeq(s, n - left + 1, n))
             = IF n - left + 1 <= n THEN n - (n - left + 1) + 1 ELSE 0
        /\ \A j \in 1..n - (n - left + 1) + 1 :
             SubSeq(s, n - left + 1, n)[j] = s[n - left + 1 + j - 1]
    BY <1>1, <1>2, SubSeqProperties
  <1>4. Remainder(s, left) = SubSeq(s, n - left + 1, n)
    BY DEF Remainder
  <1> HIDE DEF n
  <1>5. Len(Remainder(s, left)) = left
    BY <1>1, <1>3, <1>4 DEF n
  <1>6. ASSUME NEW j \in 1..left
        PROVE  Remainder(s, left)[j] = s[n - left + j]
    <2>1. j \in 1..n - (n - left + 1) + 1 /\ n - left + 1 + j - 1 = n - left + j
      BY <1>1 DEF n
    <2> QED
      BY <1>3, <1>4, <2>1
  <1> QED
    BY <1>3, <1>4, <1>5, <1>6 DEF n

\* A cut is within the next message, beyond its first quarter, and the part before it is
\* the text without the spaces at its end.
LEMMA FirstPartIsPart ==
    ASSUME NEW s \in Seq(Bytes), NEW maxLen \in Nat \ {0}, NEW left \in 0..Len(s), left > maxLen
    PROVE  LET at == CutOf(s, maxLen, left)
               part == FirstPart(s, maxLen, left)
               from == Len(s) - left
           IN  /\ at \in 1..maxLen /\ at > maxLen \div 4
               /\ part \in Seq(Bytes) /\ Len(part) <= maxLen
               /\ IsPart(part, s, from, from + at)
  <1> DEFINE text == Remainder(s, left)
             at == CutOf(s, maxLen, left)
             piece == SubSeq(text, 1, at)
             part == TrimRight(piece)
             from == Len(s) - left
  <1>1. /\ text \in Seq(Bytes) /\ Len(text) = left
        /\ \A j \in 1..left : text[j] = s[from + j]
    BY EndIsEnd
  <1>2. Len(s) \in Nat /\ from \in Nat /\ left \in Nat
    BY LenProperties
  <1>3. SubSeq(text, 1, maxLen) \in Seq(Bytes) /\ Len(SubSeq(text, 1, maxLen)) = maxLen
    <2> HIDE DEF text
    <2> QED
      BY <1>1, <1>2
  <1>4. at \in 1..maxLen /\ at > maxLen \div 4
    BY <1>3, SplitAtRange DEF CutOf
  <1> HIDE DEF at, text
  <1>5. /\ piece \in Seq(Bytes) /\ Len(piece) = at
        /\ \A j \in 1..at : piece[j] = text[j]
    BY <1>1, <1>2, <1>4
  <1> HIDE DEF piece
  <1>6. /\ part \in Seq(Bytes) /\ Len(part) <= at
        /\ \A j \in 1..at : IF j <= Len(part) THEN part[j] = piece[j] ELSE piece[j] = " "
    BY <1>5, TrimRightKeeps
  <1>7. Len(part) \in Nat
    BY <1>6, LenProperties
  <1> HIDE DEF part
  <1>8. Len(part) <= maxLen
    <2>1. Len(part) <= at
      BY <1>6
    <2> QED
      BY <1>4, <1>7, <2>1
  <1>9. ASSUME NEW j \in 1..at
        PROVE  IF j <= Len(part) THEN part[j] = s[from + j] ELSE s[from + j] = " "
    <2>1. j \in 1..left
      BY <1>2, <1>4
    <2> HIDE DEF from
    <2>2. piece[j] = s[from + j]
      BY <1>1, <1>5, <2>1
    <2> QED
      BY <1>6, <2>2
  <1> HIDE DEF from
  <1>10. (from + at) - from = at
    BY <1>2, <1>4
  <1>11. IsPart(part, s, from, from + at)
    <2> DEFINE to == from + at
    <2>0. to - from = at
      BY <1>10
    <2> HIDE DEF to
    <2>1. Len(part) <= to - from
      BY <1>6, <2>0
    <2>2. \A j \in 1..to - from :
            IF j <= Len(part) THEN part[j] = s[from + j] ELSE s[from + j] = " "
      BY <1>9, <2>0
    <2>3. IsPart(part, s, from, to)
      BY <2>1, <2>2 DEF IsPart
    <2> QED
      BY <2>3 DEF to
  <1>12. part = FirstPart(s, maxLen, left)
    BY DEF part, piece, text, at, FirstPart
  <1> QED
    BY <1>4, <1>6, <1>8, <1>11, <1>12 DEF at, from
-----------------------------------------------------------------------------
\* The loop of SplitMessage, for every number of bytes that are left.
LEMMA SplitIsLoop ==
    ASSUME NEW s \in Seq(Bytes), NEW maxLen \in Nat \ {0}, Len(s) > maxLen
    PROVE  /\ SplitMessage(s, maxLen) = SplitOf(s, maxLen)[Len(s)]
           /\ \A left \in 0..Len(s) :
                /\ SplitOf(s, maxLen)[left] \in Seq(Seq(Bytes))
                /\ SplitOf(s, maxLen)[left] =
                     IF left <= maxLen
                       THEN IF left = 0 THEN <<>> ELSE <<Remainder(s, left)>>
                       ELSE <<FirstPart(s, maxLen, left)>>
                              \o SplitOf(s, maxLen)[Rest(left, CutOf(s, maxLen, left))]
  <1> DEFINE n == Len(s)
             A == Seq(Seq(Bytes))
             rest(left) == Rest(left, CutOf(s, maxLen, left))
             value(left, F) ==
               IF left <= maxLen
                 THEN IF left = 0 THEN <<>> ELSE <<Remainder(s, left)>>
                 ELSE <<FirstPart(s, maxLen, left)>> \o F[rest(left)]
             step == [left \in 0..n |-> [F \in [0..n -> A] |-> value(left, F)]]
  <1>1. n \in Nat
    BY LenProperties
  <1>2. ASSUME NEW left \in 0..n, left > maxLen
        PROVE  /\ rest(left) \in 0..left - 1 /\ rest(left) \in 0..n
               /\ FirstPart(s, maxLen, left) \in Seq(Bytes)
    <2>1. CutOf(s, maxLen, left) \in 1..maxLen /\ FirstPart(s, maxLen, left) \in Seq(Bytes)
      BY <1>2, FirstPartIsPart
    <2> QED
      BY <1>1, <1>2, <2>1 DEF Rest
  <1>3. \A left \in 0..n : Remainder(s, left) \in Seq(Bytes)
    BY EndIsEnd
  <1> HIDE DEF n, rest
  <1>4. ASSUME NEW left \in 0..n, NEW F \in [0..n -> A]
        PROVE  value(left, F) \in A
    <2>1. <<>> \in A
      OBVIOUS
    <2>2. \A t \in Seq(Bytes) : <<t>> \in A
      OBVIOUS
    <2>3. CASE left <= maxLen
      BY <1>3, <2>1, <2>2, <2>3
    <2>4. CASE ~ (left <= maxLen)
      <3>1. left > maxLen
        BY <1>1, <2>4
      <3>2. F[rest(left)] \in A /\ <<FirstPart(s, maxLen, left)>> \in A
        BY <1>2, <2>2, <3>1
      <3>3. <<FirstPart(s, maxLen, left)>> \o F[rest(left)] \in A
        BY <3>2, ConcatProperties
      <3> QED
        BY <2>4, <3>3
    <2> QED
      BY <2>3, <2>4
  <1>5. ASSUME NEW left \in 0..n, NEW F \in [0..n -> A], NEW G \in [0..n -> A],
               \A j \in 0..left - 1 : F[j] = G[j]
        PROVE  value(left, F) = value(left, G)
    <2>1. CASE left <= maxLen
      BY <2>1
    <2>2. CASE ~ (left <= maxLen)
      <3>1. left > maxLen
        BY <1>1, <2>2
      <3>2. F[rest(left)] = G[rest(left)]
        BY <1>2, <1>5, <3>1
      <3> QED
        BY <2>2, <3>2
    <2> QED
      BY <2>1, <2>2
  <1> HIDE DEF value
  <1>6. step \in [0..n -> [[0..n -> A] -> A]]
    BY <1>4
  <1>7. \A left \in 0..n : \A F, G \in [0..n -> A] :
          (\A j \in 0..left - 1 : F[j] = G[j]) => step[left][F] = step[left][G]
    BY <1>5
  <1>8. <<>> \in A
    OBVIOUS
  <1>9. PICK f : f \in [0..n -> A] /\ \A left \in 0..n : f[left] = value(left, f)
    <2>1. LooksBack(step, n, A)
      BY <1>6, <1>7 DEF LooksBack
    <2>2. PICK f : IsTable(f, step, n, A)
      <3> DEFINE first == <<>>
      <3>1. first \in A
        BY <1>8
      <3> HIDE DEF step, A, first
      <3> QED
        BY <1>1, <2>1, <3>1, TableExists
    <2>3. f \in [0..n -> A] /\ \A left \in 0..n : f[left] = step[left][f]
      BY <2>2 DEF IsTable
    <2> QED
      BY <2>3
  <1>10. f = [left \in 0..n |-> value(left, f)]
    BY <1>9
  <1>11. Splits(s, maxLen, f)
    BY <1>10 DEF Splits, value, rest, n
  <1>12. Splits(s, maxLen, SplitOf(s, maxLen))
    BY <1>11 DEF SplitOf
  <1> DEFINE g == SplitOf(s, maxLen)
  <1>13. SplitMessage(s, maxLen) = g[n]
    <2>1. n > maxLen
      BY DEF n
    <2>2. ~ (n <= maxLen)
      BY <1>1, <2>1
    <2> QED
      BY <2>2 DEF SplitMessage, SplitOf, Splits, Remainder, CutOf, FirstPart, n
  <1>14. g = [left \in 0..n |-> value(left, g)]
    BY <1>12 DEF Splits, value, rest, n
  <1> HIDE DEF g
  <1>15. ASSUME NEW left \in 0..n
         PROVE  g[left] = value(left, g)
    BY <1>14
  <1>16. \A left \in 0..n : g[left] = f[left]
    <2> DEFINE S == {left \in 0..n : g[left] = f[left]}
    <2>1. ASSUME NEW left \in 0..n, \A j \in 0..left - 1 : j \in S
          PROVE  left \in S
      <3>1. CASE left <= maxLen
        BY <1>9, <1>15, <3>1 DEF value
      <3>2. CASE ~ (left <= maxLen)
        <4>1. left > maxLen
          BY <1>1, <3>2
        <4>2. g[rest(left)] = f[rest(left)]
          BY <1>2, <2>1, <4>1
        <4> QED
          BY <1>9, <1>15, <3>2, <4>2 DEF value
      <3> QED
        BY <3>1, <3>2
    <2> HIDE DEF S
    <2>2. \A left \in 0..n : left \in S
      BY <1>1, <2>1, StrongInduction
    <2> QED
      BY <2>2 DEF S
  <1>17. \A left \in 0..n : g[left] \in A /\ g[left] = value(left, g)
    BY <1>9, <1>15, <1>16
  <1> QED
    BY <1>13, <1>17 DEF g, value, rest, n
-----------------------------------------------------------------------------
\* The parts of the last bytes of a text, and the places between which they stand.
CoversEnd(parts, s, maxLen, left, ends) ==
    /\ parts \in Seq(Seq(Bytes))
    /\ \A i \in 1..Len(parts) : Len(parts[i]) <= maxLen
    /\ ends \in [0..Len(parts) -> 0..Len(s)]
    /\ ends[0] = Len(s) - left /\ ends[Len(parts)] = Len(s)
    /\ \A i \in 1..Len(parts) : IsPart(parts[i], s, ends[i - 1], ends[i])
    /\ \A i \in 1..Len(parts) - 1 : ends[i] - ends[i - 1] > maxLen \div 4

\* No text is left, or one that fits into a message.
LEMMA RestIsCovered ==
    ASSUME NEW s \in Seq(Bytes), NEW maxLen \in Nat \ {0}, NEW left \in 0..Len(s), left <= maxLen
    PROVE  /\ left = 0 => \E ends : CoversEnd(<<>>, s, maxLen, left, ends)
           /\ \E ends : CoversEnd(<<Remainder(s, left)>>, s, maxLen, left, ends)
  <1>1. Len(s) \in Nat
    BY LenProperties
  <1>2. ASSUME left = 0
        PROVE  \E ends : CoversEnd(<<>>, s, maxLen, left, ends)
    <2> DEFINE ends == [i \in 0..0 |-> Len(s)]
    <2>1. CoversEnd(<<>>, s, maxLen, left, ends)
      BY <1>1, <1>2 DEF CoversEnd
    <2> QED
      BY <2>1
  <1>3. \E ends : CoversEnd(<<Remainder(s, left)>>, s, maxLen, left, ends)
    <2> DEFINE text == Remainder(s, left)
               n == Len(s)
               ends == [i \in 0..1 |-> IF i = 0 THEN n - left ELSE n]
    <2>1. /\ text \in Seq(Bytes) /\ Len(text) = left
          /\ \A j \in 1..left : text[j] = s[n - left + j]
      BY EndIsEnd
    <2> HIDE DEF text, n
    <2>2. /\ <<text>> \in Seq(Seq(Bytes)) /\ Len(<<text>>) = 1 /\ <<text>>[1] = text
      BY <2>1
    <2>3. n \in Nat /\ left \in 0..n /\ n - left \in 0..n /\ n - (n - left) = left
      BY <1>1 DEF n
    <2>4. ends \in [0..1 -> 0..n] /\ ends[0] = n - left /\ ends[1] = n
      BY <2>3
    <2>5. IsPart(text, s, n - left, n)
      BY <2>1, <2>3 DEF IsPart
    <2> HIDE DEF ends
    <2>6. \A i \in 1..1 : Len(<<text>>[i]) <= maxLen /\ IsPart(<<text>>[i], s, ends[i - 1], ends[i])
      BY <2>1, <2>2, <2>4, <2>5
    <2>7. \A i \in 1..1 - 1 : ends[i] - ends[i - 1] > maxLen \div 4
      OBVIOUS
    <2>8. CoversEnd(<<text>>, s, maxLen, left, ends)
      <3> DEFINE parts == <<text>>
      <3>1. parts \in Seq(Seq(Bytes)) /\ Len(parts) = 1
        BY <2>2
      <3>2. \A i \in 1..1 : Len(parts[i]) <= maxLen /\ IsPart(parts[i], s, ends[i - 1], ends[i])
        BY <2>6
      <3> HIDE DEF parts
      <3>3. CoversEnd(parts, s, maxLen, left, ends)
        BY <2>4, <2>7, <3>1, <3>2 DEF CoversEnd, n
      <3> QED
        BY <3>3 DEF parts
    <2> QED
      BY <2>8 DEF text
  <1> QED
    BY <1>2, <1>3

\* A part in front of parts that cover what is left after it.
LEMMA PartIsAdded ==
    ASSUME NEW s \in Seq(Bytes), NEW maxLen \in Nat \ {0}, NEW left \in 0..Len(s),
           NEW at \in 1..left, at > maxLen \div 4,
           NEW part \in Seq(Bytes), Len(part) <= maxLen,
           IsPart(part, s, Len(s) - left, Len(s) - left + at),
           NEW parts, NEW ends, CoversEnd(parts, s, maxLen, left - at, ends)
    PROVE  \E all : CoversEnd(<<part>> \o parts, s, maxLen, left, all)
  <1> DEFINE n == Len(s)
             k == Len(parts)
             new == <<part>> \o parts
             all == [i \in 0..k + 1 |-> IF i = 0 THEN n - left ELSE ends[i - 1]]
  <1>1. /\ parts \in Seq(Seq(Bytes))
        /\ \A i \in 1..k : Len(parts[i]) <= maxLen
        /\ ends \in [0..k -> 0..n]
        /\ ends[0] = n - (left - at) /\ ends[k] = n
        /\ \A i \in 1..k : IsPart(parts[i], s, ends[i - 1], ends[i])
        /\ \A i \in 1..k - 1 : ends[i] - ends[i - 1] > maxLen \div 4
    BY DEF CoversEnd
  <1>2. n \in Nat /\ k \in Nat
    BY <1>1, LenProperties
  <1>3. new \in Seq(Seq(Bytes)) /\ Len(new) = k + 1
    <2>1. <<part>> \in Seq(Seq(Bytes)) /\ Len(<<part>>) = 1
      OBVIOUS
    <2> QED
      BY <1>1, <2>1, ConcatProperties
  <1>4. new[1] = part /\ \A i \in 2..k + 1 : new[i] = parts[i - 1]
    <2>1. <<part>> \in Seq(Seq(Bytes)) /\ Len(<<part>>) = 1 /\ <<part>>[1] = part
      OBVIOUS
    <2>2. \A i \in 1..Len(<<part>>) + k :
            new[i] = IF i <= Len(<<part>>) THEN <<part>>[i] ELSE parts[i - Len(<<part>>)]
      BY <1>1, <2>1, ConcatProperties
    <2> HIDE DEF new, k
    <2>3. 1 \in 1..1 + k
      BY <1>2
    <2>4. new[1] = part
      BY <2>1, <2>2, <2>3
    <2>5. ASSUME NEW i \in 2..k + 1
          PROVE  new[i] = parts[i - 1]
      <3>1. i \in 1..1 + k /\ ~ (i <= 1)
        BY <1>2
      <3> QED
        BY <2>1, <2>2, <3>1
    <2> QED
      BY <2>4, <2>5
  <1> HIDE DEF new, k, n
  <1>5. n - left \in 0..n
    BY <1>2 DEF n
  <1>6. all \in [0..k + 1 -> 0..n]
    <2> SUFFICES ASSUME NEW i \in 0..k + 1
                 PROVE  (IF i = 0 THEN n - left ELSE ends[i - 1]) \in 0..n
      OBVIOUS
    <2>1. i # 0 => i - 1 \in 0..k
      BY <1>2
    <2> QED
      BY <1>1, <1>5, <2>1
  <1>7. /\ all[0] = n - left
        /\ \A i \in 1..k + 1 : all[i] = ends[i - 1]
    BY <1>2
  <1> HIDE DEF all
  <1>8. all[1] = n - left + at /\ all[k + 1] = n
    <2>1. 1 \in 1..k + 1 /\ k + 1 \in 1..k + 1
      BY <1>2
    <2>2. all[1] = n - (left - at)
      BY <1>1, <1>7, <2>1
    <2>3. all[k + 1] = ends[k]
      BY <1>2, <1>7, <2>1
    <2> QED
      BY <1>1, <1>2, <2>2, <2>3 DEF n
  <1>9. ASSUME NEW i \in 1..k + 1
        PROVE  /\ Len(new[i]) <= maxLen
               /\ IsPart(new[i], s, all[i - 1], all[i])
               /\ i <= k => all[i] - all[i - 1] > maxLen \div 4
    <2>1. CASE i = 1
      <3>1. IsPart(part, s, n - left, n - left + at)
        BY DEF n
      <3>2. all[i] - all[i - 1] = at
        BY <1>2, <1>7, <1>8, <2>1
      <3> QED
        BY <1>4, <1>7, <1>8, <2>1, <3>1, <3>2
    <2>2. CASE i # 1
      <3>1. /\ i - 1 \in 1..k /\ i \in 2..k + 1 /\ i - 1 \in 1..k + 1
            /\ i <= k => i - 1 \in 1..k - 1
        BY <1>2, <2>2
      <3>2. all[i] = ends[i - 1] /\ all[i - 1] = ends[i - 1 - 1]
        BY <1>7, <3>1
      <3>3. new[i] = parts[i - 1]
        BY <1>4, <3>1
      <3>4. Len(parts[i - 1]) <= maxLen /\ IsPart(parts[i - 1], s, ends[i - 1 - 1], ends[i - 1])
        BY <1>1, <3>1
      <3>5. i <= k => ends[i - 1] - ends[i - 1 - 1] > maxLen \div 4
        BY <1>1, <3>1
      <3> QED
        BY <3>2, <3>3, <3>4, <3>5
    <2> QED
      BY <2>1, <2>2
  <1>10. CoversEnd(new, s, maxLen, left, all)
    <2> DEFINE m == k + 1
    <2>1. \A i \in 1..m - 1 : i \in 1..m /\ i <= k
      BY <1>2
    <2>2. new \in Seq(Seq(Bytes)) /\ Len(new) = m /\ all \in [0..m -> 0..n]
      BY <1>3, <1>6
    <2>3. all[0] = n - left /\ all[m] = n
      BY <1>7, <1>8
    <2>4. \A i \in 1..m : /\ Len(new[i]) <= maxLen
                          /\ IsPart(new[i], s, all[i - 1], all[i])
                          /\ i <= k => all[i] - all[i - 1] > maxLen \div 4
      BY <1>9
    <2> HIDE DEF m
    <2>5. \A i \in 1..m - 1 : all[i] - all[i - 1] > maxLen \div 4
      BY <2>1, <2>4
    <2> QED
      BY <2>2, <2>3, <2>4, <2>5 DEF CoversEnd, n
  <1> QED
    BY <1>10 DEF new

\* The parts of a text cover it.
LEMMA SplitCovers ==
    ASSUME NEW s \in Seq(Bytes), NEW maxLen \in Nat \ {0}
    PROVE  \E ends : CoversEnd(SplitMessage(s, maxLen), s, maxLen, Len(s), ends)
  <1> DEFINE n == Len(s)
             f == SplitOf(s, maxLen)
             S == {left \in 0..n : \E ends : CoversEnd(f[left], s, maxLen, left, ends)}
  <1>1. n \in Nat /\ n \in 0..n
    BY LenProperties
  <1>2. CASE n <= maxLen
    <2>1. Remainder(s, n) = s
      <3>1. /\ Remainder(s, n) \in Seq(Bytes) /\ Len(Remainder(s, n)) = n
            /\ \A j \in 1..n : Remainder(s, n)[j] = s[n - n + j]
        BY <1>1, EndIsEnd
      <3>2. \A j \in 1..n : n - n + j = j
        BY <1>1
      <3> QED
        BY <3>1, <3>2, SeqEqual
    <2>2. SplitMessage(s, maxLen) = <<Remainder(s, n)>>
      BY <1>2, <2>1 DEF SplitMessage
    <2> QED
      BY <1>1, <1>2, <2>2, RestIsCovered
  <1>3. CASE ~ (n <= maxLen)
    <2>1. n > maxLen
      BY <1>1, <1>3
    <2>2. SplitMessage(s, maxLen) = f[n]
      BY <2>1, SplitIsLoop
    <2>3. \A left \in 0..n :
            f[left] = IF left <= maxLen
                        THEN IF left = 0 THEN <<>> ELSE <<Remainder(s, left)>>
                        ELSE <<FirstPart(s, maxLen, left)>>
                               \o f[Rest(left, CutOf(s, maxLen, left))]
      BY <2>1, SplitIsLoop
    <2>4. ASSUME NEW left \in 0..n, \A j \in 0..left - 1 : j \in S
          PROVE  left \in S
      <3> HIDE DEF f
      <3>1. CASE left <= maxLen
        <4>1. CASE left = 0
          <5>1. f[left] = <<>>
            BY <2>3, <3>1, <4>1
          <5>2. \E ends : CoversEnd(<<>>, s, maxLen, left, ends)
            BY <3>1, <4>1, RestIsCovered
          <5> QED
            BY <5>1, <5>2
        <4>2. CASE left # 0
          <5>1. f[left] = <<Remainder(s, left)>>
            BY <2>3, <3>1, <4>2
          <5>2. \E ends : CoversEnd(<<Remainder(s, left)>>, s, maxLen, left, ends)
            BY <3>1, RestIsCovered
          <5> QED
            BY <5>1, <5>2
        <4> QED
          BY <4>1, <4>2
      <3>2. CASE ~ (left <= maxLen)
        <4> DEFINE at == CutOf(s, maxLen, left)
                   part == FirstPart(s, maxLen, left)
        <4>1. left > maxLen
          BY <1>1, <3>2
        <4>2. /\ at \in 1..maxLen /\ at > maxLen \div 4
              /\ part \in Seq(Bytes) /\ Len(part) <= maxLen
              /\ IsPart(part, s, n - left, n - left + at)
          BY <4>1, FirstPartIsPart
        <4>3. f[left] = <<part>> \o f[left - at]
          BY <2>3, <3>2 DEF Rest
        <4> HIDE DEF at, part
        <4>4. at \in 1..left /\ left - at \in 0..left - 1
          BY <1>1, <4>1, <4>2
        <4>5. PICK ends : CoversEnd(f[left - at], s, maxLen, left - at, ends)
          BY <2>4, <4>4
        <4>6. \E all : CoversEnd(<<part>> \o f[left - at], s, maxLen, left, all)
          BY <4>2, <4>4, <4>5, PartIsAdded
        <4> QED
          BY <4>3, <4>6
      <3> QED
        BY <3>1, <3>2
    <2> HIDE DEF S
    <2>5. \A left \in 0..n : left \in S
      BY <1>1, <2>4, StrongInduction
    <2> QED
      BY <1>1, <2>2, <2>5 DEF S
  <1> QED
    BY <1>2, <1>3

\* The same, of the texts and limits that are enumerated.
LEMMA TextIsKept == SplitKeepsText
  <1> SUFFICES ASSUME NEW text \in Texts, NEW maxLen \in Limits
               PROVE  LET parts == SplitMessage(text, maxLen)
                      IN  /\ Covers(parts, text, maxLen)
                          /\ \A i \in DOMAIN parts : Len(parts[i]) <= maxLen
    BY DEF SplitKeepsText
  <1>1. text \in Seq(Bytes)
    <2>1. PICK k \in 0..MaxText : text \in [1..k -> Bytes]
      BY DEF Texts
    <2>2. k \in Nat
      BY <2>1, SplittingAssumption
    <2> QED
      BY <2>1, <2>2
  <1>2. maxLen \in Nat \ {0}
    BY SplittingAssumption
  <1> DEFINE parts == SplitMessage(text, maxLen)
  <1>3. PICK ends : CoversEnd(parts, text, maxLen, Len(text), ends)
    BY <1>1, <1>2, SplitCovers
  <1>4. Len(text) \in Nat
    BY <1>1, LenProperties
  <1> HIDE DEF parts
  <1>5. DOMAIN parts = 1..Len(parts)
    BY <1>3, LenProperties DEF CoversEnd
  <1>6. ends[0] = 0
    BY <1>3, <1>4 DEF CoversEnd
  <1>7. Covers(parts, text, maxLen)
    BY <1>3, <1>6 DEF CoversEnd, Covers
  <1>8. \A i \in DOMAIN parts : Len(parts[i]) <= maxLen
    BY <1>3, <1>5 DEF CoversEnd
  <1> QED
    BY <1>7, <1>8 DEF parts

\* SplitMessage: for every text and limit, the parts are the bytes that stand between
\* consecutive places of the text, but for spaces at a part's end; none is longer than the
\* limit, and all but the last stand for more than a quarter of it. What Telegram takes
\* is another matter: a part may be empty, and may cut a character in two.
THEOREM SplittingKeepsText == Spec => []SplitLosesNothing
  <1>1. SplitLosesNothing
    BY TextIsKept DEF SplitLosesNothing
  <1> QED
    BY <1>1, PTL
=============================================================================
