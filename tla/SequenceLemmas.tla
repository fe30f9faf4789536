--------------------------- MODULE SequenceLemmas ---------------------------
(* Facts about the sequence operators the models use to describe arrays:   *)
(* splice(index, 1) is RemoveAt, a Set of the elements is ToSet, filter()  *)
(* is Kept, flatMap() is FlattenSeq.  And when a recursive function over   *)
(* the first numbers exists: the models write their loops as such.         *)
EXTENDS Integers, Sequences, SequencesExt, Filters, SequenceTheorems,
        WellFoundedInduction, TLAPS

(* A set of natural numbers that is not empty has a least one.             *)
LEMMA LeastNumber ==
    ASSUME NEW T \in SUBSET Nat, T # {}
    PROVE  \E m \in T : \A n \in T : m <= n
<1>. DEFINE R == {ss \in Nat \X Nat : ss[1] < ss[2]}
<1>1. IsWellFoundedOn(R, Nat)
  BY NatLessThanWellFounded, Zenon DEF OpToRel
<1>2. \A m, n \in Nat : n < m => <<n, m>> \in R
  OBVIOUS
<1>. HIDE DEF R
<1>3. PICK m \in T : \A n \in T : ~(<<n, m>> \in R)
  BY <1>1, WFMin
<1>4. \A n \in T : n \in Nat /\ m \in Nat
  OBVIOUS
<1>5. \A n \in T : ~(n < m)
  BY <1>2, <1>3, <1>4
<1>6. QED
  BY <1>4, <1>5

(* Induction over the natural numbers, for a property given as a set.     *)
LEMMA NatInductionOnSets ==
    ASSUME NEW T, 0 \in T, \A n \in Nat : n \in T => n + 1 \in T
    PROVE  \A n \in Nat : n \in T
<1>. SUFFICES ASSUME Nat \ T # {} PROVE FALSE
  OBVIOUS
<1>1. PICK m \in Nat \ T : \A n \in Nat \ T : m <= n
  BY LeastNumber
<1>2. m # 0
  OBVIOUS
<1>3. m - 1 \in Nat /\ m - 1 \notin T
  BY <1>2
<1>4. QED
  BY <1>1, <1>3

-----------------------------------------------------------------------------

(* Removing entry i keeps the others, in their order: those before i stay  *)
(* in place, those after it move up by one.                                *)
LEMMA RemoveAtProperties ==
    ASSUME NEW S, NEW q \in Seq(S), NEW i \in 1..Len(q)
    PROVE  /\ RemoveAt(q, i) \in Seq(S)
           /\ Len(RemoveAt(q, i)) = Len(q) - 1
           /\ \A j \in 1..(Len(q) - 1) :
                RemoveAt(q, i)[j] = IF j < i THEN q[j] ELSE q[j + 1]
<1> DEFINE front == SubSeq(q, 1, i - 1)
           back == SubSeq(q, i + 1, Len(q))
<1>0. Len(q) \in Nat /\ i \in Int /\ i - 1 \in Int /\ i + 1 \in Int /\ Len(q) \in Int
  BY LenProperties
<1>1. \A j \in 1..Len(q) : q[j] \in S
  BY ElementOfSeq
<1>2. /\ front \in Seq(S)
      /\ Len(front) = i - 1
      /\ \A j \in 1..(i - 1) : front[j] = q[j]
  <2>1. \A j \in 1..(i - 1) : q[j] \in S
    BY <1>0, <1>1
  <2>2. /\ front \in Seq(S)
        /\ Len(front) = IF 1 <= i - 1 THEN (i - 1) - 1 + 1 ELSE 0
        /\ \A j \in 1..((i - 1) - 1 + 1) : front[j] = q[1 + j - 1]
    BY <1>0, <2>1, SubSeqProperties
  <2>3. QED
    BY <1>0, <2>2
<1>3. /\ back \in Seq(S)
      /\ Len(back) = Len(q) - i
      /\ \A j \in 1..(Len(q) - i) : back[j] = q[i + j]
  <2>1. \A j \in (i + 1)..Len(q) : q[j] \in S
    BY <1>0, <1>1
  <2>2. /\ back \in Seq(S)
        /\ Len(back) = IF i + 1 <= Len(q) THEN Len(q) - (i + 1) + 1 ELSE 0
        /\ \A j \in 1..(Len(q) - (i + 1) + 1) : back[j] = q[(i + 1) + j - 1]
    BY <1>0, <2>1, SubSeqProperties
  <2>3. QED
    BY <1>0, <2>2
<1>4. RemoveAt(q, i) = front \o back
  BY DEF RemoveAt
<1> HIDE DEF front, back
<1>5. /\ front \o back \in Seq(S)
      /\ Len(front \o back) = Len(front) + Len(back)
      /\ \A j \in 1..(Len(front) + Len(back)) :
           (front \o back)[j] = IF j <= Len(front) THEN front[j] ELSE back[j - Len(front)]
  BY <1>2, <1>3, ConcatProperties
<1>6. QED
  <2>1. Len(front) + Len(back) = Len(q) - 1
    BY <1>0, <1>2, <1>3
  <2>2. ASSUME NEW j \in 1..(Len(q) - 1)
        PROVE  (front \o back)[j] = IF j < i THEN q[j] ELSE q[j + 1]
    <3>1. CASE j < i
      BY <3>1, <1>0, <1>2, <1>5, <2>1
    <3>2. CASE j >= i
      <4>1. j - Len(front) \in 1..(Len(q) - i) /\ i + (j - Len(front)) = j + 1
        BY <3>2, <1>0, <1>2
      <4>2. (front \o back)[j] = back[j - Len(front)]
        BY <3>2, <1>0, <1>2, <1>5, <2>1
      <4>3. back[j - Len(front)] = q[j + 1]
        BY <4>1, <1>3
      <4>4. ~(j < i)
        BY <3>2, <1>0
      <4>5. QED
        BY <4>2, <4>3, <4>4
    <3>3. j < i \/ j >= i
      BY <1>0
    <3>4. QED
      BY <3>1, <3>2, <3>3
  <2>3. QED
    BY <1>4, <1>5, <2>1, <2>2

-----------------------------------------------------------------------------
(* No element of the array occurs twice.                                   *)
NoRepeats(q) == \A i, j \in DOMAIN q : q[i] = q[j] => i = j

(* push() adds the element to those of the array.                          *)
LEMMA AppendSet ==
    ASSUME NEW S, NEW q \in Seq(S), NEW e \in S
    PROVE  /\ ToSet(Append(q, e)) = ToSet(q) \cup {e}
           /\ NoRepeats(q) /\ e \notin ToSet(q) => NoRepeats(Append(q, e))
<1>1. /\ Len(Append(q, e)) = Len(q) + 1
      /\ \A a \in 1..Len(q) : Append(q, e)[a] = q[a]
      /\ Append(q, e)[Len(q) + 1] = e
      /\ Len(q) \in Nat /\ DOMAIN q = 1..Len(q)
      /\ DOMAIN Append(q, e) = 1..(Len(q) + 1)
  <2>1. Append(q, e) \in Seq(S) /\ Len(Append(q, e)) = Len(q) + 1
    BY AppendProperties
  <2>2. DOMAIN Append(q, e) = 1..(Len(q) + 1)
    BY <2>1, LenProperties
  <2>3. QED
    BY <2>1, <2>2, AppendProperties, LenProperties
<1>2. 1..(Len(q) + 1) = 1..Len(q) \cup {Len(q) + 1}
  BY <1>1
<1>3. ToSet(Append(q, e)) = ToSet(q) \cup {e}
  BY <1>1, <1>2 DEF ToSet
<1>4. ASSUME NoRepeats(q), e \notin ToSet(q)
      PROVE  NoRepeats(Append(q, e))
  BY <1>1, <1>2, <1>4 DEF NoRepeats, ToSet
<1>5. QED
  BY <1>3, <1>4

(* splice(index, 1) takes out one element and nothing else.                *)
LEMMA RemoveAtSet ==
    ASSUME NEW S, NEW q \in Seq(S), NEW i \in 1..Len(q), NoRepeats(q)
    PROVE  /\ ToSet(RemoveAt(q, i)) = ToSet(q) \ {q[i]}
           /\ NoRepeats(RemoveAt(q, i))
<1>. DEFINE p == RemoveAt(q, i)
            At(a) == IF a < i THEN a ELSE a + 1
<1>1. /\ p \in Seq(S) /\ Len(p) = Len(q) - 1
      /\ \A a \in 1..(Len(q) - 1) : p[a] = IF a < i THEN q[a] ELSE q[a + 1]
      /\ Len(q) \in Nat /\ DOMAIN q = 1..Len(q)
  BY RemoveAtProperties, LenProperties
<1>. HIDE DEF p
<1>2. DOMAIN p = 1..(Len(q) - 1)
  BY <1>1, LenProperties
<1>3. \A a \in 1..(Len(q) - 1) : At(a) \in 1..Len(q) /\ At(a) # i /\ p[a] = q[At(a)]
  BY <1>1
<1>4. \A b \in 1..Len(q) : b # i => \E a \in 1..(Len(q) - 1) : b = At(a)
  <2>1. SUFFICES ASSUME NEW b \in 1..Len(q), b # i
                 PROVE  \E a \in 1..(Len(q) - 1) : b = At(a)
    OBVIOUS
  <2>2. CASE b < i
    <3>1. b \in 1..(Len(q) - 1) /\ b = At(b)
      BY <1>1, <2>2
    <3>2. QED
      BY <3>1
  <2>3. CASE b > i
    <3>1. b - 1 \in 1..(Len(q) - 1) /\ b = At(b - 1)
      BY <1>1, <2>3
    <3>2. QED
      BY <3>1
  <2>4. QED
    BY <1>1, <2>1, <2>2, <2>3
<1>5. \A a, b \in 1..(Len(q) - 1) : At(a) = At(b) => a = b
  BY <1>1
<1>. HIDE DEF At
<1>6. ToSet(p) \subseteq ToSet(q) \ {q[i]}
  BY <1>1, <1>2, <1>3 DEF ToSet, NoRepeats
<1>7. ToSet(q) \ {q[i]} \subseteq ToSet(p)
  <2>1. SUFFICES ASSUME NEW b \in 1..Len(q), q[b] # q[i]
                 PROVE  q[b] \in ToSet(p)
    BY <1>1 DEF ToSet
  <2>2. PICK a \in 1..(Len(q) - 1) : b = At(a)
    BY <1>4, <2>1
  <2>3. p[a] = q[b] /\ a \in DOMAIN p
    BY <1>2, <1>3, <2>2
  <2>4. QED
    BY <2>3 DEF ToSet
<1>8. NoRepeats(p)
  BY <1>1, <1>2, <1>3, <1>5 DEF NoRepeats
<1>9. QED
  BY <1>6, <1>7, <1>8 DEF p

(* shift() takes out the first element and nothing else.                   *)
LEMMA TailSet ==
    ASSUME NEW S, NEW q \in Seq(S), q # <<>>, NoRepeats(q)
    PROVE  /\ Head(q) \in ToSet(q)
           /\ Tail(q) \in Seq(S)
           /\ ToSet(Tail(q)) = ToSet(q) \ {Head(q)}
           /\ NoRepeats(Tail(q))
<1>1. /\ Tail(q) \in Seq(S) /\ Len(Tail(q)) = Len(q) - 1
      /\ Len(q) \in Nat \ {0} /\ DOMAIN q = 1..Len(q)
      /\ Head(q) = q[1]
  <2>1. Head(q) = q[1]
    OBVIOUS
  <2>2. QED
    BY <2>1, HeadTailProperties, LenProperties, EmptySeq
<1>2. \A a \in 1..(Len(q) - 1) : Tail(q)[a] = q[a + 1]
  BY <1>1, HeadTailProperties
<1>3. DOMAIN Tail(q) = 1..(Len(q) - 1)
  BY <1>1, LenProperties
<1>4. \A b \in 1..Len(q) : b # 1 => \E a \in 1..(Len(q) - 1) : b = a + 1
  <2>1. SUFFICES ASSUME NEW b \in 1..Len(q), b # 1
                 PROVE  \E a \in 1..(Len(q) - 1) : b = a + 1
    OBVIOUS
  <2>2. b - 1 \in 1..(Len(q) - 1) /\ b = (b - 1) + 1
    BY <1>1, <2>1
  <2>3. QED
    BY <2>2
<1>5. \A a \in 1..(Len(q) - 1) : a + 1 \in 1..Len(q) /\ a + 1 # 1
  BY <1>1
<1>6. 1 \in 1..Len(q)
  BY <1>1
<1>7. Head(q) \in ToSet(q)
  BY <1>1, <1>6 DEF ToSet
<1>8. ToSet(Tail(q)) \subseteq ToSet(q) \ {Head(q)}
  BY <1>1, <1>2, <1>3, <1>5, <1>6 DEF ToSet, NoRepeats
<1>9. ToSet(q) \ {Head(q)} \subseteq ToSet(Tail(q))
  <2>1. SUFFICES ASSUME NEW b \in 1..Len(q), q[b] # q[1]
                 PROVE  q[b] \in ToSet(Tail(q))
    BY <1>1 DEF ToSet
  <2>2. PICK a \in 1..(Len(q) - 1) : b = a + 1
    BY <1>4, <2>1
  <2>3. Tail(q)[a] = q[b] /\ a \in DOMAIN Tail(q)
    BY <1>2, <1>3, <2>2
  <2>4. QED
    BY <2>3 DEF ToSet
<1>10. NoRepeats(Tail(q))
  <2>1. SUFFICES ASSUME NEW a \in 1..(Len(q) - 1), NEW b \in 1..(Len(q) - 1),
                        Tail(q)[a] = Tail(q)[b]
                 PROVE  a = b
    BY <1>3 DEF NoRepeats
  <2>2. a + 1 = b + 1
    BY <1>1, <1>2, <1>5, <2>1 DEF NoRepeats
  <2>3. QED
    BY <1>1, <2>2
<1>11. QED
  BY <1>1, <1>7, <1>8, <1>9, <1>10

-----------------------------------------------------------------------------
(* filter() keeps entries of the array, all that are in the set, in their  *)
(* order: f tells the position each of them had.                           *)
LEMMA KeptProperties ==
    ASSUME NEW A, NEW q \in Seq(A), NEW S
    PROVE  /\ Kept(q, S) \in Seq(A)
           /\ \E f \in [1..Len(Kept(q, S)) -> 1..Len(q)] :
                /\ \A j, k \in 1..Len(Kept(q, S)) : j < k => f[j] < f[k]
                /\ \A k \in 1..Len(Kept(q, S)) : Kept(q, S)[k] = q[f[k]] /\ q[f[k]] \in S
                /\ \A i \in 1..Len(q) :
                     q[i] \in S => \E k \in 1..Len(Kept(q, S)) : i = f[k]
<1>. DEFINE N == Len(q)
            After(s, n) == IF q[n] \in S THEN Append(s, q[n]) ELSE s
            IsRec(f, n) == f = [m \in 0..n |-> IF m = 0 THEN <<>> ELSE After(f[m - 1], m)]
            F == CHOOSE f : f = [n \in 0..N |->
                     IF n = 0 THEN <<>>
                     ELSE IF q[n] \in S THEN Append(f[n - 1], q[n]) ELSE f[n - 1]]
<1>1. N \in Nat /\ \A n \in 1..N : q[n] \in A
  BY LenProperties, ElementOfSeq
<1>2. Kept(q, S) = F[N]
  BY DEF Kept
<1>3. \A n \in Nat : \E f : IsRec(f, n)
  <2>. DEFINE T == {n \in Nat : \E f : IsRec(f, n)}
  <2>1. 0 \in T
    <3>1. IsRec([m \in 0..0 |-> <<>>], 0)
      OBVIOUS
    <3>2. QED
      BY <3>1
  <2>2. ASSUME NEW n \in Nat, n \in T
        PROVE  n + 1 \in T
    <3>1. PICK f : IsRec(f, n)
      BY <2>2
    <3>. DEFINE g == [m \in 0..(n + 1) |-> IF m <= n THEN f[m] ELSE After(f[n], n + 1)]
    <3>. HIDE DEF After
    <3>2. ASSUME NEW m \in 0..(n + 1)
          PROVE  g[m] = IF m = 0 THEN <<>> ELSE After(g[m - 1], m)
      <4>1. CASE m = 0
        BY <4>1, <3>1
      <4>2. CASE m # 0 /\ m <= n
        <5>1. m \in 0..n /\ m - 1 \in 0..(n + 1) /\ m - 1 <= n
          BY <4>2
        <5>2. f[m] = After(f[m - 1], m)
          BY <3>1, <5>1, <4>2
        <5>3. QED
          BY <5>1, <5>2, <4>2
      <4>3. CASE m = n + 1
        <5>1. m - 1 \in 0..(n + 1) /\ m - 1 = n /\ m # 0 /\ ~(m <= n)
          BY <4>3
        <5>2. QED
          BY <5>1
      <4>4. QED
        BY <4>1, <4>2, <4>3
    <3>3. g = [m \in 0..(n + 1) |-> g[m]]
      OBVIOUS
    <3>. HIDE DEF g
    <3>4. g = [m \in 0..(n + 1) |-> IF m = 0 THEN <<>> ELSE After(g[m - 1], m)]
      BY <3>2, <3>3
    <3>5. QED
      BY <3>4
  <2>. HIDE DEF T
  <2>3. \A n \in Nat : n \in T
    BY <2>1, <2>2, NatInductionOnSets
  <2>4. QED
    BY <2>3 DEF T
<1>4. IsRec(F, N)
  BY <1>1, <1>3
<1>. DEFINE Good(n) ==
       /\ F[n] \in Seq(A)
       /\ \E f \in [1..Len(F[n]) -> 1..n] :
            /\ \A j, k \in 1..Len(F[n]) : j < k => f[j] < f[k]
            /\ \A k \in 1..Len(F[n]) : F[n][k] = q[f[k]] /\ q[f[k]] \in S
            /\ \A i \in 1..n : q[i] \in S => \E k \in 1..Len(F[n]) : i = f[k]
<1>. HIDE DEF F, After
<1>5. /\ F[0] = <<>>
      /\ \A n \in 1..N : F[n] = After(F[n - 1], n)
  <2>1. \A m \in 0..N : F[m] = IF m = 0 THEN <<>> ELSE After(F[m - 1], m)
    BY <1>4
  <2>2. 0 \in 0..N /\ \A n \in 1..N : n \in 0..N /\ n # 0
    BY <1>1
  <2>3. QED
    BY <2>1, <2>2
<1>. USE DEF After
<1>6. Good(0)
  <2>. DEFINE f == [k \in 1..0 |-> 1]
  <2>1. F[0] \in Seq(A) /\ Len(F[0]) = 0
    BY <1>5
  <2>2. f \in [1..Len(F[0]) -> 1..0]
    BY <2>1
  <2>3. QED
    BY <2>1, <2>2
<1>7. ASSUME NEW n \in Nat, n + 1 <= N, Good(n)
      PROVE  Good(n + 1)
  <2>1. /\ n + 1 \in 1..N /\ (n + 1) - 1 = n
        /\ F[n + 1] = After(F[n], n + 1)
    BY <1>1, <1>5, <1>7
  <2>2. PICK f \in [1..Len(F[n]) -> 1..n] :
            /\ \A j, k \in 1..Len(F[n]) : j < k => f[j] < f[k]
            /\ \A k \in 1..Len(F[n]) : F[n][k] = q[f[k]] /\ q[f[k]] \in S
            /\ \A i \in 1..n : q[i] \in S => \E k \in 1..Len(F[n]) : i = f[k]
    BY <1>7
  <2>3. F[n] \in Seq(A) /\ Len(F[n]) \in Nat
    BY <1>7, LenProperties
  <2>4. CASE q[n + 1] \notin S
    <3>1. F[n + 1] = F[n]
      BY <2>1, <2>4
    <3>2. f \in [1..Len(F[n + 1]) -> 1..(n + 1)]
      BY <3>1, <2>2
    <3>3. \A i \in 1..(n + 1) : q[i] \in S => i \in 1..n
      BY <2>4
    <3>4. QED
      BY <2>2, <2>3, <3>1, <3>2, <3>3
  <2>5. CASE q[n + 1] \in S
    <3>. DEFINE p == F[n + 1]
                L == Len(F[n])
                g == [k \in 1..(L + 1) |-> IF k <= L THEN f[k] ELSE n + 1]
    <3>1. p = Append(F[n], q[n + 1]) /\ q[n + 1] \in A
      BY <1>1, <2>1, <2>5
    <3>2. /\ p \in Seq(A) /\ Len(p) = L + 1
          /\ \A k \in 1..L : p[k] = F[n][k]
          /\ p[L + 1] = q[n + 1]
      BY <3>1, <2>3, AppendProperties
    <3>3. \A k \in 1..L : f[k] \in 1..n /\ f[k] \in Nat
      BY <2>2
    <3>4. g \in [1..Len(p) -> 1..(n + 1)]
      BY <3>2, <3>3, <2>3
    <3>5. \A j, k \in 1..Len(p) : j < k => g[j] < g[k]
      BY <3>2, <3>3, <2>2, <2>3
    <3>6. \A k \in 1..Len(p) : p[k] = q[g[k]] /\ q[g[k]] \in S
      BY <3>2, <3>3, <2>2, <2>3, <2>5
    <3>7. \A i \in 1..(n + 1) : q[i] \in S => \E k \in 1..Len(p) : i = g[k]
      <4>1. SUFFICES ASSUME NEW i \in 1..(n + 1), q[i] \in S
                     PROVE  \E k \in 1..Len(p) : i = g[k]
        OBVIOUS
      <4>2. CASE i \in 1..n
        <5>1. PICK k \in 1..L : i = f[k]
          BY <4>1, <4>2, <2>2
        <5>2. k \in 1..Len(p) /\ i = g[k]
          BY <5>1, <3>2, <2>3
        <5>3. QED
          BY <5>2
      <4>3. CASE i = n + 1
        <5>1. L + 1 \in 1..Len(p) /\ i = g[L + 1]
          BY <4>3, <3>2, <2>3
        <5>2. QED
          BY <5>1
      <4>4. i \in 1..n \/ i = n + 1
        OBVIOUS
      <4>. HIDE DEF g, p
      <4>5. QED
        BY <4>2, <4>3, <4>4
    <3>. HIDE DEF p, g
    <3>8. QED
      BY <3>2, <3>4, <3>5, <3>6, <3>7 DEF p
  <2>6. QED
    BY <2>4, <2>5
<1>8. \A n \in Nat : n <= N => Good(n)
  <2>. DEFINE T == {n \in Nat : n <= N => Good(n)}
  <2>. HIDE DEF Good
  <2>1. 0 \in T
    BY <1>6
  <2>2. \A n \in Nat : n \in T => n + 1 \in T
    BY <1>1, <1>7
  <2>. HIDE DEF T
  <2>3. \A n \in Nat : n \in T
    BY <2>1, <2>2, NatInductionOnSets
  <2>4. QED
    BY <2>3 DEF T
<1>9. Good(N)
  BY <1>1, <1>8
<1>10. QED
  BY <1>2, <1>9

(* What filter() keeps, as sets.                                           *)
LEMMA KeptSet ==
    ASSUME NEW A, NEW q \in Seq(A), NEW S
    PROVE  /\ Kept(q, S) \in Seq(A)
           /\ ToSet(Kept(q, S)) = ToSet(q) \cap S
           /\ NoRepeats(q) => NoRepeats(Kept(q, S))
<1>. DEFINE p == Kept(q, S)
<1>0. /\ p \in Seq(A)
      /\ \E f \in [1..Len(p) -> 1..Len(q)] :
            /\ \A j, k \in 1..Len(p) : j < k => f[j] < f[k]
            /\ \A k \in 1..Len(p) : p[k] = q[f[k]] /\ q[f[k]] \in S
            /\ \A i \in 1..Len(q) : q[i] \in S => \E k \in 1..Len(p) : i = f[k]
  <2>. HIDE DEF p
  <2>1. QED
    BY KeptProperties DEF p
<1>. HIDE DEF p
<1>1. /\ p \in Seq(A) /\ Len(p) \in Nat /\ Len(q) \in Nat
      /\ DOMAIN p = 1..Len(p) /\ DOMAIN q = 1..Len(q)
  BY <1>0, LenProperties
<1>2. PICK f \in [1..Len(p) -> 1..Len(q)] :
        /\ \A j, k \in 1..Len(p) : j < k => f[j] < f[k]
        /\ \A k \in 1..Len(p) : p[k] = q[f[k]] /\ q[f[k]] \in S
        /\ \A i \in 1..Len(q) : q[i] \in S => \E k \in 1..Len(p) : i = f[k]
  BY <1>0
<1>3. \A k \in 1..Len(p) : f[k] \in 1..Len(q)
  BY <1>2
<1>4. ToSet(p) \subseteq ToSet(q) \cap S
  BY <1>1, <1>2, <1>3 DEF ToSet
<1>5. ToSet(q) \cap S \subseteq ToSet(p)
  <2>1. SUFFICES ASSUME NEW i \in 1..Len(q), q[i] \in S
                 PROVE  q[i] \in ToSet(p)
    BY <1>1 DEF ToSet
  <2>2. PICK k \in 1..Len(p) : i = f[k]
    BY <1>2, <2>1
  <2>3. p[k] = q[i]
    BY <1>2, <2>2
  <2>4. QED
    BY <1>1, <2>3 DEF ToSet
<1>6. ASSUME NoRepeats(q), NEW j \in 1..Len(p), NEW k \in 1..Len(p), p[j] = p[k]
      PROVE  j = k
  <2>1. f[j] = f[k]
    BY <1>1, <1>2, <1>3, <1>6 DEF NoRepeats
  <2>2. ~(j < k) /\ ~(k < j)
    BY <1>2, <1>3, <2>1
  <2>3. QED
    BY <1>1, <2>2
<1>7. QED
  BY <1>1, <1>4, <1>5, <1>6 DEF p, NoRepeats

LEMMA PrefixOfItself ==
    ASSUME NEW S, NEW q \in Seq(S)
    PROVE  IsPrefix(q, q)
BY LenProperties DEF IsPrefix

(* push() leaves what was there as the start of the array.                 *)
LEMMA PrefixKept ==
    ASSUME NEW S, NEW q \in Seq(S), NEW e \in S
    PROVE  IsPrefix(q, Append(q, e))
<1>1. Len(q) \in Nat /\ DOMAIN q = 1..Len(q)
  BY LenProperties
<1>2. /\ Append(q, e) \in Seq(S) /\ Len(Append(q, e)) = Len(q) + 1
      /\ \A i \in 1..Len(q) : Append(q, e)[i] = q[i]
  BY AppendProperties
<1>3. \A i \in 1..Len(q) : i \in 1..(Len(q) + 1)
  BY <1>1
<1>4. \A i \in 1..Len(Append(q, e)) : Append(q, e)[i] \in S
  BY <1>2, ElementOfSeq
<1>5. /\ SubSeq(q, 1, Len(q)) \in Seq(S)
      /\ SubSeq(Append(q, e), 1, Len(q)) \in Seq(S)
      /\ Len(SubSeq(q, 1, Len(q))) = Len(SubSeq(Append(q, e), 1, Len(q)))
      /\ \A i \in 1..Len(q) : SubSeq(q, 1, Len(q))[i] = SubSeq(Append(q, e), 1, Len(q))[i]
      /\ Len(SubSeq(q, 1, Len(q))) = Len(q)
  BY <1>1, <1>2, <1>3
<1>6. SubSeq(q, 1, Len(q)) = SubSeq(Append(q, e), 1, Len(q))
  BY <1>5, SeqEqual
<1>7. QED
  BY <1>1, <1>2, <1>6 DEF IsPrefix

-----------------------------------------------------------------------------

(* A function defined by recursion over 0..N, whose n-th step is the       *)
(* function step[n] of the value before, exists.  The provers need such a  *)
(* function before they can use the equation of a recursive definition.    *)
Iterates(f, step, s0, N) == f[0] = s0 /\ \A n \in 1..N : f[n] = step[n][f[n - 1]]

LEMMA BoundedRecursion ==
    ASSUME NEW S, NEW s0 \in S, NEW N \in Nat, NEW step \in [1..N -> [S -> S]]
    PROVE  \E f \in [0..N -> S] : Iterates(f, step, s0, N)
<1>. DEFINE Runs(f, n) == Iterates(f, step, s0, n)
            T == {n \in Nat : n <= N => \E f \in [0..n -> S] : Runs(f, n)}
<1>1. 0 \in T
  <2>1. [k \in 0..0 |-> s0] \in [0..0 -> S] /\ Runs([k \in 0..0 |-> s0], 0)
    BY DEF Iterates
  <2>. HIDE DEF Runs
  <2>2. QED
    BY <2>1
<1>2. ASSUME NEW n \in Nat, n \in T PROVE n + 1 \in T
  <2>1. ASSUME n + 1 <= N PROVE \E f \in [0..(n + 1) -> S] : Runs(f, n + 1)
    <3>1. n <= N
      BY <2>1
    <3>. HIDE DEF Runs
    <3>2. PICK f \in [0..n -> S] : Runs(f, n)
      BY <1>2, <3>1
    <3>. USE DEF Runs, Iterates
    <3>3. step[n + 1] \in [S -> S] /\ f[n] \in S
      BY <2>1
    <3>. DEFINE g == [k \in 0..(n + 1) |-> IF k = n + 1 THEN step[n + 1][f[n]] ELSE f[k]]
    <3>4. g \in [0..(n + 1) -> S]
      BY <3>3
    <3>5. g[0] = s0 /\ \A k \in 1..n : g[k] = f[k] /\ g[k - 1] = f[k - 1]
      BY <3>2
    <3>6. g[n + 1] = step[n + 1][g[n]]
      OBVIOUS
    <3>. HIDE DEF g
    <3>7. Runs(g, n + 1)
      <4>1. ASSUME NEW k \in 1..(n + 1) PROVE g[k] = step[k][g[k - 1]]
        <5>1. CASE k = n + 1
          BY <3>6, <5>1
        <5>2. CASE k # n + 1
          BY <3>2, <3>5, <5>2
        <5>3. QED
          BY <5>1, <5>2
      <4>2. QED
        BY <3>5, <4>1
    <3>. HIDE DEF Runs, Iterates
    <3>8. QED
      BY <3>4, <3>7
  <2>. HIDE DEF Runs
  <2>2. QED
    BY <2>1
<1>. HIDE DEF T
<1>3. N \in T
  BY <1>1, <1>2, NatInductionOnSets
<1>4. QED
  BY <1>3 DEF T

(* FlattenSeq puts one part behind the other: f[n] is what the first n of  *)
(* them come to.                                                           *)
Flattens(f, parts, S) ==
    /\ f \in [0..Len(parts) -> Seq(S)] /\ f[0] = <<>>
    /\ \A n \in 1..Len(parts) : f[n] = f[n - 1] \o parts[n]

LEMMA FlattenedSteps ==
    ASSUME NEW S, NEW parts \in Seq(Seq(S))
    PROVE  \E f : Flattens(f, parts, S)
<1>. DEFINE N == Len(parts)
            step == [n \in 1..N |-> [s \in Seq(S) |-> s \o parts[n]]]
<1>1. N \in Nat
  OBVIOUS
<1>2. step \in [1..N -> [Seq(S) -> Seq(S)]] /\ <<>> \in Seq(S)
  <2>1. ASSUME NEW n \in 1..N, NEW s \in Seq(S)
        PROVE  s \o parts[n] \in Seq(S)
    <3>1. parts[n] \in Seq(S)
      OBVIOUS
    <3>2. QED
      BY <3>1, ConcatProperties
  <2>2. QED
    BY <2>1
<1>. HIDE DEF N
<1>3. PICK f \in [0..N -> Seq(S)] : Iterates(f, step, <<>>, N)
  <2>. DEFINE Q == Seq(S)
              empty == <<>>
  <2>1. step \in [1..N -> [Q -> Q]] /\ empty \in Q
    BY <1>2
  <2>. HIDE DEF step, Q, empty
  <2>2. \E f \in [0..N -> Q] : Iterates(f, step, empty, N)
    BY <1>1, <2>1, BoundedRecursion
  <2>3. QED
    BY <2>2, Zenon DEF Q, empty
<1>4. ASSUME NEW n \in 1..N PROVE f[n] = f[n - 1] \o parts[n]
  <2>1. n - 1 \in 0..N
    BY <1>1
  <2>2. f[n - 1] \in Seq(S)
    BY <2>1
  <2>3. QED
    BY <1>3, <2>1, <2>2 DEF Iterates
<1>5. f[0] = <<>>
  BY <1>3 DEF Iterates
<1>6. QED
  BY <1>4, <1>5 DEF Flattens, N

LEMMA FlattenedBy ==
    ASSUME NEW S, NEW parts \in Seq(Seq(S)), NEW f, Flattens(f, parts, S)
    PROVE  FlattenSeq(parts) = f[Len(parts)] /\ FlattenSeq(parts) \in Seq(S)
<1>. DEFINE N == Len(parts)
<1>1. N \in Nat /\ \A n \in 1..N : parts[n] \in Seq(S)
  OBVIOUS
<1>2. /\ f \in [0..N -> Seq(S)] /\ f[0] = <<>>
      /\ \A n \in 1..N : f[n] = f[n - 1] \o parts[n]
  BY DEF Flattens
<1>3. ASSUME NEW n \in 1..N
      PROVE  f[n] = IF n = 1 THEN parts[n] ELSE f[n - 1] \o parts[n]
  <2>1. CASE n = 1
    <3>1. f[1] = <<>> \o parts[1] /\ parts[1] \in Seq(S)
      <4>1. n - 1 = 0 /\ f[n] = f[n - 1] \o parts[n] /\ parts[n] \in Seq(S)
        <5>1. n - 1 = 0
          BY <2>1
        <5>2. f[n] = f[n - 1] \o parts[n] /\ parts[n] \in Seq(S)
          BY <1>1, <1>2, Zenon
        <5>3. QED
          BY <5>1, <5>2
      <4>2. f[0] = <<>>
        BY <1>2
      <4>3. QED
        BY <2>1, <4>1, <4>2, Zenon
    <3>2. <<>> \o parts[1] = parts[1]
      BY <3>1, ConcatEmptySeq, Zenon
    <3>3. QED
      BY <2>1, <3>1, <3>2
  <2>2. CASE n # 1
    BY <1>2, <2>2
  <2>3. QED
    BY <2>1, <2>2
<1>. DEFINE Body(g, n) == IF n = 1 THEN parts[n] ELSE g[n - 1] \o parts[n]
            g0 == [n \in 1..N |-> f[n]]
<1>4. \A n \in 1..N : g0[n] = Body(g0, n)
  BY <1>1, <1>3
<1>5. g0 = [n \in 1..N |-> Body(g0, n)]
  <2>. HIDE DEF Body
  <2>1. QED
    BY <1>4
<1>. DEFINE flatten[i \in 1..N] == IF i = 1 THEN parts[i] ELSE flatten[i - 1] \o parts[i]
<1>6. flatten = [n \in 1..N |-> IF n = 1 THEN parts[n] ELSE flatten[n - 1] \o parts[n]]
  <2>. HIDE DEF g0
  <2>1. QED
    BY <1>5
<1>7. CASE N = 0
  BY <1>2, <1>7, EmptySeq DEF FlattenSeq
<1>8. CASE N # 0
  <2>1. FlattenSeq(parts) = flatten[N]
    BY <1>8 DEF FlattenSeq
  <2>. HIDE DEF flatten
  <2>. DEFINE T == {n \in Nat : n <= N /\ n # 0 => flatten[n] = f[n]}
  <2>2. 0 \in T
    OBVIOUS
  <2>3. ASSUME NEW n \in Nat, n \in T PROVE n + 1 \in T
    <3>1. ASSUME n + 1 <= N PROVE flatten[n + 1] = f[n + 1]
      <4>1. n + 1 \in 1..N /\ (n + 1) - 1 = n /\ (n + 1 # 1 => n # 0 /\ n <= N)
        BY <1>1, <3>1
      <4>2. n + 1 # 1 => flatten[n] = f[n]
        BY <2>3, <4>1
      <4>. HIDE DEF N
      <4>3. flatten[n + 1] = IF n + 1 = 1 THEN parts[n + 1] ELSE flatten[n] \o parts[n + 1]
        BY <1>6, <4>1
      <4>4. f[n + 1] = IF n + 1 = 1 THEN parts[n + 1] ELSE f[n] \o parts[n + 1]
        BY <1>3, <4>1
      <4>5. QED
        BY <4>2, <4>3, <4>4, Zenon
    <3>2. QED
      BY <3>1
  <2>. HIDE DEF T
  <2>4. N \in T
    BY <1>1, <2>2, <2>3, NatInductionOnSets
  <2>5. flatten[N] = f[N]
    BY <1>1, <1>8, <2>4 DEF T
  <2>6. f[N] \in Seq(S)
    BY <1>1, <1>2
  <2>7. QED
    BY <2>1, <2>5, <2>6
<1>9. QED
  BY <1>7, <1>8

(* What is flattened has the elements of its parts.                        *)
LEMMA FlattenedSeq ==
    ASSUME NEW S, NEW parts \in Seq(Seq(S))
    PROVE  FlattenSeq(parts) \in Seq(S)
BY FlattenedSteps, FlattenedBy

LEMMA FlattenedNone == FlattenSeq(<<>>) = <<>>
BY EmptySeq DEF FlattenSeq

LEMMA FlattenedOneMore ==
    ASSUME NEW S, NEW parts \in Seq(Seq(S)), NEW part \in Seq(S)
    PROVE  FlattenSeq(parts \o <<part>>) = FlattenSeq(parts) \o part
<1>. DEFINE N == Len(parts)
            more == parts \o <<part>>
<1>1. PICK f : Flattens(f, parts, S)
  BY FlattenedSteps
<1>2. FlattenSeq(parts) = f[N]
  BY <1>1, FlattenedBy
<1>3. /\ more \in Seq(Seq(S)) /\ Len(more) = N + 1 /\ N \in Nat
      /\ \A n \in 1..N : more[n] = parts[n]
      /\ more[N + 1] = part
  OBVIOUS
<1>. HIDE DEF more
<1>4. /\ f \in [0..N -> Seq(S)] /\ f[0] = <<>>
      /\ \A n \in 1..N : f[n] = f[n - 1] \o parts[n]
  BY <1>1 DEF Flattens
<1>. HIDE DEF N
<1>. DEFINE g == [n \in 0..(N + 1) |-> IF n <= N THEN f[n] ELSE f[N] \o part]
<1>5. f[N] \in Seq(S) /\ f[N] \o part \in Seq(S)
  <2>1. f[N] \in Seq(S)
    BY <1>3, <1>4
  <2>2. QED
    BY <2>1, ConcatProperties
<1>6. g \in [0..(N + 1) -> Seq(S)] /\ g[0] = <<>>
  <2>. DEFINE whole == f[N] \o part
  <2>1. whole \in Seq(S)
    BY <1>5
  <2>. HIDE DEF whole
  <2>2. \A n \in 0..N : f[n] \in Seq(S)
    BY <1>4
  <2>3. \A n \in 0..(N + 1) : n <= N => n \in 0..N
    BY <1>3
  <2>. DEFINE Q == Seq(S)
  <2>. HIDE DEF Q
  <2>4. [n \in 0..(N + 1) |-> IF n <= N THEN f[n] ELSE whole] \in [0..(N + 1) -> Q]
    BY <2>1, <2>2, <2>3 DEF Q
  <2>5. g[0] = <<>>
    BY <1>3, <1>4
  <2>6. QED
    BY <2>4, <2>5 DEF Q, whole
<1>7. ASSUME NEW n \in 1..(N + 1) PROVE g[n] = g[n - 1] \o more[n]
  <2>1. CASE n <= N
    <3>1. n \in 1..N
      BY <1>3, <2>1
    <3>2. f[n] = f[n - 1] \o parts[n] /\ more[n] = parts[n]
      BY <1>3, <1>4, <3>1
    <3>3. n \in 0..(N + 1) /\ n - 1 \in 0..(N + 1) /\ n - 1 <= N
      BY <1>3, <3>1
    <3>4. g[n] = f[n] /\ g[n - 1] = f[n - 1]
      BY <2>1, <3>3
    <3>. HIDE DEF g
    <3>5. QED
      BY <3>2, <3>4, Zenon
  <2>2. CASE n = N + 1
    <3>1. n \in 0..(N + 1) /\ n - 1 \in 0..(N + 1) /\ n - 1 = N /\ ~(n <= N) /\ N <= N
      BY <1>3, <2>2
    <3>2. g[n] = f[N] \o part /\ g[N] = f[N]
      BY <1>3, <3>1
    <3>3. more[n] = part
      BY <1>3, <2>2
    <3>. HIDE DEF g
    <3>4. QED
      BY <3>1, <3>2, <3>3, Zenon
  <2>3. n <= N \/ n = N + 1
    BY <1>3
  <2>4. QED
    BY <2>1, <2>2, <2>3
<1>8. g[N + 1] = f[N] \o part
  BY <1>3
<1>. HIDE DEF g
<1>9. Flattens(g, more, S)
  BY <1>3, <1>6, <1>7 DEF Flattens
<1>10. FlattenSeq(more) = g[N + 1]
  BY <1>3, <1>9, FlattenedBy
<1>11. QED
  BY <1>2, <1>8, <1>10 DEF more

LEMMA FlattenedOne ==
    ASSUME NEW S, NEW part \in Seq(S)
    PROVE  FlattenSeq(<<part>>) = part
<1>1. <<>> \in Seq(Seq(S)) /\ <<>> \in Seq(S) /\ <<part>> \in Seq(Seq(S))
  BY EmptySeq
<1>2. <<>> \o <<part>> = <<part>>
  BY <1>1, ConcatEmptySeq
<1>3. FlattenSeq(<<>> \o <<part>>) = FlattenSeq(<<>>) \o part
  BY <1>1, FlattenedOneMore
<1>4. <<>> \o part = part
  BY ConcatEmptySeq
<1>5. QED
  BY <1>2, <1>3, <1>4, FlattenedNone

(* The parts of two sequences, one behind the other.                       *)
LEMMA FlattenedTogether ==
    ASSUME NEW S, NEW a \in Seq(Seq(S)), NEW b \in Seq(Seq(S))
    PROVE  FlattenSeq(a \o b) = FlattenSeq(a) \o FlattenSeq(b)
<1>. DEFINE Q == Seq(S)
            Start(n) == SubSeq(b, 1, n)
            Holds(n) == FlattenSeq(a \o Start(n)) = FlattenSeq(a) \o FlattenSeq(Start(n))
            T == {n \in Nat : n <= Len(b) => Holds(n)}
<1>1. FlattenSeq(a) \in Seq(S)
  BY FlattenedSeq
<1>2. 0 \in T
  <2>1. Start(0) = <<>>
    BY SubSeqEmpty
  <2>2. a \o <<>> = a /\ FlattenSeq(a) \o <<>> = FlattenSeq(a)
    BY <1>1, ConcatEmptySeq
  <2>3. Holds(0)
    BY <2>1, <2>2, FlattenedNone
  <2>. HIDE DEF Holds
  <2>4. QED
    BY <2>3
<1>3. ASSUME NEW n \in Nat, n \in T PROVE n + 1 \in T
  <2>1. ASSUME n + 1 <= Len(b) PROVE Holds(n + 1)
    <3>. DEFINE x == Start(n)
                y == b[n + 1]
    <3>1. Len(b) \in Nat /\ n + 1 \in 1..Len(b) /\ n <= Len(b) /\ (n + 1) - 1 = n
      BY <2>1
    <3>2. y \in Seq(S)
      BY <3>1
    <3>3. x \in Seq(Seq(S))
      BY <3>1
    <3>4. Start(n + 1) = x \o <<y>>
      <4>1. 1 \in 1..Len(b) /\ n + 1 \in 1..Len(b)
        BY <3>1
      <4>2. SubSeq(b, 1, n + 1) = SubSeq(b, 1, (n + 1) - 1) \o <<b[n + 1]>>
        BY <4>1, SubSeqRecursiveSecond
      <4>3. QED
        BY <3>1, <4>2
    <3>5. FlattenSeq(a \o x) = FlattenSeq(a) \o FlattenSeq(x)
      <4>1. Holds(n)
        <5>. HIDE DEF Holds
        <5>1. QED
          BY <1>3, <3>1
      <4>2. QED
        BY <4>1
    <3>. HIDE DEF x, y
    <3>6. <<y>> \in Seq(Seq(S)) /\ a \o x \in Seq(Seq(S))
      BY <3>2, <3>3, ConcatProperties
    <3>7. a \o (x \o <<y>>) = (a \o x) \o <<y>>
      BY <3>3, <3>6, ConcatAssociative
    <3>8. FlattenSeq((a \o x) \o <<y>>) = FlattenSeq(a \o x) \o y
      BY <3>2, <3>6, FlattenedOneMore
    <3>9. FlattenSeq(x \o <<y>>) = FlattenSeq(x) \o y /\ FlattenSeq(x) \in Seq(S)
      BY <3>2, <3>3, FlattenedOneMore, FlattenedSeq
    <3>10. (FlattenSeq(a) \o FlattenSeq(x)) \o y = FlattenSeq(a) \o (FlattenSeq(x) \o y)
      BY <1>1, <3>2, <3>9, ConcatAssociative
    <3>11. QED
      BY <3>4, <3>5, <3>7, <3>8, <3>9, <3>10, Zenon
  <2>. HIDE DEF Holds
  <2>2. QED
    BY <2>1
<1>4. Len(b) \in Nat
  OBVIOUS
<1>. HIDE DEF T
<1>5. Len(b) \in T
  BY <1>2, <1>3, <1>4, NatInductionOnSets
<1>6. Holds(Len(b))
  <2>. HIDE DEF Holds
  <2>1. QED
    BY <1>4, <1>5 DEF T
<1>7. Start(Len(b)) = b
  BY SubSeqFull
<1>8. QED
  BY <1>6, <1>7

-----------------------------------------------------------------------------
(* A sequence made of two.                                                 *)
LEMMA TwoTogether ==
    ASSUME NEW S, NEW a \in Seq(S), NEW b \in Seq(S), NEW c, c = a \o b
    PROVE  /\ c \in Seq(S) /\ Len(c) = Len(a) + Len(b)
           /\ \A k \in 1..Len(a) : c[k] = a[k]
           /\ \A k \in 1..Len(b) : c[Len(a) + k] = b[k]
OBVIOUS

LEMMA MadeOfTwo ==
    ASSUME NEW S, NEW a \in Seq(S), NEW b \in Seq(S), NEW c \in Seq(S),
           Len(c) = Len(a) + Len(b),
           \A k \in 1..Len(a) : c[k] = a[k], \A k \in 1..Len(b) : c[Len(a) + k] = b[k]
    PROVE  c = a \o b
<1>. DEFINE ab == a \o b
<1>1. ab \in Seq(S) /\ Len(ab) = Len(a) + Len(b) /\ Len(a) \in Nat /\ Len(b) \in Nat
  OBVIOUS
<1>2. \A k \in 1..(Len(a) + Len(b)) : ab[k] = IF k <= Len(a) THEN a[k] ELSE b[k - Len(a)]
  BY ConcatProperties
<1>. HIDE DEF ab
<1>3. ASSUME NEW k \in 1..Len(c) PROVE c[k] = ab[k]
  <2>1. k \in 1..(Len(a) + Len(b)) /\ k \in Nat
    BY <1>1
  <2>2. CASE k <= Len(a)
    BY <1>1, <1>2, <2>1, <2>2
  <2>3. CASE k > Len(a)
    <3>1. k - Len(a) \in 1..Len(b) /\ k = Len(a) + (k - Len(a))
      BY <1>1, <2>1, <2>3
    <3>2. c[k] = b[k - Len(a)]
      BY <3>1
    <3>3. QED
      BY <1>1, <1>2, <2>1, <2>3, <3>2
  <2>4. QED
    BY <1>1, <2>1, <2>2, <2>3
<1>4. c = ab
  BY <1>1, <1>3, SeqEqual
<1>5. QED
  BY <1>4 DEF ab

(* A function on the first n numbers is a sequence.                        *)
LEMMA MadeSequence ==
    ASSUME NEW S, NEW n \in Nat, NEW s, s = [i \in 1..n |-> s[i]], \A i \in 1..n : s[i] \in S
    PROVE  s \in Seq(S) /\ Len(s) = n
OBVIOUS
=============================================================================
