------------------------- MODULE ConversationProofs -------------------------
(***************************************************************************)
(* Proofs about Conversation, for messages, budgets and answers of any     *)
(* size and number, in each of the three protocols.                        *)
(*                                                                         *)
(* First what fitModelContext() makes of a list of messages (the sums of   *)
(* their sizes, the two cuts, the earlier turns that are kept), without    *)
(* any state: RequestKeepsLatest.  Then the inductive invariant,           *)
(* ConversationInv: the messages have their form and begin with the        *)
(* user's, and their calls differ, because an attempt collects each call   *)
(* of the answer once (Attempt) and different answers have different       *)
(* calls.  Last what is said in a request: calls that differ, each entry   *)
(* followed by its replies, stay so in every protocol, behind whatever was *)
(* left of the context.                                                    *)
(***************************************************************************)
EXTENDS Conversation, SequenceLemmas, FiniteSetTheorems

-----------------------------------------------------------------------------
(* Sums.  The partial sums of a sequence of numbers are the only function  *)
(* that begins with zero and adds one number after the other.              *)
Adds(f, ns) ==
    /\ f \in [0..Len(ns) -> Nat] /\ f[0] = 0
    /\ \A k \in 1..Len(ns) : f[k] = f[k - 1] + ns[k]

LEMMA PartialSums ==
    ASSUME NEW ns \in Seq(Nat)
    PROVE  \E f : Adds(f, ns) /\ Total(ns) = f[Len(ns)]
<1>. DEFINE N == Len(ns)
            Runs(f, n) == f = [k \in 0..n |-> IF k = 0 THEN 0 ELSE f[k - 1] + ns[k]]
            Has(n) == \E f \in [0..n -> Nat] : Runs(f, n)
            T == {n \in Nat : n <= N => Has(n)}
<1>1. N \in Nat /\ \A k \in 1..N : ns[k] \in Nat
  OBVIOUS
<1>2. 0 \in T
  <2>. DEFINE f == [k \in 0..0 |-> 0]
  <2>1. Runs(f, 0) /\ f \in [0..0 -> Nat]
    OBVIOUS
  <2>2. QED
    BY <2>1
<1>3. ASSUME NEW n \in Nat, n \in T PROVE n + 1 \in T
  <2>1. ASSUME n + 1 <= N PROVE Has(n + 1)
    <3>1. Has(n)
      <4>. HIDE DEF Has
      <4>1. QED
        BY <1>1, <1>3, <2>1
    <3>2. PICK f \in [0..n -> Nat] : Runs(f, n)
      BY <3>1
    <3>3. f[n] \in Nat /\ ns[n + 1] \in Nat
      BY <1>1, <2>1
    <3>. DEFINE g == [k \in 0..(n + 1) |-> IF k = n + 1 THEN f[n] + ns[n + 1] ELSE f[k]]
    <3>4. g \in [0..(n + 1) -> Nat]
      BY <3>3
    <3>5. Runs(g, n + 1)
      BY <3>2
    <3>. HIDE DEF g, Runs
    <3>6. QED
      BY <3>4, <3>5
  <2>. HIDE DEF Has
  <2>2. QED
    BY <2>1
<1>. HIDE DEF T
<1>4. N \in T
  BY <1>1, <1>2, <1>3, NatInductionOnSets
<1>5. PICK f \in [0..N -> Nat] : f = [k \in 0..N |-> IF k = 0 THEN 0 ELSE f[k - 1] + ns[k]]
  BY <1>1, <1>4 DEF T
<1>. DEFINE total[n \in 0..N] == IF n = 0 THEN 0 ELSE total[n - 1] + ns[n]
<1>6. total = [k \in 0..N |-> IF k = 0 THEN 0 ELSE total[k - 1] + ns[k]]
  BY <1>5
<1>7. Total(ns) = total[N]
  BY DEF Total
<1>. HIDE DEF total
<1>8. \A k \in 0..N : total[k] = f[k]
  <2>. DEFINE S == {n \in Nat : n <= N => total[n] = f[n]}
  <2>1. 0 \in S
    BY <1>1, <1>5, <1>6
  <2>2. ASSUME NEW n \in Nat, n \in S PROVE n + 1 \in S
    BY <1>1, <1>5, <1>6, <2>2
  <2>. HIDE DEF S
  <2>3. \A n \in Nat : n \in S
    BY <2>1, <2>2, NatInductionOnSets
  <2>4. QED
    BY <1>1, <2>3 DEF S
<1>9. Adds(f, ns)
  <2>1. f[0] = 0
    BY <1>1, <1>5
  <2>2. ASSUME NEW k \in 1..N PROVE f[k] = f[k - 1] + ns[k]
    <3>1. k \in 0..N /\ k # 0
      BY <1>1
    <3>. HIDE DEF N
    <3>2. f[k] = IF k = 0 THEN 0 ELSE f[k - 1] + ns[k]
      BY <1>5, <3>1, Zenon
    <3>3. QED
      BY <3>1, <3>2
  <2>3. QED
    BY <2>1, <2>2 DEF Adds
<1>10. QED
  BY <1>1, <1>7, <1>8, <1>9

LEMMA OnlySums ==
    ASSUME NEW ns \in Seq(Nat), NEW f, Adds(f, ns)
    PROVE  Total(ns) = f[Len(ns)]
<1>1. PICK g : Adds(g, ns) /\ Total(ns) = g[Len(ns)]
  BY PartialSums
<1>. DEFINE S == {n \in Nat : n <= Len(ns) => g[n] = f[n]}
<1>2. 0 \in S
  BY <1>1 DEF Adds
<1>3. ASSUME NEW n \in Nat, n \in S PROVE n + 1 \in S
  BY <1>1, <1>3 DEF Adds
<1>. HIDE DEF S
<1>4. \A n \in Nat : n \in S
  BY <1>2, <1>3, NatInductionOnSets
<1>5. QED
  BY <1>1, <1>4 DEF S

LEMMA TotalIsNatural ==
    ASSUME NEW ns \in Seq(Nat)
    PROVE  Total(ns) \in Nat
BY PartialSums DEF Adds

LEMMA TotalOfNone == Total(<<>>) = 0
<1>1. Adds([k \in 0..0 |-> 0], <<>>) /\ <<>> \in Seq(Nat) /\ Len(<<>>) = 0
  BY EmptySeq DEF Adds
<1>2. QED
  BY <1>1, OnlySums

LEMMA TotalOfOne ==
    ASSUME NEW n \in Nat
    PROVE  Total(<<n>>) = n
<1>. DEFINE f == [k \in 0..1 |-> IF k = 0 THEN 0 ELSE n]
<1>1. Adds(f, <<n>>) /\ <<n>> \in Seq(Nat) /\ Len(<<n>>) = 1
  BY DEF Adds
<1>2. QED
  BY <1>1, OnlySums

LEMMA TotalOfConcatenation ==
    ASSUME NEW ns \in Seq(Nat), NEW ms \in Seq(Nat)
    PROVE  Total(ns \o ms) = Total(ns) + Total(ms)
<1>. DEFINE N == Len(ns)
            M == Len(ms)
<1>1. PICK f : Adds(f, ns) /\ Total(ns) = f[N]
  BY PartialSums
<1>2. PICK g : Adds(g, ms) /\ Total(ms) = g[M]
  BY PartialSums
<1>3. /\ ns \o ms \in Seq(Nat) /\ Len(ns \o ms) = N + M /\ N \in Nat /\ M \in Nat
      /\ \A k \in 1..N : (ns \o ms)[k] = ns[k]
      /\ \A k \in 1..M : (ns \o ms)[N + k] = ms[k] /\ ms[k] \in Nat
  OBVIOUS
<1>4. f \in [0..N -> Nat] /\ f[0] = 0 /\ \A k \in 1..N : f[k] = f[k - 1] + ns[k]
  BY <1>1 DEF Adds
<1>5. g \in [0..M -> Nat] /\ g[0] = 0 /\ \A k \in 1..M : g[k] = g[k - 1] + ms[k]
  BY <1>2 DEF Adds
<1>. HIDE DEF N, M
<1>6. f[N] \in Nat
  BY <1>3, <1>4
<1>. DEFINE h == [k \in 0..(N + M) |-> IF k <= N THEN f[k] ELSE f[N] + g[k - N]]
<1>7. h \in [0..(N + M) -> Nat] /\ h[0] = 0
  <2>1. ASSUME NEW k \in 0..(N + M) PROVE h[k] \in Nat
    <3>1. CASE k <= N
      BY <1>3, <1>4, <3>1
    <3>2. CASE k > N
      <4>1. k - N \in 0..M
        BY <1>3, <3>2
      <4>2. g[k - N] \in Nat
        BY <1>5, <4>1
      <4>3. QED
        BY <1>3, <1>6, <3>2, <4>2
    <3>3. QED
      BY <1>3, <3>1, <3>2
  <2>2. h[0] = 0
    BY <1>3, <1>4
  <2>. HIDE DEF h
  <2>3. h = [k \in 0..(N + M) |-> h[k]]
    BY DEF h
  <2>4. QED
    BY <2>1, <2>2, <2>3
<1>8. \A k \in 1..N : h[k] = f[k] /\ h[k - 1] = f[k - 1]
  BY <1>3
<1>9. ASSUME NEW k \in 0..M PROVE h[N + k] = f[N] + g[k]
  <2>1. CASE k = 0
    BY <1>3, <1>5, <1>6, <2>1
  <2>2. CASE k > 0
    <3>1. N + k \in 0..(N + M) /\ ~(N + k <= N) /\ (N + k) - N = k
      BY <1>3, <2>2
    <3>2. QED
      BY <3>1
  <2>3. QED
    BY <2>1, <2>2
<1>. HIDE DEF h
<1>10. ASSUME NEW k \in 1..(N + M) PROVE h[k] = h[k - 1] + (ns \o ms)[k]
  <2>1. CASE k <= N
    BY <1>3, <1>4, <1>8, <2>1
  <2>2. CASE k > N
    <3>1. PICK m \in 1..M : k = N + m
      <4>1. k - N \in 1..M /\ k = N + (k - N)
        BY <1>3, <2>2
      <4>2. QED
        BY <4>1
    <3>2. m \in 0..M /\ m - 1 \in 0..M /\ k - 1 = N + (m - 1)
      BY <1>3, <3>1
    <3>3. h[k] = f[N] + g[m] /\ h[k - 1] = f[N] + g[m - 1]
      BY <1>9, <3>1, <3>2
    <3>4. g[m] = g[m - 1] + ms[m] /\ g[m - 1] \in Nat
      BY <1>5, <3>2
    <3>5. (ns \o ms)[k] = ms[m] /\ ms[m] \in Nat
      BY <1>3, <3>1
    <3>6. QED
      BY <1>6, <3>3, <3>4, <3>5
  <2>3. QED
    BY <1>3, <2>1, <2>2
<1>11. Adds(h, ns \o ms)
  <2>1. h \in [0..Len(ns \o ms) -> Nat] /\ h[0] = 0
    BY <1>3, <1>7
  <2>2. \A k \in 1..Len(ns \o ms) : h[k] = h[k - 1] + (ns \o ms)[k]
    BY <1>3, <1>10
  <2>3. QED
    BY <2>1, <2>2 DEF Adds
<1>12. ns \o ms \in Seq(Nat) /\ Len(ns \o ms) = N + M
  BY <1>3
<1>13. Total(ns \o ms) = h[N + M]
  BY <1>11, <1>12, OnlySums
<1>14. h[N + M] = f[N] + g[M]
  BY <1>3, <1>9
<1>15. QED
  BY <1>1, <1>2, <1>13, <1>14

-----------------------------------------------------------------------------
(* Sizes of messages.                                                      *)
Size(ms) == SumOf(ms, MessageSize)

LEMMA CallSizes ==
    ASSUME NEW calls \in Seq(ToolCalls)
    PROVE  [k \in DOMAIN calls |-> CallSize(calls[k])] \in Seq(Nat)
<1>1. ASSUME NEW k \in 1..Len(calls) PROVE CallSize(calls[k]) \in Nat
  <2>1. calls[k] \in ToolCalls
    OBVIOUS
  <2>2. QED
    BY <2>1 DEF CallSize, ToolCalls
<1>2. QED
  BY <1>1

LEMMA BlockSizes ==
    ASSUME NEW content \in Seq(Blocks)
    PROVE  [k \in DOMAIN content |-> BlockSize(content[k])] \in Seq(Nat)
<1>1. ASSUME NEW k \in 1..Len(content) PROVE BlockSize(content[k]) \in Nat
  <2>1. content[k] \in Blocks
    OBVIOUS
  <2>2. QED
    BY <2>1 DEF BlockSize, Blocks
<1>2. QED
  BY <1>1

LEMMA MessageSizeNatural ==
    ASSUME NEW m \in Messages
    PROVE  MessageSize(m) \in Nat
<1>1. m.content \in Seq(Blocks) /\ m.calls \in Seq(ToolCalls)
  BY DEF Messages
<1>2. SumOf(m.calls, CallSize) \in Nat
  BY <1>1, CallSizes, TotalIsNatural DEF SumOf
<1>3. SumOf(m.content, BlockSize) \in Nat
  BY <1>1, BlockSizes, TotalIsNatural DEF SumOf
<1>4. QED
  BY <1>2, <1>3 DEF MessageSize

(* A slimmed message is one of the same role.                              *)
LEMMA SlimmedCall ==
    ASSUME NEW c \in ToolCalls
    PROVE  SlimCall(c) \in ToolCalls /\ SlimCall(c).id = c.id
<1>1. /\ c.args \in Nat /\ c.result \in Nat \cup {NoResult} /\ c.id \in Strings
      /\ MaxItem \in Nat /\ NoResult \notin Nat
  BY ModelContextAssumption DEF ToolCalls
<1>2. ASSUME NEW n \in Nat PROVE Shortened(n) \in Nat
  BY <1>1, <1>2 DEF Shortened, Placeholder
<1>3. Shortened(NoResult) = NoResult
  BY DEF Shortened
<1>4. QED
  BY <1>1, <1>2, <1>3 DEF ToolCalls, SlimCall

LEMMA SlimmedBlock ==
    ASSUME NEW b \in Blocks
    PROVE  SlimBlock(b) \in Blocks
<1>1. TextBlock(Placeholder) \in Blocks
  BY DEF TextBlock, Placeholder, Blocks
<1>2. QED
  BY <1>1 DEF SlimBlock

LEMMA SlimmedMessage ==
    ASSUME NEW m \in Messages
    PROVE  /\ Slimmed(m) \in Messages /\ Slimmed(m).role = m.role
           /\ Len(Slimmed(m).calls) = Len(m.calls)
           /\ \A k \in 1..Len(m.calls) : Slimmed(m).calls[k].id = m.calls[k].id
<1>1. /\ m.content \in Seq(Blocks) /\ m.calls \in Seq(ToolCalls)
  BY DEF Messages
<1>. DEFINE calls == [i \in DOMAIN m.calls |-> SlimCall(m.calls[i])]
            content == [i \in DOMAIN m.content |-> SlimBlock(m.content[i])]
<1>2. ASSUME NEW i \in 1..Len(m.calls)
      PROVE  calls[i] \in ToolCalls /\ calls[i].id = m.calls[i].id
  BY <1>1, SlimmedCall
<1>3. ASSUME NEW i \in 1..Len(m.content) PROVE content[i] \in Blocks
  BY <1>1, SlimmedBlock
<1>4. calls \in Seq(ToolCalls) /\ Len(calls) = Len(m.calls)
  <2>1. DOMAIN m.calls = 1..Len(m.calls) /\ Len(m.calls) \in Nat
    BY <1>1
  <2>2. calls = [i \in 1..Len(m.calls) |-> calls[i]]
    BY <2>1
  <2>. HIDE DEF calls
  <2>3. calls \in [1..Len(m.calls) -> ToolCalls]
    BY <1>2, <2>2
  <2>4. QED
    BY <2>1, <2>3
<1>8. content \in Seq(Blocks)
  <2>1. DOMAIN m.content = 1..Len(m.content) /\ Len(m.content) \in Nat
    BY <1>1
  <2>2. content = [i \in 1..Len(m.content) |-> content[i]]
    BY <2>1
  <2>. HIDE DEF content
  <2>3. content \in [1..Len(m.content) -> Blocks]
    BY <1>3, <2>2
  <2>4. QED
    BY <2>1, <2>3
<1>5. CASE m.role # "assistant"
  BY <1>5 DEF Slimmed
<1>6. CASE m.role = "assistant"
  <2>1. Slimmed(m) = [m EXCEPT !.content = content, !.calls = calls]
    BY <1>6, Zenon DEF Slimmed
  <2>. HIDE DEF calls, content
  <2>2. /\ Slimmed(m) \in Messages /\ Slimmed(m).role = m.role /\ Slimmed(m).calls = calls
    BY <1>4, <1>8, <2>1 DEF Messages
  <2>3. QED
    BY <1>2, <1>4, <2>2
<1>7. QED
  BY <1>5, <1>6

(* The sizes of messages, as numbers to add.                               *)
SizesOf(ms) == [i \in DOMAIN ms |-> MessageSize(ms[i])]

LEMMA SizesOfMessages ==
    ASSUME NEW ms \in Seq(Messages)
    PROVE  /\ SizesOf(ms) \in Seq(Nat) /\ Len(SizesOf(ms)) = Len(ms)
           /\ \A i \in 1..Len(ms) : SizesOf(ms)[i] = MessageSize(ms[i])
           /\ Size(ms) = Total(SizesOf(ms)) /\ Size(ms) \in Nat
<1>1. \A i \in 1..Len(ms) : MessageSize(ms[i]) \in Nat
  BY MessageSizeNatural
<1>2. /\ SizesOf(ms) \in Seq(Nat) /\ Len(SizesOf(ms)) = Len(ms)
      /\ \A i \in 1..Len(ms) : SizesOf(ms)[i] = MessageSize(ms[i])
  BY <1>1 DEF SizesOf
<1>3. Size(ms) = Total(SizesOf(ms))
  BY DEF Size, SumOf, SizesOf
<1>4. QED
  BY <1>2, <1>3, TotalIsNatural

LEMMA SizeOfConcatenation ==
    ASSUME NEW ms \in Seq(Messages), NEW ns \in Seq(Messages)
    PROVE  Size(ms \o ns) = Size(ms) + Size(ns)
<1>. DEFINE both == ms \o ns
<1>1. /\ both \in Seq(Messages) /\ Len(both) = Len(ms) + Len(ns)
      /\ \A i \in 1..Len(ms) : both[i] = ms[i]
      /\ \A i \in 1..Len(ns) : both[Len(ms) + i] = ns[i]
  OBVIOUS
<1>. HIDE DEF both
<1>. DEFINE a == SizesOf(ms)
            b == SizesOf(ns)
            c == SizesOf(both)
<1>2. /\ a \in Seq(Nat) /\ Len(a) = Len(ms) /\ \A i \in 1..Len(ms) : a[i] = MessageSize(ms[i])
      /\ b \in Seq(Nat) /\ Len(b) = Len(ns) /\ \A i \in 1..Len(ns) : b[i] = MessageSize(ns[i])
      /\ c \in Seq(Nat) /\ Len(c) = Len(both)
      /\ \A i \in 1..Len(both) : c[i] = MessageSize(both[i])
  BY <1>1, SizesOfMessages
<1>3. Size(both) = Total(c) /\ Size(ms) = Total(a) /\ Size(ns) = Total(b)
  BY <1>1, SizesOfMessages
<1>. HIDE DEF a, b, c
<1>4. \A i \in 1..Len(a) : c[i] = a[i]
  BY <1>1, <1>2
<1>5. ASSUME NEW i \in 1..Len(b) PROVE c[Len(a) + i] = b[i]
  <2>1. Len(a) + i \in 1..Len(both)
    BY <1>1, <1>2
  <2>2. QED
    BY <1>1, <1>2, <2>1
<1>6. c = a \o b
  <2>1. Len(c) = Len(a) + Len(b)
    BY <1>1, <1>2
  <2>2. QED
    BY <1>2, <1>4, <1>5, <2>1, MadeOfTwo, Zenon
<1>7. QED
  BY <1>2, <1>3, <1>6, TotalOfConcatenation DEF both

LEMMA SizeOfFew ==
    /\ Size(<<>>) = 0
    /\ \A m \in Messages : Size(<<m>>) = MessageSize(m)
<1>1. Size(<<>>) = 0
  <2>1. SizesOf(<<>>) = <<>> /\ <<>> \in Seq(Messages)
    BY DEF SizesOf
  <2>2. QED
    BY <2>1, SizesOfMessages, TotalOfNone
<1>2. ASSUME NEW m \in Messages PROVE Size(<<m>>) = MessageSize(m)
  <2>1. SizesOf(<<m>>) = <<MessageSize(m)>> /\ <<m>> \in Seq(Messages)
    BY DEF SizesOf
  <2>2. QED
    BY <2>1, SizesOfMessages, TotalOfOne, MessageSizeNatural
<1>3. QED
  BY <1>1, <1>2

-----------------------------------------------------------------------------
(* Greatest and least numbers.                                             *)
LEMMA GreatestNumber ==
    ASSUME NEW S \in SUBSET Nat, S # {}, NEW b \in Nat, \A n \in S : n <= b
    PROVE  Max(S) \in S /\ \A n \in S : n <= Max(S)
<1>. DEFINE T == {b - n : n \in S}
<1>1. T \in SUBSET Nat /\ T # {}
  <2>1. ASSUME NEW n \in S PROVE b - n \in Nat
    OBVIOUS
  <2>2. QED
    BY <2>1
<1>2. PICK m \in T : \A t \in T : m <= t
  <2>. HIDE DEF T
  <2>1. QED
    BY <1>1, LeastNumber
<1>3. PICK n \in S : m = b - n
  OBVIOUS
<1>4. ASSUME NEW k \in S PROVE n >= k
  <2>1. b - k \in T
    OBVIOUS
  <2>2. b - n <= b - k /\ n \in Nat /\ k \in Nat
    BY <1>2, <1>3, <2>1
  <2>3. QED
    BY <2>2
<1>5. \E x \in S : \A y \in S : x >= y
  BY <1>4
<1>6. Max(S) \in S /\ \A y \in S : Max(S) >= y
  BY <1>5 DEF Max
<1>7. QED
  BY <1>6

LEMMA OfTwo ==
    ASSUME NEW a \in Int, NEW b \in Int
    PROVE  /\ Min({a, b}) = IF a <= b THEN a ELSE b
           /\ Max({a, b}) = IF a >= b THEN a ELSE b
<1>1. \E x \in {a, b} : \A y \in {a, b} : x <= y
  OBVIOUS
<1>2. \E x \in {a, b} : \A y \in {a, b} : x >= y
  OBVIOUS
<1>3. Min({a, b}) \in {a, b} /\ Min({a, b}) <= a /\ Min({a, b}) <= b
  BY <1>1 DEF Min
<1>4. Max({a, b}) \in {a, b} /\ Max({a, b}) >= a /\ Max({a, b}) >= b
  BY <1>2 DEF Max
<1>5. QED
  BY <1>3, <1>4

-----------------------------------------------------------------------------
(* The cut.  If the least of the system prompt fits, what is kept of it    *)
(* does, marker and all, and is not less than that.                        *)
LEMMA CutSystemFits ==
    ASSUME NEW system \in Nat, NEW rest \in Nat, NEW limit \in Int,
           Min({system, MinSystem}) + rest <= limit
    PROVE  /\ CutSystem(system, rest, limit) \in Nat
           /\ CutSystem(system, rest, limit) >= Min({system, MinSystem})
           /\ CutSystem(system, rest, limit) + rest <= limit
<1>1. MinSystem \in Nat /\ MarkerLength \in Nat /\ MarkerSize \in Nat /\ CutStep \in Nat \ {0}
  BY ModelContextAssumption
<1>. DEFINE least == Min({system, MinSystem})
            excess == system - (system + rest - limit) - MarkerLength
            first == Max({least, excess})
            Smaller(kept) == kept - Min({CutStep, kept - least})
            cut[kept \in least..system] ==
                IF kept + MarkerSize + rest <= limit THEN kept + MarkerSize
                ELSE IF kept <= least THEN least
                ELSE cut[kept - Min({CutStep, kept - least})]
<1>2. least \in Nat /\ least <= system /\ least + rest <= limit
  BY <1>1, OfTwo
<1>3. ASSUME system + rest > limit PROVE first \in least..system
  <2>1. excess \in Int /\ excess <= system
    BY <1>1, <1>3
  <2>. HIDE DEF excess, least
  <2>2. first = IF least >= excess THEN least ELSE excess
    <3>1. least \in Int
      BY <1>2
    <3>2. QED
      BY <2>1, <3>1, OfTwo, Zenon
  <2>3. QED
    BY <1>2, <2>1, <2>2
<1>4. CutSystem(system, rest, limit) = IF system + rest <= limit THEN system ELSE cut[first]
  BY DEF CutSystem
<1>. HIDE DEF least
<1>5. ASSUME NEW n \in Nat, n > 0
      PROVE  Smaller(least + n) \in least..((least + n) - 1)
  BY <1>1, <1>2, <1>5, OfTwo
<1>. DEFINE Body(f, kept) ==
                IF kept + MarkerSize + rest <= limit THEN kept + MarkerSize
                ELSE IF kept <= least THEN least
                ELSE f[Smaller(kept)]
            Runs(f, n) == f = [kept \in least..(least + n) |-> Body(f, kept)]
            Has(n) == \E f : Runs(f, n)
            T == {n \in Nat : Has(n)}
<1>6. 0 \in T
  <2>. DEFINE f == [kept \in least..least |->
                       IF kept + MarkerSize + rest <= limit THEN kept + MarkerSize ELSE least]
  <2>1. least..(least + 0) = least..least
    BY <1>2
  <2>2. ASSUME NEW kept \in least..least PROVE Body(f, kept) = f[kept]
    <3>1. kept = least /\ kept <= least
      BY <1>2
    <3>2. QED
      BY <3>1
  <2>3. f = [kept \in least..least |-> f[kept]]
    OBVIOUS
  <2>. HIDE DEF f, Body
  <2>4. Runs(f, 0)
    BY <2>1, <2>2, <2>3
  <2>. HIDE DEF Runs
  <2>5. QED
    BY <2>4
<1>7. ASSUME NEW n \in Nat, n \in T PROVE n + 1 \in T
  <2>1. PICK f : Runs(f, n)
    BY <1>7
  <2>. HIDE DEF Smaller
  <2>. DEFINE g == [kept \in least..(least + (n + 1)) |->
                       IF kept = least + (n + 1) THEN Body(f, kept) ELSE f[kept]]
  <2>2. ASSUME NEW kept \in least..(least + (n + 1)) PROVE g[kept] = Body(g, kept)
    <3>1. CASE kept <= least
      <4>1. kept = least /\ kept \in least..(least + n) /\ kept # least + (n + 1)
        BY <1>2, <3>1
      <4>2. g[kept] = f[kept] /\ f[kept] = Body(f, kept)
        BY <2>1, <4>1
      <4>3. QED
        BY <3>1, <4>2
    <3>2. CASE kept > least
      <4>1. kept - least \in Nat /\ kept - least > 0 /\ kept = least + (kept - least)
        BY <1>2, <3>2
      <4>2. Smaller(kept) \in least..(kept - 1)
        BY <1>5, <4>1
      <4>3. Smaller(kept) \in least..(least + n) /\ Smaller(kept) # least + (n + 1)
        BY <1>2, <4>2
      <4>4. g[Smaller(kept)] = f[Smaller(kept)]
        BY <1>2, <4>3
      <4>5. g[kept] = Body(f, kept)
        <5>1. CASE kept = least + (n + 1)
          BY <5>1
        <5>2. CASE kept # least + (n + 1)
          <6>1. kept \in least..(least + n)
            BY <1>2, <5>2
          <6>2. QED
            BY <2>1, <5>2, <6>1
        <5>3. QED
          BY <5>1, <5>2
      <4>6. QED
        BY <4>4, <4>5
    <3>3. QED
      BY <1>2, <3>1, <3>2
  <2>3. g = [kept \in least..(least + (n + 1)) |-> g[kept]]
    OBVIOUS
  <2>. HIDE DEF g, Body
  <2>4. Runs(g, n + 1)
    BY <2>2, <2>3
  <2>. HIDE DEF Runs
  <2>5. QED
    BY <2>4
<1>. HIDE DEF T
<1>8. system - least \in T /\ system = least + (system - least)
  BY <1>2, <1>6, <1>7, NatInductionOnSets
<1>9. \E f : f = [kept \in least..system |-> Body(f, kept)]
  BY <1>8 DEF T
<1>10. cut = [kept \in least..system |-> Body(cut, kept)]
  BY <1>9
<1>. HIDE DEF cut
<1>11. \A kept \in least..system : cut[kept] = Body(cut, kept)
  BY <1>10
<1>12. ASSUME NEW kept \in least..system
       PROVE  cut[kept] \in Nat /\ cut[kept] >= least /\ cut[kept] + rest <= limit
  <2>. DEFINE Good(k) == cut[k] \in Nat /\ cut[k] >= least /\ cut[k] + rest <= limit
              U == {n \in Nat : \A k \in least..system : k <= least + n => Good(k)}
  <2>1. 0 \in U
    <3>1. ASSUME NEW k \in least..system, k <= least PROVE Good(k)
      <4>1. k = least
        BY <1>2, <3>1
      <4>2. cut[k] = Body(cut, k) /\ k <= least
        <5>. HIDE DEF Body
        <5>1. QED
          BY <1>2, <1>11, <4>1
      <4>3. cut[k] = IF k + MarkerSize + rest <= limit THEN k + MarkerSize ELSE least
        BY <4>2
      <4>. HIDE DEF Body
      <4>4. QED
        BY <1>1, <1>2, <4>1, <4>3
    <3>2. QED
      BY <1>2, <3>1
  <2>2. ASSUME NEW n \in Nat, n \in U PROVE n + 1 \in U
    <3>1. ASSUME NEW k \in least..system, k <= least + (n + 1) PROVE Good(k)
      <4>1. CASE k <= least + n
        BY <2>2, <4>1
      <4>2. CASE k > least + n
        <5>1. k = least + (n + 1)
          BY <1>2, <3>1, <4>2
        <5>2. Smaller(k) \in least..(k - 1)
          BY <1>5, <5>1
        <5>. HIDE DEF Smaller
        <5>3. Good(Smaller(k))
          <6>1. Smaller(k) \in least..system /\ Smaller(k) <= least + n
            BY <1>2, <5>1, <5>2
          <6>2. QED
            BY <2>2, <6>1
        <5>4. QED
          BY <1>1, <1>2, <1>11, <5>3
      <4>3. QED
        BY <1>2, <4>1, <4>2
    <3>. HIDE DEF Good
    <3>2. QED
      BY <3>1
  <2>. HIDE DEF U, Good
  <2>3. kept - least \in Nat /\ kept <= least + (kept - least)
    BY <1>2
  <2>4. kept - least \in U
    BY <2>1, <2>2, <2>3, NatInductionOnSets
  <2>5. Good(kept)
    BY <2>3, <2>4 DEF U
  <2>6. QED
    BY <2>5 DEF Good
<1>13. QED
  BY <1>2, <1>3, <1>4, <1>12 DEF least

(* The context messages that are kept fit with the rest, if that does.     *)
LEMMA KeptContextFits ==
    ASSUME NEW context \in Seq(Messages), NEW rest \in Nat, NEW limit \in Int, rest <= limit
    PROVE  /\ KeptContext(context, rest, limit) \in Seq(Messages)
           /\ rest + Size(KeptContext(context, rest, limit)) <= limit
           /\ \E n \in 0..Len(context) :
                 /\ KeptContext(context, rest, limit) = SubSeq(context, 1, n)
                 /\ n < Len(context) => rest + Size(SubSeq(context, 1, n + 1)) > limit
<1>. DEFINE fits == { n \in 0..Len(context) : rest + Size(SubSeq(context, 1, n)) <= limit }
<1>1. 0 \in fits
  <2>1. SubSeq(context, 1, 0) = <<>>
    OBVIOUS
  <2>2. Size(SubSeq(context, 1, 0)) = 0
    BY <2>1, SizeOfFew, Zenon
  <2>3. 0 \in 0..Len(context) /\ rest + Size(SubSeq(context, 1, 0)) <= limit
    BY <2>2
  <2>4. QED
    BY <2>3
<1>2. fits \in SUBSET Nat /\ \A n \in fits : n <= Len(context)
  OBVIOUS
<1>3. KeptContext(context, rest, limit) = SubSeq(context, 1, Max(fits))
  BY <1>1 DEF KeptContext, Size
<1>4. Max(fits) \in fits /\ \A n \in fits : n <= Max(fits)
  <2>. HIDE DEF fits
  <2>1. QED
    BY <1>1, <1>2, GreatestNumber, LenProperties
<1>5. Max(fits) \in 0..Len(context) /\ rest + Size(SubSeq(context, 1, Max(fits))) <= limit
  BY <1>4
<1>8. ASSUME Max(fits) < Len(context)
      PROVE  rest + Size(SubSeq(context, 1, Max(fits) + 1)) > limit
  <2>1. Max(fits) + 1 \in 0..Len(context) /\ ~(Max(fits) + 1 <= Max(fits))
    BY <1>5, <1>8
  <2>2. ~(rest + Size(SubSeq(context, 1, Max(fits) + 1)) <= limit)
    BY <1>4, <2>1
  <2>. HIDE DEF fits
  <2>3. SubSeq(context, 1, Max(fits) + 1) \in Seq(Messages)
    BY <1>5, <2>1
  <2>4. Size(SubSeq(context, 1, Max(fits) + 1)) \in Nat
    BY <2>3, SizesOfMessages
  <2>5. QED
    BY <2>2, <2>4
<1>. HIDE DEF fits
<1>6. SubSeq(context, 1, Max(fits)) \in Seq(Messages)
  BY <1>5
<1>7. QED
  BY <1>3, <1>5, <1>6, <1>8

(* Where the turns of a conversation begin.                                *)
Starts(ms) == {1} \cup { i \in DOMAIN ms : ms[i].role = "user" }

LEMMA PreviousUserStarts ==
    ASSUME NEW ms \in Seq(Messages), NEW cursor \in 2..Len(ms)
    PROVE  /\ PreviousUser(ms, cursor) \in 1..(cursor - 1)
           /\ PreviousUser(ms, cursor) \in Starts(ms)
           /\ PreviousUser(ms, cursor) = Max({ t \in Starts(ms) : t < cursor })
<1>. DEFINE S == {1} \cup { i \in 1..(cursor - 1) : ms[i].role = "user" }
<1>1. S \in SUBSET Nat /\ S # {} /\ cursor - 1 \in Nat /\ \A n \in S : n <= cursor - 1 /\ n >= 1
  OBVIOUS
<1>2. S = { t \in Starts(ms) : t < cursor }
  BY DEF Starts
<1>3. PreviousUser(ms, cursor) = Max(S)
  BY DEF PreviousUser
<1>4. S \subseteq Starts(ms)
  BY <1>2
<1>. HIDE DEF S
<1>5. Max(S) \in S
  BY <1>1, GreatestNumber
<1>6. Max(S) \in 1..(cursor - 1) /\ Max(S) \in Starts(ms)
  <2>. DEFINE m == Max(S)
  <2>1. m \in S /\ m \in Nat
    BY <1>1, <1>5
  <2>. HIDE DEF m
  <2>2. m \in 1..(cursor - 1) /\ m \in Starts(ms)
    BY <1>1, <1>4, <2>1
  <2>3. QED
    BY <2>2 DEF m
<1>7. QED
  BY <1>2, <1>3, <1>6

(* Whole turns are kept, which fit, and the one before them would not.     *)
LEMMA EarliestKeptFits ==
    ASSUME NEW ms \in Seq(Messages), NEW latest \in Starts(ms), latest \in 1..Len(ms),
           NEW rest \in Nat, NEW limit \in Int,
           rest + Size(SubSeq(ms, latest, Len(ms))) <= limit
    PROVE  LET first == EarliestKept(ms, latest, rest, limit) IN
           /\ first \in Starts(ms) /\ first \in 1..latest
           /\ rest + Size(SubSeq(ms, first, Len(ms))) <= limit
           /\ first > 1 =>
                rest + Size(SubSeq(ms, PreviousUser(ms, first), Len(ms))) > limit
<1>. DEFINE From(i) == rest + Size(SubSeq(ms, i, Len(ms)))
            Before(i) == PreviousUser(ms, i)
            Body(f, cursor) ==
                IF cursor = 1 THEN 1
                ELSE IF From(Before(cursor)) > limit THEN cursor
                ELSE f[Before(cursor)]
            start[cursor \in 1..latest] ==
                IF cursor = 1 THEN 1
                ELSE LET previous == PreviousUser(ms, cursor) IN
                     IF rest + SumOf(SubSeq(ms, previous, Len(ms)), MessageSize) > limit
                     THEN cursor
                     ELSE start[previous]
<1>1. EarliestKept(ms, latest, rest, limit) = start[latest]
  BY DEF EarliestKept
<1>2. ASSUME NEW cursor \in 2..latest
      PROVE  Before(cursor) \in 1..(cursor - 1) /\ Before(cursor) \in Starts(ms)
  <2>1. cursor \in 2..Len(ms)
    BY LenProperties
  <2>2. QED
    BY <2>1, PreviousUserStarts
<1>. DEFINE Runs(f, n) == f = [cursor \in 1..n |-> Body(f, cursor)]
            Has(n) == \E f : Runs(f, n)
            T == {n \in Nat : n <= latest => Has(n)}
<1>4. 0 \in T
  <2>. HIDE DEF Body
  <2>1. [cursor \in 1..0 |-> 1] = [cursor \in 1..0 |-> Body([k \in 1..0 |-> 1], cursor)]
    OBVIOUS
  <2>2. QED
    BY <2>1
<1>5. ASSUME NEW n \in Nat, n \in T PROVE n + 1 \in T
  <2>1. ASSUME n + 1 <= latest PROVE Has(n + 1)
    <3>1. PICK f : Runs(f, n)
      <4>. HIDE DEF Has
      <4>1. Has(n)
        BY <1>5, <2>1
      <4>2. QED
        BY <4>1 DEF Has
    <3>. HIDE DEF Before, From
    <3>. DEFINE g == [cursor \in 1..(n + 1) |-> IF cursor = n + 1 THEN Body(f, cursor) ELSE f[cursor]]
    <3>2. ASSUME NEW cursor \in 1..(n + 1) PROVE g[cursor] = Body(g, cursor)
      <4>1. g[cursor] = Body(f, cursor)
        <5>1. CASE cursor = n + 1
          BY <5>1
        <5>2. CASE cursor # n + 1
          <6>1. cursor \in 1..n
            BY <5>2
          <6>2. QED
            BY <3>1, <5>2, <6>1
        <5>3. QED
          BY <5>1, <5>2
      <4>2. CASE cursor = 1
        BY <4>1, <4>2
      <4>3. CASE cursor # 1
        <5>1. Before(cursor) \in 1..(cursor - 1)
          BY <1>2, <2>1, <4>3
        <5>2. Before(cursor) \in 1..(n + 1) /\ Before(cursor) # n + 1
          BY <5>1
        <5>3. g[Before(cursor)] = f[Before(cursor)]
          BY <5>2
        <5>4. QED
          BY <4>1, <5>3
      <4>4. QED
        BY <4>2, <4>3
    <3>3. g = [cursor \in 1..(n + 1) |-> g[cursor]]
      OBVIOUS
    <3>. HIDE DEF g, Body
    <3>4. Runs(g, n + 1)
      BY <3>2, <3>3
    <3>. HIDE DEF Runs
    <3>5. QED
      BY <3>4
  <2>. HIDE DEF Has
  <2>2. QED
    BY <2>1
<1>. HIDE DEF T
<1>6. latest \in T /\ latest \in Nat
  BY <1>4, <1>5, NatInductionOnSets
<1>7. \E f : f = [cursor \in 1..latest |-> Body(f, cursor)]
  BY <1>6 DEF T
<1>8. start = [cursor \in 1..latest |-> Body(start, cursor)]
  BY <1>7 DEF Size
<1>. HIDE DEF start
<1>9. \A cursor \in 1..latest : start[cursor] = Body(start, cursor)
  BY <1>8
<1>. HIDE DEF Before
<1>. DEFINE Good(c) ==
                /\ start[c] \in Starts(ms) /\ start[c] \in 1..c /\ From(start[c]) <= limit
                /\ start[c] > 1 => From(Before(start[c])) > limit
            U == {n \in Nat : \A c \in 1..n :
                     c <= latest /\ c \in Starts(ms) /\ From(c) <= limit => Good(c)}
<1>10. 0 \in U
  OBVIOUS
<1>11. ASSUME NEW n \in Nat, n \in U PROVE n + 1 \in U
  <2>1. ASSUME NEW c \in 1..(n + 1), c <= latest, c \in Starts(ms), From(c) <= limit
        PROVE  Good(c)
    <3>1. CASE c <= n
      BY <1>11, <2>1, <3>1
    <3>2. CASE c = 1
      BY <1>9, <2>1, <3>2 DEF Starts
    <3>3. CASE c = n + 1 /\ c # 1
      <4>1. Before(c) \in 1..(c - 1) /\ Before(c) \in Starts(ms) /\ c \in 1..latest
        BY <1>2, <2>1, <3>3
      <4>2. start[c] = IF From(Before(c)) > limit THEN c ELSE start[Before(c)]
        BY <1>9, <3>3, <4>1
      <4>3. CASE From(Before(c)) > limit
        BY <2>1, <4>2, <4>3
      <4>4. CASE ~(From(Before(c)) > limit)
        <5>1. From(Before(c)) \in Int
          <6>1. SubSeq(ms, Before(c), Len(ms)) \in Seq(Messages)
            BY <2>1, <4>1
          <6>2. Size(SubSeq(ms, Before(c), Len(ms))) \in Nat
            BY <6>1, SizesOfMessages
          <6>3. QED
            BY <6>2
        <5>2. From(Before(c)) <= limit
          BY <4>4, <5>1
        <5>. HIDE DEF Good
        <5>3. Good(Before(c))
          BY <1>11, <2>1, <3>3, <4>1, <5>2
        <5>4. QED
          BY <4>1, <4>2, <4>4, <5>3 DEF Good
      <4>5. QED
        BY <4>3, <4>4
    <3>4. QED
      BY <3>1, <3>2, <3>3
  <2>. HIDE DEF Good
  <2>2. QED
    BY <2>1
<1>. HIDE DEF U
<1>12. latest \in U
  BY <1>6, <1>10, <1>11, NatInductionOnSets
<1>13. Good(latest)
  <2>. HIDE DEF Good
  <2>1. QED
    BY <1>6, <1>12 DEF U
<1>14. QED
  BY <1>1, <1>13 DEF Before

LEMMA SlimmedAllMessages ==
    ASSUME NEW ms \in Seq(Messages)
    PROVE  /\ SlimmedAll(ms) \in Seq(Messages) /\ Len(SlimmedAll(ms)) = Len(ms)
           /\ \A i \in 1..Len(ms) :
                 /\ SlimmedAll(ms)[i] = Slimmed(ms[i])
                 /\ SlimmedAll(ms)[i].role = ms[i].role
           /\ Starts(SlimmedAll(ms)) = Starts(ms)
<1>1. \A i \in 1..Len(ms) : Slimmed(ms[i]) \in Messages /\ Slimmed(ms[i]).role = ms[i].role
  BY SlimmedMessage
<1>2. SlimmedAll(ms) = [i \in 1..Len(ms) |-> Slimmed(ms[i])] /\ Len(ms) \in Nat
  BY DEF SlimmedAll
<1>3. SlimmedAll(ms) \in Seq(Messages) /\ Len(SlimmedAll(ms)) = Len(ms)
  BY <1>1, <1>2
<1>4. \A i \in 1..Len(ms) : SlimmedAll(ms)[i] = Slimmed(ms[i])
  BY <1>2
<1>5. \A i \in 1..Len(ms) : SlimmedAll(ms)[i].role = ms[i].role
  BY <1>1, <1>4
<1>6. Starts(SlimmedAll(ms)) = Starts(ms)
  BY <1>3, <1>5 DEF Starts
<1>7. QED
  BY <1>1, <1>3, <1>4, <1>5, <1>6

(* The turn of the user a request must have in whole.                      *)
LEMMA LatestUserStarts ==
    ASSUME NEW ms \in Seq(Messages), ms # <<>>, ms[1].role = "user"
    PROVE  /\ LatestUser(ms) \in 1..Len(ms) /\ LatestUser(ms) \in Starts(ms)
           /\ LatestUser(SlimmedAll(ms)) = LatestUser(ms)
<1>. DEFINE users == { i \in DOMAIN ms : ms[i].role = "user" }
<1>1. 1 \in users /\ users \in SUBSET Nat /\ \A i \in users : i <= Len(ms) /\ i \in 1..Len(ms)
  BY EmptySeq
<1>2. LatestUser(ms) = Max(users)
  BY <1>1 DEF LatestUser
<1>3. { i \in DOMAIN SlimmedAll(ms) : SlimmedAll(ms)[i].role = "user" } = users
  BY SlimmedAllMessages
<1>4. LatestUser(SlimmedAll(ms)) = Max(users)
  BY <1>1, <1>3 DEF LatestUser
<1>5. Max(users) \in users
  <2>. HIDE DEF users
  <2>1. QED
    BY <1>1, GreatestNumber, LenProperties
<1>6. users \subseteq Starts(ms)
  BY DEF Starts
<1>. HIDE DEF users
<1>7. QED
  BY <1>1, <1>2, <1>4, <1>5, <1>6

(* What stands at the end of what is sent: the messages that were chosen,  *)
(* perhaps behind a marker, and they fit.                                  *)
LEMMA MarkedFits ==
    ASSUME NEW chosen \in Seq(Messages), NEW first \in Nat, NEW rest \in Nat, NEW max \in Int,
           rest + Size(chosen) <= max
    PROVE  LET request == Marked(chosen, first, rest, max) IN
           /\ request \in Seq(Messages)
           /\ Size(chosen) <= Size(request) /\ rest + Size(request) <= max
           /\ \E e \in {0, 1} :
                 /\ Len(request) = e + Len(chosen)
                 /\ \A k \in 1..Len(chosen) : request[e + k] = chosen[k]
<1>. DEFINE note == <<User(Placeholder)>>
            both == note \o chosen
<1>1. User(Placeholder) \in Messages
  <2>1. <<>> \in Seq(ToolCalls) /\ <<TextBlock(Placeholder)>> \in Seq(Blocks)
    BY DEF TextBlock, Placeholder, Blocks
  <2>2. QED
    BY <2>1 DEF User, Messages
<1>2. note \in Seq(Messages) /\ Len(note) = 1
  BY <1>1
<1>. HIDE DEF note
<1>3. /\ both \in Seq(Messages) /\ Len(both) = 1 + Len(chosen)
      /\ \A k \in 1..Len(chosen) : both[1 + k] = chosen[k]
  <2>1. /\ both \in Seq(Messages) /\ Len(both) = Len(note) + Len(chosen)
        /\ \A k \in 1..Len(chosen) : both[Len(note) + k] = chosen[k]
    <3>1. both = note \o chosen /\ note \in Seq(Messages)
      BY <1>2
    <3>. HIDE DEF both
    <3>2. QED
      BY <3>1, TwoTogether
  <2>. HIDE DEF both
  <2>2. QED
    BY <1>2, <2>1
<1>4. Size(both) = Size(note) + Size(chosen) /\ Size(note) \in Nat /\ Size(chosen) \in Nat
  BY <1>2, SizeOfConcatenation, SizesOfMessages
<1>5. Marked(chosen, first, rest, max) = IF first > 1 /\ rest + Size(both) <= max THEN both ELSE chosen
  BY DEF Marked, Size, note
<1>. HIDE DEF both
<1>6. CASE first > 1 /\ rest + Size(both) <= max
  BY <1>3, <1>4, <1>5, <1>6
<1>7. CASE ~(first > 1 /\ rest + Size(both) <= max)
  <2>1. Marked(chosen, first, rest, max) = chosen
    BY <1>5, <1>7
  <2>2. Len(chosen) \in Nat /\ \A k \in 1..Len(chosen) : chosen[0 + k] = chosen[k]
    OBVIOUS
  <2>3. QED
    BY <1>4, <2>1, <2>2
<1>8. QED
  BY <1>6, <1>7

(* What is sent when it fits: everything, or some of the context and the   *)
(* messages from one on, with a marker for what was left out or without.   *)
Sent(n, marked, first) ==
    LET chosen == SubSeq(SlimmedAll(messages), first, Len(messages))
    IN  SubSeq(WorkspaceContext, 1, n)
            \o (IF marked THEN <<User(Placeholder)>> \o chosen ELSE chosen)

MadeOfMessages(request) ==
    \/ request = WorkspaceContext \o messages
    \/ \E n \in 0..Len(WorkspaceContext), marked \in BOOLEAN, first \in 1..Len(messages) :
          request = Sent(n, marked, first)

(* What fitModelContext() promises of a request: for every conversation    *)
(* that a user began, whatever the sizes and the budget are.               *)
LEMMA RequestKeepsLatest ==
    ASSUME messages \in Seq(Messages), messages # <<>>, messages[1].role = "user"
    PROVE  /\ KeepsLatest(Request, LatestUser(messages))
           /\ Request.fits => MadeOfMessages(Request.messages)
<1>. DEFINE N == Len(messages)
            slim == SlimmedAll(messages)
            latest == LatestUser(messages)
            max == MaxInput
            least == Min({System, MinSystem})
            context == WorkspaceContext
            Part(ms, i) == SubSeq(ms, i, N)
            turnSize == TurnSizeOf(slim, Tools)
<1>1. /\ System \in Nat /\ Tools \in Nat /\ context \in Seq(Messages) /\ MinSystem \in Nat
      /\ max \in Int /\ least \in Nat /\ least <= System
  <2>1. System \in Nat /\ Tools \in Nat /\ context \in Seq(Messages) /\ OutputTokens \in Nat
    BY ConversationAssumption
  <2>2. MinSystem \in Nat /\ MaxOutputTokens \in Int /\ MinInputTokens \in Int
        /\ ContextTokens \in Int /\ SafetyTokens \in Int
    BY ModelContextAssumption
  <2>3. ModelOutputLimit(OutputTokens) \in Int
    BY <2>1, <2>2, OfTwo DEF ModelOutputLimit
  <2>4. ModelInputLimit(ModelOutputLimit(OutputTokens)) \in Int
    BY <2>2, <2>3 DEF ModelInputLimit
  <2>5. max \in Int
    BY <2>2, <2>4, OfTwo DEF MaxInput, InputLimit
  <2>6. QED
    BY <2>1, <2>2, <2>5, OfTwo
<1>2. N \in Nat /\ latest \in 1..N /\ latest \in Starts(messages) /\ LatestUser(slim) = latest
  BY LatestUserStarts, LenProperties
<1>3. /\ slim \in Seq(Messages) /\ Len(slim) = N /\ Starts(slim) = Starts(messages)
      /\ \A i \in 1..N : slim[i] = Slimmed(messages[i])
  BY SlimmedAllMessages
<1>4. Starts(messages) = TurnStarts
  BY DEF Starts, TurnStarts
<1>5. turnSize = Tools + Size(Part(slim, latest)) /\ Part(slim, latest) \in Seq(Messages)
  <2>1. turnSize = 0 + Tools + Size(Part(slim, latest))
    BY <1>2, <1>3 DEF TurnSizeOf, ContextSize, Size
  <2>2. Part(slim, latest) \in Seq(Messages)
    BY <1>2, <1>3
  <2>3. Size(Part(slim, latest)) \in Nat
    BY <2>2, SizesOfMessages
  <2>4. QED
    BY <1>1, <2>1, <2>2, <2>3
<1>6. Size(Part(slim, latest)) \in Nat /\ turnSize \in Nat
  <2>1. Size(Part(slim, latest)) \in Nat
    BY <1>5, SizesOfMessages
  <2>2. QED
    BY <1>1, <1>5, <2>1
<1>7. Request = IF ContextSize(System, context \o messages, Tools) <= max
                THEN FittedTo(System, Len(context), 1, context \o messages, Tools)
                ELSE FittedSlim(System, context, slim, turnSize, Tools, max)
  BY DEF Request, Fitted
<1>8. FittedSlim(System, context, slim, turnSize, Tools, max) =
         IF least + turnSize > max THEN [fits |-> FALSE]
         ELSE FittedAround(System, context, slim, latest, turnSize, Tools, max)
  BY <1>2 DEF FittedSlim
<1>13. ASSUME NEW from \in 1..N PROVE SlimSize(from) = Size(Part(slim, from))
  <2>. DEFINE part == Part(slim, from)
  <2>1. part = [i \in 1..(N - from + 1) |-> part[i]] /\ DOMAIN part = 1..(N - from + 1)
    <3>1. slim \in Seq(Messages) /\ Len(slim) = N /\ N \in Nat
      BY <1>2, <1>3
    <3>. HIDE DEF slim, N
    <3>2. part \in Seq(Messages) /\ Len(part) = N - from + 1
      BY <3>1
    <3>. HIDE DEF part
    <3>3. part \in [1..(N - from + 1) -> Messages]
      BY <3>2, LenProperties, Zenon
    <3>4. QED
      BY <3>3
  <2>2. ASSUME NEW i \in 1..(N - from + 1) PROVE part[i] = Slimmed(messages[from + i - 1])
    <3>1. part[i] = slim[from + i - 1] /\ from + i - 1 \in 1..N
      BY <1>2, <1>3
    <3>2. QED
      BY <1>3, <3>1
  <2>. HIDE DEF part
  <2>3. part = [i \in 1..(N - from + 1) |-> Slimmed(messages[from + i - 1])]
    BY <2>1, <2>2
  <2>4. SlimSize(from) = Size(part)
    BY <2>3 DEF SlimSize, Size
  <2>5. QED
    BY <2>4 DEF part
<1>. HIDE DEF turnSize, slim, least, max, context
<1>9. CASE ContextSize(System, context \o messages, Tools) <= max
  <2>. DEFINE request == context \o messages
  <2>1. /\ request \in Seq(Messages) /\ Len(request) = Len(context) + N
        /\ \A k \in 1..N : request[Len(context) + k] = messages[k]
    <3>1. request = context \o messages
      OBVIOUS
    <3>. HIDE DEF request
    <3>2. QED
      BY <1>1, <3>1, TwoTogether
  <2>. HIDE DEF request
  <2>2. ContextSize(System, request, Tools) <= max /\ Request = FittedTo(System, Len(context), 1, request, Tools)
    BY <1>7, <1>9 DEF request
  <2>3. /\ Request.fits /\ Request.system = System /\ Request.messages = request
        /\ Request.first = 1 /\ Request.size = ContextSize(System, request, Tools)
        /\ Request.context = Len(context)
    BY <2>2 DEF FittedTo
  <2>4. ASSUME NEW i \in 1..N PROVE request[Len(request) - (N - i)] = messages[i]
    <3>1. Len(request) - (N - i) = Len(context) + i
      BY <1>1, <1>2, <2>1
    <3>2. QED
      BY <2>1, <3>1
  <2>5. 1 \in TurnStarts
    BY DEF TurnStarts
  <2>6. QED
    <3>1. Request.size <= max /\ Request.system >= least
      BY <1>1, <2>2, <2>3
    <3>2. ~(Request.first > 1) /\ ~(Request.context < Len(context)) /\ Request.first <= latest
      BY <1>1, <1>2, <2>3, LenProperties
    <3>. HIDE DEF N
    <3>3. KeepsLatest(Request, latest)
      BY <2>3, <2>4, <2>5, <3>1, <3>2 DEF KeepsLatest, N, max, least, context
    <3>4. Request.messages = context \o messages
      BY <2>3 DEF request
    <3>5. QED
      BY <3>3, <3>4 DEF MadeOfMessages, context
<1>10. CASE ~(ContextSize(System, context \o messages, Tools) <= max) /\ least + turnSize > max
  <2>1. Request = [fits |-> FALSE]
    BY <1>7, <1>8, <1>10
  <2>6. least + Tools + SlimSize(latest) > max
    BY <1>1, <1>2, <1>5, <1>6, <1>10, <1>13
  <2>7. ~Request.fits
    BY <2>1
  <2>8. KeepsLatest(Request, latest)
    BY <2>6, <2>7 DEF KeepsLatest, max, least
  <2>9. QED
    BY <2>7, <2>8
<1>11. CASE ~(ContextSize(System, context \o messages, Tools) <= max) /\ ~(least + turnSize > max)
  <2>. DEFINE cut == CutSystem(System, turnSize, max)
              kept == KeptContext(context, cut + turnSize, max)
              rest == ContextSize(cut, kept, Tools)
              first == EarliestKept(slim, latest, rest, max)
              chosen == Part(slim, first)
              tail == Marked(chosen, first, rest, max)
              request == kept \o tail
  <2>1. Request = FittedTo(cut, Len(kept), first, request, Tools)
    BY <1>3, <1>7, <1>8, <1>11 DEF FittedAround, WithEarlier
  <2>2. least + turnSize <= max
    BY <1>1, <1>6, <1>11
  <2>3. cut \in Nat /\ cut >= least /\ cut + turnSize <= max
    BY <1>1, <1>6, <2>2, CutSystemFits DEF least
  <2>. HIDE DEF cut
  <2>4. /\ kept \in Seq(Messages) /\ cut + turnSize + Size(kept) <= max
        /\ \E n \in 0..Len(context) :
              /\ kept = SubSeq(context, 1, n)
              /\ n < Len(context) => cut + turnSize + Size(SubSeq(context, 1, n + 1)) > max
    <3>1. cut + turnSize \in Nat
      BY <1>6, <2>3
    <3>2. QED
      BY <1>1, <2>3, <3>1, KeptContextFits
  <2>. HIDE DEF kept
  <2>5. Size(kept) \in Nat
    BY <2>4, SizesOfMessages
  <2>6. rest = cut + Tools + Size(kept)
    BY DEF ContextSize, Size
  <2>. HIDE DEF rest
  <2>7. rest \in Nat /\ rest + Size(Part(slim, latest)) <= max
    <3>. DEFINE turn == Size(Part(slim, latest))
    <3>1. turnSize = Tools + turn /\ turn \in Nat
      BY <1>5, <1>6
    <3>. HIDE DEF turn
    <3>2. rest \in Nat /\ rest + turn <= max
      BY <1>1, <2>3, <2>4, <2>5, <2>6, <3>1
    <3>3. QED
      BY <3>2 DEF turn
  <2>8. /\ first \in Starts(slim) /\ first \in 1..latest /\ rest + Size(chosen) <= max
        /\ first > 1 => rest + Size(Part(slim, PreviousUser(slim, first))) > max
    BY <1>1, <1>2, <1>3, <2>7, EarliestKeptFits
  <2>. HIDE DEF first
  <2>9. /\ chosen \in Seq(Messages) /\ Len(chosen) = N - first + 1
        /\ \A k \in 1..(N - first + 1) : chosen[k] = slim[first + k - 1]
    BY <1>2, <1>3, <2>8
  <2>10. /\ tail \in Seq(Messages) /\ Size(chosen) <= Size(tail) /\ rest + Size(tail) <= max
         /\ \E e \in {0, 1} : /\ Len(tail) = e + Len(chosen)
                              /\ \A k \in 1..Len(chosen) : tail[e + k] = chosen[k]
    <3>1. first \in Nat
      BY <1>2, <2>8
    <3>2. rest + Size(chosen) <= max /\ chosen \in Seq(Messages) /\ rest \in Nat /\ max \in Int
      BY <1>1, <2>7, <2>8, <2>9
    <3>. HIDE DEF chosen
    <3>3. QED
      BY <3>1, <3>2, MarkedFits, Zenon
  <2>21. tail \in {chosen, <<User(Placeholder)>> \o chosen}
    BY Zenon DEF Marked
  <2>. HIDE DEF tail
  <2>11. PICK e \in {0, 1} : /\ Len(tail) = e + Len(chosen)
                             /\ \A k \in 1..Len(chosen) : tail[e + k] = chosen[k]
    BY <2>10
  <2>12. /\ request \in Seq(Messages) /\ Len(request) = Len(kept) + Len(tail)
         /\ \A k \in 1..Len(tail) : request[Len(kept) + k] = tail[k]
    <3>1. request = kept \o tail
      OBVIOUS
    <3>2. tail \in Seq(Messages)
      BY <2>10
    <3>. HIDE DEF request
    <3>3. QED
      BY <2>4, <3>1, <3>2, TwoTogether
  <2>13. Size(request) = Size(kept) + Size(tail)
    BY <2>4, <2>10, SizeOfConcatenation
  <2>. HIDE DEF request
  <2>14. Size(tail) \in Nat /\ Size(chosen) \in Nat /\ Len(kept) \in Nat /\ Len(chosen) \in Nat
    BY <2>4, <2>9, <2>10, SizesOfMessages, LenProperties
  <2>15. /\ Request.fits /\ Request.system = cut /\ Request.messages = request
         /\ Request.first = first /\ Request.size = ContextSize(cut, request, Tools)
         /\ Request.context = Len(kept)
    BY <2>1 DEF FittedTo
  <2>16. Request.size = rest + Size(tail)
    <3>1. Request.size = cut + Tools + Size(request)
      BY <2>15 DEF ContextSize, Size
    <3>2. QED
      BY <1>1, <2>3, <2>5, <2>6, <2>13, <2>14, <3>1
  <2>17. Request.size <= max
    BY <2>10, <2>16
  <2>18. ASSUME NEW i \in first..N PROVE request[Len(request) - (N - i)] = Slimmed(messages[i])
    <3>. DEFINE k == i - first + 1
    <3>1. k \in 1..Len(chosen) /\ e + k \in 1..Len(tail) /\ first + k - 1 = i /\ i \in 1..N
      BY <1>2, <2>8, <2>9, <2>11, <2>14
    <3>2. Len(request) - (N - i) = Len(kept) + (e + k)
      BY <1>2, <2>8, <2>9, <2>11, <2>12, <2>14
    <3>. HIDE DEF k
    <3>3. request[Len(kept) + (e + k)] = tail[e + k] /\ tail[e + k] = chosen[k]
      BY <2>11, <2>12, <3>1
    <3>4. chosen[k] = slim[i]
      BY <2>9, <3>1
    <3>5. QED
      BY <1>3, <3>1, <3>2, <3>3, <3>4
  <2>. DEFINE With(n) == ContextSize(cut, SubSeq(context, 1, n), Tools)
  <2>28. PICK n \in 0..Len(context) :
            /\ kept = SubSeq(context, 1, n)
            /\ n < Len(context) => cut + turnSize + Size(SubSeq(context, 1, n + 1)) > max
    BY <2>4
  <2>29. Len(kept) = n
    BY <1>1, <2>28
  <2>30. With(n) = rest
    BY <2>6, <2>28 DEF ContextSize, Size
  <2>19. ASSUME first > 1
         PROVE  With(n) + SlimSize(TurnBefore(first)) > max
    <3>. DEFINE previous == PreviousUser(slim, first)
    <3>1. first \in 2..Len(slim)
      BY <1>2, <1>3, <2>8, <2>19
    <3>2. previous \in 1..(first - 1) /\ previous = TurnBefore(first)
      BY <1>3, <1>4, <3>1, PreviousUserStarts DEF TurnBefore
    <3>3. rest + Size(Part(slim, previous)) > max
      BY <2>8, <2>19
    <3>. HIDE DEF previous
    <3>4. previous \in 1..N
      BY <1>3, <3>1, <3>2
    <3>5. SlimSize(previous) = Size(Part(slim, previous))
      BY <1>13, <3>4
    <3>. HIDE DEF With
    <3>6. QED
      BY <2>30, <3>2, <3>3, <3>5
  <2>31. ASSUME n < Len(context) PROVE With(n + 1) + SlimSize(latest) > max
    <3>. DEFINE more == SubSeq(context, 1, n + 1)
    <3>1. more \in Seq(Messages)
      BY <1>1, <2>28, <2>31
    <3>2. Size(more) \in Nat /\ SlimSize(latest) = Size(Part(slim, latest))
      BY <1>2, <1>13, <3>1, SizesOfMessages
    <3>3. With(n + 1) = cut + Tools + Size(more)
      BY DEF ContextSize, Size
    <3>4. cut + turnSize + Size(more) > max
      BY <2>28, <2>31
    <3>5. turnSize = Tools + SlimSize(latest) /\ SlimSize(latest) \in Nat
      BY <1>5, <1>6, <3>2
    <3>6. Tools \in Nat /\ cut \in Nat /\ max \in Int /\ Size(more) \in Nat
      BY <1>1, <2>3, <3>2
    <3>. HIDE DEF With, more, turnSize, latest, max
    <3>7. QED
      BY <3>3, <3>4, <3>5, <3>6
  <2>32. /\ WithContext(Request, n) = With(n)
         /\ WithContext(Request, n + 1) = With(n + 1)
    BY <2>15 DEF WithContext, context
  <2>. HIDE DEF With
  <2>20. KeepsLatest(Request, latest)
    <3>1. Request.context = n /\ first <= latest
      BY <1>2, <2>8, <2>15, <2>29
    <3>2. QED
      BY <1>3, <1>4, <2>3, <2>8, <2>15, <2>17, <2>18, <2>19, <2>31, <2>32, <3>1
         DEF KeepsLatest, max, least, context
  <2>22. first \in 1..N
    BY <1>2, <2>8
  <2>23. \E marked \in BOOLEAN :
            tail = IF marked THEN <<User(Placeholder)>> \o chosen ELSE chosen
    BY <2>21, Zenon
  <2>24. PICK marked \in BOOLEAN :
            tail = IF marked THEN <<User(Placeholder)>> \o chosen ELSE chosen
    BY <2>23, Zenon
  <2>25. request = Sent(n, marked, first)
    BY <2>24, <2>28, Zenon DEF request, Sent, slim, context
  <2>26. MadeOfMessages(request)
    BY <2>22, <2>25, <2>28, Zenon DEF MadeOfMessages, context, N
  <2>27. QED
    BY <2>15, <2>20, <2>26
<1>12. QED
  BY <1>9, <1>10, <1>11

-----------------------------------------------------------------------------
(* What an adapter passes on, what it remembers of a call, and what the    *)
(* collector holds, when calls are begun with these ids only: it has each  *)
(* of them once at most.                                                   *)
Pieces == Seq(Strings)
OutTypes == {"model_call_delta", "model_provider_item", "model_tool_call_start",
             "model_tool_call_args_delta", "model_tool_call_end"}
Outs(ids) == { e \in [type : OutTypes, id : Strings, value : Pieces] :
                  e.type = "model_tool_call_start" => e.id \in ids }
States == [id : Strings, args : Pieces, started : BOOLEAN, ended : BOOLEAN]
OpenCalls(ids) == [id : ids, args : Pieces]
DifferentCalls(m) == \A k, l \in DOMAIN m.calls : m.calls[k].id = m.calls[l].id => k = l
AllCollections(ids) == [content : Pieces, calls : Seq(OpenCalls(ids)), items : Seq(Pieces),
                        ended : Pieces]
Collections(ids) == { c \in AllCollections(ids) : DifferentCalls(c) }

(* One event, and a sequence of events, leave a collection of that form.   *)
LEMMA CollectTyped ==
    ASSUME NEW ids \in SUBSET Strings, NEW c \in Collections(ids), NEW e \in Outs(ids)
    PROVE  Collect(c, e) \in Collections(ids)
<1>1. /\ c.content \in Pieces /\ c.calls \in Seq(OpenCalls(ids)) /\ c.items \in Seq(Pieces)
      /\ c.ended \in Pieces
  BY DEF Collections, AllCollections
<1>2. /\ e.id \in Strings /\ e.value \in Pieces /\ e.type \in OutTypes
      /\ e.type = "model_tool_call_start" => e.id \in ids
  BY DEF Outs
<1>3. ASSUME NEW d \in Pieces PROVE d \o e.value \in Pieces
  BY <1>2, ConcatProperties DEF Pieces
<1>0. c \in AllCollections(ids) /\ DifferentCalls(c)
  BY DEF Collections
<1>12. ASSUME NEW d \in AllCollections(ids), d.calls = c.calls PROVE d \in Collections(ids)
  <2>1. DifferentCalls(d)
    BY <1>0, <1>12 DEF DifferentCalls
  <2>2. QED
    BY <2>1 DEF Collections
<1>4. ASSUME NEW calls, DOMAIN calls = DOMAIN c.calls, calls = [k \in DOMAIN c.calls |-> calls[k]],
             \A k \in DOMAIN c.calls : calls[k] \in OpenCalls(ids) /\ calls[k].id = c.calls[k].id
      PROVE  [c EXCEPT !.calls = calls] \in Collections(ids)
  <2>1. calls \in Seq(OpenCalls(ids))
    <3>1. DOMAIN c.calls = 1..Len(c.calls) /\ Len(c.calls) \in Nat
      BY <1>1
    <3>2. QED
      BY <1>4, <3>1
  <2>. DEFINE d == [c EXCEPT !.calls = calls]
  <2>2. d \in AllCollections(ids) /\ d.calls = calls
    BY <2>1, <1>0 DEF AllCollections
  <2>. HIDE DEF d
  <2>3. DifferentCalls(d)
    BY <1>0, <1>4, <2>2 DEF DifferentCalls
  <2>4. d \in Collections(ids)
    BY <2>2, <2>3 DEF Collections
  <2>5. QED
    BY <2>4 DEF d
<1>5. ASSUME NEW k \in DOMAIN c.calls
      PROVE  /\ [c.calls[k] EXCEPT !.args = <<>>] \in OpenCalls(ids)
             /\ [c.calls[k] EXCEPT !.args = @ \o e.value] \in OpenCalls(ids)
             /\ c.calls[k] \in OpenCalls(ids)
             /\ [c.calls[k] EXCEPT !.args = <<>>].id = c.calls[k].id
             /\ [c.calls[k] EXCEPT !.args = @ \o e.value].id = c.calls[k].id
  <2>1. c.calls[k] \in OpenCalls(ids)
    BY <1>1
  <2>2. c.calls[k].args \in Pieces
    BY <2>1 DEF OpenCalls
  <2>3. c.calls[k].args \o e.value \in Pieces /\ <<>> \in Pieces
    BY <1>3, <2>2 DEF Pieces
  <2>4. \A a \in Pieces : [c.calls[k] EXCEPT !.args = a] \in OpenCalls(ids)
                           /\ [c.calls[k] EXCEPT !.args = a].id = c.calls[k].id
    BY <2>1 DEF OpenCalls
  <2>5. QED
    BY <2>1, <2>3, <2>4
<1>6. CASE e.type = "model_call_delta"
  <2>1. c.content \o e.value \in Pieces
    BY <1>1, <1>3
  <2>2. \A a \in Pieces : /\ [c EXCEPT !.content = a] \in AllCollections(ids)
                           /\ [c EXCEPT !.content = a].calls = c.calls
    BY <1>0 DEF AllCollections
  <2>3. QED
    BY <1>6, <1>12, <2>1, <2>2 DEF Collect
<1>7. CASE e.type = "model_provider_item"
  <2>1. \A a \in Seq(Pieces) :
                        /\ [c EXCEPT !.items = a] \in AllCollections(ids)
                        /\ [c EXCEPT !.items = a].calls = c.calls
    BY <1>0 DEF AllCollections
  <2>2. Append(c.items, e.value) \in Seq(Pieces)
    BY <1>1, <1>2, AppendProperties
  <2>3. QED
    BY <1>7, <1>12, <2>1, <2>2 DEF Collect
<1>8. CASE e.type = "model_tool_call_start"
  <2>. DEFINE cleared == [k \in DOMAIN c.calls |->
                 IF c.calls[k].id = e.id THEN [c.calls[k] EXCEPT !.args = <<>>] ELSE c.calls[k]]
              call == [id |-> e.id, args |-> <<>>]
              longer == Append(c.calls, call)
  <2>1. Collect(c, e) = IF \E k \in DOMAIN c.calls : c.calls[k].id = e.id
                        THEN [c EXCEPT !.calls = cleared] ELSE [c EXCEPT !.calls = longer]
    BY <1>8 DEF Collect
  <2>2. \A k \in DOMAIN c.calls : cleared[k] \in OpenCalls(ids) /\ cleared[k].id = c.calls[k].id
    BY <1>5
  <2>3. DOMAIN cleared = DOMAIN c.calls /\ cleared = [k \in DOMAIN c.calls |-> cleared[k]]
    OBVIOUS
  <2>4. call \in OpenCalls(ids) /\ call.id = e.id
    BY <1>2, <1>8 DEF OpenCalls, Pieces
  <2>. DEFINE N == Len(c.calls)
  <2>. HIDE DEF call
  <2>5. /\ longer \in Seq(OpenCalls(ids)) /\ Len(longer) = N + 1 /\ N \in Nat
        /\ longer[N + 1] = call /\ \A k \in 1..N : longer[k] = c.calls[k]
        /\ DOMAIN longer = 1..(N + 1) /\ DOMAIN c.calls = 1..N
    BY <1>1, <2>4, AppendProperties
  <2>. HIDE DEF cleared, longer, N
  <2>6. [c EXCEPT !.calls = cleared] \in Collections(ids)
    BY <1>4, <2>2, <2>3
  <2>7. ASSUME ~\E k \in DOMAIN c.calls : c.calls[k].id = e.id
        PROVE  [c EXCEPT !.calls = longer] \in Collections(ids)
    <3>. DEFINE d == [c EXCEPT !.calls = longer]
    <3>1. d \in AllCollections(ids) /\ d.calls = longer
      BY <1>0, <2>5 DEF AllCollections
    <3>. HIDE DEF d
    <3>2. \A k, l \in 1..N : c.calls[k].id = c.calls[l].id => k = l
      BY <1>0, <2>5 DEF DifferentCalls
    <3>3. \A k \in 1..N : longer[k].id # longer[N + 1].id
      BY <2>4, <2>5, <2>7
    <3>4. \A k \in 1..(N + 1) : k \in 1..N \/ k = N + 1
      BY <2>5
    <3>5. ASSUME NEW k \in 1..(N + 1), NEW l \in 1..(N + 1), longer[k].id = longer[l].id
          PROVE  k = l
      BY <2>5, <3>2, <3>3, <3>4, <3>5
    <3>6. DifferentCalls(d)
      BY <2>5, <3>1, <3>5 DEF DifferentCalls
    <3>7. d \in Collections(ids)
      BY <3>1, <3>6 DEF Collections
    <3>8. QED
      BY <3>7 DEF d
  <2>8. QED
    BY <2>1, <2>6, <2>7
<1>9. CASE e.type = "model_tool_call_args_delta"
  <2>. DEFINE extended == [k \in DOMAIN c.calls |->
          IF c.calls[k].id = e.id THEN [c.calls[k] EXCEPT !.args = @ \o e.value] ELSE c.calls[k]]
  <2>1. Collect(c, e) = [c EXCEPT !.calls = extended]
    BY <1>9 DEF Collect
  <2>2. \A k \in DOMAIN c.calls : extended[k] \in OpenCalls(ids) /\ extended[k].id = c.calls[k].id
    BY <1>5
  <2>3. DOMAIN extended = DOMAIN c.calls /\ extended = [k \in DOMAIN c.calls |-> extended[k]]
    OBVIOUS
  <2>. HIDE DEF extended
  <2>4. QED
    BY <1>4, <2>1, <2>2, <2>3
<1>10. CASE e.type = "model_tool_call_end"
  <2>1. Append(c.ended, e.id) \in Pieces
    BY <1>1, <1>2, AppendProperties DEF Pieces
  <2>2. \A a \in Pieces : /\ [c EXCEPT !.ended = a] \in AllCollections(ids)
                           /\ [c EXCEPT !.ended = a].calls = c.calls
    BY <1>0 DEF AllCollections
  <2>3. QED
    BY <1>10, <1>12, <2>1, <2>2 DEF Collect
<1>11. QED
  BY <1>2, <1>6, <1>7, <1>8, <1>9, <1>10 DEF OutTypes

LEMMA CollectAllTyped ==
    ASSUME NEW ids \in SUBSET Strings, NEW c \in Collections(ids), NEW events \in Seq(Outs(ids))
    PROVE  CollectAll(c, events) \in Collections(ids)
<1>. DEFINE C == Collections(ids)
            N == Len(events)
            step == [n \in 1..N |-> [s \in C |-> Collect(s, events[n])]]
<1>1. N \in Nat
  OBVIOUS
<1>2. step \in [1..N -> [C -> C]]
  <2>1. ASSUME NEW n \in 1..N, NEW s \in C
        PROVE  Collect(s, events[n]) \in C
    <3>1. events[n] \in Outs(ids)
      OBVIOUS
    <3>2. QED
      BY <3>1, CollectTyped DEF C
  <2>2. QED
    BY <2>1
<1>13. c \in C
  OBVIOUS
<1>. HIDE DEF N, C
<1>3. PICK f \in [0..N -> C] : Iterates(f, step, c, N)
  <2>. HIDE DEF step
  <2>1. QED
    BY <1>1, <1>2, <1>13, BoundedRecursion
<1>4. ASSUME NEW n \in 1..N
      PROVE  f[n] = Collect(f[n - 1], events[n]) /\ n - 1 \in 0..N
  <2>1. n - 1 \in 0..N
    BY <1>1
  <2>2. f[n - 1] \in C
    BY <2>1
  <2>3. QED
    BY <1>3, <2>1, <2>2 DEF Iterates
<1>5. f = [n \in 0..N |-> IF n = 0 THEN c ELSE Collect(f[n - 1], events[n])]
  <2>1. \A n \in 0..N : f[n] = IF n = 0 THEN c ELSE Collect(f[n - 1], events[n])
    BY <1>1, <1>3, <1>4 DEF Iterates
  <2>2. QED
    BY <2>1
<1>. DEFINE after[n \in 0..N] == IF n = 0 THEN c ELSE Collect(after[n - 1], events[n])
<1>6. after = [n \in 0..N |-> IF n = 0 THEN c ELSE Collect(after[n - 1], events[n])]
  BY <1>5
<1>7. CollectAll(c, events) = after[N]
  BY DEF CollectAll, N
<1>. HIDE DEF after
<1>. DEFINE T == {n \in Nat : n <= N => after[n] \in C}
<1>8. 0 \in T
  <2>1. after[0] = c /\ c \in C
    BY <1>1, <1>6 DEF C
  <2>2. QED
    BY <2>1
<1>9. ASSUME NEW n \in Nat, n \in T PROVE n + 1 \in T
  <2>1. ASSUME n + 1 <= N PROVE after[n + 1] \in C
    <3>1. n + 1 \in 0..N /\ n + 1 # 0 /\ (n + 1) - 1 = n /\ n <= N /\ n + 1 \in 1..N
      BY <1>1, <2>1
    <3>2. after[n + 1] = Collect(after[n], events[n + 1])
      BY <1>6, <3>1
    <3>3. events[n + 1] \in Outs(ids)
      BY <3>1 DEF N
    <3>4. QED
      BY <1>9, <3>1, <3>2, <3>3, CollectTyped DEF C
  <2>2. QED
    BY <2>1
<1>. HIDE DEF T
<1>10. N \in T
  BY <1>1, <1>8, <1>9, NatInductionOnSets
<1>11. after[N] \in C
  BY <1>1, <1>10 DEF T
<1>12. QED
  BY <1>7, <1>11 DEF C
-----------------------------------------------------------------------------
(* The events a provider may send for an item.                             *)
EventTypes(item) ==
    CASE item.type = "text" -> {"delta"}
      [] item.type = "reasoning" -> IF provider = "openai" THEN {"item"} ELSE {}
      [] item.type = "call" ->
            CASE provider = "openai" -> {"added", "delta", "arguments", "item"}
              [] provider = "anthropic" -> {"start", "delta", "stop"}
              [] provider = "chat" -> {"first", "delta"}
EventsOf(types) == [type : types, value : Pieces]

LEMMA EventTyped ==
    ASSUME NEW types, NEW type \in types, NEW value \in Pieces
    PROVE  Event(type, value) \in EventsOf(types) /\ <<Event(type, value)>> \in Seq(EventsOf(types))
BY DEF Event, EventsOf

(* The first event of a call names it.                                     *)
Naming == {"added", "start", "first"}

LEMMA FirstOfTwo ==
    ASSUME NEW S, NEW a \in Seq(S), NEW b \in Seq(S), NEW c, c = a \o b, Len(a) > 0
    PROVE  c \in Seq(S) /\ Len(c) > 0 /\ c[1] = a[1]
<1>1. /\ c \in Seq(S) /\ Len(c) = Len(a) + Len(b) /\ Len(a) \in Nat /\ Len(b) \in Nat
      /\ \A k \in 1..Len(a) : c[k] = a[k]
  BY TwoTogether
<1>2. QED
  BY <1>1

LEMMA ScriptTyped ==
    ASSUME NEW item \in Items, provider \in Providers
    PROVE  /\ Script(item) \in Seq(EventsOf(EventTypes(item)))
           /\ item.type = "call" => Script(item)[1].type \in Naming
<1>. DEFINE E == EventsOf(EventTypes(item))
            D == EventsOf({"delta"})
<1>1. /\ item.args \in Pieces /\ item.type \in {"text", "reasoning", "call"}
      /\ provider \in {"openai", "anthropic", "chat"} /\ <<>> \in Pieces
  BY ProvidersAssumption DEF Items, Pieces
<1>2. ASSUME NEW i \in Items, i.args = item.args PROVE Deltas(i) \in Seq(D)
  <2>1. \A k \in DOMAIN item.args : <<item.args[k]>> \in Pieces
    BY <1>1 DEF Pieces
  <2>2. \A k \in DOMAIN item.args : Event("delta", <<item.args[k]>>) \in D
    BY <2>1, EventTyped
  <2>3. DOMAIN item.args = 1..Len(item.args) /\ Len(item.args) \in Nat
    BY <1>1 DEF Pieces
  <2>. HIDE DEF D
  <2>4. [k \in DOMAIN item.args |-> Event("delta", <<item.args[k]>>)] \in Seq(D)
    BY <2>2, <2>3
  <2>5. QED
    BY <1>2, <2>4 DEF Deltas
<1>3. ASSUME "delta" \in EventTypes(item) PROVE Seq(D) \subseteq Seq(E)
  <2>1. D \subseteq E
    BY <1>3 DEF EventsOf
  <2>. HIDE DEF D, E
  <2>2. QED
    BY <2>1
<1>4. CASE item.type = "text"
  <2>1. Script(item) = Deltas(item)
    BY <1>4 DEF Script
  <2>2. "delta" \in EventTypes(item)
    BY <1>4 DEF EventTypes
  <2>. HIDE DEF D, E
  <2>3. Script(item) \in Seq(E)
    BY <1>2, <1>3, <2>1, <2>2
  <2>4. QED
    BY <1>4, <2>3 DEF E
<1>5. CASE item.type = "reasoning"
  <2>1. Script(item) = IF provider = "openai" THEN <<Event("item", item.args)>> ELSE <<>>
    BY <1>5 DEF Script
  <2>2. provider = "openai" => "item" \in EventTypes(item)
    BY <1>5 DEF EventTypes
  <2>3. <<>> \in Seq(E)
    BY EmptySeq
  <2>. HIDE DEF D
  <2>4. QED
    BY <1>1, <1>5, <2>1, <2>2, <2>3, EventTyped
<1>6. CASE item.type = "call" /\ provider = "openai"
  <2>. DEFINE ds == Deltas(item)
              added == <<Event("added", <<>>)>>
              whole == <<Event("arguments", item.args), Event("item", item.args)>>
  <2>1. EventTypes(item) = {"added", "delta", "arguments", "item"}
    BY <1>6 DEF EventTypes
  <2>2. ds \in Seq(E)
    <3>1. Deltas(item) \in Seq(D)
      BY <1>2
    <3>. HIDE DEF D, E
    <3>2. QED
      BY <1>3, <2>1, <3>1
  <2>3. added \in Seq(E)
    BY <1>1, <2>1, EventTyped
  <2>4. whole \in Seq(E)
    <3>1. Event("arguments", item.args) \in E /\ Event("item", item.args) \in E
      BY <1>1, <2>1, EventTyped
    <3>. HIDE DEF E
    <3>2. QED
      BY <3>1
  <2>9. Len(added) = 1 /\ added[1].type \in Naming
    BY DEF Event, Naming
  <2>5. Script(item) = added \o ds \o whole
    BY <1>6 DEF Script
  <2>. DEFINE begin == added \o ds
              script == begin \o whole
  <2>10. script = begin \o whole /\ Script(item) = script
    BY <2>5
  <2>. HIDE DEF ds, added, whole, E, script
  <2>6. begin \in Seq(E) /\ Len(begin) > 0 /\ begin[1] = added[1]
    <3>1. begin = added \o ds
      OBVIOUS
    <3>. HIDE DEF begin
    <3>2. QED
      BY <2>2, <2>3, <2>9, <3>1, FirstOfTwo
  <2>. HIDE DEF begin
  <2>7. script \in Seq(E) /\ script[1] = begin[1]
    BY <2>4, <2>6, <2>10, FirstOfTwo
  <2>8. QED
    BY <2>6, <2>7, <2>9, <2>10 DEF E
<1>7. CASE item.type = "call" /\ provider = "anthropic"
  <2>. DEFINE i == [item EXCEPT !.deltas = TRUE]
              ds == Deltas(i)
              start == <<Event("start", <<>>)>>
              stop == <<Event("stop", <<>>)>>
  <2>1. EventTypes(item) = {"start", "delta", "stop"}
    BY <1>7 DEF EventTypes
  <2>2. ds \in Seq(E)
    <3>1. i \in Items /\ i.args = item.args
      BY DEF Items
    <3>. HIDE DEF D, E, i
    <3>2. QED
      BY <1>2, <1>3, <2>1, <3>1
  <2>3. start \in Seq(E) /\ stop \in Seq(E)
    BY <1>1, <2>1, EventTyped
  <2>4. Len(start) = 1 /\ start[1].type \in Naming
    BY DEF Event, Naming
  <2>5. Script(item) = start \o ds \o stop
    BY <1>7 DEF Script
  <2>. DEFINE begin == start \o ds
              script == begin \o stop
  <2>6. script = begin \o stop /\ Script(item) = script
    BY <2>5
  <2>. HIDE DEF ds, start, stop, E, script
  <2>7. begin \in Seq(E) /\ Len(begin) > 0 /\ begin[1] = start[1]
    <3>1. begin = start \o ds
      OBVIOUS
    <3>. HIDE DEF begin
    <3>2. QED
      BY <2>2, <2>3, <2>4, <3>1, FirstOfTwo
  <2>. HIDE DEF begin
  <2>8. script \in Seq(E) /\ script[1] = begin[1]
    BY <2>3, <2>6, <2>7, FirstOfTwo
  <2>9. QED
    BY <2>4, <2>6, <2>7, <2>8 DEF E
<1>8. CASE item.type = "call" /\ provider = "chat"
  <2>. DEFINE ds == Deltas(item)
              args == IF item.deltas THEN <<>> ELSE item.args
              first == <<Event("first", args)>>
  <2>1. EventTypes(item) = {"first", "delta"}
    BY <1>8 DEF EventTypes
  <2>2. ds \in Seq(E)
    <3>1. Deltas(item) \in Seq(D)
      BY <1>2
    <3>. HIDE DEF D, E
    <3>2. QED
      BY <1>3, <2>1, <3>1
  <2>3. first \in Seq(E)
    <3>1. args \in Pieces
      BY <1>1
    <3>. HIDE DEF args
    <3>2. QED
      BY <2>1, <3>1, EventTyped
  <2>4. Len(first) = 1 /\ first[1].type \in Naming
    BY DEF Event, Naming
  <2>. DEFINE script == first \o ds
  <2>5. script = first \o ds /\ Script(item) = script
    BY <1>8 DEF Script
  <2>. HIDE DEF ds, first, E, script
  <2>6. script \in Seq(E) /\ script[1] = first[1]
    BY <2>2, <2>3, <2>4, <2>5, FirstOfTwo
  <2>7. QED
    BY <2>4, <2>5, <2>6 DEF E
<1>9. QED
  BY <1>1, <1>4, <1>5, <1>6, <1>7, <1>8
-----------------------------------------------------------------------------
(* What the adapters do to the state of a call, and what they make of it.  *)
LEMMA NamesAreStrings == {"none", "item", "{}"} \subseteq Strings
BY DEF Strings

LEMMA NoStateTyped == NoState \in States
<1>1. "none" \in Strings /\ <<>> \in Seq(Strings)
  BY NamesAreStrings, EmptySeq
<1>2. QED
  BY <1>1 DEF NoState, States, Pieces

LEMMA StateSteps ==
    ASSUME NEW s \in States, NEW id \in Strings, NEW prefer \in BOOLEAN
    PROVE  /\ StateFor(s, id, prefer) \in States
           /\ Started(s) \in States /\ Ended(s) \in States
           /\ [s EXCEPT !.id = id] \in States
           /\ \A value \in Pieces : [s EXCEPT !.args = @ \o value] \in States
           /\ StateFor(s, id, TRUE).id = id /\ (Known(s) => StateFor(s, id, FALSE) = s)
           /\ Started(s).id = s.id /\ Ended(s).id = s.id /\ [s EXCEPT !.id = id].id = id
           /\ \A value \in Pieces : [s EXCEPT !.args = @ \o value].id = s.id
<1>1. s.id \in Strings /\ s.args \in Pieces /\ s.started \in BOOLEAN /\ s.ended \in BOOLEAN
  BY DEF States
<1>2. [s EXCEPT !.id = id] \in States
  BY DEF States
<1>3. Started(s) \in States /\ Ended(s) \in States
  BY <1>1 DEF States, Started, Ended
<1>4. StateFor(s, id, prefer) \in States
  BY <1>2 DEF StateFor
<1>5. ASSUME NEW value \in Pieces PROVE [s EXCEPT !.args = @ \o value] \in States
  <2>1. s.args \o value \in Pieces
    BY <1>1, ConcatProperties DEF Pieces
  <2>2. \A a \in Pieces : [s EXCEPT !.args = a] \in States
    BY DEF States
  <2>3. QED
    BY <2>1, <2>2
<1>6. [s EXCEPT !.id = id].id = id /\ \A value \in Pieces : [s EXCEPT !.args = @ \o value].id = s.id
  BY DEF States
<1>7. Started(s).id = s.id /\ Ended(s).id = s.id
  BY DEF States, Started, Ended
<1>8. StateFor(s, id, TRUE).id = id /\ (Known(s) => StateFor(s, id, FALSE) = s)
  BY <1>6 DEF StateFor
<1>9. QED
  BY <1>2, <1>3, <1>4, <1>5, <1>6, <1>7, <1>8

LEMMA OutTyped ==
    ASSUME NEW ids, NEW s \in States, NEW id \in Strings, NEW value \in Pieces
    PROVE  /\ <<TextOut(value)>> \in Seq(Outs(ids)) /\ <<ItemOut(value)>> \in Seq(Outs(ids))
           /\ id \in ids => <<StartOut(id)>> \in Seq(Outs(ids))
           /\ <<EndOut(id)>> \in Seq(Outs(ids)) /\ <<ArgsOut(id, value)>> \in Seq(Outs(ids))
           /\ (Known(s) => s.id \in ids) => StartOf(s) \in Seq(Outs(ids))
           /\ EndOf(s) \in Seq(Outs(ids)) /\ ArgsOf(s, value) \in Seq(Outs(ids))
           /\ WholeArguments(s, value) \in Pieces /\ <<>> \in Seq(Outs(ids))
<1>1. /\ s.id \in Strings /\ "none" \in Strings /\ <<>> \in Pieces
  <2>1. s.id \in Strings
    BY DEF States
  <2>2. "none" \in Strings
    BY NamesAreStrings
  <2>3. <<>> \in Pieces
    BY EmptySeq DEF Pieces
  <2>4. QED
    BY <2>1, <2>2, <2>3
<1>2. ASSUME NEW type \in OutTypes, NEW name \in Strings, NEW v \in Pieces,
             type = "model_tool_call_start" => name \in ids
      PROVE  Out(type, name, v) \in Outs(ids) /\ <<Out(type, name, v)>> \in Seq(Outs(ids))
  <2>1. Out(type, name, v) \in Outs(ids)
    BY <1>2 DEF Out, Outs
  <2>2. QED
    BY <2>1
<1>3. ASSUME NEW name \in Strings
      PROVE  /\ <<TextOut(value)>> \in Seq(Outs(ids)) /\ <<ItemOut(value)>> \in Seq(Outs(ids))
             /\ <<EndOut(name)>> \in Seq(Outs(ids)) /\ <<ArgsOut(name, value)>> \in Seq(Outs(ids))
             /\ name \in ids => <<StartOut(name)>> \in Seq(Outs(ids))
  BY <1>1, <1>2 DEF TextOut, ItemOut, StartOut, EndOut, ArgsOut, OutTypes
<1>4. <<>> \in Seq(Outs(ids))
  BY EmptySeq
<1>5. ASSUME Known(s) => s.id \in ids PROVE StartOf(s) \in Seq(Outs(ids))
  <2>1. Known(s) => <<StartOut(s.id)>> \in Seq(Outs(ids))
    BY <1>1, <1>3, <1>5
  <2>2. QED
    BY <1>4, <2>1, Zenon DEF StartOf
<1>6. EndOf(s) \in Seq(Outs(ids))
  <2>1. <<EndOut(s.id)>> \in Seq(Outs(ids))
    BY <1>1, <1>3
  <2>2. EndOf(s) \in {<<>>, <<EndOut(s.id)>>}
    BY Zenon DEF EndOf
  <2>3. QED
    BY <1>4, <2>1, <2>2
<1>7. ArgsOf(s, value) \in Seq(Outs(ids)) /\ WholeArguments(s, value) \in Pieces
  BY <1>1, <1>3, <1>4 DEF ArgsOf, WholeArguments
<1>8. QED
  BY <1>3, <1>4, <1>5, <1>6, <1>7

(* The result of an adapter for an event of an item.                       *)
Adaptations(ids, item) ==
    { a \in [state : States, out : Seq(Outs(ids))] : item.type = "call" => a.state.id = item.id }

LEMMA AdaptedPair ==
    ASSUME NEW ids, NEW item, NEW s \in States, NEW out \in Seq(Outs(ids)),
           item.type = "call" => s.id = item.id
    PROVE  [state |-> s, out |-> out] \in Adaptations(ids, item)
BY DEF Adaptations

LEMMA ThreeOuts ==
    ASSUME NEW ids, NEW a \in Seq(Outs(ids)), NEW b \in Seq(Outs(ids)), NEW c \in Seq(Outs(ids))
    PROVE  a \o b \in Seq(Outs(ids)) /\ a \o b \o c \in Seq(Outs(ids))
<1>1. a \o b \in Seq(Outs(ids))
  BY ConcatProperties
<1>2. QED
  BY <1>1, ConcatProperties

(* An item whose call is among these, and an event of it that the adapter  *)
(* can name.                                                               *)
MayAdapt(ids, i, event) ==
    /\ answer[i] \in Items /\ states[i] \in States
    /\ event \in EventsOf(EventTypes(answer[i]))
    /\ answer[i].type = "call" =>
          /\ answer[i].id \in ids /\ answer[i].id # "none"
          /\ event.type \in Naming \/ states[i].id = answer[i].id

LEMMA MayAdaptTyped ==
    ASSUME NEW ids, NEW i, NEW event, MayAdapt(ids, i, event)
    PROVE  /\ answer[i].type \in {"text", "reasoning", "call"} /\ answer[i].id \in Strings
           /\ event.type \in EventTypes(answer[i]) /\ event.value \in Pieces
           /\ states[i] \in States /\ states[i].id \in Strings
<1>1. answer[i] \in Items /\ states[i] \in States /\ event \in EventsOf(EventTypes(answer[i]))
  BY DEF MayAdapt
<1>2. answer[i].type \in {"text", "reasoning", "call"} /\ answer[i].id \in Strings
  BY <1>1 DEF Items
<1>3. states[i].id \in Strings
  BY <1>1 DEF States
<1>4. event.type \in EventTypes(answer[i]) /\ event.value \in Pieces
  BY <1>1 DEF EventsOf
<1>5. QED
  BY <1>1, <1>2, <1>3, <1>4

LEMMA OpenAITyped ==
    ASSUME provider = "openai", NEW ids, NEW i, NEW event, MayAdapt(ids, i, event)
    PROVE  OpenAI(i, event) \in Adaptations(ids, answer[i])
<1>. DEFINE item == answer[i]
            old == states[i]
            added == StateFor(old, item.id, TRUE)
            piece == StateFor(old, "item", FALSE)
            whole == WholeArguments(old, event.value)
            Named(s) == s.id = item.id /\ item.id \in ids
<1>1. /\ item.type \in {"text", "reasoning", "call"} /\ item.id \in Strings
      /\ event.type \in EventTypes(item) /\ event.value \in Pieces /\ old \in States
  BY MayAdaptTyped
<1>2. /\ added \in States /\ piece \in States /\ whole \in Pieces
      /\ Started(added) \in States /\ Started(piece) \in States
      /\ added.id = item.id /\ (Known(old) => piece = old)
  <2>1. added \in States /\ piece \in States /\ added.id = item.id /\ (Known(old) => piece = old)
    <3>1. "item" \in Strings /\ TRUE \in BOOLEAN /\ FALSE \in BOOLEAN
      BY NamesAreStrings
    <3>. HIDE DEF old, item
    <3>2. QED
      BY <1>1, <3>1, StateSteps, Zenon
  <2>. HIDE DEF added, piece
  <2>2. QED
    BY <1>1, <2>1, StateSteps, OutTyped
<1>3. CASE item.type = "text"
  <2>1. OpenAI(i, event) = [state |-> old, out |-> <<TextOut(event.value)>>]
    BY <1>3 DEF OpenAI
  <2>. HIDE DEF old, item
  <2>2. <<TextOut(event.value)>> \in Seq(Outs(ids))
    BY <1>1, OutTyped
  <2>3. OpenAI(i, event) \in Adaptations(ids, item)
    BY <1>1, <1>3, <2>1, <2>2, AdaptedPair
  <2>4. QED
    BY <2>3 DEF item
<1>4. CASE item.type = "reasoning"
  <2>1. OpenAI(i, event) = [state |-> old, out |-> <<ItemOut(event.value)>>]
    BY <1>4 DEF OpenAI
  <2>. HIDE DEF old, item
  <2>2. <<ItemOut(event.value)>> \in Seq(Outs(ids))
    BY <1>1, OutTyped
  <2>3. OpenAI(i, event) \in Adaptations(ids, item)
    BY <1>1, <1>4, <2>1, <2>2, AdaptedPair
  <2>4. QED
    BY <2>3 DEF item
<1>11. ASSUME item.type = "call"
       PROVE  Named(added) /\ (event.type # "added" => Named(piece))
  <2>1. item.id \in ids /\ item.id # "none" /\ (event.type \in Naming \/ old.id = item.id)
    BY <1>11 DEF MayAdapt
  <2>2. event.type # "added" => event.type \notin Naming
    BY <1>1, <1>11 DEF EventTypes, Naming
  <2>3. event.type # "added" => piece = old /\ old.id = item.id
    BY <1>2, <2>1, <2>2 DEF Known
  <2>4. QED
    BY <1>2, <2>1, <2>3
<1>5. CASE item.type = "call" /\ event.type = "added"
  <2>1. OpenAI(i, event) = [state |-> Started(added), out |-> StartOf(added)]
    BY <1>5 DEF OpenAI
  <2>2. Named(added)
    BY <1>5, <1>11
  <2>. HIDE DEF added, item
  <2>3. StartOf(added) \in Seq(Outs(ids)) /\ Started(added).id = item.id
    BY <1>1, <1>2, <2>2, OutTyped, StateSteps
  <2>4. OpenAI(i, event) \in Adaptations(ids, item)
    BY <1>2, <2>1, <2>3, AdaptedPair
  <2>5. QED
    BY <2>4 DEF item
<1>6. CASE item.type = "call" /\ event.type = "delta"
  <2>. DEFINE later == [Started(piece) EXCEPT !.args = @ \o event.value]
  <2>1. OpenAI(i, event) = [state |-> later, out |-> StartOf(piece) \o ArgsOf(piece, event.value)]
    BY <1>6 DEF OpenAI
  <2>2. Named(piece)
    BY <1>6, <1>11
  <2>. HIDE DEF piece, item
  <2>3. later \in States /\ later.id = Started(piece).id /\ Started(piece).id = piece.id
    BY <1>1, <1>2, StateSteps
  <2>4. StartOf(piece) \in Seq(Outs(ids)) /\ ArgsOf(piece, event.value) \in Seq(Outs(ids))
    BY <1>1, <1>2, <2>2, OutTyped
  <2>5. StartOf(piece) \o ArgsOf(piece, event.value) \in Seq(Outs(ids))
    BY <2>4, ThreeOuts
  <2>. HIDE DEF later
  <2>6. OpenAI(i, event) \in Adaptations(ids, item)
    BY <2>1, <2>2, <2>3, <2>5, AdaptedPair
  <2>7. QED
    BY <2>6 DEF item
<1>7. ASSUME NEW s \in {added, piece}, Named(s)
      PROVE  [state |-> Ended([Started(s) EXCEPT !.args = @ \o whole]),
              out |-> StartOf(s) \o ArgsOf(s, whole) \o EndOf(Started(s))] \in Adaptations(ids, item)
  <2>. HIDE DEF added, piece, whole, item
  <2>. DEFINE later == [Started(s) EXCEPT !.args = @ \o whole]
  <2>1. s \in States /\ Started(s) \in States /\ Started(s).id = s.id
    BY <1>1, <1>2, StateSteps
  <2>2. later \in States /\ later.id = s.id
    BY <1>1, <1>2, <2>1, StateSteps
  <2>. HIDE DEF later
  <2>3. Ended(later) \in States /\ Ended(later).id = item.id
    BY <1>1, <1>7, <2>2, StateSteps
  <2>4. /\ StartOf(s) \in Seq(Outs(ids)) /\ ArgsOf(s, whole) \in Seq(Outs(ids))
        /\ EndOf(Started(s)) \in Seq(Outs(ids))
    BY <1>1, <1>2, <1>7, <2>1, OutTyped
  <2>5. StartOf(s) \o ArgsOf(s, whole) \o EndOf(Started(s)) \in Seq(Outs(ids))
    BY <2>4, ThreeOuts
  <2>6. [state |-> Ended(later), out |-> StartOf(s) \o ArgsOf(s, whole) \o EndOf(Started(s))]
            \in Adaptations(ids, item)
    BY <2>3, <2>5, AdaptedPair
  <2>7. QED
    BY <2>6 DEF later
<1>8. CASE item.type = "call" /\ event.type = "arguments"
  <2>1. OpenAI(i, event) = [state |-> Ended([Started(piece) EXCEPT !.args = @ \o whole]),
             out |-> StartOf(piece) \o ArgsOf(piece, whole) \o EndOf(Started(piece))]
    BY <1>8 DEF OpenAI
  <2>2. Named(piece)
    BY <1>8, <1>11
  <2>. HIDE DEF piece, whole
  <2>3. OpenAI(i, event) \in Adaptations(ids, item)
    BY <1>7, <2>1, <2>2
  <2>4. QED
    BY <2>3
<1>9. CASE item.type = "call" /\ event.type = "item"
  <2>1. OpenAI(i, event) = [state |-> Ended([Started(added) EXCEPT !.args = @ \o whole]),
             out |-> StartOf(added) \o ArgsOf(added, whole) \o EndOf(Started(added))]
    BY <1>9 DEF OpenAI
  <2>2. Named(added)
    BY <1>9, <1>11
  <2>. HIDE DEF added, whole
  <2>3. OpenAI(i, event) \in Adaptations(ids, item)
    BY <1>7, <2>1, <2>2
  <2>4. QED
    BY <2>3
<1>10. QED
  <2>1. item.type = "call" => event.type \in {"added", "delta", "arguments", "item"}
    BY <1>1 DEF EventTypes
  <2>2. QED
    BY <1>1, <1>3, <1>4, <1>5, <1>6, <1>8, <1>9, <2>1

LEMMA AnthropicTyped ==
    ASSUME provider = "anthropic", NEW ids, NEW i, NEW event, MayAdapt(ids, i, event)
    PROVE  AnthropicEvent(i, event) \in Adaptations(ids, answer[i])
<1>. DEFINE item == answer[i]
            old == states[i]
<1>1. /\ item.type \in {"text", "reasoning", "call"} /\ item.id \in Strings
      /\ event.type \in EventTypes(item) /\ event.value \in Pieces
      /\ old \in States /\ old.id \in Strings
  BY MayAdaptTyped
<1>8. item.type = "call" => item.id \in ids /\ (event.type = "start" \/ old.id = item.id)
  <2>1. item.type = "call" => item.id \in ids /\ (event.type \in Naming \/ old.id = item.id)
    BY DEF MayAdapt
  <2>2. item.type = "call" /\ event.type \in Naming => event.type = "start"
    BY <1>1 DEF EventTypes, Naming
  <2>3. QED
    BY <2>1, <2>2
<1>2. CASE item.type = "text"
  <2>1. AnthropicEvent(i, event) = [state |-> old, out |-> <<TextOut(event.value)>>]
    BY <1>2 DEF AnthropicEvent
  <2>. HIDE DEF old, item
  <2>2. <<TextOut(event.value)>> \in Seq(Outs(ids))
    BY <1>1, OutTyped
  <2>3. AnthropicEvent(i, event) \in Adaptations(ids, item)
    BY <1>1, <1>2, <2>1, <2>2, AdaptedPair
  <2>4. QED
    BY <2>3 DEF item
<1>3. CASE item.type = "reasoning"
  BY <1>1, <1>3 DEF EventTypes
<1>4. CASE item.type = "call" /\ event.type = "start"
  <2>1. AnthropicEvent(i, event) =
            [state |-> [old EXCEPT !.id = item.id], out |-> <<StartOut(item.id)>>]
    BY <1>4 DEF AnthropicEvent
  <2>. HIDE DEF old, item
  <2>2. /\ [old EXCEPT !.id = item.id] \in States /\ [old EXCEPT !.id = item.id].id = item.id
        /\ <<StartOut(item.id)>> \in Seq(Outs(ids))
    BY <1>1, <1>4, <1>8, StateSteps, OutTyped
  <2>3. AnthropicEvent(i, event) \in Adaptations(ids, item)
    BY <2>1, <2>2, AdaptedPair
  <2>4. QED
    BY <2>3 DEF item
<1>5. CASE item.type = "call" /\ event.type = "delta"
  <2>1. AnthropicEvent(i, event) = [state |-> old, out |-> <<ArgsOut(old.id, event.value)>>]
    BY <1>5 DEF AnthropicEvent
  <2>. HIDE DEF old, item
  <2>2. <<ArgsOut(old.id, event.value)>> \in Seq(Outs(ids))
    BY <1>1, OutTyped
  <2>3. AnthropicEvent(i, event) \in Adaptations(ids, item)
    BY <1>1, <1>5, <1>8, <2>1, <2>2, AdaptedPair
  <2>4. QED
    BY <2>3 DEF item
<1>6. CASE item.type = "call" /\ event.type = "stop"
  <2>1. AnthropicEvent(i, event) = [state |-> old, out |-> <<EndOut(old.id)>>]
    BY <1>6 DEF AnthropicEvent
  <2>. HIDE DEF old, item
  <2>2. <<EndOut(old.id)>> \in Seq(Outs(ids))
    BY <1>1, OutTyped
  <2>3. AnthropicEvent(i, event) \in Adaptations(ids, item)
    BY <1>1, <1>6, <1>8, <2>1, <2>2, AdaptedPair
  <2>4. QED
    BY <2>3 DEF item
<1>7. QED
  <2>1. item.type = "call" => event.type \in {"start", "delta", "stop"}
    BY <1>1 DEF EventTypes
  <2>2. QED
    BY <1>1, <1>2, <1>3, <1>4, <1>5, <1>6, <2>1

LEMMA ChatTyped ==
    ASSUME provider = "chat", NEW ids, NEW i, NEW event, MayAdapt(ids, i, event)
    PROVE  ChatChunk(i, event) \in Adaptations(ids, answer[i])
<1>. DEFINE item == answer[i]
            old == states[i]
            named == IF event.type = "first" THEN [old EXCEPT !.id = item.id] ELSE old
<1>1. /\ item.type \in {"text", "reasoning", "call"} /\ item.id \in Strings
      /\ event.type \in EventTypes(item) /\ event.value \in Pieces /\ old \in States
  BY MayAdaptTyped
<1>2. CASE item.type = "text"
  <2>1. ChatChunk(i, event) = [state |-> old, out |-> <<TextOut(event.value)>>]
    BY <1>2 DEF ChatChunk
  <2>. HIDE DEF old, item
  <2>2. <<TextOut(event.value)>> \in Seq(Outs(ids))
    BY <1>1, OutTyped
  <2>3. ChatChunk(i, event) \in Adaptations(ids, item)
    BY <1>1, <1>2, <2>1, <2>2, AdaptedPair
  <2>4. QED
    BY <2>3 DEF item
<1>3. CASE item.type = "reasoning"
  BY <1>1, <1>3 DEF EventTypes
<1>4. CASE item.type = "call"
  <2>. DEFINE later == [Started(named) EXCEPT !.args = @ \o event.value]
  <2>1. ChatChunk(i, event) = [state |-> later, out |-> StartOf(named) \o ArgsOf(named, event.value)]
    BY <1>4 DEF ChatChunk
  <2>2. item.id \in ids /\ (event.type = "first" \/ old.id = item.id)
    <3>1. item.id \in ids /\ (event.type \in Naming \/ old.id = item.id)
      BY <1>4 DEF MayAdapt
    <3>2. event.type \in Naming => event.type = "first"
      BY <1>1, <1>4 DEF EventTypes, Naming
    <3>3. QED
      BY <3>1, <3>2
  <2>3. named \in States /\ named.id = item.id
    <3>. HIDE DEF old, item
    <3>1. [old EXCEPT !.id = item.id] \in States /\ [old EXCEPT !.id = item.id].id = item.id
      BY <1>1, StateSteps
    <3>2. QED
      BY <1>1, <2>2, <3>1
  <2>. HIDE DEF named, item
  <2>4. Started(named) \in States /\ Started(named).id = item.id
    BY <1>1, <2>3, StateSteps
  <2>5. later \in States /\ later.id = item.id
    BY <1>1, <2>4, StateSteps
  <2>6. StartOf(named) \in Seq(Outs(ids)) /\ ArgsOf(named, event.value) \in Seq(Outs(ids))
    BY <1>1, <2>2, <2>3, OutTyped
  <2>7. StartOf(named) \o ArgsOf(named, event.value) \in Seq(Outs(ids))
    BY <2>6, ThreeOuts
  <2>. HIDE DEF later
  <2>8. ChatChunk(i, event) \in Adaptations(ids, item)
    BY <2>1, <2>5, <2>7, AdaptedPair
  <2>9. QED
    BY <2>8 DEF item
<1>5. QED
  BY <1>1, <1>2, <1>3, <1>4

-----------------------------------------------------------------------------
(* The events made of a whole answer, and of the calls left open.          *)
Provided == provider \in Providers /\ answer \in Seq(Items)
                /\ states \in [DOMAIN answer -> States]

LEMMA FlattenedOuts ==
    ASSUME NEW ids, NEW s \in Seq(Items), NEW outs, DOMAIN outs = DOMAIN s,
           outs = [i \in DOMAIN s |-> outs[i]],
           \A i \in DOMAIN s : outs[i] \in Seq(Outs(ids))
    PROVE  FlattenSeq(outs) \in Seq(Outs(ids))
<1>1. DOMAIN s = 1..Len(s) /\ Len(s) \in Nat
  OBVIOUS
<1>. DEFINE Q == Seq(Outs(ids))
<1>. HIDE DEF Q
<1>2. \A i \in DOMAIN s : outs[i] \in Q
  BY DEF Q
<1>3. outs \in Seq(Q)
  BY <1>1, <1>2
<1>4. QED
  BY <1>3, FlattenedSeq DEF Q

LEMMA UnendedTyped ==
    ASSUME Provided, NEW ids
    PROVE  Unended \in Seq(Outs(ids))
<1>. DEFINE outs == [i \in DOMAIN answer |->
                        IF provider = "anthropic" THEN <<>> ELSE EndOf(states[i])]
<1>1. ASSUME NEW i \in DOMAIN answer PROVE outs[i] \in Seq(Outs(ids))
  <2>1. states[i] \in States
    BY DEF Provided
  <2>2. "none" \in Strings /\ <<>> \in Pieces
    BY NamesAreStrings, EmptySeq DEF Pieces
  <2>3. EndOf(states[i]) \in Seq(Outs(ids)) /\ <<>> \in Seq(Outs(ids))
    BY <2>1, <2>2, OutTyped
  <2>4. QED
    BY <2>3
<1>2. DOMAIN outs = DOMAIN answer /\ outs = [i \in DOMAIN answer |-> outs[i]]
  OBVIOUS
<1>3. Unended = FlattenSeq(outs)
  BY DEF Unended
<1>. HIDE DEF outs
<1>4. QED
  BY <1>1, <1>2, <1>3, FlattenedOuts DEF Provided

LEMMA ItemTyped ==
    ASSUME NEW item \in Items
    PROVE  /\ item.args \in Pieces /\ item.id \in Strings
           /\ item.type \in {"text", "reasoning", "call"}
BY DEF Items, Pieces

LEMMA WholeTyped ==
    ASSUME NEW ids, NEW item \in Items, NEW args \in Pieces
    PROVE  /\ WholeText(item) \in Seq(Outs(ids)) /\ <<ItemOut(item.args)>> \in Seq(Outs(ids))
           /\ item.id \in ids => WholeCall(item, args) \in Seq(Outs(ids))
<1>1. item.id \in Strings /\ item.args \in Pieces
  BY DEF Items, Pieces
<1>2. /\ <<TextOut(item.args)>> \in Seq(Outs(ids)) /\ <<>> \in Seq(Outs(ids))
      /\ item.id \in ids => <<StartOut(item.id)>> \in Seq(Outs(ids))
      /\ <<EndOut(item.id)>> \in Seq(Outs(ids))
      /\ <<ArgsOut(item.id, args)>> \in Seq(Outs(ids)) /\ <<ItemOut(item.args)>> \in Seq(Outs(ids))
  BY <1>1, NoStateTyped, OutTyped
<1>3. WholeText(item) \in Seq(Outs(ids))
  BY <1>2 DEF WholeText
<1>. DEFINE middle == IF args = <<>> THEN <<>> ELSE <<ArgsOut(item.id, args)>>
<1>4. middle \in Seq(Outs(ids))
  BY <1>2
<1>5. WholeCall(item, args) = <<StartOut(item.id)>> \o middle \o <<EndOut(item.id)>>
  BY DEF WholeCall
<1>. HIDE DEF middle
<1>6. QED
  BY <1>2, <1>3, <1>4, <1>5, ThreeOuts

LEMMA OfTypeTyped ==
    ASSUME Provided, NEW type
    PROVE  /\ OfType(type) \in Seq(Items)
           /\ \A k \in DOMAIN OfType(type) :
                 \E i \in DOMAIN answer : OfType(type)[k] = answer[i] /\ answer[i].type = type
<1>. DEFINE S == {item \in ToSet(answer) : item.type = type}
            kept == Kept(answer, S)
<1>1. OfType(type) = kept /\ answer \in Seq(Items)
  BY DEF OfType, Provided
<1>2. \A x \in S : x.type = type
  OBVIOUS
<1>. HIDE DEF S
<1>3. /\ kept \in Seq(Items)
      /\ \E f \in [1..Len(kept) -> 1..Len(answer)] :
            \A k \in 1..Len(kept) : kept[k] = answer[f[k]] /\ answer[f[k]] \in S
  BY <1>1, KeptProperties
<1>. HIDE DEF kept
<1>4. DOMAIN kept = 1..Len(kept) /\ DOMAIN answer = 1..Len(answer)
  BY <1>1, <1>3
<1>5. PICK f \in [1..Len(kept) -> 1..Len(answer)] :
            \A k \in 1..Len(kept) : kept[k] = answer[f[k]] /\ answer[f[k]] \in S
  BY <1>3
<1>6. ASSUME NEW k \in DOMAIN kept
      PROVE  \E i \in DOMAIN answer : kept[k] = answer[i] /\ answer[i].type = type
  <2>1. f[k] \in DOMAIN answer /\ kept[k] = answer[f[k]] /\ answer[f[k]].type = type
    BY <1>2, <1>4, <1>5
  <2>2. QED
    BY <2>1
<1>7. QED
  BY <1>1, <1>3, <1>6

LEMMA ResponseTyped ==
    ASSUME Provided, NEW ids, Called(answer) \subseteq ids
    PROVE  Response \in Seq(Outs(ids))
<1>5. \A i \in DOMAIN answer : answer[i].type = "call" => answer[i].id \in ids
  BY DEF Called
<1>1. ASSUME NEW item \in Items, item.type = "call" => item.id \in ids
      PROVE  ResponseItem(item) \in Seq(Outs(ids)) /\ AnthropicBlock(item) \in Seq(Outs(ids))
  <2>1. item.args \in Pieces /\ <<"{}">> \in Pieces /\ item.type \in {"text", "reasoning", "call"}
    <3>1. "{}" \in Strings
      BY NamesAreStrings
    <3>2. <<"{}">> \in Pieces
      <4>1. \A x \in Strings : <<x>> \in Pieces
        BY DEF Pieces
      <4>2. QED
        BY <3>1, <4>1, Zenon
    <3>3. QED
      BY <3>2, ItemTyped
  <2>2. /\ WholeText(item) \in Seq(Outs(ids)) /\ <<ItemOut(item.args)>> \in Seq(Outs(ids))
        /\ <<>> \in Seq(Outs(ids))
        /\ item.type = "call" => /\ WholeCall(item, item.args) \in Seq(Outs(ids))
                                 /\ WholeCall(item, <<"{}">>) \in Seq(Outs(ids))
    BY <1>1, <2>1, EmptySeq, WholeTyped
  <2>3. QED
    BY <2>1, <2>2 DEF ResponseItem, AnthropicBlock
<1>2. CASE provider # "chat"
  <2>. DEFINE outs == [i \in DOMAIN answer |-> IF provider = "openai" THEN ResponseItem(answer[i])
                                                ELSE AnthropicBlock(answer[i])]
  <2>1. ASSUME NEW i \in DOMAIN answer PROVE outs[i] \in Seq(Outs(ids))
    <3>1. answer[i] \in Items
      BY DEF Provided
    <3>2. QED
      BY <1>1, <1>5, <3>1
  <2>2. DOMAIN outs = DOMAIN answer /\ outs = [i \in DOMAIN answer |-> outs[i]]
    OBVIOUS
  <2>3. Response = FlattenSeq(outs)
    BY <1>2 DEF Response
  <2>. HIDE DEF outs
  <2>4. QED
    BY <2>1, <2>2, <2>3, FlattenedOuts DEF Provided
<1>3. CASE provider = "chat"
  <2>. DEFINE texts == OfType("text")
              calls == OfType("call")
              pieces == [i \in DOMAIN texts |-> texts[i].args]
              whole == [i \in DOMAIN calls |-> WholeCall(calls[i], calls[i].args)]
              first == WholeText(Text(FlattenSeq(pieces)))
              second == FlattenSeq(whole)
  <2>1. texts \in Seq(Items) /\ calls \in Seq(Items)
    BY OfTypeTyped
  <2>7. \A k \in DOMAIN calls : \E i \in DOMAIN answer : calls[k] = answer[i] /\ answer[i].type = "call"
    BY OfTypeTyped
  <2>2. Response = first \o second
    BY <1>3 DEF Response, ChatMessage
  <2>. HIDE DEF texts, calls
  <2>3. FlattenSeq(pieces) \in Pieces
    <3>1. ASSUME NEW i \in DOMAIN texts PROVE pieces[i] \in Pieces
      <4>1. texts[i] \in Items
        BY <2>1
      <4>2. QED
        BY <4>1, ItemTyped
    <3>2. pieces = [i \in DOMAIN texts |-> pieces[i]] /\ DOMAIN texts = 1..Len(texts) /\ Len(texts) \in Nat
      BY <2>1
    <3>. HIDE DEF pieces
    <3>3. pieces \in Seq(Pieces)
      BY <3>1, <3>2
    <3>4. QED
      BY <3>3, FlattenedSeq DEF Pieces
  <2>4. first \in Seq(Outs(ids))
    <3>. DEFINE said == FlattenSeq(pieces)
    <3>. HIDE DEF pieces
    <3>1. Text(said) \in Items
      BY <2>3, NamesAreStrings DEF Text, Items, Pieces
    <3>2. QED
      BY <2>3, <3>1, WholeTyped
  <2>5. second \in Seq(Outs(ids))
    <3>1. ASSUME NEW i \in DOMAIN calls PROVE whole[i] \in Seq(Outs(ids))
      <4>1. calls[i] \in Items
        BY <2>1
      <4>2. calls[i].args \in Pieces
        BY <4>1, ItemTyped
      <4>3. calls[i].id \in ids
        BY <1>5, <2>7
      <4>4. WholeCall(calls[i], calls[i].args) \in Seq(Outs(ids))
        BY <4>1, <4>2, <4>3, WholeTyped
      <4>5. QED
        BY <4>4
    <3>2. DOMAIN whole = DOMAIN calls /\ whole = [i \in DOMAIN calls |-> whole[i]]
      OBVIOUS
    <3>. HIDE DEF whole
    <3>3. QED
      BY <2>1, <3>1, <3>2, FlattenedOuts
  <2>. HIDE DEF first, second
  <2>6. QED
    BY <2>2, <2>4, <2>5, ThreeOuts
<1>4. QED
  BY <1>2, <1>3

-----------------------------------------------------------------------------
(* The locals of an attempt: only calls of the answer have been begun, and *)
(* a call is known by its own id once its first event has come.            *)
CallsNamed ==
    \A i \in DOMAIN answer :
        answer[i].type = "call" /\ sent[i] > 0 /\ ~over => states[i].id = answer[i].id

Attempt ==
    /\ answer \in Seq(Items) /\ states \in [DOMAIN answer -> States]
    /\ sent \in [DOMAIN answer -> Nat] /\ over \in BOOLEAN
    /\ "none" \notin Called(answer)
    /\ collected \in Collections(Called(answer))
    /\ CallsNamed

LEMMA CalledTyped ==
    ASSUME NEW items \in Seq(Items)
    PROVE  Called(items) \in SUBSET Strings
<1>1. \A i \in DOMAIN items : items[i].id \in Strings
  BY ItemTyped
<1>2. QED
  BY <1>1 DEF Called

LEMMA CallTyped ==
    ASSUME NEW name, NEW items \in Seq(Items), Call(name, items), "none" \notin Called(items)
    PROVE  Attempt'
<1>. DEFINE ids == Called(items)
<1>1. <<>> \in Pieces /\ <<>> \in Seq(OpenCalls(ids)) /\ DOMAIN <<>> = {}
  BY EmptySeq DEF Pieces
<1>2. NothingCollected \in Collections(ids)
  <2>1. NothingCollected \in AllCollections(ids)
    BY <1>1 DEF NothingCollected, AllCollections
  <2>2. DifferentCalls(NothingCollected)
    BY <1>1 DEF NothingCollected, DifferentCalls
  <2>3. QED
    BY <2>1, <2>2 DEF Collections
<1>3. states' \in [DOMAIN answer' -> States]
  BY NoStateTyped DEF Call
<1>4. CallsNamed'
  BY DEF Call, CallsNamed
<1>5. answer' = items /\ collected' \in Collections(ids)
  BY <1>2 DEF Call
<1>6. Called(answer)' = ids
  BY <1>5 DEF Called
<1>7. Collections(Called(answer))' = Collections(ids)
  BY <1>6 DEF Collections, AllCollections, OpenCalls, DifferentCalls, Pieces, Strings
<1>8. QED
  BY <1>3, <1>4, <1>5, <1>6, <1>7 DEF Call, Attempt

LEMMA StreamEventTyped ==
    ASSUME Attempt, provider \in Providers, NEW i \in DOMAIN answer, StreamEvent(i)
    PROVE  Attempt'
<1>. DEFINE item == answer[i]
            event == Script(item)[sent[i] + 1]
            ids == Called(answer)
<1>1. item \in Items /\ states[i] \in States /\ sent[i] \in Nat /\ sent[i] < Len(Script(item))
  <2>1. sent[i] < Len(Script(item))
    BY DEF StreamEvent, MaySend
  <2>2. answer[i] \in Items
    BY DEF Attempt
  <2>3. states[i] \in States /\ sent[i] \in Nat
    BY DEF Attempt
  <2>4. QED
    BY <2>1, <2>2, <2>3
<1>2. /\ event \in EventsOf(EventTypes(item))
      /\ item.type = "call" /\ sent[i] = 0 => event.type \in Naming
  <2>1. /\ Script(item) \in Seq(EventsOf(EventTypes(item)))
        /\ item.type = "call" => Script(item)[1].type \in Naming
    BY <1>1, ScriptTyped
  <2>. DEFINE script == Script(item)
              S == EventsOf(EventTypes(item))
  <2>. HIDE DEF script, S, item
  <2>2. script \in Seq(S) /\ sent[i] \in Nat /\ sent[i] < Len(script)
    BY <1>1, <2>1 DEF script, S
  <2>3. script[sent[i] + 1] \in S
    BY <2>2
  <2>4. item.type = "call" /\ sent[i] = 0 => script[sent[i] + 1].type \in Naming
    BY <2>1 DEF script
  <2>5. QED
    BY <2>3, <2>4 DEF script, S
<1>3. item.type = "call" => /\ item.id \in ids /\ item.id # "none"
                            /\ sent[i] > 0 => states[i].id = item.id
  <2>1. item.type = "call" => item.id \in ids
    BY DEF Called
  <2>2. "none" \notin ids /\ ~over
    BY DEF Attempt, StreamEvent
  <2>3. item.type = "call" /\ sent[i] > 0 => states[i].id = item.id
    BY <2>2 DEF Attempt, CallsNamed
  <2>4. QED
    BY <2>1, <2>2, <2>3
<1>4. MayAdapt(ids, i, event)
  <2>1. item.type = "call" => event.type \in Naming \/ states[i].id = item.id
    BY <1>1, <1>2, <1>3
  <2>. HIDE DEF event, ids
  <2>2. QED
    BY <1>1, <1>2, <1>3, <2>1 DEF MayAdapt
<1>5. Adapted(i) \in Adaptations(ids, item)
  <2>. HIDE DEF event
  <2>1. Adapted(i) = Adapt(i, event)
    BY DEF Adapted, event
  <2>2. provider \in {"openai", "anthropic", "chat"}
    BY ProvidersAssumption
  <2>. HIDE DEF ids
  <2>3. QED
    BY <1>4, <2>1, <2>2, OpenAITyped, AnthropicTyped, ChatTyped DEF Adapt
<1>6. /\ Adapted(i).state \in States /\ NextOut(i) \in Seq(Outs(ids))
      /\ item.type = "call" => Adapted(i).state.id = item.id
  BY <1>5 DEF NextOut, Adaptations
<1>7. /\ answer' = answer /\ sent' \in [DOMAIN answer -> Nat] /\ over' = over
      /\ states' \in [DOMAIN answer -> States]
  BY <1>1, <1>6 DEF StreamEvent, Attempt
<1>8. collected' \in Collections(ids)
  <2>1. answer \in Seq(Items) /\ collected \in Collections(ids)
    BY DEF Attempt
  <2>2. ids \in SUBSET Strings
    BY <2>1, CalledTyped
  <2>3. collected' = CollectAll(collected, NextOut(i))
    BY DEF StreamEvent
  <2>. HIDE DEF ids
  <2>4. QED
    BY <1>6, <2>1, <2>2, <2>3, CollectAllTyped
<1>9. CallsNamed'
  <2>1. ASSUME NEW j \in DOMAIN answer, answer[j].type = "call", sent'[j] > 0
        PROVE  states'[j].id = answer[j].id
    <3>1. CASE j = i
      <4>1. states'[i] = Adapted(i).state
        BY DEF StreamEvent, Attempt
      <4>2. QED
        BY <1>6, <2>1, <3>1, <4>1
    <3>2. CASE j # i
      <4>1. sent'[j] = sent[j] /\ states'[j] = states[j] /\ ~over
        BY <3>2 DEF StreamEvent, Attempt
      <4>2. QED
        BY <2>1, <4>1 DEF Attempt, CallsNamed
    <3>3. QED
      BY <3>1, <3>2
  <2>2. QED
    BY <1>7, <2>1 DEF CallsNamed
<1>10. Called(answer)' = ids /\ Collections(Called(answer))' = Collections(ids)
  <2>1. Called(answer)' = ids
    BY <1>7 DEF Called
  <2>2. QED
    BY <2>1 DEF Collections, AllCollections, OpenCalls, DifferentCalls, Pieces, Strings
<1>11. "none" \notin ids /\ over' \in BOOLEAN
  BY <1>7 DEF Attempt
<1>. HIDE DEF ids
<1>12. QED
  BY <1>7, <1>8, <1>9, <1>10, <1>11 DEF Attempt

LEMMA StreamEndTyped ==
    ASSUME Attempt, provider \in Providers, StreamEnd \/ WholeAnswer
    PROVE  Attempt'
<1>. DEFINE ids == Called(answer)
<1>1. Provided
  BY DEF Attempt, Provided
<1>2. over' = TRUE /\ answer' = answer /\ states' = states
  BY DEF StreamEnd, WholeAnswer
<1>3. CallsNamed'
  BY <1>2 DEF CallsNamed
<1>4. Called(answer)' = ids /\ Collections(Called(answer))' = Collections(ids)
  <2>1. Called(answer)' = ids
    BY <1>2 DEF Called
  <2>2. QED
    BY <2>1 DEF Collections, AllCollections, OpenCalls, DifferentCalls, Pieces, Strings
<1>5. collected \in Collections(ids) /\ "none" \notin ids /\ ids \in SUBSET Strings
  BY CalledTyped DEF Attempt
<1>6. collected' \in Collections(ids)
  <2>1. collected' \in {CollectAll(collected, Unended), CollectAll(collected, Response)}
    BY DEF StreamEnd, WholeAnswer
  <2>2. Unended \in Seq(Outs(ids)) /\ Response \in Seq(Outs(ids))
    BY <1>1, UnendedTyped, ResponseTyped
  <2>. HIDE DEF ids
  <2>3. QED
    BY <1>5, <2>1, <2>2, CollectAllTyped
<1>7. sent' \in [DOMAIN answer -> Nat]
  <2>1. ASSUME NEW i \in DOMAIN answer PROVE Len(Script(answer[i])) \in Nat
    <3>1. answer[i] \in Items
      BY DEF Attempt
    <3>2. Script(answer[i]) \in Seq(EventsOf(EventTypes(answer[i])))
      BY <3>1, ScriptTyped
    <3>3. QED
      BY <3>2, LenProperties
  <2>2. CASE StreamEnd
    BY <2>2 DEF StreamEnd, Attempt
  <2>3. CASE WholeAnswer
    BY <2>1, <2>3 DEF WholeAnswer
  <2>4. QED
    BY <2>2, <2>3
<1>. HIDE DEF ids
<1>8. QED
  BY <1>2, <1>3, <1>4, <1>5, <1>6, <1>7 DEF Attempt

-----------------------------------------------------------------------------
(* The conversation.  ConversationInv is inductive: the messages have      *)
(* their form, the first is of the user, and a request or an answer finds  *)
(* one; their calls differ, and those of each come from an answer to the   *)
(* messages before it; the attempt is what its events can make of it.      *)
CallIds(m) == { m.calls[k].id : k \in DOMAIN m.calls }

WellCalled(ms) ==
    \A i \in DOMAIN ms : DifferentCalls(ms[i]) /\ CallIds(ms[i]) \subseteq CalledIn(i - 1)

ConversationInv ==
    /\ messages \in Seq(Messages) /\ Len(messages) <= MaxMessages
    /\ messages # <<>> => messages[1].role = "user"
    /\ WellCalled(messages)
    /\ phase \in {"idle", "ready", "calling", "tools"}
    /\ phase # "idle" => messages # <<>>
    /\ phase = "calling" => /\ provider \in Providers /\ Len(messages) < MaxMessages
                             /\ answer \in AnswersOf(Len(messages))
    /\ Attempt

LEMMA LongerConversation ==
    ASSUME NEW m \in Messages, messages \in Seq(Messages), WellCalled(messages),
           messages # <<>> => messages[1].role = "user",
           messages = <<>> => m.role = "user",
           DifferentCalls(m), CallIds(m) \subseteq CalledIn(Len(messages))
    PROVE  /\ Append(messages, m) \in Seq(Messages) /\ Append(messages, m) # <<>>
           /\ Append(messages, m)[1].role = "user" /\ WellCalled(Append(messages, m))
           /\ Len(Append(messages, m)) = Len(messages) + 1
<1>. DEFINE N == Len(messages)
            longer == Append(messages, m)
<1>1. /\ longer \in Seq(Messages) /\ Len(longer) = N + 1 /\ longer[N + 1] = m
      /\ \A i \in 1..N : longer[i] = messages[i]
  BY AppendProperties
<1>2. /\ N \in Nat /\ (messages = <<>> <=> N = 0) /\ DOMAIN longer = 1..(N + 1)
      /\ DOMAIN messages = 1..N
  BY <1>1, EmptySeq
<1>. HIDE DEF longer
<1>3. longer # <<>>
  BY <1>1, <1>2, EmptySeq
<1>4. longer[1].role = "user"
  BY <1>1, <1>2
<1>5. WellCalled(longer)
  <2>1. ASSUME NEW i \in 1..(N + 1)
        PROVE  DifferentCalls(longer[i]) /\ CallIds(longer[i]) \subseteq CalledIn(i - 1)
    <3>1. CASE i \in 1..N
      <4>1. DifferentCalls(messages[i]) /\ CallIds(messages[i]) \subseteq CalledIn(i - 1)
        BY <1>2, <3>1 DEF WellCalled
      <4>2. QED
        BY <1>1, <3>1, <4>1
    <3>2. CASE i = N + 1
      <4>1. i - 1 = N
        BY <1>2, <3>2
      <4>2. longer[i] = m
        BY <1>1, <3>2
      <4>3. DifferentCalls(m) /\ CallIds(m) \subseteq CalledIn(N)
        OBVIOUS
      <4>4. QED
        BY <4>1, <4>2, <4>3, Zenon
    <3>3. QED
      BY <1>2, <3>1, <3>2
  <2>2. QED
    BY <1>2, <2>1 DEF WellCalled
<1>6. QED
  BY <1>1, <1>3, <1>4, <1>5 DEF longer

LEMMA LastReplaced ==
    ASSUME messages \in Seq(Messages), messages # <<>>, messages[1].role = "user",
           WellCalled(messages),
           NEW last \in Messages, last.role = messages[Len(messages)].role,
           DOMAIN last.calls = DOMAIN messages[Len(messages)].calls,
           \A k \in DOMAIN last.calls : last.calls[k].id = messages[Len(messages)].calls[k].id,
           NEW later, later = [i \in 1..Len(messages) |-> later[i]],
           \A i \in 1..Len(messages) : later[i] = IF i = Len(messages) THEN last ELSE messages[i]
    PROVE  /\ later \in Seq(Messages) /\ later # <<>> /\ later[1].role = "user"
           /\ WellCalled(later) /\ Len(later) = Len(messages)
<1>. DEFINE N == Len(messages)
            before == messages[N]
<1>1. /\ N \in Nat /\ N # 0 /\ DOMAIN messages = 1..N
      /\ \A i \in 1..N : messages[i] \in Messages
  BY EmptySeq
<1>2. /\ last.role = before.role /\ DOMAIN last.calls = DOMAIN before.calls
      /\ \A k \in DOMAIN last.calls : last.calls[k].id = before.calls[k].id
      /\ DifferentCalls(before)
  BY <1>1 DEF WellCalled
<1>3. /\ later = [i \in 1..N |-> later[i]]
      /\ \A i \in 1..N : later[i] = IF i = N THEN last ELSE messages[i]
  OBVIOUS
<1>4. \A i \in 1..N : DifferentCalls(messages[i]) /\ CallIds(messages[i]) \subseteq CalledIn(i - 1)
  BY <1>1 DEF WellCalled
<1>5. before = messages[N]
  OBVIOUS
<1>. HIDE DEF N, before
<1>6. \A i \in 1..N : later[i] \in Messages
  BY <1>1, <1>3
<1>7. later \in Seq(Messages) /\ Len(later) = N
  BY <1>1, <1>3, <1>6, MadeSequence
<1>8. DifferentCalls(last) /\ CallIds(last) = CallIds(before)
  <2>1. DifferentCalls(last)
    BY <1>2 DEF DifferentCalls
  <2>2. CallIds(last) = CallIds(before)
    BY <1>2 DEF CallIds
  <2>3. QED
    BY <2>1, <2>2
<1>9. WellCalled(later)
  <2>1. ASSUME NEW i \in 1..N
        PROVE  DifferentCalls(later[i]) /\ CallIds(later[i]) \subseteq CalledIn(i - 1)
    <3>1. CASE i = N
      <4>1. later[i] = last
        BY <1>3, <3>1
      <4>2. CallIds(last) \subseteq CalledIn(i - 1)
        BY <1>4, <1>5, <1>8, <3>1
      <4>3. QED
        BY <1>8, <4>1, <4>2
    <3>2. CASE i # N
      <4>1. later[i] = messages[i]
        BY <1>3, <3>2
      <4>2. QED
        BY <1>4, <4>1
    <3>3. QED
      BY <3>1, <3>2
  <2>2. DOMAIN later = 1..N
    BY <1>7, LenProperties
  <2>3. QED
    BY <2>1, <2>2 DEF WellCalled
<1>10. later # <<>> /\ later[1].role = "user"
  <2>1. later # <<>>
    BY <1>1, <1>7, EmptySeq
  <2>2. 1 \in 1..N /\ messages[1].role = "user"
    BY <1>1
  <2>3. later[1] = IF 1 = N THEN last ELSE messages[1]
    BY <1>3, <2>2
  <2>4. later[1].role = "user"
    BY <1>2, <1>5, <2>2, <2>3
  <2>5. QED
    BY <2>1, <2>4
<1>11. QED
  BY <1>7, <1>9, <1>10 DEF N

LEMMA LastChanged ==
    ASSUME messages \in Seq(Messages), messages # <<>>, messages[1].role = "user",
           WellCalled(messages),
           NEW calls \in Seq(ToolCalls), DOMAIN calls = DOMAIN messages[Len(messages)].calls,
           \A k \in DOMAIN calls : calls[k].id = messages[Len(messages)].calls[k].id
    PROVE  LET later == [messages EXCEPT ![Len(messages)].calls = calls] IN
           /\ later \in Seq(Messages) /\ later # <<>> /\ later[1].role = "user"
           /\ WellCalled(later) /\ Len(later) = Len(messages)
<1>. DEFINE N == Len(messages)
            last == [messages[N] EXCEPT !.calls = calls]
            later == [messages EXCEPT ![Len(messages)].calls = calls]
<1>1. N \in Nat /\ N # 0 /\ DOMAIN messages = 1..N /\ messages[N] \in Messages
  BY EmptySeq
<1>2. last \in Messages /\ last.role = messages[N].role /\ last.calls = calls
  BY <1>1 DEF Messages
<1>3. /\ later = [i \in 1..N |-> later[i]]
      /\ \A i \in 1..N : later[i] = IF i = N THEN last ELSE messages[i]
  BY <1>1
<1>. HIDE DEF last, later
<1>5. /\ last.role = messages[Len(messages)].role
      /\ DOMAIN last.calls = DOMAIN messages[Len(messages)].calls
      /\ \A k \in DOMAIN last.calls : last.calls[k].id = messages[Len(messages)].calls[k].id
  BY <1>2
<1>6. /\ later = [i \in 1..Len(messages) |-> later[i]]
      /\ \A i \in 1..Len(messages) : later[i] = IF i = Len(messages) THEN last ELSE messages[i]
  BY <1>3
<1>4. /\ later \in Seq(Messages) /\ later # <<>> /\ later[1].role = "user"
      /\ WellCalled(later) /\ Len(later) = Len(messages)
  BY <1>2, <1>5, <1>6, LastReplaced, Zenon
<1>7. QED
  BY <1>4 DEF later

LEMMA InitInv == Init => ConversationInv
<1>. SUFFICES ASSUME Init PROVE ConversationInv
  OBVIOUS
<1>1. /\ <<>> \in Pieces /\ <<>> \in Seq(OpenCalls({})) /\ <<>> \in Seq(Items)
      /\ <<>> \in Seq(Messages) /\ DOMAIN <<>> = {}
  BY EmptySeq DEF Pieces
<1>2. Called(answer) = {}
  BY <1>1 DEF Init, Fresh, Called
<1>3. NothingCollected \in Collections({})
  <2>1. NothingCollected \in AllCollections({})
    BY <1>1 DEF NothingCollected, AllCollections
  <2>2. DifferentCalls(NothingCollected)
    BY <1>1 DEF NothingCollected, DifferentCalls
  <2>3. QED
    BY <2>1, <2>2 DEF Collections
<1>4. states \in [DOMAIN answer -> States] /\ sent \in [DOMAIN answer -> Nat] /\ CallsNamed
  BY <1>1, NoStateTyped DEF Init, Fresh, CallsNamed
<1>5. collected \in Collections(Called(answer)) /\ "none" \notin Called(answer)
  BY <1>2, <1>3 DEF Init, Fresh
<1>6. Attempt
  BY <1>1, <1>4, <1>5 DEF Init, Fresh, Attempt
<1>7. WellCalled(messages) /\ Len(messages) <= MaxMessages
  <2>1. MaxMessages \in Nat
    BY ConversationAssumption
  <2>2. QED
    BY <1>1, <2>1, EmptySeq DEF Init, WellCalled
<1>8. QED
  BY <1>1, <1>6, <1>7 DEF Init, ConversationInv

LEMMA UserAsksInv ==
    ASSUME ConversationInv, NEW size \in UserSizes, UserAsks(size)
    PROVE  ConversationInv'
<1>1. size \in Nat /\ <<>> \in Seq(ToolCalls) /\ DOMAIN <<>> = {} /\ MaxMessages \in Nat
  BY ConversationAssumption, EmptySeq
<1>2. User(size) \in Messages /\ User(size).role = "user" /\ User(size).calls = <<>>
  <2>1. <<TextBlock(size)>> \in Seq(Blocks)
    BY <1>1 DEF TextBlock, Blocks
  <2>2. QED
    BY <1>1, <2>1 DEF User, Messages
<1>3. DifferentCalls(User(size)) /\ CallIds(User(size)) \subseteq CalledIn(Len(messages))
  BY <1>1, <1>2 DEF DifferentCalls, CallIds
<1>4. /\ messages \in Seq(Messages) /\ WellCalled(messages) /\ Len(messages) < MaxMessages
      /\ messages # <<>> => messages[1].role = "user"
      /\ messages' = Append(messages, User(size))
  BY DEF ConversationInv, UserAsks
<1>5. /\ messages' \in Seq(Messages) /\ messages' # <<>> /\ messages'[1].role = "user"
      /\ WellCalled(messages') /\ Len(messages') = Len(messages) + 1
  BY <1>2, <1>3, <1>4, LongerConversation
<1>6. Len(messages') <= MaxMessages
  BY <1>1, <1>4, <1>5, LenProperties
<1>7. Attempt'
  BY DEF ConversationInv, UserAsks, streamVars, Attempt, CallsNamed, Called
<1>8. phase' = "ready"
  BY DEF UserAsks
<1>9. WellCalled(messages)'
  BY <1>5 DEF WellCalled
<1>10. QED
  BY <1>5, <1>6, <1>7, <1>8, <1>9 DEF ConversationInv

LEMMA CallsInv ==
    ASSUME ConversationInv, NEW name \in Providers, NEW items \in AnswersOf(Len(messages)),
           Begin(name, items) \/ Again(name, items)
    PROVE  ConversationInv'
<1>1. Len(messages) \in 0..MaxMessages /\ Len(messages) < MaxMessages
  BY ConversationAssumption, LenProperties DEF ConversationInv, Begin, Again
<1>2. items \in Seq(Items)
  BY <1>1, ConversationAssumption
<1>3. Call(name, items)
  BY DEF Begin, Again
<1>4. "none" \notin Called(items)
  <2>1. Called(items) \subseteq CalledIn(Len(messages))
    BY DEF CalledIn
  <2>2. QED
    BY <1>1, <2>1, CallsAssumption
<1>5. Attempt'
  BY <1>2, <1>3, <1>4, CallTyped
<1>6. provider' = name /\ answer' = items /\ messages' = messages /\ phase' = "calling" /\ phase # "idle"
  BY <1>3 DEF Begin, Again, Call
<1>7. WellCalled(messages)'
  BY <1>6 DEF ConversationInv, WellCalled
<1>8. QED
  BY <1>1, <1>5, <1>6, <1>7 DEF ConversationInv

LEMMA ReceiveInv ==
    ASSUME ConversationInv, Receive
    PROVE  ConversationInv'
<1>1. provider \in Providers /\ Attempt /\ phase = "calling"
  BY DEF ConversationInv, Receive
<1>2. Attempt' /\ provider' = provider /\ answer' = answer
  <2>1. CASE StreamEnd \/ WholeAnswer
    BY <1>1, <2>1, StreamEndTyped DEF StreamEnd, WholeAnswer
  <2>2. CASE \E i \in DOMAIN answer : StreamEvent(i)
    <3>1. PICK i \in DOMAIN answer : StreamEvent(i)
      BY <2>2
    <3>2. Attempt'
      BY <1>1, <3>1, StreamEventTyped
    <3>3. QED
      BY <3>1, <3>2 DEF StreamEvent
  <2>3. QED
    BY <2>1, <2>2 DEF Receive
<1>3. messages' = messages /\ phase' = phase
  BY DEF Receive
<1>4. WellCalled(messages)'
  BY <1>3 DEF ConversationInv, WellCalled
<1>5. QED
  BY <1>2, <1>3, <1>4 DEF ConversationInv

LEMMA FailsInv ==
    ASSUME ConversationInv, Fails
    PROVE  ConversationInv'
<1>1. <<>> \in Seq(Items) /\ Call(NoCall, <<>>) /\ "none" \notin Called(<<>>)
  BY EmptySeq DEF Fails, Called
<1>2. Attempt'
  BY <1>1, CallTyped
<1>3. messages' = messages /\ phase' = "idle"
  BY DEF Fails
<1>4. WellCalled(messages)'
  BY <1>3 DEF ConversationInv, WellCalled
<1>5. QED
  BY <1>2, <1>3, <1>4 DEF ConversationInv

LEMMA AddAnswerInv ==
    ASSUME ConversationInv, AddAnswer
    PROVE  ConversationInv'
<1>1. <<>> \in Seq(Items) /\ Call(NoCall, <<>>) /\ "none" \notin Called(<<>>)
  BY EmptySeq DEF AddAnswer, Called
<1>2. Attempt'
  BY <1>1, CallTyped
<1>3. /\ messages \in Seq(Messages) /\ messages # <<>> /\ messages[1].role = "user"
      /\ collected \in Collections(Called(answer)) /\ answer \in AnswersOf(Len(messages))
      /\ WellCalled(messages) /\ Len(messages) < MaxMessages /\ Called(answer) \in SUBSET Strings
  BY CalledTyped DEF ConversationInv, AddAnswer, Attempt
<1>4. AssistantMessage \in Messages
  <2>1. /\ collected.content \in Pieces /\ collected.calls \in Seq(OpenCalls(Called(answer)))
        /\ collected.items \in Seq(Pieces)
    BY <1>3 DEF Collections, AllCollections
  <2>. DEFINE items == [k \in DOMAIN collected.items |-> ItemBlock(Len(collected.items[k]))]
  <2>2. items \o AnswerText \in Seq(Blocks)
    <3>1. ASSUME NEW k \in DOMAIN collected.items
          PROVE  ItemBlock(Len(collected.items[k])) \in Blocks
      <4>1. collected.items[k] \in Pieces
        BY <2>1
      <4>2. Len(collected.items[k]) \in Nat
        BY <4>1, LenProperties DEF Pieces
      <4>3. QED
        BY <4>2 DEF ItemBlock, Blocks
    <3>2. DOMAIN collected.items = 1..Len(collected.items) /\ Len(collected.items) \in Nat
      BY <2>1
    <3>3. items \in Seq(Blocks)
      BY <3>1, <3>2
    <3>4. TextBlock(Len(collected.content)) \in Blocks
      <4>1. Len(collected.content) \in Nat
        BY <2>1, LenProperties DEF Pieces
      <4>2. QED
        BY <4>1 DEF TextBlock, Blocks
    <3>5. <<TextBlock(Len(collected.content))>> \in Seq(Blocks) /\ <<>> \in Seq(Blocks)
      BY <3>4, EmptySeq
    <3>6. AnswerText \in Seq(Blocks)
      BY <3>5, Zenon DEF AnswerText
    <3>. HIDE DEF items
    <3>7. QED
      BY <3>3, <3>6, ConcatProperties
  <2>. DEFINE calls == [k \in DOMAIN collected.calls |->
                 [id |-> collected.calls[k].id, args |-> Len(CollectedCalls[k].args),
                  result |-> NoResult]]
  <2>3. ASSUME NEW k \in DOMAIN collected.calls PROVE calls[k] \in ToolCalls
    <3>1. collected.calls[k] \in OpenCalls(Called(answer))
      BY <2>1
    <3>2. collected.calls[k].id \in Strings /\ collected.calls[k].args \in Pieces
      BY <1>3, <3>1 DEF OpenCalls
    <3>3. CollectedCalls[k].args = ParsedArgs(collected.calls[k].args)
      <4>1. CollectedCalls[k] =
                [collected.calls[k] EXCEPT !.args = ParsedArgs(collected.calls[k].args)]
        BY DEF CollectedCalls
      <4>2. QED
        BY <3>1, <4>1 DEF OpenCalls
    <3>4. CollectedCalls[k].args \in Pieces
      BY <3>2, <3>3, EmptySeq DEF ParsedArgs, Pieces
    <3>5. Len(CollectedCalls[k].args) \in Nat
      BY <3>4, LenProperties DEF Pieces
    <3>. DEFINE size == Len(CollectedCalls[k].args)
    <3>6. calls[k] = [id |-> collected.calls[k].id, args |-> size, result |-> NoResult]
      OBVIOUS
    <3>. HIDE DEF size, calls
    <3>7. QED
      BY <3>2, <3>5, <3>6 DEF ToolCalls, size
  <2>4. calls \in Seq(ToolCalls)
    <3>1. calls = [k \in DOMAIN collected.calls |-> calls[k]]
      OBVIOUS
    <3>2. DOMAIN collected.calls = 1..Len(collected.calls) /\ Len(collected.calls) \in Nat
      BY <2>1
    <3>. HIDE DEF calls
    <3>3. QED
      BY <2>3, <3>1, <3>2
  <2>5. AssistantMessage =
            [role |-> "assistant", content |-> items \o AnswerText, calls |-> calls]
    BY DEF AssistantMessage
  <2>. HIDE DEF calls, items
  <2>6. QED
    BY <2>2, <2>4, <2>5 DEF Messages
<1>5. DifferentCalls(AssistantMessage) /\ CallIds(AssistantMessage) \subseteq CalledIn(Len(messages))
  <2>1. DifferentCalls(collected) /\ collected.calls \in Seq(OpenCalls(Called(answer)))
    BY <1>3 DEF Collections, AllCollections
  <2>2. /\ DOMAIN AssistantMessage.calls = DOMAIN collected.calls
        /\ \A k \in DOMAIN collected.calls : AssistantMessage.calls[k].id = collected.calls[k].id
    BY DEF AssistantMessage
  <2>3. \A k \in DOMAIN collected.calls : collected.calls[k].id \in Called(answer)
    <3>1. \A k \in DOMAIN collected.calls : collected.calls[k] \in OpenCalls(Called(answer))
      BY <2>1
    <3>2. QED
      BY <3>1 DEF OpenCalls
  <2>4. Called(answer) \subseteq CalledIn(Len(messages))
    BY <1>3 DEF CalledIn
  <2>5. DifferentCalls(AssistantMessage)
    BY <2>1, <2>2 DEF DifferentCalls
  <2>6. CallIds(AssistantMessage) \subseteq Called(answer)
    BY <2>2, <2>3 DEF CallIds
  <2>7. QED
    BY <2>4, <2>5, <2>6
<1>6. /\ messages' \in Seq(Messages) /\ messages' # <<>> /\ messages'[1].role = "user"
      /\ WellCalled(messages') /\ Len(messages') <= Len(messages) + 1
  <2>1. messages' \in {Append(messages, AssistantMessage), messages}
    BY DEF AddAnswer
  <2>2. CASE messages' = messages
    BY <1>3, <2>2, LenProperties
  <2>3. CASE messages' = Append(messages, AssistantMessage)
    BY <1>3, <1>4, <1>5, <2>3, LongerConversation, LenProperties
  <2>4. QED
    BY <2>1, <2>2, <2>3
<1>7. WellCalled(messages)'
  BY <1>6 DEF WellCalled
<1>8. Len(messages') <= MaxMessages
  BY <1>3, <1>6, LenProperties, ConversationAssumption
<1>9. phase' \in {"idle", "tools"}
  BY DEF AddAnswer
<1>10. QED
  BY <1>2, <1>6, <1>7, <1>8, <1>9 DEF ConversationInv

LEMMA ToolResultInv ==
    ASSUME ConversationInv, NEW size \in ResultSizes, ToolResult(size)
    PROVE  ConversationInv'
<1>. DEFINE N == Len(messages)
            calls == messages[N].calls
            first == Min(Open)
            later == [calls EXCEPT ![first].result = Limited(size)]
<1>1. /\ messages \in Seq(Messages) /\ messages # <<>> /\ messages[1].role = "user"
      /\ WellCalled(messages) /\ N <= MaxMessages
  BY DEF ConversationInv, ToolResult
<1>2. Limited(size) \in Nat
  BY ConversationAssumption DEF Limited, Placeholder
<1>3. calls \in Seq(ToolCalls)
  <2>1. messages[N] \in Messages
    BY <1>1, EmptySeq
  <2>2. QED
    BY <2>1 DEF Messages
<1>4. messages' = [messages EXCEPT ![N].calls = later]
  BY DEF ToolResult, LastCalls
<1>. HIDE DEF first
<1>10. calls = messages[N].calls
  OBVIOUS
<1>. HIDE DEF calls
<1>5. later \in Seq(ToolCalls) /\ DOMAIN later = DOMAIN calls
      /\ \A k \in DOMAIN later : later[k].id = calls[k].id
  <2>1. ASSUME NEW k \in DOMAIN calls PROVE later[k] \in ToolCalls /\ later[k].id = calls[k].id
    <3>1. calls[k] \in ToolCalls
      BY <1>3
    <3>2. /\ [calls[k] EXCEPT !.result = Limited(size)] \in ToolCalls
          /\ [calls[k] EXCEPT !.result = Limited(size)].id = calls[k].id
      BY <1>2, <3>1 DEF ToolCalls
    <3>3. later[k] \in {calls[k], [calls[k] EXCEPT !.result = Limited(size)]}
      OBVIOUS
    <3>4. QED
      BY <3>1, <3>2, <3>3
  <2>2. later = [k \in DOMAIN calls |-> later[k]]
    OBVIOUS
  <2>3. DOMAIN calls = 1..Len(calls) /\ Len(calls) \in Nat
    BY <1>3
  <2>. HIDE DEF later
  <2>4. QED
    BY <2>1, <2>2, <2>3
<1>. HIDE DEF later
<1>6. /\ messages' \in Seq(Messages) /\ messages' # <<>> /\ messages'[1].role = "user"
      /\ WellCalled(messages') /\ Len(messages') = N
  BY <1>1, <1>4, <1>5, <1>10, LastChanged
<1>7. phase' \in {"ready", "tools"} /\ UNCHANGED streamVars
  BY DEF ToolResult
<1>8. Attempt'
  BY <1>7 DEF ConversationInv, streamVars, Attempt, CallsNamed, Called
<1>11. WellCalled(messages)'
  BY <1>6 DEF WellCalled
<1>12. QED
  BY <1>6, <1>7, <1>8, <1>11, <1>1 DEF ConversationInv

LEMMA InterruptToolInv ==
    ASSUME ConversationInv, InterruptTool
    PROVE  ConversationInv'
<1>. DEFINE N == Len(messages)
            calls == messages[N].calls
            later == [k \in DOMAIN calls |-> [calls[k] EXCEPT !.result = NoResult]]
<1>1. /\ messages \in Seq(Messages) /\ messages # <<>> /\ messages[1].role = "user"
      /\ WellCalled(messages) /\ N <= MaxMessages
  BY DEF ConversationInv, InterruptTool
<1>2. calls \in Seq(ToolCalls)
  <2>1. messages[N] \in Messages
    BY <1>1, EmptySeq
  <2>2. QED
    BY <2>1 DEF Messages
<1>3. messages' = [messages EXCEPT ![N].calls = later]
  BY DEF InterruptTool
<1>9. calls = messages[N].calls
  OBVIOUS
<1>. HIDE DEF calls
<1>4. later \in Seq(ToolCalls) /\ DOMAIN later = DOMAIN calls
      /\ \A k \in DOMAIN later : later[k].id = calls[k].id
  <2>1. ASSUME NEW k \in DOMAIN calls PROVE later[k] \in ToolCalls /\ later[k].id = calls[k].id
    <3>1. calls[k] \in ToolCalls
      BY <1>2
    <3>2. QED
      BY <3>1 DEF ToolCalls
  <2>2. later = [k \in DOMAIN calls |-> later[k]]
    OBVIOUS
  <2>3. DOMAIN calls = 1..Len(calls) /\ Len(calls) \in Nat
    BY <1>2
  <2>. HIDE DEF later
  <2>4. QED
    BY <2>1, <2>2, <2>3
<1>. HIDE DEF later
<1>5. /\ messages' \in Seq(Messages) /\ messages' # <<>> /\ messages'[1].role = "user"
      /\ WellCalled(messages') /\ Len(messages') = N
  BY <1>1, <1>3, <1>4, <1>9, LastChanged
<1>6. phase' = "idle" /\ UNCHANGED streamVars
  BY DEF InterruptTool
<1>7. Attempt'
  BY <1>6 DEF ConversationInv, streamVars, Attempt, CallsNamed, Called
<1>11. WellCalled(messages)'
  BY <1>5 DEF WellCalled
<1>12. QED
  BY <1>5, <1>6, <1>7, <1>11, <1>1 DEF ConversationInv

(* The run ends, or nothing happens: the conversation stays as it is.      *)
LEMMA EndsInv ==
    ASSUME ConversationInv, UNCHANGED <<messages, streamVars>>,
           phase' = "idle" \/ phase' = phase
    PROVE  ConversationInv'
<1>1. Attempt'
  BY DEF ConversationInv, streamVars, Attempt, CallsNamed, Called
<1>2. WellCalled(messages)'
  BY DEF ConversationInv, WellCalled
<1>3. QED
  BY <1>1, <1>2 DEF ConversationInv, streamVars

(* The messages of a session always have their form, and the first of them *)
(* is the user's (session.ts, run_loop.ts).                                *)
THEOREM ConversationInvariant == Spec => []ConversationInv
<1>1. ConversationInv /\ [Next]_vars => ConversationInv'
  <2>. SUFFICES ASSUME ConversationInv, [Next]_vars PROVE ConversationInv'
    OBVIOUS
  <2>1. CASE UNCHANGED vars
    BY <2>1, EndsInv DEF vars
  <2>2. CASE \E size \in UserSizes : UserAsks(size)
    BY <2>2, UserAsksInv
  <2>3. CASE \E name \in Providers, items \in AnswersOf(Len(messages)) :
                Begin(name, items) \/ Again(name, items)
    BY <2>3, CallsInv
  <2>4. CASE TooLarge \/ Interrupt
    BY <2>4, EndsInv DEF TooLarge, Interrupt
  <2>5. CASE Receive
    BY <2>5, ReceiveInv
  <2>6. CASE Fails
    BY <2>6, FailsInv
  <2>7. CASE AddAnswer
    BY <2>7, AddAnswerInv
  <2>8. CASE InterruptTool
    BY <2>8, InterruptToolInv
  <2>9. CASE \E size \in ResultSizes : ToolResult(size)
    BY <2>9, ToolResultInv
  <2>10. CASE \E size \in ResultSizes : OutputTooLarge(size)
    BY <2>10, EndsInv DEF OutputTooLarge
  <2>11. QED
    BY <2>1, <2>2, <2>3, <2>4, <2>5, <2>6, <2>7, <2>8, <2>9, <2>10 DEF Next
<1>2. QED
  BY <1>1, InitInv, PTL DEF Spec

(* Whatever was said and however the runs before ended, a request fits the *)
(* budget, ends with the whole of the user's latest turn and has before it *)
(* whole turns, one more of which would not fit; a context message is left *)
(* out only if it does not fit beside the latest turn; and only a latest   *)
(* turn too large by itself, shortened, is refused (fit_model_context.ts). *)
THEOREM RequestsFit == Spec => []FitsAndKeepsLatest
<1>1. ConversationInv => FitsAndKeepsLatest
  BY RequestKeepsLatest DEF ConversationInv, FitsAndKeepsLatest
<1>2. QED
  BY <1>1, ConversationInvariant, PTL

-----------------------------------------------------------------------------
(* What is said in a request.                                              *)
Kinds == {"user", "assistant", "system", "call", "reply"}
Saids == [kind : Kinds, id : Strings]
Entries == [role : {"user", "assistant", "tool"}, texts : Nat, calls : Seq(Strings),
            reply : Strings]

RepliesIn(said) == { said[i].id : i \in { j \in DOMAIN said : said[j].kind = "reply" } }

(* A sequence in which each call is replied to, behind another one: they   *)
(* are replied to together if no reply names the same call.                *)
LEMMA RepliedTogether ==
    ASSUME NEW a \in Seq(Saids), NEW b \in Seq(Saids), Replied(a), Replied(b),
           RepliesIn(a) \cap RepliesIn(b) = {}
    PROVE  /\ a \o b \in Seq(Saids) /\ Replied(a \o b)
           /\ RepliesIn(a \o b) = RepliesIn(a) \cup RepliesIn(b)
<1>. DEFINE c == a \o b
            N == Len(a)
            M == Len(b)
<1>1. /\ c \in Seq(Saids) /\ Len(c) = N + M
      /\ \A k \in 1..N : c[k] = a[k]
      /\ \A k \in 1..M : c[N + k] = b[k]
  <2>1. c = a \o b
    OBVIOUS
  <2>. HIDE DEF c
  <2>2. QED
    BY <2>1, TwoTogether
<1>2. N \in Nat /\ M \in Nat /\ DOMAIN a = 1..N /\ DOMAIN b = 1..M /\ DOMAIN c = 1..(N + M)
  <2>. HIDE DEF c
  <2>1. QED
    BY <1>1
<1>. HIDE DEF c, N, M
<1>3. \A k \in 1..(N + M) : k \in 1..N \/ \E m \in 1..M : k = N + m
  <2>1. ASSUME NEW k \in 1..(N + M), k \notin 1..N PROVE k - N \in 1..M /\ k = N + (k - N)
    BY <1>2, <2>1
  <2>2. QED
    BY <2>1
<1>4. \A k \in 1..M : N + k \in 1..(N + M) /\ N + k \notin 1..N
  BY <1>2
<1>5. \A k \in 1..N : k \in 1..(N + M)
  BY <1>2
<1>6. RepliesIn(c) = RepliesIn(a) \cup RepliesIn(b)
  <2>1. ASSUME NEW k \in 1..(N + M), c[k].kind = "reply"
        PROVE  c[k].id \in RepliesIn(a) \cup RepliesIn(b)
    <3>1. CASE k \in 1..N
      <4>1. a[k].kind = "reply" /\ c[k].id = a[k].id
        BY <1>1, <2>1, <3>1
      <4>2. QED
        BY <1>2, <3>1, <4>1 DEF RepliesIn
    <3>2. CASE \E m \in 1..M : k = N + m
      <4>1. PICK m \in 1..M : k = N + m
        BY <3>2
      <4>2. b[m].kind = "reply" /\ c[k].id = b[m].id
        BY <1>1, <2>1, <4>1
      <4>3. QED
        BY <1>2, <4>1, <4>2 DEF RepliesIn
    <3>3. QED
      BY <1>3, <3>1, <3>2
  <2>2. ASSUME NEW k \in 1..N, a[k].kind = "reply" PROVE a[k].id \in RepliesIn(c)
    <3>1. c[k].kind = "reply" /\ c[k].id = a[k].id /\ k \in DOMAIN c
      BY <1>1, <1>2, <1>5, <2>2
    <3>2. QED
      BY <3>1 DEF RepliesIn
  <2>3. ASSUME NEW k \in 1..M, b[k].kind = "reply" PROVE b[k].id \in RepliesIn(c)
    <3>1. c[N + k].kind = "reply" /\ c[N + k].id = b[k].id /\ N + k \in DOMAIN c
      BY <1>1, <1>2, <1>4, <2>3
    <3>2. QED
      BY <3>1 DEF RepliesIn
  <2>4. RepliesIn(c) \subseteq RepliesIn(a) \cup RepliesIn(b)
    BY <1>2, <2>1 DEF RepliesIn
  <2>5. RepliesIn(a) \subseteq RepliesIn(c)
    BY <1>2, <2>2 DEF RepliesIn
  <2>6. RepliesIn(b) \subseteq RepliesIn(c)
    BY <1>2, <2>3 DEF RepliesIn
  <2>7. QED
    BY <2>4, <2>5, <2>6
<1>7. ASSUME NEW i \in 1..(N + M), c[i].kind = "call"
      PROVE  \E j \in (i + 1)..(N + M) :
                /\ c[j] = Said("reply", c[i].id)
                /\ \A k \in i..j : c[k].kind \in {"call", "reply"}
  <2>1. CASE i \in 1..N
    <3>1. a[i].kind = "call"
      BY <1>1, <1>7, <2>1
    <3>2. PICK j \in (i + 1)..N : /\ a[j] = Said("reply", a[i].id)
                                  /\ \A k \in i..j : a[k].kind \in {"call", "reply"}
      BY <1>2, <2>1, <3>1 DEF Replied, N
    <3>3. j \in 1..N /\ j \in (i + 1)..(N + M) /\ \A k \in i..j : k \in 1..N
      BY <1>2, <2>1
    <3>4. c[j] = Said("reply", c[i].id) /\ \A k \in i..j : c[k].kind \in {"call", "reply"}
      BY <1>1, <2>1, <3>2, <3>3
    <3>5. QED
      BY <3>3, <3>4
  <2>2. CASE \E m \in 1..M : i = N + m
    <3>1. PICK m \in 1..M : i = N + m
      BY <2>2
    <3>2. b[m].kind = "call" /\ c[i] = b[m]
      BY <1>1, <1>7, <3>1
    <3>3. PICK j \in (m + 1)..M : /\ b[j] = Said("reply", b[m].id)
                                  /\ \A k \in m..j : b[k].kind \in {"call", "reply"}
      BY <1>2, <3>1, <3>2 DEF Replied, M
    <3>4. j \in 1..M /\ N + j \in (i + 1)..(N + M)
      BY <1>2, <3>1
    <3>5. c[N + j] = Said("reply", c[i].id)
      BY <1>1, <3>2, <3>3, <3>4
    <3>6. ASSUME NEW k \in i..(N + j) PROVE c[k].kind \in {"call", "reply"}
      <4>1. k - N \in m..j /\ k - N \in 1..M /\ k = N + (k - N)
        BY <1>2, <3>1, <3>4
      <4>2. c[N + (k - N)] = b[k - N]
        BY <1>1, <4>1
      <4>3. QED
        BY <3>3, <4>1, <4>2
    <3>7. QED
      BY <3>4, <3>5, <3>6
  <2>3. QED
    BY <1>3, <2>1, <2>2
<1>8. ASSUME NEW i \in 1..(N + M), NEW j \in 1..(N + M),
             c[i].kind = "reply", c[j].kind = "reply", c[i].id = c[j].id
      PROVE  i = j
  <2>1. CASE i \in 1..N /\ j \in 1..N
    BY <1>1, <1>2, <1>8, <2>1 DEF Replied
  <2>2. CASE i \in 1..N /\ \E m \in 1..M : j = N + m
    <3>1. PICK m \in 1..M : j = N + m
      BY <2>2
    <3>2. a[i].id \in RepliesIn(a) /\ b[m].id \in RepliesIn(b) /\ a[i].id = b[m].id
      BY <1>1, <1>2, <1>8, <2>2, <3>1 DEF RepliesIn
    <3>3. QED
      BY <3>2
  <2>3. CASE j \in 1..N /\ \E m \in 1..M : i = N + m
    <3>1. PICK m \in 1..M : i = N + m
      BY <2>3
    <3>2. a[j].id \in RepliesIn(a) /\ b[m].id \in RepliesIn(b) /\ a[j].id = b[m].id
      BY <1>1, <1>2, <1>8, <2>3, <3>1 DEF RepliesIn
    <3>3. QED
      BY <3>2
  <2>4. CASE (\E m \in 1..M : i = N + m) /\ (\E m \in 1..M : j = N + m)
    <3>1. PICK m \in 1..M : i = N + m
      BY <2>4
    <3>2. PICK l \in 1..M : j = N + l
      BY <2>4
    <3>3. b[m].kind = "reply" /\ b[l].kind = "reply" /\ b[m].id = b[l].id
      BY <1>1, <1>8, <3>1, <3>2
    <3>4. m = l
      BY <1>2, <3>3 DEF Replied
    <3>5. QED
      BY <3>1, <3>2, <3>4
  <2>5. QED
    BY <1>3, <2>1, <2>2, <2>3, <2>4
<1>9. ASSUME NEW i \in 1..(N + M), c[i].kind = "reply"
      PROVE  \E j \in 1..(i - 1) : c[j] = Said("call", c[i].id)
  <2>1. CASE i \in 1..N
    <3>1. a[i].kind = "reply" /\ c[i] = a[i]
      BY <1>1, <1>9, <2>1
    <3>2. PICK j \in 1..(i - 1) : a[j] = Said("call", a[i].id)
      BY <1>2, <2>1, <3>1 DEF Replied
    <3>3. j \in 1..N
      BY <1>2, <2>1
    <3>4. QED
      BY <1>1, <3>1, <3>2, <3>3
  <2>2. CASE \E m \in 1..M : i = N + m
    <3>1. PICK m \in 1..M : i = N + m
      BY <2>2
    <3>2. b[m].kind = "reply" /\ c[i] = b[m]
      BY <1>1, <1>9, <3>1
    <3>3. PICK j \in 1..(m - 1) : b[j] = Said("call", b[m].id)
      BY <1>2, <3>1, <3>2 DEF Replied
    <3>4. j \in 1..M /\ N + j \in 1..(i - 1)
      BY <1>2, <3>1
    <3>5. c[N + j] = b[j]
      BY <1>1, <3>4
    <3>6. QED
      BY <3>2, <3>3, <3>4, <3>5
  <2>3. QED
    BY <1>3, <2>1, <2>2
<1>10. Len(c) = N + M
  BY <1>1
<1>11. Replied(c)
  BY <1>2, <1>7, <1>8, <1>9, <1>10 DEF Replied
<1>12. QED
  BY <1>1, <1>6, <1>11 DEF c

(* Something that is no call or reply, some calls, and a reply to each.    *)
Quiet(said) == \A i \in DOMAIN said : said[i].kind \notin {"call", "reply"}

RepliedAs(said, ids) == said \in Seq(Saids) /\ Replied(said) /\ RepliesIn(said) \subseteq ids

LEMMA RepliesInOrder ==
    ASSUME NEW P \in Nat, NEW K \in Nat, NEW ids, DOMAIN ids = 1..K,
           \A k, l \in 1..K : ids[k] = ids[l] => k = l,
           NEW said, DOMAIN said = 1..(P + K + K), Len(said) = P + K + K,
           \A k \in 1..P : said[k].kind \notin {"call", "reply"},
           \A k \in 1..K : said[P + k] = Said("call", ids[k]),
           \A k \in 1..K : said[P + K + k] = Said("reply", ids[k])
    PROVE  Replied(said) /\ RepliesIn(said) \subseteq { ids[k] : k \in DOMAIN ids }
<1>0. ASSUME NEW k \in 1..K
      PROVE  /\ said[P + k].kind = "call" /\ said[P + k].id = ids[k]
             /\ said[P + K + k].kind = "reply" /\ said[P + K + k].id = ids[k]
  <2>1. said[P + k] = Said("call", ids[k]) /\ said[P + K + k] = Said("reply", ids[k])
    OBVIOUS
  <2>2. \A kind, id : Said(kind, id).kind = kind /\ Said(kind, id).id = id
    BY DEF Said
  <2>3. QED
    BY <2>1, <2>2
<1>1. \A i \in 1..(P + K + K) :
         \/ i \in 1..P
         \/ \E k \in 1..K : i = P + k
         \/ \E k \in 1..K : i = P + K + k
  <2>1. ASSUME NEW i \in 1..(P + K + K), i \notin 1..P, ~(i <= P + K)
        PROVE  i - P - K \in 1..K /\ i = P + K + (i - P - K)
    BY <2>1
  <2>2. ASSUME NEW i \in 1..(P + K + K), i \notin 1..P, i <= P + K
        PROVE  i - P \in 1..K /\ i = P + (i - P)
    BY <2>2
  <2>3. QED
    BY <2>1, <2>2
<1>2. ASSUME NEW i \in 1..(P + K + K), said[i].kind = "call"
       PROVE  \E k \in 1..K : i = P + k
  <2>1. \A k \in 1..K : said[P + K + k].kind # "call"
    BY <1>0
  <2>2. QED
    BY <1>1, <1>2, <2>1
<1>3. ASSUME NEW i \in 1..(P + K + K), said[i].kind = "reply"
       PROVE  \E k \in 1..K : i = P + K + k /\ said[i].id = ids[k]
  <2>1. \A k \in 1..K : said[P + k].kind # "reply" /\ said[P + K + k].id = ids[k]
    BY <1>0
  <2>2. i \notin 1..P /\ ~(\E k \in 1..K : i = P + k)
    BY <1>3, <2>1
  <2>3. PICK k \in 1..K : i = P + K + k
    BY <1>1, <2>2
  <2>4. QED
    BY <2>1, <2>3
<1>4. ASSUME NEW i \in 1..(P + K + K), said[i].kind = "call"
       PROVE  \E j \in (i + 1)..(P + K + K) :
                 /\ said[j] = Said("reply", said[i].id)
                 /\ \A k \in i..j : said[k].kind \in {"call", "reply"}
  <2>1. PICK k \in 1..K : i = P + k
    BY <1>2, <1>4
  <2>2. said[i].id = ids[k]
    BY <1>0, <2>1
  <2>3. P + K + k \in (i + 1)..(P + K + K)
    BY <2>1
  <2>4. said[P + K + k] = Said("reply", said[i].id)
    BY <2>2
  <2>5. ASSUME NEW l \in i..(P + K + k) PROVE said[l].kind \in {"call", "reply"}
    <3>1. l \in 1..(P + K + K) /\ l \notin 1..P
      BY <2>1, <2>3
    <3>2. CASE \E n \in 1..K : l = P + n
      <4>1. PICK n \in 1..K : l = P + n
        BY <3>2
      <4>2. said[P + n].kind = "call"
        BY <1>0
      <4>3. QED
        BY <4>1, <4>2, Zenon
    <3>3. CASE \E n \in 1..K : l = P + K + n
      <4>1. PICK n \in 1..K : l = P + K + n
        BY <3>3
      <4>2. said[P + K + n].kind = "reply"
        BY <1>0
      <4>3. QED
        BY <4>1, <4>2, Zenon
    <3>4. QED
      BY <1>1, <3>1, <3>2, <3>3
  <2>6. QED
    BY <2>3, <2>4, <2>5
<1>5. ASSUME NEW i \in 1..(P + K + K), NEW j \in 1..(P + K + K),
              said[i].kind = "reply", said[j].kind = "reply", said[i].id = said[j].id
       PROVE  i = j
  <2>1. PICK k \in 1..K : i = P + K + k /\ said[i].id = ids[k]
    BY <1>3, <1>5
  <2>2. PICK l \in 1..K : j = P + K + l /\ said[j].id = ids[l]
    BY <1>3, <1>5
  <2>3. k = l
    BY <1>5, <2>1, <2>2
  <2>4. QED
    BY <2>1, <2>2, <2>3
<1>6. ASSUME NEW i \in 1..(P + K + K), said[i].kind = "reply"
       PROVE  \E j \in 1..(i - 1) : said[j] = Said("call", said[i].id)
  <2>1. PICK k \in 1..K : i = P + K + k /\ said[i].id = ids[k]
    BY <1>3, <1>6
  <2>2. P + k \in 1..(i - 1)
    BY <2>1
  <2>3. said[P + k] = Said("call", said[i].id)
    BY <2>1
  <2>4. QED
    BY <2>2, <2>3
<1>7. RepliesIn(said) \subseteq { ids[k] : k \in DOMAIN ids }
  <2>1. ASSUME NEW i \in 1..(P + K + K), said[i].kind = "reply"
        PROVE  said[i].id \in { ids[k] : k \in DOMAIN ids }
    <3>1. PICK k \in 1..K : said[i].id = ids[k]
      BY <1>3, <2>1
    <3>2. QED
      BY <3>1
  <2>2. QED
    BY <2>1 DEF RepliesIn
<1>8. Replied(said)
  BY <1>4, <1>5, <1>6 DEF Replied
<1>9. QED
  BY <1>7, <1>8

LEMMA CallsThenReplies ==
    ASSUME NEW before \in Seq(Saids), Quiet(before), NEW ids \in Seq(Strings),
           \A k, l \in DOMAIN ids : ids[k] = ids[l] => k = l
    PROVE  RepliedAs((before \o [k \in DOMAIN ids |-> Said("call", ids[k])])
                     \o [k \in DOMAIN ids |-> Said("reply", ids[k])],
                     { ids[k] : k \in DOMAIN ids })
<1>. DEFINE P == Len(before)
            K == Len(ids)
            calls == [k \in DOMAIN ids |-> Said("call", ids[k])]
            replies == [k \in DOMAIN ids |-> Said("reply", ids[k])]
            begin == before \o calls
            said == begin \o replies
<1>1. P \in Nat /\ K \in Nat /\ DOMAIN ids = 1..K /\ DOMAIN before = 1..P
  OBVIOUS
<1>2. ASSUME NEW k \in 1..K
      PROVE  Said("call", ids[k]) \in Saids /\ Said("reply", ids[k]) \in Saids
  <2>1. ids[k] \in Strings
    OBVIOUS
  <2>2. QED
    BY <2>1 DEF Said, Saids, Kinds
<1>. HIDE DEF P, K
<1>3. calls \in Seq(Saids) /\ Len(calls) = K /\ replies \in Seq(Saids) /\ Len(replies) = K
  BY <1>1, <1>2
<1>4. \A k \in 1..K : calls[k] = Said("call", ids[k]) /\ replies[k] = Said("reply", ids[k])
  BY <1>1
<1>5. said = begin \o replies
  OBVIOUS
<1>. HIDE DEF said, calls, replies
<1>6. /\ begin \in Seq(Saids) /\ Len(begin) = P + K
      /\ \A k \in 1..P : begin[k] = before[k]
      /\ \A k \in 1..K : begin[P + k] = calls[k]
  <2>1. begin = before \o calls
    OBVIOUS
  <2>. HIDE DEF begin
  <2>2. QED
    BY <1>3, <2>1, TwoTogether DEF P
<1>. HIDE DEF begin
<1>7. /\ said \in Seq(Saids) /\ Len(said) = P + K + K
      /\ \A k \in 1..(P + K) : said[k] = begin[k]
      /\ \A k \in 1..K : said[P + K + k] = replies[k]
  <2>1. /\ said \in Seq(Saids) /\ Len(said) = Len(begin) + Len(replies)
        /\ \A k \in 1..Len(begin) : said[k] = begin[k]
        /\ \A k \in 1..Len(replies) : said[Len(begin) + k] = replies[k]
    <3>1. begin \in Seq(Saids) /\ replies \in Seq(Saids)
      BY <1>3, <1>6
    <3>2. QED
      BY <1>5, <3>1, TwoTogether
  <2>2. QED
    BY <1>1, <1>3, <1>6, <2>1
<1>8. DOMAIN said = 1..(P + K + K)
  BY <1>1, <1>7, LenProperties
<1>9. /\ \A k \in 1..P : said[k].kind \notin {"call", "reply"}
      /\ \A k \in 1..K : said[P + k] = Said("call", ids[k])
      /\ \A k \in 1..K : said[P + K + k] = Said("reply", ids[k])
  <2>1. ASSUME NEW k \in 1..P PROVE said[k].kind \notin {"call", "reply"}
    <3>1. k \in 1..(P + K)
      BY <1>1
    <3>2. QED
      BY <1>1, <1>6, <1>7, <3>1 DEF Quiet
  <2>2. ASSUME NEW k \in 1..K PROVE said[P + k] = Said("call", ids[k])
    <3>1. P + k \in 1..(P + K)
      BY <1>1
    <3>2. QED
      BY <1>4, <1>6, <1>7, <3>1
  <2>3. ASSUME NEW k \in 1..K PROVE said[P + K + k] = Said("reply", ids[k])
    BY <1>4, <1>7
  <2>4. QED
    BY <2>1, <2>2, <2>3
<1>10. Replied(said) /\ RepliesIn(said) \subseteq { ids[k] : k \in DOMAIN ids }
  BY <1>1, <1>7, <1>8, <1>9, RepliesInOrder
<1>11. RepliedAs(said, { ids[k] : k \in DOMAIN ids })
  BY <1>7, <1>10 DEF RepliedAs
<1>12. QED
  BY <1>11 DEF said, begin, calls, replies

-----------------------------------------------------------------------------
(* A protocol gives for each entry of a transcript what is said: a reply   *)
(* for a tool's entry, and otherwise the calls of the entry, behind        *)
(* something that is neither.  As a function it can be reasoned about      *)
(* once for the three of them.                                             *)
Protocol(F) ==
    /\ F \in [Entries -> Seq(Saids)]
    /\ \A e \in Entries :
          IF e.role = "tool" THEN F[e] = <<Said("reply", e.reply)>>
          ELSE \E before \in Seq(Saids) : Quiet(before) /\ F[e] = before \o Calls(e)

Spoken(F, entries) == FlattenSeq([i \in DOMAIN entries |-> F[entries[i]]])

LEMMA SpokenParts ==
    ASSUME NEW F, Protocol(F), NEW entries \in Seq(Entries)
    PROVE  /\ [i \in DOMAIN entries |-> F[entries[i]]] \in Seq(Seq(Saids))
           /\ Len([i \in DOMAIN entries |-> F[entries[i]]]) = Len(entries)
<1>. DEFINE Q == Seq(Saids)
            parts == [i \in DOMAIN entries |-> F[entries[i]]]
<1>1. F \in [Entries -> Q]
  BY DEF Protocol
<1>2. DOMAIN entries = 1..Len(entries) /\ Len(entries) \in Nat
  OBVIOUS
<1>. HIDE DEF Q
<1>3. \A i \in DOMAIN entries : F[entries[i]] \in Q
  BY <1>1
<1>4. parts \in Seq(Q) /\ Len(parts) = Len(entries)
  BY <1>2, <1>3
<1>5. QED
  BY <1>4 DEF Q

LEMMA SpokenTyped ==
    ASSUME NEW F, Protocol(F), NEW entries \in Seq(Entries)
    PROVE  Spoken(F, entries) \in Seq(Saids)
BY SpokenParts, FlattenedSeq DEF Spoken

LEMMA SpokenOne ==
    ASSUME NEW F, Protocol(F), NEW e \in Entries
    PROVE  Spoken(F, <<e>>) = F[e]
<1>1. F[e] \in Seq(Saids)
  BY DEF Protocol
<1>2. [i \in DOMAIN <<e>> |-> F[<<e>>[i]]] = <<F[e]>>
  OBVIOUS
<1>3. QED
  BY <1>1, <1>2, FlattenedOne DEF Spoken

LEMMA SpokenTogether ==
    ASSUME NEW F, Protocol(F), NEW a \in Seq(Entries), NEW b \in Seq(Entries)
    PROVE  Spoken(F, a \o b) = Spoken(F, a) \o Spoken(F, b)
<1>. DEFINE c == a \o b
            Parts(entries) == [i \in DOMAIN entries |-> F[entries[i]]]
            pa == Parts(a)
            pb == Parts(b)
            pc == Parts(c)
<1>1. /\ c \in Seq(Entries) /\ Len(c) = Len(a) + Len(b)
      /\ \A k \in 1..Len(a) : c[k] = a[k]
      /\ \A k \in 1..Len(b) : c[Len(a) + k] = b[k]
  <2>1. c = a \o b
    OBVIOUS
  <2>. HIDE DEF c
  <2>2. QED
    BY <2>1, TwoTogether
<1>. HIDE DEF c
<1>2. /\ pa \in Seq(Seq(Saids)) /\ Len(pa) = Len(a)
      /\ pb \in Seq(Seq(Saids)) /\ Len(pb) = Len(b)
      /\ pc \in Seq(Seq(Saids)) /\ Len(pc) = Len(c)
  BY <1>1, SpokenParts
<1>3. /\ Len(a) \in Nat /\ Len(b) \in Nat
      /\ DOMAIN a = 1..Len(a) /\ DOMAIN b = 1..Len(b) /\ DOMAIN c = 1..Len(c)
  BY <1>1
<1>4. /\ \A k \in 1..Len(a) : pc[k] = F[c[k]] /\ pa[k] = F[a[k]]
      /\ \A k \in 1..Len(b) : pc[Len(a) + k] = F[c[Len(a) + k]] /\ pb[k] = F[b[k]]
  <2>1. /\ \A k \in 1..Len(a) : k \in DOMAIN c
        /\ \A k \in 1..Len(b) : Len(a) + k \in DOMAIN c
    BY <1>1, <1>3
  <2>2. QED
    BY <1>3, <2>1
<1>. HIDE DEF pa, pb, pc
<1>5. pc = pa \o pb
  <2>1. ASSUME NEW k \in 1..Len(pa) PROVE pc[k] = pa[k]
    <3>1. k \in 1..Len(a)
      BY <1>2
    <3>2. c[k] = a[k] /\ pc[k] = F[c[k]] /\ pa[k] = F[a[k]]
      BY <1>1, <1>4, <3>1
    <3>3. QED
      BY <3>2, Zenon
  <2>2. ASSUME NEW k \in 1..Len(pb) PROVE pc[Len(pa) + k] = pb[k]
    <3>1. k \in 1..Len(b) /\ Len(pa) = Len(a)
      BY <1>2
    <3>2. c[Len(a) + k] = b[k] /\ pc[Len(a) + k] = F[c[Len(a) + k]] /\ pb[k] = F[b[k]]
      BY <1>1, <1>4, <3>1
    <3>3. QED
      BY <3>1, <3>2, Zenon
  <2>3. Len(pc) = Len(pa) + Len(pb)
    BY <1>1, <1>2
  <2>. DEFINE S == Seq(Saids)
  <2>4. pa \in Seq(S) /\ pb \in Seq(S) /\ pc \in Seq(S)
    BY <1>2
  <2>. HIDE DEF S
  <2>5. QED
    BY <2>1, <2>2, <2>3, <2>4, MadeOfTwo
<1>6. FlattenSeq(pa \o pb) = FlattenSeq(pa) \o FlattenSeq(pb)
  BY <1>2, FlattenedTogether
<1>7. QED
  BY <1>5, <1>6 DEF Spoken, pa, pb, pc, c

(* Entries of the tools are said as replies.                               *)
LEMMA SpokenReplies ==
    ASSUME NEW F, Protocol(F), NEW ids \in Seq(Strings)
    PROVE  /\ [k \in DOMAIN ids |-> ToolEntry(ids[k])] \in Seq(Entries)
           /\ Spoken(F, [k \in DOMAIN ids |-> ToolEntry(ids[k])])
                = [k \in DOMAIN ids |-> Said("reply", ids[k])]
<1>. DEFINE K == Len(ids)
            tools == [k \in DOMAIN ids |-> ToolEntry(ids[k])]
            replies == [k \in DOMAIN ids |-> Said("reply", ids[k])]
            parts == [i \in DOMAIN tools |-> F[tools[i]]]
            f == [n \in 0..K |-> SubSeq(replies, 1, n)]
<1>1. K \in Nat /\ DOMAIN ids = 1..K
  OBVIOUS
<1>2. ASSUME NEW k \in 1..K
      PROVE  /\ ToolEntry(ids[k]) \in Entries /\ Said("reply", ids[k]) \in Saids
             /\ F[ToolEntry(ids[k])] = <<Said("reply", ids[k])>>
  <2>0. ids[k] \in Strings
    BY <1>1
  <2>1. <<>> \in Seq(Strings)
    BY EmptySeq
  <2>. HIDE DEF K
  <2>2. ToolEntry(ids[k]) \in Entries
    BY <2>0, <2>1 DEF ToolEntry, Entry, Entries
  <2>5. Said("reply", ids[k]) \in Saids
    BY <2>0 DEF Said, Saids, Kinds
  <2>3. ToolEntry(ids[k]).role = "tool" /\ ToolEntry(ids[k]).reply = ids[k]
    BY DEF ToolEntry, Entry
  <2>4. QED
    BY <2>2, <2>3, <2>5 DEF Protocol
<1>. HIDE DEF K
<1>3. tools \in Seq(Entries) /\ Len(tools) = K /\ replies \in Seq(Saids) /\ Len(replies) = K
  BY <1>1, <1>2
<1>4. \A k \in 1..K : parts[k] = <<replies[k]>>
  BY <1>1, <1>2
<1>5. parts \in Seq(Seq(Saids)) /\ Len(parts) = K
  <2>. HIDE DEF tools
  <2>1. QED
    BY <1>3, SpokenParts
<1>. HIDE DEF tools, replies, parts
<1>6. \A n \in 0..K : SubSeq(replies, 1, n) \in Seq(Saids)
  BY <1>1, <1>3
<1>7. ASSUME NEW n \in 1..K PROVE f[n] = f[n - 1] \o parts[n]
  <2>1. 1 \in 1..Len(replies) /\ n \in 1..Len(replies) /\ n \in 0..K /\ n - 1 \in 0..K
    BY <1>1, <1>3
  <2>2. SubSeq(replies, 1, n) = SubSeq(replies, 1, n - 1) \o <<replies[n]>>
    BY <1>3, <2>1, SubSeqRecursiveSecond
  <2>3. f[n] = SubSeq(replies, 1, n) /\ f[n - 1] = SubSeq(replies, 1, n - 1)
    BY <2>1
  <2>. HIDE DEF f
  <2>4. QED
    BY <1>4, <2>2, <2>3, Zenon
<1>8. f[0] = <<>>
  <2>1. SubSeq(replies, 1, 0) = <<>>
    BY SubSeqEmpty
  <2>2. QED
    BY <1>1, <2>1
<1>9. f \in [0..K -> Seq(Saids)]
  BY <1>6
<1>10. f[K] = replies
  BY <1>1, <1>3, SubSeqFull
<1>. HIDE DEF f
<1>11. Flattens(f, parts, Saids)
  BY <1>5, <1>7, <1>8, <1>9 DEF Flattens
<1>12. FlattenSeq(parts) = replies
  BY <1>5, <1>10, <1>11, FlattenedBy
<1>13. QED
  BY <1>3, <1>12 DEF Spoken, tools, replies, parts

-----------------------------------------------------------------------------
(* A message whose calls differ is said with a reply to each of them.      *)
LEMMA TextsCounted ==
    ASSUME NEW m \in Messages
    PROVE  Texts(m) \in Nat
<1>. DEFINE S == { i \in DOMAIN m.content : m.content[i].type = "text" /\ m.content[i].size > 0 }
<1>1. DOMAIN m.content = 1..Len(m.content) /\ Len(m.content) \in Nat
  <2>1. m.content \in Seq(Blocks)
    BY DEF Messages
  <2>2. QED
    BY <2>1
<1>2. IsFiniteSet(1..Len(m.content))
  BY <1>1, FS_Interval
<1>3. S \subseteq 1..Len(m.content)
  BY <1>1
<1>. HIDE DEF S
<1>4. Cardinality(S) \in Nat
  BY <1>2, <1>3, FS_Subset, FS_CardinalityType
<1>5. QED
  BY <1>4 DEF Texts, S

LEMMA TranscriptOfTyped ==
    ASSUME NEW m \in Messages
    PROVE  TranscriptOf(m) \in Seq(Entries)
<1>1. /\ Texts(m) \in Nat /\ m.calls \in Seq(ToolCalls) /\ "none" \in Strings
      /\ <<>> \in Seq(Strings) /\ <<>> \in Seq(Entries)
  BY TextsCounted, NamesAreStrings, EmptySeq DEF Messages
<1>2. ASSUME NEW k \in DOMAIN m.calls PROVE m.calls[k].id \in Strings
  <2>1. m.calls[k] \in ToolCalls
    BY <1>1
  <2>2. QED
    BY <2>1 DEF ToolCalls
<1>3. DOMAIN m.calls = 1..Len(m.calls) /\ Len(m.calls) \in Nat
  BY <1>1
<1>4. Ids(m.calls) \in Seq(Strings)
  BY <1>2, <1>3 DEF Ids
<1>. DEFINE head == Entry("assistant", Texts(m), Ids(m.calls), NoReply)
            tools == [i \in DOMAIN m.calls |-> ToolEntry(m.calls[i].id)]
<1>5. UserEntry \in Entries /\ head \in Entries
  <2>2. head \in Entries
    BY <1>1, <1>4 DEF Entry, Entries, NoReply
  <2>3. UserEntry \in Entries
    BY <1>1 DEF UserEntry, Entry, Entries, NoReply
  <2>4. QED
    BY <2>2, <2>3
<1>6. tools \in Seq(Entries)
  <2>1. \A i \in DOMAIN m.calls : ToolEntry(m.calls[i].id) \in Entries
    BY <1>1, <1>2 DEF ToolEntry, Entry, Entries
  <2>2. QED
    BY <1>3, <2>1
<1>. HIDE DEF head, tools
<1>7. <<UserEntry>> \in Seq(Entries) /\ <<head>> \in Seq(Entries)
  BY <1>5
<1>8. <<head>> \o tools \in Seq(Entries)
  BY <1>6, <1>7, ConcatProperties
<1>9. QED
  BY <1>1, <1>7, <1>8 DEF TranscriptOf, head, tools

LEMMA MessageReplied ==
    ASSUME NEW F, Protocol(F), NEW m \in Messages, DifferentCalls(m)
    PROVE  RepliedAs(Spoken(F, TranscriptOf(m)), CallIds(m))
<1>. DEFINE ids == Ids(m.calls)
            head == Entry("assistant", Texts(m), ids, NoReply)
            tools == [i \in DOMAIN m.calls |-> ToolEntry(m.calls[i].id)]
<1>1. m.calls \in Seq(ToolCalls)
  BY DEF Messages
<1>2. /\ ids \in Seq(Strings) /\ DOMAIN ids = DOMAIN m.calls
      /\ \A k \in DOMAIN ids : ids[k] = m.calls[k].id
      /\ DOMAIN m.calls = 1..Len(m.calls) /\ Len(m.calls) \in Nat
  <2>1. ASSUME NEW k \in DOMAIN m.calls PROVE m.calls[k].id \in Strings
    <3>1. m.calls[k] \in ToolCalls
      BY <1>1
    <3>2. QED
      BY <3>1 DEF ToolCalls
  <2>2. DOMAIN m.calls = 1..Len(m.calls) /\ Len(m.calls) \in Nat
    BY <1>1
  <2>3. QED
    BY <2>1, <2>2 DEF Ids
<1>3. ASSUME NEW said \in Seq(Saids), Quiet(said) PROVE RepliedAs(said, CallIds(m))
  <2>1. Replied(said)
    BY <1>3 DEF Quiet, Replied
  <2>2. RepliesIn(said) = {}
    BY <1>3 DEF Quiet, RepliesIn
  <2>3. QED
    BY <2>1, <2>2 DEF RepliedAs
<1>4. CASE m.role = "user"
  <2>1. TranscriptOf(m) = <<UserEntry>>
    BY <1>4 DEF TranscriptOf
  <2>2. UserEntry \in Entries
    <3>1. "none" \in Strings /\ <<>> \in Seq(Strings)
      BY NamesAreStrings, EmptySeq
    <3>2. QED
      BY <3>1 DEF UserEntry, Entry, Entries, NoReply
  <2>3. UserEntry.role # "tool" /\ Calls(UserEntry) = <<>>
    BY DEF UserEntry, Entry, Calls
  <2>4. PICK before \in Seq(Saids) : Quiet(before) /\ F[UserEntry] = before \o Calls(UserEntry)
    BY <2>2, <2>3 DEF Protocol
  <2>5. F[UserEntry] = before
    BY <2>3, <2>4, ConcatEmptySeq
  <2>6. QED
    BY <1>3, <2>1, <2>2, <2>4, <2>5, SpokenOne
<1>5. CASE m.role # "user" /\ Texts(m) = 0 /\ m.calls = <<>>
  <2>1. TranscriptOf(m) = <<>>
    BY <1>5 DEF TranscriptOf
  <2>2. Spoken(F, <<>>) = <<>>
    <3>1. [i \in DOMAIN <<>> |-> F[<<>>[i]]] = <<>>
      OBVIOUS
    <3>2. QED
      BY <3>1, FlattenedNone DEF Spoken
  <2>3. <<>> \in Seq(Saids) /\ Quiet(<<>>)
    BY EmptySeq DEF Quiet
  <2>4. QED
    BY <1>3, <2>1, <2>2, <2>3
<1>6. CASE m.role # "user" /\ ~(Texts(m) = 0 /\ m.calls = <<>>)
  <2>1. TranscriptOf(m) = <<head>> \o tools
    BY <1>6 DEF TranscriptOf
  <2>2. head \in Entries /\ head.role # "tool" /\ head.calls = ids
    <3>1. Texts(m) \in Nat /\ "none" \in Strings
      BY TextsCounted, NamesAreStrings
    <3>. HIDE DEF ids
    <3>2. QED
      BY <1>2, <3>1 DEF Entry, Entries, NoReply
  <2>3. tools = [k \in DOMAIN ids |-> ToolEntry(ids[k])]
    <3>. HIDE DEF ids
    <3>1. QED
      BY <1>2
  <2>. HIDE DEF head, tools, ids
  <2>4. /\ tools \in Seq(Entries)
        /\ Spoken(F, tools) = [k \in DOMAIN ids |-> Said("reply", ids[k])]
    BY <1>2, <2>3, SpokenReplies
  <2>5. <<head>> \in Seq(Entries)
    BY <2>2
  <2>6. Spoken(F, <<head>> \o tools) = Spoken(F, <<head>>) \o Spoken(F, tools)
    BY <2>4, <2>5, SpokenTogether
  <2>7. Spoken(F, <<head>>) = F[head]
    BY <2>2, SpokenOne
  <2>8. PICK before \in Seq(Saids) : Quiet(before) /\ F[head] = before \o Calls(head)
    BY <2>2 DEF Protocol
  <2>9. Calls(head) = [k \in DOMAIN ids |-> Said("call", ids[k])]
    BY <2>2 DEF Calls
  <2>10. \A k, l \in DOMAIN ids : ids[k] = ids[l] => k = l
    BY <1>2 DEF DifferentCalls
  <2>11. RepliedAs((before \o [k \in DOMAIN ids |-> Said("call", ids[k])])
                   \o [k \in DOMAIN ids |-> Said("reply", ids[k])], { ids[k] : k \in DOMAIN ids })
    BY <1>2, <2>8, <2>10, CallsThenReplies
  <2>12. { ids[k] : k \in DOMAIN ids } = CallIds(m)
    BY <1>2 DEF CallIds
  <2>13. Spoken(F, TranscriptOf(m)) = (before \o [k \in DOMAIN ids |-> Said("call", ids[k])])
                                      \o [k \in DOMAIN ids |-> Said("reply", ids[k])]
    BY <2>1, <2>4, <2>6, <2>7, <2>8, <2>9, Zenon
  <2>14. QED
    BY <2>11, <2>12, <2>13, Zenon
<1>7. QED
  BY <1>4, <1>5, <1>6

-----------------------------------------------------------------------------
(* No two calls of the messages have the same id.                          *)
DifferentIn(ms) ==
    /\ \A i \in DOMAIN ms : DifferentCalls(ms[i])
    /\ \A i, j \in DOMAIN ms : i # j => CallIds(ms[i]) \cap CallIds(ms[j]) = {}

CallLess(ms) == \A i \in DOMAIN ms : ms[i].calls = <<>>

(* Then what is said of them has a reply to each: the induction over the   *)
(* messages.                                                               *)
LEMMA TranscriptReplied ==
    ASSUME NEW F, Protocol(F), NEW ms \in Seq(Messages), DifferentIn(ms)
    PROVE  /\ Transcript(ms) \in Seq(Entries)
           /\ Spoken(F, Transcript(ms)) \in Seq(Saids)
           /\ Replied(Spoken(F, Transcript(ms)))
<1>. DEFINE N == Len(ms)
            parts == [i \in DOMAIN ms |-> TranscriptOf(ms[i])]
            Earlier(n) == UNION { CallIds(ms[i]) : i \in 1..n }
<1>1. N \in Nat /\ DOMAIN ms = 1..N /\ \A i \in 1..N : ms[i] \in Messages
  OBVIOUS
<1>2. parts \in Seq(Seq(Entries)) /\ Len(parts) = N /\ \A i \in 1..N : parts[i] = TranscriptOf(ms[i])
  <2>. DEFINE Q == Seq(Entries)
  <2>1. \A i \in DOMAIN ms : TranscriptOf(ms[i]) \in Q
    BY <1>1, TranscriptOfTyped
  <2>. HIDE DEF Q, N
  <2>2. parts \in Seq(Q) /\ Len(parts) = N /\ \A i \in 1..N : parts[i] = TranscriptOf(ms[i])
    BY <1>1, <2>1
  <2>3. QED
    BY <2>2 DEF Q
<1>3. Transcript(ms) = FlattenSeq(parts)
  BY DEF Transcript
<1>. HIDE DEF N, parts
<1>4. PICK f : Flattens(f, parts, Entries)
  BY <1>2, FlattenedSteps
<1>5. /\ f \in [0..N -> Seq(Entries)] /\ f[0] = <<>>
      /\ \A n \in 1..N : f[n] = f[n - 1] \o parts[n]
  BY <1>2, <1>4 DEF Flattens
<1>6. Transcript(ms) = f[N] /\ Transcript(ms) \in Seq(Entries)
  BY <1>2, <1>3, <1>4, FlattenedBy
<1>. DEFINE Holds(n) == RepliedAs(Spoken(F, f[n]), Earlier(n))
            T == {n \in Nat : n <= N => Holds(n)}
<1>7. 0 \in T
  <2>1. [i \in DOMAIN <<>> |-> F[<<>>[i]]] = <<>>
    OBVIOUS
  <2>2. Spoken(F, <<>>) = <<>>
    BY <2>1, FlattenedNone DEF Spoken
  <2>3. <<>> \in Seq(Saids) /\ DOMAIN <<>> = {}
    BY EmptySeq
  <2>4. Replied(<<>>) /\ RepliesIn(<<>>) = {}
    BY <2>3 DEF Replied, RepliesIn
  <2>5. RepliedAs(<<>>, Earlier(0))
    BY <2>3, <2>4 DEF RepliedAs
  <2>6. QED
    BY <1>5, <2>2, <2>5
<1>8. ASSUME NEW n \in Nat, n \in T PROVE n + 1 \in T
  <2>1. SUFFICES ASSUME n + 1 <= N PROVE Holds(n + 1)
    OBVIOUS
  <2>2. n \in 0..N /\ n + 1 \in 1..N /\ n <= N /\ (n + 1) - 1 = n
    BY <1>1, <2>1
  <2>3. Holds(n)
    BY <1>8, <2>2
  <2>. DEFINE a == Spoken(F, f[n])
              b == Spoken(F, parts[n + 1])
  <2>4. f[n] \in Seq(Entries) /\ parts[n + 1] \in Seq(Entries)
    <3>1. f[n] \in Seq(Entries)
      BY <1>5, <2>2
    <3>2. ms[n + 1] \in Messages /\ parts[n + 1] = TranscriptOf(ms[n + 1])
      BY <1>1, <1>2, <2>2
    <3>3. QED
      BY <3>1, <3>2, TranscriptOfTyped
  <2>5. f[n + 1] = f[n] \o parts[n + 1]
    <3>1. f[n + 1] = f[(n + 1) - 1] \o parts[n + 1]
      BY <1>5, <2>2
    <3>2. QED
      BY <2>2, <3>1, Zenon
  <2>6. Spoken(F, f[n + 1]) = a \o b
    BY <2>4, <2>5, SpokenTogether, Zenon
  <2>7. RepliedAs(b, CallIds(ms[n + 1]))
    <3>1. ms[n + 1] \in Messages /\ DifferentCalls(ms[n + 1]) /\ parts[n + 1] = TranscriptOf(ms[n + 1])
      BY <1>1, <1>2, <2>2 DEF DifferentIn
    <3>2. QED
      BY <3>1, MessageReplied
  <2>8. Earlier(n) \cap CallIds(ms[n + 1]) = {}
    <3>1. ASSUME NEW i \in 1..n PROVE CallIds(ms[i]) \cap CallIds(ms[n + 1]) = {}
      <4>1. i \in DOMAIN ms /\ n + 1 \in DOMAIN ms /\ i # n + 1
        BY <1>1, <2>2
      <4>2. QED
        BY <4>1 DEF DifferentIn
    <3>2. QED
      BY <3>1
  <2>. HIDE DEF a, b
  <2>9. RepliedAs(a, Earlier(n))
    BY <2>3 DEF a
  <2>. HIDE DEF Earlier, Holds
  <2>10. RepliesIn(a) \cap RepliesIn(b) = {}
    BY <2>7, <2>8, <2>9 DEF RepliedAs
  <2>11. /\ a \o b \in Seq(Saids) /\ Replied(a \o b)
         /\ RepliesIn(a \o b) = RepliesIn(a) \cup RepliesIn(b)
    BY <2>7, <2>9, <2>10, RepliedTogether DEF RepliedAs
  <2>12. Earlier(n) \subseteq Earlier(n + 1) /\ CallIds(ms[n + 1]) \subseteq Earlier(n + 1)
    <3>1. 1..n \subseteq 1..(n + 1) /\ n + 1 \in 1..(n + 1)
      OBVIOUS
    <3>2. QED
      BY <3>1, Zenon DEF Earlier
  <2>. DEFINE c == a \o b
  <2>13. c \in Seq(Saids) /\ Replied(c) /\ RepliesIn(c) = RepliesIn(a) \cup RepliesIn(b)
    BY <2>11
  <2>14. Spoken(F, f[n + 1]) = c
    BY <2>6
  <2>. HIDE DEF c
  <2>15. RepliesIn(a) \subseteq Earlier(n + 1) /\ RepliesIn(b) \subseteq Earlier(n + 1)
    BY <2>7, <2>9, <2>12 DEF RepliedAs
  <2>16. RepliedAs(c, Earlier(n + 1))
    BY <2>13, <2>15 DEF RepliedAs
  <2>17. QED
    BY <2>14, <2>16 DEF Holds
<1>. HIDE DEF T
<1>9. \A n \in Nat : n \in T
  BY <1>7, <1>8, NatInductionOnSets
<1>. HIDE DEF Holds
<1>10. Holds(N)
  <2>1. N \in T /\ N <= N
    BY <1>1, <1>9
  <2>2. QED
    BY <2>1 DEF T
<1>11. QED
  BY <1>6, <1>10 DEF RepliedAs, Holds

-----------------------------------------------------------------------------
(* The three protocols, and what is said in each of them.                  *)
LEMMA CallsTyped ==
    ASSUME NEW e \in Entries
    PROVE  Calls(e) \in Seq(Saids)
<1>1. e.calls \in Seq(Strings)
  BY DEF Entries
<1>2. DOMAIN e.calls = 1..Len(e.calls) /\ Len(e.calls) \in Nat
  BY <1>1
<1>3. \A i \in DOMAIN e.calls : Said("call", e.calls[i]) \in Saids
  BY <1>1 DEF Said, Saids, Kinds
<1>4. QED
  BY <1>2, <1>3 DEF Calls

LEMMA SpeakersQuiet ==
    ASSUME NEW kind \in {"user", "assistant", "system"}
    PROVE  <<Said(kind, NoReply)>> \in Seq(Saids) /\ Quiet(<<Said(kind, NoReply)>>)
<1>1. "none" \in Strings
  BY NamesAreStrings
<1>2. Said(kind, NoReply) \in Saids /\ Said(kind, NoReply).kind \notin {"call", "reply"}
  BY <1>1 DEF Said, Saids, Kinds, NoReply
<1>3. QED
  BY <1>2 DEF Quiet

LEMMA ReplyTyped ==
    ASSUME NEW e \in Entries
    PROVE  <<Said("reply", e.reply)>> \in Seq(Saids)
<1>1. Said("reply", e.reply) \in Saids
  BY DEF Entries, Said, Saids, Kinds
<1>2. QED
  BY <1>1

LEMMA TextQuiet ==
    ASSUME NEW e \in Entries, e.role # "tool"
    PROVE  TextOf(e) \in Seq(Saids) /\ Quiet(TextOf(e))
<1>1. e.role \in {"user", "assistant", "system"}
  BY DEF Entries
<1>2. CASE e.texts > 0
  BY <1>1, <1>2, SpeakersQuiet DEF TextOf
<1>3. CASE ~(e.texts > 0)
  <2>1. <<>> \in Seq(Saids) /\ Quiet(<<>>)
    BY EmptySeq DEF Quiet
  <2>2. QED
    BY <1>3, <2>1 DEF TextOf
<1>4. QED
  BY <1>2, <1>3

(* A function that gives for each entry what an operator of the builders   *)
(* says is a protocol, if the operator does what a protocol must.          *)
LEMMA MakesProtocol ==
    ASSUME NEW F, F = [e \in Entries |-> F[e]],
           \A e \in Entries :
              IF e.role = "tool" THEN F[e] = <<Said("reply", e.reply)>>
              ELSE \E before \in Seq(Saids) : Quiet(before) /\ F[e] = before \o Calls(e)
    PROVE  Protocol(F)
<1>1. ASSUME NEW e \in Entries PROVE F[e] \in Seq(Saids)
  <2>1. CASE e.role = "tool"
    BY <2>1, ReplyTyped
  <2>2. CASE e.role # "tool"
    <3>1. PICK before \in Seq(Saids) : F[e] = before \o Calls(e)
      BY <2>2
    <3>2. QED
      BY <3>1, CallsTyped, ConcatProperties
  <2>3. QED
    BY <2>1, <2>2
<1>2. QED
  BY <1>1 DEF Protocol

InputOf(e) ==
    IF e.role = "tool" THEN <<Said("reply", e.reply)>> ELSE TextOf(e) \o Calls(e)

InChat(e) == [role |-> e.role, tool_calls |-> e.calls, tool_call_id |-> e.reply]

LEMMA InputProtocol == Protocol([e \in Entries |-> InputOf(e)])
<1>. DEFINE F == [e \in Entries |-> InputOf(e)]
<1>1. ASSUME NEW e \in Entries, e.role # "tool"
      PROVE  \E before \in Seq(Saids) : Quiet(before) /\ F[e] = before \o Calls(e)
  <2>1. F[e] = TextOf(e) \o Calls(e)
    BY <1>1 DEF InputOf
  <2>2. QED
    BY <1>1, <2>1, TextQuiet
<1>2. \A e \in Entries : e.role = "tool" => F[e] = <<Said("reply", e.reply)>>
  BY DEF InputOf
<1>3. F = [e \in Entries |-> F[e]]
  OBVIOUS
<1>. HIDE DEF F
<1>4. Protocol(F)
  BY <1>1, <1>2, <1>3, MakesProtocol
<1>5. QED
  BY <1>4 DEF F

LEMMA AnthropicProtocol == Protocol([e \in Entries |-> AnthropicBlocks(e)])
<1>. DEFINE F == [e \in Entries |-> AnthropicBlocks(e)]
<1>1. ASSUME NEW e \in Entries, e.role # "tool"
      PROVE  \E before \in Seq(Saids) : Quiet(before) /\ F[e] = before \o Calls(e)
  <2>1. CASE e.texts = 0 /\ e.calls = <<>>
    <3>1. F[e] = <<Said(e.role, NoReply)>>
      BY <1>1, <2>1 DEF AnthropicBlocks
    <3>2. e.role \in {"user", "assistant", "system"}
      BY <1>1 DEF Entries
    <3>3. <<Said(e.role, NoReply)>> \in Seq(Saids) /\ Quiet(<<Said(e.role, NoReply)>>)
      BY <3>2, SpeakersQuiet
    <3>4. Calls(e) = <<>>
      BY <2>1 DEF Calls
    <3>5. <<Said(e.role, NoReply)>> \o Calls(e) = <<Said(e.role, NoReply)>>
      BY <3>3, <3>4, ConcatEmptySeq
    <3>6. QED
      BY <3>1, <3>3, <3>5, Zenon
  <2>2. CASE ~(e.texts = 0 /\ e.calls = <<>>)
    <3>. DEFINE texts == [i \in 1..e.texts |-> Said(e.role, NoReply)]
    <3>1. F[e] = texts \o Calls(e)
      BY <1>1, <2>2 DEF AnthropicBlocks
    <3>2. e.texts \in Nat /\ e.role \in {"user", "assistant", "system"}
      BY <1>1 DEF Entries
    <3>3. Said(e.role, NoReply) \in Saids /\ Said(e.role, NoReply).kind \notin {"call", "reply"}
      <4>1. "none" \in Strings
        BY NamesAreStrings
      <4>2. QED
        BY <3>2, <4>1 DEF Said, Saids, Kinds, NoReply
    <3>4. texts \in Seq(Saids) /\ Quiet(texts)
      BY <3>2, <3>3 DEF Quiet
    <3>. HIDE DEF texts
    <3>5. QED
      BY <3>1, <3>4
  <2>3. QED
    BY <2>1, <2>2
<1>2. \A e \in Entries : e.role = "tool" => F[e] = <<Said("reply", e.reply)>>
  BY DEF AnthropicBlocks
<1>3. F = [e \in Entries |-> F[e]]
  OBVIOUS
<1>. HIDE DEF F
<1>4. Protocol(F)
  BY <1>1, <1>2, <1>3, MakesProtocol
<1>5. QED
  BY <1>4 DEF F

LEMMA ChatProtocol == Protocol([e \in Entries |-> OfChat(InChat(e))])
<1>. DEFINE F == [e \in Entries |-> OfChat(InChat(e))]
<1>0. ASSUME NEW e
      PROVE  OfChat(InChat(e)) =
                IF e.role = "tool" THEN <<Said("reply", e.reply)>>
                ELSE <<Said(e.role, NoReply)>> \o Calls(e)
  BY DEF OfChat, InChat, Calls
<1>1. ASSUME NEW e \in Entries, e.role # "tool"
      PROVE  \E before \in Seq(Saids) : Quiet(before) /\ F[e] = before \o Calls(e)
  <2>1. F[e] = <<Said(e.role, NoReply)>> \o Calls(e)
    BY <1>0, <1>1
  <2>2. e.role \in {"user", "assistant", "system"}
    BY <1>1 DEF Entries
  <2>3. QED
    BY <2>1, <2>2, SpeakersQuiet
<1>2. \A e \in Entries : e.role = "tool" => F[e] = <<Said("reply", e.reply)>>
  BY <1>0
<1>3. F = [e \in Entries |-> F[e]]
  OBVIOUS
<1>. HIDE DEF F
<1>4. Protocol(F)
  BY <1>1, <1>2, <1>3, MakesProtocol
<1>5. QED
  BY <1>4 DEF F

LEMMA AnsweredWhenDifferent ==
    ASSUME NEW ms \in Seq(Messages), DifferentIn(ms)
    PROVE  AnsweredInAll(Transcript(ms))
<1>. DEFINE entries == Transcript(ms)
            F1 == [e \in Entries |-> InputOf(e)]
            F2 == [e \in Entries |-> AnthropicBlocks(e)]
            F3 == [e \in Entries |-> OfChat(InChat(e))]
<1>1. Protocol(F1) /\ Protocol(F2) /\ Protocol(F3)
  BY InputProtocol, AnthropicProtocol, ChatProtocol
<1>2. entries \in Seq(Entries)
  BY <1>1, TranscriptReplied
<1>3. Replied(Spoken(F1, entries)) /\ Replied(Spoken(F2, entries))
      /\ Replied(Spoken(F3, entries)) /\ Spoken(F3, entries) \in Seq(Saids)
  <2>. HIDE DEF F1, F2, F3
  <2>1. QED
    BY <1>1, TranscriptReplied
<1>. HIDE DEF entries
<1>4. \A i \in DOMAIN entries : entries[i] \in Entries
  BY <1>2
<1>5. Spoken(F1, entries) = ResponseInput(entries)
  <2>1. \A i \in DOMAIN entries : F1[entries[i]] = InputOf(entries[i])
    BY <1>4
  <2>. HIDE DEF F1
  <2>2. [i \in DOMAIN entries |-> F1[entries[i]]] =
            [i \in DOMAIN entries |->
                IF entries[i].role = "tool" THEN <<Said("reply", entries[i].reply)>>
                ELSE TextOf(entries[i]) \o Calls(entries[i])]
    BY <2>1, Zenon DEF InputOf
  <2>3. QED
    BY <2>2, Zenon DEF Spoken, ResponseInput
<1>6. /\ DOMAIN AnthropicMessages(entries) = DOMAIN entries
      /\ \A i \in DOMAIN entries :
            AnthropicMessages(entries)[i].blocks = AnthropicBlocks(entries[i])
  BY DEF AnthropicMessages
<1>7. Spoken(F2, entries)
        = FlattenSeq([i \in DOMAIN AnthropicMessages(entries) |->
                        AnthropicMessages(entries)[i].blocks])
  <2>1. \A i \in DOMAIN entries : F2[entries[i]] = AnthropicBlocks(entries[i])
    BY <1>4
  <2>. HIDE DEF F2
  <2>2. [i \in DOMAIN entries |-> F2[entries[i]]] =
            [i \in DOMAIN AnthropicMessages(entries) |-> AnthropicMessages(entries)[i].blocks]
    BY <1>6, <2>1, Zenon
  <2>3. QED
    BY <2>2, Zenon DEF Spoken
(* The chat has the system message ahead.                                  *)
<1>. DEFINE chat == ChatMessages(entries)
            all == [i \in DOMAIN chat |-> OfChat(chat[i])]
            ahead == <<Said("system", NoReply)>>
            parts == [i \in DOMAIN entries |-> F3[entries[i]]]
            N == Len(entries)
<1>8. N \in Nat /\ DOMAIN entries = 1..N
  BY <1>2
<1>9. ahead \in Seq(Saids) /\ Quiet(ahead)
  BY SpeakersQuiet
<1>10. parts \in Seq(Seq(Saids)) /\ Len(parts) = N
  <2>. HIDE DEF F3
  <2>1. QED
    BY <1>1, <1>2, SpokenParts
<1>11. \A i \in 1..N : parts[i] = OfChat(InChat(entries[i]))
  BY <1>4, <1>8
<1>12. Spoken(F3, entries) = FlattenSeq(parts)
  BY DEF Spoken
<1>13. /\ Len(chat) = N + 1 /\ DOMAIN chat = 1..(N + 1)
       /\ chat[1] = [role |-> "system", tool_calls |-> <<>>, tool_call_id |-> NoReply]
       /\ \A i \in 1..N : chat[1 + i] = InChat(entries[i])
  <2>. DEFINE first == <<[role |-> "system", tool_calls |-> <<>>, tool_call_id |-> NoReply]>>
              S == { InChat(entries[i]) : i \in 1..N } \cup {first[1]}
              tail == [i \in DOMAIN entries |-> InChat(entries[i])]
  <2>1. chat = first \o tail
    BY DEF ChatMessages, InChat
  <2>2. Len(first) = 1 /\ first \in Seq(S)
    OBVIOUS
  <2>3. tail \in Seq(S) /\ Len(tail) = N /\ \A i \in 1..N : tail[i] = InChat(entries[i])
    <3>1. \A i \in DOMAIN entries : InChat(entries[i]) \in S
      BY <1>8
    <3>. HIDE DEF S, N
    <3>2. QED
      BY <1>8, <3>1
  <2>4. first[1] = [role |-> "system", tool_calls |-> <<>>, tool_call_id |-> NoReply]
    OBVIOUS
  <2>. HIDE DEF first, tail, S, chat, N
  <2>5. /\ chat \in Seq(S) /\ Len(chat) = Len(first) + Len(tail)
        /\ \A k \in 1..Len(first) : chat[k] = first[k]
        /\ \A k \in 1..Len(tail) : chat[Len(first) + k] = tail[k]
    <3>1. first \in Seq(S) /\ tail \in Seq(S)
      BY <2>2, <2>3
    <3>2. QED
      BY <2>1, <3>1, TwoTogether
  <2>6. DOMAIN chat = 1..Len(chat)
    BY <2>5
  <2>7. chat[1] = first[1]
    BY <2>2, <2>5
  <2>8. QED
    BY <1>8, <2>2, <2>3, <2>4, <2>5, <2>6, <2>7
<1>. HIDE DEF parts, chat, N, ahead, F3
<1>14. all[1] = ahead
  <2>1. OfChat(chat[1]) = ahead
    <3>1. OfChat(chat[1]) = <<Said("system", NoReply)>> \o <<>>
      BY <1>13 DEF OfChat
    <3>2. QED
      BY <1>9, <3>1, ConcatEmptySeq DEF ahead
  <2>2. 1 \in DOMAIN chat
    BY <1>8, <1>13
  <2>3. QED
    BY <2>1, <2>2
<1>15. ASSUME NEW i \in 1..N PROVE all[1 + i] = parts[i]
  <2>1. 1 + i \in DOMAIN chat
    BY <1>8, <1>13
  <2>2. chat[1 + i] = InChat(entries[i]) /\ parts[i] = OfChat(InChat(entries[i]))
    BY <1>11, <1>13
  <2>3. all[1 + i] = OfChat(chat[1 + i])
    BY <2>1
  <2>4. QED
    BY <2>2, <2>3, Zenon
<1>16. all = <<ahead>> \o parts
  <2>. DEFINE Q == Seq(Saids)
              front == <<ahead>>
  <2>1. front \in Seq(Q) /\ Len(front) = 1 /\ front[1] = ahead
    BY <1>9
  <2>2. parts \in Seq(Q)
    BY <1>10
  <2>3. \A i \in 1..N : parts[i] \in Q
    BY <1>8, <1>10, <2>2
  <2>. HIDE DEF Q, front
  <2>4. all = [i \in 1..(N + 1) |-> all[i]]
    BY <1>13
  <2>. HIDE DEF all
  <2>5. ASSUME NEW i \in 1..(N + 1) PROVE all[i] \in Q
    <3>1. CASE i = 1
      BY <1>14, <2>1, <3>1, <1>9 DEF Q
    <3>2. CASE i # 1
      <4>1. i - 1 \in 1..N /\ 1 + (i - 1) = i
        BY <1>8, <3>2
      <4>2. all[1 + (i - 1)] = parts[i - 1] /\ parts[i - 1] \in Q
        BY <1>15, <2>3, <4>1
      <4>3. QED
        BY <4>1, <4>2, Zenon
    <3>3. QED
      BY <3>1, <3>2
  <2>6. all \in Seq(Q) /\ Len(all) = N + 1
    BY <1>8, <2>4, <2>5, MadeSequence
  <2>7. all = front \o parts
    <3>1. Len(all) = Len(front) + Len(parts)
      BY <1>8, <1>10, <2>1, <2>6
    <3>2. \A k \in 1..Len(front) : all[k] = front[k]
      BY <1>14, <2>1
    <3>3. \A k \in 1..Len(parts) : all[Len(front) + k] = parts[k]
      BY <1>10, <1>15, <2>1
    <3>4. QED
      BY <2>1, <2>2, <2>6, <3>1, <3>2, <3>3, MadeOfTwo
  <2>8. QED
    BY <2>7 DEF front
<1>17. FlattenSeq(all) = ahead \o FlattenSeq(parts)
  <2>. DEFINE Q == Seq(Saids)
              front == <<ahead>>
  <2>1. ahead \in Q
    BY <1>9
  <2>. HIDE DEF Q
  <2>2. front \in Seq(Q)
    BY <2>1
  <2>3. front \in Seq(Seq(Saids))
    BY <2>2 DEF Q
  <2>. HIDE DEF front
  <2>4. FlattenSeq(front \o parts) = FlattenSeq(front) \o FlattenSeq(parts)
    BY <1>10, <2>3, FlattenedTogether
  <2>5. FlattenSeq(front) = ahead
    BY <1>9, FlattenedOne DEF front
  <2>6. all = front \o parts
    BY <1>16 DEF front
  <2>7. QED
    BY <2>4, <2>5, <2>6, Zenon
<1>18. Replied(FlattenSeq(all))
  <2>. DEFINE rest == FlattenSeq(parts)
  <2>1. rest \in Seq(Saids) /\ Replied(rest)
    BY <1>3, <1>12
  <2>. HIDE DEF rest
  <2>2. Replied(ahead) /\ RepliesIn(ahead) = {}
    BY <1>9 DEF Quiet, Replied, RepliesIn
  <2>3. Replied(ahead \o rest)
    BY <1>9, <2>1, <2>2, RepliedTogether
  <2>4. QED
    BY <1>17, <2>3 DEF rest
<1>19. Replied(ResponseInput(entries))
  BY <1>3, <1>5, Zenon
<1>20. Replied(FlattenSeq([i \in DOMAIN AnthropicMessages(entries) |->
                            AnthropicMessages(entries)[i].blocks]))
  BY <1>3, <1>7, Zenon
<1>21. Replied(FlattenSeq([i \in DOMAIN ChatMessages(entries) |->
                            OfChat(ChatMessages(entries)[i])]))
  BY <1>18 DEF all, chat
<1>22. AnsweredInAll(entries)
  BY <1>19, <1>20, <1>21, Zenon DEF AnsweredInAll, AnsweredIn
<1>23. QED
  BY <1>22 DEF entries

-----------------------------------------------------------------------------
(* The calls of a conversation differ, because those of different answers  *)
(* do; and so do those of whatever is sent of it.                          *)
LEMMA ConversationDifferent ==
    ASSUME NEW ms \in Seq(Messages), Len(ms) <= MaxMessages, WellCalled(ms)
    PROVE  DifferentIn(ms)
<1>1. Len(ms) \in Nat /\ DOMAIN ms = 1..Len(ms) /\ MaxMessages \in Nat
  BY ConversationAssumption
<1>2. ASSUME NEW i \in DOMAIN ms, NEW j \in DOMAIN ms, i # j
      PROVE  CallIds(ms[i]) \cap CallIds(ms[j]) = {}
  <2>1. /\ i - 1 \in 0..MaxMessages /\ j - 1 \in 0..MaxMessages /\ i - 1 # j - 1
    BY <1>1, <1>2
  <2>2. CalledIn(i - 1) \cap CalledIn(j - 1) = {}
    BY <2>1, CallsAssumption
  <2>3. CallIds(ms[i]) \subseteq CalledIn(i - 1) /\ CallIds(ms[j]) \subseteq CalledIn(j - 1)
    BY DEF WellCalled
  <2>4. QED
    BY <2>2, <2>3
<1>3. QED
  BY <1>2 DEF DifferentIn, WellCalled

LEMMA CallLessIds ==
    ASSUME NEW m, m.calls = <<>>
    PROVE  DifferentCalls(m) /\ CallIds(m) = {}
<1>1. DOMAIN m.calls = {}
  BY EmptySeq
<1>2. QED
  BY <1>1 DEF DifferentCalls, CallIds

LEMMA DifferentBehind ==
    ASSUME NEW a \in Seq(Messages), CallLess(a), NEW b \in Seq(Messages), DifferentIn(b)
    PROVE  a \o b \in Seq(Messages) /\ DifferentIn(a \o b)
<1>. DEFINE c == a \o b
            N == Len(a)
            M == Len(b)
<1>1. /\ c \in Seq(Messages) /\ Len(c) = N + M
      /\ \A k \in 1..N : c[k] = a[k]
      /\ \A k \in 1..M : c[N + k] = b[k]
  <2>1. c = a \o b
    OBVIOUS
  <2>. HIDE DEF c
  <2>2. QED
    BY <2>1, TwoTogether
<1>2. N \in Nat /\ M \in Nat /\ DOMAIN a = 1..N /\ DOMAIN b = 1..M
  OBVIOUS
<1>. HIDE DEF c, N, M
<1>3. DOMAIN c = 1..(N + M)
  BY <1>1, LenProperties
<1>4. ASSUME NEW k \in 1..N PROVE DifferentCalls(c[k]) /\ CallIds(c[k]) = {}
  <2>1. c[k] = a[k] /\ a[k].calls = <<>>
    BY <1>1, <1>2 DEF CallLess
  <2>2. QED
    BY <2>1, CallLessIds
<1>5. ASSUME NEW k \in 1..(N + M), k \notin 1..N
      PROVE  k - N \in DOMAIN b /\ c[k] = b[k - N]
  <2>1. k - N \in 1..M /\ N + (k - N) = k
    BY <1>2, <1>5
  <2>2. c[N + (k - N)] = b[k - N]
    BY <1>1, <2>1
  <2>3. QED
    BY <1>2, <2>1, <2>2, Zenon
<1>6. ASSUME NEW k \in 1..(N + M) PROVE DifferentCalls(c[k])
  <2>1. CASE k \in 1..N
    BY <1>4, <2>1
  <2>2. CASE k \notin 1..N
    BY <1>5, <2>2 DEF DifferentIn
  <2>3. QED
    BY <2>1, <2>2
<1>7. ASSUME NEW i \in 1..(N + M), NEW j \in 1..(N + M), i # j
      PROVE  CallIds(c[i]) \cap CallIds(c[j]) = {}
  <2>1. CASE i \in 1..N
    BY <1>4, <2>1
  <2>2. CASE j \in 1..N
    BY <1>4, <2>2
  <2>3. CASE i \notin 1..N /\ j \notin 1..N
    <3>1. i - N \in DOMAIN b /\ c[i] = b[i - N] /\ j - N \in DOMAIN b /\ c[j] = b[j - N]
      BY <1>5, <2>3
    <3>2. i - N # j - N
      BY <1>2, <1>7
    <3>3. QED
      BY <3>1, <3>2 DEF DifferentIn
  <2>4. QED
    BY <2>1, <2>2, <2>3
<1>8. DifferentIn(c)
  BY <1>3, <1>6, <1>7 DEF DifferentIn
<1>9. QED
  BY <1>1, <1>8 DEF c

LEMMA DifferentPart ==
    ASSUME NEW ms \in Seq(Messages), DifferentIn(ms), NEW first \in 1..Len(ms)
    PROVE  /\ SubSeq(ms, first, Len(ms)) \in Seq(Messages)
           /\ DifferentIn(SubSeq(ms, first, Len(ms)))
<1>. DEFINE N == Len(ms)
            part == SubSeq(ms, first, N)
<1>1. /\ N \in Nat /\ DOMAIN ms = 1..N
      /\ part \in Seq(Messages) /\ Len(part) = N - first + 1
      /\ \A k \in 1..(N - first + 1) : part[k] = ms[first + k - 1]
  OBVIOUS
<1>. HIDE DEF part, N
<1>2. DOMAIN part = 1..(N - first + 1)
  BY <1>1, LenProperties
<1>3. ASSUME NEW k \in DOMAIN part
      PROVE  first + k - 1 \in DOMAIN ms /\ part[k] = ms[first + k - 1]
  <2>1. k \in 1..(N - first + 1) /\ first \in 1..N
    BY <1>2 DEF N
  <2>2. QED
    BY <1>1, <2>1
<1>4. \A k \in DOMAIN part : DifferentCalls(part[k])
  BY <1>3 DEF DifferentIn
<1>5. ASSUME NEW i \in DOMAIN part, NEW j \in DOMAIN part, i # j
      PROVE  CallIds(part[i]) \cap CallIds(part[j]) = {}
  <2>1. first + i - 1 # first + j - 1
    BY <1>2, <1>5, <1>1
  <2>2. QED
    BY <1>3, <2>1 DEF DifferentIn
<1>6. DifferentIn(part)
  BY <1>4, <1>5 DEF DifferentIn
<1>7. QED
  BY <1>1, <1>6 DEF part, N

(* What is too large gives way to a placeholder, but each call stays.      *)
LEMMA SlimmedDifferent ==
    ASSUME NEW ms \in Seq(Messages), DifferentIn(ms)
    PROVE  DifferentIn(SlimmedAll(ms))
<1>. DEFINE slim == SlimmedAll(ms)
<1>1. DOMAIN slim = DOMAIN ms
  BY DEF SlimmedAll
<1>2. ASSUME NEW i \in DOMAIN ms
      PROVE  DifferentCalls(slim[i]) /\ CallIds(slim[i]) = CallIds(ms[i])
  <2>1. slim[i] = Slimmed(ms[i])
    BY DEF SlimmedAll
  <2>2. ms[i] \in Messages /\ DifferentCalls(ms[i])
    BY DEF DifferentIn
  <2>. DEFINE calls == ms[i].calls
              slimmed == slim[i].calls
  <2>3. calls \in Seq(ToolCalls) /\ slimmed \in Seq(ToolCalls)
    BY <2>1, <2>2, SlimmedMessage DEF Messages
  <2>6. DOMAIN slimmed = DOMAIN calls
    BY <2>1, <2>2, <2>3, SlimmedMessage
  <2>5. ASSUME NEW k \in DOMAIN calls PROVE slimmed[k].id = calls[k].id
    BY <2>1, <2>2, <2>3, SlimmedMessage
  <2>7. DifferentCalls(slim[i])
    BY <2>2, <2>5, <2>6 DEF DifferentCalls
  <2>8. CallIds(slim[i]) = CallIds(ms[i])
    BY <2>5, <2>6 DEF CallIds
  <2>9. QED
    BY <2>7, <2>8
<1>. HIDE DEF slim
<1>3. DifferentIn(slim)
  BY <1>1, <1>2 DEF DifferentIn
<1>4. QED
  BY <1>3 DEF slim

LEMMA SentDifferent ==
    ASSUME messages \in Seq(Messages), Len(messages) <= MaxMessages, WellCalled(messages),
           NEW request, MadeOfMessages(request)
    PROVE  request \in Seq(Messages) /\ DifferentIn(request)
<1>. DEFINE context == WorkspaceContext
<1>1. DifferentIn(messages)
  BY ConversationDifferent
<1>2. context \in Seq(Messages) /\ CallLess(context)
  BY ConversationAssumption, CallsAssumption DEF CallLess
<1>3. CASE request = context \o messages
  BY <1>1, <1>2, <1>3, DifferentBehind
<1>4. CASE \E n \in 0..Len(context), marked \in BOOLEAN, first \in 1..Len(messages) :
              request = Sent(n, marked, first)
  <2>1. PICK n \in 0..Len(context), marked \in BOOLEAN, first \in 1..Len(messages) :
            request = Sent(n, marked, first)
    BY <1>4
  <2>. DEFINE slim == SlimmedAll(messages)
              chosen == SubSeq(slim, first, Len(messages))
              kept == SubSeq(context, 1, n)
              marker == <<User(Placeholder)>>
              tail == IF marked THEN marker \o chosen ELSE chosen
  <2>2. slim \in Seq(Messages) /\ Len(slim) = Len(messages)
    BY SlimmedAllMessages
  <2>3. DifferentIn(slim)
    BY <1>1, SlimmedDifferent
  <2>. HIDE DEF slim
  <2>4. chosen \in Seq(Messages) /\ DifferentIn(chosen)
    BY <2>2, <2>3, DifferentPart
  <2>5. kept \in Seq(Messages) /\ CallLess(kept)
    <3>1. /\ kept \in Seq(Messages) /\ Len(kept) = n /\ \A k \in 1..n : kept[k] = context[k]
          /\ DOMAIN context = 1..Len(context) /\ Len(context) \in Nat
      BY <1>2
    <3>. HIDE DEF kept
    <3>2. DOMAIN kept = 1..n /\ \A k \in 1..n : k \in DOMAIN context
      BY <3>1, LenProperties
    <3>3. QED
      BY <1>2, <3>1, <3>2 DEF CallLess
  <2>6. marker \in Seq(Messages) /\ CallLess(marker)
    <3>1. <<>> \in Seq(ToolCalls) /\ <<TextBlock(Placeholder)>> \in Seq(Blocks)
      BY EmptySeq DEF TextBlock, Placeholder, Blocks
    <3>2. User(Placeholder) \in Messages /\ User(Placeholder).calls = <<>>
      BY <3>1 DEF User, Messages
    <3>3. QED
      BY <3>2 DEF CallLess
  <2>7. request = kept \o tail
    BY <2>1, Zenon DEF Sent, slim
  <2>. HIDE DEF chosen, kept, marker
  <2>8. tail \in Seq(Messages) /\ DifferentIn(tail)
    BY <2>4, <2>6, DifferentBehind
  <2>. HIDE DEF tail
  <2>9. QED
    BY <2>5, <2>7, <2>8, DifferentBehind
<1>5. QED
  BY <1>3, <1>4 DEF MadeOfMessages

(* In whatever state a run was left, and however much of the conversation  *)
(* was cut, a request in any of the protocols has each call answered once, *)
(* after it and before anything else is said, and no reply without its     *)
(* call (llm_shared.ts:38).                                                *)
THEOREM RequestsAnswered == Spec => []RequestAnswered
<1>1. ConversationInv => RequestAnswered
  <2>. SUFFICES ASSUME ConversationInv, phase = "ready", Request.fits
                PROVE  AnsweredInAll(Transcript(Request.messages))
    BY DEF RequestAnswered
  <2>1. /\ messages \in Seq(Messages) /\ messages # <<>> /\ messages[1].role = "user"
        /\ Len(messages) <= MaxMessages /\ WellCalled(messages)
    BY DEF ConversationInv
  <2>2. MadeOfMessages(Request.messages)
    BY <2>1, RequestKeepsLatest
  <2>. DEFINE request == Request.messages
  <2>3. MadeOfMessages(request)
    BY <2>2
  <2>. HIDE DEF request
  <2>4. request \in Seq(Messages) /\ DifferentIn(request)
    BY <2>1, <2>3, SentDifferent
  <2>5. AnsweredInAll(Transcript(request))
    BY <2>4, AnsweredWhenDifferent
  <2>6. QED
    BY <2>5 DEF request
<1>2. QED
  BY <1>1, ConversationInvariant, PTL
=============================================================================
