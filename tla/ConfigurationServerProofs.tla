--------------------- MODULE ConfigurationServerProofs ----------------------
(***************************************************************************)
(* What ConfigurationServer promises, for every set of administrators,     *)
(* sessions, clients and assertions, every limit and every bound.          *)
(*                                                                         *)
(* The inductive invariant speaks of both documents, the one in memory and *)
(* the one a restart reads, and of what the callers were told: a promise   *)
(* survives a failed write and a restart only when both documents keep it. *)
(***************************************************************************)
EXTENDS ConfigurationServer, SequenceLemmas, FiniteSetTheorems

SessionRecords == [token : Sessions, expiresAt : Nat]

-----------------------------------------------------------------------------
(* Lists of sessions.                                                      *)

(* f picks positions in their order.                                       *)
Rising(f, n) == \A j, k \in 1..n : j < k => f[j] < f[k]

(* The sessions of s are some of those of log, in the order of log.        *)
OrderedIn(s, log) ==
    \E f \in [1..Len(s) -> 1..Len(log)] :
        /\ Rising(f, Len(s))
        /\ \A k \in 1..Len(s) : s[k] = log[f[k]]

(* Each token was given to one session only.                               *)
TokensOnce(log) == \A i, j \in 1..Len(log) : log[i].token = log[j].token => i = j

(* What the document's list s owes to those who were told: log has the     *)
(* sessions made so far, given the tokens that are in use, gone those      *)
(* whose logout was confirmed, and t is the time.                          *)
Owed(s, log, given, gone, t) ==
    /\ OrderedIn(s, log)
    /\ \A k \in 1..Len(s) : s[k].token \notin gone
    /\ \A i \in 1..Len(log) :
         (log[i].token \in given /\ t < log[i].expiresAt /\ Len(log) - i < MaxSessions)
         => \E k \in 1..Len(s) : s[k] = log[i]

(* What rises from one number to another does not rise faster: behind the  *)
(* k-th of L positions there are L - k more.                               *)
LEMMA RisingBound ==
    ASSUME NEW L \in Nat, NEW N \in Nat, NEW f \in [1..L -> 1..N], Rising(f, L)
    PROVE  \A k \in 1..L : f[k] <= N - (L - k)
<1>. DEFINE T == {n \in Nat : n < L => f[L - n] <= N - n}
<1>1. 0 \in T
  OBVIOUS
<1>2. ASSUME NEW n \in Nat, n \in T
      PROVE  n + 1 \in T
  <2>1. SUFFICES ASSUME n + 1 < L
                 PROVE  f[L - (n + 1)] <= N - (n + 1)
    OBVIOUS
  <2>2. /\ L - (n + 1) \in 1..L /\ L - n \in 1..L
        /\ L - (n + 1) < L - n
    BY <2>1
  <2>3. f[L - (n + 1)] < f[L - n] /\ f[L - n] <= N - n
    BY <1>2, <2>1, <2>2 DEF Rising
  <2>4. f[L - (n + 1)] \in 1..N /\ f[L - n] \in 1..N
    BY <2>2
  <2>. HIDE DEF T
  <2>5. QED
    BY <2>3, <2>4
<1>. HIDE DEF T
<1>3. \A n \in Nat : n \in T
  BY <1>1, <1>2, NatInductionOnSets
<1>4. ASSUME NEW k \in 1..L
      PROVE  f[k] <= N - (L - k)
  <2>1. L - k \in Nat /\ L - k < L /\ L - (L - k) = k
    OBVIOUS
  <2>2. f[L - (L - k)] <= N - (L - k)
    BY <1>3, <2>1 DEF T
  <2>3. QED
    BY <2>1, <2>2
<1>5. QED
  BY <1>4

(* Less is owed: time has passed, or fewer tokens are in use or gone.      *)
LEMMA LessOwed ==
    ASSUME NEW s \in Seq(SessionRecords), NEW log \in Seq(SessionRecords),
           NEW given, NEW gone, NEW t \in Nat, Owed(s, log, given, gone, t),
           NEW fewer \in SUBSET given, NEW less \in SUBSET gone, NEW u \in Nat, t <= u
    PROVE  Owed(s, log, fewer, less, u)
<1>1. \A i \in 1..Len(log) : log[i].expiresAt \in Nat
  <2>1. \A i \in 1..Len(log) : log[i] \in SessionRecords
    BY ElementOfSeq
  <2>2. QED
    BY <2>1 DEF SessionRecords
<1>2. ASSUME NEW i \in 1..Len(log), log[i].token \in fewer, u < log[i].expiresAt,
             Len(log) - i < MaxSessions
      PROVE  \E k \in 1..Len(s) : s[k] = log[i]
  <2>1. log[i].token \in given /\ t < log[i].expiresAt
    BY <1>1, <1>2
  <2>2. QED
    BY <1>2, <2>1 DEF Owed
<1>3. OrderedIn(s, log) /\ \A k \in 1..Len(s) : s[k].token \notin less
  BY DEF Owed
<1>4. QED
  BY <1>2, <1>3 DEF Owed

(* A session that was made but is not in this list: nobody has it.         *)
LEMMA OwedWithoutNewest ==
    ASSUME NEW s \in Seq(SessionRecords), NEW log \in Seq(SessionRecords),
           NEW given, NEW gone, NEW t \in Nat, Owed(s, log, given, gone, t),
           NEW e \in SessionRecords, e.token \notin given
    PROVE  Owed(s, Append(log, e), given, gone, t)
<1>. DEFINE more == Append(log, e)
<1>1. /\ Len(log) \in Nat /\ Len(s) \in Nat
      /\ more \in Seq(SessionRecords) /\ Len(more) = Len(log) + 1
      /\ \A i \in 1..Len(log) : more[i] = log[i]
      /\ more[Len(log) + 1] = e
  BY LenProperties, AppendProperties
<1>. HIDE DEF more
<1>2. OrderedIn(s, more)
  <2>1. PICK f \in [1..Len(s) -> 1..Len(log)] :
           Rising(f, Len(s)) /\ \A k \in 1..Len(s) : s[k] = log[f[k]]
    BY DEF Owed, OrderedIn
  <2>2. \A k \in 1..Len(s) : f[k] \in 1..Len(log) /\ f[k] \in 1..Len(more)
    BY <1>1, <2>1
  <2>3. f \in [1..Len(s) -> 1..Len(more)]
    BY <2>1, <2>2
  <2>4. \A k \in 1..Len(s) : s[k] = more[f[k]]
    BY <1>1, <2>1, <2>2
  <2>5. QED
    BY <2>1, <2>3, <2>4 DEF OrderedIn
<1>3. \A k \in 1..Len(s) : s[k].token \notin gone
  BY DEF Owed
<1>4. ASSUME NEW i \in 1..Len(more), more[i].token \in given, t < more[i].expiresAt,
             Len(more) - i < MaxSessions
      PROVE  \E k \in 1..Len(s) : s[k] = more[i]
  <2>1. i \in 1..Len(log)
    BY <1>1, <1>4
  <2>2. more[i] = log[i] /\ Len(log) - i < MaxSessions
    BY <1>1, <1>4, <2>1, StoreAssumption
  <2>3. QED
    BY <1>4, <2>1, <2>2 DEF Owed
<1>5. Owed(s, more, given, gone, t)
  BY <1>2, <1>3, <1>4 DEF Owed
<1>6. QED
  BY <1>5 DEF more

(* filter() of a list in order is in order.                                *)
LEMMA KeptInOrder ==
    ASSUME NEW s \in Seq(SessionRecords), NEW log \in Seq(SessionRecords),
           NEW W, OrderedIn(s, log)
    PROVE  OrderedIn(Kept(s, W), log)
<1>. DEFINE p == Kept(s, W)
<1>1. /\ p \in Seq(SessionRecords)
      /\ \E g \in [1..Len(p) -> 1..Len(s)] :
            /\ \A j, k \in 1..Len(p) : j < k => g[j] < g[k]
            /\ \A k \in 1..Len(p) : p[k] = s[g[k]] /\ s[g[k]] \in W
            /\ \A i \in 1..Len(s) : s[i] \in W => \E k \in 1..Len(p) : i = g[k]
  <2>. HIDE DEF p
  <2>1. s \in Seq(SessionRecords)
    OBVIOUS
  <2>2. QED
    BY <2>1, KeptProperties, SMTT(30) DEF p
<1>. HIDE DEF p
<1>2. PICK g \in [1..Len(p) -> 1..Len(s)] :
            /\ \A j, k \in 1..Len(p) : j < k => g[j] < g[k]
            /\ \A k \in 1..Len(p) : p[k] = s[g[k]]
  BY <1>1
<1>3. PICK f \in [1..Len(s) -> 1..Len(log)] :
         Rising(f, Len(s)) /\ \A k \in 1..Len(s) : s[k] = log[f[k]]
  BY DEF OrderedIn
<1>. DEFINE h == [k \in 1..Len(p) |-> f[g[k]]]
<1>4. \A k \in 1..Len(p) : g[k] \in 1..Len(s)
  BY <1>2
<1>5. h \in [1..Len(p) -> 1..Len(log)]
  BY <1>3, <1>4
<1>6. Rising(h, Len(p))
  BY <1>2, <1>3, <1>4 DEF Rising
<1>7. \A k \in 1..Len(p) : p[k] = log[h[k]]
  BY <1>2, <1>3, <1>4
<1>. HIDE DEF h
<1>8. OrderedIn(p, log)
  BY <1>5, <1>6, <1>7 DEF OrderedIn
<1>9. QED
  BY <1>8 DEF p

(* A logout takes the session out of the list, and no other.               *)
LEMMA OwedAfterLogout ==
    ASSUME NEW s \in Seq(SessionRecords), NEW log \in Seq(SessionRecords),
           NEW given, NEW gone, NEW t \in Nat, Owed(s, log, given, gone, t),
           NEW token \in Sessions
    PROVE  LET p == Kept(s, [token : Sessions \ {token}, expiresAt : Nat]) IN
           /\ p \in Seq(SessionRecords) /\ Len(p) <= Len(s)
           /\ Owed(p, log, given \ {token}, gone \cup {token}, t)
<1>. DEFINE S == [token : Sessions \ {token}, expiresAt : Nat]
            p == Kept(s, S)
<1>1. /\ p \in Seq(SessionRecords)
      /\ \E g \in [1..Len(p) -> 1..Len(s)] :
            /\ \A j, k \in 1..Len(p) : j < k => g[j] < g[k]
            /\ \A k \in 1..Len(p) : p[k] = s[g[k]] /\ s[g[k]] \in S
            /\ \A i \in 1..Len(s) : s[i] \in S => \E k \in 1..Len(p) : i = g[k]
  <2>. HIDE DEF p, S
  <2>1. s \in Seq(SessionRecords)
    OBVIOUS
  <2>2. QED
    BY <2>1, KeptProperties, SMTT(30) DEF p
<1>2. OrderedIn(p, log)
  <2>1. OrderedIn(s, log)
    BY DEF Owed
  <2>. HIDE DEF S
  <2>2. QED
    BY <2>1, KeptInOrder
<1>. HIDE DEF p
<1>3. PICK g \in [1..Len(p) -> 1..Len(s)] :
            /\ \A j, k \in 1..Len(p) : j < k => g[j] < g[k]
            /\ \A k \in 1..Len(p) : p[k] = s[g[k]] /\ s[g[k]] \in S
            /\ \A i \in 1..Len(s) : s[i] \in S => \E k \in 1..Len(p) : i = g[k]
  BY <1>1
<1>4. Len(p) \in Nat /\ Len(s) \in Nat
  BY <1>1, LenProperties
<1>5. Len(p) <= Len(s)
  <2>1. CASE Len(p) = 0
    BY <2>1, <1>4
  <2>2. CASE Len(p) # 0
    <3>1. Rising(g, Len(p))
      BY <1>3 DEF Rising
    <3>2. \A k \in 1..Len(p) : g[k] <= Len(s) - (Len(p) - k)
      BY <1>3, <1>4, <3>1, RisingBound
    <3>3. 1 \in 1..Len(p) /\ g[1] \in 1..Len(s)
      BY <1>3, <1>4, <2>2
    <3>4. g[1] <= Len(s) - (Len(p) - 1)
      BY <3>2, <3>3
    <3>5. QED
      BY <1>4, <3>3, <3>4
  <2>3. QED
    BY <2>1, <2>2
<1>6. \A k \in 1..Len(p) : p[k].token \notin gone \cup {token}
  <2>1. \A k \in 1..Len(p) : g[k] \in 1..Len(s)
    BY <1>3
  <2>2. \A k \in 1..Len(p) : p[k].token # token
    BY <1>3
  <2>3. QED
    BY <1>3, <2>1, <2>2 DEF Owed
<1>7. ASSUME NEW i \in 1..Len(log), log[i].token \in given \ {token}, t < log[i].expiresAt,
             Len(log) - i < MaxSessions
      PROVE  \E k \in 1..Len(p) : p[k] = log[i]
  <2>1. PICK j \in 1..Len(s) : s[j] = log[i]
    BY <1>7 DEF Owed
  <2>2. s[j] \in SessionRecords
    BY <2>1, ElementOfSeq
  <2>3. s[j] \in S
    BY <1>7, <2>1, <2>2 DEF SessionRecords
  <2>. HIDE DEF S
  <2>4. PICK k \in 1..Len(p) : j = g[k]
    BY <1>3, <2>3
  <2>5. QED
    BY <1>3, <2>1, <2>4
<1>8. Owed(p, log, given \ {token}, gone \cup {token}, t)
  BY <1>2, <1>6, <1>7 DEF Owed
<1>9. QED
  BY <1>1, <1>5, <1>8 DEF p

(* A login drops what has expired and, of the rest, keeps the newest that  *)
(* there is room for.                                                      *)
LEMMA OwedAfterLogin ==
    ASSUME NEW s \in Seq(SessionRecords), NEW log \in Seq(SessionRecords),
           NEW given, NEW gone, NEW t \in Nat, Owed(s, log, given, gone, t),
           TokensOnce(log), NEW e \in SessionRecords, e.token \notin gone,
           \A i \in 1..Len(log) : log[i].token # e.token
    PROVE  LET live == Kept(s, [token : Sessions, expiresAt : {x \in Nat : x > t}])
               p == Append(NewestKept(live), e)
           IN  /\ p \in Seq(SessionRecords) /\ Len(p) <= MaxSessions
               /\ Owed(p, Append(log, e), given \cup {e.token}, gone, t)
<1>. DEFINE W == [token : Sessions, expiresAt : {x \in Nat : x > t}]
            live == Kept(s, W)
            rest == NewestKept(live)
            p == Append(rest, e)
            more == Append(log, e)
            from == IF Len(live) < MaxSessions THEN 0 ELSE 1 + Len(live) - MaxSessions
<1>1. live \in Seq(SessionRecords)
  <2>. HIDE DEF W
  <2>1. s \in Seq(SessionRecords)
    OBVIOUS
  <2>2. QED
    BY <2>1, KeptProperties, SMTT(30)
<1>2. \A j \in 1..Len(s) : s[j] \in W => \E k \in 1..Len(live) : live[k] = s[j]
  <2>. HIDE DEF W
  <2>1. s \in Seq(SessionRecords)
    OBVIOUS
  <2>2. \E g \in [1..Len(live) -> 1..Len(s)] :
            /\ \A k \in 1..Len(live) : live[k] = s[g[k]]
            /\ \A i \in 1..Len(s) : s[i] \in W => \E k \in 1..Len(live) : i = g[k]
    BY <2>1, KeptProperties, SMTT(30)
  <2>. HIDE DEF live
  <2>3. PICK g \in [1..Len(live) -> 1..Len(s)] :
            /\ \A k \in 1..Len(live) : live[k] = s[g[k]]
            /\ \A i \in 1..Len(s) : s[i] \in W => \E k \in 1..Len(live) : i = g[k]
    BY <2>2
  <2>4. ASSUME NEW j \in 1..Len(s), s[j] \in W
        PROVE  \E k \in 1..Len(live) : live[k] = s[j]
    <3>1. PICK k \in 1..Len(live) : j = g[k]
      BY <2>3, <2>4
    <3>2. QED
      BY <2>3, <3>1
  <2>5. QED
    BY <2>4
<1>3. \A k \in 1..Len(live) : live[k].token \notin gone
  <2>. HIDE DEF W
  <2>1. s \in Seq(SessionRecords)
    OBVIOUS
  <2>2. \E g \in [1..Len(live) -> 1..Len(s)] : \A k \in 1..Len(live) : live[k] = s[g[k]]
    BY <2>1, KeptProperties, SMTT(30)
  <2>. HIDE DEF live
  <2>3. QED
    BY <2>2 DEF Owed
<1>4. OrderedIn(live, log)
  <2>. HIDE DEF W
  <2>1. OrderedIn(s, log)
    BY DEF Owed
  <2>2. QED
    BY <2>1, KeptInOrder
<1>5. \A j \in 1..Len(s) : s[j] \in W <=> t < s[j].expiresAt
  <2>1. \A j \in 1..Len(s) : s[j] \in SessionRecords
    BY ElementOfSeq
  <2>2. \A x \in SessionRecords : x \in W <=> t < x.expiresAt
    BY DEF SessionRecords
  <2>3. QED
    BY <2>1, <2>2
<1>. HIDE DEF live, W
<1>6. Len(live) \in Nat /\ MaxSessions \in Nat /\ MaxSessions > 0 /\ from \in 0..Len(live)
  BY <1>1, LenProperties, StoreAssumption
<1>7. /\ rest \in Seq(SessionRecords) /\ Len(rest) = Len(live) - from
      /\ \A k \in 1..Len(rest) : rest[k] = live[from + k]
  <2>1. CASE Len(live) < MaxSessions
    BY <2>1, <1>1, <1>6 DEF NewestKept
  <2>2. CASE ~(Len(live) < MaxSessions)
    <3>1. rest = SubSeq(live, from + 1, Len(live))
      <4>1. 2 + Len(live) - MaxSessions = from + 1
        BY <2>2, <1>6
      <4>2. QED
        BY <2>2, <4>1 DEF NewestKept
    <3>2. \A k \in (from + 1)..Len(live) : live[k] \in SessionRecords
      <4>1. \A k \in (from + 1)..Len(live) : k \in 1..Len(live)
        BY <1>6
      <4>2. QED
        BY <1>1, <4>1, ElementOfSeq
    <3>3. from + 1 \in Int /\ Len(live) \in Int
      BY <1>6
    <3>. HIDE DEF rest, from
    <3>4. /\ rest \in Seq(SessionRecords)
          /\ Len(rest) = IF from + 1 <= Len(live) THEN Len(live) - (from + 1) + 1 ELSE 0
          /\ \A k \in 1..(Len(live) - (from + 1) + 1) : rest[k] = live[(from + 1) + k - 1]
      BY <3>1, <3>2, <3>3, SubSeqProperties
    <3>5. Len(rest) = Len(live) - from
      BY <1>6, <3>4
    <3>6. ASSUME NEW k \in 1..Len(rest)
          PROVE  rest[k] = live[from + k]
      <4>1. k \in 1..(Len(live) - (from + 1) + 1) /\ (from + 1) + k - 1 = from + k
        BY <1>6, <3>5
      <4>2. QED
        BY <3>4, <4>1
    <3>7. QED
      BY <3>4, <3>5, <3>6
  <2>3. QED
    BY <2>1, <2>2
<1>. HIDE DEF rest
<1>8. Len(rest) < MaxSessions /\ Len(rest) \in Nat
  BY <1>6, <1>7
<1>9. /\ p \in Seq(SessionRecords) /\ Len(p) = Len(rest) + 1
      /\ \A k \in 1..Len(rest) : p[k] = rest[k]
      /\ p[Len(rest) + 1] = e
  BY <1>7, AppendProperties
<1>10. /\ Len(log) \in Nat
       /\ more \in Seq(SessionRecords) /\ Len(more) = Len(log) + 1
       /\ \A i \in 1..Len(log) : more[i] = log[i]
       /\ more[Len(log) + 1] = e
  BY LenProperties, AppendProperties
<1>. HIDE DEF p, more, from
<1>11. PICK f \in [1..Len(live) -> 1..Len(log)] :
         Rising(f, Len(live)) /\ \A k \in 1..Len(live) : live[k] = log[f[k]]
  BY <1>4 DEF OrderedIn
<1>12. \A k \in 1..Len(live) : f[k] <= Len(log) - (Len(live) - k)
  BY <1>6, <1>10, <1>11, RisingBound
<1>13. \A k \in 1..Len(rest) : from + k \in 1..Len(live) /\ f[from + k] \in 1..Len(log)
  <2>1. ASSUME NEW k \in 1..Len(rest)
        PROVE  from + k \in 1..Len(live)
    BY <1>6, <1>7
  <2>2. QED
    BY <2>1, <1>11
<1>14. OrderedIn(p, more)
  <2>. DEFINE h == [k \in 1..Len(p) |-> IF k <= Len(rest) THEN f[from + k] ELSE Len(more)]
  <2>1. h \in [1..Len(p) -> 1..Len(more)]
    BY <1>8, <1>9, <1>10, <1>13
  <2>2. ASSUME NEW j \in 1..Len(p), NEW k \in 1..Len(p), j < k
        PROVE  h[j] < h[k]
    <3>1. j \in 1..Len(rest)
      BY <2>2, <1>8, <1>9
    <3>2. CASE k \in 1..Len(rest)
      <4>1. from + j < from + k
        BY <2>2, <1>6, <1>8
      <4>2. f[from + j] < f[from + k]
        BY <3>1, <3>2, <4>1, <1>11, <1>13 DEF Rising
      <4>3. QED
        BY <3>1, <3>2, <4>2, <1>8
    <3>3. CASE k \notin 1..Len(rest)
      <4>1. h[k] = Len(more) /\ h[j] = f[from + j]
        BY <3>1, <3>3, <1>8, <1>9
      <4>2. QED
        BY <3>1, <4>1, <1>10, <1>13
    <3>4. QED
      BY <3>2, <3>3
  <2>3. ASSUME NEW k \in 1..Len(p)
        PROVE  p[k] = more[h[k]]
    <3>1. CASE k \in 1..Len(rest)
      <4>1. h[k] = f[from + k] /\ p[k] = live[from + k]
        BY <3>1, <1>7, <1>8, <1>9
      <4>2. QED
        BY <3>1, <4>1, <1>10, <1>11, <1>13
    <3>2. CASE k \notin 1..Len(rest)
      <4>1. h[k] = Len(more) /\ k = Len(rest) + 1
        BY <3>2, <1>8, <1>9
      <4>2. QED
        BY <4>1, <1>9, <1>10
    <3>3. QED
      BY <3>1, <3>2
  <2>. HIDE DEF h
  <2>4. Rising(h, Len(p))
    BY <2>2 DEF Rising
  <2>5. QED
    BY <2>1, <2>3, <2>4 DEF OrderedIn
<1>15. ASSUME NEW k \in 1..Len(p)
       PROVE  p[k].token \notin gone
  <2>1. CASE k \in 1..Len(rest)
    <3>1. p[k] = live[from + k] /\ from + k \in 1..Len(live)
      BY <2>1, <1>7, <1>9, <1>13
    <3>2. QED
      BY <3>1, <1>3
  <2>2. CASE k \notin 1..Len(rest)
    <3>1. p[k] = e
      BY <2>2, <1>8, <1>9
    <3>2. QED
      BY <3>1
  <2>3. QED
    BY <2>1, <2>2
<1>16. ASSUME NEW i \in 1..Len(more), more[i].token \in given \cup {e.token},
              t < more[i].expiresAt, Len(more) - i < MaxSessions
       PROVE  \E k \in 1..Len(p) : p[k] = more[i]
  <2>1. CASE more[i] = e
    <3>1. Len(p) \in 1..Len(p) /\ p[Len(p)] = e
      BY <1>8, <1>9
    <3>2. QED
      BY <2>1, <3>1
  <2>2. CASE i \in 1..Len(log) /\ more[i].token \in given
    <3>1. /\ log[i] = more[i] /\ Len(log) - i < MaxSessions /\ Len(log) + 1 - i < MaxSessions
      BY <2>2, <1>6, <1>10, <1>16
    <3>2. PICK j \in 1..Len(s) : s[j] = log[i]
      BY <2>2, <3>1, <1>16 DEF Owed
    <3>3. PICK k \in 1..Len(live) : live[k] = log[i]
      <4>1. s[j] \in W
        BY <3>1, <3>2, <1>5, <1>16
      <4>2. QED
        BY <3>2, <4>1, <1>2
    <3>4. f[k] = i
      <4>1. f[k] \in 1..Len(log) /\ log[f[k]].token = log[i].token
        BY <3>3, <1>11
      <4>2. QED
        BY <4>1, <2>2 DEF TokensOnce
    <3>5. i <= Len(log) - (Len(live) - k)
      BY <3>4, <1>12
    <3>6. k > from
      BY <3>1, <3>5, <1>6, <1>10 DEF from
    <3>7. /\ k - from \in 1..Len(rest) /\ k - from \in 1..Len(p)
          /\ from + (k - from) = k
      BY <3>6, <1>6, <1>7, <1>8, <1>9
    <3>8. p[k - from] = log[i]
      BY <3>3, <3>7, <1>7, <1>9
    <3>9. QED
      BY <3>1, <3>7, <3>8
  <2>3. CASE i \in 1..Len(log) /\ more[i].token \notin given
    <3>1. more[i] = log[i] /\ log[i].token = e.token
      BY <2>3, <1>10, <1>16
    <3>2. QED
      BY <2>3, <3>1
  <2>4. i \in 1..Len(log) \/ i = Len(log) + 1
    BY <1>10
  <2>5. QED
    BY <2>1, <2>2, <2>3, <2>4, <1>10
<1>17. Owed(p, more, given \cup {e.token}, gone, t)
  BY <1>14, <1>15, <1>16 DEF Owed
<1>18. Len(p) <= MaxSessions
  BY <1>6, <1>8, <1>9
<1>19. QED
  BY <1>9, <1>17, <1>18 DEF p, rest, live, W, more

-----------------------------------------------------------------------------
(* Lists of times.  Of one client, q has the requests that were admitted   *)
(* since the process started and p those the limiter remembers; t is the   *)
(* time.                                                                   *)

Sorted(q, t) ==
    \A i \in 1..Len(q) : q[i] <= t /\ \A j \in 1..Len(q) : i <= j => q[i] <= q[j]

Recent(q, t) == {i \in 1..Len(q) : q[i] > t - Window}

(* Every recent request is remembered, each by an entry of its own.        *)
Tracks(q, p, t) ==
    \E g \in [Recent(q, t) -> 1..Len(p)] :
        /\ \A i, j \in Recent(q, t) : g[i] = g[j] => i = j
        /\ \A i \in Recent(q, t) : p[g[i]] = q[i]

Spread(q) ==
    \A i, j \in 1..Len(q) : (i <= j /\ q[j] - q[i] < Window) => j - i < Limit

Limited(q, p, t) == Sorted(q, t) /\ Sorted(p, t) /\ Tracks(q, p, t) /\ Spread(q)

LEMMA NatEntries ==
    ASSUME NEW q \in Seq(Nat)
    PROVE  Len(q) \in Nat /\ \A i \in 1..Len(q) : q[i] \in Nat
BY LenProperties, ElementOfSeq

LEMMA LimitedAtFirst ==
    ASSUME NEW t \in Nat
    PROVE  Limited(<<>>, <<>>, t)
<1>1. Len(<<>>) = 0 /\ 1..0 = {}
  OBVIOUS
<1>2. Recent(<<>>, t) = {}
  BY <1>1 DEF Recent
<1>3. Tracks(<<>>, <<>>, t)
  <2>. DEFINE g == [i \in {} |-> 1]
  <2>1. g \in [{} -> 1..0]
    OBVIOUS
  <2>2. QED
    BY <1>1, <1>2, <2>1 DEF Tracks
<1>4. QED
  BY <1>1, <1>3 DEF Limited, Sorted, Spread

(* A moment later fewer requests are recent.                               *)
LEMMA LimitedLater ==
    ASSUME NEW q \in Seq(Nat), NEW p \in Seq(Nat), NEW t \in Nat, Limited(q, p, t)
    PROVE  Limited(q, p, t + 1)
<1>1. Len(q) \in Nat /\ \A i \in 1..Len(q) : q[i] \in Nat
  BY NatEntries
<1>2. Len(p) \in Nat /\ \A i \in 1..Len(p) : p[i] \in Nat
  BY NatEntries
<1>3. Sorted(q, t + 1) /\ Sorted(p, t + 1) /\ Spread(q)
  BY <1>1, <1>2 DEF Limited, Sorted
<1>4. Tracks(q, p, t + 1)
  <2>1. Recent(q, t + 1) \subseteq Recent(q, t)
    BY <1>1, LimiterAssumption DEF Recent
  <2>2. PICK g \in [Recent(q, t) -> 1..Len(p)] :
          /\ \A i, j \in Recent(q, t) : g[i] = g[j] => i = j
          /\ \A i \in Recent(q, t) : p[g[i]] = q[i]
    BY DEF Limited, Tracks
  <2>. DEFINE h == [i \in Recent(q, t + 1) |-> g[i]]
  <2>3. h \in [Recent(q, t + 1) -> 1..Len(p)]
    BY <2>1, <2>2
  <2>4. /\ \A i, j \in Recent(q, t + 1) : h[i] = h[j] => i = j
        /\ \A i \in Recent(q, t + 1) : p[h[i]] = q[i]
    BY <2>1, <2>2
  <2>. HIDE DEF h
  <2>5. QED
    BY <2>3, <2>4 DEF Tracks
<1>5. QED
  BY <1>3, <1>4 DEF Limited

(* Nothing recent is forgotten when the newest entry has left the window.  *)
LEMMA LimitedWhenDropped ==
    ASSUME NEW q \in Seq(Nat), NEW p \in Seq(Nat), NEW t \in Nat, Limited(q, p, t),
           p[Len(p)] <= t - Window
    PROVE  Limited(q, <<>>, t)
<1>1. Len(q) \in Nat /\ \A i \in 1..Len(q) : q[i] \in Nat
  BY NatEntries
<1>2. Len(p) \in Nat /\ \A i \in 1..Len(p) : p[i] \in Nat
  BY NatEntries
<1>3. Recent(q, t) = {}
  <2>1. SUFFICES ASSUME NEW i \in Recent(q, t) PROVE FALSE
    OBVIOUS
  <2>2. PICK g \in [Recent(q, t) -> 1..Len(p)] : \A k \in Recent(q, t) : p[g[k]] = q[k]
    BY DEF Limited, Tracks
  <2>3. g[i] \in 1..Len(p) /\ p[g[i]] = q[i] /\ q[i] > t - Window
    BY <2>2 DEF Recent
  <2>4. Len(p) \in 1..Len(p) /\ g[i] <= Len(p)
    BY <1>2, <2>3
  <2>5. p[g[i]] <= p[Len(p)]
    BY <2>3, <2>4 DEF Limited, Sorted
  <2>6. p[g[i]] \in Nat /\ p[Len(p)] \in Nat /\ Window \in Nat
    BY <1>2, <2>3, <2>4, LimiterAssumption
  <2>7. QED
    BY <2>3, <2>5, <2>6
<1>4. Limited(<<>>, <<>>, t)
  BY LimitedAtFirst
<1>5. Tracks(q, <<>>, t)
  <2>1. Recent(<<>>, t) = {}
    <3>1. Len(<<>>) = 0 /\ 1..0 = {}
      OBVIOUS
    <3>2. QED
      BY <3>1 DEF Recent
  <2>2. PICK g \in [{} -> 1..Len(<<>>)] : TRUE
    BY <1>4, <2>1 DEF Limited, Tracks
  <2>3. QED
    BY <1>3, <2>2 DEF Tracks
<1>6. QED
  BY <1>4, <1>5 DEF Limited

(* Nor when the entries that have left the window are filtered out.        *)
LEMMA LimitedWhenFiltered ==
    ASSUME NEW q \in Seq(Nat), NEW p \in Seq(Nat), NEW t \in Nat, Limited(q, p, t)
    PROVE  InWindow(p, t) \in Seq(Nat) /\ Limited(q, InWindow(p, t), t)
<1>. DEFINE W == {x \in Nat : x > t - Window}
            r == Kept(p, W)
<1>1. Len(q) \in Nat /\ \A i \in 1..Len(q) : q[i] \in Nat
  BY NatEntries
<1>2. Len(p) \in Nat /\ \A i \in 1..Len(p) : p[i] \in Nat
  BY NatEntries
<1>3. /\ r \in Seq(Nat)
      /\ \E f \in [1..Len(r) -> 1..Len(p)] :
            /\ \A j, k \in 1..Len(r) : j < k => f[j] < f[k]
            /\ \A k \in 1..Len(r) : r[k] = p[f[k]] /\ p[f[k]] \in W
            /\ \A i \in 1..Len(p) : p[i] \in W => \E k \in 1..Len(r) : i = f[k]
  <2>. HIDE DEF r, W
  <2>1. p \in Seq(Nat)
    OBVIOUS
  <2>2. QED
    BY <2>1, KeptProperties, SMTT(30) DEF r
<1>4. InWindow(p, t) = r
  BY DEF InWindow
<1>. HIDE DEF r
<1>5. PICK f \in [1..Len(r) -> 1..Len(p)] :
            /\ \A j, k \in 1..Len(r) : j < k => f[j] < f[k]
            /\ \A k \in 1..Len(r) : r[k] = p[f[k]]
            /\ \A i \in 1..Len(p) : p[i] \in W => \E k \in 1..Len(r) : i = f[k]
  BY <1>3
<1>6. Len(r) \in Nat /\ \A k \in 1..Len(r) : f[k] \in 1..Len(p)
  BY <1>3, <1>5, LenProperties
<1>7. Sorted(r, t)
  <2>1. ASSUME NEW i \in 1..Len(r)
        PROVE  r[i] <= t
    BY <1>5, <1>6 DEF Limited, Sorted
  <2>2. ASSUME NEW i \in 1..Len(r), NEW j \in 1..Len(r), i <= j
        PROVE  r[i] <= r[j]
    <3>1. i < j => f[i] < f[j]
      BY <1>5
    <3>2. i < j \/ i = j
      BY <1>6, <2>2
    <3>3. f[i] <= f[j] /\ f[i] \in 1..Len(p) /\ f[j] \in 1..Len(p)
      BY <1>2, <1>6, <3>1, <3>2
    <3>4. QED
      BY <1>5, <3>3 DEF Limited, Sorted
  <2>3. QED
    BY <2>1, <2>2 DEF Sorted
<1>8. Tracks(q, r, t)
  <2>1. PICK g \in [Recent(q, t) -> 1..Len(p)] :
          /\ \A i, j \in Recent(q, t) : g[i] = g[j] => i = j
          /\ \A i \in Recent(q, t) : p[g[i]] = q[i]
    BY DEF Limited, Tracks
  <2>2. \A i \in Recent(q, t) : \E k \in 1..Len(r) : g[i] = f[k]
    <3>1. SUFFICES ASSUME NEW i \in Recent(q, t)
                   PROVE  \E k \in 1..Len(r) : g[i] = f[k]
      OBVIOUS
    <3>2. g[i] \in 1..Len(p) /\ p[g[i]] = q[i] /\ q[i] \in Nat /\ q[i] > t - Window
      BY <1>1, <2>1 DEF Recent
    <3>3. p[g[i]] \in W
      BY <3>2
    <3>. HIDE DEF W
    <3>4. QED
      BY <1>5, <3>2, <3>3
  <2>. DEFINE h == [i \in Recent(q, t) |-> CHOOSE k \in 1..Len(r) : g[i] = f[k]]
  <2>3. \A i \in Recent(q, t) : h[i] \in 1..Len(r) /\ g[i] = f[h[i]]
    BY <2>2
  <2>4. h \in [Recent(q, t) -> 1..Len(r)]
    BY <2>3
  <2>. HIDE DEF h
  <2>5. \A i \in Recent(q, t) : r[h[i]] = q[i]
    <3>1. SUFFICES ASSUME NEW i \in Recent(q, t)
                   PROVE  r[h[i]] = q[i]
      OBVIOUS
    <3>2. h[i] \in 1..Len(r) /\ g[i] = f[h[i]]
      BY <2>3
    <3>3. r[h[i]] = p[f[h[i]]]
      BY <1>5, <3>2
    <3>4. p[g[i]] = q[i]
      BY <2>1
    <3>5. QED
      BY <3>2, <3>3, <3>4
  <2>6. \A i, j \in Recent(q, t) : h[i] = h[j] => i = j
    BY <2>1, <2>3
  <2>7. QED
    BY <2>4, <2>5, <2>6 DEF Tracks
<1>9. QED
  BY <1>3, <1>4, <1>7, <1>8 DEF Limited

LEMMA SortedWithNewest ==
    ASSUME NEW q \in Seq(Nat), NEW t \in Nat, Sorted(q, t)
    PROVE  Sorted(Append(q, t), t)
<1>. DEFINE qq == Append(q, t)
<1>1. Len(q) \in Nat /\ \A i \in 1..Len(q) : q[i] \in Nat
  BY NatEntries
<1>2. /\ qq \in Seq(Nat) /\ Len(qq) = Len(q) + 1
      /\ \A i \in 1..Len(q) : qq[i] = q[i]
      /\ qq[Len(q) + 1] = t
  BY AppendProperties
<1>. HIDE DEF qq
<1>3. \A i \in 1..Len(qq) : i \in 1..Len(q) \/ i = Len(q) + 1
  BY <1>1, <1>2
<1>4. ASSUME NEW i \in 1..Len(qq)
      PROVE  qq[i] <= t
  <2>1. CASE i = Len(q) + 1
    BY <2>1, <1>2
  <2>2. CASE i \in 1..Len(q)
    <3>1. q[i] <= t /\ qq[i] = q[i]
      BY <2>2, <1>2 DEF Sorted
    <3>2. QED
      BY <3>1
  <2>3. QED
    BY <1>3, <2>1, <2>2
<1>5. ASSUME NEW i \in 1..Len(qq), NEW j \in 1..Len(qq), i <= j
      PROVE  qq[i] <= qq[j]
  <2>1. CASE j = Len(q) + 1
    BY <2>1, <1>2, <1>4
  <2>2. CASE j \in 1..Len(q)
    <3>1. i \in 1..Len(q)
      BY <1>1, <1>2, <1>5, <2>2
    <3>2. q[i] <= q[j]
      BY <1>5, <2>2, <3>1 DEF Sorted
    <3>3. QED
      BY <1>2, <2>2, <3>1, <3>2
  <2>3. QED
    BY <1>3, <2>1, <2>2
<1>6. Sorted(qq, t)
  BY <1>4, <1>5 DEF Sorted
<1>7. QED
  BY <1>6 DEF qq

(* A request is admitted and remembered while fewer than Limit are         *)
(* remembered: those in the window before it are at most these.            *)
LEMMA LimitedWhenAdmitted ==
    ASSUME NEW q \in Seq(Nat), NEW p \in Seq(Nat), NEW t \in Nat, Limited(q, p, t),
           Len(p) < Limit
    PROVE  Append(p, t) \in Seq(Nat) /\ Limited(Append(q, t), Append(p, t), t)
<1>. DEFINE qq == Append(q, t)
            pp == Append(p, t)
<1>1. Len(q) \in Nat /\ \A i \in 1..Len(q) : q[i] \in Nat
  BY NatEntries
<1>2. Len(p) \in Nat /\ \A i \in 1..Len(p) : p[i] \in Nat
  BY NatEntries
<1>3. /\ qq \in Seq(Nat) /\ Len(qq) = Len(q) + 1
      /\ \A i \in 1..Len(q) : qq[i] = q[i]
      /\ qq[Len(q) + 1] = t
  BY AppendProperties
<1>4. /\ pp \in Seq(Nat) /\ Len(pp) = Len(p) + 1
      /\ \A i \in 1..Len(p) : pp[i] = p[i]
      /\ pp[Len(p) + 1] = t
  BY AppendProperties
<1>. HIDE DEF qq, pp
<1>5. Sorted(q, t) /\ Sorted(p, t) /\ Tracks(q, p, t) /\ Spread(q)
  BY DEF Limited
<1>6. \A i \in 1..Len(qq) : i \in 1..Len(q) \/ i = Len(q) + 1
  BY <1>1, <1>3
<1>7. \A i \in 1..Len(pp) : i \in 1..Len(p) \/ i = Len(p) + 1
  BY <1>2, <1>4
<1>8. Sorted(qq, t)
  BY <1>5, SortedWithNewest DEF qq
<1>9. Sorted(pp, t)
  BY <1>5, SortedWithNewest DEF pp
<1>10. PICK g \in [Recent(q, t) -> 1..Len(p)] :
          /\ \A i, j \in Recent(q, t) : g[i] = g[j] => i = j
          /\ \A i \in Recent(q, t) : p[g[i]] = q[i]
  BY <1>5 DEF Tracks
<1>11. Tracks(qq, pp, t)
  <2>. DEFINE h == [i \in Recent(qq, t) |-> IF i \in Recent(q, t) THEN g[i] ELSE Len(p) + 1]
  <2>1. \A i \in Recent(qq, t) : i \in Recent(q, t) \/ i = Len(q) + 1
    BY <1>3, <1>6 DEF Recent
  <2>2. Len(q) + 1 \notin Recent(q, t) /\ \A i \in Recent(q, t) : i \in 1..Len(q)
    BY <1>1 DEF Recent
  <2>3. \A i \in Recent(q, t) : g[i] \in 1..Len(p) /\ g[i] # Len(p) + 1
    BY <1>2, <1>10
  <2>4. h \in [Recent(qq, t) -> 1..Len(pp)]
    BY <1>2, <1>4, <2>3
  <2>5. \A i, j \in Recent(qq, t) : h[i] = h[j] => i = j
    BY <1>10, <2>1, <2>2, <2>3
  <2>6. \A i \in Recent(qq, t) : pp[h[i]] = qq[i]
    BY <1>3, <1>4, <1>10, <2>1, <2>2, <2>3
  <2>. HIDE DEF h
  <2>7. QED
    BY <2>4, <2>5, <2>6 DEF Tracks
<1>12. ASSUME NEW i \in 1..Len(q), t - q[i] < Window
       PROVE  Len(q) + 1 - i < Limit
  <2>1. \A k \in i..Len(q) : k \in Recent(q, t)
    <3>1. SUFFICES ASSUME NEW k \in i..Len(q)
                   PROVE  k \in Recent(q, t)
      OBVIOUS
    <3>2. k \in 1..Len(q) /\ i <= k
      BY <1>1
    <3>3. q[i] <= q[k]
      BY <1>5, <3>2 DEF Sorted
    <3>4. q[i] \in Nat /\ q[k] \in Nat /\ Window \in Nat
      BY <1>1, <3>2, LimiterAssumption
    <3>5. q[k] > t - Window
      BY <1>12, <3>3, <3>4
    <3>6. QED
      BY <3>2, <3>5 DEF Recent
  <2>. DEFINE h == [k \in i..Len(q) |-> g[k]]
  <2>2. h \in [i..Len(q) -> 1..Len(p)]
    BY <1>10, <2>1
  <2>3. \A j, k \in i..Len(q) : h[j] = h[k] => j = k
    BY <1>10, <2>1
  <2>. HIDE DEF h
  <2>4. IsFiniteSet(1..Len(p)) /\ Cardinality(1..Len(p)) = Len(p)
    <3>1. 1 \in Int /\ Len(p) \in Int
      BY <1>2
    <3>2. /\ IsFiniteSet(1..Len(p))
          /\ Cardinality(1..Len(p)) = IF 1 > Len(p) THEN 0 ELSE Len(p) - 1 + 1
      BY <3>1, FS_Interval
    <3>3. QED
      BY <1>2, <3>2
  <2>5. Cardinality(i..Len(q)) = Len(q) - i + 1
    BY <1>1, FS_Interval
  <2>6. h \in Injection(i..Len(q), 1..Len(p))
    BY <2>2, <2>3 DEF Injection, IsInjective
  <2>7. Cardinality(i..Len(q)) <= Cardinality(1..Len(p))
    BY <2>4, <2>6, FS_Injection DEF ExistsInjection
  <2>8. QED
    BY <1>1, <1>2, <2>4, <2>5, <2>7, LimiterAssumption
<1>13. Spread(qq)
  <2>1. SUFFICES ASSUME NEW i \in 1..Len(qq), NEW j \in 1..Len(qq),
                        i <= j, qq[j] - qq[i] < Window
                 PROVE  j - i < Limit
    BY DEF Spread
  <2>2. CASE j \in 1..Len(q)
    <3>1. i \in 1..Len(q)
      BY <1>1, <2>1, <2>2
    <3>2. qq[i] = q[i] /\ qq[j] = q[j]
      BY <1>3, <2>2, <3>1
    <3>3. QED
      BY <1>5, <2>1, <2>2, <3>1, <3>2 DEF Spread
  <2>3. CASE j = Len(q) + 1 /\ i \in 1..Len(q)
    <3>1. t - q[i] < Window
      BY <1>3, <2>1, <2>3
    <3>2. QED
      BY <1>12, <2>3, <3>1
  <2>4. CASE j = Len(q) + 1 /\ i = Len(q) + 1
    BY <1>1, <2>4, LimiterAssumption
  <2>5. QED
    BY <1>6, <2>2, <2>3, <2>4
<1>14. QED
  BY <1>4, <1>8, <1>9, <1>11, <1>13 DEF Limited, qq, pp

-----------------------------------------------------------------------------
(* Documents.                                                              *)

AssertionRecords == [key : {KeyOfAssertion(a) : a \in Assertions}, expiresAt : Nat]

Documents ==
    [administrator : Administrators \cup {NoAdministrator},
     provider : StoredProviders \cup {NoProvider},
     sessions : Seq(SessionRecords),
     clients : SUBSET Clients,
     assertions : SUBSET AssertionRecords]

WellFormed(d) ==
    /\ d \in Documents
    /\ Len(d.sessions) <= MaxSessions
    /\ IsFiniteSet(d.assertions) /\ Cardinality(d.assertions) <= MaxAssertions

(* What each change of the document does to its fields.                    *)
LEMMA AdministratorChange ==
    ASSUME NEW d \in Documents, NEW a \in Administrators, NEW e, e = WithAdministrator(d, a)
    PROVE  /\ e \in Documents /\ e.administrator = a /\ e.sessions = d.sessions
           /\ e.clients = d.clients /\ e.assertions = d.assertions
BY DEF WithAdministrator, Documents

LEMMA ProviderChange ==
    ASSUME NEW d \in Documents, NEW p \in StoredProviders, NEW e, e = WithProvider(d, p)
    PROVE  /\ e \in Documents /\ e.administrator = d.administrator
           /\ e.sessions = d.sessions /\ e.clients = d.clients
           /\ e.assertions = d.assertions
BY DEF WithProvider, Documents

LEMMA ProviderRemoval ==
    ASSUME NEW d \in Documents, NEW e, e = WithoutProvider(d)
    PROVE  /\ e \in Documents /\ e.administrator = d.administrator
           /\ e.sessions = d.sessions /\ e.clients = d.clients
           /\ e.assertions = d.assertions
BY DEF WithoutProvider, Documents

LEMMA ClientAddition ==
    ASSUME NEW d \in Documents, NEW c \in Clients, NEW e, e = WithClient(d, c)
    PROVE  /\ e \in Documents /\ e.administrator = d.administrator
           /\ e.sessions = d.sessions /\ e.clients = d.clients \cup {c}
           /\ e.assertions = d.assertions
BY DEF WithClient, Documents

LEMMA ClientRemoval ==
    ASSUME NEW d \in Documents, NEW c \in Clients, NEW e, e = WithoutClient(d, c)
    PROVE  /\ e \in Documents /\ e.administrator = d.administrator
           /\ e.sessions = d.sessions /\ e.clients = d.clients \ {c}
           /\ e.assertions = d.assertions
BY DEF WithoutClient, Documents

(* A digest is only stored while there is room for it.                     *)
LEMMA AssertionAddition ==
    ASSUME NEW d, WellFormed(d), NEW a \in Assertions, NEW t \in Nat, NEW x \in Nat,
           Unused(d, KeyOfAssertion(a), t),
           NEW e, e = WithAssertion(d, KeyOfAssertion(a), x, t)
    PROVE  /\ WellFormed(e) /\ e.administrator = d.administrator
           /\ e.sessions = d.sessions /\ e.clients = d.clients
           /\ e.assertions = LiveAssertions(d, t)
                              \cup {[key |-> KeyOfAssertion(a), expiresAt |-> x]}
<1>. DEFINE new == [key |-> KeyOfAssertion(a), expiresAt |-> x]
<1>1. d \in Documents
  BY DEF WellFormed
<1>2. new \in AssertionRecords
  BY DEF AssertionRecords
<1>3. LiveAssertions(d, t) \subseteq d.assertions /\ d.assertions \subseteq AssertionRecords
  BY <1>1 DEF LiveAssertions, Documents
<1>4. e = [d EXCEPT !.assertions = LiveAssertions(d, t) \cup {new}]
  BY DEF WithAssertion
<1>. HIDE DEF new
<1>5. /\ e \in Documents /\ e.administrator = d.administrator
      /\ e.sessions = d.sessions /\ e.clients = d.clients
      /\ e.assertions = LiveAssertions(d, t) \cup {new}
  <2>1. LiveAssertions(d, t) \cup {new} \in SUBSET AssertionRecords
    BY <1>2, <1>3
  <2>2. QED
    BY <1>1, <1>4, <2>1 DEF Documents
<1>6. IsFiniteSet(d.assertions)
  BY DEF WellFormed
<1>7. IsFiniteSet(LiveAssertions(d, t))
  BY <1>3, <1>6, FS_Subset
<1>8. /\ IsFiniteSet(e.assertions)
      /\ Cardinality(e.assertions) <= Cardinality(LiveAssertions(d, t)) + 1
  <2>1. /\ IsFiniteSet(LiveAssertions(d, t) \cup {new})
        /\ Cardinality(LiveAssertions(d, t) \cup {new})
             = IF new \in LiveAssertions(d, t) THEN Cardinality(LiveAssertions(d, t))
               ELSE Cardinality(LiveAssertions(d, t)) + 1
    BY <1>7, FS_AddElement
  <2>2. Cardinality(LiveAssertions(d, t)) \in Nat
    BY <1>7, FS_CardinalityType
  <2>3. QED
    BY <1>5, <2>1, <2>2
<1>9. Cardinality(LiveAssertions(d, t)) \in Nat /\ Cardinality(e.assertions) \in Nat
  BY <1>7, <1>8, FS_CardinalityType
<1>10. Cardinality(e.assertions) <= MaxAssertions
  BY <1>8, <1>9, StoreAssumption DEF Unused
<1>11. QED
  BY <1>5, <1>8, <1>10 DEF WellFormed, new

(* Logins and logouts change nothing else.                                 *)
LEMMA OnlySessionsChange ==
    ASSUME NEW d \in Documents, NEW token, NEW x, NEW t, NEW e,
           e = WithSession(d, token, x, t) \/ e = WithoutSession(d, token)
    PROVE  /\ e.administrator = d.administrator
           /\ e.clients = d.clients /\ e.assertions = d.assertions
BY DEF WithSession, WithoutSession, Documents

(* A login, and a logout.                                                  *)
LEMMA SessionAddition ==
    ASSUME NEW d \in Documents, NEW log \in Seq(SessionRecords), NEW given, NEW gone,
           NEW t \in Nat, Owed(d.sessions, log, given, gone, t), TokensOnce(log),
           NEW token \in Sessions, NEW x \in Nat, token \notin gone,
           \A i \in 1..Len(log) : log[i].token # token,
           NEW e, e = WithSession(d, token, x, t)
    PROVE  /\ e \in Documents /\ Len(e.sessions) <= MaxSessions
           /\ Owed(e.sessions, Append(log, [token |-> token, expiresAt |-> x]),
                   given \cup {token}, gone, t)
<1>. DEFINE new == [token |-> token, expiresAt |-> x]
            W == [token : Sessions, expiresAt : {y \in Nat : y > t}]
            p == Append(NewestKept(Kept(d.sessions, W)), new)
<1>1. d.sessions \in Seq(SessionRecords)
  BY DEF Documents
<1>2. new \in SessionRecords /\ new.token = token
  BY DEF SessionRecords
<1>3. e = [d EXCEPT !.sessions = p]
  BY DEF WithSession, LiveSessions
<1>. HIDE DEF new
<1>4. /\ p \in Seq(SessionRecords) /\ Len(p) <= MaxSessions
      /\ Owed(p, Append(log, new), given \cup {new.token}, gone, t)
  BY <1>1, <1>2, OwedAfterLogin
<1>. HIDE DEF p
<1>5. /\ e \in Documents /\ e.administrator = d.administrator
      /\ e.clients = d.clients /\ e.assertions = d.assertions /\ e.sessions = p
  BY <1>3, <1>4 DEF Documents
<1>6. QED
  BY <1>2, <1>4, <1>5 DEF new

LEMMA SessionRemoval ==
    ASSUME NEW d, WellFormed(d), NEW log \in Seq(SessionRecords), NEW given, NEW gone,
           NEW t \in Nat, Owed(d.sessions, log, given, gone, t), NEW token \in Sessions,
           NEW e, e = WithoutSession(d, token)
    PROVE  /\ WellFormed(e)
           /\ Owed(e.sessions, log, given \ {token}, gone \cup {token}, t)
<1>. DEFINE p == Kept(d.sessions, [token : Sessions \ {token}, expiresAt : Nat])
<1>1. d \in Documents /\ d.sessions \in Seq(SessionRecords)
  BY DEF Documents, WellFormed
<1>2. e = [d EXCEPT !.sessions = p]
  <2>1. d.sessions = d["sessions"]
    OBVIOUS
  <2>2. QED
    BY <2>1 DEF WithoutSession
<1>3. /\ p \in Seq(SessionRecords) /\ Len(p) <= Len(d.sessions)
      /\ Owed(p, log, given \ {token}, gone \cup {token}, t)
  BY <1>1, OwedAfterLogout
<1>. HIDE DEF p
<1>4. /\ e \in Documents /\ e.administrator = d.administrator
      /\ e.clients = d.clients /\ e.assertions = d.assertions /\ e.sessions = p
  BY <1>1, <1>2, <1>3 DEF Documents
<1>5. Len(p) \in Nat /\ Len(d.sessions) \in Nat /\ MaxSessions \in Nat
  BY <1>1, <1>3, LenProperties, StoreAssumption
<1>6. QED
  BY <1>3, <1>4, <1>5 DEF WellFormed

-----------------------------------------------------------------------------
(* The table of the limiter.                                               *)

TableOK(tb) ==
    /\ tb \in [Clients -> Seq(Nat)]
    /\ IsFiniteSet(KeysOf(tb)) /\ Cardinality(KeysOf(tb)) <= MaxKeys

(* Dropping keys forgets no recent request.                                *)
LEMMA TableSwept ==
    ASSUME NEW tb, TableOK(tb), NEW sv \in [Clients -> Seq(Nat)], NEW t \in Nat,
           \A c \in Clients : Limited(sv[c], tb[c], t)
    PROVE  /\ TableOK(Swept(tb, t))
           /\ \A c \in Clients : Limited(sv[c], Swept(tb, t)[c], t)
<1>. DEFINE sw == [k \in DOMAIN tb |->
                     IF tb[k] # <<>> /\ tb[k][Len(tb[k])] <= t - Window THEN <<>> ELSE tb[k]]
<1>1. CASE Swept(tb, t) = tb
  BY <1>1
<1>2. CASE Swept(tb, t) = sw
  <2>1. DOMAIN tb = Clients /\ \A c \in Clients : tb[c] \in Seq(Nat)
    BY DEF TableOK
  <2>2. <<>> \in Seq(Nat)
    OBVIOUS
  <2>3. \A c \in Clients : sw[c] = <<>> \/ sw[c] = tb[c]
    BY <2>1
  <2>4. sw \in [Clients -> Seq(Nat)]
    BY <2>1, <2>2
  <2>5. DOMAIN sw = Clients
    BY <2>1
  <2>6. \A c \in Clients : Limited(sv[c], sw[c], t)
    <3>1. SUFFICES ASSUME NEW c \in Clients
                   PROVE  Limited(sv[c], sw[c], t)
      OBVIOUS
    <3>2. sv[c] \in Seq(Nat) /\ tb[c] \in Seq(Nat)
      BY <2>1
    <3>3. CASE tb[c] # <<>> /\ tb[c][Len(tb[c])] <= t - Window
      <4>1. Limited(sv[c], <<>>, t)
        BY <3>2, <3>3, LimitedWhenDropped
      <4>2. sw[c] = <<>>
        BY <2>1, <3>3
      <4>3. QED
        BY <4>1, <4>2
    <3>4. CASE ~(tb[c] # <<>> /\ tb[c][Len(tb[c])] <= t - Window)
      BY <2>1, <3>4
    <3>5. QED
      BY <3>3, <3>4
  <2>. HIDE DEF sw
  <2>7. KeysOf(sw) \subseteq KeysOf(tb)
    BY <2>1, <2>3, <2>5 DEF KeysOf
  <2>8. IsFiniteSet(KeysOf(tb)) /\ Cardinality(KeysOf(tb)) <= MaxKeys
    BY DEF TableOK
  <2>9. IsFiniteSet(KeysOf(sw)) /\ Cardinality(KeysOf(sw)) <= Cardinality(KeysOf(tb))
    BY <2>7, <2>8, FS_Subset
  <2>10. Cardinality(KeysOf(tb)) \in Nat /\ Cardinality(KeysOf(sw)) \in Nat
    BY <2>8, <2>9, FS_CardinalityType
  <2>11. TableOK(sw)
    BY <2>4, <2>8, <2>9, <2>10, LimiterAssumption DEF TableOK
  <2>12. QED
    BY <1>2, <2>6, <2>11
<1>3. QED
  BY <1>1, <1>2 DEF Swept

(* One more request of a client.                                           *)
LEMMA TableConsumed ==
    ASSUME NEW tb, TableOK(tb), NEW sv \in [Clients -> Seq(Nat)], NEW t \in Nat,
           \A c \in Clients : Limited(sv[c], tb[c], t), NEW key \in Clients,
           NEW after, after = Consume(tb, key, t)
    PROVE  /\ TableOK(after)
           /\ \A c \in Clients : c # key => Limited(sv[c], after[c], t)
           /\ ~Admits(tb, key, t) => Limited(sv[key], after[key], t)
           /\ Admits(tb, key, t) => Limited(Append(sv[key], t), after[key], t)
<1>. DEFINE sw == Swept(tb, t)
            recent == InWindow(sw[key], t)
<1>1. TableOK(sw) /\ \A c \in Clients : Limited(sv[c], sw[c], t)
  BY TableSwept
<1>2. \/ after = sw /\ ~Admits(tb, key, t)
      \/ after = [sw EXCEPT ![key] = recent] /\ ~Admits(tb, key, t)
         /\ ~(sw[key] = <<>> /\ Cardinality(KeysOf(sw)) >= MaxKeys)
      \/ after = [sw EXCEPT ![key] = Append(recent, t)] /\ Admits(tb, key, t)
         /\ Len(recent) < Limit
         /\ ~(sw[key] = <<>> /\ Cardinality(KeysOf(sw)) >= MaxKeys)
  <2>1. sw[key] \in Seq(Nat) /\ sv[key] \in Seq(Nat) /\ Limited(sv[key], sw[key], t)
    BY <1>1 DEF TableOK
  <2>2. recent \in Seq(Nat)
    BY <2>1, LimitedWhenFiltered
  <2>3. Len(recent) \in Nat /\ Cardinality(KeysOf(sw)) \in Nat
    BY <1>1, <2>2, LenProperties, FS_CardinalityType DEF TableOK
  <2>4. after = IF sw[key] = <<>> /\ Cardinality(KeysOf(sw)) >= MaxKeys THEN sw
                ELSE IF Len(recent) >= Limit THEN [sw EXCEPT ![key] = recent]
                ELSE [sw EXCEPT ![key] = Append(recent, t)]
    BY DEF Consume
  <2>5. Admits(tb, key, t) <=> /\ sw[key] # <<>> \/ Cardinality(KeysOf(sw)) < MaxKeys
                               /\ Len(recent) < Limit
    BY DEF Admits
  <2>6. MaxKeys \in Nat /\ Limit \in Nat
    BY LimiterAssumption
  <2>. HIDE DEF sw, recent
  <2>7. QED
    BY <2>3, <2>4, <2>5, <2>6
<1>. HIDE DEF sw
<1>3. /\ sw \in [Clients -> Seq(Nat)] /\ IsFiniteSet(KeysOf(sw))
      /\ Cardinality(KeysOf(sw)) \in Nat /\ Cardinality(KeysOf(sw)) <= MaxKeys
      /\ MaxKeys \in Nat
  BY <1>1, FS_CardinalityType, LimiterAssumption DEF TableOK
<1>4. sw[key] \in Seq(Nat) /\ sv[key] \in Seq(Nat) /\ Limited(sv[key], sw[key], t)
  BY <1>1, <1>3
<1>5. recent \in Seq(Nat) /\ Limited(sv[key], recent, t)
  BY <1>4, LimitedWhenFiltered
<1>. HIDE DEF recent
<1>6. ASSUME NEW times \in Seq(Nat), after = [sw EXCEPT ![key] = times],
             ~(sw[key] = <<>> /\ Cardinality(KeysOf(sw)) >= MaxKeys)
      PROVE  /\ TableOK(after) /\ after[key] = times
             /\ \A c \in Clients : c # key => after[c] = sw[c]
  <2>1. /\ after \in [Clients -> Seq(Nat)] /\ after[key] = times
        /\ \A c \in Clients : c # key => after[c] = sw[c]
    BY <1>3, <1>6
  <2>2. DOMAIN after = Clients /\ DOMAIN sw = Clients
    BY <1>3, <2>1
  <2>3. CASE sw[key] # <<>>
    <3>1. KeysOf(after) \subseteq KeysOf(sw)
      BY <2>1, <2>2, <2>3 DEF KeysOf
    <3>2. IsFiniteSet(KeysOf(after)) /\ Cardinality(KeysOf(after)) <= Cardinality(KeysOf(sw))
      BY <1>3, <3>1, FS_Subset
    <3>3. Cardinality(KeysOf(after)) \in Nat
      BY <3>2, FS_CardinalityType
    <3>4. QED
      BY <1>3, <2>1, <3>2, <3>3 DEF TableOK
  <2>4. CASE sw[key] = <<>>
    <3>1. KeysOf(after) \subseteq KeysOf(sw) \cup {key}
      BY <2>1, <2>2 DEF KeysOf
    <3>2. Cardinality(KeysOf(sw)) < MaxKeys
      BY <1>3, <1>6, <2>4
    <3>3. /\ IsFiniteSet(KeysOf(sw) \cup {key})
          /\ Cardinality(KeysOf(sw) \cup {key})
               = IF key \in KeysOf(sw) THEN Cardinality(KeysOf(sw))
                 ELSE Cardinality(KeysOf(sw)) + 1
      BY <1>3, FS_AddElement
    <3>4. /\ IsFiniteSet(KeysOf(after))
          /\ Cardinality(KeysOf(after)) <= Cardinality(KeysOf(sw) \cup {key})
      BY <3>1, <3>3, FS_Subset
    <3>5. Cardinality(KeysOf(after)) \in Nat
      BY <3>4, FS_CardinalityType
    <3>6. QED
      BY <1>3, <2>1, <3>2, <3>3, <3>4, <3>5 DEF TableOK
  <2>5. QED
    BY <2>3, <2>4
<1>7. CASE after = sw /\ ~Admits(tb, key, t)
  BY <1>1, <1>7
<1>8. CASE after = [sw EXCEPT ![key] = recent] /\ ~Admits(tb, key, t)
           /\ ~(sw[key] = <<>> /\ Cardinality(KeysOf(sw)) >= MaxKeys)
  <2>1. /\ TableOK(after) /\ after[key] = recent
        /\ \A c \in Clients : c # key => after[c] = sw[c]
    BY <1>5, <1>6, <1>8
  <2>2. QED
    BY <1>1, <1>5, <1>8, <2>1
<1>9. CASE after = [sw EXCEPT ![key] = Append(recent, t)] /\ Admits(tb, key, t)
           /\ Len(recent) < Limit
           /\ ~(sw[key] = <<>> /\ Cardinality(KeysOf(sw)) >= MaxKeys)
  <2>1. /\ Append(recent, t) \in Seq(Nat)
        /\ Limited(Append(sv[key], t), Append(recent, t), t)
    BY <1>4, <1>5, <1>9, LimitedWhenAdmitted
  <2>2. /\ TableOK(after) /\ after[key] = Append(recent, t)
        /\ \A c \in Clients : c # key => after[c] = sw[c]
    BY <1>6, <1>9, <2>1
  <2>3. QED
    BY <1>1, <1>9, <2>1, <2>2
<1>10. QED
  BY <1>2, <1>7, <1>8, <1>9

-----------------------------------------------------------------------------
(* The invariant.                                                          *)

(* The bounds and the waits agree: a request that waits has been counted.  *)
Counts ==
    /\ now \in Nat
    /\ registering \subseteq Administrators
    /\ loggingIn \in Nat
    /\ issuing \in [Assertions -> Nat]
    /\ left \in [{"ticks", "requests", "failures", "restarts"} -> Nat]
    /\ left.requests + loggingIn <= Bounds.requests
    /\ \A a \in Assertions : left.requests + issuing[a] <= Bounds.requests

Formed == WellFormed(memory) /\ WellFormed(disk)

(* Whoever was told to be the administrator is the one of both documents,  *)
(* and a login only waits for an administrator that is there.              *)
Ruled ==
    /\ registered \subseteq Administrators
    /\ \A a \in registered : memory.administrator = a /\ disk.administrator = a
    /\ loggingIn > 0 => memory.administrator # NoAdministrator

(* Both documents have what they owe to the browsers.                      *)
SessionsOwed ==
    /\ logins \in Seq(SessionRecords) /\ TokensOnce(logins)
    /\ loggedOut \subseteq leaving /\ leaving \subseteq handed /\ handed \subseteq Sessions
    /\ \A t \in handed : \E i \in 1..Len(logins) : logins[i].token = t
    /\ handed # {} => registered # {}
    /\ Owed(memory.sessions, logins, handed \ leaving, loggedOut, now)
    /\ Owed(disk.sessions, logins, handed \ leaving, loggedOut, now)

ClientsGone == \A c \in removed : c \notin memory.clients /\ c \notin disk.clients

(* An accepted assertion is too old to be accepted, or its digest is kept  *)
(* until it is.                                                            *)
SpentIn(assertions, a, t) ==
    \/ a.exp + Tolerance < t
    \/ \E x \in assertions : x.key = KeyOfAssertion(a) /\ x.expiresAt >= StoredUntil(a)

AssertionsSpent ==
    /\ accepted \in [Assertions -> Nat]
    /\ \A a \in Assertions :
          /\ accepted[a] <= 1
          /\ accepted[a] > 0 => SpentIn(memory.assertions, a, now)
                                /\ SpentIn(disk.assertions, a, now)

RequestsLimited ==
    /\ TableOK(table)
    /\ served \in [Clients -> Seq(Nat)]
    /\ \A c \in Clients : Limited(served[c], table[c], now)

ServerInv ==
    /\ Counts /\ Formed /\ Ruled /\ SessionsOwed
    /\ ClientsGone /\ AssertionsSpent /\ RequestsLimited

-----------------------------------------------------------------------------
LEMMA Initially == Init => ServerInv
<1>. SUFFICES ASSUME Init PROVE ServerInv
  OBVIOUS
<1>1. <<>> \in Seq(SessionRecords) /\ <<>> \in Seq(Nat) /\ Len(<<>>) = 0 /\ 1..0 = {}
  OBVIOUS
<1>2. Bounds \in [{"ticks", "requests", "failures", "restarts"} -> Nat]
  BY ServerAssumption
<1>3. Counts
  BY <1>2 DEF Init, Counts
<1>4. IsFiniteSet({}) /\ Cardinality({}) = 0
  BY FS_EmptySet
<1>5. WellFormed(FreshDocument)
  <2>1. FreshDocument \in Documents
    BY <1>1 DEF FreshDocument, Documents
  <2>2. FreshDocument.sessions = <<>> /\ FreshDocument.assertions = {}
    BY DEF FreshDocument
  <2>3. QED
    BY <1>1, <1>4, <2>1, <2>2, StoreAssumption DEF WellFormed
<1>6. memory.sessions = <<>> /\ disk.sessions = <<>>
  BY DEF Init, StoreInit, FreshDocument
<1>7. Owed(<<>>, <<>>, {}, {}, 0)
  <2>1. OrderedIn(<<>>, <<>>)
    <3>. DEFINE f == [k \in {} |-> 1]
    <3>1. f \in [{} -> {}]
      OBVIOUS
    <3>2. QED
      BY <1>1, <3>1 DEF OrderedIn, Rising
  <2>2. QED
    BY <1>1, <2>1 DEF Owed
<1>8. SessionsOwed
  BY <1>1, <1>6, <1>7 DEF Init, SessionsOwed, TokensOnce
<1>9. Formed /\ Ruled /\ ClientsGone /\ AssertionsSpent
  BY <1>5 DEF Init, StoreInit, Formed, Ruled, ClientsGone, AssertionsSpent
<1>10. RequestsLimited
  <2>1. KeysOf([c \in Clients |-> <<>>]) = {}
    BY DEF KeysOf
  <2>2. TableOK([c \in Clients |-> <<>>])
    <3>1. 0 <= MaxKeys
      BY LimiterAssumption
    <3>2. [c \in Clients |-> <<>>] \in [Clients -> Seq(Nat)]
      BY <1>1
    <3>3. QED
      BY <1>4, <2>1, <3>1, <3>2 DEF TableOK
  <2>3. Limited(<<>>, <<>>, 0)
    BY LimitedAtFirst
  <2>4. QED
    BY <1>1, <2>2, <2>3 DEF Init, RequestsLimited
<1>11. QED
  BY <1>3, <1>8, <1>9, <1>10 DEF ServerInv

(* After a write of d both documents are d, or the write failed.           *)
LEMMA StoredEffect ==
    ASSUME NEW d, Stored(d)
    PROVE  /\ memory' = d /\ disk' \in {disk, d}
           /\ diskWorks => disk' = d
BY DEF Stored, Written, WriteFails

LEMMA CountsStep ==
    ASSUME Counts, [Next]_vars
    PROVE  Counts'
<1>. USE DEF Counts
<1>1. /\ left.requests \in Nat /\ Bounds.requests \in Nat
      /\ \A b \in Assertions : issuing[b] \in Nat
  BY ServerAssumption
<1>2. ASSUME NEW what \in {"ticks", "requests", "failures", "restarts"}, Spend(what)
      PROVE  /\ left' \in [{"ticks", "requests", "failures", "restarts"} -> Nat]
             /\ what = "requests" => left'.requests = left.requests - 1
             /\ left'.requests <= left.requests
  BY <1>2 DEF Spend
<1>3. Asked => /\ left' \in [{"ticks", "requests", "failures", "restarts"} -> Nat]
               /\ left'.requests = left.requests - 1
  <2>1. SUFFICES ASSUME Asked
                 PROVE  /\ left' \in [{"ticks", "requests", "failures", "restarts"} -> Nat]
                        /\ left'.requests = left.requests - 1
    OBVIOUS
  <2>2. Spend("requests")
    BY <2>1 DEF Asked
  <2>3. QED
    BY <1>2, <2>2
<1>4. ASSUME left' \in [{"ticks", "requests", "failures", "restarts"} -> Nat],
             left'.requests <= left.requests, now' \in Nat,
             registering' \subseteq Administrators, loggingIn' = loggingIn, issuing' = issuing
      PROVE  Counts'
  BY <1>1, <1>4
<1>5. ASSUME Asked, UNCHANGED <<now, loggingIn, issuing>>, registering' \subseteq Administrators
      PROVE  Counts'
  BY <1>1, <1>3, <1>4, <1>5
<1>6. ASSUME UNCHANGED <<left, now, loggingIn, issuing>>, registering' \subseteq Administrators
      PROVE  Counts'
  BY <1>1, <1>4, <1>6
<1>7. ASSUME NEW a \in Administrators, Register(a) PROVE Counts'
  BY <1>5, <1>7 DEF Register, clock
<1>8. ASSUME NEW a \in Administrators, RegistrationTooLate(a) PROVE Counts'
  BY <1>6, <1>8 DEF RegistrationTooLate, clock
<1>9. ASSUME NEW a \in Administrators, NEW t \in Sessions, FinishRegister(a, t) PROVE Counts'
  <2>1. UNCHANGED <<left, now, loggingIn, issuing>> /\ registering' = registering \ {a}
    BY <1>9 DEF FinishRegister, clock
  <2>2. QED
    BY <1>6, <2>1
<1>10. CASE Login
  <2>1. /\ Asked /\ loggingIn' = loggingIn + 1
        /\ UNCHANGED <<now, registering, issuing>>
    BY <1>10 DEF Login, clock
  <2>2. QED
    BY <1>1, <1>3, <2>1
<1>11. ASSUME NEW t \in Sessions, FinishLogin(t) PROVE Counts'
  <2>1. /\ loggingIn > 0 /\ loggingIn' = loggingIn - 1
        /\ UNCHANGED <<left, now, registering, issuing>>
    BY <1>11 DEF FinishLogin, clock
  <2>2. QED
    BY <1>1, <2>1
<1>12. ASSUME NEW t \in Sessions, Logout(t) PROVE Counts'
  BY <1>6, <1>12 DEF Logout, waits, clock
<1>13. ASSUME NEW p \in Providers, NEW k \in {"given", "none", "blank"}, SetProvider(p, k) PROVE Counts'
  BY <1>5, <1>13 DEF SetProvider, waits, clock
<1>14. CASE DeleteProvider
  BY <1>5, <1>14 DEF DeleteProvider, waits, clock
<1>15. ASSUME NEW c \in Clients, AddClient(c) PROVE Counts'
  BY <1>5, <1>15 DEF AddClient, waits, clock
<1>16. ASSUME NEW c \in Clients, DeleteClient(c) PROVE Counts'
  BY <1>5, <1>16 DEF DeleteClient, waits, clock
<1>17. ASSUME NEW a \in Assertions, RequestToken(a) PROVE Counts'
  <2>1. issuing' = issuing \/ issuing' = [issuing EXCEPT ![a] = @ + 1]
    BY <1>17 DEF RequestToken, Checked
  <2>2. Asked /\ UNCHANGED <<now, registering, loggingIn>>
    BY <1>17 DEF RequestToken, clock
  <2>3. CASE issuing' = issuing
    BY <1>5, <2>2, <2>3
  <2>4. CASE issuing' = [issuing EXCEPT ![a] = @ + 1]
    <3>1. /\ issuing' \in [Assertions -> Nat]
          /\ \A b \in Assertions : issuing'[b] \in Nat /\ issuing'[b] <= issuing[b] + 1
      BY <1>1, <2>4
    <3>2. \A b \in Assertions : left'.requests + issuing'[b] <= Bounds.requests
      BY <1>1, <1>3, <2>2, <3>1
    <3>3. left'.requests + loggingIn' <= Bounds.requests
      BY <1>1, <1>3, <2>2
    <3>4. QED
      BY <1>3, <2>2, <3>1, <3>2, <3>3
  <2>5. QED
    BY <2>1, <2>3, <2>4
<1>18. ASSUME NEW a \in Assertions, FinishToken(a) PROVE Counts'
  <2>1. issuing' = [issuing EXCEPT ![a] = @ - 1] /\ issuing[a] > 0
    BY <1>18 DEF FinishToken
  <2>2. /\ issuing' \in [Assertions -> Nat]
        /\ \A b \in Assertions : issuing'[b] \in Nat /\ issuing'[b] <= issuing[b]
    BY <1>1, <2>1
  <2>3. UNCHANGED <<left, now, registering, loggingIn>>
    BY <1>18 DEF FinishToken, clock
  <2>4. \A b \in Assertions : left.requests + issuing'[b] <= Bounds.requests
    BY <1>1, <2>2
  <2>5. QED
    BY <2>2, <2>3, <2>4
<1>19. CASE Tick
  <2>1. Spend("ticks") /\ now' = now + 1 /\ UNCHANGED waits
    BY <1>19 DEF Tick
  <2>2. QED
    BY <1>2, <1>4, <2>1 DEF waits
<1>20. CASE DiskFails
  <2>1. Spend("failures") /\ now' = now /\ UNCHANGED waits
    BY <1>20 DEF DiskFails
  <2>2. QED
    BY <1>2, <1>4, <2>1 DEF waits
<1>21. CASE DiskRecovers
  BY <1>6, <1>21 DEF DiskRecovers, waits
<1>22. CASE Restart
  <2>1. /\ Spend("restarts") /\ now' = now /\ registering' = {} /\ loggingIn' = 0
        /\ issuing' = [a \in Assertions |-> 0]
    BY <1>22 DEF Restart, clock
  <2>2. /\ left' \in [{"ticks", "requests", "failures", "restarts"} -> Nat]
        /\ left'.requests <= left.requests
    BY <1>2, <2>1
  <2>3. left'.requests \in Nat
    BY <2>2
  <2>4. left'.requests <= Bounds.requests
    BY <1>1, <2>2, <2>3
  <2>5. QED
    BY <1>1, <2>1, <2>2, <2>3, <2>4
<1>23. CASE UNCHANGED vars
  BY <1>6, <1>23 DEF vars, waits, clock
<1>24. QED
  BY <1>7, <1>8, <1>9, <1>10, <1>11, <1>12, <1>13, <1>14, <1>15, <1>16, <1>17, <1>18,
     <1>19, <1>20, <1>21, <1>22, <1>23 DEF Next

-----------------------------------------------------------------------------
(* The documents of a login, a logout and a registration, as they are      *)
(* written in a state of the invariant.                                    *)
LEMMA LoginDocument ==
    ASSUME ServerInv, NEW t \in Sessions, NeverUsed(t), NEW m \in Documents,
           m.sessions = memory.sessions,
           NEW d, d = WithSession(m, t, now + SessionLife, now)
    PROVE  /\ d \in Documents /\ Len(d.sessions) <= MaxSessions
           /\ NewSession(t) \in SessionRecords
           /\ \A i \in 1..Len(logins) : logins[i].token # t
           /\ t \notin handed
           /\ Owed(d.sessions, Append(logins, NewSession(t)),
                   (handed \ leaving) \cup {t}, loggedOut, now)
<1>1. /\ now \in Nat /\ logins \in Seq(SessionRecords) /\ TokensOnce(logins)
      /\ loggedOut \subseteq handed
      /\ \A x \in handed : \E i \in 1..Len(logins) : logins[i].token = x
      /\ Owed(m.sessions, logins, handed \ leaving, loggedOut, now)
  BY DEF ServerInv, Counts, SessionsOwed
<1>2. now + SessionLife \in Nat
  BY <1>1, ServerAssumption
<1>3. DOMAIN logins = 1..Len(logins)
  BY <1>1, LenProperties
<1>4. \A i \in 1..Len(logins) : logins[i].token # t
  BY <1>3 DEF NeverUsed
<1>5. t \notin handed /\ t \notin loggedOut
  BY <1>1, <1>4
<1>6. PICK x \in Nat : x = now + SessionLife
  BY <1>2
<1>7. NewSession(t) = [token |-> t, expiresAt |-> x]
  BY <1>6 DEF NewSession
<1>8. [token |-> t, expiresAt |-> x] \in SessionRecords
  BY DEF SessionRecords
<1>9. d = WithSession(m, t, x, now)
  BY <1>6
<1>10. PICK given : given = handed \ leaving
  OBVIOUS
<1>11. Owed(m.sessions, logins, given, loggedOut, now)
  BY <1>1, <1>10
<1>12. /\ d \in Documents /\ Len(d.sessions) <= MaxSessions
       /\ Owed(d.sessions, Append(logins, [token |-> t, expiresAt |-> x]),
               given \cup {t}, loggedOut, now)
  BY <1>1, <1>4, <1>5, <1>9, <1>11, SessionAddition
<1>13. QED
  BY <1>4, <1>5, <1>7, <1>8, <1>10, <1>12

LEMMA LogoutDocument ==
    ASSUME ServerInv, NEW t \in Sessions, NEW d, d = WithoutSession(memory, t)
    PROVE  /\ WellFormed(d)
           /\ Owed(d.sessions, logins, (handed \ leaving) \ {t}, loggedOut \cup {t}, now)
<1>1. /\ now \in Nat /\ logins \in Seq(SessionRecords) /\ WellFormed(memory)
      /\ Owed(memory.sessions, logins, handed \ leaving, loggedOut, now)
  BY DEF ServerInv, Counts, Formed, SessionsOwed
<1>2. PICK given : given = handed \ leaving
  OBVIOUS
<1>3. Owed(memory.sessions, logins, given, loggedOut, now)
  BY <1>1, <1>2
<1>4. /\ WellFormed(d)
      /\ Owed(d.sessions, logins, given \ {t}, loggedOut \cup {t}, now)
  BY <1>1, <1>3, SessionRemoval
<1>5. QED
  BY <1>2, <1>4

LEMMA RegistrationDocuments ==
    ASSUME ServerInv, NEW a \in Administrators, NEW t \in Sessions, NeverUsed(t),
           NEW d1, d1 = WithAdministrator(memory, a),
           NEW d2, d2 = WithSession(d1, t, now + SessionLife, now)
    PROVE  /\ WellFormed(d1) /\ WellFormed(d2)
           /\ NewSession(t) \in SessionRecords
           /\ \A i \in 1..Len(logins) : logins[i].token # t
           /\ t \notin handed
           /\ Owed(d1.sessions, logins, handed \ leaving, loggedOut, now)
           /\ Owed(d2.sessions, Append(logins, NewSession(t)),
                   (handed \ leaving) \cup {t}, loggedOut, now)
<1>1. /\ WellFormed(memory) /\ memory \in Documents
      /\ Owed(memory.sessions, logins, handed \ leaving, loggedOut, now)
  BY DEF ServerInv, Formed, WellFormed, SessionsOwed
<1>2. /\ d1 \in Documents /\ d1.sessions = memory.sessions
      /\ d1.assertions = memory.assertions
  BY <1>1, AdministratorChange
<1>3. /\ d2 \in Documents /\ Len(d2.sessions) <= MaxSessions
      /\ NewSession(t) \in SessionRecords
      /\ \A i \in 1..Len(logins) : logins[i].token # t
      /\ t \notin handed
      /\ Owed(d2.sessions, Append(logins, NewSession(t)),
              (handed \ leaving) \cup {t}, loggedOut, now)
  BY <1>2, LoginDocument
<1>4. d2.assertions = d1.assertions
  BY <1>2, OnlySessionsChange
<1>5. WellFormed(d1) /\ WellFormed(d2)
  BY <1>1, <1>2, <1>3, <1>4 DEF WellFormed
<1>6. QED
  BY <1>1, <1>2, <1>3, <1>5

-----------------------------------------------------------------------------
(* What most steps leave alone: a field of each document is afterwards one *)
(* of the two that were there, and the callers were told nothing about it. *)
OneOf(x, y, u, v) == u \in {x, y} /\ v \in {x, y}

SessionsCarried ==
    /\ UNCHANGED <<registered, logins, handed, leaving, loggedOut>>
    /\ OneOf(memory.sessions, disk.sessions, memory'.sessions, disk'.sessions)

ClientsCarried ==
    /\ UNCHANGED removed
    /\ OneOf(memory.clients, disk.clients, memory'.clients, disk'.clients)

AssertionsCarried ==
    /\ UNCHANGED accepted
    /\ OneOf(memory.assertions, disk.assertions, memory'.assertions, disk'.assertions)

AdministratorCarried ==
    /\ OneOf(memory.administrator, disk.administrator,
             memory'.administrator, disk'.administrator)
    /\ loggingIn' > 0 => memory'.administrator = memory.administrator
                         /\ (loggingIn > 0 \/ memory.administrator # NoAdministrator)

AllCarried ==
    /\ SessionsCarried /\ ClientsCarried /\ AssertionsCarried /\ AdministratorCarried

LEMMA StepsCarry ==
    ASSUME ServerInv, [Next]_vars
    PROVE  /\ Formed'
           /\ \/ SessionsCarried
              \/ \E a \in Administrators, t \in Sessions : FinishRegister(a, t)
              \/ \E t \in Sessions : FinishLogin(t)
              \/ \E t \in Sessions : Logout(t)
           /\ ClientsCarried \/ \E c \in Clients : AddClient(c) \/ DeleteClient(c)
           /\ AssertionsCarried \/ \E a \in Assertions : FinishToken(a)
           /\ \/ AdministratorCarried /\ UNCHANGED registered
              \/ \E a \in Administrators, t \in Sessions : FinishRegister(a, t)
              \/ AdministratorCarried /\ \E t \in Sessions : FinishLogin(t)
<1>. DEFINE Goal ==
           /\ Formed'
           /\ \/ SessionsCarried
              \/ \E a \in Administrators, t \in Sessions : FinishRegister(a, t)
              \/ \E t \in Sessions : FinishLogin(t)
              \/ \E t \in Sessions : Logout(t)
           /\ ClientsCarried \/ \E c \in Clients : AddClient(c) \/ DeleteClient(c)
           /\ AssertionsCarried \/ \E a \in Assertions : FinishToken(a)
           /\ \/ AdministratorCarried /\ UNCHANGED registered
              \/ \E a \in Administrators, t \in Sessions : FinishRegister(a, t)
              \/ AdministratorCarried /\ \E t \in Sessions : FinishLogin(t)
<1>1. WellFormed(memory) /\ WellFormed(disk) /\ memory \in Documents /\ disk \in Documents
  BY DEF ServerInv, Formed, WellFormed
<1>2. loggingIn \in Nat /\ now \in Nat
  BY DEF ServerInv, Counts
<1>5. ASSUME NEW d, WellFormed(d), memory' = d, disk' \in {disk, d}
      PROVE  Formed'
  BY <1>1, <1>5 DEF Formed
<1>6. ASSUME UNCHANGED storeVars, UNCHANGED told, loggingIn' \in Nat,
             loggingIn' > 0 => (loggingIn > 0 \/ memory.administrator # NoAdministrator)
      PROVE  Formed' /\ AllCarried /\ UNCHANGED registered
  BY <1>1, <1>6 DEF storeVars, told, sessionsTold, Formed, AllCarried, SessionsCarried,
     ClientsCarried, AssertionsCarried, AdministratorCarried, OneOf
<1>7. ASSUME NEW a \in Administrators, Register(a) PROVE Goal
  <2>1. UNCHANGED storeVars /\ UNCHANGED told /\ loggingIn' = loggingIn
    BY <1>7 DEF Register
  <2>2. QED
    BY <1>2, <1>6, <2>1 DEF AllCarried
<1>8. ASSUME NEW a \in Administrators, RegistrationTooLate(a) PROVE Goal
  <2>1. UNCHANGED storeVars /\ UNCHANGED told /\ loggingIn' = loggingIn
    BY <1>8 DEF RegistrationTooLate
  <2>2. QED
    BY <1>2, <1>6, <2>1 DEF AllCarried
<1>9. CASE Login
  <2>1. UNCHANGED storeVars /\ UNCHANGED told /\ loggingIn' = loggingIn + 1
        /\ memory.administrator # NoAdministrator
    BY <1>9 DEF Login, NoAdministratorYet
  <2>2. QED
    BY <1>2, <1>6, <2>1 DEF AllCarried
<1>10. ASSUME NEW a \in Assertions, RequestToken(a) PROVE Goal
  <2>1. UNCHANGED storeVars /\ UNCHANGED told /\ loggingIn' = loggingIn
    BY <1>10 DEF RequestToken
  <2>2. QED
    BY <1>2, <1>6, <2>1 DEF AllCarried
<1>11. CASE Tick \/ DiskFails \/ DiskRecovers \/ UNCHANGED vars
  <2>1. UNCHANGED storeVars /\ UNCHANGED told /\ UNCHANGED waits
    BY <1>11 DEF Tick, DiskFails, DiskRecovers, vars
  <2>2. loggingIn' = loggingIn
    BY <2>1 DEF waits
  <2>3. QED
    BY <1>2, <1>6, <2>1, <2>2 DEF AllCarried
<1>12. CASE Restart
  <2>1. memory' = disk /\ disk' = disk /\ UNCHANGED told /\ loggingIn' = 0
    BY <1>12 DEF Restart, Reload
  <2>2. Formed'
    BY <1>1, <2>1 DEF Formed
  <2>3. AllCarried /\ UNCHANGED registered
    BY <2>1 DEF told, sessionsTold, AllCarried, SessionsCarried, ClientsCarried,
       AssertionsCarried, AdministratorCarried, OneOf
  <2>4. QED
    BY <2>2, <2>3 DEF AllCarried
<1>13. ASSUME NEW d, d \in Documents, Stored(d), UNCHANGED told, UNCHANGED waits,
              d.sessions = memory.sessions, d.clients = memory.clients,
              d.assertions = memory.assertions, d.administrator = memory.administrator
       PROVE  Goal
  <2>1. memory' = d /\ disk' \in {disk, d}
    BY <1>13, StoredEffect
  <2>2. WellFormed(d)
    BY <1>1, <1>13 DEF WellFormed
  <2>3. Formed'
    BY <1>5, <2>1, <2>2
  <2>4. AllCarried /\ UNCHANGED registered
    BY <1>13, <2>1 DEF told, sessionsTold, waits, AllCarried, SessionsCarried,
       ClientsCarried, AssertionsCarried, AdministratorCarried, OneOf
  <2>5. QED
    BY <2>3, <2>4 DEF AllCarried
<1>14. ASSUME NEW p \in Providers, NEW k \in {"given", "none", "blank"}, SetProvider(p, k) PROVE Goal
  <2>. DEFINE stored == [settings |-> p, blankKey |-> k = "blank"]
              d == WithProvider(memory, stored)
  <2>0. stored \in StoredProviders
    BY DEF StoredProviders
  <2>1. Stored(d) /\ UNCHANGED told /\ UNCHANGED waits
    BY <1>14 DEF SetProvider
  <2>. HIDE DEF Goal, stored
  <2>2. QED
    BY <1>1, <1>13, <2>0, <2>1, ProviderChange
<1>15. CASE DeleteProvider
  <2>0. PICK d : d = WithoutProvider(memory)
    OBVIOUS
  <2>1. Stored(d) /\ UNCHANGED told /\ UNCHANGED waits
    BY <1>15, <2>0 DEF DeleteProvider
  <2>2. /\ d \in Documents /\ d.administrator = memory.administrator
        /\ d.sessions = memory.sessions /\ d.clients = memory.clients
        /\ d.assertions = memory.assertions
    BY <1>1, <2>0, ProviderRemoval
  <2>3. QED
    BY <1>13, <2>1, <2>2
<1>16. ASSUME NEW d, d \in Documents, memory' = d, disk' \in {disk, d}, UNCHANGED waits,
              UNCHANGED <<registered, sessionsTold, accepted>>,
              d.sessions = memory.sessions,
              d.assertions = memory.assertions, d.administrator = memory.administrator
       PROVE  /\ Formed' /\ SessionsCarried /\ AssertionsCarried /\ AdministratorCarried
              /\ UNCHANGED registered
  <2>1. WellFormed(d)
    BY <1>1, <1>16 DEF WellFormed
  <2>2. Formed'
    BY <1>5, <1>16, <2>1
  <2>3. QED
    BY <1>16, <2>2 DEF sessionsTold, waits, SessionsCarried, AssertionsCarried,
       AdministratorCarried, OneOf
<1>17. ASSUME NEW c \in Clients, AddClient(c) PROVE Goal
  <2>. DEFINE d == WithClient(memory, c)
  <2>1. Stored(d) /\ UNCHANGED <<registered, sessionsTold, accepted>> /\ UNCHANGED waits
    BY <1>17 DEF AddClient, told
  <2>2. memory' = d /\ disk' \in {disk, d}
    BY <2>1, StoredEffect
  <2>3. /\ d \in Documents /\ d.administrator = memory.administrator
        /\ d.sessions = memory.sessions /\ d.assertions = memory.assertions
    BY <1>1, ClientAddition
  <2>. HIDE DEF d
  <2>4. /\ Formed' /\ SessionsCarried /\ AssertionsCarried /\ AdministratorCarried
        /\ UNCHANGED registered
    BY <1>16, <2>1, <2>2, <2>3
  <2>5. QED
    BY <1>17, <2>4
<1>18. ASSUME NEW c \in Clients, DeleteClient(c) PROVE Goal
  <2>. DEFINE d == WithoutClient(memory, c)
  <2>1. Stored(d) /\ UNCHANGED <<registered, sessionsTold, accepted>> /\ UNCHANGED waits
    BY <1>18 DEF DeleteClient
  <2>2. memory' = d /\ disk' \in {disk, d}
    BY <2>1, StoredEffect
  <2>3. /\ d \in Documents /\ d.administrator = memory.administrator
        /\ d.sessions = memory.sessions /\ d.assertions = memory.assertions
    BY <1>1, ClientRemoval
  <2>. HIDE DEF d
  <2>4. /\ Formed' /\ SessionsCarried /\ AssertionsCarried /\ AdministratorCarried
        /\ UNCHANGED registered
    BY <1>16, <2>1, <2>2, <2>3
  <2>5. QED
    BY <1>18, <2>4
<1>19. ASSUME NEW a \in Assertions, FinishToken(a) PROVE Goal
  <2>. DEFINE d == WithAssertion(memory, KeyOfAssertion(a), StoredUntil(a), now)
  <2>1. /\ UNCHANGED <<registered, sessionsTold, removed>> /\ loggingIn' = loggingIn
        /\ \/ Unused(memory, KeyOfAssertion(a), now) /\ Stored(d)
           \/ UNCHANGED storeVars
    BY <1>19 DEF FinishToken
  <2>2. StoredUntil(a) \in Nat
    BY ServerAssumption DEF StoredUntil
  <2>3. CASE Unused(memory, KeyOfAssertion(a), now) /\ Stored(d)
    <3>1. memory' = d /\ disk' \in {disk, d}
      BY <2>3, StoredEffect
    <3>2. /\ WellFormed(d) /\ d.administrator = memory.administrator
          /\ d.sessions = memory.sessions /\ d.clients = memory.clients
      BY <1>1, <1>2, <2>2, <2>3, AssertionAddition
    <3>. HIDE DEF d
    <3>3. Formed'
      BY <1>5, <3>1, <3>2
    <3>4. SessionsCarried /\ ClientsCarried /\ AdministratorCarried /\ UNCHANGED registered
      BY <2>1, <3>1, <3>2 DEF sessionsTold, SessionsCarried, ClientsCarried,
         AdministratorCarried, OneOf
    <3>5. QED
      BY <1>19, <3>3, <3>4
  <2>4. CASE UNCHANGED storeVars
    <3>1. memory' = memory /\ disk' = disk
      BY <2>4 DEF storeVars
    <3>2. Formed'
      BY <1>1, <3>1 DEF Formed
    <3>3. SessionsCarried /\ ClientsCarried /\ AdministratorCarried /\ UNCHANGED registered
      BY <2>1, <3>1 DEF sessionsTold, SessionsCarried, ClientsCarried,
         AdministratorCarried, OneOf
    <3>4. QED
      BY <1>19, <3>2, <3>3
  <2>5. QED
    BY <2>1, <2>3, <2>4
<1>20. ASSUME NEW t \in Sessions, Logout(t) PROVE Goal
  <2>1. PICK d : d = WithoutSession(memory, t)
    OBVIOUS
  <2>2. /\ Stored(d) /\ UNCHANGED <<registered, removed, accepted>> /\ UNCHANGED waits
    BY <1>20, <2>1 DEF Logout
  <2>3. memory' = d /\ disk' \in {disk, d}
    BY <2>2, StoredEffect
  <2>4. /\ WellFormed(d) /\ d.administrator = memory.administrator
        /\ d.clients = memory.clients /\ d.assertions = memory.assertions
    <3>1. WellFormed(d)
      BY <2>1, LogoutDocument
    <3>2. QED
      BY <1>1, <2>1, <3>1, OnlySessionsChange
  <2>5. Formed'
    BY <1>5, <2>3, <2>4
  <2>6. ClientsCarried /\ AssertionsCarried /\ AdministratorCarried /\ UNCHANGED registered
    BY <2>2, <2>3, <2>4 DEF waits, ClientsCarried, AssertionsCarried,
       AdministratorCarried, OneOf
  <2>7. QED
    BY <1>20, <2>5, <2>6
<1>21. ASSUME NEW t \in Sessions, FinishLogin(t) PROVE Goal
  <2>1. PICK d : d = WithSession(memory, t, now + SessionLife, now)
    OBVIOUS
  <2>2. /\ Stored(d) /\ UNCHANGED <<removed, accepted>>
        /\ loggingIn' = loggingIn - 1 /\ loggingIn > 0 /\ NeverUsed(t)
    BY <1>21, <2>1 DEF FinishLogin
  <2>3. memory' = d /\ disk' \in {disk, d}
    BY <2>2, StoredEffect
  <2>4. /\ d \in Documents /\ d.administrator = memory.administrator
        /\ d.clients = memory.clients /\ d.assertions = memory.assertions
        /\ Len(d.sessions) <= MaxSessions
    <3>1. d \in Documents /\ Len(d.sessions) <= MaxSessions
      BY <1>1, <2>1, <2>2, LoginDocument
    <3>2. QED
      BY <1>1, <2>1, <3>1, OnlySessionsChange
  <2>5. WellFormed(d)
    BY <1>1, <2>4 DEF WellFormed
  <2>6. Formed'
    BY <1>5, <2>3, <2>5
  <2>7. ClientsCarried /\ AssertionsCarried /\ AdministratorCarried
    BY <2>2, <2>3, <2>4 DEF ClientsCarried, AssertionsCarried, AdministratorCarried, OneOf
  <2>8. QED
    BY <1>21, <2>6, <2>7
<1>22. ASSUME NEW a \in Administrators, NEW t \in Sessions, FinishRegister(a, t) PROVE Goal
  <2>1. PICK d1 : d1 = WithAdministrator(memory, a)
    OBVIOUS
  <2>2. PICK d2 : d2 = WithSession(d1, t, now + SessionLife, now)
    OBVIOUS
  <2>3. /\ UNCHANGED <<removed, accepted>> /\ NeverUsed(t)
        /\ \/ memory' = d1 /\ disk' \in {disk, d1}
           \/ memory' = d2 /\ disk' \in {d1, d2}
    BY <1>22, <2>1, <2>2 DEF FinishRegister, WriteFails, Written
  <2>4. /\ WellFormed(d1) /\ WellFormed(d2)
        /\ d1.clients = memory.clients /\ d1.assertions = memory.assertions
        /\ d2.clients = memory.clients /\ d2.assertions = memory.assertions
    <3>1. WellFormed(d1) /\ WellFormed(d2)
      BY <2>1, <2>2, <2>3, RegistrationDocuments
    <3>2. d1 \in Documents /\ d1.clients = memory.clients /\ d1.assertions = memory.assertions
      BY <1>1, <2>1, AdministratorChange
    <3>3. d2.clients = d1.clients /\ d2.assertions = d1.assertions
      BY <2>2, <3>2, OnlySessionsChange
    <3>4. QED
      BY <3>1, <3>2, <3>3
  <2>5. Formed'
    BY <1>1, <2>3, <2>4 DEF Formed
  <2>6. ClientsCarried /\ AssertionsCarried
    BY <2>3, <2>4 DEF ClientsCarried, AssertionsCarried, OneOf
  <2>7. QED
    BY <1>22, <2>5, <2>6
<1>23. CASE Next
  BY <1>7, <1>8, <1>9, <1>10, <1>11, <1>12, <1>14, <1>15, <1>17, <1>18, <1>19, <1>20,
     <1>21, <1>22, <1>23 DEF Next
<1>24. Goal
  BY <1>11, <1>23
<1>25. QED
  BY <1>24 DEF Goal

(* When no administrator is there, nobody was told anything yet.           *)
LEMMA NobodyTold ==
    ASSUME ServerInv, memory.administrator = NoAdministrator
    PROVE  /\ registered = {} /\ handed = {} /\ leaving = {} /\ loggedOut = {}
           /\ loggingIn = 0
<1>1. registered = {}
  BY StoreAssumption DEF ServerInv, Ruled
<1>2. loggingIn = 0
  BY DEF ServerInv, Ruled, Counts
<1>3. QED
  BY <1>1, <1>2 DEF ServerInv, SessionsOwed

LEMMA RuledStep ==
    ASSUME ServerInv, [Next]_vars
    PROVE  Ruled'
<1>1. /\ registered \subseteq Administrators
      /\ \A a \in registered : memory.administrator = a /\ disk.administrator = a
      /\ loggingIn > 0 => memory.administrator # NoAdministrator
  BY DEF ServerInv, Ruled
<1>2. memory \in Documents /\ loggingIn \in Nat /\ NoAdministrator \notin Administrators
  BY StoreAssumption DEF ServerInv, Formed, WellFormed, Counts
<1>3. CASE AdministratorCarried /\ UNCHANGED registered
  <2>1. \A a \in registered : memory'.administrator = a /\ disk'.administrator = a
    BY <1>1, <1>3 DEF AdministratorCarried, OneOf
  <2>2. loggingIn' > 0 => memory'.administrator # NoAdministrator
    BY <1>1, <1>3 DEF AdministratorCarried
  <2>3. QED
    BY <1>1, <1>3, <2>1, <2>2 DEF Ruled
<1>4. ASSUME NEW t \in Sessions, FinishLogin(t), AdministratorCarried
      PROVE  Ruled'
  <2>1. PICK d : d = WithSession(memory, t, now + SessionLife, now)
    OBVIOUS
  <2>2. /\ Stored(d) /\ loggingIn > 0
        /\ diskWorks => registered' = registered \cup {memory.administrator}
        /\ ~diskWorks => registered' = registered
    BY <1>4, <2>1 DEF FinishLogin
  <2>3. d.administrator = memory.administrator
    BY <1>2, <2>1, OnlySessionsChange
  <2>4. /\ memory' = d /\ disk' \in {disk, d}
        /\ diskWorks => disk' = d
    BY <2>2, StoredEffect
  <2>5. memory.administrator \in Administrators
    BY <1>1, <1>2, <2>2 DEF Documents
  <2>6. \A a \in registered' : memory'.administrator = a /\ disk'.administrator = a
    BY <1>1, <2>2, <2>3, <2>4
  <2>7. registered' \subseteq Administrators
    BY <1>1, <2>2, <2>5
  <2>8. memory'.administrator # NoAdministrator
    BY <1>1, <2>2, <2>3, <2>4
  <2>9. QED
    BY <2>6, <2>7, <2>8 DEF Ruled
<1>5. ASSUME NEW a \in Administrators, NEW t \in Sessions, FinishRegister(a, t)
      PROVE  Ruled'
  <2>1. PICK d1 : d1 = WithAdministrator(memory, a)
    OBVIOUS
  <2>2. PICK d2 : d2 = WithSession(d1, t, now + SessionLife, now)
    OBVIOUS
  <2>3. /\ memory.administrator = NoAdministrator /\ loggingIn' = loggingIn
        /\ \/ memory' = d1 /\ registered' = registered
           \/ memory' = d2 /\ registered' = registered
           \/ memory' = d2 /\ disk' = d2 /\ registered' = registered \cup {a}
    BY <1>5, <2>1, <2>2 DEF FinishRegister, WriteFails, Written, NoAdministratorYet
  <2>4. d1 \in Documents /\ d1.administrator = a
    BY <1>2, <2>1, AdministratorChange
  <2>5. d2.administrator = a
    BY <2>2, <2>4, OnlySessionsChange
  <2>6. registered = {} /\ loggingIn = 0
    BY <2>3, NobodyTold
  <2>7. QED
    BY <1>2, <2>3, <2>4, <2>5, <2>6 DEF Ruled
<1>6. QED
  BY <1>3, <1>4, <1>5, StepsCarry

LEMMA ClientsStep ==
    ASSUME ServerInv, [Next]_vars
    PROVE  ClientsGone'
<1>1. /\ \A c \in removed : c \notin memory.clients /\ c \notin disk.clients
      /\ memory \in Documents
  BY DEF ServerInv, ClientsGone, Formed, WellFormed
<1>2. CASE ClientsCarried
  BY <1>1, <1>2 DEF ClientsCarried, OneOf, ClientsGone
<1>3. ASSUME NEW c \in Clients, AddClient(c)
      PROVE  ClientsGone'
  <2>1. PICK d : d = WithClient(memory, c)
    OBVIOUS
  <2>2. Stored(d) /\ removed' = removed /\ c \notin removed
    BY <1>3, <2>1 DEF AddClient, told
  <2>3. memory' = d /\ disk' \in {disk, d}
    BY <2>2, StoredEffect
  <2>4. d.clients = memory.clients \cup {c}
    BY <1>1, <2>1, ClientAddition
  <2>5. QED
    BY <1>1, <2>2, <2>3, <2>4 DEF ClientsGone
<1>4. ASSUME NEW c \in Clients, DeleteClient(c)
      PROVE  ClientsGone'
  <2>1. PICK d : d = WithoutClient(memory, c)
    OBVIOUS
  <2>2. /\ Stored(d)
        /\ removed' = IF diskWorks THEN removed \cup {c} ELSE removed
    BY <1>4, <2>1 DEF DeleteClient
  <2>3. memory' = d /\ disk' \in {disk, d} /\ (diskWorks => disk' = d)
    BY <2>2, StoredEffect
  <2>4. d.clients = memory.clients \ {c}
    BY <1>1, <2>1, ClientRemoval
  <2>5. QED
    BY <1>1, <2>2, <2>3, <2>4 DEF ClientsGone
<1>5. QED
  BY <1>2, <1>3, <1>4, StepsCarry

(* The clock never goes back.                                              *)
LEMMA TimePasses ==
    ASSUME ServerInv, [Next]_vars
    PROVE  now \in Nat /\ now' \in Nat /\ now <= now'
<1>1. now \in Nat /\ now' \in Nat
  BY CountsStep DEF ServerInv, Counts
<1>2. now' = now \/ now' = now + 1
  BY DEF Next, vars, clock, Register, RegistrationTooLate, FinishRegister, Login,
     FinishLogin, Logout, SetProvider, DeleteProvider, AddClient, DeleteClient,
     RequestToken, FinishToken, Tick, DiskFails, DiskRecovers, Restart
<1>3. QED
  BY <1>1, <1>2

LEMMA AssertionsStep ==
    ASSUME ServerInv, [Next]_vars
    PROVE  AssertionsSpent'
<1>1. /\ accepted \in [Assertions -> Nat]
      /\ \A a \in Assertions :
           /\ accepted[a] <= 1
           /\ accepted[a] > 0 => SpentIn(memory.assertions, a, now)
                                 /\ SpentIn(disk.assertions, a, now)
  BY DEF ServerInv, AssertionsSpent
<1>2. /\ memory \in Documents /\ disk \in Documents /\ WellFormed(memory)
  BY DEF ServerInv, Formed, WellFormed
<1>3. now \in Nat /\ now' \in Nat /\ now <= now'
  BY TimePasses
<1>4. \A a \in Assertions : a.exp + Tolerance \in Nat /\ StoredUntil(a) = a.exp + Tolerance
                            /\ StoredUntil(a) \in Nat
  BY ServerAssumption DEF StoredUntil
<1>5. ASSUME NEW a \in Assertions, NEW A, SpentIn(A, a, now)
      PROVE  SpentIn(A, a, now')
  <2>1. a.exp + Tolerance < now => a.exp + Tolerance < now'
    BY <1>3, <1>4
  <2>2. QED
    BY <1>5, <2>1 DEF SpentIn
<1>6. CASE AssertionsCarried
  <2>1. ASSUME NEW a \in Assertions, accepted'[a] > 0
        PROVE  SpentIn(memory'.assertions, a, now') /\ SpentIn(disk'.assertions, a, now')
    <3>1. accepted' = accepted
      BY <1>6 DEF AssertionsCarried
    <3>2. SpentIn(memory.assertions, a, now') /\ SpentIn(disk.assertions, a, now')
      BY <1>1, <1>5, <2>1, <3>1
    <3>3. QED
      BY <1>6, <3>2 DEF AssertionsCarried, OneOf
  <2>2. accepted' = accepted
    BY <1>6 DEF AssertionsCarried
  <2>3. QED
    BY <1>1, <2>1, <2>2 DEF AssertionsSpent
<1>7. ASSUME NEW a \in Assertions, FinishToken(a)
      PROVE  AssertionsSpent'
  <2>1. CASE UNCHANGED storeVars /\ UNCHANGED accepted
    BY <1>6, <2>1 DEF storeVars, AssertionsCarried, OneOf
  <2>2. CASE /\ Timely(a) /\ Unused(memory, KeyOfAssertion(a), now)
             /\ Stored(WithAssertion(memory, KeyOfAssertion(a), StoredUntil(a), now))
             /\ accepted' = IF diskWorks THEN [accepted EXCEPT ![a] = @ + 1] ELSE accepted
    <3>. DEFINE new == [key |-> KeyOfAssertion(a), expiresAt |-> StoredUntil(a)]
    <3>1. PICK d : d = WithAssertion(memory, KeyOfAssertion(a), StoredUntil(a), now)
      OBVIOUS
    <3>2. memory' = d /\ disk' \in {disk, d} /\ (diskWorks => disk' = d)
      BY <2>2, <3>1, StoredEffect
    <3>3. d.assertions = LiveAssertions(memory, now) \cup {new}
      BY <1>2, <1>3, <1>4, <2>2, <3>1, AssertionAddition
    <3>4. new.key = KeyOfAssertion(a) /\ new.expiresAt = StoredUntil(a)
      OBVIOUS
    <3>. HIDE DEF new
    <3>5. now' = now
      BY <1>7 DEF FinishToken, clock
    <3>6. ~SpentIn(memory.assertions, a, now)
      <4>1. ~(a.exp + Tolerance < now)
        BY <1>3, <2>2, ServerAssumption DEF Timely
      <4>2. ASSUME NEW x \in memory.assertions, x.key = KeyOfAssertion(a),
                   x.expiresAt >= StoredUntil(a)
            PROVE  FALSE
        <5>1. x.expiresAt \in Nat
          BY <1>2 DEF Documents, AssertionRecords
        <5>2. x.expiresAt >= now
          BY <1>3, <1>4, <4>1, <4>2, <5>1
        <5>3. QED
          BY <2>2, <4>2, <5>2 DEF Unused, LiveAssertions
      <4>3. QED
        BY <4>1, <4>2 DEF SpentIn
    <3>7. accepted[a] = 0
      BY <1>1, <3>6
    <3>8. ASSUME NEW b \in Assertions, SpentIn(memory.assertions, b, now)
          PROVE  SpentIn(d.assertions, b, now)
      <4>1. CASE b.exp + Tolerance < now
        BY <4>1 DEF SpentIn
      <4>2. ASSUME NEW x \in memory.assertions, x.key = KeyOfAssertion(b),
                   x.expiresAt >= StoredUntil(b), ~(b.exp + Tolerance < now)
            PROVE  x \in d.assertions
        <5>1. x.expiresAt \in Nat
          BY <1>2 DEF Documents, AssertionRecords
        <5>2. x.expiresAt >= now
          BY <1>3, <1>4, <4>2, <5>1
        <5>3. QED
          BY <3>3, <5>2 DEF LiveAssertions
      <4>3. QED
        BY <3>8, <4>1, <4>2 DEF SpentIn
    <3>9. SpentIn(d.assertions, a, now)
      BY <1>4, <3>3, <3>4 DEF SpentIn
    <3>10. /\ accepted' \in [Assertions -> Nat]
           /\ \A b \in Assertions : b # a => accepted'[b] = accepted[b]
           /\ accepted'[a] <= 1
           /\ accepted'[a] > 0 => diskWorks
      BY <1>1, <2>2, <3>7
    <3>11. ASSUME NEW b \in Assertions, b # a, accepted'[b] > 0
           PROVE  SpentIn(memory'.assertions, b, now) /\ SpentIn(disk'.assertions, b, now)
      <4>1. SpentIn(memory.assertions, b, now) /\ SpentIn(disk.assertions, b, now)
        BY <1>1, <3>10, <3>11
      <4>2. SpentIn(d.assertions, b, now)
        BY <3>8, <4>1
      <4>3. QED
        BY <3>2, <4>1, <4>2
    <3>12. \A b \in Assertions :
              /\ accepted'[b] <= 1
              /\ accepted'[b] > 0 => /\ SpentIn(memory'.assertions, b, now)
                                     /\ SpentIn(disk'.assertions, b, now)
      BY <1>1, <3>2, <3>9, <3>10, <3>11
    <3>13. QED
      BY <3>5, <3>10, <3>12 DEF AssertionsSpent
  <2>3. QED
    BY <1>7, <2>1, <2>2 DEF FinishToken
<1>8. QED
  BY <1>6, <1>7, StepsCarry

LEMMA LimitsStep ==
    ASSUME ServerInv, [Next]_vars
    PROVE  RequestsLimited'
<1>1. /\ TableOK(table) /\ table \in [Clients -> Seq(Nat)]
      /\ served \in [Clients -> Seq(Nat)] /\ now \in Nat
      /\ \A c \in Clients : Limited(served[c], table[c], now)
  BY DEF ServerInv, Counts, RequestsLimited, TableOK
<1>2. CASE UNCHANGED limits /\ now' = now
  BY <1>1, <1>2 DEF limits, RequestsLimited
<1>3. CASE Tick
  <2>1. /\ now' = now + 1 /\ table' = table /\ served' = served
    BY <1>3 DEF Tick, limits
  <2>2. \A c \in Clients : Limited(served[c], table[c], now + 1)
    <3>1. \A c \in Clients : served[c] \in Seq(Nat) /\ table[c] \in Seq(Nat)
      BY <1>1
    <3>2. QED
      BY <1>1, <3>1, LimitedLater
  <2>3. QED
    BY <1>1, <2>1, <2>2 DEF RequestsLimited
<1>4. CASE Restart
  <2>1. /\ now' = now
        /\ table' = [c \in Clients |-> <<>>] /\ served' = [c \in Clients |-> <<>>]
    BY <1>4 DEF Restart, clock
  <2>2. KeysOf(table') = {}
    BY <2>1 DEF KeysOf
  <2>3. <<>> \in Seq(Nat) /\ 0 <= MaxKeys
    BY LimiterAssumption
  <2>4. table' \in [Clients -> Seq(Nat)] /\ served' \in [Clients -> Seq(Nat)]
    BY <2>1, <2>3
  <2>5. TableOK(table')
    BY <2>2, <2>3, <2>4, FS_EmptySet DEF TableOK
  <2>6. Limited(<<>>, <<>>, now)
    BY <1>1, LimitedAtFirst
  <2>7. QED
    BY <2>1, <2>4, <2>5, <2>6 DEF RequestsLimited
<1>5. ASSUME NEW a \in Assertions, RequestToken(a)
      PROVE  RequestsLimited'
  <2>1. PICK key \in Clients : key = a.client
    BY ServerAssumption
  <2>2. /\ now' = now /\ table' = Consume(table, key, now)
        /\ \/ /\ Admits(table, key, now)
              /\ served' = [served EXCEPT ![key] = Append(@, now)]
           \/ ~Admits(table, key, now) /\ served' = served
    BY <1>5, <2>1 DEF RequestToken, clock
  <2>3. /\ TableOK(table')
        /\ \A c \in Clients : c # key => Limited(served[c], table'[c], now)
        /\ ~Admits(table, key, now) => Limited(served[key], table'[key], now)
        /\ Admits(table, key, now) => Limited(Append(served[key], now), table'[key], now)
    BY <1>1, <2>2, TableConsumed
  <2>4. CASE ~Admits(table, key, now) /\ served' = served
    BY <1>1, <2>2, <2>3, <2>4 DEF RequestsLimited
  <2>5. CASE /\ Admits(table, key, now)
             /\ served' = [served EXCEPT ![key] = Append(@, now)]
    <3>1. served[key] \in Seq(Nat)
      BY <1>1
    <3>2. Append(served[key], now) \in Seq(Nat)
      BY <1>1, <3>1, AppendProperties
    <3>3. /\ served' \in [Clients -> Seq(Nat)]
          /\ served'[key] = Append(served[key], now)
          /\ \A c \in Clients : c # key => served'[c] = served[c]
      BY <1>1, <2>5, <3>2
    <3>4. \A c \in Clients : Limited(served'[c], table'[c], now)
      BY <2>3, <2>5, <3>3
    <3>5. QED
      BY <2>2, <2>3, <3>3, <3>4 DEF RequestsLimited
  <2>6. QED
    BY <2>2, <2>4, <2>5
<1>6. \/ UNCHANGED limits /\ now' = now
      \/ Tick \/ Restart \/ \E a \in Assertions : RequestToken(a)
  BY DEF Next, vars, clock, Register, RegistrationTooLate, FinishRegister, Login,
     FinishLogin, Logout, SetProvider, DeleteProvider, AddClient, DeleteClient,
     FinishToken, DiskFails, DiskRecovers
<1>7. QED
  BY <1>2, <1>3, <1>4, <1>5, <1>6

(* A new session, with a token nobody was given yet.                       *)
LEMMA LoginRecorded ==
    ASSUME NEW log \in Seq(SessionRecords), TokensOnce(log), NEW e \in SessionRecords,
           \A i \in 1..Len(log) : log[i].token # e.token
    PROVE  /\ Append(log, e) \in Seq(SessionRecords) /\ TokensOnce(Append(log, e))
           /\ \A i \in 1..Len(log) : i \in 1..Len(Append(log, e)) /\ Append(log, e)[i] = log[i]
           /\ \E i \in 1..Len(Append(log, e)) : Append(log, e)[i] = e
<1>. DEFINE more == Append(log, e)
<1>1. /\ Len(log) \in Nat
      /\ more \in Seq(SessionRecords) /\ Len(more) = Len(log) + 1
      /\ \A i \in 1..Len(log) : more[i] = log[i]
      /\ more[Len(log) + 1] = e
  BY LenProperties, AppendProperties
<1>. HIDE DEF more
<1>2. /\ Len(log) + 1 \in 1..Len(more)
      /\ \A i \in 1..Len(log) : i \in 1..Len(more)
      /\ \A i \in 1..Len(more) : i \in 1..Len(log) \/ i = Len(log) + 1
  BY <1>1
<1>3. TokensOnce(more)
  <2>1. SUFFICES ASSUME NEW i \in 1..Len(more), NEW j \in 1..Len(more),
                        more[i].token = more[j].token
                 PROVE  i = j
    BY DEF TokensOnce
  <2>2. CASE i \in 1..Len(log) /\ j \in 1..Len(log)
    <3>1. log[i].token = log[j].token
      BY <1>1, <2>1, <2>2
    <3>2. QED
      BY <2>2, <3>1 DEF TokensOnce
  <2>3. CASE i = Len(log) + 1 /\ j \in 1..Len(log)
    BY <1>1, <2>1, <2>3
  <2>4. CASE i \in 1..Len(log) /\ j = Len(log) + 1
    BY <1>1, <2>1, <2>4
  <2>5. CASE i = Len(log) + 1 /\ j = Len(log) + 1
    BY <2>5
  <2>6. QED
    BY <1>2, <2>2, <2>3, <2>4, <2>5
<1>4. QED
  BY <1>1, <1>2, <1>3 DEF more

LEMMA SessionsStep ==
    ASSUME ServerInv, [Next]_vars
    PROVE  SessionsOwed'
<1>1. /\ logins \in Seq(SessionRecords) /\ TokensOnce(logins)
      /\ loggedOut \subseteq leaving /\ leaving \subseteq handed /\ handed \subseteq Sessions
      /\ \A t \in handed : \E i \in 1..Len(logins) : logins[i].token = t
      /\ handed # {} => registered # {}
      /\ Owed(memory.sessions, logins, handed \ leaving, loggedOut, now)
      /\ Owed(disk.sessions, logins, handed \ leaving, loggedOut, now)
  BY DEF ServerInv, SessionsOwed
<1>2. /\ now \in Nat /\ now' \in Nat /\ now <= now'
      /\ memory.sessions \in Seq(SessionRecords) /\ disk.sessions \in Seq(SessionRecords)
  BY TimePasses DEF ServerInv, Formed, WellFormed, Documents
<1>3. CASE SessionsCarried
  <2>1. /\ UNCHANGED <<registered, logins, handed, leaving, loggedOut>>
        /\ memory'.sessions \in {memory.sessions, disk.sessions}
        /\ disk'.sessions \in {memory.sessions, disk.sessions}
    BY <1>3 DEF SessionsCarried, OneOf
  <2>2. PICK given : given = handed \ leaving
    OBVIOUS
  <2>3. /\ Owed(memory.sessions, logins, given, loggedOut, now')
        /\ Owed(disk.sessions, logins, given, loggedOut, now')
    <3>1. /\ Owed(memory.sessions, logins, given, loggedOut, now)
          /\ Owed(disk.sessions, logins, given, loggedOut, now)
          /\ given \in SUBSET given /\ loggedOut \in SUBSET loggedOut
      BY <1>1, <2>2
    <3>2. QED
      BY <1>1, <1>2, <3>1, LessOwed
  <2>4. given = handed' \ leaving'
    BY <2>1, <2>2
  <2>5. /\ Owed(memory'.sessions, logins', given, loggedOut', now')
        /\ Owed(disk'.sessions, logins', given, loggedOut', now')
    BY <2>1, <2>3
  <2>6. QED
    BY <1>1, <2>1, <2>4, <2>5 DEF SessionsOwed
<1>4. ASSUME NEW t \in Sessions, Logout(t)
      PROVE  SessionsOwed'
  <2>1. PICK d : d = WithoutSession(memory, t)
    OBVIOUS
  <2>2. /\ t \in handed /\ leaving' = leaving \cup {t} /\ Stored(d) /\ now' = now
        /\ loggedOut' = (IF diskWorks THEN loggedOut \cup {t} ELSE loggedOut)
        /\ UNCHANGED <<registered, logins, handed>>
    BY <1>4, <2>1 DEF Logout, clock
  <2>3. memory' = d /\ disk' \in {disk, d} /\ (diskWorks => disk' = d)
    BY <2>2, StoredEffect
  <2>4. /\ WellFormed(d)
        /\ Owed(d.sessions, logins, (handed \ leaving) \ {t}, loggedOut \cup {t}, now)
    BY <2>1, LogoutDocument
  <2>5. d.sessions \in Seq(SessionRecords)
    BY <2>4 DEF WellFormed, Documents
  <2>6. PICK given, gone : given = handed' \ leaving' /\ gone = loggedOut \cup {t}
    OBVIOUS
  <2>7. given = (handed \ leaving) \ {t}
    BY <2>2, <2>6
  <2>8. /\ Owed(d.sessions, logins, given, gone, now)
        /\ given \in SUBSET given /\ gone \in SUBSET gone /\ loggedOut \in SUBSET gone
    BY <2>4, <2>6, <2>7
  <2>9. Owed(d.sessions, logins, given, loggedOut, now)
    BY <1>1, <1>2, <2>5, <2>8, LessOwed
  <2>10. Owed(disk.sessions, logins, given, loggedOut, now)
    <3>1. PICK before : before = handed \ leaving
      OBVIOUS
    <3>2. /\ Owed(disk.sessions, logins, before, loggedOut, now)
          /\ given \in SUBSET before /\ loggedOut \in SUBSET loggedOut
      BY <1>1, <2>7, <3>1
    <3>3. QED
      BY <1>1, <1>2, <3>2, LessOwed
  <2>11. /\ Owed(memory'.sessions, logins', given, loggedOut', now')
         /\ Owed(disk'.sessions, logins', given, loggedOut', now')
    <3>1. CASE diskWorks
      BY <2>2, <2>3, <2>6, <2>8, <3>1
    <3>2. CASE ~diskWorks
      BY <2>2, <2>3, <2>9, <2>10, <3>2
    <3>3. QED
      BY <3>1, <3>2
  <2>12. loggedOut' \subseteq leaving' /\ leaving' \subseteq handed'
    BY <1>1, <2>2
  <2>13. QED
    BY <1>1, <2>2, <2>6, <2>11, <2>12 DEF SessionsOwed
<1>5. ASSUME NEW t \in Sessions,
             NewSession(t) \in SessionRecords,
             \A i \in 1..Len(logins) : logins[i].token # t,
             UNCHANGED <<leaving, loggedOut, now>>,
             logins' = Append(logins, NewSession(t)),
             \/ UNCHANGED <<registered, handed>>
             \/ registered' # {} /\ handed' = handed \cup {t},
             Owed(memory'.sessions, logins', handed' \ leaving, loggedOut, now),
             Owed(disk'.sessions, logins', handed' \ leaving, loggedOut, now)
      PROVE  SessionsOwed'
  <2>1. PICK e \in SessionRecords : e = NewSession(t)
    BY <1>5
  <2>2. e.token = t
    BY <2>1 DEF NewSession
  <2>3. /\ logins' \in Seq(SessionRecords) /\ TokensOnce(logins')
        /\ \A i \in 1..Len(logins) : i \in 1..Len(logins') /\ logins'[i] = logins[i]
        /\ \E i \in 1..Len(logins') : logins'[i] = e
    <3>1. logins' = Append(logins, e)
      BY <1>5, <2>1
    <3>2. QED
      BY <1>1, <1>5, <2>2, <3>1, LoginRecorded
  <2>4. ASSUME NEW x \in handed'
        PROVE  \E i \in 1..Len(logins') : logins'[i].token = x
    <3>1. CASE x = t
      BY <2>2, <2>3, <3>1
    <3>2. CASE x \in handed
      <4>1. PICK i \in 1..Len(logins) : logins[i].token = x
        BY <1>1, <3>2
      <4>2. i \in 1..Len(logins') /\ logins'[i].token = x
        BY <2>3, <4>1
      <4>3. QED
        BY <4>2
    <3>3. QED
      BY <1>5, <3>1, <3>2
  <2>5. /\ loggedOut' \subseteq leaving' /\ leaving' \subseteq handed' /\ handed' \subseteq Sessions
        /\ handed' # {} => registered' # {}
    BY <1>1, <1>5
  <2>6. /\ Owed(memory'.sessions, logins', handed' \ leaving', loggedOut', now')
        /\ Owed(disk'.sessions, logins', handed' \ leaving', loggedOut', now')
    BY <1>5
  <2>7. QED
    BY <2>3, <2>4, <2>5, <2>6 DEF SessionsOwed
<1>6. ASSUME NEW t \in Sessions, NewSession(t) \in SessionRecords, t \notin handed,
             NEW q \in Seq(SessionRecords),
             Owed(q, logins, handed \ leaving, loggedOut, now)
      PROVE  Owed(q, Append(logins, NewSession(t)), handed \ leaving, loggedOut, now)
  <2>1. PICK e \in SessionRecords : e = NewSession(t)
    BY <1>6
  <2>2. PICK given : given = handed \ leaving
    OBVIOUS
  <2>3. e.token \notin given
    BY <1>6, <2>1, <2>2 DEF NewSession
  <2>4. Owed(q, logins, given, loggedOut, now)
    BY <1>6, <2>2
  <2>5. Owed(q, Append(logins, e), given, loggedOut, now)
    BY <1>1, <1>2, <2>3, <2>4, OwedWithoutNewest
  <2>6. QED
    BY <2>1, <2>2, <2>5
<1>7. ASSUME NEW t \in Sessions, NewSession(t) \in SessionRecords, t \notin handed,
             \A i \in 1..Len(logins) : logins[i].token # t,
             NEW q \in Seq(SessionRecords),
             Owed(q, Append(logins, NewSession(t)), (handed \ leaving) \cup {t}, loggedOut, now),
             NEW holders, holders = handed \/ holders = handed \cup {t}
      PROVE  Owed(q, Append(logins, NewSession(t)), holders \ leaving, loggedOut, now)
  <2>1. PICK more : more = Append(logins, NewSession(t))
    OBVIOUS
  <2>2. more \in Seq(SessionRecords)
    BY <1>1, <1>7, <2>1, AppendProperties
  <2>3. PICK given, fewer : given = (handed \ leaving) \cup {t} /\ fewer = holders \ leaving
    OBVIOUS
  <2>4. Owed(q, more, given, loggedOut, now) /\ fewer \in SUBSET given
        /\ loggedOut \in SUBSET loggedOut
    BY <1>7, <2>1, <2>3
  <2>5. Owed(q, more, fewer, loggedOut, now)
    BY <1>2, <2>2, <2>4, LessOwed
  <2>6. QED
    BY <2>1, <2>3, <2>5
<1>8. ASSUME NEW t \in Sessions, FinishLogin(t)
      PROVE  SessionsOwed'
  <2>1. PICK d : d = WithSession(memory, t, now + SessionLife, now)
    OBVIOUS
  <2>2. /\ NeverUsed(t) /\ Stored(d) /\ UNCHANGED <<leaving, loggedOut, now>>
        /\ logins' = Append(logins, NewSession(t))
        /\ diskWorks => /\ registered' = registered \cup {memory.administrator}
                        /\ handed' = handed \cup {t}
        /\ ~diskWorks => UNCHANGED <<registered, handed>>
    BY <1>8, <2>1 DEF FinishLogin, clock
  <2>3. memory' = d /\ disk' \in {disk, d} /\ (diskWorks => disk' = d)
    BY <2>2, StoredEffect
  <2>4. memory \in Documents
    BY DEF ServerInv, Formed, WellFormed
  <2>5. /\ d \in Documents /\ NewSession(t) \in SessionRecords
        /\ \A i \in 1..Len(logins) : logins[i].token # t
        /\ t \notin handed
        /\ Owed(d.sessions, Append(logins, NewSession(t)),
                (handed \ leaving) \cup {t}, loggedOut, now)
    BY <2>1, <2>2, <2>4, LoginDocument
  <2>6. d.sessions \in Seq(SessionRecords)
    BY <2>5 DEF Documents
  <2>7. handed' = handed \/ handed' = handed \cup {t}
    BY <2>2
  <2>8. Owed(d.sessions, logins', handed' \ leaving, loggedOut, now)
    BY <1>7, <2>2, <2>5, <2>6, <2>7
  <2>9. ~diskWorks => Owed(disk.sessions, logins', handed' \ leaving, loggedOut, now)
    BY <1>1, <1>2, <1>6, <2>2, <2>5
  <2>10. QED
    BY <1>5, <2>2, <2>3, <2>5, <2>8, <2>9
<1>9. ASSUME NEW a \in Administrators, NEW t \in Sessions, FinishRegister(a, t)
      PROVE  SessionsOwed'
  <2>1. PICK d1 : d1 = WithAdministrator(memory, a)
    OBVIOUS
  <2>2. PICK d2 : d2 = WithSession(d1, t, now + SessionLife, now)
    OBVIOUS
  <2>3. /\ NeverUsed(t) /\ UNCHANGED <<leaving, loggedOut, now>>
        /\ \/ /\ memory' = d1 /\ disk' \in {disk, d1}
              /\ UNCHANGED <<registered, logins, handed>>
           \/ /\ memory' = d2 /\ disk' \in {d1, d2}
              /\ logins' = Append(logins, NewSession(t))
              /\ UNCHANGED <<registered, handed>>
           \/ /\ memory' = d2 /\ disk' = d2
              /\ logins' = Append(logins, NewSession(t))
              /\ registered' = registered \cup {a} /\ handed' = handed \cup {t}
    BY <1>9, <2>1, <2>2 DEF FinishRegister, WriteFails, Written, clock
  <2>4. /\ WellFormed(d1) /\ WellFormed(d2)
        /\ NewSession(t) \in SessionRecords
        /\ \A i \in 1..Len(logins) : logins[i].token # t
        /\ t \notin handed
        /\ Owed(d1.sessions, logins, handed \ leaving, loggedOut, now)
        /\ Owed(d2.sessions, Append(logins, NewSession(t)),
                (handed \ leaving) \cup {t}, loggedOut, now)
    BY <2>1, <2>2, <2>3, RegistrationDocuments
  <2>5. d1.sessions \in Seq(SessionRecords) /\ d2.sessions \in Seq(SessionRecords)
    BY <2>4 DEF WellFormed, Documents
  <2>6. CASE /\ memory' = d1 /\ disk' \in {disk, d1}
             /\ UNCHANGED <<registered, logins, handed>>
    <3>1. /\ Owed(memory'.sessions, logins', handed' \ leaving', loggedOut', now')
          /\ Owed(disk'.sessions, logins', handed' \ leaving', loggedOut', now')
      BY <1>1, <2>3, <2>4, <2>6
    <3>2. QED
      BY <1>1, <2>3, <2>6, <3>1 DEF SessionsOwed
  <2>7. CASE /\ memory' = d2 /\ disk' \in {d1, d2}
             /\ logins' = Append(logins, NewSession(t))
             /\ UNCHANGED <<registered, handed>>
    <3>1. Owed(d1.sessions, logins', handed' \ leaving, loggedOut, now)
      BY <1>6, <2>4, <2>5, <2>7
    <3>2. Owed(d2.sessions, logins', handed' \ leaving, loggedOut, now)
      BY <1>7, <2>4, <2>5, <2>7
    <3>3. QED
      BY <1>5, <2>3, <2>4, <2>7, <3>1, <3>2
  <2>8. CASE /\ memory' = d2 /\ disk' = d2
             /\ logins' = Append(logins, NewSession(t))
             /\ registered' = registered \cup {a} /\ handed' = handed \cup {t}
    <3>1. Owed(d2.sessions, logins', handed' \ leaving, loggedOut, now)
      BY <1>7, <2>4, <2>5, <2>8
    <3>2. registered' # {}
      BY <2>8
    <3>3. QED
      BY <1>5, <2>3, <2>4, <2>8, <3>1, <3>2
  <2>9. QED
    BY <2>3, <2>6, <2>7, <2>8
<1>10. QED
  BY <1>3, <1>4, <1>8, <1>9, StepsCarry

-----------------------------------------------------------------------------
(* What the secure process holds to: both documents keep every promise,    *)
(* and the limiter remembers every recent request.                         *)
THEOREM ServerInvariant == Spec => []ServerInv
<1>1. ServerInv /\ [Next]_vars => ServerInv'
  <2>1. SUFFICES ASSUME ServerInv, [Next]_vars PROVE ServerInv'
    OBVIOUS
  <2>2. Counts
    BY <2>1 DEF ServerInv
  <2>3. Counts'
    BY <2>1, <2>2, CountsStep
  <2>4. Formed'
    BY <2>1, StepsCarry
  <2>5. Ruled'
    BY <2>1, RuledStep
  <2>6. SessionsOwed'
    BY <2>1, SessionsStep
  <2>7. ClientsGone'
    BY <2>1, ClientsStep
  <2>8. AssertionsSpent'
    BY <2>1, AssertionsStep
  <2>9. RequestsLimited'
    BY <2>1, LimitsStep
  <2>10. QED
    BY <2>3, <2>4, <2>5, <2>6, <2>7, <2>8, <2>9 DEF ServerInv
<1>2. QED
  BY Initially, <1>1, PTL DEF Spec

(* No assertion buys two tokens: from issue() and consumeAssertion(), with *)
(* any number of requests that check the same assertion at once, across    *)
(* restarts and failed writes.                                             *)
THEOREM NoSecondToken == Spec => []AcceptedOnce
<1>1. ServerInv => AcceptedOnce
  BY DEF ServerInv, AssertionsSpent, AcceptedOnce
<1>2. QED
  BY ServerInvariant, <1>1, PTL

(* The document and what waits for it have their types and their limits,   *)
(* and at most one administrator is told so: setAdministrator() looks      *)
(* again after the password was hashed.                                    *)
THEOREM FirstRegistrationWins == Spec => []OneAdministrator
<1>1. ASSUME ServerInv PROVE OneAdministrator
  <2>1. ASSUME NEW d, WellFormed(d)
        PROVE  DocumentOK(d, { KeyOfAssertion(a) : a \in Assertions })
    BY <2>1 DEF WellFormed, Documents, SessionRecords, AssertionRecords, DocumentOK
  <2>2. /\ DocumentOK(memory, { KeyOfAssertion(a) : a \in Assertions })
        /\ DocumentOK(disk, { KeyOfAssertion(a) : a \in Assertions })
    BY <1>1, <2>1 DEF ServerInv, Formed
  <2>3. /\ registering \subseteq Administrators
        /\ loggingIn \in 0..Bounds.requests
        /\ issuing \in [Assertions -> 0..Bounds.requests]
    <3>1. /\ registering \subseteq Administrators /\ loggingIn \in Nat
          /\ issuing \in [Assertions -> Nat]
          /\ left.requests \in Nat
          /\ left.requests + loggingIn <= Bounds.requests
          /\ \A a \in Assertions : left.requests + issuing[a] <= Bounds.requests
      BY <1>1 DEF ServerInv, Counts
    <3>2. Bounds.requests \in Nat
      BY ServerAssumption
    <3>3. \A a \in Assertions : issuing[a] \in 0..Bounds.requests
      BY <3>1, <3>2
    <3>4. QED
      BY <3>1, <3>2, <3>3
  <2>4. /\ DOMAIN table = Clients /\ Cardinality(KeysOf(table)) <= MaxKeys
        /\ handed \subseteq Sessions /\ loggedOut \subseteq leaving
    BY <1>1 DEF ServerInv, RequestsLimited, TableOK, SessionsOwed
  <2>5. \A a \in registered : memory.administrator = a /\ disk.administrator = a
    BY <1>1 DEF ServerInv, Ruled
  <2>6. Cardinality(registered) <= 1
    <3>1. registered \in SUBSET {memory.administrator}
      BY <2>5
    <3>2. IsFiniteSet({memory.administrator}) /\ Cardinality({memory.administrator}) = 1
      BY FS_Singleton
    <3>3. Cardinality(registered) <= Cardinality({memory.administrator})
      BY <3>1, <3>2, FS_Subset
    <3>4. QED
      BY <3>2, <3>3
  <2>7. ServerTypeOK
    BY <2>2, <2>3, <2>4 DEF ServerTypeOK
  <2>8. QED
    BY <2>5, <2>6, <2>7 DEF OneAdministrator
<1>2. QED
  BY ServerInvariant, <1>1, PTL

(* A confirmed logout or deletion holds for good: the session and the      *)
(* client are gone from the document in memory and from the file.          *)
THEOREM RevocationsHold == Spec => []RevokedStaysOut
<1>1. ASSUME ServerInv PROVE RevokedStaysOut
  <2>1. ASSUME NEW d, WellFormed(d), NEW log, NEW given,
               Owed(d.sessions, log, given, loggedOut, now), NEW t \in loggedOut
        PROVE  ~HasSession(d, t, now)
    <3>1. DOMAIN d.sessions = 1..Len(d.sessions)
      BY <2>1, LenProperties DEF WellFormed, Documents
    <3>2. QED
      BY <2>1, <3>1 DEF Owed, HasSession
  <2>2. \A t \in loggedOut : ~HasSession(memory, t, now) /\ ~HasSession(disk, t, now)
    <3>1. /\ WellFormed(memory) /\ WellFormed(disk)
          /\ Owed(memory.sessions, logins, handed \ leaving, loggedOut, now)
          /\ Owed(disk.sessions, logins, handed \ leaving, loggedOut, now)
      BY <1>1 DEF ServerInv, Formed, SessionsOwed
    <3>2. QED
      BY <2>1, <3>1
  <2>3. \A c \in removed : c \notin memory.clients /\ c \notin disk.clients
    BY <1>1 DEF ServerInv, ClientsGone
  <2>4. QED
    BY <2>2, <2>3 DEF RevokedStaysOut, SessionAccepted, TokenAdmitted, HasClient
<1>2. QED
  BY ServerInvariant, <1>1, PTL

(* A session that a browser was given is let in until it expires, is       *)
(* logged out or is pushed out by MaxSessions newer ones; failed writes    *)
(* and restarts take no session away.                                      *)
THEOREM SessionsLast == Spec => []SessionsKept
<1>1. ASSUME ServerInv PROVE SessionsKept
  <2>1. /\ memory.sessions \in Seq(SessionRecords) /\ logins \in Seq(SessionRecords)
        /\ Owed(memory.sessions, logins, handed \ leaving, loggedOut, now)
        /\ handed # {} => registered # {}
    BY <1>1 DEF ServerInv, Formed, WellFormed, Documents, SessionsOwed
  <2>2. DOMAIN logins = 1..Len(logins) /\ DOMAIN memory.sessions = 1..Len(memory.sessions)
    BY <2>1, LenProperties
  <2>3. handed # {} => memory.administrator # NoAdministrator
    BY <1>1, <2>1, StoreAssumption DEF ServerInv, Ruled
  <2>4. ASSUME NEW i \in 1..Len(logins), logins[i].token \in handed \ leaving,
               now < logins[i].expiresAt, Len(logins) - i < MaxSessions
        PROVE  SessionAccepted(logins[i].token)
    <3>1. PICK k \in 1..Len(memory.sessions) : memory.sessions[k] = logins[i]
      BY <2>1, <2>4 DEF Owed
    <3>2. logins[i].expiresAt \in Nat /\ now \in Nat
      <4>1. logins[i] \in SessionRecords
        BY <2>1, <2>4, ElementOfSeq
      <4>2. QED
        BY <1>1, <4>1 DEF SessionRecords, ServerInv, Counts
    <3>3. HasSession(memory, logins[i].token, now)
      BY <2>2, <2>4, <3>1, <3>2 DEF HasSession
    <3>4. QED
      BY <2>3, <2>4, <3>3 DEF SessionAccepted, NoAdministratorYet
  <2>5. QED
    BY <2>2, <2>4 DEF SessionsKept
<1>2. QED
  BY ServerInvariant, <1>1, PTL

(* At most Limit requests of a client go through in any window, though a   *)
(* full table drops keys and shares its room among all clients.            *)
THEOREM LimitHolds == Spec => []WindowKept
<1>1. ASSUME ServerInv PROVE WindowKept
  <2>1. \A c \in Clients : served[c] \in Seq(Nat) /\ Spread(served[c])
    BY <1>1 DEF ServerInv, RequestsLimited, Limited
  <2>2. \A c \in Clients : DOMAIN served[c] = 1..Len(served[c])
    BY <2>1, LenProperties
  <2>3. QED
    BY <2>1, <2>2 DEF WindowKept, Spread
<1>2. QED
  BY ServerInvariant, <1>1, PTL
=============================================================================
