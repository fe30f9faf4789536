---------------------------- MODULE RunLoopProofs ----------------------------
(***************************************************************************)
(* Proofs about RunLoop, for every set of children and of other runs, any  *)
(* answers of the model, any errors and any budgets.                       *)
(*                                                                         *)
(* The inductive invariant RunInv says of each run, by its place in the    *)
(* loop, what its history looks like (HistoryOf), what it has reported     *)
(* (EndOf) and how far its budgets are used (BudgetOf).  Two facts carry   *)
(* the argument.  A budget is asked when the calls of a turn are recorded, *)
(* before any is started: while the run goes on, all the calls in its      *)
(* history, and not only those it started, are within the budgets.  And    *)
(* children have steps only while their parent stands at its call of       *)
(* `subagents` (ParentWaits), so its turn does not move under them and     *)
(* nobody starts a child that runs already.                                *)
(*                                                                         *)
(* Most steps move one run.  RunStays, ProviderStays and ParentStays say   *)
(* once what such a step leaves alone; each action then has one lemma.     *)
(***************************************************************************)
EXTENDS RunLoop, KeyedLimiter, SequenceLemmas, FiniteSetTheorems


CallRecords == [kind : Kinds, started : BOOLEAN, ended : BOOLEAN, result : BOOLEAN]
Histories == Seq(Seq(CallRecords))
Reasons == {"none", "error", "cancelled", "timeout", "end_turn",
            "max_tool_calls", "budget_exhausted", "max_iterations"}

(* Every variable has a value of its kind.                                 *)
RunTypes ==
    /\ holders \in [LimiterKeys -> SUBSET (Agents \cup Others)]
    /\ line \in [LimiterKeys -> Seq(Agents \cup Others)]
    /\ aborted \in {"no", "cancelled", "timeout"}
    /\ pc \in [Agents -> Places]
    /\ attempt \in [Agents -> 0..MaxRetries]
    /\ visible \in [Agents -> BOOLEAN]
    /\ history \in [Agents -> Histories]
    /\ counted \in [Agents -> [CountedKinds -> Nat]]
    /\ large \in [Agents -> Nat]
    /\ numTurns \in [Agents -> Nat]
    /\ called \in [Agents -> Nat]
    /\ stop \in [Agents -> Reasons]
    /\ finishes \in [Agents -> Nat]

(* Who stands at the provider.                                             *)
AtProvider ==
    /\ NoRepeats(line["provider"])
    /\ ToSet(line["provider"]) \cap holders["provider"] = {}
    /\ \A a \in Agents : a \in holders["provider"] => pc[a] \in {"queued", "attempt"}
    /\ \A a \in Agents : a \in ToSet(line["provider"]) => pc[a] = "queued"

(* Places where a run has nothing to do, and those inside of a turn.       *)
Over == {"idle", "admit", "finished"}
InTurn == {"tools", "tool"}

(* Every call has its result.                                              *)
Answered(turns) == \A t \in DOMAIN turns : \A i \in DOMAIN turns[t] : turns[t][i].result

(* A turn is worked off up to its call n.                                  *)
WorkedOff(calls, n) ==
    /\ \A i \in DOMAIN calls : i < n => calls[i].ended /\ calls[i].result
    /\ \A i \in DOMAIN calls : i >= n => ~calls[i].ended /\ ~calls[i].result

(* A turn whose current call is one of subagents.                          *)
AtSubagents(calls) ==
    \E n \in DOMAIN calls : WorkedOff(calls, n) /\ calls[n].kind = "subagents"

(* Children run only while their parent waits for them.                    *)
ParentWaits ==
    /\ pc[Parent] \notin {"idle", "admit"}
    /\ \A c \in Children :
         pc[c] # "idle" => pc[Parent] = "tool" /\ AtSubagents(LastTurn(Parent))

(* The turn of a call that has not ended; every earlier turn is answered.  *)
Working(turns) ==
    /\ turns # <<>>
    /\ \E n \in DOMAIN turns[Len(turns)] : WorkedOff(turns[Len(turns)], n)
    /\ \A t \in DOMAIN turns : t < Len(turns) => \A i \in DOMAIN turns[t] : turns[t][i].result

(* A call that ended and has no result.                                    *)
LacksResult(turns) ==
    \E t \in DOMAIN turns : \E i \in DOMAIN turns[t] : turns[t][i].ended /\ ~turns[t][i].result

(* What the history of a run looks like, by the place the run is at.       *)
HistoryOf(a) ==
    /\ pc[a] = "setup" => history[a] = <<>>
    /\ pc[a] \in {"queued", "attempt", "backoff"} => Answered(history[a])
    /\ pc[a] = "loop" /\ aborted = "no" => Answered(history[a])
    /\ pc[a] \in InTurn => Working(history[a])
    /\ LacksResult(history[a]) => pc[a] \in Over /\ stop[a] = "budget_exhausted"
    /\ a \in Children =>
         \A t \in DOMAIN history[a] : \A i \in DOMAIN history[a][t] :
             history[a][t][i].kind # "subagents"

(* What a run has reported of its end.                                     *)
EndOf(a) ==
    /\ pc[a] \notin Over => finishes[a] = 0
    /\ pc[a] = "finished" =>
        /\ finishes[a] = 1
        /\ stop[a] \in {"cancelled", "timeout"} => aborted = stop[a]
        /\ stop[a] = "end_turn" /\ visible[a] => LastTurn(a) = <<>>
        /\ stop[a] = "budget_exhausted" => LastTurn(a) # <<>>

(* The calls whose results the session has not got yet.                    *)
Due(a) == IF pc[a] \in InTurn THEN Len(LastTurn(a)) ELSE 0

(* What was started is within the budgets; as long as the run goes on, so  *)
(* is everything that could still be started.                              *)
BudgetOf(a) ==
    /\ Cardinality(StartedIn(history[a])) <= MaxToolCalls
    /\ \A k \in CountedKinds :
         Cardinality(StartedIn(history[a]) \cap OfKindIn(history[a], k)) <= MaxKind[k]
    /\ numTurns[a] <= MaxTurns[a]
    /\ large[a] <= MaxLarge + 1
    /\ pc[a] \notin Over =>
        /\ Cardinality(CallsIn(history[a])) = called[a] + Due(a)
        /\ called[a] + Due(a) <= MaxToolCalls
        /\ \A k \in CountedKinds :
             Cardinality(OfKindIn(history[a], k)) = counted[a][k] /\ counted[a][k] <= MaxKind[k]
        /\ numTurns[a] < MaxTurns[a]
        /\ large[a] <= MaxLarge

RunOf(a) == HistoryOf(a) /\ EndOf(a) /\ BudgetOf(a)

RunInv == RunTypes /\ AtProvider /\ ParentWaits /\ \A a \in Agents : RunOf(a)

-----------------------------------------------------------------------------
(* The constants are what the assumption says.                             *)
LEMMA Constants ==
    /\ Parent \in Agents /\ Children \subseteq Agents /\ Parent \notin Children
    /\ Others \cap Agents = {}
    /\ \A a \in Agents : MaxTurns[a] \in Nat \ {0} /\ Answers[a] \subseteq Seq(Kinds)
    /\ MaxRetries \in Nat /\ MaxToolCalls \in Nat /\ MaxLarge \in Nat
    /\ \A k \in CountedKinds : MaxKind[k] \in Nat
    /\ LimiterConcurrency \in Nat \ {0}
    /\ "provider" \in LimiterKeys /\ "subagents" \in LimiterKeys
BY RunLoopAssumption DEF Agents, LimiterKeys

(* A history and its turns.                                                *)
LEMMA TurnsOf ==
    ASSUME NEW turns \in Histories
    PROVE  /\ Len(turns) \in Nat /\ DOMAIN turns = 1..Len(turns)
           /\ \A t \in DOMAIN turns :
                /\ turns[t] \in Seq(CallRecords)
                /\ Len(turns[t]) \in Nat /\ DOMAIN turns[t] = 1..Len(turns[t])
                /\ \A i \in DOMAIN turns[t] : turns[t][i] \in CallRecords
<1>1. Len(turns) \in Nat /\ DOMAIN turns = 1..Len(turns)
  BY LenProperties DEF Histories
<1>2. ASSUME NEW t \in DOMAIN turns
      PROVE  /\ turns[t] \in Seq(CallRecords)
             /\ Len(turns[t]) \in Nat /\ DOMAIN turns[t] = 1..Len(turns[t])
             /\ \A i \in DOMAIN turns[t] : turns[t][i] \in CallRecords
  <2>1. turns[t] \in Seq(CallRecords)
    BY <1>1, ElementOfSeq DEF Histories
  <2>2. Len(turns[t]) \in Nat /\ DOMAIN turns[t] = 1..Len(turns[t])
    BY <2>1, LenProperties
  <2>3. QED
    BY <2>1, <2>2, ElementOfSeq
<1>3. QED
  BY <1>1, <1>2

(* There are finitely many calls.                                          *)
LEMMA CallsFinite ==
    ASSUME NEW turns \in Histories
    PROVE  /\ IsFiniteSet(CallsIn(turns))
           /\ StartedIn(turns) \subseteq CallsIn(turns)
           /\ \A k : OfKindIn(turns, k) \subseteq CallsIn(turns)
<1>. DEFINE Row(t) == {t} \X DOMAIN turns[t]
            rows == {Row(t) : t \in DOMAIN turns}
<1>1. IsFiniteSet(DOMAIN turns)
  BY TurnsOf, FS_Interval
<1>2. \A t \in DOMAIN turns : IsFiniteSet(Row(t))
  <2>1. SUFFICES ASSUME NEW t \in DOMAIN turns PROVE IsFiniteSet(Row(t))
    OBVIOUS
  <2>2. IsFiniteSet(DOMAIN turns[t])
    BY TurnsOf, FS_Interval
  <2>3. IsFiniteSet({t})
    BY FS_Singleton
  <2>4. QED
    BY <2>2, <2>3, FS_Product
<1>3. IsFiniteSet(rows)
  <2>. HIDE DEF Row
  <2>1. rows = {Row(t) : t \in DOMAIN turns}
    OBVIOUS
  <2>. DEFINE f == [t \in DOMAIN turns |-> Row(t)]
  <2>2. f \in Surjection(DOMAIN turns, rows)
    BY DEF Surjection
  <2>3. QED
    BY <1>1, <2>2, FS_Surjection
<1>4. CallsIn(turns) = UNION rows
  BY DEF CallsIn
<1>5. \A R \in rows : IsFiniteSet(R)
  BY <1>2
<1>6. IsFiniteSet(CallsIn(turns))
  <2>. HIDE DEF rows
  <2>1. QED
    BY <1>3, <1>4, <1>5, FS_UNION
<1>7. QED
  BY <1>6 DEF StartedIn, OfKindIn

(* Counting some of a history's calls.                                     *)
LEMMA CountWithin ==
    ASSUME NEW turns \in Histories, NEW S, NEW T, S \subseteq T, T \subseteq CallsIn(turns)
    PROVE  /\ IsFiniteSet(S) /\ IsFiniteSet(T)
           /\ Cardinality(S) \in Nat /\ Cardinality(T) \in Nat
           /\ Cardinality(S) <= Cardinality(T)
<1>1. IsFiniteSet(T)
  BY CallsFinite, FS_Subset
<1>2. IsFiniteSet(S) /\ Cardinality(S) <= Cardinality(T)
  BY <1>1, FS_Subset
<1>3. QED
  BY <1>1, <1>2, FS_CardinalityType

(* The calls of an empty history.                                          *)
LEMMA NoCalls ==
    /\ <<>> \in Histories /\ CallsIn(<<>>) = {}
    /\ StartedIn(<<>>) = {} /\ \A k : OfKindIn(<<>>, k) = {}
    /\ Cardinality({}) = 0
<1>1. <<>> \in Histories
  BY DEF Histories
<1>2. CallsIn(<<>>) = {}
  BY DEF CallsIn
<1>3. QED
  BY <1>1, <1>2, FS_EmptySet DEF StartedIn, OfKindIn

(* Places in a row of their own are as many as those in the row.           *)
LEMMA RowCount ==
    ASSUME NEW n, NEW D, IsFiniteSet(D)
    PROVE  IsFiniteSet({n} \X D) /\ Cardinality({n} \X D) = Cardinality(D)
<1>1. IsFiniteSet({n}) /\ Cardinality({n}) = 1
  BY FS_Singleton
<1>2. Cardinality(D) \in Nat
  BY FS_CardinalityType
<1>3. IsFiniteSet({n} \X D) /\ Cardinality({n} \X D) = Cardinality({n}) * Cardinality(D)
  BY <1>1, FS_Product
<1>4. QED
  BY <1>1, <1>2, <1>3

(* Two sets without a common member.                                       *)
LEMMA DisjointCount ==
    ASSUME NEW S, NEW T, IsFiniteSet(S), IsFiniteSet(T), S \cap T = {}
    PROVE  Cardinality(S \cup T) = Cardinality(S) + Cardinality(T)
<1>1. Cardinality(S) \in Nat /\ Cardinality(T) \in Nat
  BY FS_CardinalityType
<1>2. Cardinality(S \cup T) = Cardinality(S) + Cardinality(T) - Cardinality(S \cap T)
  BY FS_Union
<1>3. QED
  BY <1>1, <1>2, FS_EmptySet

(* What a new turn adds to the counts.                                     *)
IsLonger(next, turns, calls) ==
    /\ Len(next) = Len(turns) + 1 /\ next[Len(turns) + 1] = calls
    /\ \A t \in DOMAIN turns : next[t] = turns[t]
    /\ DOMAIN next = DOMAIN turns \cup {Len(turns) + 1}
    /\ StartedIn(next) = StartedIn(turns)
    /\ \A k : StartedIn(next) \cap OfKindIn(next, k) = StartedIn(turns) \cap OfKindIn(turns, k)
    /\ Cardinality(CallsIn(next)) = Cardinality(CallsIn(turns)) + Len(calls)
    /\ \A k : Cardinality(OfKindIn(next, k)) = Cardinality(OfKindIn(turns, k)) + OfKind(calls, k)

(* Append() of a turn whose calls have not started.                        *)
LEMMA TurnAdded ==
    ASSUME NEW turns \in Histories, NEW calls \in Seq(CallRecords),
           \A i \in DOMAIN calls : ~calls[i].started,
           NEW next, next = Append(turns, calls)
    PROVE  next \in Histories /\ IsLonger(next, turns, calls)
<1>. DEFINE n == Len(turns) + 1
            Some(k) == {i \in DOMAIN calls : calls[i].kind = k}
<1>1. /\ next \in Histories /\ Len(next) = n /\ next[n] = calls
      /\ \A t \in DOMAIN turns : next[t] = turns[t]
  BY AppendProperties, TurnsOf DEF Histories
<1>2. /\ DOMAIN next = DOMAIN turns \cup {n} /\ n \notin DOMAIN turns
      /\ Len(calls) \in Nat /\ DOMAIN calls = 1..Len(calls)
  <2>1. DOMAIN next = 1..n /\ DOMAIN turns = 1..Len(turns) /\ Len(turns) \in Nat
    BY <1>1, TurnsOf
  <2>2. 1..n = 1..Len(turns) \cup {n} /\ n \notin 1..Len(turns)
    BY <2>1
  <2>3. QED
    BY <2>1, <2>2, LenProperties
<1>. HIDE DEF n
<1>3. /\ CallsIn(next) = CallsIn(turns) \cup ({n} \X DOMAIN calls)
      /\ CallsIn(turns) \cap ({n} \X DOMAIN calls) = {}
  BY <1>1, <1>2 DEF CallsIn
<1>4. \A p \in CallsIn(turns) : p[1] \in DOMAIN turns /\ next[p[1]][p[2]] = turns[p[1]][p[2]]
  BY <1>1 DEF CallsIn
<1>5. \A p \in {n} \X DOMAIN calls : next[p[1]][p[2]] = calls[p[2]] /\ p[2] \in DOMAIN calls
  BY <1>1
<1>6. StartedIn(next) = StartedIn(turns)
  BY <1>3, <1>4, <1>5 DEF StartedIn
<1>7. \A k : /\ OfKindIn(next, k) = OfKindIn(turns, k) \cup ({n} \X Some(k))
             /\ OfKindIn(turns, k) \cap ({n} \X Some(k)) = {}
             /\ StartedIn(turns) \cap ({n} \X Some(k)) = {}
  <2>1. SUFFICES ASSUME NEW k
                 PROVE  /\ OfKindIn(next, k) = OfKindIn(turns, k) \cup ({n} \X Some(k))
                        /\ {n} \X Some(k) \subseteq {n} \X DOMAIN calls
    BY <1>3 DEF OfKindIn, StartedIn
  <2>2. OfKindIn(next, k) = {p \in CallsIn(next) : next[p[1]][p[2]].kind = k}
    BY DEF OfKindIn
  <2>3. {p \in {n} \X DOMAIN calls : next[p[1]][p[2]].kind = k} = {n} \X Some(k)
    BY <1>5
  <2>4. {p \in CallsIn(turns) : next[p[1]][p[2]].kind = k} = OfKindIn(turns, k)
    BY <1>4 DEF OfKindIn
  <2>5. QED
    BY <1>3, <2>2, <2>3, <2>4
<1>8. IsFiniteSet(DOMAIN calls) /\ Cardinality(DOMAIN calls) = Len(calls)
  <2>1. /\ IsFiniteSet(1..Len(calls))
        /\ Cardinality(1..Len(calls)) = IF 1 > Len(calls) THEN 0 ELSE Len(calls) - 1 + 1
    <3>1. 1 \in Int /\ Len(calls) \in Int
      BY <1>2
    <3>. HIDE <1>2
    <3>2. QED
      BY <3>1, FS_Interval
  <2>2. QED
    BY <1>2, <2>1
<1>9. Cardinality(CallsIn(next)) = Cardinality(CallsIn(turns)) + Len(calls)
  <2>1. /\ IsFiniteSet({n} \X DOMAIN calls)
        /\ Cardinality({n} \X DOMAIN calls) = Len(calls)
    BY <1>8, RowCount
  <2>2. IsFiniteSet(CallsIn(turns))
    BY CallsFinite
  <2>3. Cardinality(CallsIn(turns) \cup ({n} \X DOMAIN calls))
          = Cardinality(CallsIn(turns)) + Cardinality({n} \X DOMAIN calls)
    BY <1>3, <2>1, <2>2, DisjointCount
  <2>4. QED
    BY <1>3, <2>1, <2>3
<1>10. ASSUME NEW k
       PROVE  Cardinality(OfKindIn(next, k)) = Cardinality(OfKindIn(turns, k)) + OfKind(calls, k)
  <2>1. IsFiniteSet(Some(k)) /\ OfKind(calls, k) = Cardinality(Some(k))
    BY <1>8, FS_Subset DEF OfKind
  <2>2. IsFiniteSet(OfKindIn(turns, k))
    BY CallsFinite, FS_Subset
  <2>. HIDE DEF Some
  <2>3. /\ IsFiniteSet({n} \X Some(k))
        /\ Cardinality({n} \X Some(k)) = OfKind(calls, k)
    BY <2>1, RowCount
  <2>4. Cardinality(OfKindIn(turns, k) \cup ({n} \X Some(k)))
          = Cardinality(OfKindIn(turns, k)) + Cardinality({n} \X Some(k))
    BY <1>7, <2>2, <2>3, DisjointCount
  <2>5. QED
    BY <1>7, <2>3, <2>4
<1>11. \A k : StartedIn(next) \cap OfKindIn(next, k) = StartedIn(turns) \cap OfKindIn(turns, k)
  BY <1>6, <1>7
<1>12. QED
  BY <1>1, <1>2, <1>6, <1>9, <1>10, <1>11 DEF n, IsLonger

(* Two histories of the same shape have the same calls.                    *)
LEMMA SameCalls ==
    ASSUME NEW turns, NEW marked, DOMAIN marked = DOMAIN turns,
           \A t \in DOMAIN turns : DOMAIN marked[t] = DOMAIN turns[t],
           \A t \in DOMAIN turns : \A i \in DOMAIN turns[t] :
               marked[t][i].kind = turns[t][i].kind
    PROVE  CallsIn(marked) = CallsIn(turns) /\ \A k : OfKindIn(marked, k) = OfKindIn(turns, k)
<1>1. CallsIn(marked) = CallsIn(turns)
  <2>1. \A t \in DOMAIN turns : {t} \X DOMAIN marked[t] = {t} \X DOMAIN turns[t]
    OBVIOUS
  <2>2. QED
    BY <2>1 DEF CallsIn
<1>2. \A p \in CallsIn(turns) : marked[p[1]][p[2]].kind = turns[p[1]][p[2]].kind
  BY DEF CallsIn
<1>3. QED
  BY <1>1, <1>2 DEF OfKindIn

(* A history with call i of turn t replaced.                               *)
IsMarked(marked, turns, t, i, call) ==
    /\ Len(marked) = Len(turns) /\ DOMAIN marked = DOMAIN turns
    /\ \A s \in DOMAIN turns : DOMAIN marked[s] = DOMAIN turns[s] /\ Len(marked[s]) = Len(turns[s])
    /\ \A s \in DOMAIN turns : s # t => marked[s] = turns[s]
    /\ \A j \in DOMAIN turns[t] : marked[t][j] = IF j = i THEN call ELSE turns[t][j]

(* A call marked: nothing changes but the mark.                            *)
LEMMA CallMarked ==
    ASSUME NEW turns \in Histories, NEW t \in DOMAIN turns, NEW i \in DOMAIN turns[t],
           NEW call \in CallRecords, call.kind = turns[t][i].kind,
           NEW marked, marked = [turns EXCEPT ![t][i] = call]
    PROVE  marked \in Histories /\ IsMarked(marked, turns, t, i, call)
<1>. DEFINE row == [turns[t] EXCEPT ![i] = call]
<1>1. row \in Seq(CallRecords) /\ Len(row) = Len(turns[t])
  BY TurnsOf, ExceptSeq
<1>2. DOMAIN row = DOMAIN turns[t]
  OBVIOUS
<1>3. \A j \in DOMAIN turns[t] : row[j] = IF j = i THEN call ELSE turns[t][j]
  OBVIOUS
<1>. HIDE DEF row
<1>4. marked = [turns EXCEPT ![t] = row]
  BY DEF row
<1>5. marked \in Histories /\ Len(marked) = Len(turns)
  BY <1>1, <1>4, ExceptSeq, TurnsOf DEF Histories
<1>6. DOMAIN marked = DOMAIN turns
  BY <1>4
<1>7. \A s \in DOMAIN turns : marked[s] = IF s = t THEN row ELSE turns[s]
  BY <1>4
<1>8. \A s \in DOMAIN turns : DOMAIN marked[s] = DOMAIN turns[s] /\ Len(marked[s]) = Len(turns[s])
  BY <1>1, <1>2, <1>7
<1>9. QED
  BY <1>3, <1>5, <1>6, <1>7, <1>8 DEF IsMarked

-----------------------------------------------------------------------------
(* A step of others leaves everything of run a but its place.              *)
Still(a) ==
    /\ history'[a] = history[a] /\ stop'[a] = stop[a] /\ finishes'[a] = finishes[a]
    /\ visible'[a] = visible[a] /\ counted'[a] = counted[a]
    /\ large'[a] = large[a] /\ numTurns'[a] = numTurns[a] /\ called'[a] = called[a]

(* What a run that does not move keeps; a child may be asked for.          *)
LEMMA RunStays ==
    ASSUME NEW a \in Agents, RunOf(a),
           pc'[a] = pc[a] \/ (pc[a] = "idle" /\ pc'[a] = "admit"),
           Still(a), aborted' = aborted
    PROVE  RunOf(a)'
<1>1. HistoryOf(a)'
  BY DEF RunOf, HistoryOf, Over, InTurn, Still
<1>2. EndOf(a)'
  BY DEF RunOf, EndOf, Over, LastTurn, Still
<1>3. Due(a)' = Due(a)
  BY DEF Due, LastTurn, InTurn, Still
<1>4. BudgetOf(a)'
  BY <1>3 DEF RunOf, BudgetOf, Over, Still
<1>5. QED
  BY <1>1, <1>2, <1>4 DEF RunOf

(* run_finished is yielded because of an error or of the signal.           *)
LEMMA RunEnds ==
    ASSUME NEW a \in Agents, RunTypes, RunOf(a), pc[a] \notin Over,
           pc'[a] = "finished", stop'[a] = Outcome' , finishes'[a] = finishes[a] + 1,
           history'[a] = history[a], counted'[a] = counted[a],
           large'[a] = large[a], numTurns'[a] = numTurns[a], called'[a] = called[a],
           aborted' \in {"no", "cancelled", "timeout"}
    PROVE  RunOf(a)'
<1>1. ~LacksResult(history[a]) /\ finishes[a] = 0
  BY DEF RunOf, HistoryOf, EndOf
<1>2. HistoryOf(a)'
  BY <1>1 DEF RunOf, HistoryOf, Over, InTurn
<1>3. EndOf(a)'
  BY <1>1 DEF EndOf, Outcome, Over
<1>4. BudgetOf(a)'
  BY DEF RunOf, BudgetOf, Over
<1>5. QED
  BY <1>2, <1>3, <1>4 DEF RunOf

(* The run goes on to the model, or waits for it.                          *)
LEMMA RunGoesOn ==
    ASSUME NEW a \in Agents, RunTypes, RunOf(a),
           pc[a] \in {"setup", "loop", "queued", "attempt", "backoff"},
           pc[a] = "loop" => aborted = "no",
           pc'[a] \in {"loop", "queued", "attempt", "backoff"},
           stop'[a] = stop[a], finishes'[a] = finishes[a],
           history'[a] = history[a], counted'[a] = counted[a],
           large'[a] = large[a], numTurns'[a] = numTurns[a], called'[a] = called[a],
           aborted' = aborted
    PROVE  RunOf(a)'
<1>1. Answered(history[a])
  <2>1. CASE pc[a] = "setup"
    <3>1. history[a] = <<>>
      BY <2>1 DEF RunOf, HistoryOf
    <3>2. QED
      BY <3>1 DEF Answered
  <2>2. CASE pc[a] # "setup"
    BY <2>2 DEF RunOf, HistoryOf
  <2>3. QED
    BY <2>1, <2>2
<1>2. ~LacksResult(history[a]) /\ finishes[a] = 0 /\ pc[a] \notin Over
  BY DEF RunOf, HistoryOf, EndOf, Over
<1>3. HistoryOf(a)'
  BY <1>1, <1>2 DEF RunOf, HistoryOf, Over, InTurn
<1>4. EndOf(a)'
  BY <1>2 DEF EndOf, Over
<1>5. Due(a) = 0 /\ Due(a)' = 0
  BY DEF Due, InTurn
<1>6. BudgetOf(a)'
  BY <1>2, <1>5 DEF RunOf, BudgetOf, Over
<1>7. QED
  BY <1>3, <1>4, <1>6 DEF RunOf

-----------------------------------------------------------------------------
(* Nobody comes to the provider or leaves it.                              *)
LEMMA ProviderStays ==
    ASSUME RunTypes, AtProvider,
           holders'["provider"] = holders["provider"], line'["provider"] = line["provider"],
           \A a \in Agents : \/ pc'[a] = pc[a]
                             \/ pc[a] \notin {"queued", "attempt"}
                             \/ pc'[a] = "attempt" /\ a \in holders["provider"]
    PROVE  AtProvider'
BY DEF AtProvider

(* A run or another comes to the provider.                                 *)
LEMMA ProviderEntered ==
    ASSUME RunTypes, AtProvider, NEW c \in Agents \cup Others,
           c \notin holders["provider"], c \notin ToSet(line["provider"]),
           \/ Limiter!Enter("provider", c) /\ (c \in Agents => pc'[c] = "attempt")
           \/ Limiter!Wait("provider", c) /\ (c \in Agents => pc'[c] = "queued"),
           \A a \in Agents : a # c => pc'[a] = pc[a]
    PROVE  /\ AtProvider'
           /\ holders' \in [LimiterKeys -> SUBSET (Agents \cup Others)]
           /\ line' \in [LimiterKeys -> Seq(Agents \cup Others)]
<1>0. /\ holders \in [LimiterKeys -> SUBSET (Agents \cup Others)] /\ "provider" \in LimiterKeys
      /\ line \in [LimiterKeys -> Seq(Agents \cup Others)]
      /\ line["provider"] \in Seq(Agents \cup Others)
  BY DEF RunTypes, LimiterKeys
<1>1. CASE Limiter!Enter("provider", c) /\ (c \in Agents => pc'[c] = "attempt")
  <2>1. /\ holders' = [holders EXCEPT !["provider"] = @ \cup {c}]
        /\ line' = line
    BY <1>1 DEF Limiter!Enter
  <2>2. holders'["provider"] = holders["provider"] \cup {c}
    BY <1>0, <2>1
  <2>3. AtProvider'
    BY <1>1, <2>1, <2>2 DEF AtProvider
  <2>4. QED
    BY <1>0, <2>1, <2>3
<1>2. CASE Limiter!Wait("provider", c) /\ (c \in Agents => pc'[c] = "queued")
  <2>1. /\ line' = [line EXCEPT !["provider"] = Append(@, c)]
        /\ holders' = holders
    BY <1>2 DEF Limiter!Wait
  <2>2. line'["provider"] = Append(line["provider"], c)
    BY <1>0, <2>1
  <2>3. Append(line["provider"], c) \in Seq(Agents \cup Others)
    BY <1>0, AppendProperties
  <2>4. /\ ToSet(line'["provider"]) = ToSet(line["provider"]) \cup {c}
        /\ NoRepeats(line'["provider"])
    BY <1>0, <2>2, AppendSet DEF AtProvider
  <2>5. AtProvider'
    BY <1>2, <2>1, <2>4 DEF AtProvider
  <2>6. QED
    BY <1>0, <2>1, <2>3, <2>5
<1>3. QED
  BY <1>1, <1>2

(* A run or another leaves the provider, and the next in line takes over.  *)
LEMMA ProviderLeft ==
    ASSUME RunTypes, AtProvider, NEW c \in Agents \cup Others,
           Limiter!Leave("provider", c),
           \A a \in Agents : a # c => pc'[a] = pc[a]
    PROVE  /\ AtProvider'
           /\ holders' \in [LimiterKeys -> SUBSET (Agents \cup Others)]
           /\ line' \in [LimiterKeys -> Seq(Agents \cup Others)]
<1>0. /\ holders \in [LimiterKeys -> SUBSET (Agents \cup Others)] /\ "provider" \in LimiterKeys
      /\ line \in [LimiterKeys -> Seq(Agents \cup Others)]
      /\ line["provider"] \in Seq(Agents \cup Others)
      /\ c \in holders["provider"]
  BY DEF RunTypes, LimiterKeys, Limiter!Leave
<1>1. CASE line["provider"] = <<>>
  <2>1. /\ holders' = [holders EXCEPT !["provider"] = @ \ {c}]
        /\ line' = line
    BY <1>1 DEF Limiter!Leave
  <2>2. holders'["provider"] = holders["provider"] \ {c}
    BY <1>0, <2>1
  <2>3. AtProvider'
    BY <1>0, <2>1, <2>2 DEF AtProvider
  <2>4. QED
    BY <1>0, <2>1, <2>3
<1>2. CASE line["provider"] # <<>>
  <2>1. /\ holders' = [holders EXCEPT !["provider"] = (@ \ {c}) \cup {Head(line["provider"])}]
        /\ line' = [line EXCEPT !["provider"] = Tail(@)]
    BY <1>2 DEF Limiter!Leave
  <2>2. PICK h : h = Head(line["provider"])
    OBVIOUS
  <2>3. /\ holders'["provider"] = (holders["provider"] \ {c}) \cup {h}
        /\ line'["provider"] = Tail(line["provider"])
    BY <1>0, <2>1, <2>2
  <2>4. /\ h \in ToSet(line["provider"]) /\ Tail(line["provider"]) \in Seq(Agents \cup Others)
        /\ ToSet(line'["provider"]) = ToSet(line["provider"]) \ {h}
        /\ NoRepeats(line'["provider"])
    BY <1>0, <1>2, <2>2, <2>3, TailSet DEF AtProvider
  <2>5. h \in Agents \cup Others
    BY <1>0, <1>2, <2>2, HeadTailProperties
  <2>6. AtProvider'
    BY <1>0, <2>3, <2>4 DEF AtProvider
  <2>7. holders' \in [LimiterKeys -> SUBSET (Agents \cup Others)]
    BY <1>0, <2>1, <2>2, <2>5
  <2>8. line' \in [LimiterKeys -> Seq(Agents \cup Others)]
    BY <1>0, <2>1, <2>4
  <2>9. QED
    BY <2>6, <2>7, <2>8
<1>3. QED
  BY <1>1, <1>2

(* The same for the limiter of subagents, which concerns nothing else.     *)
LEMMA SubagentsMoved ==
    ASSUME RunTypes, AtProvider, NEW c \in Agents \cup Others,
           \/ Limiter!Enter("subagents", c)
           \/ Limiter!Wait("subagents", c)
           \/ Limiter!Leave("subagents", c)
    PROVE  /\ holders'["provider"] = holders["provider"]
           /\ line'["provider"] = line["provider"]
           /\ holders' \in [LimiterKeys -> SUBSET (Agents \cup Others)]
           /\ line' \in [LimiterKeys -> Seq(Agents \cup Others)]
<1>0. /\ holders \in [LimiterKeys -> SUBSET (Agents \cup Others)] /\ "subagents" \in LimiterKeys
      /\ "provider" \in LimiterKeys
      /\ line \in [LimiterKeys -> Seq(Agents \cup Others)]
      /\ line["subagents"] \in Seq(Agents \cup Others)
  BY DEF RunTypes, LimiterKeys
<1>1. CASE Limiter!Enter("subagents", c)
  BY <1>0, <1>1 DEF Limiter!Enter
<1>2. CASE Limiter!Wait("subagents", c)
  <2>1. Append(line["subagents"], c) \in Seq(Agents \cup Others)
    BY <1>0, AppendProperties
  <2>2. QED
    BY <1>0, <1>2, <2>1 DEF Limiter!Wait
<1>3. CASE Limiter!Leave("subagents", c) /\ line["subagents"] = <<>>
  BY <1>0, <1>3 DEF Limiter!Leave
<1>4. CASE Limiter!Leave("subagents", c) /\ line["subagents"] # <<>>
  <2>1. /\ Head(line["subagents"]) \in Agents \cup Others
        /\ Tail(line["subagents"]) \in Seq(Agents \cup Others)
    BY <1>0, <1>4, HeadTailProperties
  <2>2. PICK h \in Agents \cup Others : h = Head(line["subagents"])
    BY <2>1
  <2>3. /\ holders' = [holders EXCEPT !["subagents"] = (@ \ {c}) \cup {h}]
        /\ line' = [line EXCEPT !["subagents"] = Tail(@)]
    BY <1>4, <2>2 DEF Limiter!Leave
  <2>4. QED
    BY <1>0, <2>1, <2>3
<1>5. QED
  BY <1>1, <1>2, <1>3, <1>4

(* Children go on only while their parent waits, whoever moves.            *)
LEMMA ParentStays ==
    ASSUME RunTypes, ParentWaits, NEW a \in Agents, pc[a] # "idle",
           \A b \in Agents : b # a => pc'[b] = pc[b] /\ history'[b] = history[b],
           a = Parent => /\ pc'[a] \notin {"idle", "admit"}
                         /\ pc[a] = "tool" => \A c \in Children : pc[c] = "idle"
    PROVE  ParentWaits'
<1>0. Parent \in Agents /\ Children \subseteq Agents /\ Parent \notin Children
  BY Constants
<1>1. CASE a = Parent
  <2>1. \A c \in Children : pc[c] = "idle"
    BY <1>1 DEF ParentWaits
  <2>2. \A c \in Children : pc'[c] = "idle"
    BY <1>0, <1>1, <2>1
  <2>3. QED
    BY <1>1, <2>2 DEF ParentWaits
<1>2. CASE a # Parent
  <2>1. pc'[Parent] = pc[Parent] /\ LastTurn(Parent)' = LastTurn(Parent)
    BY <1>0, <1>2 DEF LastTurn
  <2>2. a \in Children
    BY <1>2 DEF Agents
  <2>3. QED
    BY <1>0, <2>1, <2>2 DEF ParentWaits
<1>3. QED
  BY <1>1, <1>2

-----------------------------------------------------------------------------
(* The call a turn is worked off up to is the only one of its kind.        *)
LEMMA OneCurrentCall ==
    ASSUME NEW calls \in Seq(CallRecords), NEW n \in DOMAIN calls, WorkedOff(calls, n),
           NEW m \in DOMAIN calls, ~calls[m].ended, \A j \in 1..(m - 1) : calls[j].ended
    PROVE  m = n
<1>1. Len(calls) \in Nat /\ DOMAIN calls = 1..Len(calls)
  BY LenProperties
<1>2. n <= m
  BY <1>1 DEF WorkedOff
<1>3. m <= n
  <2>1. SUFFICES ASSUME n < m PROVE FALSE
    BY <1>1
  <2>2. n \in 1..(m - 1)
    BY <1>1, <2>1
  <2>3. QED
    BY <1>1, <2>2 DEF WorkedOff
<1>4. QED
  BY <1>1, <1>2, <1>3

(* What NextCall and ThisCall are during a turn.                           *)
LEMMA CurrentCall ==
    ASSUME NEW a \in Agents, RunTypes, RunOf(a), pc[a] \in InTurn
    PROVE  /\ history[a] \in Histories /\ history[a] # <<>>
           /\ Len(history[a]) \in DOMAIN history[a]
           /\ LastTurn(a) \in Seq(CallRecords)
           /\ NextCall(a) \in DOMAIN LastTurn(a)
           /\ WorkedOff(LastTurn(a), NextCall(a))
           /\ ThisCall(a) = LastTurn(a)[NextCall(a)] /\ ThisCall(a) \in CallRecords
           /\ \A t \in DOMAIN history[a] : t < Len(history[a]) =>
                \A i \in DOMAIN history[a][t] : history[a][t][i].result
           /\ AtSubagents(LastTurn(a)) <=> ThisCall(a).kind = "subagents"
<1>1. history[a] \in Histories /\ Working(history[a])
  BY DEF RunTypes, RunOf, HistoryOf
<1>2. history[a] # <<>>
  BY <1>1 DEF Working
<1>3. Len(history[a]) \in DOMAIN history[a]
  <2>1. Len(history[a]) # 0
    BY <1>1, <1>2, EmptySeq DEF Histories
  <2>2. QED
    BY <1>1, <2>1, TurnsOf
<1>4. LastTurn(a) \in Seq(CallRecords)
  BY <1>1, <1>3, TurnsOf DEF LastTurn
<1>5. PICK n \in DOMAIN LastTurn(a) : WorkedOff(LastTurn(a), n)
  BY <1>1 DEF Working, LastTurn
<1>6. Len(LastTurn(a)) \in Nat /\ DOMAIN LastTurn(a) = 1..Len(LastTurn(a))
  BY <1>4, LenProperties
<1>7. ~LastTurn(a)[n].ended /\ \A j \in 1..(n - 1) : LastTurn(a)[j].ended
  BY <1>5, <1>6 DEF WorkedOff
<1>8. /\ NextCall(a) \in DOMAIN LastTurn(a) /\ ~LastTurn(a)[NextCall(a)].ended
      /\ \A j \in 1..(NextCall(a) - 1) : LastTurn(a)[j].ended
  BY <1>5, <1>7 DEF NextCall
<1>9. NextCall(a) = n
  BY <1>4, <1>5, <1>8, OneCurrentCall
<1>10. AtSubagents(LastTurn(a)) <=> LastTurn(a)[n].kind = "subagents"
  <2>1. ASSUME AtSubagents(LastTurn(a)) PROVE LastTurn(a)[n].kind = "subagents"
    <3>1. PICK m \in DOMAIN LastTurn(a) :
            WorkedOff(LastTurn(a), m) /\ LastTurn(a)[m].kind = "subagents"
      BY <2>1 DEF AtSubagents
    <3>2. m = n
      BY <1>4, <1>6, <1>7, <3>1, OneCurrentCall
    <3>3. QED
      BY <3>1, <3>2
  <2>2. ASSUME LastTurn(a)[n].kind = "subagents" PROVE AtSubagents(LastTurn(a))
    BY <1>5, <2>2 DEF AtSubagents
  <2>3. QED
    BY <2>1, <2>2
<1>11. ThisCall(a) = LastTurn(a)[n] /\ ThisCall(a) \in CallRecords
  BY <1>4, <1>5, <1>6, <1>9, ElementOfSeq DEF ThisCall
<1>12. QED
  BY <1>1, <1>2, <1>3, <1>4, <1>5, <1>9, <1>10, <1>11 DEF Working

(* What Mark does to the history of the run.                               *)
LEMMA MarkedHistory ==
    ASSUME NEW a \in Agents, RunTypes, RunOf(a), pc[a] \in InTurn,
           NEW call \in CallRecords, call.kind = ThisCall(a).kind,
           history' = Mark(a, call)
    PROVE  /\ history' \in [Agents -> Histories]
           /\ \A b \in Agents : b # a => history'[b] = history[b]
           /\ Len(history'[a]) = Len(history[a]) /\ DOMAIN history'[a] = DOMAIN history[a]
           /\ \A t \in DOMAIN history[a] : DOMAIN history'[a][t] = DOMAIN history[a][t]
           /\ \A t \in DOMAIN history[a] :
                t # Len(history[a]) => history'[a][t] = history[a][t]
           /\ \A j \in DOMAIN LastTurn(a) :
                LastTurn(a)'[j] = IF j = NextCall(a) THEN call ELSE LastTurn(a)[j]
           /\ LastTurn(a)' = history'[a][Len(history[a])]
           /\ DOMAIN LastTurn(a)' = DOMAIN LastTurn(a) /\ Len(LastTurn(a)') = Len(LastTurn(a))
           /\ CallsIn(history'[a]) = CallsIn(history[a])
           /\ \A k : OfKindIn(history'[a], k) = OfKindIn(history[a], k)
<1>0. /\ history \in [Agents -> Histories] /\ history[a] \in Histories
      /\ Len(history[a]) \in DOMAIN history[a]
      /\ NextCall(a) \in DOMAIN LastTurn(a)
      /\ ThisCall(a) = LastTurn(a)[NextCall(a)]
  BY CurrentCall DEF RunTypes
<1>1. PICK k : k = Len(history[a])
  OBVIOUS
<1>2. PICK n : n = NextCall(a)
  OBVIOUS
<1>3. history' = [history EXCEPT ![a][k][n] = call]
  BY <1>1, <1>2 DEF Mark
<1>4. PICK marked : marked = [history[a] EXCEPT ![k][n] = call]
  OBVIOUS
<1>5. /\ history'[a] = marked
      /\ \A b \in Agents : b # a => history'[b] = history[b]
      /\ DOMAIN history' = Agents
  BY <1>0, <1>3, <1>4
<1>6. k \in DOMAIN history[a] /\ n \in DOMAIN history[a][k] /\ call.kind = history[a][k][n].kind
  BY <1>0, <1>1, <1>2 DEF LastTurn
<1>7. /\ marked \in Histories
      /\ Len(marked) = Len(history[a]) /\ DOMAIN marked = DOMAIN history[a]
      /\ \A s \in DOMAIN history[a] : DOMAIN marked[s] = DOMAIN history[a][s]
                                      /\ Len(marked[s]) = Len(history[a][s])
      /\ \A s \in DOMAIN history[a] : s # k => marked[s] = history[a][s]
      /\ \A j \in DOMAIN history[a][k] : marked[k][j] = IF j = n THEN call ELSE history[a][k][j]
  <2>1. PICK turns : turns = history[a]
    OBVIOUS
  <2>2. /\ turns \in Histories /\ k \in DOMAIN turns /\ n \in DOMAIN turns[k]
        /\ call.kind = turns[k][n].kind /\ marked = [turns EXCEPT ![k][n] = call]
    BY <1>0, <1>4, <1>6, <2>1
  <2>. HIDE <1>4, <1>6
  <2>3. marked \in Histories /\ IsMarked(marked, turns, k, n, call)
    BY <2>2, CallMarked
  <2>4. QED
    BY <2>1, <2>3 DEF IsMarked
<1>8. LastTurn(a)' = marked[k] /\ LastTurn(a) = history[a][k]
  BY <1>1, <1>5, <1>7 DEF LastTurn
<1>9. history' \in [Agents -> Histories]
  <2>1. \A b \in Agents : history'[b] \in Histories
    BY <1>0, <1>5, <1>7
  <2>2. history' = [b \in Agents |-> history'[b]]
    BY <1>0, <1>3
  <2>3. QED
    BY <2>1, <2>2
<1>10. /\ Len(history'[a]) = Len(history[a]) /\ DOMAIN history'[a] = DOMAIN history[a]
       /\ \A t \in DOMAIN history[a] : DOMAIN history'[a][t] = DOMAIN history[a][t]
       /\ \A t \in DOMAIN history[a] :
            t # Len(history[a]) => history'[a][t] = history[a][t]
  BY <1>1, <1>5, <1>7
<1>11. \A j \in DOMAIN LastTurn(a) :
         LastTurn(a)'[j] = IF j = NextCall(a) THEN call ELSE LastTurn(a)[j]
  BY <1>2, <1>7, <1>8
<1>12. /\ LastTurn(a)' = history'[a][Len(history[a])]
       /\ DOMAIN LastTurn(a)' = DOMAIN LastTurn(a) /\ Len(LastTurn(a)') = Len(LastTurn(a))
  BY <1>1, <1>5, <1>6, <1>7, <1>8
<1>13. /\ CallsIn(history'[a]) = CallsIn(history[a])
       /\ \A kind : OfKindIn(history'[a], kind) = OfKindIn(history[a], kind)
  <2>1. \A t \in DOMAIN history[a] : \A i \in DOMAIN history[a][t] :
          marked[t][i].kind = history[a][t][i].kind
    BY <1>6, <1>7
  <2>2. PICK turns : turns = history[a]
    OBVIOUS
  <2>3. /\ DOMAIN marked = DOMAIN turns
        /\ \A t \in DOMAIN turns : DOMAIN marked[t] = DOMAIN turns[t]
        /\ \A t \in DOMAIN turns : \A i \in DOMAIN turns[t] :
             marked[t][i].kind = turns[t][i].kind
    BY <1>7, <2>1, <2>2
  <2>4. CallsIn(marked) = CallsIn(turns) /\ \A k1 : OfKindIn(marked, k1) = OfKindIn(turns, k1)
    BY <2>3, SameCalls
  <2>5. QED
    BY <1>5, <2>2, <2>4
<1>14. QED
  BY <1>5, <1>9, <1>10, <1>11, <1>12, <1>13

(* Budgets of a run in a turn hold whatever of its calls are started.      *)
LEMMA StartedWithin ==
    ASSUME NEW a \in Agents, RunTypes, RunOf(a), pc[a] \notin Over,
           NEW turns \in Histories, CallsIn(turns) = CallsIn(history[a]),
           \A k : OfKindIn(turns, k) = OfKindIn(history[a], k)
    PROVE  /\ Cardinality(StartedIn(turns)) <= MaxToolCalls
           /\ \A k \in CountedKinds :
                Cardinality(StartedIn(turns) \cap OfKindIn(turns, k)) <= MaxKind[k]
<1>0. /\ MaxToolCalls \in Nat /\ called[a] \in Nat
      /\ \A k \in CountedKinds : MaxKind[k] \in Nat
  BY Constants DEF RunTypes
<1>1. Cardinality(CallsIn(turns)) <= MaxToolCalls
  BY DEF RunOf, BudgetOf
<1>2. \A k \in CountedKinds : Cardinality(OfKindIn(turns, k)) <= MaxKind[k]
  BY DEF RunOf, BudgetOf
<1>3. StartedIn(turns) \subseteq CallsIn(turns) /\ \A k : OfKindIn(turns, k) \subseteq CallsIn(turns)
  BY CallsFinite
<1>4. /\ Cardinality(StartedIn(turns)) \in Nat /\ Cardinality(CallsIn(turns)) \in Nat
      /\ Cardinality(StartedIn(turns)) <= Cardinality(CallsIn(turns))
  BY <1>3, CountWithin
<1>5. Cardinality(StartedIn(turns)) <= MaxToolCalls
  BY <1>0, <1>1, <1>4
<1>6. ASSUME NEW k \in CountedKinds
      PROVE  Cardinality(StartedIn(turns) \cap OfKindIn(turns, k)) <= MaxKind[k]
  <2>1. /\ Cardinality(StartedIn(turns) \cap OfKindIn(turns, k)) \in Nat
        /\ Cardinality(OfKindIn(turns, k)) \in Nat
        /\ Cardinality(StartedIn(turns) \cap OfKindIn(turns, k)) <= Cardinality(OfKindIn(turns, k))
    BY <1>3, CountWithin
  <2>2. QED
    BY <1>0, <1>2, <2>1
<1>7. QED
  BY <1>5, <1>6

-----------------------------------------------------------------------------
(* The loop is set up, or that fails.                                      *)
LEMMA SetUpKeeps ==
    ASSUME RunInv, NEW a \in Agents, SetUp(a)
    PROVE  RunInv'
<1>0. /\ RunTypes /\ AtProvider /\ ParentWaits /\ RunOf(a) /\ pc[a] = "setup"
      /\ UNCHANGED <<limiters, aborted, turn, session>>
  BY DEF RunInv, SetUp
<1>1. /\ \A b \in Agents : b # a => pc'[b] = pc[b] /\ Still(b)
      /\ pc'[a] \in {"loop", "finished"}
      /\ RunTypes'
  <2>1. CASE Goto(a, "loop") /\ UNCHANGED ending
    BY <1>0, <2>1 DEF RunTypes, Goto, limiters, turn, session, ending, Still, Places
  <2>2. CASE Finish(a, Outcome)
    BY <1>0, <2>2 DEF RunTypes, Finish, Goto, Outcome, limiters, turn, session, Still, Places, Reasons
  <2>3. QED
    BY <2>1, <2>2 DEF SetUp
<1>2. AtProvider'
  BY <1>0, <1>1, ProviderStays DEF limiters
<1>3. ParentWaits'
  BY <1>0, <1>1, ParentStays DEF session
<1>4. \A b \in Agents : b # a => RunOf(b)'
  BY <1>0, <1>1, RunStays DEF RunInv
<1>5. RunOf(a)'
  <2>1. CASE Goto(a, "loop") /\ UNCHANGED ending
    <3>1. pc'[a] = "loop"
      BY <1>0, <2>1 DEF RunTypes, Goto, turn, RunOf, HistoryOf
    <3>2. QED
      BY <1>0, <2>1, <3>1, RunGoesOn DEF session, ending
  <2>2. CASE Finish(a, Outcome)
    <3>1. /\ pc'[a] = "finished" /\ stop'[a] = Outcome' /\ finishes'[a] = finishes[a] + 1
          /\ aborted' \in {"no", "cancelled", "timeout"}
      BY <1>0, <2>2 DEF RunTypes, Finish, Goto, Outcome, turn, RunOf, HistoryOf
    <3>2. QED
      BY <1>0, <3>1, RunEnds DEF session, Over
  <2>3. QED
    BY <2>1, <2>2 DEF SetUp
<1>6. QED
  BY <1>1, <1>2, <1>3, <1>4, <1>5 DEF RunInv

(* A run asks for the provider and is let in, or waits.                    *)
LEMMA QueueKeeps ==
    ASSUME NEW a \in Agents, RunTypes, AtProvider, ParentWaits, RunOf(a),
           pc[a] \in {"loop", "backoff"}, aborted = "no", Queue(a),
           history' = history, stop' = stop, finishes' = finishes, counted' = counted,
           large' = large, numTurns' = numTurns, called' = called,
           aborted' = aborted
    PROVE  /\ pc' \in [Agents -> Places] /\ \A b \in Agents : b # a => pc'[b] = pc[b]
           /\ holders' \in [LimiterKeys -> SUBSET (Agents \cup Others)]
           /\ line' \in [LimiterKeys -> Seq(Agents \cup Others)]
           /\ AtProvider' /\ ParentWaits' /\ RunOf(a)'
<1>1. /\ \A b \in Agents : b # a => pc'[b] = pc[b]
      /\ pc'[a] \in {"attempt", "queued"} /\ pc' \in [Agents -> Places]
      /\ \/ Limiter!Enter("provider", a) /\ pc'[a] = "attempt"
         \/ Limiter!Wait("provider", a) /\ pc'[a] = "queued"
  BY DEF Queue, Goto, RunTypes, Places
<1>2. a \notin holders["provider"] /\ a \notin ToSet(line["provider"])
  BY DEF AtProvider
<1>3. /\ holders' \in [LimiterKeys -> SUBSET (Agents \cup Others)]
      /\ line' \in [LimiterKeys -> Seq(Agents \cup Others)] /\ AtProvider'
  BY <1>1, <1>2, ProviderEntered
<1>4. ParentWaits'
  BY <1>1, ParentStays
<1>5. RunOf(a)'
  BY <1>1, RunGoesOn
<1>6. QED
  BY <1>1, <1>3, <1>4, <1>5

(* The top of the loop.                                                    *)
LEMMA BeginTurnKeeps ==
    ASSUME RunInv, NEW a \in Agents, BeginTurn(a)
    PROVE  RunInv'
<1>0. /\ RunTypes /\ AtProvider /\ ParentWaits /\ RunOf(a) /\ pc[a] = "loop"
      /\ UNCHANGED <<aborted, session>>
  BY DEF RunInv, BeginTurn
<1>1. /\ attempt' \in [Agents -> 0..MaxRetries]
      /\ visible' \in [Agents -> BOOLEAN]
      /\ \A b \in Agents : b # a => visible'[b] = visible[b]
  BY <1>0, Constants DEF BeginTurn, RunTypes
<1>2. CASE aborted = "no" /\ Queue(a) /\ UNCHANGED ending
  <2>1. /\ pc' \in [Agents -> Places] /\ \A b \in Agents : b # a => pc'[b] = pc[b]
        /\ holders' \in [LimiterKeys -> SUBSET (Agents \cup Others)]
        /\ line' \in [LimiterKeys -> Seq(Agents \cup Others)]
        /\ AtProvider' /\ ParentWaits' /\ RunOf(a)'
    BY <1>0, <1>1, <1>2, QueueKeeps DEF session, ending
  <2>2. RunTypes'
    BY <1>0, <1>1, <1>2, <2>1 DEF RunTypes, session, ending
  <2>3. \A b \in Agents : b # a => Still(b)
    BY <1>0, <1>1, <1>2 DEF Still, session, ending
  <2>4. \A b \in Agents : b # a => RunOf(b)'
    BY <1>0, <2>1, <2>3, RunStays DEF RunInv
  <2>5. QED
    BY <2>1, <2>2, <2>4 DEF RunInv
<1>3. CASE Finish(a, Outcome) /\ UNCHANGED limiters
  <2>1. /\ \A b \in Agents : b # a => pc'[b] = pc[b] /\ Still(b)
        /\ pc'[a] = "finished" /\ stop'[a] = Outcome' /\ finishes'[a] = finishes[a] + 1
        /\ aborted' \in {"no", "cancelled", "timeout"}
    BY <1>0, <1>1, <1>3 DEF RunTypes, Finish, Goto, Outcome, session, Still
  <2>2. RunTypes'
    BY <1>0, <1>1, <1>3 DEF RunTypes, Finish, Goto, Outcome, limiters, session, Places, Reasons
  <2>3. AtProvider'
    BY <1>0, <1>3, <2>1, ProviderStays DEF limiters
  <2>4. ParentWaits'
    BY <1>0, <2>1, ParentStays DEF session
  <2>5. RunOf(a)'
    BY <1>0, <1>1, <2>1, RunEnds DEF session, Over
  <2>6. \A b \in Agents : b # a => RunOf(b)'
    BY <1>0, <2>1, RunStays DEF RunInv
  <2>7. QED
    BY <2>2, <2>3, <2>4, <2>5, <2>6 DEF RunInv
<1>4. QED
  BY <1>2, <1>3 DEF BeginTurn

(* A lease was handed on.                                                  *)
LEMMA GrantedKeeps ==
    ASSUME RunInv, NEW a \in Agents, Granted(a)
    PROVE  RunInv'
<1>0. /\ RunTypes /\ AtProvider /\ ParentWaits /\ RunOf(a) /\ pc[a] = "queued"
      /\ a \in holders["provider"] /\ pc' = [pc EXCEPT ![a] = "attempt"]
      /\ UNCHANGED <<limiters, aborted, turn, session, ending>>
  BY DEF RunInv, Granted, Goto
<1>1. /\ \A b \in Agents : b # a => pc'[b] = pc[b] /\ Still(b)
      /\ pc'[a] = "attempt"
      /\ RunTypes'
  BY <1>0 DEF RunTypes, limiters, turn, session, ending, Still, Places, RunOf, HistoryOf
<1>2. AtProvider'
  BY <1>0, <1>1, ProviderStays DEF limiters
<1>3. ParentWaits'
  BY <1>0, <1>1, ParentStays DEF session
<1>4. \A b \in Agents : b # a => RunOf(b)'
  BY <1>0, <1>1, RunStays DEF RunInv
<1>5. RunOf(a)'
  BY <1>0, <1>1, RunGoesOn DEF session, ending
<1>6. QED
  BY <1>1, <1>2, <1>3, <1>4, <1>5 DEF RunInv

(* Output is passed on.                                                    *)
LEMMA OutputKeeps ==
    ASSUME RunInv, NEW a \in Agents, Output(a)
    PROVE  RunInv'
<1>0. /\ RunTypes /\ AtProvider /\ ParentWaits /\ RunOf(a) /\ pc[a] = "attempt"
      /\ visible' = [visible EXCEPT ![a] = TRUE]
      /\ UNCHANGED <<limiters, aborted, pc, attempt, session, ending>>
  BY DEF RunInv, Output
<1>1. /\ \A b \in Agents : b # a => pc'[b] = pc[b] /\ Still(b)
      /\ pc'[a] = "attempt"
      /\ RunTypes'
  BY <1>0 DEF RunTypes, limiters, session, ending, Still, RunOf, HistoryOf
<1>2. AtProvider'
  BY <1>0, ProviderStays DEF limiters
<1>3. ParentWaits'
  BY <1>0, <1>1, ParentStays DEF session
<1>4. \A b \in Agents : b # a => RunOf(b)'
  BY <1>0, <1>1, RunStays DEF RunInv
<1>5. RunOf(a)'
  BY <1>0, <1>1, RunGoesOn DEF session, ending
<1>6. QED
  BY <1>1, <1>2, <1>3, <1>4, <1>5 DEF RunInv

(* An attempt throws, and is repeated or not.                              *)
LEMMA AttemptFailsKeeps ==
    ASSUME RunInv, NEW a \in Agents, NEW error \in Errors, AttemptFails(a, error)
    PROVE  RunInv'
<1>0. /\ RunTypes /\ AtProvider /\ ParentWaits /\ RunOf(a) /\ pc[a] = "attempt"
      /\ Limiter!Leave("provider", a)
      /\ UNCHANGED <<aborted, session>>
  BY DEF RunInv, AttemptFails
<1>1. CASE /\ attempt[a] < MaxRetries /\ Goto(a, "backoff")
           /\ attempt' = [attempt EXCEPT ![a] = @ + 1]
           /\ UNCHANGED <<visible, ending>>
  <2>1. /\ \A b \in Agents : b # a => pc'[b] = pc[b] /\ Still(b)
        /\ pc'[a] = "backoff"
    BY <1>0, <1>1 DEF RunTypes, Goto, session, ending, Still, RunOf, HistoryOf
  <2>2. /\ AtProvider' /\ holders' \in [LimiterKeys -> SUBSET (Agents \cup Others)]
        /\ line' \in [LimiterKeys -> Seq(Agents \cup Others)]
    BY <1>0, <2>1, ProviderLeft
  <2>3. RunTypes'
    <3>1. attempt' \in [Agents -> 0..MaxRetries]
      <4>1. MaxRetries \in Nat /\ attempt \in [Agents -> 0..MaxRetries]
        BY <1>0, Constants DEF RunTypes
      <4>2. attempt[a] + 1 \in 0..MaxRetries
        BY <1>1, <4>1
      <4>3. QED
        BY <1>1, <4>1, <4>2
    <3>2. QED
      BY <1>0, <1>1, <2>2, <3>1 DEF RunTypes, Goto, session, ending, Places
  <2>4. ParentWaits'
    BY <1>0, <2>1, ParentStays DEF session
  <2>5. \A b \in Agents : b # a => RunOf(b)'
    BY <1>0, <2>1, RunStays DEF RunInv
  <2>6. RunOf(a)'
    BY <1>0, <1>1, <2>1, RunGoesOn DEF session, ending
  <2>7. QED
    BY <2>2, <2>3, <2>4, <2>5, <2>6 DEF RunInv
<1>2. CASE Finish(a, Outcome) /\ UNCHANGED turn
  <2>1. /\ \A b \in Agents : b # a => pc'[b] = pc[b] /\ Still(b)
        /\ pc'[a] = "finished" /\ stop'[a] = Outcome' /\ finishes'[a] = finishes[a] + 1
        /\ aborted' \in {"no", "cancelled", "timeout"}
    BY <1>0, <1>2 DEF RunTypes, Finish, Goto, Outcome, session, turn, Still, RunOf, HistoryOf
  <2>2. /\ AtProvider' /\ holders' \in [LimiterKeys -> SUBSET (Agents \cup Others)]
        /\ line' \in [LimiterKeys -> Seq(Agents \cup Others)]
    BY <1>0, <2>1, ProviderLeft
  <2>3. RunTypes'
    BY <1>0, <1>2, <2>2 DEF RunTypes, Finish, Goto, Outcome, session, turn, Places, Reasons
  <2>4. ParentWaits'
    BY <1>0, <2>1, ParentStays DEF session
  <2>5. \A b \in Agents : b # a => RunOf(b)'
    BY <1>0, <2>1, RunStays DEF RunInv
  <2>6. RunOf(a)'
    BY <1>0, <2>1, RunEnds DEF session, Over
  <2>7. QED
    BY <2>2, <2>3, <2>4, <2>5, <2>6 DEF RunInv
<1>3. QED
  BY <1>1, <1>2 DEF AttemptFails

(* The wait before a retry is over.                                        *)
LEMMA RetryKeeps ==
    ASSUME RunInv, NEW a \in Agents, Retry(a)
    PROVE  RunInv'
<1>0. /\ RunTypes /\ AtProvider /\ ParentWaits /\ RunOf(a) /\ pc[a] = "backoff"
      /\ UNCHANGED <<aborted, turn, session>>
  BY DEF RunInv, Retry, RunOf, HistoryOf, turn
<1>1. CASE aborted = "no" /\ Queue(a) /\ UNCHANGED ending
  <2>1. /\ pc' \in [Agents -> Places] /\ \A b \in Agents : b # a => pc'[b] = pc[b]
        /\ holders' \in [LimiterKeys -> SUBSET (Agents \cup Others)]
        /\ line' \in [LimiterKeys -> Seq(Agents \cup Others)]
        /\ AtProvider' /\ ParentWaits' /\ RunOf(a)'
    BY <1>0, <1>1, QueueKeeps DEF session, ending
  <2>2. RunTypes'
    BY <1>0, <1>1, <2>1 DEF RunTypes, session, ending, turn
  <2>3. \A b \in Agents : b # a => Still(b)
    BY <1>0, <1>1 DEF Still, session, ending, turn
  <2>4. \A b \in Agents : b # a => RunOf(b)'
    BY <1>0, <2>1, <2>3, RunStays DEF RunInv
  <2>5. QED
    BY <2>1, <2>2, <2>4 DEF RunInv
<1>2. CASE Finish(a, Outcome) /\ UNCHANGED limiters
  <2>1. /\ \A b \in Agents : b # a => pc'[b] = pc[b] /\ Still(b)
        /\ pc'[a] = "finished" /\ stop'[a] = Outcome' /\ finishes'[a] = finishes[a] + 1
        /\ aborted' \in {"no", "cancelled", "timeout"}
    BY <1>0, <1>2 DEF RunTypes, Finish, Goto, Outcome, session, turn, Still
  <2>2. RunTypes'
    BY <1>0, <1>2 DEF RunTypes, Finish, Goto, Outcome, limiters, session, turn, Places, Reasons
  <2>3. AtProvider'
    BY <1>0, <1>2, <2>1, ProviderStays DEF limiters
  <2>4. ParentWaits'
    BY <1>0, <2>1, ParentStays DEF session
  <2>5. RunOf(a)'
    BY <1>0, <2>1, RunEnds DEF session, Over
  <2>6. \A b \in Agents : b # a => RunOf(b)'
    BY <1>0, <2>1, RunStays DEF RunInv
  <2>7. QED
    BY <2>2, <2>3, <2>4, <2>5, <2>6 DEF RunInv
<1>3. QED
  BY <1>1, <1>2 DEF Retry

-----------------------------------------------------------------------------
(* The calls of an answer, before any of them is started.                  *)
LEMMA NewCalls ==
    ASSUME NEW a \in Agents, NEW kinds \in Answers[a], NEW calls,
           calls = [i \in DOMAIN kinds |-> Call(kinds[i])]
    PROVE  /\ calls \in Seq(CallRecords)
           /\ Len(calls) \in Nat /\ DOMAIN calls = 1..Len(calls)
           /\ \A i \in DOMAIN calls : ~calls[i].started /\ ~calls[i].ended /\ ~calls[i].result
           /\ a \in Children => \A i \in DOMAIN calls : calls[i].kind # "subagents"
<1>1. kinds \in Seq(Kinds)
  BY Constants
<1>2. Len(kinds) \in Nat /\ DOMAIN kinds = 1..Len(kinds) /\ \A i \in DOMAIN kinds : kinds[i] \in Kinds
  BY <1>1, LenProperties, ElementOfSeq
<1>3. /\ DOMAIN calls = 1..Len(kinds)
      /\ \A i \in 1..Len(kinds) : calls[i] = Call(kinds[i]) /\ Call(kinds[i]) \in CallRecords
  BY <1>2 DEF Call, CallRecords
<1>4. calls \in Seq(CallRecords) /\ Len(calls) = Len(kinds)
  <2>1. calls \in [1..Len(kinds) -> CallRecords]
    BY <1>2, <1>3
  <2>2. calls \in Seq(CallRecords)
    BY <1>2, <2>1
  <2>3. QED
    BY <1>2, <1>3, <2>2, LenProperties
<1>5. \A i \in DOMAIN calls : ~calls[i].started /\ ~calls[i].ended /\ ~calls[i].result
  BY <1>3 DEF Call
<1>6. ASSUME a \in Children, NEW i \in DOMAIN calls PROVE calls[i].kind # "subagents"
  <2>1. "subagents" \notin ToSet(kinds)
    BY <1>6, RunLoopAssumption
  <2>2. kinds[i] # "subagents"
    BY <1>2, <1>3, <2>1 DEF ToSet
  <2>3. QED
    BY <1>3, <2>2 DEF Call
<1>7. QED
  BY <1>2, <1>3, <1>4, <1>5, <1>6

(* A turn recorded after an attempt: nothing in it has begun.              *)
Recorded(a, calls, next) ==
    /\ next \in Histories /\ Len(next) \in DOMAIN next /\ next[Len(next)] = calls
    /\ ~LacksResult(next)
    /\ a \in Children =>
         \A t \in DOMAIN next : \A i \in DOMAIN next[t] : next[t][i].kind # "subagents"
    /\ Cardinality(StartedIn(next)) <= MaxToolCalls
    /\ \A k \in CountedKinds :
         Cardinality(StartedIn(next) \cap OfKindIn(next, k)) <= MaxKind[k]
    /\ Cardinality(CallsIn(next)) = called[a] + Len(calls)
    /\ \A k \in CountedKinds :
         Cardinality(OfKindIn(next, k)) = counted[a][k] + OfKind(calls, k)
    /\ calls # <<>> => Working(next)

(* The history after the answer of the model was recorded.                 *)
LEMMA TurnRecorded ==
    ASSUME NEW a \in Agents, RunTypes, RunOf(a), pc[a] = "attempt",
           NEW kinds \in Answers[a], NEW calls,
           calls = [i \in DOMAIN kinds |-> Call(kinds[i])],
           NEW next, next = Append(history[a], calls)
    PROVE  Recorded(a, calls, next)
<1>1. PICK turns : turns = history[a]
  OBVIOUS
<1>2. /\ turns \in Histories /\ Answered(turns) /\ ~LacksResult(turns)
      /\ a \in Children =>
           \A t \in DOMAIN turns : \A i \in DOMAIN turns[t] : turns[t][i].kind # "subagents"
      /\ Cardinality(StartedIn(turns)) <= MaxToolCalls
      /\ \A k \in CountedKinds :
           Cardinality(StartedIn(turns) \cap OfKindIn(turns, k)) <= MaxKind[k]
      /\ Cardinality(CallsIn(turns)) = called[a] + Due(a)
      /\ \A k \in CountedKinds : Cardinality(OfKindIn(turns, k)) = counted[a][k]
  BY <1>1 DEF RunTypes, RunOf, HistoryOf, BudgetOf, Over
<1>3. Due(a) = 0 /\ called[a] \in Nat
  BY DEF Due, InTurn, RunTypes
<1>4. /\ calls \in Seq(CallRecords) /\ Len(calls) \in Nat /\ DOMAIN calls = 1..Len(calls)
      /\ \A i \in DOMAIN calls : ~calls[i].started /\ ~calls[i].ended /\ ~calls[i].result
      /\ a \in Children => \A i \in DOMAIN calls : calls[i].kind # "subagents"
  BY NewCalls
<1>5. next \in Histories /\ IsLonger(next, turns, calls)
  BY <1>1, <1>2, <1>4, TurnAdded
<1>6. Len(turns) \in Nat /\ DOMAIN turns = 1..Len(turns)
  BY <1>2, TurnsOf
<1>7. Len(next) \in DOMAIN next /\ next[Len(next)] = calls
  BY <1>5 DEF IsLonger
<1>8. ~LacksResult(next)
  BY <1>2, <1>4, <1>5 DEF LacksResult, IsLonger
<1>9. a \in Children =>
        \A t \in DOMAIN next : \A i \in DOMAIN next[t] : next[t][i].kind # "subagents"
  BY <1>2, <1>4, <1>5 DEF IsLonger
<1>10. /\ Cardinality(StartedIn(next)) <= MaxToolCalls
       /\ \A k \in CountedKinds :
            Cardinality(StartedIn(next) \cap OfKindIn(next, k)) <= MaxKind[k]
  BY <1>2, <1>5 DEF IsLonger
<1>11. Cardinality(CallsIn(next)) = called[a] + Len(calls)
  BY <1>2, <1>3, <1>5 DEF IsLonger
<1>12. \A k \in CountedKinds : Cardinality(OfKindIn(next, k)) = counted[a][k] + OfKind(calls, k)
  BY <1>2, <1>5 DEF IsLonger
<1>13. ASSUME calls # <<>> PROVE Working(next)
  <2>1. 1 \in DOMAIN calls
    BY <1>4, <1>13, EmptySeq
  <2>2. WorkedOff(calls, 1)
    BY <1>4 DEF WorkedOff
  <2>3. next # <<>>
    BY <1>7
  <2>4. \A t \in DOMAIN next : t < Len(next) => t \in DOMAIN turns
    BY <1>5, <1>6 DEF IsLonger
  <2>5. \A t \in DOMAIN next : t < Len(next) => \A i \in DOMAIN next[t] : next[t][i].result
    BY <1>2, <1>5, <2>4 DEF Answered, IsLonger
  <2>6. \E n \in DOMAIN next[Len(next)] : WorkedOff(next[Len(next)], n)
    BY <1>7, <2>1, <2>2
  <2>7. QED
    BY <2>3, <2>5, <2>6 DEF Working
<1>14. QED
  BY <1>5, <1>7, <1>8, <1>9, <1>10, <1>11, <1>12, <1>13 DEF Recorded

(* How many calls of a kind an answer has.                                 *)
LEMMA OfKindType ==
    ASSUME NEW calls \in Seq(CallRecords), NEW k
    PROVE  OfKind(calls, k) \in Nat
<1>1. IsFiniteSet(DOMAIN calls)
  BY LenProperties, FS_Interval
<1>2. IsFiniteSet({i \in DOMAIN calls : calls[i].kind = k})
  BY <1>1, FS_Subset
<1>3. QED
  BY <1>2, FS_CardinalityType DEF OfKind

(* The model has answered.                                                 *)
LEMMA AttemptSucceedsKeeps ==
    ASSUME RunInv, NEW a \in Agents, NEW kinds \in Answers[a], AttemptSucceeds(a, kinds)
    PROVE  RunInv'
<1>. DEFINE calls == [i \in DOMAIN kinds |-> Call(kinds[i])]
            over == Exceeded(a, calls)
<1>0. /\ RunTypes /\ AtProvider /\ ParentWaits /\ RunOf(a) /\ pc[a] = "attempt"
      /\ Limiter!Leave("provider", a)
      /\ calls # <<>> => visible[a]
      /\ numTurns' = [numTurns EXCEPT ![a] = @ + 1]
      /\ history' = IF visible[a] THEN [history EXCEPT ![a] = Append(@, calls)] ELSE history
      /\ \/ calls = <<>> /\ Finish(a, "end_turn") /\ UNCHANGED counted
         \/ calls # <<>> /\ over # "no" /\ Finish(a, over) /\ UNCHANGED counted
         \/ /\ calls # <<>> /\ over = "no" /\ Goto(a, "tools")
            /\ counted' = [counted EXCEPT ![a] = Counts(a, calls)] /\ UNCHANGED ending
      /\ UNCHANGED <<aborted, turn, large, called>>
  BY DEF RunInv, AttemptSucceeds
<1>1. PICK next : next = Append(history[a], calls)
  OBVIOUS
<1>2. Recorded(a, calls, next)
  BY <1>0, <1>1, TurnRecorded
<1>3. calls \in Seq(CallRecords) /\ Len(calls) \in Nat
  BY NewCalls
<1>4. \A k \in CountedKinds : Counts(a, calls)[k] = counted[a][k] + OfKind(calls, k)
  BY DEF Counts
<1>5. Counts(a, calls) \in [CountedKinds -> Nat]
  <2>1. \A k \in CountedKinds : counted[a][k] \in Nat /\ OfKind(calls, k) \in Nat
    BY <1>0, <1>3, OfKindType DEF RunTypes
  <2>2. QED
    BY <2>1 DEF Counts
<1>6. over \in {"max_tool_calls", "budget_exhausted", "max_iterations", "no"}
  BY DEF Exceeded
<1>7. ASSUME over = "no"
      PROVE  /\ called[a] + Len(calls) <= MaxToolCalls
             /\ \A k \in CountedKinds : counted[a][k] + OfKind(calls, k) <= MaxKind[k]
             /\ numTurns[a] + 1 < MaxTurns[a]
  <2>1. /\ ~(called[a] + Len(calls) > MaxToolCalls)
        /\ \A k \in CountedKinds : ~(Counts(a, calls)[k] > MaxKind[k])
        /\ ~Exhausted(a)
    BY <1>7 DEF Exceeded
  <2>2. /\ called[a] \in Nat /\ MaxToolCalls \in Nat /\ numTurns[a] \in Nat /\ MaxTurns[a] \in Nat
        /\ \A k \in CountedKinds : MaxKind[k] \in Nat /\ Counts(a, calls)[k] \in Nat
    BY <1>0, <1>5, Constants DEF RunTypes
  <2>3. QED
    BY <1>3, <1>4, <2>1, <2>2 DEF Exhausted
<1>. HIDE DEF calls, over
<1>8. /\ \A b \in Agents : b # a => pc'[b] = pc[b] /\ Still(b)
      /\ pc'[a] \in {"finished", "tools"} /\ pc' \in [Agents -> Places]
  <2>1. pc' = [pc EXCEPT ![a] = pc'[a]] /\ pc'[a] \in {"finished", "tools"}
    BY <1>0 DEF Finish, Goto, RunTypes
  <2>2. \A b \in Agents : b # a =>
          stop'[b] = stop[b] /\ finishes'[b] = finishes[b] /\ counted'[b] = counted[b]
    BY <1>0 DEF Finish, RunTypes, ending
  <2>3. \A b \in Agents : b # a => history'[b] = history[b]
    BY <1>0 DEF RunTypes
  <2>4. /\ \A b \in Agents : b # a => pc'[b] = pc[b]
        /\ pc' \in [Agents -> Places]
    <3>1. pc \in [Agents -> Places] /\ pc'[a] \in Places
      BY <1>0, <2>1 DEF RunTypes, Places
    <3>2. QED
      BY <2>1, <3>1
  <2>5. \A b \in Agents : b # a => numTurns'[b] = numTurns[b]
    BY <1>0 DEF RunTypes
  <2>6. UNCHANGED <<visible, large, called>>
    BY <1>0 DEF turn
  <2>7. QED
    BY <2>1, <2>2, <2>3, <2>4, <2>5, <2>6 DEF Still
<1>9. /\ AtProvider' /\ holders' \in [LimiterKeys -> SUBSET (Agents \cup Others)]
      /\ line' \in [LimiterKeys -> Seq(Agents \cup Others)]
  BY <1>0, <1>8, ProviderLeft
<1>10. /\ history' \in [Agents -> Histories]
       /\ history'[a] = IF visible[a] THEN next ELSE history[a]
  BY <1>0, <1>1, <1>2 DEF RunTypes, Recorded
<1>11. stop' \in [Agents -> Reasons] /\ finishes' \in [Agents -> Nat]
  <2>1. stop \in [Agents -> Reasons] /\ finishes \in [Agents -> Nat]
    BY <1>0 DEF RunTypes
  <2>2. ASSUME NEW reason \in Reasons, Finish(a, reason)
        PROVE  stop' \in [Agents -> Reasons] /\ finishes' \in [Agents -> Nat]
    BY <2>1, <2>2 DEF Finish
  <2>3. over \in Reasons \/ over = "no"
    BY <1>6 DEF Reasons
  <2>4. "end_turn" \in Reasons
    BY DEF Reasons
  <2>5. QED
    BY <1>0, <2>1, <2>2, <2>3, <2>4 DEF ending
<1>12. counted' \in [Agents -> [CountedKinds -> Nat]]
  BY <1>0, <1>5 DEF RunTypes
<1>13. RunTypes'
  <2>1. numTurns' \in [Agents -> Nat]
    BY <1>0 DEF RunTypes
  <2>2. UNCHANGED <<aborted, attempt, visible, large, called>>
    BY <1>0 DEF turn
  <2>3. QED
    BY <1>0, <1>8, <1>9, <1>10, <1>11, <1>12, <2>1, <2>2 DEF RunTypes
<1>14. ParentWaits'
  <2>1. \A b \in Agents : b # a => history'[b] = history[b]
    BY <1>8 DEF Still
  <2>2. QED
    BY <1>0, <1>8, <2>1, ParentStays
<1>15. \A b \in Agents : b # a => RunOf(b)'
  BY <1>0, <1>8, RunStays DEF RunInv
<1>16. /\ numTurns'[a] = numTurns[a] + 1 /\ numTurns[a] < MaxTurns[a] /\ numTurns[a] \in Nat
       /\ MaxTurns[a] \in Nat /\ large'[a] = large[a] /\ called'[a] = called[a]
       /\ large[a] <= MaxLarge /\ large[a] \in Nat /\ MaxLarge \in Nat
       /\ finishes[a] = 0 /\ ~LacksResult(history[a]) /\ visible' = visible
       /\ Cardinality(StartedIn(history[a])) <= MaxToolCalls
       /\ \A k \in CountedKinds :
            Cardinality(StartedIn(history[a]) \cap OfKindIn(history[a], k)) <= MaxKind[k]
       /\ a \in Children =>
            \A t \in DOMAIN history[a] : \A i \in DOMAIN history[a][t] :
                history[a][t][i].kind # "subagents"
  BY <1>0, Constants DEF RunTypes, RunOf, HistoryOf, EndOf, BudgetOf, Over, turn
<1>17. CASE pc'[a] = "finished"
  <2>1. /\ finishes'[a] = 1
        /\ \/ calls = <<>> /\ stop'[a] = "end_turn"
           \/ calls # <<>> /\ stop'[a] \in {"max_tool_calls", "budget_exhausted", "max_iterations"}
    BY <1>0, <1>6, <1>16, <1>17 DEF Finish, Goto, RunTypes
  <2>2. HistoryOf(a)'
    BY <1>2, <1>10, <1>16, <1>17 DEF HistoryOf, InTurn, Recorded
  <2>3. EndOf(a)'
    BY <1>0, <1>2, <1>10, <1>16, <1>17, <2>1 DEF EndOf, Over, LastTurn, Recorded
  <2>4. BudgetOf(a)'
    <3>1. /\ Cardinality(StartedIn(history'[a])) <= MaxToolCalls
          /\ \A k \in CountedKinds :
               Cardinality(StartedIn(history'[a]) \cap OfKindIn(history'[a], k)) <= MaxKind[k]
      <4>1. CASE visible[a]
        <5>1. history'[a] = next
          BY <1>10, <4>1
        <5>2. QED
          BY <1>2, <5>1 DEF Recorded
      <4>2. CASE ~visible[a]
        <5>1. history'[a] = history[a]
          BY <1>10, <4>2
        <5>2. QED
          BY <1>16, <5>1
      <4>3. QED
        BY <4>1, <4>2
    <3>2. numTurns'[a] <= MaxTurns[a] /\ large'[a] <= MaxLarge + 1
      BY <1>16
    <3>3. pc'[a] \in Over
      BY <1>17 DEF Over
    <3>4. QED
      BY <3>1, <3>2, <3>3 DEF BudgetOf
  <2>5. QED
    BY <1>9, <1>13, <1>14, <1>15, <2>2, <2>3, <2>4 DEF RunInv, RunOf
<1>18. CASE pc'[a] = "tools"
  <2>1. /\ calls # <<>> /\ over = "no" /\ finishes'[a] = 0
        /\ counted'[a] = Counts(a, calls) /\ history'[a] = next
    BY <1>0, <1>10, <1>16, <1>18 DEF Finish, Goto, RunTypes, ending
  <2>2. HistoryOf(a)'
    BY <1>2, <1>16, <1>18, <2>1 DEF HistoryOf, InTurn, Recorded
  <2>3. EndOf(a)'
    BY <1>18, <2>1 DEF EndOf, Over
  <2>4. Due(a)' = Len(calls)
    BY <1>2, <1>18, <2>1 DEF Due, InTurn, LastTurn, Recorded
  <2>5. /\ \A k \in CountedKinds :
             Cardinality(OfKindIn(next, k)) = counted'[a][k] /\ counted'[a][k] <= MaxKind[k]
        /\ Cardinality(CallsIn(next)) = called'[a] + Len(calls)
        /\ called'[a] + Len(calls) <= MaxToolCalls
        /\ numTurns'[a] < MaxTurns[a]
    BY <1>2, <1>4, <1>7, <1>16, <2>1 DEF Recorded
  <2>6. BudgetOf(a)'
    <3>1. /\ Cardinality(StartedIn(history'[a])) <= MaxToolCalls
          /\ \A k \in CountedKinds :
               Cardinality(StartedIn(history'[a]) \cap OfKindIn(history'[a], k)) <= MaxKind[k]
      BY <1>2, <2>1 DEF Recorded
    <3>2. /\ Cardinality(CallsIn(history'[a])) = called'[a] + Due(a)'
          /\ called'[a] + Due(a)' <= MaxToolCalls
          /\ \A k \in CountedKinds :
               Cardinality(OfKindIn(history'[a], k)) = counted'[a][k] /\ counted'[a][k] <= MaxKind[k]
      BY <2>1, <2>4, <2>5
    <3>3. numTurns'[a] <= MaxTurns[a] /\ large'[a] <= MaxLarge + 1 /\ large'[a] <= MaxLarge
      BY <1>16
    <3>4. QED
      BY <2>5, <3>1, <3>2, <3>3 DEF BudgetOf
  <2>7. QED
    BY <1>9, <1>13, <1>14, <1>15, <2>2, <2>3, <2>6 DEF RunInv, RunOf
<1>19. QED
  BY <1>8, <1>17, <1>18

-----------------------------------------------------------------------------
(* A tool is started, or the signal ends the run.                          *)
LEMMA StartToolKeeps ==
    ASSUME RunInv, NEW a \in Agents, StartTool(a)
    PROVE  RunInv'
<1>0. /\ RunTypes /\ AtProvider /\ ParentWaits /\ RunOf(a) /\ pc[a] = "tools"
      /\ UNCHANGED <<limiters, aborted, turn, counted, large, numTurns, called>>
      /\ pc[a] \in InTurn /\ pc[a] \notin Over
  BY DEF RunInv, StartTool, InTurn, Over
<1>1. CASE Finish(a, Outcome) /\ UNCHANGED history
  <2>1. /\ \A b \in Agents : b # a => pc'[b] = pc[b] /\ Still(b)
        /\ pc'[a] = "finished" /\ stop'[a] = Outcome' /\ finishes'[a] = finishes[a] + 1
        /\ aborted' \in {"no", "cancelled", "timeout"}
    BY <1>0, <1>1 DEF RunTypes, Finish, Goto, Outcome, turn, Still, RunOf, HistoryOf
  <2>2. RunTypes'
    BY <1>0, <1>1 DEF RunTypes, Finish, Goto, Outcome, limiters, turn, Places, Reasons
  <2>3. AtProvider'
    BY <1>0, <2>1, ProviderStays DEF limiters
  <2>4. ParentWaits'
    BY <1>0, <1>1, <2>1, ParentStays
  <2>5. \A b \in Agents : b # a => RunOf(b)'
    BY <1>0, <2>1, RunStays DEF RunInv
  <2>6. RunOf(a)'
    BY <1>0, <1>1, <2>1, RunEnds
  <2>7. QED
    BY <2>2, <2>3, <2>4, <2>5, <2>6 DEF RunInv
<1>2. CASE /\ history' = Mark(a, [ThisCall(a) EXCEPT !.started = TRUE])
           /\ pc' = [b \in Agents |->
                        IF b = a THEN "tool"
                        ELSE IF ThisCall(a).kind = "subagents" /\ b \in Children THEN "admit"
                        ELSE pc[b]]
           /\ UNCHANGED ending
  <2>1. /\ history[a] \in Histories /\ history[a] # <<>> /\ Len(history[a]) \in DOMAIN history[a]
        /\ LastTurn(a) \in Seq(CallRecords) /\ NextCall(a) \in DOMAIN LastTurn(a)
        /\ WorkedOff(LastTurn(a), NextCall(a))
        /\ ThisCall(a) = LastTurn(a)[NextCall(a)] /\ ThisCall(a) \in CallRecords
        /\ \A t \in DOMAIN history[a] : t < Len(history[a]) =>
             \A i \in DOMAIN history[a][t] : history[a][t][i].result
    BY <1>0, CurrentCall
  <2>2. PICK call : call = [ThisCall(a) EXCEPT !.started = TRUE]
    OBVIOUS
  <2>3. /\ call \in CallRecords /\ call.kind = ThisCall(a).kind
        /\ call.ended = ThisCall(a).ended /\ call.result = ThisCall(a).result
    BY <2>1, <2>2 DEF CallRecords
  <2>4. history' = Mark(a, call)
    BY <1>2, <2>2
  <2>5. /\ history' \in [Agents -> Histories]
        /\ \A b \in Agents : b # a => history'[b] = history[b]
        /\ Len(history'[a]) = Len(history[a]) /\ DOMAIN history'[a] = DOMAIN history[a]
        /\ \A t \in DOMAIN history[a] : DOMAIN history'[a][t] = DOMAIN history[a][t]
        /\ \A t \in DOMAIN history[a] : t # Len(history[a]) => history'[a][t] = history[a][t]
        /\ \A j \in DOMAIN LastTurn(a) :
             LastTurn(a)'[j] = IF j = NextCall(a) THEN call ELSE LastTurn(a)[j]
        /\ LastTurn(a)' = history'[a][Len(history[a])]
        /\ DOMAIN LastTurn(a)' = DOMAIN LastTurn(a) /\ Len(LastTurn(a)') = Len(LastTurn(a))
        /\ CallsIn(history'[a]) = CallsIn(history[a])
        /\ \A k : OfKindIn(history'[a], k) = OfKindIn(history[a], k)
    BY <1>0, <2>3, <2>4, MarkedHistory
  <2>6. \A t \in DOMAIN history[a] : \A i \in DOMAIN history[a][t] :
          /\ history'[a][t][i].kind = history[a][t][i].kind
          /\ history'[a][t][i].ended = history[a][t][i].ended
          /\ history'[a][t][i].result = history[a][t][i].result
    BY <2>1, <2>3, <2>5 DEF LastTurn
  <2>7. a \in Children => ThisCall(a).kind # "subagents"
    BY <1>0, <2>1 DEF RunOf, HistoryOf, LastTurn
  <2>8. a = Parent => \A c \in Children : pc[c] = "idle"
    BY <1>0 DEF ParentWaits
  <2>9. /\ \A b \in Agents : b # a =>
             /\ Still(b)
             /\ pc'[b] = pc[b] \/ (pc[b] = "idle" /\ pc'[b] = "admit")
        /\ pc'[a] = "tool"
    BY <1>0, <1>2, <2>5, <2>7, <2>8 DEF Still, ending, turn, Agents
  <2>10. RunTypes'
    BY <1>0, <1>2, <2>5 DEF RunTypes, limiters, turn, ending, Places
  <2>11. AtProvider'
    BY <1>0, <2>9, ProviderStays DEF limiters
  <2>12. \A b \in Agents : b # a => RunOf(b)'
    BY <1>0, <2>9, RunStays DEF RunInv
  <2>13. WorkedOff(LastTurn(a)', NextCall(a))
    BY <2>1, <2>3, <2>5 DEF WorkedOff
  <2>14. ParentWaits'
    <3>1. CASE ThisCall(a).kind = "subagents"
      <4>1. a = Parent
        BY <2>7, <3>1 DEF Agents
      <4>2. AtSubagents(LastTurn(a)')
        BY <2>1, <2>3, <2>5, <2>13, <3>1 DEF AtSubagents
      <4>3. AtSubagents(LastTurn(Parent))'
        BY <4>1, <4>2
      <4>4. QED
        BY <2>9, <4>1, <4>3 DEF ParentWaits
    <3>2. CASE ThisCall(a).kind # "subagents"
      <4>1. \A b \in Agents : b # a => pc'[b] = pc[b] /\ history'[b] = history[b]
        BY <1>2, <2>5, <3>2
      <4>2. QED
        BY <1>0, <2>9, <4>1, ParentStays
    <3>3. QED
      BY <3>1, <3>2
  <2>15. HistoryOf(a)'
    <3>1. Working(history'[a])
      <4>1. history'[a] # <<>>
        BY <2>1, <2>5
      <4>2. \A t \in DOMAIN history'[a] : t < Len(history'[a]) =>
              \A i \in DOMAIN history'[a][t] : history'[a][t][i].result
        BY <2>1, <2>5, <2>6
      <4>3. \E n \in DOMAIN history'[a][Len(history'[a])] :
              WorkedOff(history'[a][Len(history'[a])], n)
        BY <2>1, <2>5, <2>13
      <4>4. QED
        BY <4>1, <4>2, <4>3 DEF Working
    <3>2. ~LacksResult(history'[a])
      <4>1. ~LacksResult(history[a])
        BY <1>0 DEF RunOf, HistoryOf
      <4>2. QED
        BY <2>5, <2>6, <4>1 DEF LacksResult
    <3>3. a \in Children => \A t \in DOMAIN history'[a] : \A i \in DOMAIN history'[a][t] :
                               history'[a][t][i].kind # "subagents"
      BY <1>0, <2>5, <2>6 DEF RunOf, HistoryOf
    <3>4. QED
      BY <2>9, <3>1, <3>2, <3>3 DEF HistoryOf, InTurn
  <2>16. EndOf(a)'
    BY <1>0, <1>2, <2>9 DEF RunOf, EndOf, Over, ending
  <2>17. BudgetOf(a)'
    <3>1. Due(a)' = Due(a)
      BY <1>0, <2>5, <2>9 DEF Due, InTurn
    <3>2. history'[a] \in Histories
      BY <2>5
    <3>3. /\ Cardinality(StartedIn(history'[a])) <= MaxToolCalls
          /\ \A k \in CountedKinds :
               Cardinality(StartedIn(history'[a]) \cap OfKindIn(history'[a], k)) <= MaxKind[k]
      BY <1>0, <2>5, <3>2, StartedWithin
    <3>4. QED
      BY <1>0, <2>5, <3>1, <3>3 DEF RunOf, BudgetOf
  <2>18. QED
    BY <2>10, <2>11, <2>12, <2>14, <2>15, <2>16, <2>17 DEF RunInv, RunOf
<1>3. QED
  BY <1>1, <1>2 DEF StartTool

-----------------------------------------------------------------------------
(* The end of a call is yielded, with or without its result.               *)
LEMMA EndCallKeeps ==
    ASSUME RunInv, NEW a \in Agents, NEW size \in 0..1, pc[a] \in InTurn, EndCall(a, size),
           a = Parent => \A c \in Children : pc[c] = "idle",
           UNCHANGED <<limiters, aborted, turn, counted, numTurns>>
    PROVE  RunInv'
<1>0. /\ RunTypes /\ AtProvider /\ ParentWaits /\ RunOf(a)
      /\ pc[a] \notin Over /\ pc[a] \in {"tools", "tool"}
      /\ called[a] \in Nat /\ large[a] \in Nat /\ MaxLarge \in Nat
  BY Constants DEF RunInv, InTurn, Over, RunTypes
<1>1. /\ history[a] \in Histories /\ history[a] # <<>> /\ Len(history[a]) \in DOMAIN history[a]
      /\ LastTurn(a) \in Seq(CallRecords) /\ NextCall(a) \in DOMAIN LastTurn(a)
      /\ WorkedOff(LastTurn(a), NextCall(a))
      /\ ThisCall(a) = LastTurn(a)[NextCall(a)] /\ ThisCall(a) \in CallRecords
      /\ \A t \in DOMAIN history[a] : t < Len(history[a]) =>
           \A i \in DOMAIN history[a][t] : history[a][t][i].result
  BY <1>0, CurrentCall
<1>2. /\ Len(history[a]) \in Nat /\ DOMAIN history[a] = 1..Len(history[a])
      /\ Len(LastTurn(a)) \in Nat /\ DOMAIN LastTurn(a) = 1..Len(LastTurn(a))
  BY <1>1, LenProperties, TurnsOf
<1>3. /\ large' = [large EXCEPT ![a] = @ + size] /\ large'[a] = large[a] + size
      /\ large'[a] \in Nat /\ large'[a] <= MaxLarge + 1 /\ large' \in [Agents -> Nat]
  <2>1. large' = [large EXCEPT ![a] = @ + size]
    BY DEF EndCall
  <2>2. large[a] <= MaxLarge
    BY <1>0 DEF RunOf, BudgetOf
  <2>3. QED
    BY <1>0, <2>1, <2>2 DEF RunTypes
<1>4. PICK call : \/ /\ large'[a] > MaxLarge /\ call = [ThisCall(a) EXCEPT !.ended = TRUE]
                     /\ AddResults(a) /\ Finish(a, "budget_exhausted")
                  \/ /\ large'[a] <= MaxLarge
                     /\ call = [ThisCall(a) EXCEPT !.ended = TRUE, !.result = TRUE]
                     /\ IF TurnGoesOn(a) THEN Goto(a, "tools") /\ UNCHANGED called
                        ELSE Goto(a, "loop") /\ AddResults(a)
                     /\ UNCHANGED ending
  <2>1. CASE large'[a] > MaxLarge
    BY <1>0, <1>3, <2>1 DEF EndCall
  <2>2. CASE ~(large'[a] > MaxLarge)
    BY <1>0, <1>3, <2>2 DEF EndCall
  <2>3. QED
    BY <2>1, <2>2
<1>5. /\ history' = Mark(a, call) /\ call \in CallRecords /\ call.kind = ThisCall(a).kind
      /\ call.ended
      /\ large'[a] <= MaxLarge => call.result
  <2>1. CASE large'[a] > MaxLarge
    <3>1. ~(large'[a] <= MaxLarge)
      BY <1>0, <1>3, <2>1
    <3>2. call = [ThisCall(a) EXCEPT !.ended = TRUE]
      BY <1>4, <3>1
    <3>3. history' = Mark(a, [ThisCall(a) EXCEPT !.ended = TRUE])
      BY <3>1 DEF EndCall
    <3>4. history' = Mark(a, call)
      BY <3>2, <3>3
    <3>5. call \in CallRecords /\ call.kind = ThisCall(a).kind /\ call.ended
      BY <1>1, <3>2 DEF CallRecords
    <3>6. QED
      BY <3>1, <3>4, <3>5
  <2>2. CASE large'[a] <= MaxLarge
    <3>1. ~(large'[a] > MaxLarge)
      BY <1>0, <1>3, <2>2
    <3>2. call = [ThisCall(a) EXCEPT !.ended = TRUE, !.result = TRUE]
      BY <1>4, <3>1
    <3>3. history' = Mark(a, [[ThisCall(a) EXCEPT !.ended = TRUE] EXCEPT !.result = TRUE])
      BY <3>1 DEF EndCall
    <3>4. call = [[ThisCall(a) EXCEPT !.ended = TRUE] EXCEPT !.result = TRUE]
      BY <3>2
    <3>5. history' = Mark(a, call)
      BY <3>3, <3>4
    <3>6. call \in CallRecords /\ call.kind = ThisCall(a).kind /\ call.ended /\ call.result
      BY <1>1, <3>2 DEF CallRecords
    <3>7. QED
      BY <3>5, <3>6
  <2>3. QED
    BY <1>0, <1>3, <2>1, <2>2
<1>6. /\ history' \in [Agents -> Histories]
      /\ \A b \in Agents : b # a => history'[b] = history[b]
      /\ Len(history'[a]) = Len(history[a]) /\ DOMAIN history'[a] = DOMAIN history[a]
      /\ \A t \in DOMAIN history[a] : DOMAIN history'[a][t] = DOMAIN history[a][t]
      /\ \A t \in DOMAIN history[a] : t # Len(history[a]) => history'[a][t] = history[a][t]
      /\ \A j \in DOMAIN LastTurn(a) :
           LastTurn(a)'[j] = IF j = NextCall(a) THEN call ELSE LastTurn(a)[j]
      /\ LastTurn(a)' = history'[a][Len(history[a])]
      /\ DOMAIN LastTurn(a)' = DOMAIN LastTurn(a) /\ Len(LastTurn(a)') = Len(LastTurn(a))
      /\ CallsIn(history'[a]) = CallsIn(history[a])
      /\ \A k : OfKindIn(history'[a], k) = OfKindIn(history[a], k)
  BY <1>0, <1>5, MarkedHistory DEF InTurn
<1>7. called' \in [Agents -> Nat] /\ \A b \in Agents : b # a => called'[b] = called[b]
  <2>1. CASE AddResults(a)
    BY <1>0, <1>2, <2>1 DEF AddResults, RunTypes
  <2>2. CASE UNCHANGED called
    BY <1>0, <2>2 DEF RunTypes
  <2>3. QED
    BY <1>4, <2>1, <2>2
<1>8. /\ pc' \in [Agents -> Places] /\ pc'[a] \in {"finished", "tools", "loop"}
      /\ \A b \in Agents : b # a => pc'[b] = pc[b]
  BY <1>0, <1>4 DEF RunTypes, Finish, Goto, Places
<1>9. /\ stop' \in [Agents -> Reasons] /\ finishes' \in [Agents -> Nat]
      /\ \A b \in Agents : b # a => stop'[b] = stop[b] /\ finishes'[b] = finishes[b]
  <2>1. CASE Finish(a, "budget_exhausted")
    BY <1>0, <2>1 DEF RunTypes, Finish, Reasons
  <2>2. CASE UNCHANGED ending
    BY <1>0, <2>2 DEF RunTypes, ending
  <2>3. QED
    BY <1>4, <2>1, <2>2
<1>10. RunTypes'
  <2>1. UNCHANGED <<holders, line, aborted, attempt, visible, counted, numTurns>>
    BY DEF limiters, turn
  <2>2. QED
    BY <1>0, <1>3, <1>6, <1>7, <1>8, <1>9, <2>1 DEF RunTypes
<1>11. \A b \in Agents : b # a => Still(b)
  <2>1. \A b \in Agents : b # a => large'[b] = large[b]
    BY <1>0, <1>3 DEF RunTypes
  <2>2. QED
    BY <1>6, <1>7, <1>9, <2>1 DEF Still, turn
<1>12. AtProvider'
  BY <1>0, <1>8, ProviderStays DEF limiters
<1>13. ParentWaits'
  BY <1>0, <1>6, <1>8, ParentStays
<1>14. \A b \in Agents : b # a => RunOf(b)'
  BY <1>0, <1>8, <1>11, RunStays DEF RunInv
<1>15. /\ aborted' = aborted
       /\ a \in Children => \A t \in DOMAIN history'[a] : \A i \in DOMAIN history'[a][t] :
                               history'[a][t][i].kind # "subagents"
  <2>1. \A t \in DOMAIN history[a] : \A i \in DOMAIN history[a][t] :
          history'[a][t][i].kind = history[a][t][i].kind
    <3>1. SUFFICES ASSUME NEW t \in DOMAIN history[a], NEW i \in DOMAIN history[a][t]
                   PROVE  history'[a][t][i].kind = history[a][t][i].kind
      OBVIOUS
    <3>2. CASE t # Len(history[a])
      BY <1>6, <3>2
    <3>3. CASE t = Len(history[a])
      <4>1. history[a][t] = LastTurn(a) /\ history'[a][t] = LastTurn(a)' /\ i \in DOMAIN LastTurn(a)
        BY <1>6, <3>3 DEF LastTurn
      <4>2. LastTurn(a)'[i] = IF i = NextCall(a) THEN call ELSE LastTurn(a)[i]
        BY <1>6, <4>1
      <4>3. LastTurn(a)'[i].kind = LastTurn(a)[i].kind
        BY <1>1, <1>5, <4>2
      <4>4. QED
        BY <4>1, <4>3
    <3>4. QED
      BY <3>2, <3>3
  <2>2. QED
    BY <1>0, <1>6, <2>1 DEF RunOf, HistoryOf, turn
<1>16. /\ Cardinality(StartedIn(history'[a])) <= MaxToolCalls
       /\ \A k \in CountedKinds :
            Cardinality(StartedIn(history'[a]) \cap OfKindIn(history'[a], k)) <= MaxKind[k]
  <2>1. history'[a] \in Histories
    BY <1>6
  <2>2. QED
    BY <1>0, <1>6, <2>1, StartedWithin
<1>17. CASE large'[a] > MaxLarge
  <2>1. /\ pc'[a] = "finished" /\ stop'[a] = "budget_exhausted" /\ finishes'[a] = finishes[a] + 1
    BY <1>0, <1>3, <1>4, <1>17 DEF Finish, Goto, RunTypes
  <2>2. HistoryOf(a)'
    BY <1>15, <2>1 DEF HistoryOf, InTurn, Over
  <2>3. EndOf(a)'
    <3>1. finishes'[a] = 1
      BY <1>0, <2>1 DEF RunOf, EndOf
    <3>2. LastTurn(a)' # <<>>
      BY <1>1, <1>6
    <3>3. QED
      BY <2>1, <3>1, <3>2 DEF EndOf, Over
  <2>4. BudgetOf(a)'
    BY <1>0, <1>3, <1>16, <2>1 DEF RunOf, BudgetOf, Over
  <2>5. QED
    BY <1>10, <1>12, <1>13, <1>14, <2>2, <2>3, <2>4 DEF RunInv, RunOf
<1>18. CASE large'[a] <= MaxLarge
  <2>1. /\ call.ended /\ call.result
        /\ IF TurnGoesOn(a) THEN Goto(a, "tools") /\ UNCHANGED called
           ELSE Goto(a, "loop") /\ AddResults(a)
        /\ UNCHANGED ending
    BY <1>0, <1>3, <1>4, <1>5, <1>18
  <2>2. \A i \in DOMAIN LastTurn(a) :
          /\ i <= NextCall(a) => LastTurn(a)'[i].ended /\ LastTurn(a)'[i].result
          /\ i > NextCall(a) => ~LastTurn(a)'[i].ended /\ ~LastTurn(a)'[i].result
    BY <1>1, <1>2, <1>6, <2>1 DEF WorkedOff
  <2>3. \A t \in DOMAIN history'[a] : t < Len(history'[a]) =>
          \A i \in DOMAIN history'[a][t] : history'[a][t][i].result
    BY <1>1, <1>2, <1>6
  <2>4. ~LacksResult(history'[a])
    <3>1. ~LacksResult(history[a])
      BY <1>0 DEF RunOf, HistoryOf
    <3>2. SUFFICES ASSUME NEW t \in DOMAIN history'[a], NEW i \in DOMAIN history'[a][t],
                          history'[a][t][i].ended
                   PROVE  history'[a][t][i].result
      BY DEF LacksResult
    <3>3. CASE t < Len(history'[a])
      BY <2>3, <3>3
    <3>4. CASE t = Len(history'[a])
      <4>1. history'[a][t] = LastTurn(a)' /\ i \in DOMAIN LastTurn(a)
        BY <1>6, <3>4
      <4>2. i <= NextCall(a) \/ i > NextCall(a)
        BY <1>1, <1>2, <4>1
      <4>3. QED
        BY <2>2, <3>2, <4>1, <4>2
    <3>5. QED
      BY <1>2, <1>6, <3>3, <3>4
  <2>5. finishes'[a] = finishes[a] /\ stop'[a] = stop[a]
    BY <2>1 DEF ending
  <2>6. CASE TurnGoesOn(a)
    <3>1. pc'[a] = "tools" /\ called' = called
      BY <1>0, <2>1, <2>6 DEF Goto, RunTypes
    <3>2. NextCall(a) + 1 \in DOMAIN LastTurn(a)
      BY <1>1, <1>2, <2>6 DEF TurnGoesOn, IsLastCall
    <3>3. WorkedOff(LastTurn(a)', NextCall(a) + 1)
      <4>1. \A i \in DOMAIN LastTurn(a) : /\ i < NextCall(a) + 1 => i <= NextCall(a)
                                          /\ i >= NextCall(a) + 1 => i > NextCall(a)
        BY <1>1, <1>2
      <4>2. QED
        BY <1>6, <2>2, <4>1 DEF WorkedOff
    <3>4. Working(history'[a])
      <4>1. history'[a] # <<>>
        BY <1>1, <1>6
      <4>2. \E n \in DOMAIN history'[a][Len(history'[a])] :
              WorkedOff(history'[a][Len(history'[a])], n)
        BY <1>6, <3>2, <3>3
      <4>3. QED
        BY <2>3, <4>1, <4>2 DEF Working
    <3>5. HistoryOf(a)'
      BY <1>15, <2>4, <3>1, <3>4 DEF HistoryOf, InTurn
    <3>6. EndOf(a)'
      BY <1>0, <2>5, <3>1 DEF RunOf, EndOf, Over
    <3>7. Due(a)' = Due(a)
      BY <1>0, <1>6, <3>1 DEF Due, InTurn
    <3>8. BudgetOf(a)'
      <4>1. counted' = counted /\ numTurns' = numTurns
        OBVIOUS
      <4>2. QED
        BY <1>0, <1>3, <1>6, <1>16, <1>18, <3>1, <3>7, <4>1 DEF RunOf, BudgetOf
    <3>9. QED
      BY <1>10, <1>12, <1>13, <1>14, <3>5, <3>6, <3>8 DEF RunInv, RunOf
  <2>7. CASE ~TurnGoesOn(a)
    <3>1. pc'[a] = "loop" /\ called'[a] = called[a] + Len(LastTurn(a))
      BY <1>0, <2>1, <2>7 DEF Goto, AddResults, RunTypes
    <3>2. ASSUME aborted' = "no" PROVE Answered(history'[a])
      <4>1. NextCall(a) = Len(LastTurn(a))
        BY <1>15, <2>7, <3>2 DEF TurnGoesOn, IsLastCall
      <4>2. \A i \in DOMAIN LastTurn(a) : LastTurn(a)'[i].result
        BY <1>2, <2>2, <4>1
      <4>3. \A t \in DOMAIN history'[a] : t < Len(history'[a]) \/ t = Len(history'[a])
        BY <1>2, <1>6
      <4>4. QED
        BY <1>6, <2>3, <4>2, <4>3 DEF Answered
    <3>3. HistoryOf(a)'
      BY <1>15, <2>4, <3>1, <3>2 DEF HistoryOf, InTurn
    <3>4. EndOf(a)'
      BY <1>0, <2>5, <3>1 DEF RunOf, EndOf, Over
    <3>5. Due(a)' = 0 /\ Due(a) = Len(LastTurn(a))
      BY <1>0, <3>1 DEF Due, InTurn
    <3>6. BudgetOf(a)'
      <4>1. counted' = counted /\ numTurns' = numTurns
        OBVIOUS
      <4>2. called'[a] + Due(a)' = called[a] + Due(a)
        BY <1>0, <1>2, <3>1, <3>5
      <4>3. QED
        BY <1>0, <1>3, <1>6, <1>16, <1>18, <4>1, <4>2 DEF RunOf, BudgetOf
    <3>7. QED
      BY <1>10, <1>12, <1>13, <1>14, <3>3, <3>4, <3>6 DEF RunInv, RunOf
  <2>8. QED
    BY <2>6, <2>7
<1>19. QED
  BY <1>0, <1>3, <1>17, <1>18

(* A call that cannot be run.                                              *)
LEMMA RefuseCallKeeps ==
    ASSUME RunInv, NEW a \in Agents, RefuseCall(a)
    PROVE  RunInv'
<1>1. /\ pc[a] = "tools" /\ EndCall(a, 0)
      /\ UNCHANGED <<limiters, aborted, turn, counted, numTurns>>
  BY DEF RefuseCall
<1>2. a = Parent => \A c \in Children : pc[c] = "idle"
  BY <1>1 DEF RunInv, ParentWaits
<1>3. pc[a] \in InTurn /\ 0 \in 0..1
  BY <1>1 DEF InTurn
<1>4. QED
  BY <1>1, <1>2, <1>3, EndCallKeeps

(* A tool returns or throws.                                               *)
LEMMA EndToolKeeps ==
    ASSUME RunInv, NEW a \in Agents, NEW throws \in BOOLEAN, NEW size \in 0..1,
           EndTool(a, throws, size)
    PROVE  RunInv'
<1>0. /\ RunTypes /\ AtProvider /\ ParentWaits /\ RunOf(a) /\ pc[a] = "tool"
      /\ pc[a] \in InTurn /\ pc[a] \notin Over
      /\ UNCHANGED <<limiters, aborted, turn, counted, numTurns>>
  BY DEF RunInv, EndTool, InTurn, Over
<1>1. a = Parent => \A c \in Children : pc[c] = "idle"
  <2>1. CASE ThisCall(a).kind = "subagents"
    BY <2>1 DEF EndTool
  <2>2. CASE ThisCall(a).kind # "subagents"
    <3>1. ~AtSubagents(LastTurn(a))
      BY <1>0, <2>2, CurrentCall
    <3>2. QED
      BY <1>0, <3>1 DEF ParentWaits
  <2>3. QED
    BY <2>1, <2>2
<1>2. CASE Finish(a, Outcome) /\ UNCHANGED <<history, large, called>>
  <2>1. /\ \A b \in Agents : b # a => pc'[b] = pc[b] /\ Still(b)
        /\ pc'[a] = "finished" /\ stop'[a] = Outcome' /\ finishes'[a] = finishes[a] + 1
        /\ aborted' \in {"no", "cancelled", "timeout"}
    BY <1>0, <1>2 DEF RunTypes, Finish, Goto, Outcome, turn, Still, RunOf, HistoryOf
  <2>2. RunTypes'
    BY <1>0, <1>2 DEF RunTypes, Finish, Goto, Outcome, limiters, turn, Places, Reasons
  <2>3. AtProvider'
    BY <1>0, <2>1, ProviderStays DEF limiters
  <2>4. ParentWaits'
    BY <1>0, <1>1, <1>2, <2>1, ParentStays
  <2>5. \A b \in Agents : b # a => RunOf(b)'
    BY <1>0, <2>1, RunStays DEF RunInv
  <2>6. RunOf(a)'
    BY <1>0, <1>2, <2>1, RunEnds
  <2>7. QED
    BY <2>2, <2>3, <2>4, <2>5, <2>6 DEF RunInv
<1>3. CASE EndCall(a, size)
  BY <1>0, <1>1, <1>3, EndCallKeeps
<1>4. QED
  BY <1>2, <1>3 DEF EndTool

-----------------------------------------------------------------------------
(* A step that moves only the limiters keeps what it leaves alone.         *)
LEMMA OnlyLimiters ==
    ASSUME RunInv, UNCHANGED <<aborted, pc, turn, session, ending>>,
           holders' \in [LimiterKeys -> SUBSET (Agents \cup Others)],
           line' \in [LimiterKeys -> Seq(Agents \cup Others)], AtProvider'
    PROVE  RunInv'
<1>0. RunTypes /\ ParentWaits /\ \A a \in Agents : RunOf(a)
  BY DEF RunInv
<1>1. RunTypes'
  BY <1>0 DEF RunTypes, turn, session, ending
<1>2. ParentWaits'
  BY <1>0 DEF ParentWaits, LastTurn, session
<1>3. \A a \in Agents : Still(a) /\ pc'[a] = pc[a]
  BY DEF Still, turn, session, ending
<1>4. \A a \in Agents : RunOf(a)'
  BY <1>0, <1>3, RunStays
<1>5. QED
  BY <1>1, <1>2, <1>4 DEF RunInv

(* A child is let in at the limiter of subagents, or waits.                *)
LEMMA AdmitKeeps ==
    ASSUME RunInv, NEW c \in Children, Admit(c)
    PROVE  RunInv'
<1>1. /\ Limiter!Enter("subagents", c) \/ Limiter!Wait("subagents", c)
      /\ UNCHANGED <<aborted, pc, turn, session, ending>>
  BY DEF Admit
<1>2. RunTypes /\ AtProvider /\ c \in Agents \cup Others
  BY Constants DEF RunInv
<1>3. /\ holders'["provider"] = holders["provider"]
      /\ line'["provider"] = line["provider"]
      /\ holders' \in [LimiterKeys -> SUBSET (Agents \cup Others)]
      /\ line' \in [LimiterKeys -> Seq(Agents \cup Others)]
  BY <1>1, <1>2, SubagentsMoved
<1>4. AtProvider'
  BY <1>1, <1>2, <1>3, ProviderStays
<1>5. QED
  BY <1>1, <1>3, <1>4, OnlyLimiters

(* A child starts, with a session of its own.                              *)
LEMMA StartChildKeeps ==
    ASSUME RunInv, NEW c \in Children, StartChild(c)
    PROVE  RunInv'
<1>0. /\ RunTypes /\ AtProvider /\ ParentWaits /\ c \in Agents /\ c # Parent
      /\ RunOf(c) /\ pc[c] = "admit" /\ pc' = [pc EXCEPT ![c] = "setup"]
      /\ UNCHANGED <<limiters, aborted, turn>>
  BY Constants DEF RunInv, StartChild, Goto
<1>1. /\ history' = [history EXCEPT ![c] = <<>>]
      /\ counted' = [counted EXCEPT ![c] = [k \in CountedKinds |-> 0]]
      /\ large' = [large EXCEPT ![c] = 0]
      /\ numTurns' = [numTurns EXCEPT ![c] = 0]
      /\ called' = [called EXCEPT ![c] = 0]
      /\ stop' = [stop EXCEPT ![c] = "none"]
      /\ finishes' = [finishes EXCEPT ![c] = 0]
  BY DEF StartChild
<1>2. /\ \A b \in Agents : b # c => pc'[b] = pc[b] /\ Still(b)
      /\ pc'[c] = "setup"
  BY <1>0, <1>1 DEF RunTypes, Still, turn
<1>3. RunTypes'
  <2>1. pc' \in [Agents -> Places]
    BY <1>0 DEF RunTypes, Places
  <2>2. history' \in [Agents -> Histories]
    BY <1>0, <1>1, NoCalls DEF RunTypes
  <2>3. counted' \in [Agents -> [CountedKinds -> Nat]]
    BY <1>0, <1>1 DEF RunTypes
  <2>4. /\ large' \in [Agents -> Nat] /\ numTurns' \in [Agents -> Nat]
        /\ called' \in [Agents -> Nat] /\ finishes' \in [Agents -> Nat]
    BY <1>0, <1>1 DEF RunTypes
  <2>5. stop' \in [Agents -> Reasons]
    BY <1>0, <1>1 DEF RunTypes, Reasons
  <2>6. QED
    BY <1>0, <2>1, <2>2, <2>3, <2>4, <2>5 DEF RunTypes, limiters, turn
<1>4. AtProvider'
  BY <1>0, <1>2, ProviderStays DEF limiters
<1>5. ParentWaits'
  BY <1>0, <1>2, ParentStays DEF Still
<1>6. \A b \in Agents : b # c => RunOf(b)'
  BY <1>0, <1>2, RunStays DEF RunInv
<1>7. RunOf(c)'
  <2>1. /\ history'[c] = <<>> /\ large'[c] = 0 /\ numTurns'[c] = 0 /\ called'[c] = 0
        /\ stop'[c] = "none" /\ finishes'[c] = 0
        /\ \A k \in CountedKinds : counted'[c][k] = 0
    BY <1>0, <1>1 DEF RunTypes
  <2>2. HistoryOf(c)'
    BY <1>0, <1>2, <2>1 DEF RunOf, HistoryOf, LacksResult, InTurn, turn
  <2>3. EndOf(c)'
    BY <1>2, <2>1 DEF EndOf
  <2>4. Due(c)' = 0
    BY <1>2 DEF Due, InTurn
  <2>5. BudgetOf(c)'
    <3>1. PICK turns : turns = history'[c]
      OBVIOUS
    <3>2. /\ CallsIn(turns) = {} /\ StartedIn(turns) = {}
          /\ \A k : OfKindIn(turns, k) = {}
      BY <2>1, <3>1, NoCalls
    <3>3. /\ Cardinality(CallsIn(turns)) = 0 /\ Cardinality(StartedIn(turns)) = 0
          /\ \A k : /\ Cardinality(OfKindIn(turns, k)) = 0
                   /\ Cardinality(StartedIn(turns) \cap OfKindIn(turns, k)) = 0
      BY <3>2, NoCalls
    <3>4. /\ MaxTurns[c] \in Nat \ {0} /\ MaxToolCalls \in Nat /\ MaxLarge \in Nat
          /\ \A k \in CountedKinds : MaxKind[k] \in Nat
      BY <1>0, Constants
    <3>5. QED
      BY <2>1, <2>4, <3>1, <3>3, <3>4 DEF BudgetOf
  <2>6. QED
    BY <2>2, <2>3, <2>5 DEF RunOf
<1>8. QED
  BY <1>3, <1>4, <1>5, <1>6, <1>7 DEF RunInv

(* A child is over, or was turned away.                                    *)
LEMMA EndChildKeeps ==
    ASSUME RunInv, NEW c \in Children, EndChild(c)
    PROVE  RunInv'
<1>0. /\ RunTypes /\ AtProvider /\ ParentWaits /\ c \in Agents /\ c # Parent
      /\ RunOf(c) /\ pc[c] \in {"admit", "finished"} /\ pc' = [pc EXCEPT ![c] = "idle"]
      /\ Limiter!Leave("subagents", c) \/ UNCHANGED limiters
      /\ UNCHANGED <<aborted, turn, session, ending>>
  BY Constants DEF RunInv, EndChild, Goto
<1>1. /\ \A b \in Agents : b # c => pc'[b] = pc[b]
      /\ \A b \in Agents : Still(b)
      /\ pc'[c] = "idle" /\ pc' \in [Agents -> Places]
  BY <1>0 DEF RunTypes, Still, turn, session, ending, Places
<1>2. /\ holders'["provider"] = holders["provider"]
      /\ line'["provider"] = line["provider"]
      /\ holders' \in [LimiterKeys -> SUBSET (Agents \cup Others)]
      /\ line' \in [LimiterKeys -> Seq(Agents \cup Others)]
  <2>1. CASE Limiter!Leave("subagents", c)
    BY <1>0, <2>1, SubagentsMoved
  <2>2. CASE UNCHANGED limiters
    BY <1>0, <2>2 DEF limiters, RunTypes
  <2>3. QED
    BY <1>0, <2>1, <2>2
<1>3. RunTypes'
  BY <1>0, <1>1, <1>2 DEF RunTypes, turn, session, ending
<1>4. AtProvider'
  BY <1>0, <1>1, <1>2, ProviderStays
<1>5. ParentWaits'
  BY <1>0, <1>1, ParentStays DEF Still
<1>6. \A b \in Agents : b # c => RunOf(b)'
  BY <1>0, <1>1, RunStays DEF RunInv
<1>7. RunOf(c)'
  <2>1. HistoryOf(c)'
    BY <1>0, <1>1 DEF RunOf, HistoryOf, Over, InTurn, Still
  <2>2. EndOf(c)'
    BY <1>1 DEF EndOf, Over
  <2>3. BudgetOf(c)'
    BY <1>0, <1>1 DEF RunOf, BudgetOf, Over, Still
  <2>4. QED
    BY <2>1, <2>2, <2>3 DEF RunOf
<1>8. QED
  BY <1>3, <1>4, <1>5, <1>6, <1>7 DEF RunInv

(* The signal: the runs that wait for the provider end, the others learn   *)
(* of it when they ask.                                                    *)
LEMMA AbortKeeps ==
    ASSUME RunInv, NEW reason \in {"cancelled", "timeout"}, Abort(reason)
    PROVE  RunInv'
<1>. DEFINE Away(a) == pc[a] = "queued" /\ a \notin holders["provider"]
<1>0. /\ RunTypes /\ AtProvider /\ ParentWaits /\ aborted = "no" /\ aborted' = reason
      /\ line' = [k \in LimiterKeys |-> Kept(line[k], Others)]
      /\ UNCHANGED <<holders, turn, session>>
  BY DEF RunInv, Abort
<1>1. /\ pc' = [a \in Agents |-> IF Away(a) THEN "finished" ELSE pc[a]]
      /\ stop' = [a \in Agents |-> IF Away(a) THEN reason ELSE stop[a]]
      /\ finishes' = [a \in Agents |-> IF Away(a) THEN finishes[a] + 1 ELSE finishes[a]]
  BY DEF Abort
<1>2. \A k \in LimiterKeys :
         /\ line'[k] \in Seq(Agents \cup Others)
         /\ ToSet(line'[k]) = ToSet(line[k]) \cap Others
         /\ NoRepeats(line[k]) => NoRepeats(line'[k])
  <2>1. SUFFICES ASSUME NEW k \in LimiterKeys
                 PROVE  /\ line'[k] \in Seq(Agents \cup Others)
                        /\ ToSet(line'[k]) = ToSet(line[k]) \cap Others
                        /\ NoRepeats(line[k]) => NoRepeats(line'[k])
    OBVIOUS
  <2>2. PICK q \in Seq(Agents \cup Others) : q = line[k]
    BY <1>0 DEF RunTypes
  <2>3. line'[k] = Kept(q, Others)
    BY <1>0, <2>2
  <2>4. /\ Kept(q, Others) \in Seq(Agents \cup Others)
        /\ ToSet(Kept(q, Others)) = ToSet(q) \cap Others
        /\ NoRepeats(q) => NoRepeats(Kept(q, Others))
    BY KeptSet
  <2>5. QED
    BY <2>2, <2>3, <2>4
<1>3. RunTypes'
  <2>1. pc' \in [Agents -> Places]
    BY <1>0, <1>1 DEF RunTypes, Places
  <2>2. stop' \in [Agents -> Reasons]
    BY <1>0, <1>1 DEF RunTypes, Reasons
  <2>3. finishes' \in [Agents -> Nat]
    BY <1>0, <1>1 DEF RunTypes
  <2>4. line' \in [LimiterKeys -> Seq(Agents \cup Others)]
    BY <1>0, <1>2
  <2>5. aborted' \in {"no", "cancelled", "timeout"}
    BY <1>0
  <2>6. QED
    BY <1>0, <2>1, <2>2, <2>3, <2>4, <2>5 DEF RunTypes, turn, session
<1>4. AtProvider'
  <2>1. "provider" \in LimiterKeys /\ Others \cap Agents = {}
    BY Constants
  <2>2. /\ NoRepeats(line'["provider"])
        /\ ToSet(line'["provider"]) = ToSet(line["provider"]) \cap Others
    BY <1>0, <1>2, <2>1 DEF AtProvider
  <2>3. QED
    BY <1>0, <1>1, <2>1, <2>2 DEF AtProvider
<1>5. ParentWaits'
  <2>1. Parent \in Agents /\ Children \subseteq Agents
    BY Constants
  <2>2. LastTurn(Parent)' = LastTurn(Parent)
    BY <1>0 DEF LastTurn, session
  <2>3. QED
    BY <1>0, <1>1, <2>1, <2>2 DEF ParentWaits
<1>6. ASSUME NEW a \in Agents
      PROVE  RunOf(a)'
  <2>0. /\ RunOf(a) /\ history'[a] = history[a] /\ visible'[a] = visible[a]
        /\ counted'[a] = counted[a] /\ large'[a] = large[a]
        /\ numTurns'[a] = numTurns[a] /\ called'[a] = called[a]
    BY <1>0 DEF RunInv, turn, session
  <2>1. CASE Away(a)
    <3>1. /\ pc'[a] = "finished" /\ stop'[a] = Outcome' /\ finishes'[a] = finishes[a] + 1
          /\ pc[a] \notin Over
      BY <1>0, <1>1, <2>1 DEF Outcome, Over
    <3>2. QED
      BY <1>0, <2>0, <3>1, RunEnds
  <2>2. CASE ~Away(a)
    <3>1. pc'[a] = pc[a] /\ stop'[a] = stop[a] /\ finishes'[a] = finishes[a]
      BY <1>1, <2>2
    <3>2. HistoryOf(a)'
      BY <1>0, <2>0, <3>1 DEF RunOf, HistoryOf, Over, InTurn
    <3>3. EndOf(a)'
      BY <1>0, <2>0, <3>1 DEF RunOf, EndOf, Over, LastTurn
    <3>4. Due(a)' = Due(a)
      BY <2>0, <3>1 DEF Due, LastTurn, InTurn
    <3>5. BudgetOf(a)'
      BY <2>0, <3>1, <3>4 DEF RunOf, BudgetOf, Over
    <3>6. QED
      BY <3>2, <3>3, <3>5 DEF RunOf
  <2>3. QED
    BY <2>1, <2>2
<1>7. QED
  BY <1>3, <1>4, <1>5, <1>6 DEF RunInv

(* Another run of the process comes to the provider, or leaves it.         *)
LEMMA OthersKeep ==
    ASSUME RunInv, NEW o \in Others, OtherCalls(o) \/ OtherReturns(o)
    PROVE  RunInv'
<1>0. /\ RunTypes /\ AtProvider /\ o \notin Agents
      /\ UNCHANGED <<aborted, pc, turn, session, ending>>
  BY Constants DEF RunInv, OtherCalls, OtherReturns
<1>1. /\ AtProvider'
      /\ holders' \in [LimiterKeys -> SUBSET (Agents \cup Others)]
      /\ line' \in [LimiterKeys -> Seq(Agents \cup Others)]
  <2>1. CASE OtherCalls(o)
    BY <1>0, <2>1, ProviderEntered DEF OtherCalls
  <2>2. CASE OtherReturns(o)
    BY <1>0, <2>2, ProviderLeft DEF OtherReturns
  <2>3. QED
    BY <2>1, <2>2
<1>2. QED
  BY <1>0, <1>1, OnlyLimiters

-----------------------------------------------------------------------------
(* Before the first step.                                                  *)
LEMMA InitKeeps == Init => RunInv
<1>. SUFFICES ASSUME Init PROVE RunInv
  OBVIOUS
<1>0. /\ holders = [k \in LimiterKeys |-> {}] /\ line = [k \in LimiterKeys |-> <<>>]
      /\ aborted = "no"
      /\ pc = [a \in Agents |-> IF a = Parent THEN "setup" ELSE "idle"]
  BY DEF Init, Limiter!SemaphoreInit
<1>1. RunTypes
  <2>1. pc \in [Agents -> Places] /\ stop \in [Agents -> Reasons]
    BY <1>0 DEF Init, Places, Reasons
  <2>2. attempt \in [Agents -> 0..MaxRetries]
    BY Constants DEF Init
  <2>3. history \in [Agents -> Histories]
    BY NoCalls DEF Init
  <2>4. holders \in [LimiterKeys -> SUBSET (Agents \cup Others)] /\ line \in [LimiterKeys -> Seq(Agents \cup Others)]
    BY <1>0
  <2>5. QED
    BY <1>0, <2>1, <2>2, <2>3, <2>4 DEF RunTypes, Init
<1>2. AtProvider
  <2>1. line["provider"] = <<>> /\ holders["provider"] = {}
    BY <1>0, Constants
  <2>2. ToSet(<<>>) = {} /\ NoRepeats(<<>>)
    BY DEF ToSet, NoRepeats
  <2>3. QED
    BY <2>1, <2>2 DEF AtProvider
<1>3. ParentWaits
  BY <1>0, Constants DEF ParentWaits
<1>4. ASSUME NEW a \in Agents PROVE RunOf(a)
  <2>1. /\ history[a] = <<>> /\ large[a] = 0 /\ numTurns[a] = 0 /\ called[a] = 0
        /\ stop[a] = "none" /\ finishes[a] = 0
        /\ \A k \in CountedKinds : counted[a][k] = 0
        /\ pc[a] \in {"setup", "idle"}
    BY <1>0 DEF Init
  <2>2. HistoryOf(a)
    BY <2>1 DEF HistoryOf, LacksResult, InTurn
  <2>3. EndOf(a)
    BY <2>1 DEF EndOf
  <2>4. Due(a) = 0
    BY <2>1 DEF Due, InTurn
  <2>5. BudgetOf(a)
    <3>1. PICK turns : turns = history[a]
      OBVIOUS
    <3>2. /\ CallsIn(turns) = {} /\ StartedIn(turns) = {}
          /\ \A k : OfKindIn(turns, k) = {}
      BY <2>1, <3>1, NoCalls
    <3>3. /\ Cardinality(CallsIn(turns)) = 0 /\ Cardinality(StartedIn(turns)) = 0
          /\ \A k : /\ Cardinality(OfKindIn(turns, k)) = 0
                   /\ Cardinality(StartedIn(turns) \cap OfKindIn(turns, k)) = 0
      BY <3>2, NoCalls
    <3>4. /\ MaxTurns[a] \in Nat \ {0} /\ MaxToolCalls \in Nat /\ MaxLarge \in Nat
          /\ \A k \in CountedKinds : MaxKind[k] \in Nat
      BY <1>0, Constants
    <3>5. /\ Cardinality(StartedIn(history[a])) <= MaxToolCalls
          /\ \A k \in CountedKinds :
               Cardinality(StartedIn(history[a]) \cap OfKindIn(history[a], k)) <= MaxKind[k]
      BY <3>1, <3>3, <3>4
    <3>6. /\ Cardinality(CallsIn(history[a])) = called[a] + Due(a)
          /\ called[a] + Due(a) <= MaxToolCalls
      BY <2>1, <2>4, <3>1, <3>3, <3>4
    <3>7. \A k \in CountedKinds :
            Cardinality(OfKindIn(history[a], k)) = counted[a][k] /\ counted[a][k] <= MaxKind[k]
      BY <2>1, <3>1, <3>3, <3>4
    <3>8. /\ numTurns[a] < MaxTurns[a] /\ numTurns[a] <= MaxTurns[a]
          /\ large[a] <= MaxLarge /\ large[a] <= MaxLarge + 1
      BY <2>1, <3>4
    <3>9. QED
      BY <3>5, <3>6, <3>7, <3>8, Zenon DEF BudgetOf
  <2>6. QED
    BY <2>2, <2>3, <2>5 DEF RunOf
<1>5. QED
  BY <1>1, <1>2, <1>3, <1>4 DEF RunInv

(* Every step of one run.                                                  *)
LEMMA StepKeeps ==
    ASSUME RunInv, NEW a \in Agents, Step(a)
    PROVE  RunInv'
<1>1. CASE SetUp(a)
  BY <1>1, SetUpKeeps
<1>2. CASE BeginTurn(a)
  BY <1>2, BeginTurnKeeps
<1>3. CASE Granted(a)
  BY <1>3, GrantedKeeps
<1>4. CASE Output(a)
  BY <1>4, OutputKeeps
<1>5. CASE Retry(a)
  BY <1>5, RetryKeeps
<1>6. CASE \E error \in Errors : AttemptFails(a, error)
  BY <1>6, AttemptFailsKeeps
<1>7. CASE \E kinds \in Answers[a] : AttemptSucceeds(a, kinds)
  BY <1>7, AttemptSucceedsKeeps
<1>8. CASE StartTool(a)
  BY <1>8, StartToolKeeps
<1>9. CASE RefuseCall(a)
  BY <1>9, RefuseCallKeeps
<1>10. CASE \E throws \in BOOLEAN, size \in 0..1 : EndTool(a, throws, size)
  BY <1>10, EndToolKeeps
<1>11. QED
  BY <1>1, <1>2, <1>3, <1>4, <1>5, <1>6, <1>7, <1>8, <1>9, <1>10 DEF Step

(* The invariant, and with it TypeOK, holds in every state of every        *)
(* behaviour, whatever the order of steps, errors, aborts and other runs.  *)
THEOREM RunInvariant == Spec => []RunInv
<1>1. RunInv /\ [Next]_vars => RunInv'
  <2>. SUFFICES ASSUME RunInv, [Next]_vars PROVE RunInv'
    OBVIOUS
  <2>1. CASE \E a \in Agents : Step(a)
    BY <2>1, StepKeeps
  <2>2. CASE \E c \in Children : ChildStep(c)
    BY <2>2, AdmitKeeps, StartChildKeeps, EndChildKeeps DEF ChildStep
  <2>3. CASE \E reason \in {"cancelled", "timeout"} : Abort(reason)
    BY <2>3, AbortKeeps
  <2>4. CASE \E o \in Others : OtherCalls(o) \/ OtherReturns(o)
    BY <2>4, OthersKeep
  <2>5. CASE UNCHANGED vars
    <3>1. UNCHANGED <<aborted, pc, turn, session, ending>> /\ UNCHANGED limiters
      BY <2>5 DEF vars
    <3>2. /\ AtProvider' /\ holders' \in [LimiterKeys -> SUBSET (Agents \cup Others)]
          /\ line' \in [LimiterKeys -> Seq(Agents \cup Others)]
      BY <3>1 DEF RunInv, AtProvider, RunTypes, limiters
    <3>3. QED
      BY <3>1, <3>2, OnlyLimiters
  <2>6. QED
    BY <2>1, <2>2, <2>3, <2>4, <2>5 DEF Next
<1>2. QED
  BY <1>1, InitKeeps, PTL DEF Spec

(* run_finished comes once, last and with the reason that ended the run,   *)
(* and a run that is finished holds no lease of the provider.              *)
THEOREM RunEndsAsItWent == Spec => []EndsAsItWent
<1>1. RunInv => EndsAsItWent
  <2>. SUFFICES ASSUME RunInv PROVE EndsAsItWent
    OBVIOUS
  <2>1. TypeOK
    <3>1. \A a \in Agents : attempt[a] <= MaxRetries
      BY Constants DEF RunInv, RunTypes
    <3>2. QED
      BY <3>1 DEF RunInv, RunTypes, TypeOK
  <2>2. SUFFICES ASSUME NEW a \in Agents, pc[a] \notin {"idle", "admit"}
                 PROVE  IF pc[a] # "finished" THEN finishes[a] = 0
                        ELSE /\ finishes[a] = 1
                             /\ a \notin holders["provider"]
                             /\ CASE stop[a] \in {"cancelled", "timeout"} -> aborted = stop[a]
                                  [] stop[a] = "end_turn" -> visible[a] => LastTurn(a) = <<>>
                                  [] stop[a] = "budget_exhausted" -> LastTurn(a) # <<>>
                                  [] OTHER -> TRUE
    BY <2>1 DEF EndsAsItWent
  <2>3. EndOf(a) /\ AtProvider
    BY DEF RunInv, RunOf
  <2>4. CASE pc[a] # "finished"
    BY <2>2, <2>3, <2>4 DEF EndOf, Over
  <2>5. CASE pc[a] = "finished"
    <3>1. finishes[a] = 1 /\ a \notin holders["provider"]
      BY <2>3, <2>5 DEF EndOf, AtProvider
    <3>2. CASE stop[a] \in {"cancelled", "timeout"}
      BY <2>3, <2>5, <3>1, <3>2 DEF EndOf
    <3>3. CASE stop[a] = "end_turn"
      BY <2>3, <2>5, <3>1, <3>3 DEF EndOf
    <3>4. CASE stop[a] = "budget_exhausted"
      BY <2>3, <2>5, <3>1, <3>4 DEF EndOf
    <3>5. CASE stop[a] \notin {"cancelled", "timeout", "end_turn", "budget_exhausted"}
      BY <2>5, <3>1, <3>5
    <3>6. QED
      BY <3>2, <3>3, <3>4, <3>5
  <2>6. QED
    BY <2>4, <2>5
<1>2. QED
  BY <1>1, RunInvariant, PTL

(* The model is asked only when every earlier call has its result, and a   *)
(* call that was reported lacks one only in a run ended by its budget.     *)
THEOREM RunHistorySound == Spec => []HistorySound
<1>1. RunInv => HistorySound
  <2>. SUFFICES ASSUME RunInv, NEW a \in Agents
                PROVE  /\ pc[a] \in {"queued", "attempt", "backoff"} =>
                            \A t \in ToSet(history[a]) : \A i \in DOMAIN t : t[i].result
                       /\ \A t \in ToSet(history[a]) : \A i \in DOMAIN t :
                            t[i].ended /\ ~t[i].result => stop[a] = "budget_exhausted"
    BY DEF HistorySound
  <2>1. HistoryOf(a)
    BY DEF RunInv, RunOf
  <2>2. \A t \in ToSet(history[a]) : \E n \in DOMAIN history[a] : t = history[a][n]
    BY DEF ToSet
  <2>3. pc[a] \in {"queued", "attempt", "backoff"} =>
          \A t \in ToSet(history[a]) : \A i \in DOMAIN t : t[i].result
    BY <2>1, <2>2 DEF HistoryOf, Answered
  <2>4. \A t \in ToSet(history[a]) : \A i \in DOMAIN t :
          t[i].ended /\ ~t[i].result => stop[a] = "budget_exhausted"
    BY <2>1, <2>2 DEF HistoryOf, LacksResult
  <2>5. QED
    BY <2>1, <2>3, <2>4 DEF HistoryOf
<1>2. QED
  BY <1>1, RunInvariant, PTL

(* However many turns and children there are, no run starts more calls     *)
(* than its budgets allow or asks for more turns.                          *)
THEOREM RunBudgetsKept == Spec => []BudgetsKept
<1>1. RunInv => BudgetsKept
  BY DEF RunInv, RunOf, BudgetOf, BudgetsKept
<1>2. QED
  BY <1>1, RunInvariant, PTL

-----------------------------------------------------------------------------
(***************************************************************************)
(* Proofs about KeyedLimiter, for every set of keys, calls and places: its *)
(* counters are exact, its Map is never stale, no place is lost, and it    *)
(* implements FifoSemaphore.                                               *)
(*                                                                         *)
(* The inductive invariant is PerKey for every key, together with typing.  *)
(* Neither the counter nor the list alone is inductive: the hand-over of a *)
(* lease needs the waiters to be exactly the pending calls, the deletion   *)
(* of a state needs the counter to be exact, and a new state needs the     *)
(* deleted one to have had nobody.                                         *)
(***************************************************************************)


Pending(k) == {c \in Clients : ClientKey[c] = k /\ lease[c] = "waiting"}

PerKey(k) ==
    /\ IsFiniteSet(Held(k))
    /\ active[k] = Cardinality(Held(k))
    /\ active[k] <= Concurrency
    /\ k \notin states => Held(k) = {} /\ waiters[k] = <<>>
    /\ ToSet(waiters[k]) = Pending(k)
    /\ NoRepeats(waiters[k])
    /\ waiters[k] # <<>> => active[k] = Concurrency

LimiterInv == LimiterTypeOK /\ \A k \in Keys : PerKey(k)

-----------------------------------------------------------------------------
(* The operators the abstract module uses are the usual ones.              *)
LEMMA SameOperators ==
    /\ \A S : Semaphore!Cardinality(S) = Cardinality(S)
    /\ \A q, i : Semaphore!RemoveAt(q, i) = RemoveAt(q, i)
BY DEF Semaphore!Cardinality, Cardinality, Semaphore!RemoveAt, RemoveAt

LEMMA LimiterInitInv == LimiterInit => LimiterInv
<1>. SUFFICES ASSUME LimiterInit PROVE LimiterInv
  OBVIOUS
<1>1. LimiterTypeOK
  BY DEF LimiterInit, LimiterTypeOK, Leases
<1>2. ASSUME NEW k \in Keys PROVE PerKey(k)
  <2>1. /\ Held(k) = {} /\ Pending(k) = {} /\ active[k] = 0 /\ waiters[k] = <<>>
    BY DEF LimiterInit, Held, Pending
  <2>2. ToSet(waiters[k]) = {} /\ NoRepeats(waiters[k])
    BY <2>1 DEF ToSet, NoRepeats
  <2>3. QED
    BY <2>1, <2>2, FS_EmptySet, LimiterAssumption DEF PerKey
<1>3. QED
  BY <1>1, <1>2 DEF LimiterInv

(* A step that touches one client touches nothing of the other keys.       *)
LEMMA OtherKey ==
    ASSUME LimiterInv, NEW k \in Keys, NEW m \in Keys, m # k,
           \A d \in Clients : ClientKey[d] = m => lease'[d] = lease[d],
           active'[m] = active[m], waiters'[m] = waiters[m],
           m \in states => m \in states'
    PROVE  PerKey(m)' /\ Held(m)' = Held(m)
<1>1. Held(m)' = Held(m) /\ Pending(m)' = Pending(m)
  BY DEF Held, Pending
<1>2. PerKey(m)
  BY DEF LimiterInv
<1>3. QED
  BY <1>1, <1>2 DEF PerKey

(* acquire() finds the counter and the list of the key, in the Map or not. *)
LEMMA StateFound ==
    ASSUME LimiterInv, NEW k \in Keys
    PROVE  /\ (IF k \in states THEN active[k] ELSE 0) = active[k]
           /\ (IF k \in states THEN waiters[k] ELSE <<>>) = waiters[k]
<1>1. k \notin states => active[k] = 0 /\ waiters[k] = <<>>
  BY FS_EmptySet DEF LimiterInv, PerKey
<1>2. QED
  BY <1>1

LEMMA AcquireStep ==
    ASSUME LimiterInv, NEW c \in Clients, Acquire(c)
    PROVE  /\ LimiterInv'
           /\ Semaphore!Enter(ClientKey[c], c) \/ Semaphore!Wait(ClientKey[c], c)
<1>. DEFINE k == ClientKey[c]
<1>. USE LimiterAssumption
<1>1. /\ k \in Keys /\ lease[c] \in {"none", "released"}
      /\ states' = states \cup {k}
      /\ active \in [Keys -> Nat] /\ waiters \in [Keys -> Seq(Clients)]
      /\ lease \in [Clients -> Leases] /\ states \in SUBSET Keys
      /\ waiters[k] \in Seq(Clients) /\ active[k] \in Nat
      /\ PerKey(k)
  BY DEF Acquire, LimiterInv, LimiterTypeOK
<1>2. CASE /\ active[k] < Concurrency
           /\ active' = [active EXCEPT ![k] = active[k] + 1]
           /\ waiters' = [waiters EXCEPT ![k] = waiters[k]]
           /\ lease' = [lease EXCEPT ![c] = "held"]
  <2>1. LimiterTypeOK'
    BY <1>1, <1>2 DEF LimiterTypeOK, Leases
  <2>2. /\ Held(k)' = Held(k) \cup {c} /\ Pending(k)' = Pending(k) /\ c \notin Held(k)
    BY <1>1, <1>2 DEF Held, Pending, Leases
  <2>3. waiters[k] = <<>> /\ waiters' = waiters
    BY <1>1, <1>2 DEF PerKey
  <2>4. IsFiniteSet(Held(k)') /\ Cardinality(Held(k)') = Cardinality(Held(k)) + 1
    <3>1. IsFiniteSet(Held(k))
      BY <1>1 DEF PerKey
    <3>2. QED
      BY <2>2, <3>1, FS_AddElement
  <2>5. active'[k] = active[k] + 1 /\ active'[k] <= Concurrency
    BY <1>1, <1>2
  <2>6. PerKey(k)'
    BY <1>1, <2>2, <2>3, <2>4, <2>5 DEF PerKey
  <2>7. ASSUME NEW m \in Keys, m # k
        PROVE  PerKey(m)' /\ Held(m)' = Held(m)
    BY <2>7, <1>1, <1>2, OtherKey
  <2>8. [m \in Keys |-> Held(m)'] = [[m \in Keys |-> Held(m)] EXCEPT ![k] = @ \cup {c}]
    BY <1>1, <2>2, <2>7
  <2>9. Semaphore!Enter(k, c)
    BY <1>1, <1>2, <2>3, <2>8, SameOperators DEF Semaphore!Enter, PerKey
  <2>10. QED
    BY <2>1, <2>6, <2>7, <2>9 DEF LimiterInv
<1>3. CASE /\ active[k] >= Concurrency
           /\ active' = [active EXCEPT ![k] = active[k]]
           /\ waiters' = [waiters EXCEPT ![k] = Append(waiters[k], c)]
           /\ lease' = [lease EXCEPT ![c] = "waiting"]
  <2>1. /\ Append(waiters[k], c) \in Seq(Clients)
        /\ Append(waiters[k], c) # <<>>
        /\ waiters'[k] = Append(waiters[k], c)
    BY <1>1, <1>3, AppendProperties
  <2>2. LimiterTypeOK'
    BY <1>1, <1>3, <2>1 DEF LimiterTypeOK, Leases
  <2>3. /\ Held(k)' = Held(k) /\ Pending(k)' = Pending(k) \cup {c} /\ c \notin Pending(k)
    BY <1>1, <1>3 DEF Held, Pending, Leases
  <2>4. ToSet(waiters'[k]) = Pending(k)' /\ NoRepeats(waiters'[k])
    BY <1>1, <2>1, <2>3, AppendSet DEF PerKey
  <2>5. active'[k] = active[k] /\ active[k] = Concurrency
    BY <1>1, <1>3 DEF PerKey
  <2>6. PerKey(k)'
    BY <1>1, <2>3, <2>4, <2>5 DEF PerKey
  <2>7. ASSUME NEW m \in Keys, m # k
        PROVE  PerKey(m)' /\ Held(m)' = Held(m)
    BY <2>7, <1>1, <1>3, OtherKey
  <2>8. [m \in Keys |-> Held(m)'] = [m \in Keys |-> Held(m)]
    BY <2>3, <2>7
  <2>9. Semaphore!Wait(k, c)
    BY <1>1, <1>3, <2>5, <2>8, SameOperators DEF Semaphore!Wait, PerKey
  <2>10. QED
    BY <2>2, <2>6, <2>7, <2>9 DEF LimiterInv
<1>4. QED
  BY <1>1, <1>2, <1>3, StateFound DEF Acquire

LEMMA AbortStep ==
    ASSUME LimiterInv, NEW c \in Clients, AbortWait(c)
    PROVE  LimiterInv' /\ Semaphore!GiveUp(ClientKey[c], c)
<1>. DEFINE k == ClientKey[c]
<1>. USE LimiterAssumption
<1>1. /\ k \in Keys
      /\ active \in [Keys -> Nat] /\ waiters \in [Keys -> Seq(Clients)]
      /\ lease \in [Clients -> Leases] /\ states \in SUBSET Keys
      /\ waiters[k] \in Seq(Clients) /\ active[k] \in Nat
      /\ PerKey(k)
  BY DEF LimiterInv, LimiterTypeOK
<1>2. PICK i \in DOMAIN waiters[k] :
        /\ waiters[k][i] = c
        /\ waiters' = [waiters EXCEPT ![k] = RemoveAt(@, i)]
  BY DEF AbortWait
<1>3. /\ i \in 1..Len(waiters[k])
      /\ waiters'[k] = RemoveAt(waiters[k], i)
      /\ waiters'[k] \in Seq(Clients)
      /\ lease' = [lease EXCEPT ![c] = "none"] /\ active' = active
      /\ c \in Pending(k)
  BY <1>1, <1>2, LenProperties, RemoveAtProperties DEF AbortWait, ToSet, PerKey
<1>4. /\ ToSet(waiters'[k]) = ToSet(waiters[k]) \ {c}
      /\ NoRepeats(waiters'[k])
  BY <1>1, <1>2, <1>3, RemoveAtSet DEF PerKey
<1>5. waiters[k] # <<>> /\ active[k] = Concurrency
  BY <1>1, <1>3, EmptySeq DEF PerKey
<1>6. states' = states
  BY <1>1, <1>5 DEF AbortWait
<1>7. LimiterTypeOK'
  BY <1>1, <1>2, <1>3, <1>6 DEF LimiterTypeOK, Leases
<1>8. Held(k)' = Held(k) /\ Pending(k)' = Pending(k) \ {c}
  BY <1>1, <1>3 DEF Held, Pending, Leases
<1>9. k \in states
  BY <1>1, <1>5 DEF PerKey
<1>10. PerKey(k)'
  BY <1>1, <1>3, <1>4, <1>5, <1>6, <1>8, <1>9 DEF PerKey
<1>11. ASSUME NEW m \in Keys, m # k
       PROVE  PerKey(m)' /\ Held(m)' = Held(m)
  BY <1>11, <1>1, <1>2, <1>3, <1>6, OtherKey
<1>12. [m \in Keys |-> Held(m)'] = [m \in Keys |-> Held(m)]
  BY <1>8, <1>11
<1>13. Semaphore!GiveUp(k, c)
  BY <1>2, <1>12, SameOperators DEF Semaphore!GiveUp
<1>14. QED
  BY <1>7, <1>10, <1>11, <1>13 DEF LimiterInv

(* release() of a lease that is out, with somebody waiting.                *)
LEMMA HandOverStep ==
    ASSUME LimiterInv, NEW c \in Clients, Release(c),
           lease[c] = "held", waiters[ClientKey[c]] # <<>>
    PROVE  LimiterInv' /\ Semaphore!Leave(ClientKey[c], c)
<1>. DEFINE k == ClientKey[c]
            h == Head(waiters[k])
<1>. USE LimiterAssumption
<1>1. /\ k \in Keys
      /\ active \in [Keys -> Nat] /\ waiters \in [Keys -> Seq(Clients)]
      /\ lease \in [Clients -> Leases] /\ states \in SUBSET Keys
      /\ waiters[k] \in Seq(Clients) /\ active[k] \in Nat
      /\ PerKey(k)
  BY DEF LimiterInv, LimiterTypeOK
<1>2. /\ lease' = [lease EXCEPT ![c] = "released", ![h] = "held"]
      /\ waiters' = [waiters EXCEPT ![k] = Tail(waiters[k])]
      /\ states' = states /\ active' = active
  BY DEF Release
<1>3. /\ h \in ToSet(waiters[k])
      /\ Tail(waiters[k]) \in Seq(Clients)
      /\ ToSet(Tail(waiters[k])) = ToSet(waiters[k]) \ {h}
      /\ NoRepeats(Tail(waiters[k]))
  BY <1>1, TailSet DEF PerKey
<1>4. h \in Clients /\ ClientKey[h] = k /\ lease[h] = "waiting" /\ h # c
  BY <1>1, <1>3 DEF PerKey, Pending
<1>. HIDE DEF h
<1>5. LimiterTypeOK'
  BY <1>1, <1>2, <1>3, <1>4 DEF LimiterTypeOK, Leases
<1>6. /\ Held(k)' = (Held(k) \ {c}) \cup {h}
      /\ Pending(k)' = Pending(k) \ {h}
      /\ c \in Held(k) /\ h \notin Held(k)
  BY <1>1, <1>2, <1>4 DEF Held, Pending, Leases
<1>7. IsFiniteSet(Held(k)') /\ Cardinality(Held(k)') = Cardinality(Held(k))
  <2>1. IsFiniteSet(Held(k)) /\ Cardinality(Held(k)) \in Nat
    BY <1>1, FS_CardinalityType DEF PerKey
  <2>2. /\ IsFiniteSet(Held(k) \ {c})
        /\ Cardinality(Held(k) \ {c}) = Cardinality(Held(k)) - 1
    BY <2>1, <1>6, FS_RemoveElement
  <2>3. /\ IsFiniteSet((Held(k) \ {c}) \cup {h})
        /\ Cardinality((Held(k) \ {c}) \cup {h}) = Cardinality(Held(k) \ {c}) + 1
    BY <2>2, <1>6, FS_AddElement
  <2>4. QED
    BY <2>1, <2>2, <2>3, <1>6
<1>8. waiters'[k] = Tail(waiters[k]) /\ active[k] = Concurrency /\ k \in states
  BY <1>1, <1>2 DEF PerKey
<1>9. PerKey(k)'
  BY <1>1, <1>2, <1>3, <1>6, <1>7, <1>8 DEF PerKey
<1>10. ASSUME NEW m \in Keys, m # k
       PROVE  PerKey(m)' /\ Held(m)' = Held(m)
  BY <1>10, <1>1, <1>2, <1>4, OtherKey
<1>11. [m \in Keys |-> Held(m)'] =
         [[m \in Keys |-> Held(m)] EXCEPT ![k] = (@ \ {c}) \cup {h}]
  BY <1>1, <1>6, <1>10
<1>12. Semaphore!Leave(k, c)
  BY <1>1, <1>2, <1>6, <1>11 DEF Semaphore!Leave, h
<1>13. QED
  BY <1>5, <1>9, <1>10, <1>12 DEF LimiterInv

(* release() of a lease that is out, with nobody waiting.                  *)
LEMMA GiveBackStep ==
    ASSUME LimiterInv, NEW c \in Clients, Release(c),
           lease[c] = "held", waiters[ClientKey[c]] = <<>>
    PROVE  LimiterInv' /\ Semaphore!Leave(ClientKey[c], c)
<1>. DEFINE k == ClientKey[c]
<1>. USE LimiterAssumption
<1>1. /\ k \in Keys
      /\ active \in [Keys -> Nat] /\ waiters \in [Keys -> Seq(Clients)]
      /\ lease \in [Clients -> Leases] /\ states \in SUBSET Keys
      /\ active[k] \in Nat
      /\ PerKey(k)
  BY DEF LimiterInv, LimiterTypeOK
<1>2. /\ lease' = [lease EXCEPT ![c] = "released"]
      /\ active' = [active EXCEPT ![k] = active[k] - 1]
      /\ states' = IF active'[k] = 0 THEN states \ {k} ELSE states
      /\ waiters' = waiters
  BY DEF Release
<1>3. /\ Held(k)' = Held(k) \ {c} /\ Pending(k)' = Pending(k) /\ c \in Held(k)
  BY <1>1, <1>2 DEF Held, Pending, Leases
<1>4. /\ IsFiniteSet(Held(k)')
      /\ Cardinality(Held(k)') = active[k] - 1
      /\ Cardinality(Held(k)') \in Nat
  <2>1. IsFiniteSet(Held(k)) /\ active[k] = Cardinality(Held(k))
    BY <1>1 DEF PerKey
  <2>2. IsFiniteSet(Held(k) \ {c}) /\ Cardinality(Held(k) \ {c}) = Cardinality(Held(k)) - 1
    BY <2>1, <1>3, FS_RemoveElement
  <2>3. QED
    BY <2>1, <2>2, <1>3, FS_CardinalityType
<1>5. active'[k] = active[k] - 1 /\ active'[k] \in Nat /\ active'[k] <= Concurrency
  BY <1>1, <1>2, <1>4 DEF PerKey
<1>6. LimiterTypeOK'
  BY <1>1, <1>2, <1>5 DEF LimiterTypeOK, LimiterInv, Leases
<1>7. k \in states
  BY <1>1, <1>3 DEF PerKey
<1>8. k \notin states' => Held(k)' = {}
  BY <1>2, <1>4, <1>5, <1>7, FS_EmptySet
<1>9. PerKey(k)'
  BY <1>1, <1>2, <1>3, <1>4, <1>5, <1>8 DEF PerKey
<1>10. ASSUME NEW m \in Keys, m # k
       PROVE  PerKey(m)' /\ Held(m)' = Held(m)
  BY <1>10, <1>1, <1>2, OtherKey
<1>11. [m \in Keys |-> Held(m)'] = [[m \in Keys |-> Held(m)] EXCEPT ![k] = @ \ {c}]
  BY <1>1, <1>3, <1>10
<1>12. Semaphore!Leave(k, c)
  BY <1>1, <1>2, <1>3, <1>11 DEF Semaphore!Leave
<1>13. QED
  BY <1>6, <1>9, <1>10, <1>12 DEF LimiterInv

LEMMA LimiterStutter ==
    ASSUME LimiterInv, UNCHANGED limiterVars
    PROVE  LimiterInv' /\ UNCHANGED Semaphore!svars
BY DEF limiterVars, LimiterInv, LimiterTypeOK, PerKey, Held, Pending, Semaphore!svars

(* Every step keeps the invariant and is a step of the semaphores.         *)
LEMMA LimiterStep ==
    LimiterInv /\ [LimiterNext]_limiterVars
        => LimiterInv' /\ [Semaphore!SemaphoreNext]_Semaphore!svars
<1>. SUFFICES ASSUME LimiterInv, [LimiterNext]_limiterVars
              PROVE  LimiterInv' /\ [Semaphore!SemaphoreNext]_Semaphore!svars
  OBVIOUS
<1>1. \A c \in Clients : ClientKey[c] \in Keys
  BY LimiterAssumption
<1>2. ASSUME NEW c \in Clients, Acquire(c)
      PROVE  LimiterInv' /\ Semaphore!SemaphoreNext
  BY <1>1, <1>2, AcquireStep DEF Semaphore!SemaphoreNext
<1>3. ASSUME NEW c \in Clients, AbortWait(c)
      PROVE  LimiterInv' /\ Semaphore!SemaphoreNext
  BY <1>1, <1>3, AbortStep DEF Semaphore!SemaphoreNext
<1>4. ASSUME NEW c \in Clients, Release(c)
      PROVE  LimiterInv' /\ [Semaphore!SemaphoreNext]_Semaphore!svars
  <2>1. CASE lease[c] = "held"
    BY <2>1, <1>1, <1>4, HandOverStep, GiveBackStep DEF Semaphore!SemaphoreNext
  <2>2. CASE lease[c] # "held"
    BY <2>2, <1>4, LimiterStutter DEF Release
  <2>3. QED
    BY <2>1, <2>2
<1>5. QED
  BY <1>2, <1>3, <1>4, LimiterStutter DEF LimiterNext

-----------------------------------------------------------------------------
(* The strengthened invariant holds in every reachable state.              *)
THEOREM LimiterInvariant == LimiterSpec => []LimiterInv
BY LimiterInitInv, LimiterStep, PTL DEF LimiterSpec

(* The counter of a key is the number of leases out, at most Concurrency.  *)
THEOREM LeasesAreCounted == LimiterSpec => []LeasesCounted
<1>1. LimiterInv => LeasesCounted
  BY DEF LimiterInv, PerKey, LeasesCounted
<1>2. QED
  BY <1>1, LimiterInvariant, PTL

(* A state deleted from the Map is referred to by no lease and no waiter.  *)
THEOREM StatesStayAttached == LimiterSpec => []NoDetachedState
<1>1. LimiterInv => NoDetachedState
  BY DEF LimiterInv, PerKey, NoDetachedState
<1>2. QED
  BY <1>1, LimiterInvariant, PTL

(* The waiting list is exact and nobody waits beside a free place.         *)
THEOREM PlacesAreNotLost == LimiterSpec => []NoLostPlace
<1>1. LimiterInv => NoLostPlace
  BY DEF LimiterInv, PerKey, Pending, NoRepeats, NoLostPlace
<1>2. QED
  BY <1>1, LimiterInvariant, PTL

(* The limiter implements first-come-first-served semaphores.              *)
THEOREM LimiterRefinesSemaphore == LimiterSpec => ImplementsFifoSemaphore
<1>1. LimiterInit => Semaphore!SemaphoreInit
  <2>. SUFFICES ASSUME LimiterInit PROVE Semaphore!SemaphoreInit
    OBVIOUS
  <2>1. \A k \in Keys : Held(k) = {}
    BY DEF LimiterInit, Held
  <2>2. QED
    BY <2>1 DEF LimiterInit, Semaphore!SemaphoreInit
<1>2. QED
  BY <1>1, LimiterStep, LimiterInvariant, PTL
  DEF LimiterSpec, ImplementsFifoSemaphore, Semaphore!SemaphoreSpec
=============================================================================
