------------------------- MODULE JoinCounterProofs -------------------------
(***************************************************************************)
(* Proofs about JoinCounter for any number of threads, actions and tokens. *)
(* The invariant is built in layers, each proved with the help of those    *)
(* below it: types, the count and who holds its units, what being          *)
(* triggered allows, the queue's wake-up, and where each action is.        *)
(***************************************************************************)
EXTENDS JoinCounter, FiniteSetTheorems, TLAPS

\* Appending e to a sequence adds e to its elements.
LEMMA RangeAppend ==
  ASSUME NEW S, NEW s \in Seq(S), NEW e \in S
  PROVE  Range(Append(s, e)) = Range(s) \cup {e}
<1>1. DOMAIN Append(s, e) = 1..(Len(s) + 1) /\ DOMAIN s = 1..Len(s) /\ Len(s) \in Nat
  OBVIOUS
<1>2. \A i \in 1..Len(s) : Append(s, e)[i] = s[i]
  OBVIOUS
<1>3. Append(s, e)[Len(s) + 1] = e
  OBVIOUS
<1>4. ASSUME NEW x \in Range(Append(s, e)) PROVE x \in Range(s) \cup {e}
  BY <1>1, <1>2, <1>3, <1>4 DEF Range
<1>5. ASSUME NEW x \in Range(s) \cup {e} PROVE x \in Range(Append(s, e))
  BY <1>1, <1>2, <1>3, <1>5 DEF Range
<1> QED BY <1>4, <1>5

\* The head and the tail of a sequence have no elements of their own.
LEMMA RangeTail ==
  ASSUME NEW S, NEW s \in Seq(S), s # <<>>
  PROVE  /\ Head(s) \in Range(s)
         /\ Head(s) \in S
         /\ Range(Tail(s)) \subseteq Range(s)
         /\ Range(s) \subseteq S
<1>1. Len(s) \in Nat /\ Len(s) > 0 /\ DOMAIN s = 1..Len(s) /\ Head(s) = s[1]
  OBVIOUS
<1>2. DOMAIN Tail(s) = 1..(Len(s) - 1) /\ \A i \in 1..(Len(s) - 1) : Tail(s)[i] = s[i + 1]
  OBVIOUS
<1> QED BY <1>1, <1>2 DEF Range

\* No element of s stands at two places of it.
Distinct(s) == \A i, j \in DOMAIN s : s[i] = s[j] => i = j

\* An element that is new to a sequence may be appended to it.
LEMMA DistinctAppend ==
  ASSUME NEW S, NEW s \in Seq(S), NEW e \in S, Distinct(s), e \notin Range(s)
  PROVE  Distinct(Append(s, e))
<1>1. DOMAIN Append(s, e) = 1..(Len(s) + 1) /\ DOMAIN s = 1..Len(s) /\ Len(s) \in Nat
  OBVIOUS
<1>2. \A i \in 1..Len(s) : Append(s, e)[i] = s[i]
  OBVIOUS
<1>3. Append(s, e)[Len(s) + 1] = e
  OBVIOUS
<1> QED BY <1>1, <1>2, <1>3 DEF Distinct, Range

\* The head of a sequence without repetition is not in its tail.
LEMMA DistinctTail ==
  ASSUME NEW S, NEW s \in Seq(S), s # <<>>, Distinct(s)
  PROVE  Distinct(Tail(s)) /\ Head(s) \notin Range(Tail(s))
<1>1. Len(s) \in Nat /\ Len(s) > 0 /\ DOMAIN s = 1..Len(s) /\ Head(s) = s[1]
  OBVIOUS
<1>2. DOMAIN Tail(s) = 1..(Len(s) - 1) /\ \A i \in 1..(Len(s) - 1) : Tail(s)[i] = s[i + 1]
  OBVIOUS
<1> QED BY <1>1, <1>2 DEF Distinct, Range

-----------------------------------------------------------------------------
\* Every variable keeps its type: the counter of a running backend wraps
\* nowhere and stays a uint64_t.
LEMMA InitType == Init => TypeOK
<1> SUFFICES ASSUME Init PROVE TypeOK
  OBVIOUS
<1>1. IsFiniteSet(InitialTokens) /\ Cardinality(InitialTokens) \in Nat
      /\ Cardinality(InitialTokens) <= Cardinality(Tokens) /\ Cardinality(Tokens) \in Nat
  BY TokensAssumption, FS_Subset, FS_CardinalityType
<1>2. count \in 0..(Modulus - 1)
  BY <1>1, ModulusAssumption DEF Init
<1>3. <<>> \in Seq(Actions)
  OBVIOUS
<1>4. queue \in Seq(Actions) /\ batch \in [Threads -> Seq(Actions)]
  BY <1>3 DEF Init
<1> QED BY <1>2, <1>4 DEF Init, TypeOK, Labels

\* Every step keeps every variable's type.
LEMMA NextType == TypeOK /\ [Next]_vars => TypeOK'
<1> SUFFICES ASSUME TypeOK, [Next]_vars PROVE TypeOK'
  OBVIOUS
<1> USE DEF TypeOK, Labels, Goto
<1>1. CASE UNCHANGED vars
  BY <1>1 DEF vars
<1>2. ASSUME NEW t \in Threads, StartAdvance(t) PROVE TypeOK'
  BY <1>2 DEF StartAdvance
<1>3. ASSUME NEW t \in Threads, AdvanceAssert(t) PROVE TypeOK'
  BY <1>3 DEF AdvanceAssert
<1>4. ASSUME NEW t \in Threads, AdvanceAdd(t) PROVE TypeOK'
  <2>1. PICK S \in SUBSET {k \in Tokens : place[k] = Free} :
          /\ count' = Plus(count, Cardinality(S))
          /\ place' = [k \in Tokens |->
                         IF k \in S \/ place[k] = t THEN Held ELSE place[k]]
    BY <1>4 DEF AdvanceAdd
  <2>2. Cardinality(S) \in Nat /\ Cardinality(S) < Modulus
    BY <2>1, TokensAssumption, ModulusAssumption, FS_Subset, FS_CardinalityType
  <2>3. count' \in 0..(Modulus - 1)
    BY <2>1, <2>2, ModulusAssumption DEF Plus
  <2> QED BY <1>4, <2>1, <2>3 DEF AdvanceAdd
<1>5. ASSUME NEW t \in Threads, StartDecrement(t) PROVE TypeOK'
  BY <1>5 DEF StartDecrement
<1>6. ASSUME NEW t \in Threads, DecrementAssert(t) PROVE TypeOK'
  BY <1>6 DEF DecrementAssert
<1>7. ASSUME NEW t \in Threads, DecrementSub(t) PROVE TypeOK'
  <2>1. count' \in 0..(Modulus - 1)
    BY <1>7, ModulusAssumption DEF DecrementSub, MinusOne
  <2> QED BY <1>7, <2>1 DEF DecrementSub
<1>8. ASSUME NEW t \in Threads, StoreTriggered(t) PROVE TypeOK'
  BY <1>8 DEF StoreTriggered
<1>9. ASSUME NEW t \in Threads, Exchange(t) PROVE TypeOK'
  BY <1>9 DEF Exchange
<1>10. ASSUME NEW t \in Threads, ConsumeOne(t) PROVE TypeOK'
  <2>1. Head(batch[t]) \in Actions /\ Tail(batch[t]) \in Seq(Actions)
    BY <1>10 DEF ConsumeOne
  <2> QED BY <1>10, <2>1 DEF ConsumeOne
<1>11. ASSUME NEW t \in Threads, ConsumedAll(t) PROVE TypeOK'
  BY <1>11 DEF ConsumedAll
<1>12. ASSUME NEW t \in Threads, NEW a \in Actions, StartAttach(t, a) PROVE TypeOK'
  BY <1>12 DEF StartAttach
<1>13. ASSUME NEW t \in Threads, LoadTriggered(t) PROVE TypeOK'
  BY <1>13 DEF LoadTriggered
<1>14. ASSUME NEW t \in Threads, RunNow(t) PROVE TypeOK'
  BY <1>14 DEF RunNow
<1>15. ASSUME NEW t \in Threads, Emplace(t) PROVE TypeOK'
  BY <1>15 DEF Emplace
<1>16. ASSUME NEW t \in Threads, ReloadTriggered(t) PROVE TypeOK'
  BY <1>16 DEF ReloadTriggered
<1> QED BY <1>1, <1>2, <1>3, <1>4, <1>5, <1>6, <1>7, <1>8, <1>9, <1>10, <1>11,
           <1>12, <1>13, <1>14, <1>15, <1>16 DEF Next, Call, Step

\* Every reachable state is well typed; the uint64_t counter never leaves its range.
THEOREM TypeCorrect == SafeSpec => []TypeOK
  BY InitType, NextType, PTL DEF SafeSpec

-----------------------------------------------------------------------------
\* The labels of a thread that uses a unit of the count in a call.
UsingLabels == {"advance_assert", "advance_add", "decrement_assert", "decrement_sub"}

\* Nobody is late: the count is the number of units held, a call that needs
\* one has one, and the event is triggered only after the last was given back.
CountInv ==
  /\ count = Cardinality(Out)
  /\ \A t \in Threads : pc[t] \in UsingLabels => \E k \in Tokens : place[k] = t
  /\ triggered \/ (\E t \in Threads : pc[t] = "store") <=> Out = {}
  /\ AssertsHold

\* The units held are finitely many, so that they can be counted.
LEMMA OutFinite == IsFiniteSet(Out) /\ Cardinality(Out) \in Nat
                   /\ Cardinality(Out) < Modulus
<1>1. Out \subseteq Tokens
  BY DEF Out
<1> QED BY <1>1, TokensAssumption, ModulusAssumption, FS_Subset, FS_CardinalityType

\* And so they are after a step.
LEMMA OutFinitePrimed == IsFiniteSet(Out') /\ Cardinality(Out') \in Nat
                         /\ Cardinality(Out') < Modulus
<1>1. Out' \subseteq Tokens
  BY DEF Out
<1> QED BY <1>1, TokensAssumption, ModulusAssumption, FS_Subset, FS_CardinalityType

\* The constructor's count is the number of the initial holders.
LEMMA InitCount == Init => CountInv
<1> SUFFICES ASSUME Init PROVE CountInv
  OBVIOUS
<1>1. Out = InitialTokens
  BY TokensAssumption, PlacesAssumption DEF Init, Out
<1> QED BY <1>1, TokensAssumption DEF Init, CountInv, AssertsHold, UsingLabels

\* A step that moves a thread between labels and leaves the count alone.
LEMMA CountFrame ==
  ASSUME TypeOK, CountInv, NEW t \in Threads, NEW l \in Labels, Goto(t, l),
         UNCHANGED <<triggered, count, place>>,
         l \in UsingLabels => pc[t] \in UsingLabels,
         l \notin {"store", "abort"}, pc[t] # "store"
  PROVE  CountInv'
<1>1. Out' = Out
  BY DEF Out
<1> QED BY <1>1 DEF CountInv, TypeOK, Goto, AssertsHold

\* A call begins: the unit it uses is still counted.
LEMMA CountTake ==
  ASSUME TypeOK, CountInv, NEW t \in Threads, NEW l \in UsingLabels, Goto(t, l),
         pc[t] = "idle", NEW k \in Tokens, place[k] = Held,
         place' = [place EXCEPT ![k] = t], UNCHANGED <<triggered, count>>
  PROVE  CountInv'
<1>1. Out' = Out
  BY PlacesAssumption DEF Out, TypeOK
<1>2. ASSUME NEW u \in Threads, pc'[u] \in UsingLabels
      PROVE  \E j \in Tokens : place'[j] = u
  <2>1. CASE u = t
    BY <2>1 DEF TypeOK
  <2>2. CASE u # t
    <3>1. pc[u] \in UsingLabels
      BY <1>2, <2>2 DEF TypeOK, Goto
    <3>2. PICK j \in Tokens : place[j] = u
      BY <3>1 DEF CountInv
    <3>3. place'[j] = u
      BY <3>2, PlacesAssumption DEF TypeOK
    <3> QED BY <3>3
  <2> QED BY <2>1, <2>2
<1>3. (\E u \in Threads : pc'[u] = "store") <=> (\E u \in Threads : pc[u] = "store")
  BY DEF Goto, TypeOK, UsingLabels
<1>4. AssertsHold'
  BY DEF CountInv, AssertsHold, Goto, TypeOK, UsingLabels
<1> QED BY <1>1, <1>2, <1>3, <1>4 DEF CountInv

\* fetch_add counts exactly the units it hands out, and does not wrap.
LEMMA CountAdd ==
  ASSUME TypeOK, CountInv, NEW t \in Threads, AdvanceAdd(t)
  PROVE  CountInv'
<1>1. PICK S \in SUBSET {k \in Tokens : place[k] = Free} :
        /\ count' = Plus(count, Cardinality(S))
        /\ place' = [k \in Tokens |->
                       IF k \in S \/ place[k] = t THEN Held ELSE place[k]]
  BY DEF AdvanceAdd
<1>2. Out' = Out \cup S /\ Out \cap S = {}
  BY <1>1, PlacesAssumption DEF Out, TypeOK
<1>3. IsFiniteSet(S) /\ Cardinality(S) \in Nat
  BY <1>1, TokensAssumption, FS_Subset, FS_CardinalityType
<1>4. Cardinality(Out') = Cardinality(Out) + Cardinality(S)
  <2>1. Cardinality(Out \cup S)
          = Cardinality(Out) + Cardinality(S) - Cardinality(Out \cap S)
    BY <1>3, OutFinite, FS_Union
  <2>2. Cardinality(Out \cap S) = 0
    BY <1>2, FS_EmptySet
  <2> QED BY <2>1, <2>2, <1>2, <1>3, OutFinite
<1>5. count' = Cardinality(Out')
  BY <1>1, <1>3, <1>4, OutFinite, OutFinitePrimed, ModulusAssumption DEF CountInv, Plus
<1>6. Out # {}
  <2>1. PICK k \in Tokens : place[k] = t
    BY DEF CountInv, AdvanceAdd, UsingLabels
  <2> QED BY <2>1, PlacesAssumption DEF Out
<1>7. ~triggered /\ ~triggered' /\ (\A u \in Threads : pc[u] # "store")
      /\ (\A u \in Threads : pc'[u] # "store")
  BY <1>6 DEF CountInv, AdvanceAdd, Goto, TypeOK
<1>8. ASSUME NEW u \in Threads, pc'[u] \in UsingLabels
      PROVE  \E j \in Tokens : place'[j] = u
  <2>1. u # t /\ pc[u] \in UsingLabels
    BY <1>8 DEF AdvanceAdd, Goto, TypeOK, UsingLabels
  <2>2. PICK j \in Tokens : place[j] = u
    BY <2>1 DEF CountInv
  <2>3. place'[j] = u
    BY <1>1, <2>1, <2>2, PlacesAssumption DEF TypeOK
  <2> QED BY <2>3
<1>9. AssertsHold'
  BY DEF CountInv, AssertsHold, Goto, AdvanceAdd, TypeOK
<1>10. Out' # {}
  BY <1>2, <1>6
<1> QED BY <1>5, <1>7, <1>8, <1>9, <1>10 DEF CountInv

\* fetch_sub gives one unit back, and only the last one goes on to the store.
LEMMA CountSub ==
  ASSUME TypeOK, CountInv, NEW t \in Threads, DecrementSub(t)
  PROVE  CountInv'
<1>1. PICK k \in Tokens : place[k] = t /\ place' = [place EXCEPT ![k] = Free]
  BY DEF DecrementSub
<1>2. k \in Out /\ Out' = Out \ {k}
  BY <1>1, PlacesAssumption DEF Out, TypeOK
<1>3. Cardinality(Out') = Cardinality(Out) - 1
  BY <1>2, OutFinite, FS_RemoveElement
<1>4. count' = Cardinality(Out') /\ count' = count - 1
  <2>1. count # 0
    BY <1>3, OutFinite, OutFinitePrimed DEF CountInv
  <2> QED BY <2>1, <1>3, OutFinite DEF CountInv, DecrementSub, MinusOne
<1>5. count = 1 <=> Out' = {}
  <2>1. Cardinality(Out') = 0 <=> Out' = {}
    BY OutFinitePrimed, FS_EmptySet
  <2>2. count \in Nat
    BY DEF TypeOK
  <2> QED BY <2>1, <2>2, <1>4
<1>6. ~triggered /\ ~triggered' /\ (\A u \in Threads : pc[u] # "store")
  BY <1>2 DEF CountInv, DecrementSub
<1>7. (\E u \in Threads : pc'[u] = "store") <=> Out' = {}
  BY <1>5, <1>6 DEF DecrementSub, Goto, TypeOK
<1>8. ASSUME NEW u \in Threads, pc'[u] \in UsingLabels
      PROVE  \E j \in Tokens : place'[j] = u
  <2>1. u # t /\ pc[u] \in UsingLabels
    BY <1>8 DEF DecrementSub, Goto, TypeOK, UsingLabels
  <2>2. PICK j \in Tokens : place[j] = u
    BY <2>1 DEF CountInv
  <2>3. place'[j] = u
    BY <1>1, <2>1, <2>2 DEF TypeOK
  <2> QED BY <2>3
<1>9. AssertsHold'
  BY DEF CountInv, AssertsHold, Goto, DecrementSub, TypeOK
<1> QED BY <1>4, <1>6, <1>7, <1>8, <1>9 DEF CountInv

\* Every step keeps the count and who holds its units in agreement.
LEMMA NextCount == TypeOK /\ CountInv /\ [Next]_vars => CountInv'
<1> SUFFICES ASSUME TypeOK, CountInv, [Next]_vars PROVE CountInv'
  OBVIOUS
<1> USE DEF UsingLabels, Labels
<1>1. CASE UNCHANGED vars
  BY <1>1 DEF vars, CountInv, AssertsHold, Out
<1>2. ASSUME NEW t \in Threads, StartAdvance(t) PROVE CountInv'
  BY <1>2, CountTake DEF StartAdvance
<1>3. ASSUME NEW t \in Threads, AdvanceAssert(t) PROVE CountInv'
  <2>1. ~triggered
    BY <1>3, PlacesAssumption DEF AdvanceAssert, CountInv, Out
  <2> QED BY <1>3, <2>1, CountFrame DEF AdvanceAssert
<1>4. ASSUME NEW t \in Threads, AdvanceAdd(t) PROVE CountInv'
  BY <1>4, CountAdd
<1>5. ASSUME NEW t \in Threads, StartDecrement(t) PROVE CountInv'
  BY <1>5, CountTake DEF StartDecrement
<1>6. ASSUME NEW t \in Threads, DecrementAssert(t) PROVE CountInv'
  <2>1. ~triggered
    BY <1>6, PlacesAssumption DEF DecrementAssert, CountInv, Out
  <2> QED BY <1>6, <2>1, CountFrame DEF DecrementAssert
<1>7. ASSUME NEW t \in Threads, DecrementSub(t) PROVE CountInv'
  BY <1>7, CountSub
<1>8. ASSUME NEW t \in Threads, StoreTriggered(t) PROVE CountInv'
  BY <1>8 DEF StoreTriggered, Goto, CountInv, AssertsHold, Out, TypeOK
<1>9. ASSUME NEW t \in Threads, Exchange(t) PROVE CountInv'
  BY <1>9, CountFrame DEF Exchange
<1>10. ASSUME NEW t \in Threads, ConsumeOne(t) PROVE CountInv'
  BY <1>10 DEF ConsumeOne, CountInv, AssertsHold, Out
<1>11. ASSUME NEW t \in Threads, ConsumedAll(t) PROVE CountInv'
  BY <1>11, CountFrame DEF ConsumedAll
<1>12. ASSUME NEW t \in Threads, NEW a \in Actions, StartAttach(t, a) PROVE CountInv'
  BY <1>12, CountFrame DEF StartAttach
<1>13. ASSUME NEW t \in Threads, LoadTriggered(t) PROVE CountInv'
  BY <1>13, CountFrame DEF LoadTriggered
<1>14. ASSUME NEW t \in Threads, RunNow(t) PROVE CountInv'
  BY <1>14, CountFrame DEF RunNow
<1>15. ASSUME NEW t \in Threads, Emplace(t) PROVE CountInv'
  BY <1>15, CountFrame DEF Emplace
<1>16. ASSUME NEW t \in Threads, ReloadTriggered(t) PROVE CountInv'
  BY <1>16, CountFrame DEF ReloadTriggered
<1> QED BY <1>1, <1>2, <1>3, <1>4, <1>5, <1>6, <1>7, <1>8, <1>9, <1>10, <1>11,
           <1>12, <1>13, <1>14, <1>15, <1>16 DEF Next, Call, Step

\* count_ is always the number of units held, and a thread in a call holds one:
\* the invariant the asserts and the last decrement rest on.
THEOREM CountCorrect == SafeSpec => []CountInv
  BY InitType, NextType, InitCount, NextCount, PTL DEF SafeSpec

\* Nobody who follows the contract finds the event triggered in an assert.
THEOREM AssertsNeverFail == SafeSpec => []AssertsHold
<1>1. CountInv => AssertsHold
  BY DEF CountInv
<1> QED BY <1>1, CountCorrect, PTL

\* The count is zero exactly when the event is, or is about to be, triggered.
THEOREM CountZeroIsTriggered == SafeSpec => []CountZeroTriggers
<1>1. CountInv => CountZeroTriggers
  BY OutFinite, FS_EmptySet DEF CountInv, CountZeroTriggers
<1> QED BY <1>1, CountCorrect, PTL

-----------------------------------------------------------------------------
\* The queue is drained, and an action run, only once the event is triggered.
TriggeredInv ==
  /\ \A t \in Threads : pc[t] \in {"exchange", "consume", "run"} => triggered
  /\ \A t \in Threads : batch[t] # <<>> => triggered
  /\ \A a \in Actions : runs[a] > 0 => triggered

\* Nothing has run or been taken at first.
LEMMA InitTriggered == Init => TriggeredInv
  BY DEF Init, TriggeredInv

\* Actions are taken and run under a triggered event only, in every step.
LEMMA NextTriggered == TypeOK /\ TriggeredInv /\ [Next]_vars => TriggeredInv'
<1> SUFFICES ASSUME TypeOK, TriggeredInv, [Next]_vars PROVE TriggeredInv'
  OBVIOUS
<1> USE DEF Labels
<1>1. CASE UNCHANGED vars
  BY <1>1 DEF vars, TriggeredInv
<1>2. ASSUME NEW t \in Threads, StartAdvance(t) PROVE TriggeredInv'
  BY <1>2 DEF StartAdvance, Goto, TriggeredInv, TypeOK
<1>3. ASSUME NEW t \in Threads, AdvanceAssert(t) PROVE TriggeredInv'
  BY <1>3 DEF AdvanceAssert, Goto, TriggeredInv, TypeOK
<1>4. ASSUME NEW t \in Threads, AdvanceAdd(t) PROVE TriggeredInv'
  BY <1>4 DEF AdvanceAdd, Goto, TriggeredInv, TypeOK
<1>5. ASSUME NEW t \in Threads, StartDecrement(t) PROVE TriggeredInv'
  BY <1>5 DEF StartDecrement, Goto, TriggeredInv, TypeOK
<1>6. ASSUME NEW t \in Threads, DecrementAssert(t) PROVE TriggeredInv'
  BY <1>6 DEF DecrementAssert, Goto, TriggeredInv, TypeOK
<1>7. ASSUME NEW t \in Threads, DecrementSub(t) PROVE TriggeredInv'
  BY <1>7 DEF DecrementSub, Goto, TriggeredInv, TypeOK
<1>8. ASSUME NEW t \in Threads, StoreTriggered(t) PROVE TriggeredInv'
  BY <1>8 DEF StoreTriggered, Goto, TriggeredInv, TypeOK
<1>9. ASSUME NEW t \in Threads, Exchange(t) PROVE TriggeredInv'
  BY <1>9 DEF Exchange, Goto, TriggeredInv, TypeOK
<1>10. ASSUME NEW t \in Threads, ConsumeOne(t) PROVE TriggeredInv'
  BY <1>10 DEF ConsumeOne, Goto, TriggeredInv, TypeOK
<1>11. ASSUME NEW t \in Threads, ConsumedAll(t) PROVE TriggeredInv'
  BY <1>11 DEF ConsumedAll, Goto, TriggeredInv, TypeOK
<1>12. ASSUME NEW t \in Threads, NEW a \in Actions, StartAttach(t, a) PROVE TriggeredInv'
  BY <1>12 DEF StartAttach, Goto, TriggeredInv, TypeOK
<1>13. ASSUME NEW t \in Threads, LoadTriggered(t) PROVE TriggeredInv'
  BY <1>13 DEF LoadTriggered, Goto, TriggeredInv, TypeOK
<1>14. ASSUME NEW t \in Threads, RunNow(t) PROVE TriggeredInv'
  BY <1>14 DEF RunNow, Goto, TriggeredInv, TypeOK
<1>15. ASSUME NEW t \in Threads, Emplace(t) PROVE TriggeredInv'
  BY <1>15 DEF Emplace, Goto, TriggeredInv, TypeOK
<1>16. ASSUME NEW t \in Threads, ReloadTriggered(t) PROVE TriggeredInv'
  BY <1>16 DEF ReloadTriggered, Goto, TriggeredInv, TypeOK
<1> QED BY <1>1, <1>2, <1>3, <1>4, <1>5, <1>6, <1>7, <1>8, <1>9, <1>10, <1>11,
           <1>12, <1>13, <1>14, <1>15, <1>16 DEF Next, Call, Step

\* No action is run while somebody still holds a unit of the count.
THEOREM RunsOnlyAfterLastRelease == SafeSpec => []RunsOnlyAfterRelease
<1>1. CountInv /\ TriggeredInv => RunsOnlyAfterRelease
  BY DEF CountInv, TriggeredInv, RunsOnlyAfterRelease
<1> QED BY <1>1, CountCorrect, InitType, NextType, InitTriggered, NextTriggered, PTL
        DEF SafeSpec

-----------------------------------------------------------------------------
\* Nothing is in the queue at first.
LEMMA InitNoStranded == Init => NoStranded
  BY DEF Init, NoStranded

\* Whoever emplaces loads the event again, whoever triggers it takes the queue.
LEMMA NextNoStranded == TypeOK /\ NoStranded /\ [Next]_vars => NoStranded'
<1> SUFFICES ASSUME TypeOK, NoStranded, [Next]_vars PROVE NoStranded'
  OBVIOUS
<1> USE DEF Labels
<1>1. CASE UNCHANGED vars
  BY <1>1 DEF vars, NoStranded
<1>2. ASSUME NEW t \in Threads, StartAdvance(t) PROVE NoStranded'
  BY <1>2 DEF StartAdvance, Goto, NoStranded, TypeOK
<1>3. ASSUME NEW t \in Threads, AdvanceAssert(t) PROVE NoStranded'
  BY <1>3 DEF AdvanceAssert, Goto, NoStranded, TypeOK
<1>4. ASSUME NEW t \in Threads, AdvanceAdd(t) PROVE NoStranded'
  BY <1>4 DEF AdvanceAdd, Goto, NoStranded, TypeOK
<1>5. ASSUME NEW t \in Threads, StartDecrement(t) PROVE NoStranded'
  BY <1>5 DEF StartDecrement, Goto, NoStranded, TypeOK
<1>6. ASSUME NEW t \in Threads, DecrementAssert(t) PROVE NoStranded'
  BY <1>6 DEF DecrementAssert, Goto, NoStranded, TypeOK
<1>7. ASSUME NEW t \in Threads, DecrementSub(t) PROVE NoStranded'
  BY <1>7 DEF DecrementSub, Goto, NoStranded, TypeOK
<1>8. ASSUME NEW t \in Threads, StoreTriggered(t) PROVE NoStranded'
  BY <1>8 DEF StoreTriggered, Goto, NoStranded, TypeOK
<1>9. ASSUME NEW t \in Threads, Exchange(t) PROVE NoStranded'
  BY <1>9 DEF Exchange, Goto, NoStranded, TypeOK
<1>10. ASSUME NEW t \in Threads, ConsumeOne(t) PROVE NoStranded'
  BY <1>10 DEF ConsumeOne, Goto, NoStranded, TypeOK
<1>11. ASSUME NEW t \in Threads, ConsumedAll(t) PROVE NoStranded'
  BY <1>11 DEF ConsumedAll, Goto, NoStranded, TypeOK
<1>12. ASSUME NEW t \in Threads, NEW a \in Actions, StartAttach(t, a) PROVE NoStranded'
  BY <1>12 DEF StartAttach, Goto, NoStranded, TypeOK
<1>13. ASSUME NEW t \in Threads, LoadTriggered(t) PROVE NoStranded'
  BY <1>13 DEF LoadTriggered, Goto, NoStranded, TypeOK
<1>14. ASSUME NEW t \in Threads, RunNow(t) PROVE NoStranded'
  BY <1>14 DEF RunNow, Goto, NoStranded, TypeOK
<1>15. ASSUME NEW t \in Threads, Emplace(t) PROVE NoStranded'
  BY <1>15 DEF Emplace, Goto, NoStranded, TypeOK
<1>16. ASSUME NEW t \in Threads, ReloadTriggered(t) PROVE NoStranded'
  BY <1>16 DEF ReloadTriggered, Goto, NoStranded, TypeOK
<1> QED BY <1>1, <1>2, <1>3, <1>4, <1>5, <1>6, <1>7, <1>8, <1>9, <1>10, <1>11,
           <1>12, <1>13, <1>14, <1>15, <1>16 DEF Next, Call, Step

\* No lost wake-up, for any number of threads that trigger, attach and drain.
THEOREM NoActionStranded == SafeSpec => []NoStranded
  BY InitType, NextType, InitNoStranded, NextNoStranded, PTL DEF SafeSpec

-----------------------------------------------------------------------------
\* Where an action is: in the hands of the thread that attaches it, in the
\* queue, in the batch that one thread drains, or run; never in two of them.
ArgInv ==
  \A t \in Threads :
    /\ pc[t] \in {"load", "run", "emplace"} => \E a \in Actions : arg[t] = {a}
    /\ pc[t] \notin {"load", "run", "emplace"} => arg[t] = {}

Waiting(t) == arg[t] \cup Range(batch[t])

Placement ==
  /\ Distinct(queue)
  /\ \A t \in Threads :
       /\ Distinct(batch[t])
       /\ Waiting(t) \cap Range(queue) = {}
       /\ arg[t] \cap Range(batch[t]) = {}
       /\ \A u \in Threads \ {t} : Waiting(t) \cap Waiting(u) = {}

\* An action that is waiting was attached and has not been run.
Fresh ==
  /\ \A a \in Actions : runs[a] \in {0, 1} /\ (runs[a] = 1 => a \in attached)
  /\ \A a \in Range(queue) : a \in attached /\ runs[a] = 0
  /\ \A t \in Threads : \A a \in Waiting(t) : a \in attached /\ runs[a] = 0

OnceInv == ArgInv /\ Placement /\ Fresh

\* No action is anywhere at first.
LEMMA InitOnce == Init => OnceInv
<1> SUFFICES ASSUME Init PROVE OnceInv
  OBVIOUS
<1>1. Range(<<>>) = {} /\ Distinct(<<>>)
  BY DEF Range, Distinct
<1> QED BY <1>1 DEF Init, OnceInv, ArgInv, Placement, Fresh, Waiting

\* The two halves of what Placement says of a thread's actions.
LEMMA Apart ==
  ASSUME Placement
  PROVE  /\ \A u, v \in Threads : u # v => Waiting(u) \cap Waiting(v) = {}
         /\ \A u \in Threads : Waiting(u) \cap Range(queue) = {}
  BY DEF Placement

\* A step that touches no action keeps all of it.
LEMMA OnceFrame ==
  ASSUME TypeOK, OnceInv, NEW t \in Threads, NEW l \in Labels, Goto(t, l),
         UNCHANGED <<queue, attached, arg, batch, runs>>,
         pc[t] \in {"load", "run", "emplace"} <=> l \in {"load", "run", "emplace"}
  PROVE  OnceInv'
<1>1. ArgInv'
  BY DEF OnceInv, ArgInv, Goto, TypeOK
<1> QED BY <1>1 DEF OnceInv, Placement, Fresh, Waiting

\* The exchange moves all of the queue to one thread, none of it to two.
LEMMA OnceExchange ==
  ASSUME TypeOK, OnceInv, NEW t \in Threads, Exchange(t)
  PROVE  OnceInv'
<1> USE DEF TypeOK, OnceInv, Exchange, Goto
<1>1. Range(<<>>) = {} /\ Distinct(<<>>)
  BY DEF Range, Distinct
<1>2. queue' = <<>> /\ batch'[t] = queue /\ arg[t] = {}
      /\ \A u \in Threads \ {t} : batch'[u] = batch[u]
  BY DEF ArgInv
<1>3. Waiting(t)' = Range(queue) /\ \A u \in Threads \ {t} : Waiting(u)' = Waiting(u)
  BY <1>2 DEF Waiting
<1>4. ArgInv'
  BY DEF ArgInv
<1>5. Placement'
  <2>1. \A u \in Threads : Distinct(batch'[u]) /\ arg'[u] \cap Range(batch'[u]) = {}
    BY <1>2 DEF Placement
  <2>2. ASSUME NEW u \in Threads, NEW v \in Threads, u # v
        PROVE  Waiting(u)' \cap Waiting(v)' = {}
    <3>1. CASE u = t
      BY <1>3, <2>2, <3>1, Apart
    <3>2. CASE v = t
      BY <1>3, <2>2, <3>2, Apart
    <3>3. CASE u # t /\ v # t
      BY <1>3, <2>2, <3>3, Apart
    <3> QED BY <3>1, <3>2, <3>3
  <2> QED BY <1>1, <1>2, <2>1, <2>2 DEF Placement
<1>6. Fresh'
  <2>1. \A u \in Threads : \A a \in Waiting(u)' : a \in attached /\ runs[a] = 0
    BY <1>3 DEF Fresh
  <2> QED BY <1>1, <1>2, <2>1 DEF Fresh
<1> QED BY <1>4, <1>5, <1>6

\* An action leaves its batch when it is run.
LEMMA OnceConsume ==
  ASSUME TypeOK, OnceInv, NEW t \in Threads, ConsumeOne(t)
  PROVE  OnceInv'
<1> USE DEF TypeOK, OnceInv, ConsumeOne
<1> DEFINE h == Head(batch[t])
<1>1. /\ batch[t] \in Seq(Actions) /\ h \in Range(batch[t]) /\ h \in Actions
      /\ Range(Tail(batch[t])) \subseteq Range(batch[t])
      /\ Distinct(Tail(batch[t])) /\ h \notin Range(Tail(batch[t]))
  BY RangeTail, DistinctTail DEF Placement
<1>2. batch'[t] = Tail(batch[t]) /\ \A u \in Threads \ {t} : batch'[u] = batch[u]
  OBVIOUS
<1>3. /\ Waiting(t)' \subseteq Waiting(t) \ {h}
      /\ \A u \in Threads \ {t} : Waiting(u)' = Waiting(u)
  BY <1>1, <1>2 DEF Waiting, Placement
<1>4. h \in Waiting(t)
  BY <1>1 DEF Waiting
<1>5. ArgInv'
  BY DEF ArgInv
<1>6. Placement'
  <2>1. \A u \in Threads : Distinct(batch'[u]) /\ arg'[u] \cap Range(batch'[u]) = {}
    BY <1>1, <1>2 DEF Placement
  <2>2. ASSUME NEW u \in Threads, NEW v \in Threads, u # v
        PROVE  Waiting(u)' \cap Waiting(v)' = {}
    <3>1. Waiting(u)' \subseteq Waiting(u) /\ Waiting(v)' \subseteq Waiting(v)
      BY <1>3
    <3>2. Waiting(u) \cap Waiting(v) = {}
      BY <2>2, Apart
    <3> QED BY <3>1, <3>2
  <2>3. \A u \in Threads : Waiting(u)' \cap Range(queue) = {}
    BY <1>3 DEF Placement
  <2> QED BY <2>1, <2>2, <2>3 DEF Placement
<1>7. Fresh'
  <2>1. runs'[h] = 1 /\ h \in attached
        /\ \A a \in Actions \ {h} : runs'[a] = runs[a]
    BY <1>1, <1>4 DEF Fresh
  <2>2. h \notin Range(queue)
    BY <1>4 DEF Placement
  <2>3. \A u \in Threads : h \notin Waiting(u)'
    BY <1>3, <1>4 DEF Placement
  <2>4. Range(queue) \subseteq Actions /\ \A u \in Threads : Waiting(u)' \subseteq Actions
    <3>1. queue \in Seq(Actions) /\ \A u \in Threads : batch[u] \in Seq(Actions) /\ arg[u] \subseteq Actions
      OBVIOUS
    <3>2. ASSUME NEW s \in Seq(Actions) PROVE Range(s) \subseteq Actions
      BY DEF Range
    <3>3. \A u \in Threads : Waiting(u) \subseteq Actions
      BY <3>1, <3>2 DEF Waiting
    <3>4. \A u \in Threads : Waiting(u)' \subseteq Waiting(u)
      BY <1>3
    <3> QED BY <3>1, <3>2, <3>3, <3>4
  <2>5. \A u \in Threads : Waiting(u)' \subseteq Waiting(u)
    BY <1>3
  <2> QED BY <2>1, <2>2, <2>3, <2>4, <2>5 DEF Fresh
<1> QED BY <1>5, <1>6, <1>7

\* A new action is in the hands of one thread.
LEMMA OnceStartAttach ==
  ASSUME TypeOK, OnceInv, NEW t \in Threads, NEW a \in Actions, StartAttach(t, a)
  PROVE  OnceInv'
<1> USE DEF TypeOK, OnceInv, StartAttach, Goto, Labels
<1>1. ArgInv'
  BY DEF ArgInv
<1>2. Waiting(t)' = {a} \cup Range(batch[t])
      /\ \A u \in Threads \ {t} : Waiting(u)' = Waiting(u)
  BY DEF Waiting
<1>3. a \notin Range(queue) /\ \A u \in Threads : a \notin Waiting(u)
  BY DEF Fresh
<1>4. Placement'
  <2>1. \A u \in Threads : Distinct(batch'[u]) /\ arg'[u] \cap Range(batch'[u]) = {}
    BY <1>3 DEF Placement, Waiting
  <2>2. \A u, v \in Threads : u # v => Waiting(u)' \cap Waiting(v)' = {}
    BY <1>2, <1>3 DEF Placement, Waiting
  <2>3. \A u \in Threads : Waiting(u)' \cap Range(queue) = {}
    BY <1>2, <1>3 DEF Placement, Waiting
  <2> QED BY <2>1, <2>2, <2>3 DEF Placement
<1>5. Fresh'
  <2>1. runs[a] = 0
    BY DEF Fresh
  <2> QED BY <1>2, <2>1 DEF Fresh, Waiting
<1> QED BY <1>1, <1>4, <1>5

\* An action run on the stack was never in the queue.
LEMMA OnceRunNow ==
  ASSUME TypeOK, OnceInv, NEW t \in Threads, RunNow(t)
  PROVE  OnceInv'
<1> USE DEF TypeOK, OnceInv, RunNow, Goto, Labels
<1>1. ArgInv'
  BY DEF ArgInv
<1>2. PICK a \in Actions : arg[t] = {a}
  BY DEF ArgInv
<1>3. /\ Waiting(t)' = Range(batch[t]) /\ a \notin Range(batch[t])
      /\ \A u \in Threads \ {t} : Waiting(u)' = Waiting(u)
      /\ a \in Waiting(t)
  BY <1>2 DEF Waiting, Placement
<1>4. Placement'
  <2>1. \A u \in Threads : Distinct(batch'[u]) /\ arg'[u] \cap Range(batch'[u]) = {}
    BY DEF Placement
  <2>2. \A u \in Threads : Waiting(u)' \subseteq Waiting(u)
    BY <1>3 DEF Waiting
  <2> QED BY <2>1, <2>2 DEF Placement
<1>5. Fresh'
  <2>1. runs'[a] = 1 /\ a \in attached /\ \A b \in Actions \ {a} : runs'[b] = runs[b]
    BY <1>2, <1>3 DEF Fresh
  <2>2. a \notin Range(queue) /\ \A u \in Threads : a \notin Waiting(u)'
    BY <1>3 DEF Placement
  <2>3. Range(queue) \subseteq Actions /\ \A u \in Threads : Waiting(u)' \subseteq Actions
    BY DEF Waiting, Range
  <2>4. \A u \in Threads : Waiting(u)' \subseteq Waiting(u)
    BY <1>3 DEF Waiting
  <2> QED BY <2>1, <2>2, <2>3, <2>4 DEF Fresh
<1> QED BY <1>1, <1>4, <1>5

\* An emplaced action leaves the hands of its thread.
LEMMA OnceEmplace ==
  ASSUME TypeOK, OnceInv, NEW t \in Threads, Emplace(t)
  PROVE  OnceInv'
<1> USE DEF TypeOK, OnceInv, Emplace, Goto, Labels
<1>1. ArgInv'
  BY DEF ArgInv
<1>2. PICK a \in Actions : arg[t] = {a} /\ queue' = Append(queue, a)
  BY DEF ArgInv
<1>3. /\ Waiting(t)' = Range(batch[t]) /\ a \notin Range(batch[t])
      /\ \A u \in Threads \ {t} : Waiting(u)' = Waiting(u)
      /\ a \in Waiting(t) /\ a \notin Range(queue)
  BY <1>2 DEF Waiting, Placement
<1>4. Range(queue') = Range(queue) \cup {a} /\ Distinct(queue')
  BY <1>2, <1>3, RangeAppend, DistinctAppend DEF Placement
<1>5. \A u \in Threads : a \notin Waiting(u)' /\ Waiting(u)' \subseteq Waiting(u)
  BY <1>3 DEF Placement, Waiting
<1>6. Placement'
  <2>1. \A u \in Threads : Distinct(batch'[u]) /\ arg'[u] \cap Range(batch'[u]) = {}
    BY DEF Placement
  <2>2. \A u, v \in Threads : u # v => Waiting(u)' \cap Waiting(v)' = {}
    BY <1>5 DEF Placement
  <2>3. \A u \in Threads : Waiting(u)' \cap Range(queue') = {}
    BY <1>4, <1>5 DEF Placement
  <2> QED BY <1>4, <2>1, <2>2, <2>3 DEF Placement
<1>7. Fresh'
  BY <1>3, <1>4, <1>5 DEF Fresh
<1> QED BY <1>1, <1>6, <1>7

\* Every step keeps each action in at most one place, or run and in none.
LEMMA NextOnce == TypeOK /\ OnceInv /\ [Next]_vars => OnceInv'
<1> SUFFICES ASSUME TypeOK, OnceInv, [Next]_vars PROVE OnceInv'
  OBVIOUS
<1> USE DEF Labels
<1>1. CASE UNCHANGED vars
  BY <1>1 DEF vars, OnceInv, ArgInv, Placement, Fresh, Waiting
<1>2. ASSUME NEW t \in Threads, StartAdvance(t) PROVE OnceInv'
  BY <1>2, OnceFrame DEF StartAdvance
<1>3. ASSUME NEW t \in Threads, AdvanceAssert(t) PROVE OnceInv'
  BY <1>3, OnceFrame DEF AdvanceAssert
<1>4. ASSUME NEW t \in Threads, AdvanceAdd(t) PROVE OnceInv'
  BY <1>4, OnceFrame DEF AdvanceAdd
<1>5. ASSUME NEW t \in Threads, StartDecrement(t) PROVE OnceInv'
  BY <1>5, OnceFrame DEF StartDecrement
<1>6. ASSUME NEW t \in Threads, DecrementAssert(t) PROVE OnceInv'
  BY <1>6, OnceFrame DEF DecrementAssert
<1>7. ASSUME NEW t \in Threads, DecrementSub(t) PROVE OnceInv'
  BY <1>7, OnceFrame DEF DecrementSub
<1>8. ASSUME NEW t \in Threads, StoreTriggered(t) PROVE OnceInv'
  BY <1>8, OnceFrame DEF StoreTriggered
<1>9. ASSUME NEW t \in Threads, Exchange(t) PROVE OnceInv'
  BY <1>9, OnceExchange
<1>10. ASSUME NEW t \in Threads, ConsumeOne(t) PROVE OnceInv'
  BY <1>10, OnceConsume
<1>11. ASSUME NEW t \in Threads, ConsumedAll(t) PROVE OnceInv'
  BY <1>11, OnceFrame DEF ConsumedAll
<1>12. ASSUME NEW t \in Threads, NEW a \in Actions, StartAttach(t, a) PROVE OnceInv'
  BY <1>12, OnceStartAttach
<1>13. ASSUME NEW t \in Threads, LoadTriggered(t) PROVE OnceInv'
  BY <1>13, OnceFrame DEF LoadTriggered
<1>14. ASSUME NEW t \in Threads, RunNow(t) PROVE OnceInv'
  BY <1>14, OnceRunNow
<1>15. ASSUME NEW t \in Threads, Emplace(t) PROVE OnceInv'
  BY <1>15, OnceEmplace
<1>16. ASSUME NEW t \in Threads, ReloadTriggered(t) PROVE OnceInv'
  BY <1>16, OnceFrame DEF ReloadTriggered
<1> QED BY <1>1, <1>2, <1>3, <1>4, <1>5, <1>6, <1>7, <1>8, <1>9, <1>10, <1>11,
           <1>12, <1>13, <1>14, <1>15, <1>16 DEF Next, Call, Step

\* An action is in one thread's hands, in the queue, in one batch, or has run,
\* and in no two of these: attach and the drains hand it on exactly once.
THEOREM OnceCorrect == SafeSpec => []OnceInv
  BY InitType, NextType, InitOnce, NextOnce, PTL DEF SafeSpec

\* However many threads drain the queue at once, no action is run twice.
THEOREM NoActionRunsTwice == SafeSpec => []AtMostOnce
<1>1. OnceInv => AtMostOnce
  BY DEF OnceInv, Fresh, AtMostOnce
<1> QED BY <1>1, OnceCorrect, PTL

-----------------------------------------------------------------------------
(* The interleaved calls implement the abstract latch.                      *)

AbsPending == {a \in attached : runs[a] = 0}
AbsDone == {a \in attached : runs[a] > 0}

\* A new event is a new latch.
LEMMA InitLatch == Init => L!Init
<1> SUFFICES ASSUME Init PROVE L!Init
  OBVIOUS
<1>1. Out = InitialTokens
  BY TokensAssumption, PlacesAssumption DEF Init, Out
<1> QED BY <1>1 DEF Init, L!Init

\* A step that changes nothing the latch sees.
LEMMA LatchFrame ==
  ASSUME UNCHANGED <<triggered, attached, runs>>, Out' = Out
  PROVE  UNCHANGED L!latchVars
  BY DEF L!latchVars

\* Taking a unit that is held for a call changes no hold.
LEMMA LatchTake ==
  ASSUME TypeOK, NEW t \in Threads, NEW k \in Tokens, place[k] = Held,
         place' = [place EXCEPT ![k] = t]
  PROVE  Out' = Out
  BY PlacesAssumption DEF Out, TypeOK

\* An action that runs is one step of the latch.
LEMMA LatchRun ==
  ASSUME TypeOK, Fresh, triggered, NEW a \in Actions, a \in attached, runs[a] = 0,
         runs' = [runs EXCEPT ![a] = 1], UNCHANGED <<triggered, attached>>, Out' = Out
  PROVE  L!Next
<1>1. AbsPending' = AbsPending \ {a} /\ a \in AbsPending
  BY DEF AbsPending, TypeOK
<1>2. AbsDone' = AbsDone \cup {a}
  BY DEF AbsDone, TypeOK
<1>3. L!Run(a)
  BY <1>1, <1>2 DEF L!Run, AbsPending, AbsDone
<1> QED BY <1>3 DEF L!Next

\* Every step of the code is a step of the latch or changes nothing it sees.
LEMMA NextLatch ==
  TypeOK /\ CountInv /\ TriggeredInv /\ OnceInv /\ [Next]_vars => [L!Next]_(L!latchVars)
<1> SUFFICES ASSUME TypeOK, CountInv, TriggeredInv, OnceInv, [Next]_vars
             PROVE  L!Next \/ UNCHANGED L!latchVars
  BY DEF L!latchVars
<1> DEFINE Sim == L!Next \/ UNCHANGED L!latchVars
<1>1. CASE UNCHANGED vars
  <2>1. Out' = Out
    BY <1>1 DEF vars, Out
  <2> QED BY <1>1, <2>1, LatchFrame DEF vars
<1>2. ASSUME NEW t \in Threads, StartAdvance(t) PROVE Sim
  <2>1. Out' = Out
    BY <1>2, LatchTake DEF StartAdvance
  <2> QED BY <1>2, <2>1, LatchFrame DEF StartAdvance
<1>3. ASSUME NEW t \in Threads, AdvanceAssert(t) PROVE Sim
  <2>1. Out' = Out
    BY <1>3 DEF AdvanceAssert, Out
  <2> QED BY <1>3, <2>1, LatchFrame DEF AdvanceAssert
<1>4. ASSUME NEW t \in Threads, AdvanceAdd(t) PROVE Sim
  <2>1. PICK S \in SUBSET {k \in Tokens : place[k] = Free} :
          place' = [k \in Tokens |-> IF k \in S \/ place[k] = t THEN Held ELSE place[k]]
    BY <1>4 DEF AdvanceAdd
  <2>2. Out' = Out \cup S /\ S \subseteq Tokens \ Out
    BY <2>1, PlacesAssumption DEF Out, TypeOK
  <2>3. Out # {}
    <3>1. PICK k \in Tokens : place[k] = t
      BY <1>4 DEF CountInv, AdvanceAdd, UsingLabels
    <3> QED BY <3>1, PlacesAssumption DEF Out
  <2>4. L!Acquire(S)
    BY <1>4, <2>2, <2>3 DEF L!Acquire, AdvanceAdd
  <2>5. S \in SUBSET Tokens
    BY <2>1
  <2> QED BY <2>4, <2>5 DEF L!Next
<1>5. ASSUME NEW t \in Threads, StartDecrement(t) PROVE Sim
  <2>1. Out' = Out
    BY <1>5, LatchTake DEF StartDecrement
  <2> QED BY <1>5, <2>1, LatchFrame DEF StartDecrement
<1>6. ASSUME NEW t \in Threads, DecrementAssert(t) PROVE Sim
  <2>1. Out' = Out
    BY <1>6 DEF DecrementAssert, Out
  <2> QED BY <1>6, <2>1, LatchFrame DEF DecrementAssert
<1>7. ASSUME NEW t \in Threads, DecrementSub(t) PROVE Sim
  <2>1. PICK k \in Tokens : place[k] = t /\ place' = [place EXCEPT ![k] = Free]
    BY <1>7 DEF DecrementSub
  <2>2. k \in Out /\ Out' = Out \ {k}
    BY <2>1, PlacesAssumption DEF Out, TypeOK
  <2>3. L!Release(k)
    BY <1>7, <2>2 DEF L!Release, DecrementSub
  <2> QED BY <2>3 DEF L!Next
<1>8. ASSUME NEW t \in Threads, StoreTriggered(t) PROVE Sim
  <2>1. Out' = Out /\ Out = {}
    BY <1>8 DEF StoreTriggered, Out, CountInv
  <2>2. CASE triggered
    BY <1>8, <2>1, <2>2, LatchFrame DEF StoreTriggered
  <2>3. CASE ~triggered
    <3>1. L!Open
      BY <1>8, <2>1, <2>3 DEF L!Open, StoreTriggered
    <3> QED BY <3>1 DEF L!Next
  <2> QED BY <2>2, <2>3
<1>9. ASSUME NEW t \in Threads, Exchange(t) PROVE Sim
  <2>1. Out' = Out
    BY <1>9 DEF Exchange, Out
  <2> QED BY <1>9, <2>1, LatchFrame DEF Exchange
<1>10. ASSUME NEW t \in Threads, ConsumeOne(t) PROVE Sim
  <2> DEFINE h == Head(batch[t])
  <2>1. h \in Range(batch[t]) /\ h \in Actions /\ triggered
    BY <1>10, RangeTail DEF ConsumeOne, TypeOK, TriggeredInv
  <2>2. h \in attached /\ runs[h] = 0
    BY <2>1 DEF OnceInv, Fresh, Waiting
  <2>3. runs' = [runs EXCEPT ![h] = 1] /\ Out' = Out
    BY <1>10, <2>1, <2>2 DEF ConsumeOne, TypeOK, Out
  <2> QED BY <1>10, <2>1, <2>2, <2>3, LatchRun DEF ConsumeOne, OnceInv
<1>11. ASSUME NEW t \in Threads, ConsumedAll(t) PROVE Sim
  <2>1. Out' = Out
    BY <1>11 DEF ConsumedAll, Out
  <2> QED BY <1>11, <2>1, LatchFrame DEF ConsumedAll
<1>12. ASSUME NEW t \in Threads, NEW a \in Actions, StartAttach(t, a) PROVE Sim
  <2>1. Out' = Out
    BY <1>12 DEF StartAttach, Out
  <2>2. runs[a] = 0
    BY <1>12 DEF OnceInv, Fresh, StartAttach
  <2>3. AbsPending' = AbsPending \cup {a} /\ AbsDone' = AbsDone
        /\ a \notin AbsPending \cup AbsDone
    BY <1>12, <2>2 DEF AbsPending, AbsDone, StartAttach
  <2>4. L!Attach(a)
    BY <1>12, <2>1, <2>3 DEF L!Attach, StartAttach, AbsPending, AbsDone
  <2> QED BY <2>4 DEF L!Next
<1>13. ASSUME NEW t \in Threads, LoadTriggered(t) PROVE Sim
  <2>1. Out' = Out
    BY <1>13 DEF LoadTriggered, Out
  <2> QED BY <1>13, <2>1, LatchFrame DEF LoadTriggered
<1>14. ASSUME NEW t \in Threads, RunNow(t) PROVE Sim
  <2>1. PICK a \in Actions : arg[t] = {a}
    BY <1>14 DEF OnceInv, ArgInv, RunNow
  <2>2. a \in attached /\ runs[a] = 0 /\ triggered
    BY <1>14, <2>1 DEF OnceInv, Fresh, Waiting, TriggeredInv, RunNow
  <2>3. runs' = [runs EXCEPT ![a] = 1] /\ Out' = Out
    <3>1. runs' = [b \in Actions |-> IF b \in arg[t] THEN runs[b] + 1 ELSE runs[b]]
          /\ Out' = Out
      BY <1>14 DEF RunNow, Out
    <3>2. \A b \in Actions : runs'[b] = [runs EXCEPT ![a] = 1][b]
      BY <2>1, <2>2, <3>1 DEF TypeOK
    <3> QED BY <3>1, <3>2 DEF TypeOK
  <2> QED BY <1>14, <2>2, <2>3, LatchRun DEF RunNow, OnceInv
<1>15. ASSUME NEW t \in Threads, Emplace(t) PROVE Sim
  <2>1. Out' = Out
    BY <1>15 DEF Emplace, Out
  <2> QED BY <1>15, <2>1, LatchFrame DEF Emplace
<1>16. ASSUME NEW t \in Threads, ReloadTriggered(t) PROVE Sim
  <2>1. Out' = Out
    BY <1>16 DEF ReloadTriggered, Out
  <2> QED BY <1>16, <2>1, LatchFrame DEF ReloadTriggered
<1> QED BY <1>1, <1>2, <1>3, <1>4, <1>5, <1>6, <1>7, <1>8, <1>9, <1>10, <1>11,
           <1>12, <1>13, <1>14, <1>15, <1>16 DEF Next, Call, Step

\* Every behaviour of the event and its counter is one of the abstract latch.
THEOREM RefinesLatch == SafeSpec => L!SafeSpec
  BY InitType, NextType, InitCount, NextCount, InitTriggered, NextTriggered, InitOnce,
     NextOnce, InitLatch, NextLatch, PTL DEF SafeSpec, L!SafeSpec
=============================================================================
