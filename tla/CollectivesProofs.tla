-------------------------- MODULE CollectivesProofs --------------------------
(***************************************************************************)
(* An allreduce completes after exactly its contributions, for any indices *)
(* and whoever makes their flows ready; and the reduction of a collection  *)
(* is complete and undisturbed, for any number of indices and any earlier  *)
(* users of the output.                                                    *)
(***************************************************************************)
EXTENDS MCCollectives, FiniteSetTheorems, SequenceTheorems, TLAPS

Later == Called \ {First}

\* What may be attached to a flow.
Acts ==
  {Decrement(f) : f \in Flows} \cup {Contribute(i) : i \in Indices} \cup {Reduce(i) : i \in Indices}
    \cup {Attach(InFlow(i), Reduce(j)) : i, j \in Indices}

Ops ==
  Acts \cup {Attach(f, a) : f \in Flows, a \in Acts} \cup {Reducing(i) : i \in Indices}
    \cup {Release(i) : i \in Indices} \cup {Copy, Erase, Unlock}

Types ==
  /\ has_anti_in \subseteq Indices
  /\ ready \subseteq Flows
  /\ actions \in [Flows -> Seq(Acts)]
  /\ in_map \in BOOLEAN
  /\ input_uses \in Seq(Indices)
  /\ count \in Nat
  /\ contributed \in [Indices -> Nat]
  /\ copied \in BOOLEAN
  /\ agenda \in [Threads -> Seq(Ops)]

\* Nobody does anything before its time, and the tag is erased after the last call.
Idle ==
  /\ \A i \in Indices : i \notin Called => agenda[<<i, "call">>] = <<>> /\ contributed[i] = 0
  /\ \A f \in Flows : f \notin ready => agenda[f] = <<>>
  /\ \A f \in Flows : f \in ready => actions[f] = <<>>
  /\ in_map => input_uses # <<>>
  /\ ~in_map => input_uses = <<>> \/ count = 0
  /\ copied => count = 0

\* Which action waits for which flow, and what is known when it does: a later use's
\* data is there before it is attached to the flows of the first use.
Kept(f, a) ==
  \/ \E i \in Called : f = AntiInFlow(i) /\ a = Decrement(AntiInFlow(i))
  \/ Called # {} /\ f = InFlow(First) /\ a = Decrement(InFlow(First))
  \/ \E i \in Later : contributed[i] = 0 /\ f = InFlow(i) /\ a = Contribute(i)
  \/ \E i \in Later :
       /\ contributed[i] = 0 /\ InFlow(i) \in ready
       /\ \/ f = AntiInFlow(First) /\ a = Attach(InFlow(First), Reduce(i))
          \/ f = InFlow(First) /\ a = Reduce(i)

\* What is known when an operation is on an agenda.
Due(op) ==
  \/ op.do = "attach" /\ op.action \in Acts /\ op = Attach(op.flow, op.action) /\ Kept(op.flow, op.action)
  \/ \E i \in Called :
       op = Decrement(AntiInFlow(i)) /\ (i \in has_anti_in => AntiInFlow(i) \in ready)
  \/ Called # {} /\ op = Decrement(InFlow(First)) /\ InFlow(First) \in ready
  \/ \E i \in Later :
       /\ InFlow(i) \in ready
       /\ \/ contributed[i] = 0 /\ op \in {Contribute(i), Reduce(i), Reducing(i)}
          \/ contributed[i] = 1 /\ op = Decrement(InFlow(i))
  \/ count = 0 /\ op \in {Copy, Erase} \cup {Release(i) : i \in Indices}
  \/ op = Unlock

Timely ==
  /\ \A th \in Threads : \A k \in DOMAIN agenda[th] : Due(agenda[th][k])
  /\ \A f \in Flows : \A k \in DOMAIN actions[f] : Kept(f, actions[f][k])

\* One and no more is responsible for a decrement.
OneHolder ==
  \A p, q \in Places : \A j \in DOMAIN At(p), k \in DOMAIN At(q) : \A u \in Flows :
    Gives(At(p)[j], u) /\ Gives(At(q)[k], u) => p = q /\ j = k

\* What a decrement that was made stands for.
Made(i) ==
  /\ ~Held(InFlow(i)) => InFlow(i) \in ready /\ (i # First => contributed[i] = 1)
  /\ ~Held(AntiInFlow(i)) /\ i \in has_anti_in => AntiInFlow(i) \in ready

IInv ==
  /\ Types /\ Idle /\ Timely /\ OneHolder
  /\ count = Cardinality(Outstanding)
  /\ \A i \in Called : Made(i)
-----------------------------------------------------------------------------
(* Operations and sequences                                                 *)

LEMMA Verbs ==
  /\ \A f : Decrement(f).do = "decrement" /\ Decrement(f).unit = f
  /\ \A i : Contribute(i).do = "contribute" /\ Contribute(i).index = i /\ Contribute(i).unit = InFlow(i)
  /\ \A i : Reduce(i).do = "reduce" /\ Reduce(i).index = i /\ Reduce(i).unit = InFlow(i)
  /\ \A i : Reducing(i).do = "reducing" /\ Reducing(i).index = i /\ Reducing(i).unit = InFlow(i)
  /\ \A f, a : /\ Attach(f, a).do = "attach" /\ Attach(f, a).flow = f
               /\ Attach(f, a).action = a /\ Attach(f, a).unit = a.unit
  /\ \A i : Release(i).do = "release" /\ Release(i).index = i
  /\ Copy.do = "copy" /\ Erase.do = "erase" /\ Unlock.do = "unlock"
  BY DEF Decrement, Contribute, Reduce, Reducing, Attach, Release, Copy, Erase, Unlock

LEMMA Units ==
  ASSUME NEW u
  PROVE  /\ \A f : Gives(Decrement(f), u) <=> u = f
         /\ \A i : /\ Gives(Contribute(i), u) <=> u = InFlow(i)
                   /\ Gives(Reduce(i), u) <=> u = InFlow(i)
                   /\ Gives(Reducing(i), u) <=> u = InFlow(i)
                   /\ ~Gives(Release(i), u)
         /\ \A f, a : Gives(Attach(f, a), u) <=> u = a.unit
         /\ ~Gives(Copy, u) /\ ~Gives(Erase, u) /\ ~Gives(Unlock, u)
         /\ \A f : \A a \in Acts : Gives(Attach(f, a), u) <=> Gives(a, u)
<1>1. \A a \in Acts : a.do \in {"attach", "contribute", "reduce", "decrement"}
  BY Verbs DEF Acts
<1> QED BY Verbs, <1>1 DEF Gives

LEMMA Flowing ==
  /\ \A i \in Indices :
       /\ InFlow(i) \in Flows /\ AntiInFlow(i) \in Flows
       /\ InFlow(i)[1] = i /\ AntiInFlow(i)[1] = i
       /\ <<i, "call">> \in Threads /\ <<i, "call">> \notin Flows
  /\ \A i, j \in Indices :
       /\ InFlow(i) # AntiInFlow(j) /\ (InFlow(i) = InFlow(j) => i = j)
       /\ (AntiInFlow(i) = AntiInFlow(j) => i = j)
       /\ (<<i, "call">> = <<j, "call">> => i = j)
  BY DEF InFlow, AntiInFlow, Flows, Threads

LEMMA FlowForms ==
  /\ \A f \in Flows : \E i \in Indices : f = InFlow(i) \/ f = AntiInFlow(i)
  /\ \A f \in Flows : f \in Threads
  /\ \A th \in Threads : th \in Flows \/ \E i \in Indices : th = <<i, "call">>
  BY DEF InFlow, AntiInFlow, Flows, Threads

LEMMA OpsFacts ==
  /\ Acts \subseteq Ops
  /\ \A f \in Flows : Decrement(f) \in Acts
  /\ \A i \in Indices : Contribute(i) \in Acts /\ Reduce(i) \in Acts /\ Reducing(i) \in Ops /\ Release(i) \in Ops
  /\ \A i, j \in Indices : Attach(InFlow(i), Reduce(j)) \in Acts
  /\ \A f \in Flows : \A a \in Acts : Attach(f, a) \in Ops
  /\ Copy \in Ops /\ Erase \in Ops /\ Unlock \in Ops
  BY DEF Acts, Ops

\* A script whose first operation was done and replaced by others.
LEMMA Spliced ==
  ASSUME NEW S, NEW s \in Seq(S), s # <<>>, NEW ops \in Seq(S), NEW t, t = ops \o Tail(s)
  PROVE  /\ t \in Seq(S) /\ Len(t) = Len(ops) + Len(s) - 1
         /\ \A k \in DOMAIN t :
              IF k <= Len(ops) THEN k \in DOMAIN ops /\ t[k] = ops[k]
                               ELSE k - Len(ops) + 1 \in DOMAIN s /\ k - Len(ops) + 1 # 1
                                    /\ t[k] = s[k - Len(ops) + 1]
<1>1. Tail(s) \in Seq(S) /\ Len(Tail(s)) = Len(s) - 1 /\ Len(s) \in Nat /\ Len(s) > 0
  OBVIOUS
<1>2. \A k \in 1..Len(Tail(s)) : Tail(s)[k] = s[k + 1]
  OBVIOUS
<1>3. /\ ops \o Tail(s) \in Seq(S) /\ Len(ops \o Tail(s)) = Len(ops) + Len(Tail(s))
      /\ \A i \in 1..Len(ops) + Len(Tail(s)) :
           (ops \o Tail(s))[i] = IF i <= Len(ops) THEN ops[i] ELSE Tail(s)[i - Len(ops)]
  BY <1>1, ConcatProperties, Zenon
<1>4. ASSUME NEW k \in DOMAIN t
      PROVE  IF k <= Len(ops) THEN k \in DOMAIN ops /\ t[k] = ops[k]
                              ELSE k - Len(ops) + 1 \in DOMAIN s /\ k - Len(ops) + 1 # 1
                                   /\ t[k] = s[k - Len(ops) + 1]
  <2> DEFINE m == Len(ops)
             n == Len(Tail(s))
  <2>1. m \in Nat /\ n \in Nat /\ k \in 1..(m + n)
    BY <1>1, <1>3
  <2>2. t[k] = IF k <= m THEN ops[k] ELSE Tail(s)[k - m]
    BY <1>3, <2>1
  <2>3. CASE k <= m
    <3>1. k \in DOMAIN ops
      BY <2>1, <2>3
    <3> QED BY <2>2, <2>3, <3>1
  <2>4. CASE ~(k <= m)
    <3>1. k - m \in 1..n /\ k - m + 1 \in 1..Len(s) /\ k - m + 1 # 1
      BY <2>1, <2>4, <1>1
    <3>2. Tail(s)[k - m] = s[k - m + 1]
      BY <3>1, <1>2
    <3>3. k - m + 1 \in DOMAIN s
      BY <3>1
    <3> QED BY <2>2, <2>4, <3>1, <3>2, <3>3
  <2> QED BY <2>3, <2>4
<1> QED BY <1>1, <1>3, <1>4

LEMMA OneTwo ==
  ASSUME NEW S, NEW a \in S, NEW b \in S, NEW c \in S
  PROVE  <<a>> \o <<b, c>> = <<a, b, c>>
<1> DEFINE s == <<a>>
           t == <<b, c>>
           u == <<a, b, c>>
<1>1. s \in Seq(S) /\ t \in Seq(S) /\ u \in Seq(S) /\ Len(s) = 1 /\ Len(t) = 2 /\ Len(u) = 3
  OBVIOUS
<1>2. u[1] = s[1] /\ u[2] = t[1] /\ u[3] = t[2]
  OBVIOUS
<1> HIDE DEF s, t, u
<1>3. /\ s \o t \in Seq(S) /\ Len(s \o t) = Len(s) + Len(t)
      /\ \A i \in 1..Len(s) + Len(t) : (s \o t)[i] = IF i <= Len(s) THEN s[i] ELSE t[i - Len(s)]
  BY <1>1, ConcatProperties, Zenon
<1>4. \A i \in 1..Len(u) : u[i] = (s \o t)[i]
  BY <1>1, <1>2, <1>3
<1>5. Len(u) = Len(s \o t)
  BY <1>1, <1>3
<1>6. s \o t = u
  BY <1>1, <1>3, <1>4, <1>5, SeqEqual, Zenon
<1> QED BY <1>6 DEF s, t, u

\* The places.
LEMMA Spots ==
  /\ \A th \in Threads : <<th, "agenda">> \in Places /\ At(<<th, "agenda">>) = agenda[th]
  /\ \A f \in Flows : <<f, "actions">> \in Places /\ At(<<f, "actions">>) = actions[f]
  /\ \A p \in Places : \/ \E th \in Threads : p = <<th, "agenda">>
                       \/ \E f \in Flows : p = <<f, "actions">>
  BY DEF Places, At

LEMMA SpotsAfter ==
  /\ \A th \in Threads : <<th, "agenda">> \in Places /\ At(<<th, "agenda">>)' = agenda'[th]
  /\ \A f \in Flows : <<f, "actions">> \in Places /\ At(<<f, "actions">>)' = actions'[f]
  BY DEF Places, At
-----------------------------------------------------------------------------
(* Who is responsible after a step                                          *)

LEMMA ThenMove ==
  ASSUME Types, NEW th \in Threads, agenda[th] # <<>>, NEW ops \in Seq(Ops), Then(th, ops)
  PROVE  /\ agenda' \in [Threads -> Seq(Ops)] /\ agenda'[th] = ops \o Tail(agenda[th])
         /\ \A x \in Threads : x # th => agenda'[x] = agenda[x]
         /\ Head(agenda[th]) = agenda[th][1] /\ 1 \in DOMAIN agenda[th] /\ agenda[th] \in Seq(Ops)
<1>1. agenda \in [Threads -> Seq(Ops)] /\ agenda[th] \in Seq(Ops)
  BY DEF Types
<1>2. agenda' = [agenda EXCEPT ![th] = ops \o Tail(agenda[th])]
  BY DEF Then
<1>3. Head(agenda[th]) = agenda[th][1] /\ 1 \in DOMAIN agenda[th]
  BY <1>1
<1>4. ops \o Tail(agenda[th]) \in Seq(Ops)
  BY <1>1, Spliced
<1> QED BY <1>1, <1>2, <1>3, <1>4

\* An operation is replaced by another with the same responsibility.
LEMMA HandOver ==
  ASSUME Types, OneHolder, NEW th \in Threads, agenda[th] # <<>>, NEW op \in Ops,
         \A u \in Flows : Gives(op, u) => Gives(Head(agenda[th]), u),
         \A u \in Flows : Gives(Head(agenda[th]), u) => Gives(op, u),
         Then(th, <<op>>), UNCHANGED actions
  PROVE  OneHolder' /\ \A u \in Flows : Held(u)' <=> Held(u)
<1> DEFINE x == <<th, "agenda">>
           s == agenda[th]
           t == agenda'[th]
<1>0. <<op>> \in Seq(Ops) /\ Len(<<op>>) = 1 /\ <<op>>[1] = op
  OBVIOUS
<1>1. /\ t = <<op>> \o Tail(s) /\ \A y \in Threads : y # th => agenda'[y] = agenda[y]
      /\ Head(s) = s[1] /\ 1 \in DOMAIN s /\ s \in Seq(Ops)
  BY <1>0, ThenMove
<1>2. /\ t \in Seq(Ops) /\ Len(t) = Len(s)
      /\ \A k \in DOMAIN t : t[k] = IF k = 1 THEN op ELSE s[k]
  <2>1. /\ t \in Seq(Ops) /\ Len(t) = 1 + Len(s) - 1
        /\ \A k \in DOMAIN t : IF k <= 1 THEN k \in DOMAIN <<op>> /\ t[k] = <<op>>[k]
                                         ELSE t[k] = s[k - 1 + 1]
    BY <1>0, <1>1, Spliced
  <2> HIDE DEF s, t
  <2>2. \A k \in DOMAIN t : k \in Nat /\ k >= 1
    BY <2>1
  <2> QED BY <2>1, <2>2, <1>0, <1>1
<1>3. DOMAIN t = DOMAIN s
  BY <1>1, <1>2
<1>4. \A p \in Places : p # x => At(p)' = At(p)
  <2>1. ASSUME NEW y \in Threads, y # th PROVE At(<<y, "agenda">>)' = At(<<y, "agenda">>)
    BY <1>1, <2>1, Spots, SpotsAfter
  <2>2. ASSUME NEW f \in Flows PROVE At(<<f, "actions">>)' = At(<<f, "actions">>)
    BY Spots, SpotsAfter
  <2> QED BY <2>1, <2>2, Spots
<1>5. x \in Places /\ At(x) = s /\ At(x)' = t
  BY Spots, SpotsAfter
<1>6. \A p \in Places : DOMAIN At(p)' = DOMAIN At(p)
  BY <1>3, <1>4, <1>5
<1>7. \A p \in Places : \A k \in DOMAIN At(p) : \A u \in Flows : Gives(At(p)'[k], u) <=> Gives(At(p)[k], u)
  <2>1. \A k \in DOMAIN s : \A u \in Flows : Gives(t[k], u) <=> Gives(s[k], u)
    <3> HIDE DEF s, t
    <3>1. Head(agenda[th]) = s[1]
      BY <1>1 DEF s
    <3> QED BY <1>2, <1>3, <3>1
  <2> HIDE DEF s, t, x
  <2> QED BY <1>4, <1>5, <2>1
<1> HIDE DEF x, s, t
<1> QED BY <1>6, <1>7 DEF OneHolder, Held

\* An operation is done, and whoever was responsible with it no longer is.
LEMMA GiveUp ==
  ASSUME Types, OneHolder, NEW th \in Threads, agenda[th] # <<>>, NEW ops \in Seq(Ops),
         \A k \in DOMAIN ops : \A u \in Flows : ~Gives(ops[k], u),
         Then(th, ops), UNCHANGED actions
  PROVE  OneHolder' /\ \A u \in Flows : Held(u)' <=> Held(u) /\ ~Gives(Head(agenda[th]), u)
<1> DEFINE x == <<th, "agenda">>
           s == agenda[th]
           t == agenda'[th]
           n == Len(ops)
           from(p, k) == IF p = x THEN k - n + 1 ELSE k
<1>1. /\ t = ops \o Tail(s) /\ \A y \in Threads : y # th => agenda'[y] = agenda[y]
      /\ Head(s) = s[1] /\ 1 \in DOMAIN s /\ s \in Seq(Ops)
  BY ThenMove
<1>2. /\ t \in Seq(Ops) /\ Len(t) = n + Len(s) - 1
      /\ \A k \in DOMAIN t : IF k <= n THEN k \in DOMAIN ops /\ t[k] = ops[k]
                                       ELSE k - n + 1 \in DOMAIN s /\ k - n + 1 # 1
                                            /\ t[k] = s[k - n + 1]
  BY <1>1, Spliced, SMTT(60), ZenonT(60)
<1>3. \A p \in Places : p # x => At(p)' = At(p)
  <2>1. ASSUME NEW y \in Threads, y # th PROVE At(<<y, "agenda">>)' = At(<<y, "agenda">>)
    BY <1>1, <2>1, Spots, SpotsAfter
  <2>2. ASSUME NEW f \in Flows PROVE At(<<f, "actions">>)' = At(<<f, "actions">>)
    BY Spots, SpotsAfter
  <2> QED BY <2>1, <2>2, Spots
<1>4. x \in Places /\ At(x) = s /\ At(x)' = t
  BY Spots, SpotsAfter
<1>5. n \in Nat
  OBVIOUS
<1> HIDE DEF x, s, t, n
<1>6. ASSUME NEW p \in Places, NEW k \in DOMAIN At(p)', NEW u \in Flows, Gives(At(p)'[k], u)
      PROVE  /\ from(p, k) \in DOMAIN At(p) /\ Gives(At(p)[from(p, k)], u)
             /\ p = x => from(p, k) # 1
  <2>1. CASE p = x
    <3>1. k \in DOMAIN t /\ Gives(t[k], u)
      BY <1>4, <1>6, <2>1
    <3>2. ~(k <= n)
      BY <1>2, <3>1
    <3> QED BY <1>2, <1>4, <2>1, <3>1, <3>2
  <2>2. CASE p # x
    BY <1>3, <1>6, <2>2
  <2> QED BY <2>1, <2>2
<1>7. \A p \in Places : \A j, k \in DOMAIN At(p)' : from(p, j) = from(p, k) => j = k
  <2>1. \A j, k \in DOMAIN t : j - n + 1 = k - n + 1 => j = k
    BY <1>2, <1>5
  <2> QED BY <2>1, <1>4
<1>8. OneHolder'
  <2> SUFFICES ASSUME NEW p \in Places, NEW q \in Places, NEW j \in DOMAIN At(p)',
                      NEW k \in DOMAIN At(q)', NEW u \in Flows,
                      Gives(At(p)'[j], u), Gives(At(q)'[k], u)
               PROVE  p = q /\ j = k
    BY DEF OneHolder
  <2>1. p = q /\ from(p, j) = from(q, k)
    BY <1>6 DEF OneHolder
  <2> QED BY <2>1, <1>7
<1>9. ASSUME NEW u \in Flows, Held(u)' PROVE Held(u) /\ ~Gives(Head(agenda[th]), u)
  <2>1. PICK p \in Places : \E k \in DOMAIN At(p)' : Gives(At(p)'[k], u)
    BY <1>9 DEF Held
  <2>2. PICK k \in DOMAIN At(p)' : Gives(At(p)'[k], u)
    BY <2>1
  <2>3. from(p, k) \in DOMAIN At(p) /\ Gives(At(p)[from(p, k)], u) /\ (p = x => from(p, k) # 1)
    BY <1>6, <2>2
  <2>4. ~Gives(At(x)[1], u)
    BY <2>3, <1>1, <1>4 DEF OneHolder
  <2> QED BY <2>3, <2>4, <1>1, <1>4 DEF Held, s
<1>10. ASSUME NEW u \in Flows, Held(u), ~Gives(Head(agenda[th]), u) PROVE Held(u)'
  <2>1. PICK p \in Places : \E k \in DOMAIN At(p) : Gives(At(p)[k], u)
    BY <1>10 DEF Held
  <2>2. PICK k \in DOMAIN At(p) : Gives(At(p)[k], u)
    BY <2>1
  <2>3. CASE p # x
    BY <1>3, <2>2, <2>3 DEF Held
  <2>4. CASE p = x
    <3>1. k \in DOMAIN s /\ k # 1 /\ Gives(s[k], u)
      BY <1>1, <1>4, <1>10, <2>2, <2>4 DEF s
    <3>2. k \in 1..Len(s) /\ Len(s) \in Nat /\ DOMAIN t = 1..Len(t)
      BY <1>1, <1>2, <3>1
    <3>3. k + n - 1 \in DOMAIN t /\ ~(k + n - 1 <= n) /\ (k + n - 1) - n + 1 = k
      BY <1>2, <1>5, <3>1, <3>2
    <3>4. t[k + n - 1] = s[k]
      BY <1>2, <3>3
    <3> QED BY <1>4, <3>1, <3>3, <3>4 DEF Held
  <2> QED BY <2>3, <2>4
<1> QED BY <1>8, <1>9, <1>10

\* An operation leaves what it is responsible for to an action of a flow.
LEMMA LeaveTo ==
  ASSUME Types, OneHolder, NEW th \in Threads, agenda[th] # <<>>, NEW f \in Flows, NEW a \in Acts,
         \A u \in Flows : Gives(a, u) => Gives(Head(agenda[th]), u),
         \A u \in Flows : Gives(Head(agenda[th]), u) => Gives(a, u),
         Then(th, <<>>), actions' = [actions EXCEPT ![f] = Append(@, a)]
  PROVE  OneHolder' /\ \A u \in Flows : Held(u)' <=> Held(u)
<1> DEFINE x == <<th, "agenda">>
           y == <<f, "actions">>
           s == agenda[th]
           t == agenda'[th]
           n == Len(actions[f])
           from(p, k) == IF p = x THEN <<x, k + 1>>
                         ELSE IF p = y /\ k = n + 1 THEN <<x, 1>> ELSE <<p, k>>
<1>0. <<>> \in Seq(Ops) /\ Len(<<>>) = 0
  OBVIOUS
<1>1. /\ t = <<>> \o Tail(s) /\ \A z \in Threads : z # th => agenda'[z] = agenda[z]
      /\ Head(s) = s[1] /\ 1 \in DOMAIN s /\ s \in Seq(Ops)
  BY <1>0, ThenMove
<1>2. /\ t \in Seq(Ops) /\ Len(t) = Len(s) - 1
      /\ \A k \in DOMAIN t : k + 1 \in DOMAIN s /\ t[k] = s[k + 1]
  <2>1. /\ t \in Seq(Ops) /\ Len(t) = 0 + Len(s) - 1
        /\ \A k \in DOMAIN t : IF k <= 0 THEN k \in DOMAIN <<>>
                                         ELSE k - 0 + 1 \in DOMAIN s /\ t[k] = s[k - 0 + 1]
    BY <1>0, <1>1, Spliced
  <2> HIDE DEF s, t
  <2>2. \A k \in DOMAIN t : k \in Nat /\ k >= 1
    BY <2>1
  <2> QED BY <2>1, <2>2, <1>1
<1>3. n \in Nat /\ actions[f] \in Seq(Acts) /\ DOMAIN actions[f] = 1..n
  BY DEF Types
<1>4. /\ actions'[f] = Append(actions[f], a) /\ DOMAIN actions'[f] = 1..(n + 1)
      /\ actions'[f][n + 1] = a /\ \A k \in 1..n : actions'[f][k] = actions[f][k]
  <2>1. actions'[f] = Append(actions[f], a)
    BY DEF Types
  <2> QED BY <2>1, <1>3
<1>5. \A p \in Places : p # x /\ p # y => At(p)' = At(p)
  <2>1. ASSUME NEW z \in Threads, z # th PROVE At(<<z, "agenda">>)' = At(<<z, "agenda">>)
    BY <1>1, <2>1, Spots, SpotsAfter
  <2>2. ASSUME NEW g \in Flows, g # f PROVE At(<<g, "actions">>)' = At(<<g, "actions">>)
    <3>1. actions'[g] = actions[g]
      BY <2>2 DEF Types
    <3> QED BY <3>1, Spots, SpotsAfter
  <2> QED BY <2>1, <2>2, Spots
<1>6. /\ x \in Places /\ At(x) = s /\ At(x)' = t
      /\ y \in Places /\ At(y) = actions[f] /\ At(y)' = actions'[f] /\ x # y
  BY Spots, SpotsAfter
<1>7. Head(agenda[th]) = s[1]
  BY <1>1
<1> HIDE DEF x, y, s, t, n
<1>8. ASSUME NEW p \in Places, NEW k \in DOMAIN At(p)', NEW u \in Flows, Gives(At(p)'[k], u)
      PROVE  \E q \in Places : \E j \in DOMAIN At(q) : from(p, k) = <<q, j>> /\ Gives(At(q)[j], u)
  <2>1. CASE p = x
    BY <1>2, <1>6, <1>8, <2>1
  <2>2. CASE p = y /\ k = n + 1
    BY <1>1, <1>4, <1>6, <1>7, <1>8, <2>2
  <2>3. CASE p = y /\ k # n + 1
    <3>1. k \in 1..n
      BY <1>3, <1>4, <1>6, <2>3
    <3> QED BY <1>3, <1>4, <1>6, <1>8, <2>3, <3>1
  <2>4. CASE p # x /\ p # y
    BY <1>5, <1>8, <2>4
  <2> QED BY <2>1, <2>2, <2>3, <2>4
<1>9. \A k \in DOMAIN t : k \in Nat /\ k >= 1
  BY <1>2
<1>10. ASSUME NEW p \in Places, NEW q \in Places, NEW j \in DOMAIN At(p)', NEW k \in DOMAIN At(q)',
              from(p, j) = from(q, k)
       PROVE  p = q /\ j = k
  <2>1. p = x => j \in Nat /\ j >= 1
    BY <1>6, <1>9
  <2>2. q = x => k \in Nat /\ k >= 1
    BY <1>6, <1>9
  <2> QED BY <1>10, <2>1, <2>2
<1>11. OneHolder'
  <2> SUFFICES ASSUME NEW p \in Places, NEW q \in Places, NEW j \in DOMAIN At(p)',
                      NEW k \in DOMAIN At(q)', NEW u \in Flows,
                      Gives(At(p)'[j], u), Gives(At(q)'[k], u)
               PROVE  p = q /\ j = k
    BY DEF OneHolder
  <2>1. from(p, j) = from(q, k)
    <3>1. PICK x1 \in Places : \E m \in DOMAIN At(x1) : from(p, j) = <<x1, m>> /\ Gives(At(x1)[m], u)
      BY <1>8
    <3>2. PICK m1 \in DOMAIN At(x1) : from(p, j) = <<x1, m1>> /\ Gives(At(x1)[m1], u)
      BY <3>1
    <3>3. PICK x2 \in Places : \E m \in DOMAIN At(x2) : from(q, k) = <<x2, m>> /\ Gives(At(x2)[m], u)
      BY <1>8
    <3>4. PICK m2 \in DOMAIN At(x2) : from(q, k) = <<x2, m2>> /\ Gives(At(x2)[m2], u)
      BY <3>3
    <3>5. x1 = x2 /\ m1 = m2
      BY <3>2, <3>4 DEF OneHolder
    <3> QED BY <3>2, <3>4, <3>5
  <2> QED BY <2>1, <1>10
<1>12. ASSUME NEW u \in Flows, Held(u)' PROVE Held(u)
  BY <1>8, <1>12 DEF Held
<1>13. ASSUME NEW u \in Flows, Held(u) PROVE Held(u)'
  <2>1. PICK p \in Places : \E k \in DOMAIN At(p) : Gives(At(p)[k], u)
    BY <1>13 DEF Held
  <2>2. PICK k \in DOMAIN At(p) : Gives(At(p)[k], u)
    BY <2>1
  <2>3. CASE p # x /\ p # y
    BY <1>5, <2>2, <2>3 DEF Held
  <2>4. CASE p = y
    <3>1. k \in 1..n /\ k \in 1..(n + 1)
      BY <1>3, <1>6, <2>4
    <3>2. k \in DOMAIN At(y)' /\ Gives(At(y)'[k], u)
      BY <1>4, <1>6, <2>2, <2>4, <3>1
    <3> QED BY <1>6, <3>2 DEF Held
  <2>5. CASE p = x /\ k = 1
    <3>1. Gives(a, u)
      BY <1>6, <1>7, <2>2, <2>5
    <3>2. n + 1 \in DOMAIN At(y)' /\ Gives(At(y)'[n + 1], u)
      BY <1>3, <1>4, <1>6, <3>1
    <3> QED BY <1>6, <3>2 DEF Held
  <2>6. CASE p = x /\ k # 1
    <3>1. k \in 1..Len(s)
      BY <1>1, <1>6, <2>6
    <3>2. k - 1 \in DOMAIN t /\ (k - 1) + 1 = k
      BY <1>1, <1>2, <2>6, <3>1
    <3>3. t[k - 1] = s[k]
      BY <1>2, <3>2
    <3> QED BY <1>6, <2>2, <2>6, <3>2, <3>3 DEF Held
  <2> QED BY <2>3, <2>4, <2>5, <2>6
<1> QED BY <1>11, <1>12, <1>13
-----------------------------------------------------------------------------
(* What a step leaves as it was                                             *)

LEMMA CalledFacts ==
  ASSUME Types
  PROVE  /\ Called \subseteq Indices /\ Later \subseteq Called
         /\ Called # {} => First \in Called
         /\ input_uses = <<>> <=> Called = {}
<1>1. input_uses \in Seq(Indices)
  BY DEF Types
<1>2. Called \subseteq Indices
  BY <1>1 DEF Called
<1>3. input_uses # <<>> => 1 \in DOMAIN input_uses /\ First = input_uses[1]
  BY <1>1 DEF First
<1>4. input_uses = <<>> => Called = {}
  BY DEF Called
<1> QED BY <1>2, <1>3, <1>4 DEF Called, Later

\* Whoever is responsible is so for an index that has called.
LEMMA UnitCalled ==
  ASSUME Types, NEW u \in Flows
  PROVE  /\ \A f, a : Kept(f, a) /\ Gives(a, u) => u[1] \in Called
         /\ \A op : Due(op) /\ Gives(op, u) => u[1] \in Called
<1>1. /\ Called \subseteq Indices /\ Later \subseteq Called
      /\ Called # {} => First \in Called
  BY CalledFacts
<1>2. \A i \in Called : InFlow(i)[1] = i /\ AntiInFlow(i)[1] = i
  BY <1>1, Flowing
<1>3. ASSUME NEW f, NEW a, Kept(f, a), Gives(a, u) PROVE u[1] \in Called
  <2>1. ASSUME NEW i \in Called, a = Decrement(AntiInFlow(i)) PROVE u[1] \in Called
    <3>1. u = AntiInFlow(i)
      BY <1>3, <2>1, Units
    <3> QED BY <1>2, <3>1
  <2>2. CASE Called # {} /\ a = Decrement(InFlow(First))
    <3>1. u = InFlow(First)
      BY <1>3, <2>2, Units
    <3> QED BY <1>1, <1>2, <2>2, <3>1
  <2>3. ASSUME NEW i \in Later, a \in {Contribute(i), Reduce(i), Attach(InFlow(First), Reduce(i))}
        PROVE  u[1] \in Called
    <3>1. Gives(Attach(InFlow(First), Reduce(i)), u) => u = Reduce(i).unit
      BY Units
    <3>2. Reduce(i).unit = InFlow(i)
      BY Verbs
    <3>3. (Gives(Contribute(i), u) => u = InFlow(i)) /\ (Gives(Reduce(i), u) => u = InFlow(i))
      BY Units
    <3>4. u = InFlow(i)
      BY <1>3, <2>3, <3>1, <3>2, <3>3
    <3> QED BY <1>1, <1>2, <3>4
  <2> QED BY <1>3, <2>1, <2>2, <2>3 DEF Kept
<1>4. ASSUME NEW op, Due(op), Gives(op, u) PROVE u[1] \in Called
  <2>1. CASE op.action \in Acts /\ op = Attach(op.flow, op.action) /\ Kept(op.flow, op.action)
    <3>1. Gives(op.action, u)
      BY <1>4, <2>1, Units
    <3> QED BY <1>3, <2>1, <3>1
  <2>2. ASSUME NEW i \in Called, op = Decrement(AntiInFlow(i)) PROVE u[1] \in Called
    <3>1. u = AntiInFlow(i)
      BY <1>4, <2>2, Units
    <3> QED BY <1>2, <3>1
  <2>3. CASE Called # {} /\ op = Decrement(InFlow(First))
    <3>1. u = InFlow(First)
      BY <1>4, <2>3, Units
    <3> QED BY <1>1, <1>2, <2>3, <3>1
  <2>4. ASSUME NEW i \in Later, op \in {Contribute(i), Reduce(i), Reducing(i), Decrement(InFlow(i))}
        PROVE  u[1] \in Called
    <3>1. u = InFlow(i)
      BY <1>4, <2>4, Units
    <3> QED BY <1>1, <1>2, <3>1
  <2>5. op \notin {Copy, Erase} \cup {Release(i) : i \in Indices} /\ op # Unlock
    <3>1. ~Gives(Copy, u) /\ ~Gives(Erase, u) /\ ~Gives(Unlock, u) /\ \A i : ~Gives(Release(i), u)
      BY Units
    <3> QED BY <1>4, <3>1
  <2> QED BY <1>4, <2>1, <2>2, <2>3, <2>4, <2>5 DEF Due
<1> QED BY <1>3, <1>4

LEMMA HeldCalled ==
  ASSUME Types, Timely, NEW u \in Flows, Held(u) PROVE u[1] \in Called
<1>1. PICK p \in Places : \E k \in DOMAIN At(p) : Gives(At(p)[k], u)
  BY DEF Held
<1>2. PICK k \in DOMAIN At(p) : Gives(At(p)[k], u)
  BY <1>1
<1>3. CASE \E th \in Threads : p = <<th, "agenda">>
  BY <1>2, <1>3, Spots, UnitCalled DEF Timely
<1>4. CASE \E f \in Flows : p = <<f, "actions">>
  BY <1>2, <1>4, Spots, UnitCalled DEF Timely
<1> QED BY <1>3, <1>4, Spots

LEMMA OutstandingFinite ==
  IsFiniteSet(Outstanding) /\ Cardinality(Outstanding) \in Nat /\ IsFiniteSet(Flows)
<1>1. IsFiniteSet(Indices)
  BY IndicesAssumption
<1>2. IsFiniteSet({"in", "anti_in"})
  <2>1. IsFiniteSet({}) /\ IsFiniteSet({} \cup {"in"}) /\ IsFiniteSet(({} \cup {"in"}) \cup {"anti_in"})
    BY FS_EmptySet, FS_AddElement
  <2>2. {"in", "anti_in"} = ({} \cup {"in"}) \cup {"anti_in"}
    OBVIOUS
  <2> QED BY <2>1, <2>2
<1>3. IsFiniteSet(Flows)
  BY <1>1, <1>2, FS_Product DEF Flows
<1>4. IsFiniteSet(Outstanding)
  BY <1>3, FS_Subset DEF Outstanding
<1> QED BY <1>3, <1>4, FS_CardinalityType

\* When the count is zero, everybody has called and every decrement was made.
LEMMA ZeroMeansAll ==
  ASSUME Types, count = Cardinality(Outstanding), count = 0
  PROVE  Called = Indices /\ \A u \in Flows : ~Held(u)
<1>1. Outstanding = {}
  BY OutstandingFinite, FS_EmptySet
<1>2. ASSUME NEW i \in Indices PROVE i \in Called
  <2>1. InFlow(i) \in Flows /\ InFlow(i)[1] = i /\ InFlow(i) \notin Outstanding
    BY <1>1, Flowing
  <2> QED BY <2>1 DEF Outstanding
<1> QED BY <1>1, <1>2, CalledFacts DEF Outstanding

LEMMA StillDue ==
  ASSUME has_anti_in' = has_anti_in, ready \subseteq ready', Called \subseteq Called',
         Called # {} => First' = First, contributed' = contributed, count = 0 => count' = 0
  PROVE  /\ \A f, a : Kept(f, a) => Kept(f, a)'
         /\ \A op : Due(op) => Due(op)'
<1>1. Later \subseteq Later' /\ (Called # {} => Called' # {})
  BY DEF Later
<1>2. Later \subseteq Called
  BY DEF Later
<1>3. ASSUME NEW f, NEW a, Kept(f, a) PROVE Kept(f, a)'
  BY <1>1, <1>2, <1>3 DEF Kept
<1>4. ASSUME NEW op, Due(op) PROVE Due(op)'
  <2>1. CASE op.do = "attach" /\ op.action \in Acts /\ op = Attach(op.flow, op.action) /\ Kept(op.flow, op.action)
    BY <1>3, <2>1 DEF Due
  <2>2. CASE \E i \in Called : op = Decrement(AntiInFlow(i)) /\ (i \in has_anti_in => AntiInFlow(i) \in ready)
    BY <2>2 DEF Due
  <2>3. CASE Called # {} /\ op = Decrement(InFlow(First)) /\ InFlow(First) \in ready
    BY <1>1, <2>3 DEF Due
  <2>4. CASE \E i \in Later :
               /\ InFlow(i) \in ready
               /\ \/ contributed[i] = 0 /\ op \in {Contribute(i), Reduce(i), Reducing(i)}
                  \/ contributed[i] = 1 /\ op = Decrement(InFlow(i))
    BY <1>1, <2>4 DEF Due
  <2>5. CASE count = 0 /\ op \in {Copy, Erase} \cup {Release(i) : i \in Indices}
    BY <2>5 DEF Due
  <2>6. CASE op = Unlock
    BY <2>6 DEF Due
  <2> QED BY <1>4, <2>1, <2>2, <2>3, <2>4, <2>5, <2>6 DEF Due
<1> QED BY <1>3, <1>4

\* The same when an index contributes, but for what was responsible for it.
LEMMA StillDueElse ==
  ASSUME NEW i \in Indices, UNCHANGED <<has_anti_in, ready, input_uses, count>>,
         \A j \in Indices : j # i => contributed'[j] = contributed[j], Types
  PROVE  /\ \A f : \A a \in Acts : Kept(f, a) /\ ~Gives(a, InFlow(i)) => Kept(f, a)'
         /\ \A op : Due(op) /\ ~Gives(op, InFlow(i)) => Due(op)'
<1>1. Called' = Called /\ First' = First /\ Later' = Later
  BY DEF Called, First, Later
<1>2. Later \subseteq Indices
  BY CalledFacts
<1>3. ASSUME NEW f, NEW a \in Acts, Kept(f, a), ~Gives(a, InFlow(i)) PROVE Kept(f, a)'
  <2>1. CASE \E j \in Called : f = AntiInFlow(j) /\ a = Decrement(AntiInFlow(j))
    BY <1>1, <2>1 DEF Kept
  <2>2. CASE Called # {} /\ f = InFlow(First) /\ a = Decrement(InFlow(First))
    BY <1>1, <2>2 DEF Kept
  <2>3. CASE \E j \in Later : contributed[j] = 0 /\ f = InFlow(j) /\ a = Contribute(j)
    <3>1. PICK j \in Later : contributed[j] = 0 /\ f = InFlow(j) /\ a = Contribute(j)
      BY <2>3
    <3>2. j # i
      <4>1. Gives(a, InFlow(j))
        BY <3>1, Units
      <4> QED BY <1>3, <4>1
    <3>3. j \in Later' /\ contributed'[j] = 0
      BY <1>1, <1>2, <3>1, <3>2
    <3> QED BY <3>1, <3>3 DEF Kept
  <2>4. CASE \E j \in Later :
               /\ contributed[j] = 0 /\ InFlow(j) \in ready
               /\ \/ f = AntiInFlow(First) /\ a = Attach(InFlow(First), Reduce(j))
                  \/ f = InFlow(First) /\ a = Reduce(j)
    <3>1. PICK j \in Later :
               /\ contributed[j] = 0 /\ InFlow(j) \in ready
               /\ \/ f = AntiInFlow(First) /\ a = Attach(InFlow(First), Reduce(j))
                  \/ f = InFlow(First) /\ a = Reduce(j)
      BY <2>4
    <3>2. Gives(a, InFlow(j))
      <4>1. CASE a = Reduce(j)
        BY <4>1, Units
      <4>2. CASE a = Attach(InFlow(First), Reduce(j))
        <5>1. Gives(Attach(InFlow(First), Reduce(j)), InFlow(j)) <=> InFlow(j) = Reduce(j).unit
          BY Units
        <5>2. Reduce(j).unit = InFlow(j)
          BY Verbs
        <5> QED BY <4>2, <5>1, <5>2
      <4> QED BY <3>1, <4>1, <4>2
    <3>3. j # i
      BY <1>3, <3>2
    <3>4. j \in Later' /\ contributed'[j] = 0 /\ InFlow(j) \in ready' /\ First' = First
      BY <1>1, <1>2, <3>1, <3>3
    <3> QED BY <3>1, <3>4 DEF Kept
  <2> QED BY <1>3, <2>1, <2>2, <2>3, <2>4 DEF Kept
<1>4. ASSUME NEW op, Due(op), ~Gives(op, InFlow(i)) PROVE Due(op)'
  <2>1. CASE op.do = "attach" /\ op.action \in Acts /\ op = Attach(op.flow, op.action) /\ Kept(op.flow, op.action)
    <3>1. ~Gives(op.action, InFlow(i))
      <4>1. Gives(Attach(op.flow, op.action), InFlow(i)) <=> Gives(op.action, InFlow(i))
        BY <2>1, Units
      <4> QED BY <1>4, <2>1, <4>1
    <3> QED BY <1>3, <2>1, <3>1 DEF Due
  <2>2. CASE \E j \in Called : op = Decrement(AntiInFlow(j)) /\ (j \in has_anti_in => AntiInFlow(j) \in ready)
    BY <1>1, <2>2 DEF Due
  <2>3. CASE Called # {} /\ op = Decrement(InFlow(First)) /\ InFlow(First) \in ready
    BY <1>1, <2>3 DEF Due
  <2>4. CASE \E j \in Later :
               /\ InFlow(j) \in ready
               /\ \/ contributed[j] = 0 /\ op \in {Contribute(j), Reduce(j), Reducing(j)}
                  \/ contributed[j] = 1 /\ op = Decrement(InFlow(j))
    <3>1. PICK j \in Later :
               /\ InFlow(j) \in ready
               /\ \/ contributed[j] = 0 /\ op \in {Contribute(j), Reduce(j), Reducing(j)}
                  \/ contributed[j] = 1 /\ op = Decrement(InFlow(j))
      BY <2>4
    <3>2. Gives(op, InFlow(j))
      BY <3>1, Units
    <3>3. j # i
      BY <1>4, <3>2
    <3> QED BY <1>1, <1>2, <3>1, <3>3 DEF Due
  <2>5. CASE count = 0 /\ op \in {Copy, Erase} \cup {Release(j) : j \in Indices}
    BY <2>5 DEF Due
  <2>6. CASE op = Unlock
    BY <2>6 DEF Due
  <2> QED BY <1>4, <2>1, <2>2, <2>3, <2>4, <2>5, <2>6 DEF Due
<1> QED BY <1>3, <1>4

\* An action whose flow is ready is due.
LEMMA ReadyDue ==
  ASSUME Types, NEW f \in Flows, NEW a \in Acts, Kept(f, a), f \in ready', ready \subseteq ready',
         UNCHANGED <<has_anti_in, input_uses, contributed, count>>
  PROVE  Due(a)'
<1>1. Called \subseteq Indices /\ Later \subseteq Called
  BY CalledFacts
<1>2. Called' = Called /\ First' = First /\ Later' = Later
  BY DEF Called, First, Later
<1>3. CASE \E i \in Called : f = AntiInFlow(i) /\ a = Decrement(AntiInFlow(i))
  BY <1>2, <1>3 DEF Due
<1>4. CASE Called # {} /\ f = InFlow(First) /\ a = Decrement(InFlow(First))
  BY <1>2, <1>4 DEF Due
<1>5. CASE \E i \in Later : contributed[i] = 0 /\ f = InFlow(i) /\ a = Contribute(i)
  BY <1>2, <1>5 DEF Due
<1>6. ASSUME NEW i \in Later, contributed[i] = 0, InFlow(i) \in ready,
             \/ f = AntiInFlow(First) /\ a = Attach(InFlow(First), Reduce(i))
             \/ f = InFlow(First) /\ a = Reduce(i)
      PROVE  Due(a)'
  <2>1. CASE a = Reduce(i)
    BY <1>2, <1>6, <2>1 DEF Due
  <2>2. CASE a = Attach(InFlow(First), Reduce(i))
    <3>1. a.do = "attach" /\ a.flow = InFlow(First) /\ a.action = Reduce(i)
      BY <2>2, Verbs
    <3>2. Kept(InFlow(First), Reduce(i))'
      BY <1>2, <1>6 DEF Kept
    <3>3. Reduce(i) \in Acts
      BY <1>1, OpsFacts
    <3>4. a = Attach(a.flow, a.action) /\ Kept(a.flow, a.action)'
      BY <1>2, <2>2, <3>1, <3>2
    <3> QED BY <3>1, <3>3, <3>4 DEF Due
  <2> QED BY <1>6, <2>1, <2>2
<1> QED BY <1>3, <1>4, <1>5, <1>6 DEF Kept
-----------------------------------------------------------------------------
(* The steps of a thread                                                    *)

LEMMA IdleStep ==
  ASSUME Types, Idle, NEW th \in Threads, agenda[th] # <<>>, NEW ops \in Seq(Ops), Then(th, ops),
         UNCHANGED <<ready, input_uses>>
  PROVE  /\ \A i \in Indices : i \notin Called => agenda'[<<i, "call">>] = <<>>
         /\ \A f \in Flows : f \notin ready => agenda'[f] = <<>>
<1>1. \A x \in Threads : x # th => agenda'[x] = agenda[x]
  BY ThenMove
<1> QED BY <1>1, Flowing, FlowForms DEF Idle

LEMMA TimelyStep ==
  ASSUME Types, Timely, NEW th \in Threads, agenda[th] # <<>>, NEW ops \in Seq(Ops), Then(th, ops),
         UNCHANGED actions, \A k \in DOMAIN ops : Due(ops[k])',
         \A op : Due(op) => Due(op)', \A f, a : Kept(f, a) => Kept(f, a)'
  PROVE  Timely'
<1>1. /\ \A x \in Threads : x # th => agenda'[x] = agenda[x]
      /\ agenda'[th] = ops \o Tail(agenda[th]) /\ agenda[th] \in Seq(Ops)
  BY ThenMove
<1>2. \A k \in DOMAIN agenda'[th] :
        IF k <= Len(ops) THEN k \in DOMAIN ops /\ agenda'[th][k] = ops[k]
        ELSE k - Len(ops) + 1 \in DOMAIN agenda[th] /\ agenda'[th][k] = agenda[th][k - Len(ops) + 1]
  BY <1>1, Spliced
<1>3. \A k \in DOMAIN agenda'[th] : Due(agenda[th][k])'
  BY <1>2 DEF Timely
<1>4. ASSUME NEW x \in Threads, x # th, NEW k \in DOMAIN agenda'[x] PROVE Due(agenda[x][k])'
  BY <1>1, <1>4 DEF Timely
<1>5. ASSUME NEW f \in Flows, NEW k \in DOMAIN actions'[f] PROVE Kept(f, actions[f][k])'
  BY <1>5 DEF Timely
<1> QED BY <1>3, <1>4, <1>5 DEF Timely

LEMMA MadeStep ==
  ASSUME \A i \in Called : Made(i), \A u \in Flows : Held(u) => Held(u)', ready \subseteq ready',
         Types, UNCHANGED <<has_anti_in, input_uses, contributed>>
  PROVE  \A i \in Called : Made(i)'
<1>1. First' = First
  BY DEF First
<1>2. Called \subseteq Indices
  BY CalledFacts
<1>3. ASSUME NEW i \in Called PROVE Made(i)'
  <2>1. InFlow(i) \in Flows /\ AntiInFlow(i) \in Flows
    BY <1>2, Flowing
  <2> QED BY <1>1, <2>1 DEF Made
<1> QED BY <1>3

LEMMA SameOutstanding ==
  ASSUME UNCHANGED input_uses, \A u \in Flows : Held(u)' <=> Held(u)
  PROVE  Outstanding' = Outstanding /\ Called' = Called /\ First' = First
BY DEF Outstanding, Called, First

\* Attaching to what is ready, contributing, and beginning to reduce.
LEMMA HandOverKeeps ==
  ASSUME IInv, NEW th \in Threads, agenda[th] # <<>>, NEW op \in Ops,
         \A u \in Flows : Gives(op, u) => Gives(Head(agenda[th]), u),
         \A u \in Flows : Gives(Head(agenda[th]), u) => Gives(op, u),
         Due(op) \/ Due(op)', Then(th, <<op>>),
         UNCHANGED <<has_anti_in, ready, actions, in_map, input_uses, count, contributed, copied>>
  PROVE  IInv'
<1>0. <<op>> \in Seq(Ops) /\ \A k \in DOMAIN <<op>> : <<op>>[k] = op
  OBVIOUS
<1>1. Types /\ Idle /\ Timely /\ OneHolder
  BY DEF IInv
<1>2. OneHolder' /\ \A u \in Flows : Held(u)' <=> Held(u)
  BY <1>1, HandOver
<1>3. Outstanding' = Outstanding /\ Called' = Called /\ First' = First
  BY <1>2, SameOutstanding
<1>4. (\A f, a : Kept(f, a) => Kept(f, a)') /\ (\A x : Due(x) => Due(x)')
  BY <1>3, StillDue
<1>5. \A k \in DOMAIN <<op>> : Due(<<op>>[k])'
  BY <1>0, <1>4
<1>6. Timely'
  BY <1>0, <1>1, <1>4, <1>5, TimelyStep
<1>7. agenda' \in [Threads -> Seq(Ops)]
  BY <1>0, <1>1, ThenMove
<1>8. Types'
  BY <1>1, <1>7 DEF Types
<1>9. Idle'
  BY <1>0, <1>1, <1>3, IdleStep DEF Idle
<1>10. \A i \in Called : Made(i)'
  BY <1>1, <1>2, MadeStep DEF IInv
<1> QED BY <1>2, <1>3, <1>6, <1>8, <1>9, <1>10 DEF IInv

\* Copying, releasing, erasing and unlocking.
LEMMA PassKeeps ==
  ASSUME IInv, NEW th \in Threads, agenda[th] # <<>>,
         \A u \in Flows : ~Gives(Head(agenda[th]), u), Then(th, <<>>),
         UNCHANGED <<has_anti_in, ready, actions, input_uses, count, contributed>>,
         in_map' = in_map \/ (in_map' = FALSE /\ count = 0),
         copied' = copied \/ (copied' = TRUE /\ count = 0)
  PROVE  IInv'
<1>0. <<>> \in Seq(Ops) /\ DOMAIN <<>> = {}
  OBVIOUS
<1>1. Types /\ Idle /\ Timely /\ OneHolder
  BY DEF IInv
<1>2. OneHolder' /\ \A u \in Flows : Held(u)' <=> Held(u)
  BY <1>0, <1>1, GiveUp
<1>3. Outstanding' = Outstanding /\ Called' = Called /\ First' = First
  BY <1>2, SameOutstanding
<1>4. (\A f, a : Kept(f, a) => Kept(f, a)') /\ (\A x : Due(x) => Due(x)')
  BY <1>3, StillDue
<1>6. Timely'
  BY <1>0, <1>1, <1>4, TimelyStep
<1>7. agenda' \in [Threads -> Seq(Ops)]
  BY <1>0, <1>1, ThenMove
<1>8. Types'
  BY <1>1, <1>7 DEF Types
<1>5. copied \in BOOLEAN /\ in_map \in BOOLEAN
  BY <1>1 DEF Types
<1>9. Idle'
  <2>1. /\ \A i \in Indices : i \notin Called => agenda'[<<i, "call">>] = <<>>
        /\ \A f \in Flows : f \notin ready => agenda'[f] = <<>>
    BY <1>0, <1>1, IdleStep
  <2>2. in_map' => input_uses' # <<>>
    BY <1>1, <1>5 DEF Idle
  <2>3. ~in_map' => input_uses' = <<>> \/ count' = 0
    BY <1>1, <1>5 DEF Idle
  <2>4. copied' => count' = 0
    BY <1>1, <1>5 DEF Idle
  <2> QED BY <1>1, <1>3, <2>1, <2>2, <2>3, <2>4 DEF Idle
<1>10. \A i \in Called : Made(i)'
  BY <1>1, <1>2, MadeStep DEF IInv
<1> QED BY <1>2, <1>3, <1>6, <1>8, <1>9, <1>10 DEF IInv

\* What an operation is that is next, and due.
LEMMA NextDue ==
  ASSUME IInv, NEW th \in Threads, agenda[th] # <<>>
  PROVE  Due(Head(agenda[th])) /\ Head(agenda[th]) \in Ops
<1>1. agenda[th] \in Seq(Ops)
  BY DEF IInv, Types
<1>2. 1 \in DOMAIN agenda[th] /\ Head(agenda[th]) = agenda[th][1]
  BY <1>1
<1> QED BY <1>1, <1>2 DEF IInv, Timely

LEMMA DueVerbs ==
  ASSUME Types, NEW op, Due(op)
  PROVE  /\ op.do = "attach" => op = Attach(op.flow, op.action) /\ op.action \in Acts /\ Kept(op.flow, op.action)
         /\ op.do = "contribute" =>
              \E i \in Later : InFlow(i) \in ready /\ contributed[i] = 0 /\ op = Contribute(i)
         /\ op.do = "reduce" =>
              \E i \in Later : InFlow(i) \in ready /\ contributed[i] = 0 /\ op = Reduce(i)
         /\ op.do = "reducing" =>
              \E i \in Later : InFlow(i) \in ready /\ contributed[i] = 0 /\ op = Reducing(i)
         /\ op.do = "decrement" =>
              \/ \E i \in Called :
                   op = Decrement(AntiInFlow(i)) /\ (i \in has_anti_in => AntiInFlow(i) \in ready)
              \/ Called # {} /\ op = Decrement(InFlow(First)) /\ InFlow(First) \in ready
              \/ \E i \in Later :
                   InFlow(i) \in ready /\ contributed[i] = 1 /\ op = Decrement(InFlow(i))
         /\ op.do = "copy" => op = Copy /\ count = 0
         /\ op.do = "erase" => op = Erase /\ count = 0
         /\ op.do = "release" => \E i \in Indices : op = Release(i)
         /\ op.do = "unlock" => op = Unlock
<1>1. CASE op.do = "attach" /\ op.action \in Acts /\ op = Attach(op.flow, op.action) /\ Kept(op.flow, op.action)
  BY <1>1
<1>2. CASE \E i \in Called : op = Decrement(AntiInFlow(i)) /\ (i \in has_anti_in => AntiInFlow(i) \in ready)
  <2>1. op.do = "decrement"
    BY <1>2, Verbs
  <2> QED BY <1>2, <2>1
<1>3. CASE Called # {} /\ op = Decrement(InFlow(First)) /\ InFlow(First) \in ready
  <2>1. op.do = "decrement"
    BY <1>3, Verbs
  <2> QED BY <1>3, <2>1
<1>4. ASSUME NEW i \in Later, InFlow(i) \in ready, contributed[i] = 0,
             op \in {Contribute(i), Reduce(i), Reducing(i)}
      PROVE  \/ op.do = "contribute" /\ op = Contribute(i)
             \/ op.do = "reduce" /\ op = Reduce(i)
             \/ op.do = "reducing" /\ op = Reducing(i)
  <2>1. CASE op = Contribute(i)
    BY <2>1, Verbs
  <2>2. CASE op = Reduce(i)
    BY <2>2, Verbs
  <2>3. CASE op = Reducing(i)
    BY <2>3, Verbs
  <2> QED BY <1>4, <2>1, <2>2, <2>3
<1>5. CASE \E i \in Later : InFlow(i) \in ready /\ contributed[i] = 1 /\ op = Decrement(InFlow(i))
  <2>1. op.do = "decrement"
    BY <1>5, Verbs
  <2> QED BY <1>5, <2>1
<1>6. CASE count = 0 /\ op \in {Copy, Erase} \cup {Release(i) : i \in Indices}
  BY <1>6, Verbs
<1>7. CASE op = Unlock
  BY <1>7, Verbs
<1>8. CASE \E i \in Later : InFlow(i) \in ready /\ contributed[i] = 0
                             /\ op \in {Contribute(i), Reduce(i), Reducing(i)}
  BY <1>4, <1>8
<1> QED BY <1>1, <1>2, <1>3, <1>5, <1>6, <1>7, <1>8 DEF Due

LEMMA KeptFlow ==
  ASSUME Types, NEW f, NEW a, Kept(f, a) PROVE f \in Flows
  BY CalledFacts, Flowing, ZenonT(60), SMTT(30) DEF Kept

\* An action is left to a flow that is not ready.
LEMMA LeaveKeeps ==
  ASSUME IInv, NEW th \in Threads, agenda[th] # <<>>, NEW f \in Flows, NEW a \in Acts,
         Head(agenda[th]) = Attach(f, a), Kept(f, a), f \notin ready, Then(th, <<>>),
         actions' = [actions EXCEPT ![f] = Append(@, a)],
         UNCHANGED <<has_anti_in, ready, in_map, input_uses, count, contributed, copied>>
  PROVE  IInv'
<1>a. Types /\ Idle /\ Timely /\ OneHolder
  BY DEF IInv
<1>b. /\ \A u \in Flows : Gives(a, u) => Gives(Head(agenda[th]), u)
      /\ \A u \in Flows : Gives(Head(agenda[th]), u) => Gives(a, u)
  <2>1. ASSUME NEW u PROVE Gives(Attach(f, a), u) <=> Gives(a, u)
    BY Units
  <2> QED BY <2>1
<1>0. <<>> \in Seq(Ops) /\ DOMAIN <<>> = {}
  OBVIOUS
<1>2. OneHolder' /\ \A u \in Flows : Held(u)' <=> Held(u)
  BY <1>a, <1>b, LeaveTo
<1>3. Outstanding' = Outstanding /\ Called' = Called /\ First' = First
  BY <1>2, SameOutstanding
<1>4. (\A g, b : Kept(g, b) => Kept(g, b)') /\ (\A x : Due(x) => Due(x)')
  BY <1>3, StillDue
<1>5. /\ agenda' \in [Threads -> Seq(Ops)] /\ agenda'[th] = <<>> \o Tail(agenda[th])
      /\ \A x \in Threads : x # th => agenda'[x] = agenda[x]
      /\ agenda[th] \in Seq(Ops)
  BY <1>0, <1>a, ThenMove
<1>6. actions \in [Flows -> Seq(Acts)] /\ actions[f] \in Seq(Acts)
  BY <1>a DEF Types
<1>7. /\ actions' \in [Flows -> Seq(Acts)] /\ actions'[f] = Append(actions[f], a)
      /\ \A g \in Flows : g # f => actions'[g] = actions[g]
  <2>1. Append(actions[f], a) \in Seq(Acts)
    BY <1>6
  <2> QED BY <1>6, <2>1
<1>8. \A g \in Flows : \A k \in DOMAIN actions'[g] : Kept(g, actions[g][k])'
  <2>1. ASSUME NEW k \in DOMAIN actions'[f] PROVE Kept(f, actions[f][k])'
    <3>1. \/ k \in DOMAIN actions[f] /\ actions'[f][k] = actions[f][k]
          \/ actions'[f][k] = a
      BY <1>6, <1>7, <2>1
    <3> QED BY <1>a, <1>4, <3>1 DEF Timely
  <2>2. ASSUME NEW g \in Flows, g # f, NEW k \in DOMAIN actions'[g] PROVE Kept(g, actions[g][k])'
    BY <1>a, <1>4, <1>7, <2>2 DEF Timely
  <2> QED BY <2>1, <2>2
<1>9. \A x \in Threads : \A k \in DOMAIN agenda'[x] : Due(agenda[x][k])'
  <2>1. ASSUME NEW k \in DOMAIN agenda'[th] PROVE Due(agenda[th][k])'
    <3>1. IF k <= Len(<<>>) THEN k \in DOMAIN <<>>
          ELSE k - Len(<<>>) + 1 \in DOMAIN agenda[th]
               /\ agenda'[th][k] = agenda[th][k - Len(<<>>) + 1]
      BY <1>0, <1>a, <1>5, <2>1, Spliced
    <3>2. \E j \in DOMAIN agenda[th] : agenda'[th][k] = agenda[th][j]
      BY <1>0, <3>1
    <3> QED BY <1>a, <1>4, <3>2 DEF Timely
  <2>2. ASSUME NEW x \in Threads, x # th, NEW k \in DOMAIN agenda'[x] PROVE Due(agenda[x][k])'
    BY <1>a, <1>4, <1>5, <2>2 DEF Timely
  <2> QED BY <2>1, <2>2
<1>10. Types'
  BY <1>a, <1>5, <1>7 DEF Types
<1>11. Idle'
  <2>1. \A g \in Flows : g \in ready => actions'[g] = <<>>
    BY <1>a, <1>7 DEF Idle
  <2>2. /\ \A i \in Indices : i \notin Called => agenda'[<<i, "call">>] = <<>>
        /\ \A g \in Flows : g \notin ready => agenda'[g] = <<>>
    BY <1>0, <1>a, IdleStep
  <2> QED BY <1>a, <1>3, <2>1, <2>2 DEF Idle
<1>12. \A i \in Called : Made(i)'
  BY <1>a, <1>2, MadeStep DEF IInv
<1>13. Timely'
  BY <1>8, <1>9 DEF Timely
<1>14. count' = Cardinality(Outstanding)'
  BY <1>3 DEF IInv
<1> QED BY <1>2, <1>3, <1>10, <1>11, <1>12, <1>13, <1>14 DEF IInv

LEMMA AttachKeeps == ASSUME IInv, NEW th \in Threads, DoAttach(th) PROVE IInv'
<1>1. Types /\ agenda[th] # <<>>
  BY DEF IInv, DoAttach, IsNext
<1>2. PICK f, a : Head(agenda[th]) = Attach(f, a) /\ a \in Acts /\ Kept(f, a)
  BY <1>1, NextDue, DueVerbs DEF DoAttach, IsNext
<1>3. f \in Flows /\ a \in Ops /\ Head(agenda[th]).flow = f /\ Head(agenda[th]).action = a
  BY <1>1, <1>2, KeptFlow, OpsFacts, Verbs
<1>4. /\ \A u \in Flows : Gives(a, u) => Gives(Head(agenda[th]), u)
      /\ \A u \in Flows : Gives(Head(agenda[th]), u) => Gives(a, u)
  <2>1. \A u \in Flows : Gives(Attach(f, a), u) <=> Gives(a, u)
    BY <1>2, Units
  <2> QED BY <1>2, <2>1, Zenon
<1>5. UNCHANGED <<has_anti_in, ready, in_map, input_uses, count, contributed, copied>>
  BY DEF DoAttach
<1>6. CASE f \in ready
  <2>1. Then(th, <<a>>) /\ UNCHANGED actions
    BY <1>3, <1>6 DEF DoAttach
  <2>2. Due(a)'
    BY <1>1, <1>2, <1>3, <1>5, <1>6, ReadyDue
  <2> QED BY <1>1, <1>3, <1>4, <1>5, <2>1, <2>2, HandOverKeeps
<1>7. CASE f \notin ready
  <2>1. Then(th, <<>>) /\ actions' = [actions EXCEPT ![f] = Append(@, a)]
    BY <1>3, <1>7 DEF DoAttach
  <2> QED BY <1>1, <1>2, <1>3, <1>5, <1>7, <2>1, LeaveKeeps
<1> QED BY <1>6, <1>7

LEMMA ContributeKeeps == ASSUME IInv, NEW th \in Threads, DoContribute(th) PROVE IInv'
<1>1. Types /\ agenda[th] # <<>>
  BY DEF IInv, DoContribute, IsNext
<1>2. PICK i \in Later : InFlow(i) \in ready /\ contributed[i] = 0 /\ Head(agenda[th]) = Contribute(i)
  BY <1>1, NextDue, DueVerbs DEF DoContribute, IsNext
<1>3. Head(agenda[th]).index = i
  BY <1>2, Verbs
<1>4. i \in Indices /\ First \in Indices
  BY <1>1, CalledFacts
<1> DEFINE one == Attach(InFlow(First), Reduce(i))
           both == Attach(AntiInFlow(First), one)
           op == IF First \in has_anti_in THEN both ELSE one
<1>5. Then(th, <<op>>)
  BY <1>3 DEF DoContribute
<1>6. UNCHANGED <<has_anti_in, ready, actions, in_map, input_uses, count, contributed, copied>>
  BY DEF DoContribute
<1>7. Reduce(i) \in Acts /\ one \in Acts /\ one \in Ops /\ both \in Ops
  BY <1>4, OpsFacts, Flowing
<1>8. Kept(InFlow(First), Reduce(i)) /\ Kept(AntiInFlow(First), one)
  BY <1>2 DEF Kept
<1>9. Due(one)
  <2>1. one.do = "attach" /\ one.flow = InFlow(First) /\ one.action = Reduce(i)
    BY Verbs
  <2> HIDE DEF one
  <2>2. one = Attach(one.flow, one.action)
    BY <2>1 DEF one
  <2> QED BY <1>7, <1>8, <2>1, <2>2 DEF Due
<1>10. Due(both)
  <2>1. both.do = "attach" /\ both.flow = AntiInFlow(First) /\ both.action = one
    BY Verbs
  <2> HIDE DEF one, both
  <2>2. both = Attach(both.flow, both.action)
    BY <2>1 DEF both
  <2> QED BY <1>7, <1>8, <2>1, <2>2 DEF Due
<1>11. ASSUME NEW u \in Flows PROVE Gives(op, u) <=> Gives(Head(agenda[th]), u)
  <2>1. Gives(Contribute(i), u) <=> u = InFlow(i)
    BY Units
  <2>2. (Gives(Reduce(i), u) <=> u = InFlow(i)) /\ (Gives(one, u) <=> Gives(Reduce(i), u))
    BY <1>7, Units
  <2>3. Gives(both, u) <=> Gives(one, u)
    BY <1>7, Units
  <2> QED BY <1>2, <2>1, <2>2, <2>3
<1>12. op \in Ops /\ Due(op)
  BY <1>7, <1>9, <1>10
<1>13. (\A u \in Flows : Gives(op, u) => Gives(Head(agenda[th]), u))
       /\ \A u \in Flows : Gives(Head(agenda[th]), u) => Gives(op, u)
  BY <1>11
<1> HIDE DEF op
<1> QED BY <1>1, <1>5, <1>6, <1>12, <1>13, HandOverKeeps

LEMMA ReduceKeeps == ASSUME IInv, NEW th \in Threads, DoReduce(th) PROVE IInv'
<1>1. Types /\ agenda[th] # <<>>
  BY DEF IInv, DoReduce, IsNext
<1>2. PICK i \in Later : InFlow(i) \in ready /\ contributed[i] = 0 /\ Head(agenda[th]) = Reduce(i)
  BY <1>1, NextDue, DueVerbs DEF DoReduce, IsNext
<1>3. Head(agenda[th]).index = i
  BY <1>2, Verbs
<1>4. Reducing(i) \in Ops /\ Due(Reducing(i))
  BY <1>1, <1>2, CalledFacts, OpsFacts DEF Due
<1>5. Then(th, <<Reducing(i)>>)
  BY <1>3 DEF DoReduce
<1>6. UNCHANGED <<has_anti_in, ready, actions, in_map, input_uses, count, contributed, copied>>
  BY DEF DoReduce
<1>7. (\A u \in Flows : Gives(Reducing(i), u) => Gives(Head(agenda[th]), u))
      /\ \A u \in Flows : Gives(Head(agenda[th]), u) => Gives(Reducing(i), u)
  BY <1>2, Units
<1> QED BY <1>1, <1>4, <1>5, <1>6, <1>7, HandOverKeeps

LEMMA PassingKeeps ==
  ASSUME IInv, NEW th \in Threads, DoCopy(th) \/ DoRelease(th) \/ DoErase(th) \/ DoUnlock(th)
  PROVE  IInv'
<1> DEFINE h == Head(agenda[th])
<1>1. Types /\ agenda[th] # <<>> /\ h.do \in {"copy", "release", "erase", "unlock"}
  BY DEF IInv, DoCopy, DoRelease, DoErase, DoUnlock, IsNext
<1>2. Due(h)
  BY <1>1, NextDue
<1>3. /\ h.do = "copy" => count = 0
      /\ h.do = "erase" => count = 0
      /\ h \in {Copy, Erase, Unlock} \cup {Release(i) : i \in Indices}
  BY <1>1, <1>2, DueVerbs
<1>4. \A u \in Flows : ~Gives(h, u)
  BY <1>1 DEF Gives
<1>5. Then(th, <<>>) /\ UNCHANGED <<has_anti_in, ready, actions, input_uses, count, contributed>>
  BY DEF DoCopy, DoRelease, DoErase, DoUnlock
<1>6. in_map' = in_map \/ (in_map' = FALSE /\ count = 0)
  BY <1>3 DEF DoCopy, DoRelease, DoErase, DoUnlock, IsNext
<1>7. copied' = copied \/ (copied' = TRUE /\ count = 0)
  BY <1>3 DEF DoCopy, DoRelease, DoErase, DoUnlock, IsNext
<1> HIDE DEF h
<1> QED BY <1>1, <1>4, <1>5, <1>6, <1>7, PassKeeps DEF h

\* An index has contributed, of whose operations this was the only one.
LEMMA EndReduceKeeps == ASSUME IInv, NEW th \in Threads, EndReduce(th) PROVE IInv'
<1>1. Types /\ Idle /\ Timely /\ OneHolder /\ agenda[th] # <<>>
  BY DEF IInv, EndReduce, IsNext
<1>2. PICK i \in Later : InFlow(i) \in ready /\ contributed[i] = 0 /\ Head(agenda[th]) = Reducing(i)
  BY <1>1, NextDue, DueVerbs DEF EndReduce, IsNext
<1>3. Head(agenda[th]).index = i /\ i \in Indices /\ i \in Called /\ InFlow(i) \in Flows
  <2>1. Reducing(i).index = i
    BY Verbs
  <2>2. i \in Indices /\ i \in Called
    BY <1>1, CalledFacts
  <2> QED BY <1>2, <2>1, <2>2, Flowing
<1> DEFINE op == Decrement(InFlow(i))
<1>4. Then(th, <<op>>) /\ UNCHANGED <<has_anti_in, ready, actions, in_map, input_uses, count, copied>>
  BY <1>3 DEF EndReduce
<1>5. contributed' = [contributed EXCEPT ![i] = contributed[i] + 1]
  BY <1>3 DEF EndReduce
<1>6. /\ contributed' \in [Indices -> Nat] /\ contributed'[i] = 1
      /\ \A j \in Indices : j # i => contributed'[j] = contributed[j]
  BY <1>1, <1>2, <1>3, <1>5 DEF Types
<1>7. op \in Ops
  BY <1>3, OpsFacts
<1>8. /\ \A u \in Flows : Gives(op, u) => Gives(Head(agenda[th]), u)
      /\ \A u \in Flows : Gives(Head(agenda[th]), u) => Gives(op, u)
  BY <1>2, Units
<1> HIDE DEF op
<1>0. <<op>> \in Seq(Ops) /\ \A k \in DOMAIN <<op>> : k = 1 /\ <<op>>[k] = op
  BY <1>7
<1>9. OneHolder' /\ \A u \in Flows : Held(u)' <=> Held(u)
  BY <1>1, <1>4, <1>7, <1>8, HandOver
<1>10. Outstanding' = Outstanding /\ Called' = Called /\ First' = First
  BY <1>4, <1>9, SameOutstanding
<1>11. /\ \A f : \A a \in Acts : Kept(f, a) /\ ~Gives(a, InFlow(i)) => Kept(f, a)'
       /\ \A x : Due(x) /\ ~Gives(x, InFlow(i)) => Due(x)'
  BY <1>1, <1>3, <1>4, <1>6, StillDueElse
<1>12. Due(op)'
  <2>1. i \in Later' /\ InFlow(i) \in ready'
    BY <1>2, <1>4, <1>10 DEF Later
  <2> QED BY <1>6, <2>1 DEF Due, op
<1>13. Gives(Head(agenda[th]), InFlow(i)) /\ Head(agenda[th]) = agenda[th][1] /\ 1 \in DOMAIN agenda[th]
  <2>1. Gives(Reducing(i), InFlow(i))
    BY Units
  <2> QED BY <1>0, <1>1, <1>2, <1>4, <2>1, ThenMove
<1>14. \A x \in Threads : \A k \in DOMAIN agenda[x] : x # th \/ k # 1 => ~Gives(agenda[x][k], InFlow(i))
  <2> SUFFICES ASSUME NEW x \in Threads, NEW k \in DOMAIN agenda[x], Gives(agenda[x][k], InFlow(i))
               PROVE  x = th /\ k = 1
    OBVIOUS
  <2> DEFINE p == <<x, "agenda">>
             q == <<th, "agenda">>
  <2>1. p \in Places /\ q \in Places /\ At(p) = agenda[x] /\ At(q) = agenda[th]
    BY Spots
  <2> HIDE DEF p, q
  <2>2. p = q /\ k = 1
    BY <1>1, <1>3, <1>13, <2>1 DEF OneHolder
  <2> QED BY <2>2 DEF p, q
<1>15. \A f \in Flows : \A k \in DOMAIN actions[f] : ~Gives(actions[f][k], InFlow(i))
  <2> SUFFICES ASSUME NEW f \in Flows, NEW k \in DOMAIN actions[f], Gives(actions[f][k], InFlow(i))
               PROVE  FALSE
    OBVIOUS
  <2> DEFINE p == <<f, "actions">>
             q == <<th, "agenda">>
  <2>1. p \in Places /\ q \in Places /\ At(p) = actions[f] /\ At(q) = agenda[th]
    BY Spots
  <2> HIDE DEF p, q
  <2>2. p = q
    BY <1>1, <1>3, <1>13, <2>1 DEF OneHolder
  <2> QED BY <2>2 DEF p, q
<1>16. /\ agenda' \in [Threads -> Seq(Ops)] /\ agenda'[th] = <<op>> \o Tail(agenda[th])
       /\ \A x \in Threads : x # th => agenda'[x] = agenda[x]
       /\ agenda[th] \in Seq(Ops)
  BY <1>0, <1>1, <1>4, ThenMove
<1>17. Timely'
  <2>1. ASSUME NEW k \in DOMAIN agenda'[th] PROVE Due(agenda[th][k])'
    <3>1. IF k <= Len(<<op>>) THEN k \in DOMAIN <<op>> /\ agenda'[th][k] = <<op>>[k]
          ELSE /\ k - Len(<<op>>) + 1 \in DOMAIN agenda[th] /\ k - Len(<<op>>) + 1 # 1
               /\ agenda'[th][k] = agenda[th][k - Len(<<op>>) + 1]
      BY <1>0, <1>1, <1>16, <2>1, Spliced
    <3>2. agenda'[th][k] = op \/ \E j \in DOMAIN agenda[th] : j # 1 /\ agenda'[th][k] = agenda[th][j]
      BY <1>0, <3>1
    <3>3. ASSUME NEW j \in DOMAIN agenda[th], j # 1, agenda'[th][k] = agenda[th][j]
          PROVE  Due(agenda[th][k])'
      <4>1. Due(agenda[th][j]) /\ ~Gives(agenda[th][j], InFlow(i))
        BY <1>1, <1>14, <3>3 DEF Timely
      <4> QED BY <1>11, <3>3, <4>1
    <3> QED BY <1>12, <3>2, <3>3
  <2>2. ASSUME NEW x \in Threads, x # th, NEW k \in DOMAIN agenda'[x] PROVE Due(agenda[x][k])'
    <3>1. k \in DOMAIN agenda[x] /\ agenda'[x][k] = agenda[x][k]
      BY <1>16, <2>2
    <3>2. Due(agenda[x][k]) /\ ~Gives(agenda[x][k], InFlow(i))
      BY <1>1, <1>14, <2>2, <3>1 DEF Timely
    <3> QED BY <1>11, <3>1, <3>2
  <2>3. ASSUME NEW f \in Flows, NEW k \in DOMAIN actions'[f] PROVE Kept(f, actions[f][k])'
    <3>1. k \in DOMAIN actions[f] /\ actions'[f][k] = actions[f][k] /\ actions[f][k] \in Acts
      BY <1>1, <1>4, <2>3 DEF Types
    <3>2. Kept(f, actions[f][k]) /\ ~Gives(actions[f][k], InFlow(i))
      BY <1>1, <1>15, <3>1 DEF Timely
    <3> QED BY <1>11, <3>1, <3>2
  <2> QED BY <2>1, <2>2, <2>3 DEF Timely
<1>18. Types'
  BY <1>1, <1>4, <1>6, <1>16 DEF Types
<1>19. Idle'
  <2>1. /\ \A j \in Indices : j \notin Called => agenda'[<<j, "call">>] = <<>>
        /\ \A f \in Flows : f \notin ready => agenda'[f] = <<>>
    BY <1>0, <1>1, <1>4, IdleStep
  <2>2. \A j \in Indices : j \notin Called => contributed'[j] = 0
    BY <1>1, <1>3, <1>6 DEF Idle
  <2> QED BY <1>1, <1>4, <1>10, <2>1, <2>2 DEF Idle
<1>20. ASSUME NEW j \in Called PROVE Made(j)'
  <2>1. j \in Indices /\ InFlow(j) \in Flows /\ AntiInFlow(j) \in Flows
    BY <1>1, CalledFacts, Flowing
  <2>2. Made(j)
    BY DEF IInv
  <2>3. j # i => contributed'[j] = contributed[j]
    BY <1>6, <2>1
  <2>4. j = i => contributed'[j] = 1
    BY <1>6
  <2> QED BY <1>4, <1>9, <1>10, <2>1, <2>2, <2>3, <2>4 DEF Made
<1> QED BY <1>4, <1>9, <1>10, <1>17, <1>18, <1>19, <1>20 DEF IInv

\* Whoever decrements is responsible for it, and knows that its flow is ready and,
\* for a later use, that it was reduced.
LEMMA DecrementDue ==
  ASSUME Types, NEW op, Due(op), op.do = "decrement"
  PROVE  /\ op.unit \in Flows /\ op.unit[1] \in Called
         /\ \A u \in Flows : Gives(op, u) <=> u = op.unit
         /\ \A i \in Called :
              /\ op.unit = InFlow(i) => InFlow(i) \in ready /\ (i # First => contributed[i] = 1)
              /\ op.unit = AntiInFlow(i) /\ i \in has_anti_in => AntiInFlow(i) \in ready
<1>1. /\ Called \subseteq Indices /\ Later \subseteq Called
      /\ Called # {} => First \in Called
  BY CalledFacts
<1>2. \A f : Decrement(f).unit = f /\ \A u : Gives(Decrement(f), u) <=> u = f
  BY Units, Verbs
<1>3. ASSUME NEW i \in Called, op = Decrement(AntiInFlow(i)),
             i \in has_anti_in => AntiInFlow(i) \in ready
      PROVE  /\ op.unit \in Flows /\ op.unit[1] \in Called
             /\ \A j \in Called :
                  /\ op.unit # InFlow(j)
                  /\ op.unit = AntiInFlow(j) /\ j \in has_anti_in => AntiInFlow(j) \in ready
  <2>1. op.unit = AntiInFlow(i)
    BY <1>2, <1>3
  <2>2. AntiInFlow(i) \in Flows /\ AntiInFlow(i)[1] = i
    BY <1>1, Flowing
  <2>3. \A j \in Called : AntiInFlow(i) # InFlow(j) /\ (AntiInFlow(i) = AntiInFlow(j) => i = j)
    BY <1>1, Flowing
  <2> QED BY <1>3, <2>1, <2>2, <2>3
<1>4. ASSUME NEW i \in Called, op = Decrement(InFlow(i)), InFlow(i) \in ready,
             i # First => contributed[i] = 1
      PROVE  /\ op.unit \in Flows /\ op.unit[1] \in Called
             /\ \A j \in Called :
                  /\ op.unit = InFlow(j) => InFlow(j) \in ready /\ (j # First => contributed[j] = 1)
                  /\ op.unit # AntiInFlow(j)
  <2>1. op.unit = InFlow(i)
    BY <1>2, <1>4
  <2>2. InFlow(i) \in Flows /\ InFlow(i)[1] = i
    BY <1>1, Flowing
  <2>3. \A j \in Called : InFlow(i) # AntiInFlow(j) /\ (InFlow(i) = InFlow(j) => i = j)
    BY <1>1, Flowing
  <2> QED BY <1>4, <2>1, <2>2, <2>3
<1>5. \A u \in Flows : Gives(op, u) <=> u = op.unit
  BY DEF Gives
<1>6. \/ \E i \in Called :
           op = Decrement(AntiInFlow(i)) /\ (i \in has_anti_in => AntiInFlow(i) \in ready)
      \/ Called # {} /\ op = Decrement(InFlow(First)) /\ InFlow(First) \in ready
      \/ \E i \in Later :
           InFlow(i) \in ready /\ contributed[i] = 1 /\ op = Decrement(InFlow(i))
  BY DueVerbs
<1>7. CASE \E i \in Called :
             op = Decrement(AntiInFlow(i)) /\ (i \in has_anti_in => AntiInFlow(i) \in ready)
  BY <1>3, <1>5, <1>7
<1>8. CASE \E i \in Called :
             op = Decrement(InFlow(i)) /\ InFlow(i) \in ready /\ (i # First => contributed[i] = 1)
  BY <1>4, <1>5, <1>8
<1> QED BY <1>1, <1>6, <1>7, <1>8

\* The completion: copy, release every use, erase.
Completion == <<Copy>> \o [k \in DOMAIN input_uses |-> Release(input_uses[k])] \o <<Erase>>

LEMMA CompletionIs ==
  ASSUME Types
  PROVE  /\ Completion \in Seq(Ops)
         /\ \A k \in DOMAIN Completion : Completion[k] \in {Copy, Erase} \cup {Release(i) : i \in Indices}
<1> DEFINE S == {Copy, Erase} \cup {Release(i) : i \in Indices}
           releases == [k \in DOMAIN input_uses |-> Release(input_uses[k])]
<1>1. input_uses \in Seq(Indices)
  BY DEF Types
<1>2. releases \in Seq(S)
  <2>1. DOMAIN input_uses = 1..Len(input_uses) /\ Len(input_uses) \in Nat
    BY <1>1
  <2>2. \A k \in 1..Len(input_uses) : input_uses[k] \in Indices
    BY <1>1
  <2> QED BY <2>1, <2>2
<1>3. <<Copy>> \in Seq(S) /\ <<Erase>> \in Seq(S)
  OBVIOUS
<1> HIDE DEF S, releases
<1>4. <<Copy>> \o releases \in Seq(S)
  BY <1>2, <1>3
<1>5. <<Copy>> \o releases \o <<Erase>> \in Seq(S)
  BY <1>3, <1>4
<1>6. Completion \in Seq(S)
  BY <1>5 DEF Completion, releases
<1>7. S \subseteq Ops
  BY OpsFacts DEF S
<1> QED BY <1>6, <1>7 DEF S

LEMMA DecrementKeeps == ASSUME IInv, NEW th \in Threads, DoDecrement(th) PROVE IInv'
<1> DEFINE h == Head(agenda[th])
<1>0. PICK ops : ops = IF count = 1 THEN Completion ELSE <<>>
  OBVIOUS
<1>1. Types /\ Idle /\ Timely /\ OneHolder /\ agenda[th] # <<>> /\ h.do = "decrement"
  BY DEF IInv, DoDecrement, IsNext
<1>2. PICK v \in Flows :
        /\ v[1] \in Called
        /\ \A u \in Flows : Gives(h, u) <=> u = v
        /\ \A i \in Called :
              /\ v = InFlow(i) => InFlow(i) \in ready /\ (i # First => contributed[i] = 1)
              /\ v = AntiInFlow(i) /\ i \in has_anti_in => AntiInFlow(i) \in ready
  <2>1. Due(h)
    BY <1>1, NextDue
  <2> HIDE DEF h
  <2> QED BY <1>1, <2>1, DecrementDue
<1>3. /\ count' = count - 1 /\ count > 0 /\ Then(th, ops)
      /\ UNCHANGED <<has_anti_in, ready, actions, in_map, input_uses, contributed, copied>>
  BY <1>0 DEF DoDecrement, Completion
<1>4. /\ ops \in Seq(Ops)
      /\ \A k \in DOMAIN ops : count = 1 /\ ops[k] \in {Copy, Erase} \cup {Release(i) : i \in Indices}
  BY <1>0, <1>1, CompletionIs
<1>5. \A k \in DOMAIN ops : \A u \in Flows : ~Gives(ops[k], u)
  <2>1. \A u : ~Gives(Copy, u) /\ ~Gives(Erase, u) /\ \A i : ~Gives(Release(i), u)
    BY Units
  <2> QED BY <1>4, <2>1
<1>6. count \in Nat /\ count' \in Nat /\ (count = 1 => count' = 0)
  BY <1>1, <1>3 DEF Types
<1>7. OneHolder' /\ \A u \in Flows : Held(u)' <=> Held(u) /\ u # v
  <2>1. OneHolder' /\ \A u \in Flows : Held(u)' <=> Held(u) /\ ~Gives(h, u)
    BY <1>1, <1>3, <1>4, <1>5, GiveUp
  <2> QED BY <1>2, <2>1
<1>8. Called' = Called /\ First' = First
  BY <1>3 DEF Called, First
<1>9. Held(v)
  <2>1. /\ <<th, "agenda">> \in Places /\ At(<<th, "agenda">>) = agenda[th]
        /\ h = agenda[th][1] /\ 1 \in DOMAIN agenda[th]
    BY <1>1, <1>3, <1>4, Spots, ThenMove
  <2> QED BY <1>2, <2>1 DEF Held
<1>10. Outstanding' = Outstanding \ {v} /\ v \in Outstanding
  BY <1>2, <1>7, <1>8, <1>9 DEF Outstanding
<1>11. count' = Cardinality(Outstanding')
  <2>1. Cardinality(Outstanding \ {v}) = Cardinality(Outstanding) - 1
    BY <1>10, OutstandingFinite, FS_RemoveElement
  <2> QED BY <1>3, <1>10, <2>1 DEF IInv
<1>12. (\A f, a : Kept(f, a) => Kept(f, a)') /\ (\A x : Due(x) => Due(x)')
  BY <1>3, <1>8, StillDue
<1>13. \A k \in DOMAIN ops : Due(ops[k])'
  <2>1. \A x \in {Copy, Erase} \cup {Release(i) : i \in Indices} : count' = 0 => Due(x)'
    BY DEF Due
  <2> QED BY <1>4, <1>6, <2>1
<1>14. Timely'
  BY <1>1, <1>3, <1>4, <1>12, <1>13, TimelyStep
<1>15. agenda' \in [Threads -> Seq(Ops)]
  BY <1>1, <1>3, <1>4, ThenMove
<1>16. Types'
  BY <1>1, <1>3, <1>6, <1>15 DEF Types
<1>17. Idle'
  <2>1. /\ \A i \in Indices : i \notin Called => agenda'[<<i, "call">>] = <<>>
        /\ \A f \in Flows : f \notin ready => agenda'[f] = <<>>
    BY <1>1, <1>3, <1>4, IdleStep
  <2>2. count # 0
    BY <1>3, <1>6
  <2> QED BY <1>1, <1>3, <1>8, <2>1, <2>2 DEF Idle
<1>18. ASSUME NEW i \in Called PROVE Made(i)'
  <2>1. i \in Indices /\ InFlow(i) \in Flows /\ AntiInFlow(i) \in Flows
    BY <1>1, CalledFacts, Flowing
  <2>2. Made(i)
    BY DEF IInv
  <2> QED BY <1>2, <1>3, <1>7, <1>8, <2>1, <2>2 DEF Made
<1> QED BY <1>7, <1>8, <1>11, <1>14, <1>16, <1>17, <1>18 DEF IInv

-----------------------------------------------------------------------------
(* Flows become ready, and indices call                                     *)

\* The actions of a flow go to the agenda of whoever makes it ready.
LEMMA MakeReadyKeeps == ASSUME IInv, NEW f \in Flows, MakeReady(f) PROVE IInv'
<1> DEFINE x == <<f, "agenda">>
           y == <<f, "actions">>
           swap(p) == IF p = x THEN y ELSE IF p = y THEN x ELSE p
<1>1. Types /\ Idle /\ Timely /\ OneHolder /\ f \in Threads /\ f \notin ready
  BY FlowForms DEF IInv, MakeReady
<1>2. /\ agenda[f] = <<>> /\ ready' = ready \cup {f}
      /\ agenda' = [agenda EXCEPT ![f] = actions[f]] /\ actions' = [actions EXCEPT ![f] = <<>>]
      /\ UNCHANGED <<has_anti_in, in_map, input_uses, count, contributed, copied>>
  BY <1>1 DEF MakeReady, Idle
<1>3. /\ actions \in [Flows -> Seq(Acts)] /\ agenda \in [Threads -> Seq(Ops)]
      /\ Seq(Acts) \subseteq Seq(Ops)
  BY <1>1, OpsFacts DEF Types
<1>4. /\ agenda' \in [Threads -> Seq(Ops)] /\ agenda'[f] = actions[f]
      /\ \A th \in Threads : th # f => agenda'[th] = agenda[th]
      /\ actions' \in [Flows -> Seq(Acts)] /\ actions'[f] = <<>>
      /\ \A g \in Flows : g # f => actions'[g] = actions[g]
  BY <1>1, <1>2, <1>3
<1>5. /\ x \in Places /\ y \in Places /\ x # y /\ At(x) = <<>> /\ At(y) = actions[f]
      /\ At(x)' = actions[f] /\ At(y)' = <<>>
  BY <1>1, <1>2, <1>4, Spots, SpotsAfter
<1>6. \A p \in Places : p # x /\ p # y => At(p)' = At(p)
  <2>1. ASSUME NEW th \in Threads, th # f PROVE At(<<th, "agenda">>)' = At(<<th, "agenda">>)
    <3>1. At(<<th, "agenda">>) = agenda[th] /\ At(<<th, "agenda">>)' = agenda'[th]
      BY Spots, SpotsAfter
    <3> QED BY <1>4, <2>1, <3>1
  <2>2. ASSUME NEW g \in Flows, g # f PROVE At(<<g, "actions">>)' = At(<<g, "actions">>)
    <3>1. At(<<g, "actions">>) = actions[g] /\ At(<<g, "actions">>)' = actions'[g]
      BY Spots, SpotsAfter
    <3> QED BY <1>4, <2>2, <3>1
  <2> QED BY <2>1, <2>2, Spots
<1> HIDE DEF x, y
<1>7. \A p \in Places : swap(p) \in Places /\ swap(swap(p)) = p /\ At(p)' = At(swap(p))
  BY <1>5, <1>6
<1>8. OneHolder'
  <2> SUFFICES ASSUME NEW p \in Places, NEW q \in Places, NEW j \in DOMAIN At(p)',
                      NEW k \in DOMAIN At(q)', NEW u \in Flows,
                      Gives(At(p)'[j], u), Gives(At(q)'[k], u)
               PROVE  p = q /\ j = k
    BY DEF OneHolder
  <2> HIDE DEF swap
  <2>1. /\ swap(p) \in Places /\ swap(q) \in Places /\ j \in DOMAIN At(swap(p))
        /\ k \in DOMAIN At(swap(q)) /\ Gives(At(swap(p))[j], u) /\ Gives(At(swap(q))[k], u)
    BY <1>7
  <2>2. swap(p) = swap(q) /\ j = k
    BY <1>1, <2>1 DEF OneHolder
  <2>3. swap(swap(p)) = p /\ swap(swap(q)) = q
    BY <1>7
  <2> QED BY <2>2, <2>3
<1>9. \A u \in Flows : Held(u)' <=> Held(u)
  <2> HIDE DEF swap
  <2>1. ASSUME NEW u \in Flows, Held(u)' PROVE Held(u)
    <3>1. PICK p \in Places : \E k \in DOMAIN At(p)' : Gives(At(p)'[k], u)
      BY <2>1 DEF Held
    <3> QED BY <1>7, <3>1 DEF Held
  <2>2. ASSUME NEW u \in Flows, Held(u) PROVE Held(u)'
    <3>1. PICK p \in Places : \E k \in DOMAIN At(p) : Gives(At(p)[k], u)
      BY <2>2 DEF Held
    <3>2. swap(p) \in Places /\ At(swap(p))' = At(p)
      BY <1>7
    <3>3. \E k \in DOMAIN At(swap(p))' : Gives(At(swap(p))'[k], u)
      BY <3>1, <3>2
    <3> QED BY <3>2, <3>3 DEF Held
  <2> QED BY <2>1, <2>2
<1>10. Outstanding' = Outstanding /\ Called' = Called /\ First' = First
  BY <1>2, <1>9, SameOutstanding
<1>11. (\A g, b : Kept(g, b) => Kept(g, b)') /\ (\A op : Due(op) => Due(op)')
  BY <1>2, <1>10, StillDue
<1>12. \A a \in Acts : Kept(f, a) => Due(a)'
  BY <1>1, <1>2, ReadyDue
<1>13. Timely'
  <2>1. ASSUME NEW k \in DOMAIN agenda'[f] PROVE Due(agenda[f][k])'
    <3>1. k \in DOMAIN actions[f] /\ agenda'[f][k] = actions[f][k] /\ actions[f][k] \in Acts
      BY <1>3, <1>4, <2>1
    <3>2. Kept(f, actions[f][k])
      BY <1>1, <3>1 DEF Timely
    <3> QED BY <1>12, <3>1, <3>2
  <2>2. ASSUME NEW th \in Threads, th # f, NEW k \in DOMAIN agenda'[th] PROVE Due(agenda[th][k])'
    BY <1>1, <1>4, <1>11, <2>2 DEF Timely
  <2>3. ASSUME NEW g \in Flows, NEW k \in DOMAIN actions'[g] PROVE Kept(g, actions[g][k])'
    <3>1. g # f
      BY <1>4, <2>3
    <3> QED BY <1>1, <1>4, <1>11, <2>3, <3>1 DEF Timely
  <2> QED BY <2>1, <2>2, <2>3 DEF Timely
<1>14. Types'
  BY <1>1, <1>2, <1>4 DEF Types
<1>15. Idle'
  <2>1. ASSUME NEW i \in Indices, i \notin Called PROVE agenda'[<<i, "call">>] = <<>>
    <3>1. <<i, "call">> \in Threads /\ <<i, "call">> # f
      BY Flowing, FlowForms DEF InFlow, AntiInFlow
    <3>2. agenda[<<i, "call">>] = <<>>
      BY <1>1, <2>1 DEF Idle
    <3> QED BY <1>4, <3>1, <3>2
  <2>2. \A g \in Flows : g \notin ready' => agenda'[g] = <<>>
    BY <1>1, <1>2, <1>4, FlowForms DEF Idle
  <2>3. \A g \in Flows : g \in ready' => actions'[g] = <<>>
    BY <1>1, <1>2, <1>4 DEF Idle
  <2> QED BY <1>1, <1>2, <1>10, <2>1, <2>2, <2>3 DEF Idle
<1>16. \A i \in Called : Made(i)'
  BY <1>1, <1>2, <1>9, MadeStep DEF IInv
<1> QED BY <1>2, <1>8, <1>9, <1>10, <1>13, <1>14, <1>15, <1>16 DEF IInv

\* An index calls: it is responsible for two decrements, for which nobody was.
LEMMA CallKeeps == ASSUME IInv, NEW i \in Indices, AllReduceUse(i) PROVE IInv'
<1> DEFINE th == <<i, "call">>
           x == <<th, "agenda">>
           in == InFlow(i)
           anti == AntiInFlow(i)
<1>1. Types /\ Idle /\ Timely /\ OneHolder /\ i \notin Called /\ th \in Threads
      /\ in \in Flows /\ anti \in Flows /\ in # anti /\ in[1] = i /\ anti[1] = i
  BY Flowing DEF IInv, AllReduceUse
<1>2. agenda[th] = <<>> /\ contributed[i] = 0
  BY <1>1 DEF Idle
<1>3. count # 0
  BY <1>1, ZeroMeansAll DEF IInv
<1>4. in_map <=> Called # {}
  BY <1>1, <1>3, CalledFacts DEF Idle
<1>5. /\ in_map' = TRUE /\ input_uses' = Append(input_uses, i)
      /\ agenda' = [agenda EXCEPT ![th] = AntiInOps(i) \o <<Attach(in, InAction(i)), Unlock>>]
      /\ UNCHANGED <<has_anti_in, ready, actions, count, contributed, copied>>
  BY DEF AllReduceUse
<1>6. /\ input_uses' \in Seq(Indices) /\ Called' = Called \cup {i} /\ Called' # {}
      /\ input_uses' # <<>>
      /\ First' = IF Called = {} THEN i ELSE First
  <2>1. input_uses \in Seq(Indices)
    BY <1>1 DEF Types
  <2>2. Append(input_uses, i) \in Seq(Indices) /\ Len(Append(input_uses, i)) = Len(input_uses) + 1
    BY <2>1
  <2>3. \A k \in 1..(Len(input_uses) + 1) :
          Append(input_uses, i)[k] = IF k = Len(input_uses) + 1 THEN i ELSE input_uses[k]
    BY <2>1
  <2>4. Called' = Called \cup {i}
    <3>1. ASSUME NEW k \in 1..(Len(input_uses) + 1) PROVE Append(input_uses, i)[k] \in Called \cup {i}
      BY <2>1, <2>3 DEF Called
    <3>2. \A y : y \in Called' <=> \E k \in 1..(Len(input_uses) + 1) : y = Append(input_uses, i)[k]
      <4>1. DOMAIN input_uses' = 1..(Len(input_uses) + 1) /\ input_uses' = Append(input_uses, i)
        BY <1>5, <2>2
      <4>2. \A y : y \in Called' <=> \E k \in DOMAIN input_uses' : y = input_uses'[k]
        BY DEF Called
      <4> QED BY <4>1, <4>2
    <3>3. i \in Called'
      <4>1. Len(input_uses) + 1 \in 1..(Len(input_uses) + 1)
        BY <2>1
      <4> QED BY <2>3, <3>2, <4>1
    <3>4. ASSUME NEW j \in Called PROVE j \in Called'
      <4>1. PICK k \in 1..Len(input_uses) : j = input_uses[k]
        BY <2>1 DEF Called
      <4>2. k \in 1..(Len(input_uses) + 1) /\ k # Len(input_uses) + 1
        BY <2>1, <4>1
      <4> QED BY <2>3, <3>2, <4>1, <4>2
    <3> QED BY <3>1, <3>2, <3>3, <3>4
  <2>5. input_uses' # <<>> /\ First' = Append(input_uses, i)[1]
    <3>1. PICK s \in Seq(Indices) : s = Append(input_uses, i) /\ Len(s) = Len(input_uses) + 1
      BY <2>2
    <3>2. s # <<>> /\ Head(s) = s[1]
      BY <2>1, <3>1
    <3>3. First' = Head(s)
      BY <1>5, <3>1 DEF First
    <3> QED BY <1>5, <3>1, <3>2, <3>3
  <2>6. CASE Called = {}
    <3>1. input_uses = <<>>
      BY <1>1, <2>6, CalledFacts
    <3> QED BY <1>5, <2>2, <2>4, <2>5, <2>6, <3>1
  <2>7. CASE Called # {}
    <3>1. input_uses # <<>>
      BY <1>1, <2>7, CalledFacts
    <3>2. 1 \in 1..(Len(input_uses) + 1) /\ 1 # Len(input_uses) + 1 /\ First = input_uses[1]
      BY <2>1, <3>1 DEF First
    <3> QED BY <1>5, <2>2, <2>3, <2>4, <2>5, <2>7, <3>2
  <2> QED BY <2>6, <2>7
<1>a. PICK one : one = IF i \in has_anti_in THEN Attach(anti, Decrement(anti)) ELSE Decrement(anti)
  OBVIOUS
<1>b. PICK action : action = IF Called = {} THEN Decrement(in) ELSE Contribute(i)
  OBVIOUS
<1> DEFINE two == Attach(in, action)
<1>7. AntiInOps(i) = <<one>> /\ InAction(i) = action
  BY <1>4, <1>a, <1>b DEF AntiInOps, InAction
<1>8. action \in Acts /\ one \in Ops /\ two \in Ops /\ Unlock \in Ops
  BY <1>1, <1>a, <1>b, OpsFacts
<1>9. \A u \in Flows : (Gives(one, u) <=> u = anti) /\ (Gives(two, u) <=> u = in) /\ ~Gives(Unlock, u)
  <2> SUFFICES ASSUME NEW u \in Flows
               PROVE  (Gives(one, u) <=> u = anti) /\ (Gives(two, u) <=> u = in) /\ ~Gives(Unlock, u)
    OBVIOUS
  <2>1. Decrement(anti) \in Acts
    BY <1>1, OpsFacts
  <2>2. Gives(Attach(anti, Decrement(anti)), u) <=> Gives(Decrement(anti), u)
    BY <2>1, Units
  <2>3. (Gives(Decrement(anti), u) <=> u = anti) /\ ~Gives(Unlock, u)
    BY Units
  <2>4. Gives(two, u) <=> Gives(action, u)
    BY <1>8, Units
  <2>5. (Gives(Decrement(in), u) <=> u = in) /\ (Gives(Contribute(i), u) <=> u = in)
    BY Units
  <2> QED BY <1>a, <1>b, <2>2, <2>3, <2>4, <2>5
<1>10. Kept(in, action)' /\ Kept(anti, Decrement(anti))' /\ (Due(Decrement(anti))' \/ i \in has_anti_in)
  <2>1. Kept(anti, Decrement(anti))'
    BY <1>6 DEF Kept
  <2>2. Due(Decrement(anti))' \/ i \in has_anti_in
    BY <1>5, <1>6 DEF Due
  <2>3. CASE Called = {}
    <3>1. First' = i /\ action = Decrement(in)
      BY <1>b, <1>6, <2>3
    <3> QED BY <1>6, <2>1, <2>2, <3>1 DEF Kept
  <2>4. CASE Called # {}
    <3>1. First' = First /\ First # i /\ action = Contribute(i)
      BY <1>b, <1>1, <1>6, <2>4, CalledFacts
    <3>2. i \in Later' /\ contributed'[i] = 0
      BY <1>2, <1>5, <1>6, <3>1 DEF Later
    <3> QED BY <2>1, <2>2, <3>1, <3>2 DEF Kept
  <2> QED BY <2>3, <2>4
<1>11. Due(one)' /\ Due(two)' /\ Due(Unlock)'
  <2>1. Due(two)'
    <3>1. two.do = "attach" /\ two.flow = in /\ two.action = action
      BY Verbs
    <3> HIDE DEF two
    <3>2. two = Attach(two.flow, two.action)
      BY <3>1 DEF two
    <3> QED BY <1>8, <1>10, <3>1, <3>2 DEF Due
  <2>2. Due(one)'
    <3>1. CASE i \notin has_anti_in
      BY <1>a, <1>10, <3>1
    <3>2. CASE i \in has_anti_in
      <4>1. one.do = "attach" /\ one.flow = anti /\ one.action = Decrement(anti)
        BY <1>a, <3>2, Verbs
      <4>2. one = Attach(one.flow, one.action)
        BY <1>a, <3>2, <4>1
      <4>3. Decrement(anti) \in Acts
        BY <1>1, OpsFacts
      <4> QED BY <1>10, <4>1, <4>2, <4>3 DEF Due
    <3> QED BY <3>1, <3>2
  <2>3. Due(Unlock)'
    BY DEF Due
  <2> QED BY <2>1, <2>2, <2>3
<1> HIDE DEF two, in, anti
<1> DEFINE three == <<one, two, Unlock>>
<1>12. three \in Seq(Ops) /\ DOMAIN three = 1..3 /\ three[1] = one /\ three[2] = two /\ three[3] = Unlock
  BY <1>8
<1>13. <<one>> \o <<two, Unlock>> = three
  BY <1>8, OneTwo
<1> HIDE DEF three
<1>14. /\ agenda' \in [Threads -> Seq(Ops)] /\ agenda'[th] = three
       /\ \A y \in Threads : y # th => agenda'[y] = agenda[y]
  <2>1. agenda' = [agenda EXCEPT ![th] = three]
    BY <1>5, <1>7, <1>13 DEF two
  <2>2. agenda \in [Threads -> Seq(Ops)]
    BY <1>1 DEF Types
  <2> QED BY <1>1, <1>12, <2>1, <2>2
<1>15. /\ x \in Places /\ At(x) = <<>> /\ At(x)' = three
       /\ \A p \in Places : p # x => At(p)' = At(p)
  <2>1. ASSUME NEW y \in Threads, y # th PROVE At(<<y, "agenda">>)' = At(<<y, "agenda">>)
    BY <1>14, <2>1, Spots, SpotsAfter
  <2>2. ASSUME NEW f \in Flows PROVE At(<<f, "actions">>)' = At(<<f, "actions">>)
    BY <1>5, Spots, SpotsAfter
  <2>3. \A p \in Places : p # x => At(p)' = At(p)
    BY <2>1, <2>2, Spots
  <2> QED BY <1>1, <1>2, <1>14, <2>3, Spots, SpotsAfter
<1> HIDE DEF x
<1>16. \A k \in DOMAIN three : \A u \in Flows :
         Gives(three[k], u) <=> (k = 1 /\ u = anti) \/ (k = 2 /\ u = in)
  BY <1>9, <1>12
<1>17. ~Held(in) /\ ~Held(anti)
  BY <1>1, HeldCalled
<1>18. OneHolder'
  <2> SUFFICES ASSUME NEW p \in Places, NEW q \in Places, NEW j \in DOMAIN At(p)',
                      NEW k \in DOMAIN At(q)', NEW u \in Flows,
                      Gives(At(p)'[j], u), Gives(At(q)'[k], u)
               PROVE  p = q /\ j = k
    BY DEF OneHolder
  <2>1. CASE p # x /\ q # x
    BY <1>1, <1>15, <2>1 DEF OneHolder
  <2>2. CASE p = x /\ q = x
    BY <1>1, <1>12, <1>15, <1>16, <2>2
  <2>3. CASE p = x /\ q # x
    <3>1. u = anti \/ u = in
      BY <1>15, <1>16, <2>3
    <3>2. Held(u)
      BY <1>15, <2>3 DEF Held
    <3> QED BY <1>17, <3>1, <3>2
  <2>4. CASE p # x /\ q = x
    <3>1. u = anti \/ u = in
      BY <1>15, <1>16, <2>4
    <3>2. Held(u)
      BY <1>15, <2>4 DEF Held
    <3> QED BY <1>17, <3>1, <3>2
  <2> QED BY <2>1, <2>2, <2>3, <2>4
<1>19. \A u \in Flows : Held(u)' <=> (Held(u) \/ u = in \/ u = anti)
  <2>1. Held(in)' /\ Held(anti)'
    <3>1. 1 \in DOMAIN At(x)' /\ 2 \in DOMAIN At(x)' /\ Gives(At(x)'[1], anti) /\ Gives(At(x)'[2], in)
      BY <1>1, <1>12, <1>15, <1>16
    <3> QED BY <1>15, <3>1 DEF Held
  <2>2. ASSUME NEW u \in Flows, Held(u) PROVE Held(u)'
    <3>1. PICK p \in Places : \E k \in DOMAIN At(p) : Gives(At(p)[k], u)
      BY <2>2 DEF Held
    <3>2. p # x
      BY <1>15, <3>1
    <3> QED BY <1>15, <3>1, <3>2 DEF Held
  <2>3. ASSUME NEW u \in Flows, Held(u)' PROVE Held(u) \/ u = in \/ u = anti
    <3>1. PICK p \in Places : \E k \in DOMAIN At(p)' : Gives(At(p)'[k], u)
      BY <2>3 DEF Held
    <3>2. CASE p = x
      BY <1>15, <1>16, <3>1, <3>2
    <3>3. CASE p # x
      BY <1>15, <3>1, <3>3 DEF Held
    <3> QED BY <3>2, <3>3
  <2> QED BY <2>1, <2>2, <2>3
<1>20. Outstanding' = Outstanding
  <2>1. ASSUME NEW u \in Flows, u[1] = i PROVE u = in \/ u = anti
    <3>1. PICK j \in Indices : u = InFlow(j) \/ u = AntiInFlow(j)
      BY FlowForms
    <3>2. j = i
      BY <2>1, <3>1, Flowing
    <3> QED BY <3>1, <3>2 DEF in, anti
  <2>2. \A u \in Flows : u \in Outstanding <=> u[1] \notin Called \/ Held(u)
    BY DEF Outstanding
  <2>3. \A u \in Flows : u \in Outstanding' <=> u[1] \notin Called' \/ Held(u)'
    BY DEF Outstanding
  <2>4. \A u \in Flows : u \in Outstanding' <=> u \in Outstanding
    BY <1>1, <1>6, <1>19, <2>1, <2>2, <2>3
  <2>5. Outstanding \subseteq Flows /\ Outstanding' \subseteq Flows
    BY DEF Outstanding
  <2> QED BY <2>4, <2>5
<1>21. (\A f, a : Kept(f, a) => Kept(f, a)') /\ (\A op : Due(op) => Due(op)')
  BY <1>5, <1>6, StillDue
<1>22. Timely'
  <2>1. ASSUME NEW k \in DOMAIN agenda'[th] PROVE Due(agenda[th][k])'
    <3>1. agenda'[th][k] \in {one, two, Unlock}
      BY <1>12, <1>14, <2>1
    <3> QED BY <1>11, <3>1
  <2>2. ASSUME NEW y \in Threads, y # th, NEW k \in DOMAIN agenda'[y] PROVE Due(agenda[y][k])'
    BY <1>1, <1>14, <1>21, <2>2 DEF Timely
  <2>3. ASSUME NEW f \in Flows, NEW k \in DOMAIN actions'[f] PROVE Kept(f, actions[f][k])'
    BY <1>1, <1>5, <1>21, <2>3 DEF Timely
  <2> QED BY <2>1, <2>2, <2>3 DEF Timely
<1>23. Types'
  BY <1>1, <1>5, <1>6, <1>14 DEF Types
<1>24. Idle'
  <2>1. ASSUME NEW j \in Indices, j \notin Called' PROVE agenda'[<<j, "call">>] = <<>>
    <3>1. j # i /\ j \notin Called
      BY <1>6, <2>1
    <3>2. <<j, "call">> \in Threads /\ <<j, "call">> # th
      BY <3>1, Flowing
    <3> QED BY <1>1, <1>14, <2>1, <3>1, <3>2 DEF Idle
  <2>2. ASSUME NEW f \in Flows, f \notin ready PROVE agenda'[f] = <<>>
    <3>1. f \in Threads /\ f # th
      BY FlowForms, Flowing
    <3> QED BY <1>1, <1>14, <2>2, <3>1 DEF Idle
  <2> QED BY <1>1, <1>5, <1>6, <2>1, <2>2 DEF Idle
<1>25. ASSUME NEW j \in Called' PROVE Made(j)'
  <2>1. CASE j = i
    BY <1>1, <1>19, <2>1 DEF Made, in, anti
  <2>2. CASE j # i
    <3>1. j \in Called /\ First' = First
      BY <1>6, <2>2
    <3>2. j \in Indices /\ InFlow(j) \in Flows /\ AntiInFlow(j) \in Flows
      BY <1>1, <3>1, CalledFacts, Flowing
    <3>3. InFlow(j) # in /\ InFlow(j) # anti /\ AntiInFlow(j) # in /\ AntiInFlow(j) # anti
      BY <2>2, <3>2, Flowing DEF in, anti
    <3>4. Made(j)
      BY <3>1 DEF IInv
    <3> QED BY <1>5, <1>19, <3>1, <3>2, <3>3, <3>4 DEF Made
  <2> QED BY <2>1, <2>2
<1> QED BY <1>5, <1>18, <1>20, <1>22, <1>23, <1>24, <1>25 DEF IInv

-----------------------------------------------------------------------------
LEMMA InitHolds == Init => IInv
<1> SUFFICES ASSUME Init PROVE IInv
  OBVIOUS
<1>1. /\ \A th \in Threads : agenda[th] = <<>>
      /\ \A f \in Flows : actions[f] = <<>>
  BY DEF Init
<1>2. Called = {} /\ input_uses = <<>>
  BY DEF Init, Called
<1>3. \A p \in Places : At(p) = <<>>
  BY <1>1, Spots
<1>4. OneHolder /\ Timely
  BY <1>1, <1>3 DEF OneHolder, Timely
<1>5. Outstanding = Flows
  BY <1>2 DEF Outstanding
<1>6. IsFiniteSet(Indices) /\ Cardinality(Indices) \in Nat
  BY IndicesAssumption, FS_CardinalityType
<1>7. Cardinality(Flows) = 2 * Cardinality(Indices)
  <2> DEFINE both == {"in", "anti_in"}
  <2>1. IsFiniteSet({"in"}) /\ Cardinality({"in"}) = 1
    BY FS_Singleton
  <2>2. "anti_in" \notin {"in"} /\ {"in"} \cup {"anti_in"} = both
    <3>1. "anti_in" \notin {"in"}
      OBVIOUS
    <3>2. \A x : x \in {"in"} \cup {"anti_in"} <=> x \in both
      OBVIOUS
    <3> QED BY <3>1, <3>2
  <2>3. /\ IsFiniteSet({"in"} \cup {"anti_in"})
        /\ Cardinality({"in"} \cup {"anti_in"}) = Cardinality({"in"}) + 1
    BY <2>1, <2>2, FS_AddElement
  <2>4. IsFiniteSet(both) /\ Cardinality(both) = 2
    BY <2>1, <2>2, <2>3
  <2>5. Cardinality(Indices \X both) = Cardinality(Indices) * Cardinality(both)
    BY <1>6, <2>4, FS_Product
  <2> QED BY <1>6, <2>4, <2>5 DEF Flows
<1>8. count = Cardinality(Outstanding)
  BY <1>5, <1>7 DEF Init, Contributions
<1>9. Types
  <2>1. count \in Nat
    BY <1>6 DEF Init, Contributions
  <2>2. /\ actions \in [Flows -> Seq(Acts)] /\ agenda \in [Threads -> Seq(Ops)]
        /\ contributed \in [Indices -> Nat] /\ input_uses \in Seq(Indices)
    BY DEF Init
  <2> QED BY <2>1, <2>2 DEF Init, Types
<1>10. Idle
  BY <1>1, <1>2, Flowing, FlowForms DEF Init, Idle
<1> QED BY <1>2, <1>4, <1>8, <1>9, <1>10 DEF IInv

LEMMA IInvStep == IInv /\ [Next]_vars => IInv'
<1> SUFFICES ASSUME IInv, [Next]_vars PROVE IInv'
  OBVIOUS
<1>1. CASE UNCHANGED vars
  <2>1. /\ UNCHANGED <<has_anti_in, ready, actions, in_map, input_uses, count, contributed, copied, agenda>>
        /\ Called' = Called /\ First' = First /\ Later' = Later
    BY <1>1 DEF vars, Called, First, Later
  <2>2. \A p : At(p)' = At(p)
    BY <2>1 DEF At
  <2>3. \A u : Held(u)' <=> Held(u)
    BY <2>2 DEF Held
  <2>4. \A f, a : Kept(f, a)' <=> Kept(f, a)
    BY <2>1 DEF Kept
  <2>5. \A op : Due(op)' <=> Due(op)
    BY <2>1, <2>4 DEF Due
  <2>6. Types' /\ Idle'
    BY <2>1 DEF IInv, Types, Idle
  <2>7. Timely'
    BY <2>1, <2>4, <2>5 DEF IInv, Timely
  <2>8. OneHolder'
    BY <2>2 DEF IInv, OneHolder
  <2>9. Outstanding' = Outstanding
    BY <2>1, <2>3 DEF Outstanding
  <2>10. \A i \in Called : Made(i)'
    BY <2>1, <2>3 DEF IInv, Made
  <2> QED BY <2>1, <2>6, <2>7, <2>8, <2>9, <2>10 DEF IInv
<1>2. ASSUME NEW i \in Indices, AllReduceUse(i) PROVE IInv'
  BY <1>2, CallKeeps
<1>3. ASSUME NEW f \in Flows, MakeReady(f) PROVE IInv'
  BY <1>3, MakeReadyKeeps
<1>4. ASSUME NEW th \in Threads, Step(th) PROVE IInv'
  BY <1>4, AttachKeeps, ContributeKeeps, ReduceKeeps, EndReduceKeeps, DecrementKeeps, PassingKeeps
     DEF Step
<1> QED BY <1>1, <1>2, <1>3, <1>4 DEF Next

LEMMA IInvHolds == Spec => []IInv
<1> QED BY InitHolds, IInvStep, PTL DEF Spec

\* However the flows become ready, ready_event's count is the number of decrements
\* to come, and for each of them one operation and no more is responsible.
THEOREM ReadyCountIsExact == Spec => []ReadyCountExact
<1>1. IInv => ReadyCountExact
  BY DEF IInv, OneHolder, ReadyCountExact
<1> QED BY <1>1, IInvHolds, PTL

\* The completion of an allreduce runs after all contributions, and while none of
\* them is under way.
THEOREM CompletionHasAll == Spec => []CompletedWithAll
<1>1. IInv => CompletedWithAll
  <2> SUFFICES ASSUME IInv, copied \/ \E th \in Threads : IsNext(th, "copy")
               PROVE  /\ Called = Indices
                      /\ \A i \in Indices \ {First} : contributed[i] = 1
                      /\ ReducingNow = {}
                      /\ \A i \in Indices : InFlow(i) \in ready /\ (i \in has_anti_in => AntiInFlow(i) \in ready)
    BY DEF CompletedWithAll
  <2>1. Types /\ Idle /\ count = Cardinality(Outstanding)
    BY DEF IInv
  <2>2. count = 0
    <3>1. ASSUME NEW th \in Threads, IsNext(th, "copy") PROVE count = 0
      BY <2>1, <3>1, NextDue, DueVerbs DEF IsNext
    <3> QED BY <2>1, <3>1 DEF Idle
  <2>3. Called = Indices /\ \A u \in Flows : ~Held(u)
    BY <2>1, <2>2, ZeroMeansAll
  <2>4. ASSUME NEW i \in Indices
        PROVE  /\ i # First => contributed[i] = 1
               /\ InFlow(i) \in ready /\ (i \in has_anti_in => AntiInFlow(i) \in ready)
    <3>1. Made(i) /\ InFlow(i) \in Flows /\ AntiInFlow(i) \in Flows
      BY <2>3, Flowing DEF IInv
    <3> QED BY <2>3, <3>1 DEF Made
  <2>5. ASSUME NEW th \in Threads, IsNext(th, "reducing") PROVE FALSE
    <3>1. agenda[th] # <<>> /\ Due(Head(agenda[th]))
      BY <2>5, NextDue DEF IsNext
    <3>2. PICK i \in Later : Head(agenda[th]) = Reducing(i)
      BY <2>1, <2>5, <3>1, DueVerbs DEF IsNext
    <3>3. Gives(Head(agenda[th]), InFlow(i)) /\ InFlow(i) \in Flows
      <4>1. Gives(Reducing(i), InFlow(i))
        BY Units
      <4> QED BY <2>1, <3>2, <4>1, CalledFacts, Flowing
    <3>4. /\ <<th, "agenda">> \in Places /\ At(<<th, "agenda">>) = agenda[th]
          /\ Head(agenda[th]) = agenda[th][1] /\ 1 \in DOMAIN agenda[th]
      <4>1. agenda[th] \in Seq(Ops)
        BY <2>1 DEF Types
      <4> QED BY <3>1, <4>1, Spots
    <3> QED BY <2>3, <3>3, <3>4 DEF Held
  <2> QED BY <2>3, <2>4, <2>5 DEF ReducingNow
<1> QED BY <1>1, IInvHolds, PTL

-----------------------------------------------------------------------------
(* The reduction of a collection                                            *)

Stages ==
  {"uncalled", "in_flow", "anti_in_flow", "destroy", "copy", "combine", "release_out", "done"}

\* The reduction of the first n indices.
Partial(n) == R!Reduction([j \in R!Idx |-> IF j < n THEN 1 ELSE 0])

ReductionTypes ==
  /\ stage \in Stages
  /\ next_index \in 0..NIndices
  /\ data \in [R!Idx -> {"old", "new", "newer"}]

\* What a flow that is ready stands for.
FlowsMean ==
  /\ in_ready => \A i \in R!Idx : data[i] # "old"
  /\ anti_in_ready => using = {}
  /\ "in" \notin reduced => \A i \in R!Idx : data[i] # "newer"

\* How far the reduction is.
Progress ==
  /\ stage \in {"destroy", "copy", "combine"} => in_ready /\ anti_in_ready
  /\ stage = "anti_in_flow" => in_ready
  /\ stage \notin {"combine", "release_out", "done"} => next_index = 0
  /\ stage \in {"combine", "release_out", "done"} => out_data = Partial(next_index)
  /\ stage \in {"release_out", "done"} => next_index = NIndices
  /\ stage \notin {"release_out", "done"} => reduced = {}
  /\ stage = "release_out" => "out" \notin reduced

RInv == ReductionTypes /\ FlowsMean /\ Progress

LEMMA ReductionInit == ASSUME NIndices \in Nat \ {0} PROVE R!Init => RInv
  BY DEF R!Init, RInv, ReductionTypes, FlowsMean, Progress, Stages

\* The tasks around the reduction keep to the flows.
LEMMA EnvironmentKeeps == ASSUME RInv, R!Environment PROVE RInv'
<1>1. ASSUME NEW i \in R!Idx, R!WriteIndex(i) PROVE RInv'
  <2>1. ~in_ready
    BY <1>1 DEF R!WriteIndex, RInv, FlowsMean
  <2>2. ReductionTypes'
    BY <1>1 DEF R!WriteIndex, RInv, ReductionTypes
  <2>3. FlowsMean'
    BY <1>1, <2>1 DEF R!WriteIndex, RInv, ReductionTypes, FlowsMean
  <2>4. Progress'
    BY <1>1 DEF R!WriteIndex, RInv, Progress, Partial
  <2> QED BY <2>2, <2>3, <2>4 DEF RInv
<1>2. ASSUME NEW i \in R!Idx, R!Overwrite(i) PROVE RInv'
  <2>1. ReductionTypes'
    BY <1>2 DEF R!Overwrite, RInv, ReductionTypes
  <2>2. FlowsMean'
    BY <1>2 DEF R!Overwrite, RInv, ReductionTypes, FlowsMean
  <2>3. Progress'
    BY <1>2 DEF R!Overwrite, RInv, Progress, Partial
  <2> QED BY <2>1, <2>2, <2>3 DEF RInv
<1>3. CASE R!MakeInReady
  BY <1>3 DEF R!MakeInReady, RInv, ReductionTypes, FlowsMean, Progress, Partial
<1>4. CASE R!MakeAntiInReady
  BY <1>4 DEF R!MakeAntiInReady, RInv, ReductionTypes, FlowsMean, Progress, Partial
<1>5. ASSUME NEW t \in Earlier, R!FinishUsing(t) PROVE RInv'
  BY <1>5 DEF R!FinishUsing, RInv, ReductionTypes, FlowsMean, Progress, Partial
<1> QED BY <1>1, <1>2, <1>3, <1>4, <1>5 DEF R!Environment

\* Nothing is done before both flows are ready.
LEMMA WaitingKeeps ==
  ASSUME RInv, R!Call \/ R!InFlowReady \/ R!AntiInFlowReady \/ R!Destroy PROVE RInv'
  BY DEF R!Call, R!InFlowReady, R!AntiInFlowReady, R!Destroy, RInv, ReductionTypes, FlowsMean, Progress, Partial, Stages

\* Every index is added once, the first by the copy and each other by a step.
LEMMA ReducingKeeps ==
  ASSUME NIndices \in Nat \ {0}, RInv, R!CopyFirst \/ R!Combine PROVE RInv'
<1>1. UNCHANGED <<data, in_ready, anti_in_ready, using, reduced>> /\ stage' = "combine"
  BY DEF R!CopyFirst, R!Combine
<1>2. FlowsMean'
  BY <1>1 DEF RInv, FlowsMean
<1>3. stage \in {"copy", "combine"} /\ in_ready /\ anti_in_ready /\ reduced = {}
  BY DEF R!CopyFirst, R!Combine, RInv, Progress
<1>4. CASE R!CopyFirst
  <2>1. next_index' = 1 /\ out_data' = R!Reduction(R!One(0))
    BY <1>4 DEF R!CopyFirst
  <2>2. R!One(0) = [j \in R!Idx |-> IF j < 1 THEN 1 ELSE 0]
    BY DEF R!One, R!Idx
  <2>3. out_data' = Partial(1)
    BY <2>1, <2>2 DEF Partial
  <2>4. ReductionTypes'
    BY <1>1, <2>1 DEF RInv, ReductionTypes, Stages
  <2> QED BY <1>1, <1>2, <1>3, <2>1, <2>3, <2>4 DEF RInv, Progress, Partial
<1>5. CASE R!Combine
  <2> DEFINE n == next_index
             partial(m) == [j \in R!Idx |-> IF j < m THEN 1 ELSE 0]
  <2>1. n \in R!Idx /\ next_index' = n + 1 /\ stage = "combine"
    BY <1>5 DEF R!Combine, R!Idx, RInv, ReductionTypes
  <2>2. out_data = [kind |-> "reduction", sum |-> partial(n)]
    BY <2>1 DEF RInv, Progress, Partial, R!Reduction
  <2>3. [partial(n) EXCEPT ![n] = @ + 1] = partial(n + 1)
    <3>1. \A j \in R!Idx : [partial(n) EXCEPT ![n] = @ + 1][j] = partial(n + 1)[j]
      BY <2>1 DEF R!Idx
    <3> QED BY <3>1
  <2>4. out_data' = [kind |-> "reduction", sum |-> [partial(n) EXCEPT ![n] = @ + 1]]
    BY <1>5, <2>2 DEF R!Combine
  <2>5. out_data' = Partial(n + 1)
    BY <2>3, <2>4 DEF Partial, R!Reduction
  <2>6. ReductionTypes'
    BY <1>1, <2>1 DEF RInv, ReductionTypes, Stages, R!Idx
  <2> QED BY <1>1, <1>2, <1>3, <2>1, <2>5, <2>6 DEF RInv, Progress, Partial
<1> QED BY <1>4, <1>5

LEMMA ReleasingKeeps == ASSUME NIndices \in Nat \ {0}, RInv, R!ReleaseIn \/ R!ReleaseOut PROVE RInv'
<1>1. stage \in {"combine", "release_out"} /\ stage' \in {"release_out", "done"}
      /\ next_index = NIndices /\ UNCHANGED <<next_index, data, in_ready, anti_in_ready, using, out_data>>
  BY DEF R!ReleaseIn, R!ReleaseOut, RInv, ReductionTypes, Progress
<1>2. reduced \subseteq reduced' /\ (stage' = "release_out" => "out" \notin reduced')
  BY DEF R!ReleaseIn, R!ReleaseOut, RInv, Progress
<1>3. ReductionTypes'
  BY <1>1 DEF RInv, ReductionTypes, Stages
<1>4. FlowsMean'
  BY <1>1, <1>2 DEF RInv, FlowsMean
<1>5. Progress'
  BY <1>1, <1>2 DEF RInv, Progress, Partial
<1> QED BY <1>3, <1>4, <1>5 DEF RInv

\* No earlier task uses the output and no later one writes an index while they
\* are reduced, and what is released holds every index once.
THEOREM ReductionComplete == ASSUME NIndices \in Nat \ {0} PROVE R!Spec => []ResultComplete
<1>1. RInv /\ [R!Next]_(R!vars) => RInv'
  <2>1. ASSUME RInv, UNCHANGED R!vars PROVE RInv'
    BY <2>1 DEF R!vars, RInv, ReductionTypes, FlowsMean, Progress, Partial
  <2>2. ASSUME RInv, R!Next PROVE RInv'
    BY <2>2, EnvironmentKeeps, WaitingKeeps, ReducingKeeps, ReleasingKeeps DEF R!Next, R!Proceed
  <2> QED BY <2>1, <2>2
<1>2. RInv => ResultComplete
  <2> SUFFICES ASSUME RInv PROVE ResultComplete
    OBVIOUS
  <2>1. stage \in {"copy", "combine"} => using = {} /\ \A i \in R!Idx : data[i] = "new"
    BY DEF RInv, ReductionTypes, FlowsMean, Progress
  <2>2. ASSUME "out" \in reduced PROVE out_data = R!Reduction([i \in R!Idx |-> 1])
    <3>1. out_data = Partial(NIndices)
      BY <2>2 DEF RInv, ReductionTypes, Progress
    <3>2. [j \in R!Idx |-> IF j < NIndices THEN 1 ELSE 0] = [i \in R!Idx |-> 1]
      BY DEF R!Idx
    <3> QED BY <3>1, <3>2 DEF Partial
  <2> QED BY <2>1, <2>2 DEF ResultComplete, R!ResultComplete
<1> QED BY ReductionInit, <1>1, <1>2, PTL DEF R!Spec
=============================================================================
