-------------------------- MODULE PublicationProofs --------------------------
(***************************************************************************)
(* Publishing and fetching for any collection and any fetches: readers see *)
(* the version that was published, and, when no fetching use is released   *)
(* without its data, release_event counts exactly who is still to release  *)
(* and no assert of its join counter fails.  And the control blocks below  *)
(* it: data outlives the flows that lead to it, for any number of them.    *)
(***************************************************************************)
EXTENDS MCPublication, FiniteSetTheorems, SequenceTheorems, TLAPS

Body(p) == <<p, "body">>

Verbs == {"advance", "decrement_release", "attach_copy", "copy", "decrement_fetching",
          "release_use", "unlock", "attach_fetch", "deliver", "link"}

Ops == [do : Verbs, index : Indices] \cup [do : Verbs, fetch : Fetches]

Types ==
  /\ lock \in Threads \cup {NoThread}
  /\ entry \subseteq Indices
  /\ fetching \in [Indices -> Int]
  /\ waiting \in [Indices -> Seq(Fetches)]
  /\ release \in [Indices -> Int]
  /\ copy \in [Indices -> {"none", "published"}]
  /\ data \in [Indices -> {"old", "published", "overwritten"}]
  /\ in_ready \subseteq Indices
  /\ to_copy \subseteq Indices
  /\ publishing \in [Indices -> {"no", "published", "released"}]
  /\ fetch \in [Fetches -> {"no", "registering", "registered", "released"}]
  /\ fetched \in [Fetches -> {"none", "published"}]
  /\ read \in [Fetches -> {"none", "published"}]
  /\ agenda \in [Threads -> Seq(Ops)]

-----------------------------------------------------------------------------
(* What agendas look like                                                   *)

FetchOf(what, q) == [do |-> what, fetch |-> q]

\* What a body that registers a fetch has left to do.
ToAttach(q) == <<FetchOf("attach_fetch", q), Op("unlock", q[2]), FetchOf("link", q)>>
ToDeliver(q) == <<Deliver(q), Op("unlock", q[2]), FetchOf("link", q)>>
ToUnlock(q) == <<Op("unlock", q[2]), FetchOf("link", q)>>
ToLink(q) == <<FetchOf("link", q)>>

Registering(q) == {ToAttach(q), ToDeliver(q), ToUnlock(q), ToLink(q)}

\* What a body that publishes has left after SetUp, and a writer after CopyAndRelease.
\* The fetches that wait for an entry are told one after another, before the
\* publish use is released.
Counting(p) == <<Op("decrement_release", p), Op("attach_copy", p), Op("unlock", p)>>
Attaching(p) == <<Op("attach_copy", p), Op("unlock", p)>>
BodyCopy(p) == <<Op("copy", p), Op("decrement_fetching", p), Op("release_use", p), Op("unlock", p)>>
BodyServe(p) == <<Op("decrement_fetching", p), Op("release_use", p), Op("unlock", p)>>
BodyRest(p) == <<Op("release_use", p), Op("unlock", p)>>
BodyUnlock(p) == <<Op("unlock", p)>>

WriterServe(p) == <<Op("decrement_fetching", p), Op("release_use", p)>>
WriterRest(p) == <<Op("release_use", p)>>

Delivers(p) == {Deliver(q) : q \in {f \in Fetches : f[2] = p}}
Telling(p, a, rest) == \E ds \in Seq(Delivers(p)) : a = ds \o rest

GiveBack(q) == <<Op("decrement_release", q[2])>>

\* The body of an index has nothing to do for its publication, but may register
\* one of its fetches.
Elsewhere(p) ==
  \/ agenda[Body(p)] \in {<<>>, BodyUnlock(p)}
  \/ \E q \in Fetches : q[1] = p /\ fetch[q] = "registering" /\ agenda[Body(p)] \in Registering(q)

-----------------------------------------------------------------------------
(* Where a publication is                                                   *)

Unpublished(p) ==
  /\ publishing[p] = "no" /\ copy[p] = "none" /\ p \notin to_copy
  /\ Elsewhere(p) /\ agenda[Writer(p)] = <<>>

SettingUp(p) ==
  /\ publishing[p] = "published" /\ copy[p] = "none" /\ p \notin to_copy
  /\ agenda[Body(p)] \in {SetUp(p), Counting(p), Attaching(p)} /\ agenda[Writer(p)] = <<>>

Awaiting(p) ==
  /\ publishing[p] = "published" /\ copy[p] = "none" /\ p \in to_copy /\ p \notin in_ready
  /\ Elsewhere(p) /\ agenda[Writer(p)] = <<>>

BodyCopies(p) ==
  /\ publishing[p] = "published" /\ p \notin to_copy /\ p \in in_ready
  /\ agenda[Writer(p)] = <<>>
  /\ \/ copy[p] = "none" /\ agenda[Body(p)] = BodyCopy(p)
     \/ agenda[Body(p)] = BodyServe(p)
     \/ Telling(p, agenda[Body(p)], BodyRest(p))

WriterCopies(p) ==
  /\ publishing[p] = "published" /\ p \notin to_copy /\ p \in in_ready
  /\ Elsewhere(p)
  /\ \/ copy[p] = "none" /\ agenda[Writer(p)] = CopyAndRelease(p)
     \/ agenda[Writer(p)] = WriterServe(p)
     \/ Telling(p, agenda[Writer(p)], WriterRest(p))

Over(p) ==
  /\ publishing[p] = "released" /\ p \notin to_copy /\ p \in in_ready
  /\ Elsewhere(p) /\ agenda[Writer(p)] = <<>>

Stage(p) ==
  \/ Unpublished(p) \/ SettingUp(p) \/ Awaiting(p)
  \/ BodyCopies(p) \/ WriterCopies(p) \/ Over(p)

\* A reader only gives back its unit, and a fetch that waits is for that entry.
Reader(q) ==
  \/ agenda[q] = <<>>
  \/ fetch[q] = "released" /\ agenda[q] = GiveBack(q)

\* The data of an index is the published version from when its in flow is ready
\* until its publish use is released; what is fetched is a copy of it.
Versions ==
  /\ \A p \in Indices : (data[p] = "old" <=> p \notin in_ready)
                        /\ (data[p] = "overwritten" => publishing[p] = "released")
  /\ \A q \in Fetches : fetched[q] # "none" => copy[q[2]] # "none"
  /\ \A p \in Indices : \A i \in 1..Len(waiting[p]) : waiting[p][i][2] = p

IInv ==
  /\ Types /\ Versions
  /\ \A p \in Indices : Stage(p)
  /\ \A q \in Fetches : Reader(q)

-----------------------------------------------------------------------------
(* The count of release_event, when every fetching use is held for its data *)

Pending(p) == {q \in Fetches : q[2] = p /\ ~(fetch[q] = "released" /\ agenda[q] = <<>>)}

Counted(p) ==
  IF p \notin entry
    THEN publishing[p] = "no" /\ \A q \in Fetches : q[2] = p => fetch[q] = "no"
    ELSE release[p] = IF publishing[p] = "no" \/ agenda[Body(p)] = SetUp(p)
                        THEN 1
                        ELSE Cardinality(Pending(p))
                               + (IF agenda[Body(p)] = Counting(p) THEN 1 ELSE 0)

HeldForData == \A q \in Fetches : fetch[q] = "released" => fetched[q] # "none"

CInv == HeldForData /\ \A p \in Indices : Counted(p)

-----------------------------------------------------------------------------
(* Names and sequences                                                      *)

LEMMA Names ==
  /\ \A p \in Indices : /\ Body(p) \in Threads /\ Writer(p) \in Threads
                        /\ Body(p) \notin Fetches /\ Writer(p) \notin Fetches
  /\ \A p, r \in Indices : /\ Body(p) # Writer(r)
                           /\ Body(p) = Body(r) => p = r
                           /\ Writer(p) = Writer(r) => p = r
  /\ Fetches \subseteq Threads
  /\ \A q \in Fetches : q[1] \in Indices /\ q[2] \in Indices
  /\ \A th \in Threads : th \in Fetches \/ \E p \in Indices : th = Body(p) \/ th = Writer(p)
  /\ Publishers \subseteq Indices
  /\ NoThread \notin Threads
<1> USE FetchesAssumption
<1>1. \A p \in Indices : Body(p) \in Threads /\ Writer(p) \in Threads
  BY DEF Body, Writer, Threads
<1>2. \A q \in Fetches : q[1] \in Indices /\ q[2] \in Indices /\ q = <<q[1], q[2]>>
  OBVIOUS
<1>3. \A p \in Indices : Body(p) \notin Fetches /\ Writer(p) \notin Fetches
  BY <1>2 DEF Body, Writer
<1>4. \A p, r \in Indices : /\ Body(p) # Writer(r)
                            /\ Body(p) = Body(r) => p = r
                            /\ Writer(p) = Writer(r) => p = r
  BY DEF Body, Writer
<1>5. \A th \in Threads : th \in Fetches \/ \E p \in Indices : th = Body(p) \/ th = Writer(p)
  BY DEF Body, Writer, Threads
<1>6. Publishers \subseteq Indices /\ Fetches \subseteq Threads
  BY <1>2 DEF Publishers, Threads
<1>7. NoThread \notin Threads
  BY <1>2 DEF NoThread, Threads
<1> QED BY <1>1, <1>2, <1>3, <1>4, <1>5, <1>6, <1>7

LEMMA OpsFacts ==
  /\ \A p \in Indices : \A what \in Verbs : Op(what, p) \in Ops
  /\ \A q \in Fetches : \A what \in Verbs : FetchOf(what, q) \in Ops
  /\ \A q \in Fetches : Deliver(q) \in Ops /\ Deliver(q).fetch = q /\ Deliver(q).do = "deliver"
  /\ \A what, p : Op(what, p).do = what /\ Op(what, p).index = p
  /\ \A what, q : FetchOf(what, q).do = what /\ FetchOf(what, q).fetch = q
  /\ \A p \in Indices : Delivers(p) \subseteq Ops
<1>1. \A p \in Indices : \A what \in Verbs : Op(what, p) \in [do : Verbs, index : Indices]
  BY DEF Op
<1>2. \A q \in Fetches : \A what \in Verbs : FetchOf(what, q) \in [do : Verbs, fetch : Fetches]
  BY DEF FetchOf
<1>3. \A q \in Fetches : Deliver(q) \in [do : Verbs, fetch : Fetches]
  BY DEF Deliver, Verbs
<1>4. \A p \in Indices : Delivers(p) \subseteq [do : Verbs, fetch : Fetches]
  BY <1>3 DEF Delivers
<1>5. \A what, p : Op(what, p).do = what /\ Op(what, p).index = p
  BY DEF Op
<1>6. \A what, q : FetchOf(what, q).do = what /\ FetchOf(what, q).fetch = q
  BY DEF FetchOf
<1>7. \A q : Deliver(q).fetch = q /\ Deliver(q).do = "deliver"
  BY DEF Deliver
<1> QED BY <1>1, <1>2, <1>3, <1>4, <1>5, <1>6, <1>7 DEF Ops

\* What a concatenation is.
LEMMA Join ==
  ASSUME NEW S, NEW s \in Seq(S), NEW t \in Seq(S), NEW u \in Seq(S),
         Len(u) = Len(s) + Len(t),
         \A i \in 1..Len(s) : u[i] = s[i], \A i \in 1..Len(t) : u[Len(s) + i] = t[i]
  PROVE  s \o t = u
<1> DEFINE m == Len(s)
           n == Len(t)
<1>1. s \o t \in Seq(S) /\ Len(s \o t) = m + n
  OBVIOUS
<1>2. \A i \in 1..Len(s) + Len(t) : (s \o t)[i] = IF i <= Len(s) THEN s[i] ELSE t[i - Len(s)]
  BY ConcatProperties, Zenon
<1>3. ASSUME NEW i \in 1..Len(u) PROVE u[i] = (s \o t)[i]
  <2>1. CASE i <= m
    BY <1>2, <2>1
  <2>2. CASE ~(i <= m)
    <3>1. i - m \in 1..n /\ i = m + (i - m)
      BY <2>2
    <3>2. u[i] = t[i - m]
      BY <3>1
    <3> QED BY <1>2, <2>2, <3>2
  <2> QED BY <2>1, <2>2
<1> QED BY <1>1, <1>3, SeqEqual, Zenon

LEMMA OneTwo ==
  ASSUME NEW S, NEW a \in S, NEW b \in S, NEW c \in S
  PROVE  <<a>> \o <<b, c>> = <<a, b, c>>
<1> DEFINE s == <<a>>
           t == <<b, c>>
           u == <<a, b, c>>
<1>1. s \in Seq(S) /\ t \in Seq(S) /\ u \in Seq(S)
  OBVIOUS
<1>2. Len(s) = 1 /\ Len(t) = 2 /\ Len(u) = 3
  OBVIOUS
<1>3. u[1] = s[1] /\ u[2] = t[1] /\ u[3] = t[2]
  OBVIOUS
<1> HIDE DEF s, t, u
<1>4. (\A i \in 1..Len(s) : u[i] = s[i]) /\ (\A i \in 1..Len(t) : u[Len(s) + i] = t[i])
  BY <1>2, <1>3
<1>5. Len(u) = Len(s) + Len(t)
  BY <1>2
<1>6. s \o t = u
  BY <1>1, <1>4, <1>5, Join, Zenon
<1> QED BY <1>6 DEF s, t, u

LEMMA ThreeOne ==
  ASSUME NEW S, NEW a \in S, NEW b \in S, NEW c \in S, NEW d \in S
  PROVE  <<a, b, c>> \o <<d>> = <<a, b, c, d>>
<1> DEFINE s == <<a, b, c>>
           t == <<d>>
           u == <<a, b, c, d>>
<1>1. s \in Seq(S) /\ t \in Seq(S) /\ u \in Seq(S)
  OBVIOUS
<1>2. Len(s) = 3 /\ Len(t) = 1 /\ Len(u) = 4
  OBVIOUS
<1>3. u[1] = s[1] /\ u[2] = s[2] /\ u[3] = s[3] /\ u[4] = t[1]
  OBVIOUS
<1> HIDE DEF s, t, u
<1>4. (\A i \in 1..Len(s) : u[i] = s[i]) /\ (\A i \in 1..Len(t) : u[Len(s) + i] = t[i])
  BY <1>2, <1>3
<1>5. Len(u) = Len(s) + Len(t)
  BY <1>2
<1>6. s \o t = u
  BY <1>1, <1>4, <1>5, Join, Zenon
<1> QED BY <1>6 DEF s, t, u

LEMMA Tuples ==
  ASSUME NEW S, NEW a \in S, NEW b \in S, NEW c \in S, NEW d \in S
  PROVE  /\ <<a>> \in Seq(S) /\ <<a, b>> \in Seq(S)
         /\ <<a, b, c>> \in Seq(S) /\ <<a, b, c, d>> \in Seq(S)
OBVIOUS

\* The script s begins with op, and goes on with rest.
Script(s, op, rest) ==
  s \in Seq(Ops) /\ s # <<>> /\ Head(s) = op /\ <<>> \o Tail(s) = rest

LEMMA Scripts ==
  /\ \A p \in Indices :
       /\ Script(SetUp(p), Op("advance", p), Counting(p))
       /\ Script(Counting(p), Op("decrement_release", p), Attaching(p))
       /\ Script(Attaching(p), Op("attach_copy", p), BodyUnlock(p))
       /\ Script(BodyCopy(p), Op("copy", p), BodyServe(p))
       /\ Script(BodyServe(p), Op("decrement_fetching", p), BodyRest(p))
       /\ Script(BodyRest(p), Op("release_use", p), BodyUnlock(p))
       /\ Script(BodyUnlock(p), Op("unlock", p), <<>>)
       /\ Script(CopyAndRelease(p), Op("copy", p), WriterServe(p))
       /\ Script(WriterServe(p), Op("decrement_fetching", p), WriterRest(p))
       /\ Script(WriterRest(p), Op("release_use", p), <<>>)
       /\ CopyAndRelease(p) \o Tail(Attaching(p)) = BodyCopy(p)
  /\ \A q \in Fetches :
       /\ Script(ToAttach(q), FetchOf("attach_fetch", q), ToUnlock(q))
       /\ Script(ToDeliver(q), Deliver(q), ToUnlock(q))
       /\ Script(ToUnlock(q), Op("unlock", q[2]), ToLink(q))
       /\ Script(ToLink(q), FetchOf("link", q), <<>>)
       /\ Script(GiveBack(q), Op("decrement_release", q[2]), <<>>)
       /\ <<Deliver(q)>> \o Tail(ToAttach(q)) = ToDeliver(q)
<1>1. \A a \in Ops : Script(<<a>>, a, <<>>)
  <2> SUFFICES ASSUME NEW a \in Ops PROVE Script(<<a>>, a, <<>>)
    OBVIOUS
  <2>1. <<a>> # <<>> /\ Head(<<a>>) = a /\ <<>> \o Tail(<<a>>) = <<>>
    OBVIOUS
  <2> QED BY <2>1, Tuples DEF Script
<1>2. \A a, b \in Ops : Script(<<a, b>>, a, <<b>>)
  <2> SUFFICES ASSUME NEW a \in Ops, NEW b \in Ops PROVE Script(<<a, b>>, a, <<b>>)
    OBVIOUS
  <2>1. <<a, b>> # <<>> /\ Head(<<a, b>>) = a /\ <<>> \o Tail(<<a, b>>) = <<b>>
    OBVIOUS
  <2> QED BY <2>1, Tuples DEF Script
<1>3. \A a, b, c \in Ops : Script(<<a, b, c>>, a, <<b, c>>)
  <2> SUFFICES ASSUME NEW a \in Ops, NEW b \in Ops, NEW c \in Ops
               PROVE  Script(<<a, b, c>>, a, <<b, c>>)
    OBVIOUS
  <2>1. <<a, b, c>> # <<>> /\ Head(<<a, b, c>>) = a /\ <<>> \o Tail(<<a, b, c>>) = <<b, c>>
    OBVIOUS
  <2> QED BY <2>1, Tuples DEF Script
<1>4. \A a, b, c, d \in Ops : Script(<<a, b, c, d>>, a, <<b, c, d>>)
  <2> SUFFICES ASSUME NEW a \in Ops, NEW b \in Ops, NEW c \in Ops, NEW d \in Ops
               PROVE  Script(<<a, b, c, d>>, a, <<b, c, d>>)
    OBVIOUS
  <2>1. /\ <<a, b, c, d>> # <<>> /\ Head(<<a, b, c, d>>) = a
        /\ <<>> \o Tail(<<a, b, c, d>>) = <<b, c, d>>
    OBVIOUS
  <2> QED BY <2>1, Tuples DEF Script
<1>5. ASSUME NEW p \in Indices, NEW what \in Verbs PROVE Op(what, p) \in Ops
  BY OpsFacts
<1>6. ASSUME NEW q \in Fetches
      PROVE  /\ Deliver(q) \in Ops
             /\ \A what \in Verbs : FetchOf(what, q) \in Ops /\ Op(what, q[2]) \in Ops
  BY OpsFacts, Names
<1>7. ASSUME NEW p \in Indices
      PROVE  /\ Script(SetUp(p), Op("advance", p), Counting(p))
             /\ Script(Counting(p), Op("decrement_release", p), Attaching(p))
             /\ Script(Attaching(p), Op("attach_copy", p), BodyUnlock(p))
  BY <1>1, <1>2, <1>3, <1>4, <1>5 DEF SetUp, Counting, Attaching, BodyUnlock, Verbs
<1>8. ASSUME NEW p \in Indices
       PROVE  /\ Script(BodyCopy(p), Op("copy", p), BodyServe(p))
              /\ Script(BodyServe(p), Op("decrement_fetching", p), BodyRest(p))
              /\ Script(BodyRest(p), Op("release_use", p), BodyUnlock(p))
              /\ Script(BodyUnlock(p), Op("unlock", p), <<>>)
  BY <1>1, <1>2, <1>3, <1>4, <1>5 DEF BodyCopy, BodyServe, BodyRest, BodyUnlock, Verbs
<1>9. ASSUME NEW p \in Indices
       PROVE  /\ Script(CopyAndRelease(p), Op("copy", p), WriterServe(p))
              /\ Script(WriterServe(p), Op("decrement_fetching", p), WriterRest(p))
              /\ Script(WriterRest(p), Op("release_use", p), <<>>)
              /\ CopyAndRelease(p) \o Tail(Attaching(p)) = BodyCopy(p)
  <2>1. /\ Script(CopyAndRelease(p), Op("copy", p), WriterServe(p))
        /\ Script(WriterServe(p), Op("decrement_fetching", p), WriterRest(p))
        /\ Script(WriterRest(p), Op("release_use", p), <<>>)
    BY <1>1, <1>2, <1>3, <1>5 DEF CopyAndRelease, WriterServe, WriterRest, Verbs
  <2>2. CopyAndRelease(p) \o Tail(Attaching(p)) = BodyCopy(p)
    <3>1. Tail(Attaching(p)) = <<Op("unlock", p)>>
      BY DEF Attaching
    <3>2. /\ Op("copy", p) \in Ops /\ Op("decrement_fetching", p) \in Ops
          /\ Op("release_use", p) \in Ops /\ Op("unlock", p) \in Ops
      BY <1>5 DEF Verbs
    <3>3. CopyAndRelease(p) \o <<Op("unlock", p)>> = BodyCopy(p)
      BY <3>2, ThreeOne, Zenon DEF CopyAndRelease, BodyCopy
    <3> QED BY <3>1, <3>3
  <2> QED BY <2>1, <2>2
<1>10. ASSUME NEW q \in Fetches
       PROVE  /\ Script(ToAttach(q), FetchOf("attach_fetch", q), ToUnlock(q))
              /\ Script(ToDeliver(q), Deliver(q), ToUnlock(q))
              /\ Script(ToUnlock(q), Op("unlock", q[2]), ToLink(q))
              /\ Script(ToLink(q), FetchOf("link", q), <<>>)
              /\ Script(GiveBack(q), Op("decrement_release", q[2]), <<>>)
  BY <1>1, <1>2, <1>3, <1>6 DEF ToAttach, ToDeliver, ToUnlock, ToLink, GiveBack, Verbs
<1>11. ASSUME NEW q \in Fetches PROVE <<Deliver(q)>> \o Tail(ToAttach(q)) = ToDeliver(q)
  <2>1. Tail(ToAttach(q)) = <<Op("unlock", q[2]), FetchOf("link", q)>>
    BY DEF ToAttach
  <2>2. Deliver(q) \in Ops /\ Op("unlock", q[2]) \in Ops /\ FetchOf("link", q) \in Ops
    BY <1>6 DEF Verbs
  <2>3. <<Deliver(q)>> \o <<Op("unlock", q[2]), FetchOf("link", q)>> = ToDeliver(q)
    BY <2>2, OneTwo, Zenon DEF ToDeliver
  <2> QED BY <2>1, <2>3
<1> QED BY <1>7, <1>8, <1>9, <1>10, <1>11

\* Telling the next fetch, or the last one having been told.
LEMMA TellingNext ==
  ASSUME NEW p, NEW a, NEW rest \in Seq(Ops), rest # <<>>, Telling(p, a, rest)
  PROVE  \/ a = rest
         \/ \E q \in Fetches : /\ q[2] = p /\ Head(a) = Deliver(q)
                               /\ Telling(p, <<>> \o Tail(a), rest)
<1>1. PICK ds \in Seq(Delivers(p)) : a = ds \o rest
  BY DEF Telling
<1>2. CASE ds = <<>>
  BY <1>1, <1>2, ConcatEmptySeq
<1>3. CASE ds # <<>>
  <2>1. Head(ds) \in Delivers(p) /\ Tail(ds) \in Seq(Delivers(p))
    BY <1>3
  <2>2. PICK S : Delivers(p) \cup Ops = S
    OBVIOUS
  <2>3. ds \in Seq(S) /\ rest \in Seq(S) /\ Tail(ds) \in Seq(S)
    BY <1>3, <2>2
  <2>4. Head(a) = Head(ds) /\ Tail(a) = Tail(ds) \o rest
    BY <1>1, <1>3, <2>3
  <2>5. <<>> \o Tail(a) = Tail(ds) \o rest
    <3>1. Tail(a) \in Seq(S)
      BY <2>3, <2>4, ConcatProperties
    <3> QED BY <2>4, <3>1, ConcatEmptySeq
  <2>6. \E q \in Fetches : q[2] = p /\ Head(ds) = Deliver(q)
    BY <2>1 DEF Delivers
  <2> QED BY <2>1, <2>4, <2>5, <2>6 DEF Telling
<1> QED BY <1>2, <1>3

-----------------------------------------------------------------------------
(* Who comes to which operation                                             *)

\* The body of the index is not at its publication.
Away(p) == Unpublished(p) \/ Awaiting(p) \/ WriterCopies(p) \/ Over(p)

\* Where a publication is when the body of its index comes to an operation.
AtBody(p, a, h) ==
  \/ SettingUp(p) /\ a = SetUp(p) /\ h = Op("advance", p)
  \/ SettingUp(p) /\ a = Counting(p) /\ h = Op("decrement_release", p)
  \/ SettingUp(p) /\ a = Attaching(p) /\ h = Op("attach_copy", p)
  \/ BodyCopies(p) /\ copy[p] = "none" /\ a = BodyCopy(p) /\ h = Op("copy", p)
  \/ BodyCopies(p) /\ a = BodyServe(p) /\ h = Op("decrement_fetching", p)
  \/ BodyCopies(p) /\ a = BodyRest(p) /\ h = Op("release_use", p)
  \/ /\ BodyCopies(p)
     /\ \E q \in Fetches : q[2] = p /\ h = Deliver(q) /\ Telling(p, <<>> \o Tail(a), BodyRest(p))
  \/ Away(p) /\ a = BodyUnlock(p) /\ h = Op("unlock", p)
  \/ /\ Away(p)
     /\ \E q \in Fetches :
          /\ q[1] = p /\ fetch[q] = "registering"
          /\ \/ a = ToAttach(q) /\ h = FetchOf("attach_fetch", q)
             \/ a = ToDeliver(q) /\ h = Deliver(q)
             \/ a = ToUnlock(q) /\ h = Op("unlock", q[2])
             \/ a = ToLink(q) /\ h = FetchOf("link", q)

AtWriter(p, a, h) ==
  /\ WriterCopies(p)
  /\ \/ copy[p] = "none" /\ a = CopyAndRelease(p) /\ h = Op("copy", p)
     \/ a = WriterServe(p) /\ h = Op("decrement_fetching", p)
     \/ a = WriterRest(p) /\ h = Op("release_use", p)
     \/ \E q \in Fetches : q[2] = p /\ h = Deliver(q) /\ Telling(p, <<>> \o Tail(a), WriterRest(p))

LEMMA BodyForms ==
  ASSUME IInv, NEW p \in Indices, agenda[Body(p)] # <<>>
  PROVE  AtBody(p, agenda[Body(p)], Head(agenda[Body(p)]))
<1>1. Stage(p)
  BY DEF IInv
<1>2. CASE Away(p)
  <2>1. Elsewhere(p)
    BY <1>2 DEF Away, Unpublished, Awaiting, WriterCopies, Over
  <2> QED BY <1>2, <2>1, Scripts DEF Script, Elsewhere, Registering, AtBody
<1>3. CASE SettingUp(p)
  BY <1>3, Scripts DEF Script, SettingUp, AtBody
<1>4. CASE BodyCopies(p)
  <2>1. CASE Telling(p, agenda[Body(p)], BodyRest(p))
    <3>1. BodyRest(p) \in Seq(Ops) /\ BodyRest(p) # <<>> /\ Head(BodyRest(p)) = Op("release_use", p)
      BY Scripts DEF Script
    <3> QED BY <1>4, <2>1, <3>1, TellingNext DEF AtBody
  <2>2. CASE ~Telling(p, agenda[Body(p)], BodyRest(p))
    BY <1>4, <2>2, Scripts DEF Script, BodyCopies, AtBody
  <2> QED BY <2>1, <2>2
<1> QED BY <1>1, <1>2, <1>3, <1>4 DEF Stage, Away

LEMMA WriterForms ==
  ASSUME IInv, NEW p \in Indices, agenda[Writer(p)] # <<>>
  PROVE  AtWriter(p, agenda[Writer(p)], Head(agenda[Writer(p)]))
<1>1. WriterCopies(p)
  BY DEF IInv, Stage, Unpublished, SettingUp, Awaiting, BodyCopies, Over
<1>2. CASE Telling(p, agenda[Writer(p)], WriterRest(p))
  <2>1. WriterRest(p) \in Seq(Ops) /\ WriterRest(p) # <<>> /\ Head(WriterRest(p)) = Op("release_use", p)
    BY Scripts DEF Script
  <2> QED BY <1>1, <1>2, <2>1, TellingNext DEF AtWriter
<1>3. CASE ~Telling(p, agenda[Writer(p)], WriterRest(p))
  BY <1>1, <1>3, Scripts DEF Script, WriterCopies, AtWriter
<1> QED BY <1>2, <1>3

LEMMA ReaderForms ==
  ASSUME IInv, NEW q \in Fetches, agenda[q] # <<>>
  PROVE  /\ fetch[q] = "released" /\ agenda[q] = GiveBack(q)
         /\ Head(agenda[q]) = Op("decrement_release", q[2])
BY Scripts DEF Script, IInv, Reader

LEMMA IdleIsAway ==
  ASSUME IInv, NEW p \in Indices, agenda[Body(p)] = <<>>
  PROVE  Away(p)
<1>1. ~SettingUp(p)
  BY Scripts DEF Script, SettingUp
<1>2. ~Telling(p, <<>>, BodyRest(p))
  <2> SUFFICES ASSUME NEW ds \in Seq(Delivers(p)), <<>> = ds \o BodyRest(p) PROVE FALSE
    BY DEF Telling
  <2>1. BodyRest(p) \in Seq(Ops) /\ BodyRest(p) # <<>>
    BY Scripts DEF Script
  <2>2. PICK S : Delivers(p) \cup Ops = S
    OBVIOUS
  <2>3. ds \in Seq(S) /\ BodyRest(p) \in Seq(S)
    BY <2>1, <2>2
  <2>4. Len(BodyRest(p)) > 0
    BY <2>1
  <2>5. Len(ds \o BodyRest(p)) = Len(ds) + Len(BodyRest(p)) /\ Len(ds) \in Nat
    BY <2>3, ConcatProperties
  <2>6. Len(ds \o BodyRest(p)) = 0
    BY EmptySeq
  <2>7. Len(BodyRest(p)) \in Nat
    BY <2>3
  <2> QED BY <2>4, <2>5, <2>6, <2>7
<1>3. ~BodyCopies(p)
  BY <1>2, Scripts DEF Script, BodyCopies
<1> QED BY <1>1, <1>3 DEF IInv, Stage, Away

LEMMA Fields ==
  /\ \A what, p : Op(what, p).do = what /\ Op(what, p).index = p
  /\ \A what, q : FetchOf(what, q).do = what /\ FetchOf(what, q).fetch = q
  /\ \A q : Deliver(q).do = "deliver" /\ Deliver(q).fetch = q
BY DEF Op, FetchOf, Deliver

\* The operation tells where the publication is.
LEMMA BodyVerbs ==
  ASSUME NEW p, NEW a, NEW h, AtBody(p, a, h)
  PROVE  /\ h.do = "advance" => SettingUp(p) /\ a = SetUp(p) /\ h.index = p
         /\ h.do = "decrement_release" => SettingUp(p) /\ a = Counting(p) /\ h.index = p
         /\ h.do = "attach_copy" => SettingUp(p) /\ a = Attaching(p) /\ h.index = p
         /\ h.do = "copy" => BodyCopies(p) /\ a = BodyCopy(p) /\ h.index = p
         /\ h.do = "decrement_fetching" => BodyCopies(p) /\ a = BodyServe(p) /\ h.index = p
         /\ h.do = "release_use" => BodyCopies(p) /\ a = BodyRest(p) /\ h.index = p
         /\ h.do = "attach_fetch" =>
              \E q \in Fetches : /\ q[1] = p /\ Away(p) /\ fetch[q] = "registering"
                                 /\ a = ToAttach(q) /\ h.fetch = q
         /\ h.do = "deliver" =>
              \E q \in Fetches :
                /\ h.fetch = q
                /\ \/ /\ q[1] = p /\ Away(p) /\ fetch[q] = "registering" /\ a = ToDeliver(q)
                   \/ q[2] = p /\ BodyCopies(p) /\ Telling(p, <<>> \o Tail(a), BodyRest(p))
         /\ h.do = "link" =>
              \E q \in Fetches : /\ q[1] = p /\ Away(p) /\ fetch[q] = "registering"
                                 /\ a = ToLink(q) /\ h.fetch = q
         /\ h.do = "unlock" =>
              /\ Away(p)
              /\ \/ a = BodyUnlock(p)
                 \/ \E q \in Fetches : q[1] = p /\ fetch[q] = "registering" /\ a = ToUnlock(q)
<1> DEFINE OwnScript ==
             \/ SettingUp(p) /\ a = SetUp(p) /\ h.do = "advance" /\ h.index = p
             \/ SettingUp(p) /\ a = Counting(p) /\ h.do = "decrement_release" /\ h.index = p
             \/ SettingUp(p) /\ a = Attaching(p) /\ h.do = "attach_copy" /\ h.index = p
             \/ BodyCopies(p) /\ a = BodyCopy(p) /\ h.do = "copy" /\ h.index = p
             \/ BodyCopies(p) /\ a = BodyServe(p) /\ h.do = "decrement_fetching" /\ h.index = p
             \/ BodyCopies(p) /\ a = BodyRest(p) /\ h.do = "release_use" /\ h.index = p
             \/ Away(p) /\ a = BodyUnlock(p) /\ h.do = "unlock"
           Tells ==
             /\ h.do = "deliver" /\ BodyCopies(p) /\ Telling(p, <<>> \o Tail(a), BodyRest(p))
             /\ \E q \in Fetches : q[2] = p /\ h.fetch = q
           Fetching ==
             /\ Away(p)
             /\ \E q \in Fetches :
                  /\ q[1] = p /\ fetch[q] = "registering"
                  /\ \/ a = ToAttach(q) /\ h.do = "attach_fetch" /\ h.fetch = q
                     \/ a = ToDeliver(q) /\ h.do = "deliver" /\ h.fetch = q
                     \/ a = ToUnlock(q) /\ h.do = "unlock"
                     \/ a = ToLink(q) /\ h.do = "link" /\ h.fetch = q
<1>1. OwnScript \/ Tells \/ Fetching
  BY DEF AtBody, Op, FetchOf, Deliver
<1>2. CASE OwnScript
  BY <1>2
<1>3. CASE Tells
  BY <1>3
<1>4. CASE Fetching
  BY <1>4
<1> QED BY <1>1, <1>2, <1>3, <1>4

LEMMA WriterVerbs ==
  ASSUME NEW p, NEW a, NEW h, AtWriter(p, a, h)
  PROVE  /\ h.do \in {"copy", "decrement_fetching", "release_use", "deliver"} /\ WriterCopies(p)
         /\ h.do = "copy" => a = CopyAndRelease(p) /\ h.index = p
         /\ h.do = "decrement_fetching" => a = WriterServe(p) /\ h.index = p
         /\ h.do = "release_use" => a = WriterRest(p) /\ h.index = p
         /\ h.do = "deliver" =>
              \E q \in Fetches : /\ q[2] = p /\ h.fetch = q
                                 /\ Telling(p, <<>> \o Tail(a), WriterRest(p))
<1>1. WriterCopies(p)
  BY DEF AtWriter
<1>2. \/ a = CopyAndRelease(p) /\ h.do = "copy" /\ h.index = p
      \/ a = WriterServe(p) /\ h.do = "decrement_fetching" /\ h.index = p
      \/ a = WriterRest(p) /\ h.do = "release_use" /\ h.index = p
      \/ /\ h.do = "deliver"
         /\ \E q \in Fetches : /\ q[2] = p /\ h.fetch = q
                               /\ Telling(p, <<>> \o Tail(a), WriterRest(p))
  BY DEF AtWriter, Op, Deliver
<1> QED BY <1>1, <1>2

\* The thread of a reader only gives back its unit.
LEMMA Comes ==
  ASSUME IInv, NEW th \in Threads, agenda[th] # <<>>
  PROVE  \/ \E p \in Indices : th = Body(p) /\ AtBody(p, agenda[th], Head(agenda[th]))
         \/ \E p \in Indices : th = Writer(p) /\ AtWriter(p, agenda[th], Head(agenda[th]))
         \/ /\ th \in Fetches /\ fetch[th] = "released" /\ agenda[th] = GiveBack(th)
            /\ Head(agenda[th]).do = "decrement_release" /\ Head(agenda[th]).index = th[2]
<1>1. th \in Fetches \/ \E p \in Indices : th = Body(p) \/ th = Writer(p)
  BY Names
<1>2. CASE th \in Fetches
  BY <1>2, ReaderForms, Fields
<1>3. ASSUME NEW p \in Indices, th = Body(p) PROVE AtBody(p, agenda[th], Head(agenda[th]))
  BY <1>3, BodyForms
<1>4. ASSUME NEW p \in Indices, th = Writer(p) PROVE AtWriter(p, agenda[th], Head(agenda[th]))
  BY <1>4, WriterForms
<1> QED BY <1>1, <1>2, <1>3, <1>4

LEMMA WhoAdvances ==
  ASSUME IInv, NEW th \in Threads, IsNext(th, "advance")
  PROVE  \E p \in Indices : /\ th = Body(p) /\ SettingUp(p) /\ agenda[th] = SetUp(p)
                            /\ Head(agenda[th]).index = p
BY Comes, BodyVerbs, WriterVerbs DEF IsNext

LEMMA WhoDecrementsRelease ==
  ASSUME IInv, NEW th \in Threads, IsNext(th, "decrement_release")
  PROVE  \/ \E p \in Indices : /\ th = Body(p) /\ SettingUp(p) /\ agenda[th] = Counting(p)
                               /\ Head(agenda[th]).index = p
         \/ /\ th \in Fetches /\ fetch[th] = "released" /\ agenda[th] = GiveBack(th)
            /\ Head(agenda[th]).index = th[2]
BY Comes, BodyVerbs, WriterVerbs DEF IsNext

LEMMA WhoAttachesCopy ==
  ASSUME IInv, NEW th \in Threads, IsNext(th, "attach_copy")
  PROVE  \E p \in Indices : /\ th = Body(p) /\ SettingUp(p) /\ agenda[th] = Attaching(p)
                            /\ Head(agenda[th]).index = p
BY Comes, BodyVerbs, WriterVerbs DEF IsNext

LEMMA WhoCopies ==
  ASSUME IInv, NEW th \in Threads, IsNext(th, "copy")
  PROVE  \E p \in Indices :
           /\ Head(agenda[th]).index = p
           /\ \/ th = Body(p) /\ BodyCopies(p) /\ agenda[th] = BodyCopy(p)
              \/ th = Writer(p) /\ WriterCopies(p) /\ agenda[th] = CopyAndRelease(p)
BY Comes, BodyVerbs, WriterVerbs DEF IsNext

LEMMA WhoServes ==
  ASSUME IInv, NEW th \in Threads, IsNext(th, "decrement_fetching")
  PROVE  \E p \in Indices :
           /\ Head(agenda[th]).index = p
           /\ \/ th = Body(p) /\ BodyCopies(p) /\ agenda[th] = BodyServe(p)
              \/ th = Writer(p) /\ WriterCopies(p) /\ agenda[th] = WriterServe(p)
BY Comes, BodyVerbs, WriterVerbs DEF IsNext

LEMMA WhoReleasesUse ==
  ASSUME IInv, NEW th \in Threads, IsNext(th, "release_use")
  PROVE  \E p \in Indices :
           /\ Head(agenda[th]).index = p
           /\ \/ th = Body(p) /\ BodyCopies(p) /\ agenda[th] = BodyRest(p)
              \/ th = Writer(p) /\ WriterCopies(p) /\ agenda[th] = WriterRest(p)
BY Comes, BodyVerbs, WriterVerbs DEF IsNext

LEMMA WhoAttachesFetch ==
  ASSUME IInv, NEW th \in Threads, IsNext(th, "attach_fetch")
  PROVE  \E q \in Fetches :
           /\ th = Body(q[1]) /\ Away(q[1]) /\ fetch[q] = "registering"
           /\ agenda[th] = ToAttach(q) /\ Head(agenda[th]).fetch = q
BY Comes, BodyVerbs, WriterVerbs DEF IsNext

LEMMA WhoDelivers ==
  ASSUME IInv, NEW th \in Threads, IsNext(th, "deliver")
  PROVE  \E q \in Fetches :
           /\ Head(agenda[th]).fetch = q
           /\ \/ /\ th = Body(q[1]) /\ Away(q[1]) /\ fetch[q] = "registering"
                 /\ agenda[th] = ToDeliver(q)
              \/ /\ th = Body(q[2]) /\ BodyCopies(q[2])
                 /\ Telling(q[2], <<>> \o Tail(agenda[th]), BodyRest(q[2]))
              \/ /\ th = Writer(q[2]) /\ WriterCopies(q[2])
                 /\ Telling(q[2], <<>> \o Tail(agenda[th]), WriterRest(q[2]))
BY Comes, BodyVerbs, WriterVerbs DEF IsNext

LEMMA WhoLinks ==
  ASSUME IInv, NEW th \in Threads, IsNext(th, "link")
  PROVE  \E q \in Fetches :
           /\ th = Body(q[1]) /\ Away(q[1]) /\ fetch[q] = "registering"
           /\ agenda[th] = ToLink(q) /\ Head(agenda[th]).fetch = q
BY Comes, BodyVerbs, WriterVerbs DEF IsNext

LEMMA WhoUnlocks ==
  ASSUME IInv, NEW th \in Threads, IsNext(th, "unlock")
  PROVE  \E p \in Indices :
           /\ th = Body(p) /\ Away(p)
           /\ \/ agenda[th] = BodyUnlock(p)
              \/ \E q \in Fetches : /\ q[1] = p /\ fetch[q] = "registering"
                                    /\ agenda[th] = ToUnlock(q)
BY Comes, BodyVerbs, WriterVerbs DEF IsNext

-----------------------------------------------------------------------------
(* What a step leaves alone                                                 *)

LEMMA AgendaMove ==
  ASSUME Types, NEW th \in Threads, NEW a \in Seq(Ops), agenda' = [agenda EXCEPT ![th] = a]
  PROVE  /\ agenda' \in [Threads -> Seq(Ops)] /\ agenda'[th] = a
         /\ \A o \in Threads : o # th => agenda'[o] = agenda[o]
BY DEF Types

\* The step is none of index r's publication: but for the agenda of its body, or
\* with it.
SameFlow(r) ==
  /\ publishing'[r] = publishing[r] /\ copy'[r] = copy[r]
  /\ r \in to_copy' <=> r \in to_copy
  /\ r \in in_ready' <=> r \in in_ready
  /\ agenda'[Writer(r)] = agenda[Writer(r)]

SameBody(r) ==
  /\ agenda'[Body(r)] = agenda[Body(r)]
  /\ \A q \in Fetches : q[1] = r /\ fetch[q] = "registering" => fetch'[q] = "registering"

LEMMA SameElsewhere ==
  ASSUME NEW r \in Indices, SameBody(r), Elsewhere(r)
  PROVE  Elsewhere(r)'
BY DEF SameBody, Elsewhere

LEMMA SameStage ==
  ASSUME NEW r \in Indices, Stage(r), SameFlow(r), SameBody(r)
  PROVE  Stage(r)'
<1>1. Elsewhere(r) => Elsewhere(r)'
  BY SameElsewhere
<1>2. CASE Unpublished(r) \/ Awaiting(r) \/ Over(r)
  BY <1>1, <1>2 DEF SameFlow, Stage, Unpublished, Awaiting, Over
<1>3. CASE SettingUp(r)
  BY <1>3 DEF SameFlow, SameBody, Stage, SettingUp
<1>4. CASE BodyCopies(r)
  BY <1>4 DEF SameFlow, SameBody, Stage, BodyCopies
<1>5. CASE WriterCopies(r)
  BY <1>1, <1>5 DEF SameFlow, Stage, WriterCopies
<1> QED BY <1>2, <1>3, <1>4, <1>5 DEF Stage

\* A body that begins or ends what is not its publication.
LEMMA AwayStage ==
  ASSUME NEW r \in Indices, Away(r), SameFlow(r), Elsewhere(r)'
  PROVE  Stage(r)'
<1>1. CASE Unpublished(r)
  BY <1>1 DEF SameFlow, Stage, Unpublished
<1>2. CASE Awaiting(r)
  BY <1>2 DEF SameFlow, Stage, Awaiting
<1>3. CASE WriterCopies(r)
  BY <1>3 DEF SameFlow, Stage, WriterCopies
<1>4. CASE Over(r)
  BY <1>4 DEF SameFlow, Stage, Over
<1> QED BY <1>1, <1>2, <1>3, <1>4 DEF Away

-----------------------------------------------------------------------------
(* What the program does                                                    *)

LEMMA InitIInv == Init => IInv
<1> SUFFICES ASSUME Init PROVE IInv
  OBVIOUS
<1> USE FetchesAssumption, Names DEF Init
<1>1. Types
  <2>1. agenda \in [Threads -> Seq(Ops)] /\ waiting \in [Indices -> Seq(Fetches)]
    OBVIOUS
  <2>2. /\ release \in [Indices -> Int] /\ fetching \in [Indices -> Int]
        /\ copy \in [Indices -> {"none", "published"}]
        /\ data \in [Indices -> {"old", "published", "overwritten"}]
        /\ publishing \in [Indices -> {"no", "published", "released"}]
    OBVIOUS
  <2>3. /\ fetch \in [Fetches -> {"no", "registering", "registered", "released"}]
        /\ fetched \in [Fetches -> {"none", "published"}]
        /\ read \in [Fetches -> {"none", "published"}]
    OBVIOUS
  <2>4. lock \in Threads \cup {NoThread} /\ entry = {} /\ in_ready = {} /\ to_copy = {}
    OBVIOUS
  <2> HIDE DEF Init
  <2> QED BY <2>1, <2>2, <2>3, <2>4 DEF Types
<1>2. Versions
  BY DEF Versions
<1>3. \A p \in Indices : Stage(p)
  BY DEF Stage, Unpublished, Elsewhere
<1>4. \A q \in Fetches : Reader(q)
  BY DEF Reader
<1> QED BY <1>1, <1>2, <1>3, <1>4 DEF IInv

LEMMA PublishStep ==
  ASSUME IInv, NEW p \in Publishers, Publish(p)
  PROVE  IInv'
<1>1. p \in Indices /\ Body(p) \in Threads /\ agenda[Body(p)] = <<>> /\ Away(p)
  BY Names, IdleIsAway DEF Publish, Body
<1>2. SetUp(p) \in Seq(Ops)
  BY <1>1, Scripts DEF Script
<1>3. agenda' = [agenda EXCEPT ![Body(p)] = SetUp(p)] /\ publishing[p] = "no"
  BY DEF Publish, Body
<1>4. /\ agenda' \in [Threads -> Seq(Ops)] /\ agenda'[Body(p)] = SetUp(p)
      /\ \A o \in Threads : o # Body(p) => agenda'[o] = agenda[o]
  BY <1>1, <1>2, <1>3, AgendaMove DEF IInv
<1>5. /\ publishing' = [publishing EXCEPT ![p] = "published"] /\ lock' = Body(p)
      /\ UNCHANGED <<copy, data, in_ready, to_copy, fetch, fetched, read, waiting>>
      /\ entry' \subseteq Indices
      /\ fetching' \in [Indices -> Int] /\ release' \in [Indices -> Int]
  BY <1>1 DEF Publish, EnsureEntry, IInv, Types, Body
<1>6. Types'
  BY <1>1, <1>4, <1>5 DEF IInv, Types
<1>7. Versions'
  BY <1>3, <1>5 DEF IInv, Types, Versions
<1>8. ASSUME NEW r \in Indices PROVE Stage(r)'
  <2>1. CASE r = p
    <3>1. Unpublished(p)
      BY <1>1, <1>3 DEF Away, Awaiting, WriterCopies, Over
    <3>2. agenda'[Writer(p)] = <<>> /\ publishing'[p] = "published" /\ copy'[p] = "none" /\ p \notin to_copy'
      BY <1>1, <1>4, <1>5, <3>1, Names DEF Unpublished, IInv, Types
    <3> QED BY <1>4, <2>1, <3>2 DEF Stage, SettingUp
  <2>2. CASE r # p
    <3>1. SameFlow(r) /\ SameBody(r)
      BY <1>1, <1>4, <1>5, <2>2, Names DEF SameFlow, SameBody, IInv, Types
    <3> QED BY <3>1, SameStage DEF IInv
  <2> QED BY <2>1, <2>2
<1>9. ASSUME NEW q \in Fetches PROVE Reader(q)'
  <2>1. agenda'[q] = agenda[q]
    BY <1>1, <1>4, Names
  <2> QED BY <1>5, <2>1 DEF IInv, Reader
<1> QED BY <1>6, <1>7, <1>8, <1>9 DEF IInv

LEMMA FetchStep ==
  ASSUME IInv, NEW q \in Fetches, Fetch(q)
  PROVE  IInv'
<1> DEFINE p == q[1]
<1>1. p \in Indices /\ q[2] \in Indices /\ Body(p) \in Threads /\ agenda[Body(p)] = <<>> /\ Away(p)
  BY Names, IdleIsAway DEF Fetch, Body
<1>2. ToAttach(q) \in Seq(Ops)
  BY Scripts DEF Script
<1>3. agenda' = [agenda EXCEPT ![Body(p)] = ToAttach(q)] /\ fetch[q] = "no"
  BY DEF Fetch, Body, ToAttach, FetchOf
<1>4. /\ agenda' \in [Threads -> Seq(Ops)] /\ agenda'[Body(p)] = ToAttach(q)
      /\ \A o \in Threads : o # Body(p) => agenda'[o] = agenda[o]
  BY <1>1, <1>2, <1>3, AgendaMove DEF IInv
<1>5. /\ fetch' = [fetch EXCEPT ![q] = "registering"] /\ lock' = Body(p)
      /\ UNCHANGED <<copy, data, in_ready, to_copy, publishing, fetched, read, waiting>>
      /\ entry' \subseteq Indices
      /\ fetching' \in [Indices -> Int] /\ release' \in [Indices -> Int]
  <2>1. /\ fetch' = [fetch EXCEPT ![q] = "registering"] /\ lock' = Body(p)
        /\ UNCHANGED <<copy, data, in_ready, to_copy, publishing, fetched, read>>
        /\ EnsureEntry(q[2])
    BY DEF Fetch, Body
  <2>2. /\ UNCHANGED waiting /\ entry' \subseteq Indices
        /\ fetching' \in [Indices -> Int] /\ release' \in [Indices -> Int]
    BY <1>1, <2>1 DEF EnsureEntry, IInv, Types
  <2> QED BY <2>1, <2>2
<1>6. Types'
  BY <1>1, <1>4, <1>5 DEF IInv, Types
<1>7. Versions'
  BY <1>5 DEF IInv, Types, Versions
<1>8. ASSUME NEW r \in Indices PROVE Stage(r)'
  <2>1. SameFlow(r)
    BY <1>1, <1>4, <1>5, Names DEF SameFlow
  <2>2. CASE r = p
    <3>1. fetch'[q] = "registering"
      BY <1>5 DEF IInv, Types
    <3>2. Elsewhere(p)'
      BY <1>4, <3>1 DEF Elsewhere, Registering
    <3> QED BY <1>1, <2>1, <2>2, <3>2, AwayStage
  <2>3. CASE r # p
    <3>1. agenda'[Body(r)] = agenda[Body(r)]
      BY <1>1, <1>4, <2>3, Names
    <3>2. \A f \in Fetches : fetch[f] = "registering" => fetch'[f] = "registering"
      BY <1>5 DEF IInv, Types
    <3>3. SameBody(r)
      BY <3>1, <3>2 DEF SameBody
    <3> QED BY <2>1, <3>3, SameStage DEF IInv
  <2> QED BY <2>2, <2>3
<1>9. ASSUME NEW f \in Fetches PROVE Reader(f)'
  <2>1. agenda'[f] = agenda[f]
    BY <1>1, <1>4, Names
  <2>2. fetch[f] = "released" => fetch'[f] = "released"
    BY <1>3, <1>5 DEF IInv, Types
  <2> QED BY <2>1, <2>2 DEF IInv, Reader
<1> QED BY <1>6, <1>7, <1>8, <1>9 DEF IInv

-----------------------------------------------------------------------------
(* Counting                                                                 *)

LEMMA FetchesFinite == IsFiniteSet(Fetches)
<1>1. IsFiniteSet(Indices \X Indices)
  BY FetchesAssumption, FS_Product
<1> QED BY <1>1, FS_Subset, FetchesAssumption

LEMMA FetchersCount == \A p : NFetchers(p) \in Nat
<1>1. ASSUME NEW p PROVE IsFiniteSet({q \in Fetches : q[2] = p})
  BY FetchesFinite, FS_Subset
<1> QED BY <1>1, FS_CardinalityType DEF NFetchers

\* The step is one of index p's publication, or of its body.
OnlyAt(p) ==
  /\ \A o \in Threads : o # Body(p) /\ o # Writer(p) => agenda'[o] = agenda[o]
  /\ \A r \in Indices : r # p => /\ publishing'[r] = publishing[r] /\ copy'[r] = copy[r]
                                 /\ r \in to_copy' <=> r \in to_copy
                                 /\ r \in in_ready' <=> r \in in_ready
  /\ \A q \in Fetches : fetch'[q] = fetch[q] \/ (q[1] = p /\ fetch[q] # "released")

LEMMA Others ==
  ASSUME IInv, NEW p \in Indices, Stage(p)', OnlyAt(p)
  PROVE  (\A r \in Indices : Stage(r)') /\ (\A q \in Fetches : Reader(q)')
<1> USE DEF OnlyAt
<1>1. ASSUME NEW r \in Indices PROVE Stage(r)'
  <2>1. CASE r = p
    BY <2>1
  <2>2. CASE r # p
    <3>1. agenda'[Body(r)] = agenda[Body(r)] /\ agenda'[Writer(r)] = agenda[Writer(r)]
      BY <2>2, Names
    <3>2. SameFlow(r) /\ SameBody(r)
      BY <2>2, <3>1 DEF SameFlow, SameBody
    <3> QED BY <3>2, SameStage DEF IInv
  <2> QED BY <2>1, <2>2
<1>2. ASSUME NEW q \in Fetches PROVE Reader(q)'
  <2>1. agenda'[q] = agenda[q] /\ (fetch[q] = "released" => fetch'[q] = "released")
    BY Names
  <2> QED BY <2>1 DEF IInv, Reader
<1> QED BY <1>1, <1>2

LEMMA MakeInReadyStep ==
  ASSUME IInv, NEW p \in Publishers, MakeInReady(p)
  PROVE  IInv'
<1> DEFINE a == IF p \in to_copy THEN CopyAndRelease(p) ELSE <<>>
<1>1. p \in Indices /\ Writer(p) \in Threads /\ Body(p) \in Threads /\ Body(p) # Writer(p)
  BY Names
<1>2. a \in Seq(Ops)
  BY <1>1, Scripts DEF Script
<1>3. /\ agenda' = [agenda EXCEPT ![Writer(p)] = a] /\ p \notin in_ready
      /\ in_ready' = in_ready \cup {p} /\ to_copy' = to_copy \ {p}
      /\ data' = [data EXCEPT ![p] = "published"]
      /\ UNCHANGED <<lock, entry, fetching, waiting, release, copy, publishing, fetch, fetched, read>>
  BY DEF MakeInReady
<1>4. /\ agenda' \in [Threads -> Seq(Ops)] /\ agenda'[Writer(p)] = a
      /\ \A o \in Threads : o # Writer(p) => agenda'[o] = agenda[o]
  BY <1>1, <1>2, <1>3, AgendaMove DEF IInv
<1>5. Types'
  BY <1>1, <1>3, <1>4 DEF IInv, Types
<1>6. Versions'
  BY <1>1, <1>3 DEF IInv, Types, Versions
<1>7. Stage(p)'
  <2>1. agenda'[Body(p)] = agenda[Body(p)]
    BY <1>1, <1>4
  <2>2. Elsewhere(p) => Elsewhere(p)'
    BY <1>1, <1>3, <2>1, SameElsewhere DEF SameBody
  <2>3. CASE Unpublished(p)
    BY <1>3, <1>4, <2>2, <2>3 DEF Stage, Unpublished
  <2>4. CASE SettingUp(p)
    BY <1>3, <1>4, <2>1, <2>4 DEF Stage, SettingUp
  <2>5. CASE Awaiting(p)
    BY <1>3, <1>4, <2>2, <2>5 DEF Stage, Awaiting, WriterCopies
  <2> QED BY <1>1, <1>3, <2>3, <2>4, <2>5 DEF IInv, Stage, BodyCopies, WriterCopies, Over
<1>8. (\A r \in Indices : Stage(r)') /\ (\A q \in Fetches : Reader(q)')
  <2>1. OnlyAt(p)
    BY <1>1, <1>3, <1>4 DEF OnlyAt
  <2> QED BY <1>1, <1>7, <2>1, Others
<1> QED BY <1>5, <1>6, <1>8 DEF IInv

LEMMA OverwriteStep ==
  ASSUME IInv, NEW p \in Publishers, Overwrite(p)
  PROVE  IInv'
<1>1. /\ data' = [data EXCEPT ![p] = "overwritten"] /\ publishing[p] = "released"
      /\ data[p] = "published" /\ p \in Indices
      /\ UNCHANGED <<lock, entry, fetching, waiting, release, copy, in_ready, to_copy,
                     publishing, fetch, fetched, read, agenda>>
  BY Names DEF Overwrite
<1>2. Types'
  BY <1>1 DEF IInv, Types
<1>3. Versions'
  BY <1>1 DEF IInv, Types, Versions
<1>4. ASSUME NEW r \in Indices PROVE Stage(r)'
  BY <1>1, SameStage DEF SameFlow, SameBody, IInv
<1>5. ASSUME NEW q \in Fetches PROVE Reader(q)'
  BY <1>1 DEF IInv, Reader
<1> QED BY <1>2, <1>3, <1>4, <1>5 DEF IInv

\* A reader that reads, or a handle that is dropped.
LEMMA GiveBackStep ==
  ASSUME IInv, NEW q \in Fetches, Read(q) \/ Drop(q)
  PROVE  IInv'
<1>1. q \in Threads /\ GiveBack(q) \in Seq(Ops)
  BY Names, Scripts DEF Script
<1>2. /\ agenda' = [agenda EXCEPT ![q] = GiveBack(q)]
      /\ fetch' = [fetch EXCEPT ![q] = "released"] /\ fetch[q] = "registered"
      /\ UNCHANGED <<lock, entry, fetching, waiting, release, copy, data, in_ready, to_copy,
                     publishing, fetched>>
      /\ read' = read \/ read' = [read EXCEPT ![q] = fetched[q]]
  BY DEF Read, Drop, GiveBack
<1>3. /\ agenda' \in [Threads -> Seq(Ops)] /\ agenda'[q] = GiveBack(q)
      /\ \A o \in Threads : o # q => agenda'[o] = agenda[o]
  BY <1>1, <1>2, AgendaMove DEF IInv
<1>4. Types'
  <2>1. read' \in [Fetches -> {"none", "published"}]
    BY <1>2 DEF IInv, Types
  <2>2. fetch' \in [Fetches -> {"no", "registering", "registered", "released"}]
    BY <1>2 DEF IInv, Types
  <2> QED BY <1>2, <1>3, <2>1, <2>2 DEF IInv, Types
<1>5. Versions'
  BY <1>2 DEF IInv, Versions
<1>6. ASSUME NEW r \in Indices PROVE Stage(r)'
  <2>1. agenda'[Body(r)] = agenda[Body(r)] /\ agenda'[Writer(r)] = agenda[Writer(r)]
    BY <1>3, Names
  <2>2. \A f \in Fetches : fetch[f] = "registering" => fetch'[f] = "registering"
    BY <1>2 DEF IInv, Types
  <2> QED BY <1>2, <2>1, <2>2, SameStage DEF SameFlow, SameBody, IInv
<1>7. ASSUME NEW f \in Fetches PROVE Reader(f)'
  <2>1. CASE f = q
    BY <1>2, <1>3, <2>1 DEF IInv, Types, Reader
  <2>2. CASE f # q
    <3>1. agenda'[f] = agenda[f] /\ fetch'[f] = fetch[f]
      BY <1>2, <1>3, <2>2, Names DEF IInv, Types
    <3> QED BY <3>1 DEF IInv, Reader
  <2> QED BY <2>1, <2>2
<1> QED BY <1>4, <1>5, <1>6, <1>7 DEF IInv

-----------------------------------------------------------------------------
(* What is on an agenda                                                     *)

LEMMA ThenMove ==
  ASSUME Types, NEW th \in Threads, NEW ops, NEW a \in Seq(Ops), Then(th, ops),
         ops \o Tail(agenda[th]) = a
  PROVE  /\ agenda' \in [Threads -> Seq(Ops)] /\ agenda'[th] = a
         /\ \A o \in Threads : o # th => agenda'[o] = agenda[o]
<1>1. agenda' = [agenda EXCEPT ![th] = a]
  BY DEF Then, Types
<1> QED BY <1>1, AgendaMove

LEMMA ScriptRest ==
  ASSUME NEW s, NEW op, NEW rest, Script(s, op, rest)
  PROVE  Tail(s) = rest /\ rest \in Seq(Ops)
<1>1. Tail(s) \in Seq(Ops)
  BY DEF Script
<1>2. <<>> \o Tail(s) = Tail(s)
  BY <1>1, ConcatEmptySeq
<1> QED BY <1>1, <1>2 DEF Script

LEMMA AdvanceStep ==
  ASSUME IInv, NEW th \in Threads, DoAdvance(th)
  PROVE  IInv'
<1>1. PICK p \in Indices : /\ th = Body(p) /\ SettingUp(p) /\ agenda[th] = SetUp(p)
                           /\ Head(agenda[th]).index = p
  BY WhoAdvances DEF DoAdvance
<1>2. /\ release' = [release EXCEPT ![p] = @ + NFetchers(p)] /\ Then(th, <<>>)
      /\ UNCHANGED <<lock, entry, fetching, waiting, copy, data, in_ready, to_copy,
                     publishing, fetch, fetched, read>>
  BY <1>1 DEF DoAdvance
<1>3. <<>> \o Tail(SetUp(p)) = Counting(p) /\ Counting(p) \in Seq(Ops)
  BY Scripts DEF Script
<1>4. /\ agenda' \in [Threads -> Seq(Ops)] /\ agenda'[th] = Counting(p)
      /\ \A o \in Threads : o # th => agenda'[o] = agenda[o]
  BY <1>1, <1>2, <1>3, ThenMove DEF IInv
<1>5. Types'
  <2>1. release' \in [Indices -> Int]
    BY <1>2, FetchersCount DEF IInv, Types
  <2> QED BY <1>2, <1>4, <2>1 DEF IInv, Types
<1>6. Versions'
  BY <1>2 DEF IInv, Versions
<1>7. Stage(p)'
  <2>1. agenda'[Writer(p)] = agenda[Writer(p)]
    BY <1>1, <1>4, Names
  <2> QED BY <1>1, <1>2, <1>4, <2>1 DEF SettingUp, Stage
<1>8. (\A r \in Indices : Stage(r)') /\ (\A q \in Fetches : Reader(q)')
  <2>1. OnlyAt(p)
    BY <1>1, <1>2, <1>4 DEF OnlyAt
  <2> QED BY <1>7, <2>1, Others
<1> QED BY <1>5, <1>6, <1>8 DEF IInv

\* A body that counted, or a reader.
LEMMA DecrementReleaseStep ==
  ASSUME IInv, NEW th \in Threads, DoDecrementRelease(th)
  PROVE  IInv'
<1>1. PICK r \in Indices :
        /\ Head(agenda[th]).index = r
        /\ \/ th = Body(r) /\ SettingUp(r) /\ agenda[th] = Counting(r)
           \/ /\ th \in Fetches /\ fetch[th] = "released" /\ agenda[th] = GiveBack(th) /\ r = th[2]
  BY WhoDecrementsRelease, Names DEF DoDecrementRelease
<1>2. /\ release' = [release EXCEPT ![r] = @ - 1] /\ Then(th, <<>>)
      /\ UNCHANGED <<lock, entry, fetching, waiting, copy, data, in_ready, to_copy,
                     publishing, fetch, fetched, read>>
  BY <1>1 DEF DoDecrementRelease
<1>3. release' \in [Indices -> Int]
  BY <1>2 DEF IInv, Types
<1>4. Versions'
  BY <1>2 DEF IInv, Versions
<1>5. CASE th = Body(r) /\ SettingUp(r) /\ agenda[th] = Counting(r)
  <2>1. <<>> \o Tail(Counting(r)) = Attaching(r) /\ Attaching(r) \in Seq(Ops)
    BY Scripts DEF Script
  <2>2. /\ agenda' \in [Threads -> Seq(Ops)] /\ agenda'[th] = Attaching(r)
        /\ \A o \in Threads : o # th => agenda'[o] = agenda[o]
    BY <1>2, <1>5, <2>1, ThenMove DEF IInv
  <2>3. Types'
    BY <1>2, <1>3, <2>2 DEF IInv, Types
  <2>4. Stage(r)'
    <3>1. agenda'[Writer(r)] = agenda[Writer(r)]
      BY <1>5, <2>2, Names
    <3> QED BY <1>2, <1>5, <2>2, <3>1 DEF SettingUp, Stage
  <2>5. OnlyAt(r)
    BY <1>2, <1>5, <2>2 DEF OnlyAt
  <2> QED BY <1>4, <2>3, <2>4, <2>5, Others DEF IInv
<1>6. CASE th \in Fetches /\ fetch[th] = "released" /\ agenda[th] = GiveBack(th)
  <2>1. <<>> \o Tail(GiveBack(th)) = <<>>
    BY <1>6, Scripts DEF Script
  <2>2. /\ agenda' \in [Threads -> Seq(Ops)] /\ agenda'[th] = <<>>
        /\ \A o \in Threads : o # th => agenda'[o] = agenda[o]
    <3>1. <<>> \in Seq(Ops)
      OBVIOUS
    <3> QED BY <1>2, <1>6, <2>1, <3>1, ThenMove DEF IInv
  <2>3. Types'
    BY <1>2, <1>3, <2>2 DEF IInv, Types
  <2>4. ASSUME NEW p \in Indices PROVE Stage(p)'
    <3>1. agenda'[Body(p)] = agenda[Body(p)] /\ agenda'[Writer(p)] = agenda[Writer(p)]
      BY <1>6, <2>2, Names
    <3> QED BY <1>2, <3>1, SameStage DEF SameFlow, SameBody, IInv
  <2>5. ASSUME NEW f \in Fetches PROVE Reader(f)'
    <3>1. fetch' = fetch
      BY <1>2
    <3>2. agenda'[f] = agenda[f] \/ agenda'[f] = <<>>
      BY <2>2, Names
    <3> QED BY <3>1, <3>2 DEF IInv, Reader
  <2> QED BY <1>4, <2>3, <2>4, <2>5 DEF IInv
<1> QED BY <1>1, <1>5, <1>6

LEMMA AttachCopyStep ==
  ASSUME IInv, NEW th \in Threads, DoAttachCopy(th)
  PROVE  IInv'
<1>1. PICK p \in Indices : /\ th = Body(p) /\ SettingUp(p) /\ agenda[th] = Attaching(p)
                           /\ Head(agenda[th]).index = p
  BY WhoAttachesCopy DEF DoAttachCopy
<1>2. /\ \/ p \in in_ready /\ Then(th, CopyAndRelease(p)) /\ UNCHANGED to_copy
         \/ p \notin in_ready /\ Then(th, <<>>) /\ to_copy' = to_copy \cup {p}
      /\ UNCHANGED <<lock, entry, fetching, waiting, release, copy, data, in_ready,
                     publishing, fetch, fetched, read>>
  BY <1>1 DEF DoAttachCopy
<1>3. Versions'
  BY <1>2 DEF IInv, Versions
<1>4. /\ CopyAndRelease(p) \o Tail(Attaching(p)) = BodyCopy(p) /\ BodyCopy(p) \in Seq(Ops)
      /\ <<>> \o Tail(Attaching(p)) = BodyUnlock(p) /\ BodyUnlock(p) \in Seq(Ops)
  BY Scripts DEF Script
<1>5. CASE p \in in_ready
  <2>1. Then(th, CopyAndRelease(p)) /\ UNCHANGED to_copy
    BY <1>2, <1>5
  <2>2. /\ agenda' \in [Threads -> Seq(Ops)] /\ agenda'[th] = BodyCopy(p)
        /\ \A o \in Threads : o # th => agenda'[o] = agenda[o]
    BY <1>1, <1>4, <2>1, ThenMove DEF IInv
  <2>3. Types'
    BY <1>2, <2>1, <2>2 DEF IInv, Types
  <2>4. Stage(p)'
    <3>1. agenda'[Writer(p)] = agenda[Writer(p)]
      BY <1>1, <2>2, Names
    <3> QED BY <1>1, <1>2, <1>5, <2>1, <2>2, <3>1 DEF SettingUp, BodyCopies, Stage
  <2>5. OnlyAt(p)
    BY <1>1, <1>2, <2>1, <2>2 DEF OnlyAt
  <2> QED BY <1>3, <2>3, <2>4, <2>5, Others DEF IInv
<1>6. CASE p \notin in_ready
  <2>1. Then(th, <<>>) /\ to_copy' = to_copy \cup {p}
    BY <1>2, <1>6
  <2>2. /\ agenda' \in [Threads -> Seq(Ops)] /\ agenda'[th] = BodyUnlock(p)
        /\ \A o \in Threads : o # th => agenda'[o] = agenda[o]
    BY <1>1, <1>4, <2>1, ThenMove DEF IInv
  <2>3. Types'
    BY <1>2, <2>1, <2>2 DEF IInv, Types
  <2>4. Stage(p)'
    <3>1. agenda'[Writer(p)] = agenda[Writer(p)]
      BY <1>1, <2>2, Names
    <3>2. Elsewhere(p)'
      BY <1>1, <2>2 DEF Elsewhere
    <3> QED BY <1>1, <1>2, <1>6, <2>1, <3>1, <3>2 DEF SettingUp, Awaiting, Stage
  <2>5. OnlyAt(p)
    BY <1>1, <1>2, <2>1, <2>2 DEF OnlyAt
  <2> QED BY <1>3, <2>3, <2>4, <2>5, Others DEF IInv
<1> QED BY <1>5, <1>6

LEMMA CopyStep ==
  ASSUME IInv, NEW th \in Threads, DoCopy(th)
  PROVE  IInv'
<1>1. PICK p \in Indices :
        /\ Head(agenda[th]).index = p
        /\ \/ th = Body(p) /\ BodyCopies(p) /\ agenda[th] = BodyCopy(p)
           \/ th = Writer(p) /\ WriterCopies(p) /\ agenda[th] = CopyAndRelease(p)
  BY WhoCopies DEF DoCopy
<1>2. /\ copy' = [copy EXCEPT ![p] = data[p]] /\ Then(th, <<>>)
      /\ UNCHANGED <<lock, entry, fetching, waiting, release, data, in_ready, to_copy,
                     publishing, fetch, fetched, read>>
  BY <1>1 DEF DoCopy
<1>3. publishing[p] = "published" /\ p \in in_ready /\ p \notin to_copy
  BY <1>1 DEF BodyCopies, WriterCopies
<1>4. data[p] = "published"
  BY <1>3 DEF IInv, Types, Versions
<1>5. copy' \in [Indices -> {"none", "published"}] /\ copy'[p] = "published"
  BY <1>2, <1>4 DEF IInv, Types
<1>6. Versions'
  <2>1. \A q \in Fetches : copy[q[2]] # "none" => copy'[q[2]] # "none"
    BY <1>2, <1>4, Names DEF IInv, Types
  <2> QED BY <1>2, <2>1 DEF IInv, Versions
<1>7. /\ <<>> \o Tail(BodyCopy(p)) = BodyServe(p) /\ BodyServe(p) \in Seq(Ops)
      /\ <<>> \o Tail(CopyAndRelease(p)) = WriterServe(p) /\ WriterServe(p) \in Seq(Ops)
  BY Scripts DEF Script
<1>8. CASE th = Body(p) /\ BodyCopies(p) /\ agenda[th] = BodyCopy(p)
  <2>1. /\ agenda' \in [Threads -> Seq(Ops)] /\ agenda'[th] = BodyServe(p)
        /\ \A o \in Threads : o # th => agenda'[o] = agenda[o]
    BY <1>2, <1>7, <1>8, ThenMove DEF IInv
  <2>2. Types'
    BY <1>2, <1>5, <2>1 DEF IInv, Types
  <2>3. Stage(p)'
    <3>1. agenda'[Writer(p)] = agenda[Writer(p)]
      BY <1>8, <2>1, Names
    <3> QED BY <1>2, <1>3, <1>8, <2>1, <3>1 DEF BodyCopies, Stage
  <2>4. OnlyAt(p)
    BY <1>2, <1>8, <2>1 DEF OnlyAt, IInv, Types
  <2> QED BY <1>6, <2>2, <2>3, <2>4, Others DEF IInv
<1>9. CASE th = Writer(p) /\ WriterCopies(p) /\ agenda[th] = CopyAndRelease(p)
  <2>1. /\ agenda' \in [Threads -> Seq(Ops)] /\ agenda'[th] = WriterServe(p)
        /\ \A o \in Threads : o # th => agenda'[o] = agenda[o]
    BY <1>2, <1>7, <1>9, ThenMove DEF IInv
  <2>2. Types'
    BY <1>2, <1>5, <2>1 DEF IInv, Types
  <2>3. Stage(p)'
    <3>1. agenda'[Body(p)] = agenda[Body(p)]
      BY <1>9, <2>1, Names
    <3>2. Elsewhere(p)'
      BY <1>2, <1>9, <3>1, SameElsewhere DEF SameBody, WriterCopies
    <3> QED BY <1>2, <1>3, <1>9, <2>1, <3>2 DEF WriterCopies, Stage
  <2>4. OnlyAt(p)
    BY <1>2, <1>9, <2>1 DEF OnlyAt, IInv, Types
  <2> QED BY <1>6, <2>2, <2>3, <2>4, Others DEF IInv
<1> QED BY <1>1, <1>8, <1>9

\* The waiting fetches of a publication, as the operations that tell them.
LEMMA WaitingTold ==
  ASSUME IInv, NEW p \in Indices, NEW rest \in Seq(Ops)
  PROVE  /\ Telling(p, [k \in DOMAIN waiting[p] |-> Deliver(waiting[p][k])] \o rest, rest)
         /\ [k \in DOMAIN waiting[p] |-> Deliver(waiting[p][k])] \o rest \in Seq(Ops)
<1> DEFINE ds == [k \in DOMAIN waiting[p] |-> Deliver(waiting[p][k])]
<1>1. PICK w \in Seq(Fetches) : waiting[p] = w /\ \A i \in 1..Len(w) : w[i][2] = p
  <2>1. waiting[p] \in Seq(Fetches)
    BY DEF IInv, Types
  <2>2. \A i \in 1..Len(waiting[p]) : waiting[p][i][2] = p
    BY DEF IInv, Versions
  <2> QED BY <2>1, <2>2
<1>2. ds = [k \in 1..Len(w) |-> Deliver(w[k])]
  BY <1>1
<1>3. \A k \in 1..Len(w) : Deliver(w[k]) \in Delivers(p) /\ Deliver(w[k]) \in Ops
  BY <1>1, OpsFacts DEF Delivers
<1>4. ds \in Seq(Delivers(p)) /\ ds \in Seq(Ops)
  BY <1>1, <1>2, <1>3
<1>5. ds \o rest \in Seq(Ops)
  BY <1>4, ConcatProperties
<1> QED BY <1>4, <1>5 DEF Telling

LEMMA DecrementFetchingStep ==
  ASSUME IInv, NEW th \in Threads, DoDecrementFetching(th)
  PROVE  IInv'
<1>1. PICK p \in Indices :
        /\ Head(agenda[th]).index = p
        /\ \/ th = Body(p) /\ BodyCopies(p) /\ agenda[th] = BodyServe(p)
           \/ th = Writer(p) /\ WriterCopies(p) /\ agenda[th] = WriterServe(p)
  BY WhoServes DEF DoDecrementFetching
<1> DEFINE ds == [k \in DOMAIN waiting[p] |-> Deliver(waiting[p][k])]
<1>2. /\ fetching' = [fetching EXCEPT ![p] = 0] /\ waiting' = [waiting EXCEPT ![p] = <<>>]
      /\ Then(th, ds)
      /\ UNCHANGED <<lock, entry, release, copy, data, in_ready, to_copy,
                     publishing, fetch, fetched, read>>
  BY <1>1 DEF DoDecrementFetching
<1>3. fetching' \in [Indices -> Int] /\ waiting' \in [Indices -> Seq(Fetches)]
  BY <1>2 DEF IInv, Types
<1>4. Versions'
  <2>1. \A r \in Indices : waiting'[r] = waiting[r] \/ waiting'[r] = <<>>
    BY <1>2 DEF IInv, Types
  <2>2. ASSUME NEW r \in Indices, NEW i \in 1..Len(waiting'[r]) PROVE waiting'[r][i][2] = r
    BY <2>1 DEF IInv, Versions
  <2> QED BY <1>2, <2>2 DEF IInv, Versions
<1>5. /\ Tail(BodyServe(p)) = BodyRest(p) /\ BodyRest(p) \in Seq(Ops)
      /\ Tail(WriterServe(p)) = WriterRest(p) /\ WriterRest(p) \in Seq(Ops)
  BY Scripts, ScriptRest
<1>6. CASE th = Body(p) /\ BodyCopies(p) /\ agenda[th] = BodyServe(p)
  <2>1. Telling(p, ds \o BodyRest(p), BodyRest(p)) /\ ds \o BodyRest(p) \in Seq(Ops)
    BY <1>5, WaitingTold
  <2> HIDE DEF ds
  <2>2. /\ agenda' \in [Threads -> Seq(Ops)] /\ agenda'[th] = ds \o BodyRest(p)
        /\ \A o \in Threads : o # th => agenda'[o] = agenda[o]
    BY <1>2, <1>5, <1>6, <2>1, ThenMove DEF IInv
  <2>3. Types'
    BY <1>2, <1>3, <2>2 DEF IInv, Types
  <2>4. Stage(p)'
    <3>1. agenda'[Writer(p)] = agenda[Writer(p)]
      BY <1>6, <2>2, Names
    <3>2. Telling(p, agenda'[Body(p)], BodyRest(p))
      BY <1>6, <2>1, <2>2
    <3> QED BY <1>2, <1>6, <3>1, <3>2 DEF BodyCopies, Stage
  <2>5. OnlyAt(p)
    BY <1>2, <1>6, <2>2 DEF OnlyAt
  <2> QED BY <1>4, <2>3, <2>4, <2>5, Others DEF IInv
<1>7. CASE th = Writer(p) /\ WriterCopies(p) /\ agenda[th] = WriterServe(p)
  <2>1. Telling(p, ds \o WriterRest(p), WriterRest(p)) /\ ds \o WriterRest(p) \in Seq(Ops)
    BY <1>5, WaitingTold
  <2> HIDE DEF ds
  <2>2. /\ agenda' \in [Threads -> Seq(Ops)] /\ agenda'[th] = ds \o WriterRest(p)
        /\ \A o \in Threads : o # th => agenda'[o] = agenda[o]
    BY <1>2, <1>5, <1>7, <2>1, ThenMove DEF IInv
  <2>3. Types'
    BY <1>2, <1>3, <2>2 DEF IInv, Types
  <2>4. Stage(p)'
    <3>1. Telling(p, agenda'[Writer(p)], WriterRest(p))
      BY <1>7, <2>1, <2>2
    <3>2. agenda'[Body(p)] = agenda[Body(p)]
      BY <1>7, <2>2, Names
    <3>3. Elsewhere(p)'
      BY <1>2, <1>7, <3>2, SameElsewhere DEF SameBody, WriterCopies
    <3> QED BY <1>2, <1>7, <3>1, <3>3 DEF WriterCopies, Stage
  <2>5. OnlyAt(p)
    BY <1>2, <1>7, <2>2 DEF OnlyAt
  <2> QED BY <1>4, <2>3, <2>4, <2>5, Others DEF IInv
<1> QED BY <1>1, <1>6, <1>7

LEMMA ReleaseUseStep ==
  ASSUME IInv, NEW th \in Threads, DoReleaseUse(th)
  PROVE  IInv'
<1>1. PICK p \in Indices :
        /\ Head(agenda[th]).index = p
        /\ \/ th = Body(p) /\ BodyCopies(p) /\ agenda[th] = BodyRest(p)
           \/ th = Writer(p) /\ WriterCopies(p) /\ agenda[th] = WriterRest(p)
  BY WhoReleasesUse DEF DoReleaseUse
<1>2. /\ publishing' = [publishing EXCEPT ![p] = "released"] /\ Then(th, <<>>)
      /\ UNCHANGED <<lock, entry, fetching, waiting, release, copy, data, in_ready, to_copy,
                     fetch, fetched, read>>
  BY <1>1 DEF DoReleaseUse
<1>3. /\ p \in in_ready /\ p \notin to_copy /\ publishing'[p] = "released"
      /\ publishing' \in [Indices -> {"no", "published", "released"}]
  BY <1>1, <1>2 DEF BodyCopies, WriterCopies, IInv, Types
<1>4. Versions'
  <2>1. \A r \in Indices : publishing[r] = "released" => publishing'[r] = "released"
    BY <1>2 DEF IInv, Types
  <2> QED BY <1>2, <2>1 DEF IInv, Versions
<1>5. /\ <<>> \o Tail(BodyRest(p)) = BodyUnlock(p) /\ BodyUnlock(p) \in Seq(Ops)
      /\ <<>> \o Tail(WriterRest(p)) = <<>> /\ <<>> \in Seq(Ops)
  <2>1. /\ Script(BodyRest(p), Op("release_use", p), BodyUnlock(p))
        /\ Script(BodyUnlock(p), Op("unlock", p), <<>>)
        /\ Script(WriterRest(p), Op("release_use", p), <<>>)
    BY Scripts
  <2> QED BY <2>1 DEF Script
<1>6. CASE th = Body(p) /\ BodyCopies(p) /\ agenda[th] = BodyRest(p)
  <2>1. /\ agenda' \in [Threads -> Seq(Ops)] /\ agenda'[th] = BodyUnlock(p)
        /\ \A o \in Threads : o # th => agenda'[o] = agenda[o]
    BY <1>2, <1>5, <1>6, ThenMove DEF IInv
  <2>2. Types'
    BY <1>2, <1>3, <2>1 DEF IInv, Types
  <2>3. Stage(p)'
    <3>1. agenda'[Writer(p)] = <<>>
      BY <1>6, <2>1, Names DEF BodyCopies
    <3>2. Elsewhere(p)'
      BY <1>6, <2>1 DEF Elsewhere
    <3> QED BY <1>2, <1>3, <3>1, <3>2 DEF Over, Stage
  <2>4. OnlyAt(p)
    BY <1>2, <1>6, <2>1 DEF OnlyAt, IInv, Types
  <2> QED BY <1>4, <2>2, <2>3, <2>4, Others DEF IInv
<1>7. CASE th = Writer(p) /\ WriterCopies(p) /\ agenda[th] = WriterRest(p)
  <2>1. /\ agenda' \in [Threads -> Seq(Ops)] /\ agenda'[th] = <<>>
        /\ \A o \in Threads : o # th => agenda'[o] = agenda[o]
    BY <1>2, <1>5, <1>7, ThenMove DEF IInv
  <2>2. Types'
    BY <1>2, <1>3, <2>1 DEF IInv, Types
  <2>3. Stage(p)'
    <3>1. agenda'[Body(p)] = agenda[Body(p)]
      BY <1>7, <2>1, Names
    <3>2. Elsewhere(p)'
      BY <1>2, <1>7, <3>1, SameElsewhere DEF SameBody, WriterCopies
    <3> QED BY <1>2, <1>3, <1>7, <2>1, <3>2 DEF Over, Stage
  <2>4. OnlyAt(p)
    BY <1>2, <1>7, <2>1 DEF OnlyAt, IInv, Types
  <2> QED BY <1>4, <2>2, <2>3, <2>4, Others DEF IInv
<1> QED BY <1>1, <1>6, <1>7

\* The body of an index goes on with a fetch, or unlocks.
LEMMA AwayMove ==
  ASSUME IInv, NEW p \in Indices, Away(p), Elsewhere(p)',
         \A o \in Threads : o # Body(p) => agenda'[o] = agenda[o],
         \A q \in Fetches : fetch'[q] = fetch[q] \/ (q[1] = p /\ fetch[q] # "released"),
         UNCHANGED <<copy, to_copy, in_ready, publishing>>
  PROVE  (\A r \in Indices : Stage(r)') /\ (\A q \in Fetches : Reader(q)')
<1>1. SameFlow(p)
  BY Names DEF SameFlow
<1>2. Stage(p)'
  BY <1>1, AwayStage
<1>3. OnlyAt(p)
  BY DEF OnlyAt
<1> QED BY <1>2, <1>3, Others

LEMMA AttachFetchStep ==
  ASSUME IInv, NEW th \in Threads, DoAttachFetch(th)
  PROVE  IInv'
<1>1. PICK q \in Fetches :
        /\ th = Body(q[1]) /\ Away(q[1]) /\ fetch[q] = "registering"
        /\ agenda[th] = ToAttach(q) /\ Head(agenda[th]).fetch = q
  BY WhoAttachesFetch DEF DoAttachFetch
<1>2. /\ \/ Then(th, <<Deliver(q)>>) /\ UNCHANGED waiting
         \/ Then(th, <<>>) /\ waiting' = [waiting EXCEPT ![q[2]] = Append(@, q)]
      /\ UNCHANGED <<lock, entry, fetching, release, copy, data, in_ready, to_copy,
                     publishing, fetch, fetched, read>>
  BY <1>1 DEF DoAttachFetch
<1>3. q[1] \in Indices /\ q[2] \in Indices
  BY Names
<1>4. /\ <<Deliver(q)>> \o Tail(ToAttach(q)) = ToDeliver(q) /\ ToDeliver(q) \in Seq(Ops)
      /\ <<>> \o Tail(ToAttach(q)) = ToUnlock(q) /\ ToUnlock(q) \in Seq(Ops)
  BY Scripts DEF Script
<1>5. PICK a \in {ToDeliver(q), ToUnlock(q)} :
        /\ agenda' \in [Threads -> Seq(Ops)] /\ agenda'[th] = a
        /\ \A o \in Threads : o # th => agenda'[o] = agenda[o]
  <2>1. CASE Then(th, <<Deliver(q)>>)
    <3>1. /\ agenda' \in [Threads -> Seq(Ops)] /\ agenda'[th] = ToDeliver(q)
          /\ \A o \in Threads : o # th => agenda'[o] = agenda[o]
      BY <1>1, <1>4, <2>1, ThenMove DEF IInv
    <3> QED BY <3>1
  <2>2. CASE Then(th, <<>>)
    <3>1. /\ agenda' \in [Threads -> Seq(Ops)] /\ agenda'[th] = ToUnlock(q)
          /\ \A o \in Threads : o # th => agenda'[o] = agenda[o]
      BY <1>1, <1>4, <2>2, ThenMove DEF IInv
    <3> QED BY <3>1
  <2> QED BY <1>2, <2>1, <2>2
<1>6. /\ waiting' \in [Indices -> Seq(Fetches)]
      /\ \A r \in Indices : \A i \in 1..Len(waiting'[r]) : waiting'[r][i][2] = r
  <2>1. CASE UNCHANGED waiting
    BY <2>1 DEF IInv, Types, Versions
  <2>2. CASE waiting' = [waiting EXCEPT ![q[2]] = Append(@, q)]
    <3>1. PICK w \in Seq(Fetches) : waiting[q[2]] = w /\ \A i \in 1..Len(w) : w[i][2] = q[2]
      <4>1. waiting[q[2]] \in Seq(Fetches)
        BY <1>3 DEF IInv, Types
      <4>2. \A i \in 1..Len(waiting[q[2]]) : waiting[q[2]][i][2] = q[2]
        BY <1>3 DEF IInv, Versions
      <4> QED BY <4>1, <4>2
    <3>2. /\ Append(w, q) \in Seq(Fetches) /\ Len(Append(w, q)) = Len(w) + 1
          /\ \A i \in 1..Len(w) + 1 : Append(w, q)[i] = IF i = Len(w) + 1 THEN q ELSE w[i]
      BY AppendProperties
    <3>3. \A i \in 1..Len(Append(w, q)) : Append(w, q)[i][2] = q[2]
      BY <3>1, <3>2
    <3>4. \A r \in Indices : waiting'[r] = IF r = q[2] THEN Append(w, q) ELSE waiting[r]
      BY <2>2, <3>1 DEF IInv, Types
    <3>5. waiting' \in [Indices -> Seq(Fetches)]
      BY <2>2, <3>1, <3>2 DEF IInv, Types
    <3>6. ASSUME NEW r \in Indices, NEW i \in 1..Len(waiting'[r]) PROVE waiting'[r][i][2] = r
      <4>1. CASE r = q[2]
        BY <3>3, <3>4, <4>1
      <4>2. CASE r # q[2]
        BY <3>4, <4>2 DEF IInv, Versions
      <4> QED BY <4>1, <4>2
    <3> QED BY <3>5, <3>6
  <2> QED BY <1>2, <2>1, <2>2
<1>7. Types'
  BY <1>2, <1>5, <1>6 DEF IInv, Types
<1>8. Versions'
  BY <1>2, <1>6 DEF IInv, Versions
<1>9. Elsewhere(q[1])'
  <2>1. agenda'[Body(q[1])] \in Registering(q)
    BY <1>1, <1>5 DEF Registering
  <2> QED BY <1>1, <1>2, <2>1 DEF Elsewhere
<1>10. (\A r \in Indices : Stage(r)') /\ (\A f \in Fetches : Reader(f)')
  BY <1>1, <1>2, <1>3, <1>5, <1>9, AwayMove
<1> QED BY <1>7, <1>8, <1>10 DEF IInv

\* The fetching use is told by whoever decremented fetching_join_counter, or, the
\* data being there, by its own body.
LEMMA DeliverStep ==
  ASSUME IInv, NEW th \in Threads, DoDeliver(th)
  PROVE  IInv'
<1>1. PICK q \in Fetches :
        /\ Head(agenda[th]).fetch = q
        /\ \/ /\ th = Body(q[1]) /\ Away(q[1]) /\ fetch[q] = "registering"
              /\ agenda[th] = ToDeliver(q)
           \/ /\ th = Body(q[2]) /\ BodyCopies(q[2])
              /\ Telling(q[2], <<>> \o Tail(agenda[th]), BodyRest(q[2]))
           \/ /\ th = Writer(q[2]) /\ WriterCopies(q[2])
              /\ Telling(q[2], <<>> \o Tail(agenda[th]), WriterRest(q[2]))
  BY WhoDelivers DEF DoDeliver
<1>2. /\ fetched' = [fetched EXCEPT ![q] = copy[q[2]]] /\ Then(th, <<>>)
      /\ UNCHANGED <<lock, entry, fetching, waiting, release, copy, data, in_ready, to_copy,
                     publishing, fetch, read>>
      /\ agenda[th] # <<>>
  BY <1>1 DEF DoDeliver, IsNext
<1>3. q[1] \in Indices /\ q[2] \in Indices
  BY Names
<1>4. fetched' \in [Fetches -> {"none", "published"}]
  BY <1>2, <1>3 DEF IInv, Types
<1>5. Versions'
  <2>1. \A f \in Fetches : fetched'[f] # "none" => copy[f[2]] # "none"
    BY <1>2 DEF IInv, Types, Versions
  <2> QED BY <1>2, <2>1 DEF IInv, Versions
<1>6. /\ agenda' \in [Threads -> Seq(Ops)] /\ agenda'[th] = <<>> \o Tail(agenda[th])
      /\ \A o \in Threads : o # th => agenda'[o] = agenda[o]
  <2>1. <<>> \o Tail(agenda[th]) \in Seq(Ops)
    BY <1>2, ConcatProperties DEF IInv, Types
  <2> QED BY <1>2, <2>1, ThenMove DEF IInv
<1>7. Types'
  BY <1>2, <1>4, <1>6 DEF IInv, Types
<1>8. CASE /\ th = Body(q[1]) /\ Away(q[1]) /\ fetch[q] = "registering"
           /\ agenda[th] = ToDeliver(q)
  <2>1. agenda'[Body(q[1])] = ToUnlock(q)
    BY <1>6, <1>8, Scripts DEF Script
  <2>2. Elsewhere(q[1])'
    BY <1>2, <1>8, <2>1 DEF Elsewhere, Registering
  <2>3. (\A r \in Indices : Stage(r)') /\ (\A f \in Fetches : Reader(f)')
    BY <1>2, <1>3, <1>6, <1>8, <2>2, AwayMove
  <2> QED BY <1>5, <1>7, <2>3 DEF IInv
<1>9. CASE /\ th = Body(q[2]) /\ BodyCopies(q[2])
           /\ Telling(q[2], <<>> \o Tail(agenda[th]), BodyRest(q[2]))
  <2>1. Stage(q[2])'
    <3>1. agenda'[Writer(q[2])] = agenda[Writer(q[2])]
      BY <1>3, <1>6, <1>9, Names
    <3>2. Telling(q[2], agenda'[Body(q[2])], BodyRest(q[2]))
      BY <1>6, <1>9
    <3> QED BY <1>2, <1>9, <3>1, <3>2 DEF BodyCopies, Stage
  <2>2. OnlyAt(q[2])
    BY <1>2, <1>6, <1>9 DEF OnlyAt
  <2> QED BY <1>3, <1>5, <1>7, <2>1, <2>2, Others DEF IInv
<1>10. CASE /\ th = Writer(q[2]) /\ WriterCopies(q[2])
            /\ Telling(q[2], <<>> \o Tail(agenda[th]), WriterRest(q[2]))
  <2>1. Stage(q[2])'
    <3>1. Telling(q[2], agenda'[Writer(q[2])], WriterRest(q[2]))
      BY <1>6, <1>10
    <3>2. agenda'[Body(q[2])] = agenda[Body(q[2])]
      BY <1>3, <1>6, <1>10, Names
    <3>3. Elsewhere(q[2])'
      BY <1>2, <1>3, <1>10, <3>2, SameElsewhere DEF SameBody, WriterCopies
    <3> QED BY <1>2, <1>10, <3>1, <3>3 DEF WriterCopies, Stage
  <2>2. OnlyAt(q[2])
    BY <1>2, <1>6, <1>10 DEF OnlyAt
  <2> QED BY <1>3, <1>5, <1>7, <2>1, <2>2, Others DEF IInv
<1> QED BY <1>1, <1>8, <1>9, <1>10

LEMMA LinkStep ==
  ASSUME IInv, NEW th \in Threads, DoLink(th)
  PROVE  IInv'
<1>1. PICK q \in Fetches :
        /\ th = Body(q[1]) /\ Away(q[1]) /\ fetch[q] = "registering"
        /\ agenda[th] = ToLink(q) /\ Head(agenda[th]).fetch = q
  BY WhoLinks DEF DoLink
<1>2. /\ fetch' = [fetch EXCEPT ![q] = "registered"] /\ Then(th, <<>>)
      /\ UNCHANGED <<lock, entry, fetching, waiting, release, copy, data, in_ready, to_copy,
                     publishing, fetched, read>>
  BY <1>1 DEF DoLink
<1>3. /\ fetch' \in [Fetches -> {"no", "registering", "registered", "released"}]
      /\ \A f \in Fetches : fetch'[f] = fetch[f] \/ (f[1] = q[1] /\ fetch[f] # "released")
  BY <1>1, <1>2 DEF IInv, Types
<1>4. <<>> \o Tail(ToLink(q)) = <<>> /\ <<>> \in Seq(Ops) /\ q[1] \in Indices
  <2>1. <<>> \o Tail(ToLink(q)) = <<>>
    BY Scripts DEF Script
  <2> QED BY <2>1, Names
<1>5. /\ agenda' \in [Threads -> Seq(Ops)] /\ agenda'[th] = <<>>
      /\ \A o \in Threads : o # th => agenda'[o] = agenda[o]
  BY <1>1, <1>2, <1>4, ThenMove DEF IInv
<1>6. Types'
  BY <1>2, <1>3, <1>5 DEF IInv, Types
<1>7. Versions'
  BY <1>2 DEF IInv, Versions
<1>8. Elsewhere(q[1])'
  BY <1>1, <1>5 DEF Elsewhere
<1>9. (\A r \in Indices : Stage(r)') /\ (\A f \in Fetches : Reader(f)')
  BY <1>1, <1>2, <1>3, <1>4, <1>5, <1>8, AwayMove
<1> QED BY <1>6, <1>7, <1>9 DEF IInv

LEMMA UnlockStep ==
  ASSUME IInv, NEW th \in Threads, DoUnlock(th)
  PROVE  IInv'
<1>1. PICK p \in Indices :
        /\ th = Body(p) /\ Away(p)
        /\ \/ agenda[th] = BodyUnlock(p)
           \/ \E q \in Fetches : q[1] = p /\ fetch[q] = "registering" /\ agenda[th] = ToUnlock(q)
  BY WhoUnlocks DEF DoUnlock
<1>2. /\ lock' = NoThread /\ Then(th, <<>>)
      /\ UNCHANGED <<entry, fetching, waiting, release, copy, data, in_ready, to_copy,
                     publishing, fetch, fetched, read>>
  BY DEF DoUnlock
<1>3. /\ agenda' \in [Threads -> Seq(Ops)]
      /\ \/ agenda'[th] = <<>>
         \/ \E q \in Fetches : q[1] = p /\ fetch[q] = "registering" /\ agenda'[th] = ToLink(q)
      /\ \A o \in Threads : o # th => agenda'[o] = agenda[o]
  <2>1. CASE agenda[th] = BodyUnlock(p)
    <3>1. <<>> \o Tail(BodyUnlock(p)) = <<>> /\ <<>> \in Seq(Ops)
      BY Scripts, ScriptRest DEF Script
    <3> QED BY <1>1, <1>2, <2>1, <3>1, ThenMove DEF IInv
  <2>2. CASE \E q \in Fetches : q[1] = p /\ fetch[q] = "registering" /\ agenda[th] = ToUnlock(q)
    <3>1. PICK q \in Fetches : q[1] = p /\ fetch[q] = "registering" /\ agenda[th] = ToUnlock(q)
      BY <2>2
    <3>2. <<>> \o Tail(ToUnlock(q)) = ToLink(q) /\ ToLink(q) \in Seq(Ops)
      BY Scripts DEF Script
    <3> QED BY <1>1, <1>2, <3>1, <3>2, ThenMove DEF IInv
  <2> QED BY <1>1, <2>1, <2>2
<1>4. Types'
  BY <1>2, <1>3 DEF IInv, Types
<1>5. Versions'
  BY <1>2 DEF IInv, Versions
<1>6. Elsewhere(p)'
  BY <1>1, <1>2, <1>3 DEF Elsewhere, Registering
<1>7. (\A r \in Indices : Stage(r)') /\ (\A f \in Fetches : Reader(f)')
  BY <1>1, <1>2, <1>3, <1>6, AwayMove
<1> QED BY <1>4, <1>5, <1>7 DEF IInv

LEMMA IInvStep == IInv /\ [Next]_vars => IInv'
<1> SUFFICES ASSUME IInv, [Next]_vars PROVE IInv'
  OBVIOUS
<1>1. ASSUME NEW p \in Publishers, Publish(p) \/ MakeInReady(p) \/ Overwrite(p) PROVE IInv'
  BY <1>1, PublishStep, MakeInReadyStep, OverwriteStep
<1>2. ASSUME NEW q \in Fetches, Fetch(q) \/ Read(q) \/ Drop(q) PROVE IInv'
  BY <1>2, FetchStep, GiveBackStep
<1>3. ASSUME NEW th \in Threads, Step(th) PROVE IInv'
  BY <1>3, AdvanceStep, DecrementReleaseStep, AttachCopyStep, CopyStep, DecrementFetchingStep,
     ReleaseUseStep, AttachFetchStep, DeliverStep, LinkStep, UnlockStep DEF Step
<1>4. ASSUME UNCHANGED vars PROVE IInv'
  <2> USE <1>4 DEF vars, IInv
  <2>1. Types' /\ Versions'
    BY DEF Types, Versions
  <2>2. ASSUME NEW p \in Indices PROVE Stage(p)'
    BY SameStage DEF SameFlow, SameBody
  <2>3. ASSUME NEW q \in Fetches PROVE Reader(q)'
    BY DEF Reader
  <2> QED BY <2>1, <2>2, <2>3
<1> QED BY <1>1, <1>2, <1>3, <1>4 DEF Next

LEMMA IInvHolds == Spec => []IInv
BY InitIInv, IInvStep, PTL DEF Spec

\* Whoever comes first, and whatever the next writer of the index does, a task that
\* fetched reads the version that was published.
THEOREM ReadersSeeThePublished == Spec => []ReadsPublished
<1>1. IInv => ReadsPublished
  BY DEF IInv, Types, ReadsPublished
<1> QED BY <1>1, IInvHolds, PTL

-----------------------------------------------------------------------------
(* The count of release_event                                               *)

\* The body of index r is not, or no longer, counting for its publication.
Later(r, a) == a # SetUp(r) /\ a # Counting(r)

\* What a script begins with.
LEMMA ScriptVerbs ==
  /\ \A p \in Indices :
       /\ SetUp(p) # <<>> /\ Head(SetUp(p)).do = "advance"
       /\ Counting(p) # <<>> /\ Head(Counting(p)).do = "decrement_release"
       /\ Head(Attaching(p)).do = "attach_copy" /\ Head(BodyCopy(p)).do = "copy"
       /\ Head(BodyServe(p)).do = "decrement_fetching" /\ Head(BodyRest(p)).do = "release_use"
       /\ Head(BodyUnlock(p)).do = "unlock"
  /\ \A q \in Fetches :
       /\ Head(ToAttach(q)).do = "attach_fetch" /\ Head(ToDeliver(q)).do = "deliver"
       /\ Head(ToUnlock(q)).do = "unlock" /\ Head(ToLink(q)).do = "link"
<1>1. ASSUME NEW s, NEW op, NEW rest, Script(s, op, rest) PROVE s # <<>> /\ Head(s) = op
  BY <1>1 DEF Script
<1>2. ASSUME NEW p \in Indices
      PROVE  /\ SetUp(p) # <<>> /\ Head(SetUp(p)) = Op("advance", p)
             /\ Counting(p) # <<>> /\ Head(Counting(p)) = Op("decrement_release", p)
             /\ Head(Attaching(p)) = Op("attach_copy", p) /\ Head(BodyCopy(p)) = Op("copy", p)
             /\ Head(BodyServe(p)) = Op("decrement_fetching", p)
             /\ Head(BodyRest(p)) = Op("release_use", p)
             /\ Head(BodyUnlock(p)) = Op("unlock", p)
  BY <1>1, Scripts
<1>3. ASSUME NEW q \in Fetches
      PROVE  /\ Head(ToAttach(q)) = FetchOf("attach_fetch", q) /\ Head(ToDeliver(q)) = Deliver(q)
             /\ Head(ToUnlock(q)) = Op("unlock", q[2]) /\ Head(ToLink(q)) = FetchOf("link", q)
  BY <1>1, Scripts
<1> QED BY <1>2, <1>3, Fields

LEMMA LaterFacts ==
  ASSUME NEW r \in Indices
  PROVE  /\ Later(r, <<>>) /\ Later(r, Attaching(r)) /\ Later(r, BodyCopy(r)) /\ Later(r, BodyServe(r))
         /\ Later(r, BodyRest(r)) /\ Later(r, BodyUnlock(r))
         /\ \A q \in Fetches : \A a \in Registering(q) : Later(r, a)
         /\ \A a : Telling(r, a, BodyRest(r)) => Later(r, a)
         /\ SetUp(r) # Counting(r)
<1>1. /\ SetUp(r) # <<>> /\ Head(SetUp(r)).do = "advance"
      /\ Counting(r) # <<>> /\ Head(Counting(r)).do = "decrement_release"
  BY ScriptVerbs
<1>2. /\ Head(Attaching(r)).do = "attach_copy" /\ Head(BodyCopy(r)).do = "copy"
      /\ Head(BodyServe(r)).do = "decrement_fetching" /\ Head(BodyRest(r)).do = "release_use"
      /\ Head(BodyUnlock(r)).do = "unlock"
  BY ScriptVerbs
<1>3. ASSUME NEW q \in Fetches, NEW a \in Registering(q) PROVE Later(r, a)
  <2>1. Head(a).do \in {"attach_fetch", "deliver", "unlock", "link"}
    BY ScriptVerbs DEF Registering
  <2> QED BY <1>1, <2>1 DEF Later
<1>4. ASSUME NEW a, Telling(r, a, BodyRest(r)) PROVE Later(r, a)
  <2>1. BodyRest(r) \in Seq(Ops) /\ BodyRest(r) # <<>>
    BY Scripts DEF Script
  <2>2. a = BodyRest(r) \/ Head(a).do = "deliver"
    <3>1. a = BodyRest(r) \/ \E q \in Fetches : q[2] = r /\ Head(a) = Deliver(q)
      BY <1>4, <2>1, TellingNext
    <3>2. ASSUME NEW q, Head(a) = Deliver(q) PROVE Head(a).do = "deliver"
      BY <3>2, Fields
    <3> QED BY <3>1, <3>2
  <2> QED BY <1>1, <1>2, <2>2 DEF Later
<1> QED BY <1>1, <1>2, <1>3, <1>4 DEF Later

\* A step that no count depends on.
KeepsCount(r) ==
  /\ r \in entry' <=> r \in entry
  /\ release'[r] = release[r]
  /\ publishing'[r] = "no" <=> publishing[r] = "no"
  /\ \/ agenda'[Body(r)] = agenda[Body(r)]
     \/ Later(r, agenda[Body(r)]) /\ Later(r, agenda'[Body(r)])
  /\ \A q \in Fetches : q[2] = r =>
       /\ fetch'[q] = "no" <=> fetch[q] = "no"
       /\ (fetch'[q] = "released" /\ agenda'[q] = <<>>) <=> (fetch[q] = "released" /\ agenda[q] = <<>>)

LEMMA SameCount ==
  ASSUME NEW r \in Indices, Counted(r), KeepsCount(r)
  PROVE  Counted(r)'
<1>1. Pending(r)' = Pending(r)
  BY DEF KeepsCount, Pending
<1>2. /\ agenda'[Body(r)] = SetUp(r) <=> agenda[Body(r)] = SetUp(r)
      /\ agenda'[Body(r)] = Counting(r) <=> agenda[Body(r)] = Counting(r)
  BY DEF KeepsCount, Later
<1> QED BY <1>1, <1>2 DEF KeepsCount, Counted

LEMMA PendingFinite == \A p : IsFiniteSet(Pending(p)) /\ Cardinality(Pending(p)) \in Nat
<1>1. ASSUME NEW p PROVE IsFiniteSet(Pending(p))
  BY FetchesFinite, FS_Subset DEF Pending
<1> QED BY <1>1, FS_CardinalityType

\* Until a publication is counted for, nobody has released what was fetched from it.
LEMMA BeforeCounting ==
  ASSUME IInv, HeldForData, NEW p \in Indices,
         publishing[p] = "no" \/ agenda[Body(p)] = SetUp(p)
  PROVE  /\ copy[p] = "none" /\ \A q \in Fetches : q[2] = p => fetch[q] # "released"
         /\ Cardinality(Pending(p)) = NFetchers(p)
<1>1. copy[p] = "none"
  <2>1. CASE publishing[p] = "no"
    BY <2>1 DEF IInv, Stage, Unpublished, SettingUp, Awaiting, BodyCopies, WriterCopies, Over
  <2>2. CASE agenda[Body(p)] = SetUp(p)
    <3>1. SetUp(p) # <<>> /\ Head(SetUp(p)).do = "advance"
      BY ScriptVerbs
    <3>2. IsNext(Body(p), "advance") /\ Body(p) \in Threads
      BY <2>2, <3>1, Names DEF IsNext
    <3> QED BY <3>2, WhoAdvances, Names DEF SettingUp
  <2> QED BY <2>1, <2>2
<1>2. \A q \in Fetches : q[2] = p => fetch[q] # "released"
  BY <1>1 DEF IInv, Versions, HeldForData
<1>3. Pending(p) = {q \in Fetches : q[2] = p}
  BY <1>2 DEF Pending
<1> QED BY <1>1, <1>2, <1>3 DEF NFetchers

\* An entry starts with the count 1, for the publish use that is to count.
LEMMA EntryCounted ==
  ASSUME IInv, NEW p \in Indices, Counted(p), EnsureEntry(p),
         publishing'[p] = "no" \/ agenda'[Body(p)] = SetUp(p), publishing[p] = "no"
  PROVE  Counted(p)'
<1>1. p \in entry' /\ release'[p] = 1
  BY DEF EnsureEntry, Counted, IInv, Types
<1> QED BY <1>1 DEF Counted

LEMMA PublishCount ==
  ASSUME IInv, CInv, NEW p \in Publishers, Publish(p)
  PROVE  CInv'
<1>1. p \in Indices /\ Body(p) \in Threads /\ agenda[Body(p)] = <<>>
  BY Names DEF Publish, Body
<1>2. SetUp(p) \in Seq(Ops)
  BY <1>1, Scripts DEF Script
<1>3. agenda' = [agenda EXCEPT ![Body(p)] = SetUp(p)] /\ publishing[p] = "no"
  BY DEF Publish, Body
<1>4. /\ agenda'[Body(p)] = SetUp(p)
      /\ \A o \in Threads : o # Body(p) => agenda'[o] = agenda[o]
  BY <1>1, <1>2, <1>3, AgendaMove DEF IInv
<1>5. /\ EnsureEntry(p) /\ publishing' = [publishing EXCEPT ![p] = "published"]
      /\ UNCHANGED <<fetch, fetched>>
  BY DEF Publish
<1>6. ASSUME NEW r \in Indices PROVE Counted(r)'
  <2>1. CASE r = p
    BY <1>1, <1>3, <1>4, <1>5, <2>1, EntryCounted DEF CInv
  <2>2. CASE r # p
    <3>1. /\ r \in entry' <=> r \in entry
          /\ release'[r] = release[r] /\ publishing'[r] = publishing[r]
      BY <1>5, <2>2 DEF EnsureEntry, IInv, Types
    <3>2. /\ agenda'[Body(r)] = agenda[Body(r)]
          /\ \A q \in Fetches : agenda'[q] = agenda[q] /\ fetch'[q] = fetch[q]
      BY <1>1, <1>4, <1>5, <2>2, Names
    <3> QED BY <3>1, <3>2, SameCount DEF KeepsCount, CInv
  <2> QED BY <2>1, <2>2
<1> QED BY <1>5, <1>6 DEF CInv, HeldForData

LEMMA FetchCount ==
  ASSUME IInv, CInv, NEW q \in Fetches, Fetch(q)
  PROVE  CInv'
<1>1. /\ q[1] \in Indices /\ q[2] \in Indices /\ Body(q[1]) \in Threads
      /\ agenda[Body(q[1])] = <<>>
  BY Names DEF Fetch, Body
<1>2. ToAttach(q) \in Seq(Ops) /\ ToAttach(q) \in Registering(q)
  BY Scripts DEF Script, Registering
<1>3. agenda' = [agenda EXCEPT ![Body(q[1])] = ToAttach(q)] /\ fetch[q] = "no"
  BY DEF Fetch, Body, ToAttach, FetchOf
<1>4. /\ agenda'[Body(q[1])] = ToAttach(q)
      /\ \A o \in Threads : o # Body(q[1]) => agenda'[o] = agenda[o]
  BY <1>1, <1>2, <1>3, AgendaMove DEF IInv
<1>5. EnsureEntry(q[2]) /\ fetch' = [fetch EXCEPT ![q] = "registering"] /\ UNCHANGED <<publishing, fetched>>
  BY DEF Fetch
<1>6. /\ \A f \in Fetches : f # q => fetch'[f] = fetch[f]
      /\ fetch'[q] = "registering"
  BY <1>5 DEF IInv, Types
<1>7. \A r \in Indices :
        \/ agenda'[Body(r)] = agenda[Body(r)]
        \/ Later(r, agenda[Body(r)]) /\ Later(r, agenda'[Body(r)])
  <2> SUFFICES ASSUME NEW r \in Indices
               PROVE  \/ agenda'[Body(r)] = agenda[Body(r)]
                      \/ Later(r, agenda[Body(r)]) /\ Later(r, agenda'[Body(r)])
    OBVIOUS
  <2>1. CASE Body(r) = Body(q[1])
    <3>1. Later(r, <<>>) /\ Later(r, ToAttach(q))
      BY <1>2, LaterFacts
    <3> QED BY <1>1, <1>4, <2>1, <3>1
  <2>2. CASE Body(r) # Body(q[1])
    BY <1>4, <2>2, Names
  <2> QED BY <2>1, <2>2
<1>8. \A f \in Fetches : agenda'[f] = agenda[f]
  BY <1>1, <1>4, Names
<1>9. \A f \in Fetches : (fetch'[f] = "released" <=> fetch[f] = "released")
  BY <1>3, <1>6
<1>10. ASSUME NEW r \in Indices PROVE Counted(r)'
  <2>1. CASE r # q[2]
    <3>1. /\ r \in entry' <=> r \in entry
          /\ release'[r] = release[r]
      BY <1>5, <2>1 DEF EnsureEntry, IInv, Types
    <3>2. \A f \in Fetches : f[2] = r => fetch'[f] = fetch[f]
      BY <1>6, <2>1
    <3> QED BY <1>5, <1>7, <1>8, <3>1, <3>2, SameCount DEF KeepsCount, CInv
  <2>2. CASE r = q[2] /\ r \in entry
    <3>1. /\ r \in entry' /\ release'[r] = release[r]
      BY <1>5, <2>2 DEF EnsureEntry
    <3>2. Pending(r)' = Pending(r)
      BY <1>8, <1>9 DEF Pending
    <3>3. /\ agenda'[Body(r)] = SetUp(r) <=> agenda[Body(r)] = SetUp(r)
          /\ agenda'[Body(r)] = Counting(r) <=> agenda[Body(r)] = Counting(r)
      BY <1>7 DEF Later
    <3> QED BY <1>5, <2>2, <3>1, <3>2, <3>3 DEF Counted, CInv
  <2>3. CASE r = q[2] /\ r \notin entry
    <3>1. publishing[r] = "no" /\ publishing'[r] = "no"
      BY <1>5, <2>3 DEF CInv, Counted
    <3> QED BY <1>5, <2>3, <3>1, EntryCounted DEF CInv
  <2> QED BY <2>1, <2>2, <2>3
<1> QED BY <1>5, <1>9, <1>10 DEF CInv, HeldForData

LEMMA WriterCount ==
  ASSUME IInv, CInv, NEW p \in Publishers, MakeInReady(p) \/ Overwrite(p)
  PROVE  CInv'
<1>1. /\ UNCHANGED <<entry, release, publishing, fetch, fetched>>
      /\ \/ agenda' = [agenda EXCEPT ![Writer(p)] = IF p \in to_copy THEN CopyAndRelease(p) ELSE <<>>]
         \/ agenda' = agenda
  BY DEF MakeInReady, Overwrite
<1>2. /\ \A r \in Indices : agenda'[Body(r)] = agenda[Body(r)]
      /\ \A q \in Fetches : agenda'[q] = agenda[q]
  BY <1>1, Names DEF IInv, Types
<1>3. ASSUME NEW r \in Indices PROVE Counted(r)'
  BY <1>1, <1>2, SameCount DEF KeepsCount, CInv
<1> QED BY <1>1, <1>3 DEF CInv, HeldForData

\* A use is released only with its data.
LEMMA GiveBackCount ==
  ASSUME IInv, CInv, Held = Fetches, NEW q \in Fetches, Read(q) \/ Drop(q)
  PROVE  CInv'
<1>1. /\ agenda' = [agenda EXCEPT ![q] = GiveBack(q)]
      /\ fetch' = [fetch EXCEPT ![q] = "released"] /\ fetch[q] = "registered"
      /\ UNCHANGED <<entry, release, publishing, fetched>>
      /\ fetched[q] # "none"
  BY DEF Read, Drop, GiveBack
<1>2. GiveBack(q) # <<>> /\ q \in Threads /\ GiveBack(q) \in Seq(Ops)
  BY Scripts, Names DEF Script
<1>3. /\ agenda'[q] = GiveBack(q)
      /\ \A o \in Threads : o # q => agenda'[o] = agenda[o]
  BY <1>1, <1>2, AgendaMove DEF IInv
<1>4. \A r \in Indices : agenda'[Body(r)] = agenda[Body(r)]
  BY <1>3, Names
<1>5. \A f \in Fetches : /\ fetch'[f] = "no" <=> fetch[f] = "no"
                         /\ (fetch'[f] = "released" /\ agenda'[f] = <<>>)
                              <=> (fetch[f] = "released" /\ agenda[f] = <<>>)
  <2> SUFFICES ASSUME NEW f \in Fetches
               PROVE  /\ fetch'[f] = "no" <=> fetch[f] = "no"
                      /\ (fetch'[f] = "released" /\ agenda'[f] = <<>>)
                           <=> (fetch[f] = "released" /\ agenda[f] = <<>>)
    OBVIOUS
  <2>1. CASE f = q
    BY <1>1, <1>2, <1>3, <2>1 DEF IInv, Types
  <2>2. CASE f # q
    BY <1>1, <1>3, <2>2, Names DEF IInv, Types
  <2> QED BY <2>1, <2>2
<1>6. ASSUME NEW r \in Indices PROVE Counted(r)'
  BY <1>1, <1>4, <1>5, SameCount DEF KeepsCount, CInv
<1>7. HeldForData'
  BY <1>1 DEF CInv, HeldForData, IInv, Types
<1> QED BY <1>6, <1>7 DEF CInv

LEMMA AdvanceCount ==
  ASSUME IInv, CInv, NEW th \in Threads, DoAdvance(th)
  PROVE  CInv'
<1>1. PICK p \in Indices : /\ th = Body(p) /\ SettingUp(p) /\ agenda[th] = SetUp(p)
                           /\ Head(agenda[th]).index = p
  BY WhoAdvances DEF DoAdvance
<1>2. /\ release' = [release EXCEPT ![p] = @ + NFetchers(p)] /\ Then(th, <<>>)
      /\ UNCHANGED <<entry, publishing, fetch, fetched>>
  BY <1>1 DEF DoAdvance
<1>3. <<>> \o Tail(SetUp(p)) = Counting(p) /\ Counting(p) \in Seq(Ops)
  BY Scripts DEF Script
<1>4. agenda'[th] = Counting(p) /\ \A o \in Threads : o # th => agenda'[o] = agenda[o]
  BY <1>1, <1>2, <1>3, ThenMove DEF IInv
<1>5. \A q \in Fetches : agenda'[q] = agenda[q]
  BY <1>1, <1>4, Names
<1>6. publishing[p] = "published" /\ p \in entry
  BY <1>1 DEF SettingUp, CInv, Counted
<1>7. ASSUME NEW r \in Indices PROVE Counted(r)'
  <2>1. CASE r = p
    <3>1. release[p] = 1
      BY <1>1, <1>6 DEF CInv, Counted
    <3>2. Cardinality(Pending(p)) = NFetchers(p) /\ NFetchers(p) \in Nat
      BY <1>1, BeforeCounting, FetchersCount DEF CInv
    <3>3. Pending(p)' = Pending(p)
      BY <1>2, <1>5 DEF Pending
    <3>4. release'[p] = 1 + NFetchers(p)
      BY <1>2, <3>1 DEF IInv, Types
    <3>5. agenda'[Body(p)] = Counting(p) /\ agenda'[Body(p)] # SetUp(p)
      BY <1>1, <1>4, LaterFacts
    <3> QED BY <1>2, <1>6, <2>1, <3>2, <3>3, <3>4, <3>5 DEF Counted
  <2>2. CASE r # p
    <3>1. release'[r] = release[r] /\ agenda'[Body(r)] = agenda[Body(r)]
      BY <1>1, <1>2, <1>4, <2>2, Names DEF IInv, Types
    <3> QED BY <1>2, <1>5, <3>1, SameCount DEF KeepsCount, CInv
  <2> QED BY <2>1, <2>2
<1> QED BY <1>2, <1>7 DEF CInv, HeldForData

\* The publish use gives up its own unit, or a reader gives back the one that was
\* counted for it.
LEMMA DecrementReleaseCount ==
  ASSUME IInv, CInv, NEW th \in Threads, DoDecrementRelease(th)
  PROVE  CInv'
<1>1. PICK p \in Indices :
        /\ Head(agenda[th]).index = p
        /\ \/ th = Body(p) /\ SettingUp(p) /\ agenda[th] = Counting(p)
           \/ /\ th \in Fetches /\ fetch[th] = "released" /\ agenda[th] = GiveBack(th) /\ p = th[2]
  BY WhoDecrementsRelease, Names DEF DoDecrementRelease
<1>2. /\ release' = [release EXCEPT ![p] = @ - 1] /\ Then(th, <<>>)
      /\ UNCHANGED <<entry, publishing, fetch, fetched>>
  BY <1>1 DEF DoDecrementRelease
<1>3. HeldForData'
  BY <1>2 DEF CInv, HeldForData
<1>4. release'[p] = release[p] - 1 /\ \A r \in Indices : r # p => release'[r] = release[r]
  BY <1>2 DEF IInv, Types
<1>5. CASE th = Body(p) /\ SettingUp(p) /\ agenda[th] = Counting(p)
  <2>1. <<>> \o Tail(Counting(p)) = Attaching(p) /\ Attaching(p) \in Seq(Ops)
    BY Scripts DEF Script
  <2>2. agenda'[th] = Attaching(p) /\ \A o \in Threads : o # th => agenda'[o] = agenda[o]
    BY <1>2, <1>5, <2>1, ThenMove DEF IInv
  <2>3. \A q \in Fetches : agenda'[q] = agenda[q]
    BY <1>5, <2>2, Names
  <2>4. publishing[p] = "published" /\ p \in entry
    BY <1>5 DEF SettingUp, CInv, Counted
  <2>5. ASSUME NEW r \in Indices PROVE Counted(r)'
    <3>1. CASE r = p
      <4>1. release[p] = Cardinality(Pending(p)) + 1
        BY <1>5, <2>4, LaterFacts DEF CInv, Counted
      <4>2. Pending(p)' = Pending(p)
        BY <1>2, <2>3 DEF Pending
      <4>3. agenda'[Body(p)] # SetUp(p) /\ agenda'[Body(p)] # Counting(p)
        BY <1>5, <2>2, LaterFacts DEF Later
      <4> QED BY <1>2, <1>4, <2>4, <3>1, <4>1, <4>2, <4>3, PendingFinite DEF Counted
    <3>2. CASE r # p
      <4>1. agenda'[Body(r)] = agenda[Body(r)]
        BY <1>5, <2>2, <3>2, Names
      <4> QED BY <1>2, <1>4, <2>3, <3>2, <4>1, SameCount DEF KeepsCount, CInv
    <3> QED BY <3>1, <3>2
  <2> QED BY <1>3, <2>5 DEF CInv
<1>6. CASE th \in Fetches /\ fetch[th] = "released" /\ agenda[th] = GiveBack(th) /\ p = th[2]
  <2>1. <<>> \o Tail(GiveBack(th)) = <<>> /\ GiveBack(th) # <<>>
    BY <1>6, Scripts DEF Script
  <2>2. agenda'[th] = <<>> /\ \A o \in Threads : o # th => agenda'[o] = agenda[o]
    <3>1. <<>> \in Seq(Ops)
      OBVIOUS
    <3> QED BY <1>2, <1>6, <2>1, <3>1, ThenMove DEF IInv
  <2>3. \A r \in Indices : agenda'[Body(r)] = agenda[Body(r)]
    BY <1>6, <2>2, Names
  <2>4. ASSUME NEW r \in Indices PROVE Counted(r)'
    <3>1. CASE r = p
      <4>1. p \in entry
        BY <1>6 DEF CInv, Counted
      <4>2. publishing[p] # "no" /\ agenda[Body(p)] # SetUp(p)
        BY <1>6, BeforeCounting DEF CInv
      <4>3. th \in Pending(p) /\ Pending(p)' = Pending(p) \ {th}
        BY <1>2, <1>6, <2>1, <2>2, Names DEF Pending
      <4>4. Cardinality(Pending(p)') = Cardinality(Pending(p)) - 1
        BY <4>3, PendingFinite, FS_RemoveElement
      <4> QED BY <1>2, <1>4, <2>3, <3>1, <4>1, <4>2, <4>4, PendingFinite DEF Counted, CInv
    <3>2. CASE r # p
      <4>1. \A q \in Fetches : q[2] = r => agenda'[q] = agenda[q]
        BY <1>6, <2>2, <3>2, Names
      <4> QED BY <1>2, <1>4, <2>3, <3>2, <4>1, SameCount DEF KeepsCount, CInv
    <3> QED BY <3>1, <3>2
  <2> QED BY <1>3, <2>4 DEF CInv
<1> QED BY <1>1, <1>5, <1>6

\* What else is on an agenda neither counts nor gives back.
OtherStep(th) ==
  \/ DoAttachCopy(th) \/ DoCopy(th) \/ DoDecrementFetching(th) \/ DoReleaseUse(th)
  \/ DoAttachFetch(th) \/ DoDeliver(th) \/ DoLink(th) \/ DoUnlock(th)

\* Only the body of an index, or its writer, comes to another operation; and the
\* body that does has counted, or does not publish.
LEMMA WhoGoesOn ==
  ASSUME IInv, NEW th \in Threads, agenda[th] # <<>>,
         Head(agenda[th]).do \notin {"advance", "decrement_release"}
  PROVE  /\ \A q \in Fetches : th # q
         /\ \A r \in Indices : th = Body(r) =>
              Later(r, agenda[th]) /\ Later(r, <<>> \o Tail(agenda[th]))
<1>1. \A q \in Fetches : th # q
  BY Comes, Names
<1>2. ASSUME NEW r \in Indices, th = Body(r)
      PROVE  Later(r, agenda[th]) /\ Later(r, <<>> \o Tail(agenda[th]))
  <2> DEFINE a == agenda[th]
             h == Head(agenda[th])
  <2>1. AtBody(r, a, h)
    BY <1>2, BodyForms
  <2>2. Later(r, a)
    BY ScriptVerbs DEF Later
  <2> HIDE DEF a, h
  <2>3. h.do \notin {"advance", "decrement_release"}
    BY DEF h
  <2>4. \/ a \in {Attaching(r), BodyCopy(r), BodyServe(r), BodyRest(r), BodyUnlock(r)}
        \/ Telling(r, <<>> \o Tail(a), BodyRest(r))
        \/ \E q \in Fetches : a \in Registering(q)
    BY <2>1, <2>3, Fields DEF AtBody, Registering
  <2>5. Later(r, <<>> \o Tail(a))
    <3>1. CASE a \in {Attaching(r), BodyCopy(r), BodyServe(r), BodyRest(r), BodyUnlock(r)}
      <4>1. <<>> \o Tail(a) \in {BodyUnlock(r), BodyServe(r), BodyRest(r), <<>>}
        BY <3>1, Scripts DEF Script
      <4> QED BY <4>1, LaterFacts
    <3>2. CASE Telling(r, <<>> \o Tail(a), BodyRest(r))
      BY <3>2, LaterFacts
    <3>3. CASE \E q \in Fetches : a \in Registering(q)
      <4>1. PICK q \in Fetches : a \in Registering(q)
        BY <3>3
      <4>2. <<>> \o Tail(a) \in Registering(q) \cup {<<>>}
        BY <4>1, Scripts, ZenonT(60), SMTT(30) DEF Script, Registering
      <4> QED BY <4>2, LaterFacts
    <3> QED BY <2>4, <3>1, <3>2, <3>3
  <2> QED BY <2>2, <2>5 DEF a
<1> QED BY <1>1, <1>2

\* The agenda of a body that goes on with more than what was left.
LEMMA MoreToDo ==
  ASSUME NEW r \in Indices
  PROVE  /\ Later(r, CopyAndRelease(r) \o Tail(Attaching(r)))
         /\ \A q \in Fetches : Later(r, <<Deliver(q)>> \o Tail(ToAttach(q)))
BY Scripts, LaterFacts DEF Registering

LEMMA OtherCount ==
  ASSUME IInv, CInv, NEW th \in Threads, OtherStep(th)
  PROVE  CInv'
<1>1. agenda[th] # <<>> /\ Head(agenda[th]).do \notin {"advance", "decrement_release"}
  BY DEF OtherStep, DoAttachCopy, DoCopy, DoDecrementFetching, DoReleaseUse, DoAttachFetch,
         DoDeliver, DoLink, DoUnlock, IsNext
<1>2. /\ \A q \in Fetches : th # q
      /\ \A r \in Indices : th = Body(r) =>
           Later(r, agenda[th]) /\ Later(r, <<>> \o Tail(agenda[th]))
  BY <1>1, WhoGoesOn
<1>3. UNCHANGED <<entry, release>>
  BY DEF OtherStep, DoAttachCopy, DoCopy, DoDecrementFetching, DoReleaseUse, DoAttachFetch,
         DoDeliver, DoLink, DoUnlock
<1>4. PICK ops : Then(th, ops) /\ \A r \in Indices : th = Body(r) => Later(r, ops \o Tail(agenda[th]))
  <2>1. CASE Then(th, <<>>)
    BY <1>2, <2>1
  <2>2. CASE DoAttachCopy(th)
    <3>1. PICK p \in Indices : /\ th = Body(p) /\ agenda[th] = Attaching(p)
                               /\ Head(agenda[th]).index = p
      BY <2>2, WhoAttachesCopy DEF DoAttachCopy
    <3>2. Then(th, <<>>) \/ Then(th, CopyAndRelease(p))
      BY <2>2, <3>1 DEF DoAttachCopy
    <3> QED BY <2>1, <3>1, <3>2, MoreToDo, Names
  <2>3. CASE DoAttachFetch(th)
    <3>1. PICK q \in Fetches : /\ th = Body(q[1]) /\ agenda[th] = ToAttach(q)
                               /\ Head(agenda[th]).fetch = q
      BY <2>3, WhoAttachesFetch DEF DoAttachFetch
    <3>2. Then(th, <<>>) \/ Then(th, <<Deliver(q)>>)
      BY <2>3, <3>1 DEF DoAttachFetch
    <3> QED BY <2>1, <3>1, <3>2, MoreToDo, Names
  <2>4. CASE DoDecrementFetching(th)
    <3>1. PICK p \in Indices :
            /\ Head(agenda[th]).index = p
            /\ \/ th = Body(p) /\ agenda[th] = BodyServe(p)
               \/ th = Writer(p)
      BY <2>4, WhoServes DEF DoDecrementFetching
    <3> DEFINE ds == [k \in DOMAIN waiting[p] |-> Deliver(waiting[p][k])]
    <3>2. Then(th, ds)
      BY <2>4, <3>1 DEF DoDecrementFetching
    <3>3. Tail(BodyServe(p)) = BodyRest(p) /\ BodyRest(p) \in Seq(Ops)
      BY Scripts, ScriptRest
    <3>4. Later(p, ds \o BodyRest(p))
      BY <3>3, WaitingTold, LaterFacts
    <3> HIDE DEF ds
    <3>5. ASSUME NEW r \in Indices, th = Body(r) PROVE Later(r, ds \o Tail(agenda[th]))
      <4>1. r = p /\ agenda[th] = BodyServe(p)
        BY <3>1, <3>5, Names
      <4> QED BY <3>3, <3>4, <4>1
    <3> QED BY <3>2, <3>5
  <2> QED BY <2>1, <2>2, <2>3, <2>4 DEF OtherStep, DoCopy, DoReleaseUse, DoDeliver, DoLink, DoUnlock
<1>5. agenda' = [agenda EXCEPT ![th] = ops \o Tail(agenda[th])]
  BY <1>4 DEF Then, IInv, Types
<1>6. /\ \A q \in Fetches : agenda'[q] = agenda[q]
      /\ \A r \in Indices :
           \/ agenda'[Body(r)] = agenda[Body(r)]
           \/ Later(r, agenda[Body(r)]) /\ Later(r, agenda'[Body(r)])
  <2> DEFINE a == ops \o Tail(agenda[th])
  <2>1. \A r \in Indices : th = Body(r) => Later(r, a) /\ Later(r, agenda[th])
    BY <1>2, <1>4
  <2>2. agenda' = [agenda EXCEPT ![th] = a]
    BY <1>5
  <2> HIDE DEF a
  <2>3. agenda'[th] = a /\ \A o \in Threads : o # th => agenda'[o] = agenda[o]
    BY <2>2 DEF IInv, Types
  <2> QED BY <1>2, <2>1, <2>3, Names
<1>7. \A r \in Indices : publishing'[r] = "no" <=> publishing[r] = "no"
  <2>1. CASE DoReleaseUse(th)
    <3>1. PICK p \in Indices : Head(agenda[th]).index = p /\ publishing[p] = "published"
      BY <2>1, WhoReleasesUse DEF DoReleaseUse, BodyCopies, WriterCopies
    <3>2. publishing' = [publishing EXCEPT ![p] = "released"]
      BY <2>1, <3>1 DEF DoReleaseUse
    <3> QED BY <3>1, <3>2 DEF IInv, Types
  <2>2. CASE ~DoReleaseUse(th)
    BY <2>2 DEF OtherStep, DoAttachCopy, DoCopy, DoDecrementFetching, DoAttachFetch,
         DoDeliver, DoLink, DoUnlock
  <2> QED BY <2>1, <2>2
<1>8. \A f \in Fetches : /\ fetch'[f] = "no" <=> fetch[f] = "no"
                         /\ fetch'[f] = "released" <=> fetch[f] = "released"
  <2>1. CASE DoLink(th)
    <3>1. PICK q \in Fetches : Head(agenda[th]).fetch = q /\ fetch[q] = "registering"
      BY <2>1, WhoLinks DEF DoLink
    <3>2. fetch' = [fetch EXCEPT ![q] = "registered"]
      BY <2>1, <3>1 DEF DoLink
    <3> QED BY <3>1, <3>2 DEF IInv, Types
  <2>2. CASE ~DoLink(th)
    BY <2>2 DEF OtherStep, DoAttachCopy, DoCopy, DoDecrementFetching, DoAttachFetch,
         DoDeliver, DoReleaseUse, DoUnlock
  <2> QED BY <2>1, <2>2
<1>9. HeldForData'
  <2>1. CASE DoDeliver(th)
    <3>1. PICK q \in Fetches : Head(agenda[th]).fetch = q
      BY <2>1, WhoDelivers DEF DoDeliver
    <3>2. fetched' = [fetched EXCEPT ![q] = copy[q[2]]]
      BY <2>1, <3>1 DEF DoDeliver
    <3> QED BY <1>8, <3>1, <3>2 DEF CInv, HeldForData, IInv, Types, Versions
  <2>2. CASE ~DoDeliver(th)
    <3>1. UNCHANGED fetched
      BY <2>2 DEF OtherStep, DoAttachCopy, DoCopy, DoDecrementFetching, DoAttachFetch,
           DoLink, DoReleaseUse, DoUnlock
    <3> QED BY <1>8, <3>1 DEF CInv, HeldForData
  <2> QED BY <2>1, <2>2
<1>10. ASSUME NEW r \in Indices PROVE Counted(r)'
  BY <1>3, <1>6, <1>7, <1>8, SameCount DEF KeepsCount, CInv
<1> QED BY <1>9, <1>10 DEF CInv

LEMMA InitCInv == Init => CInv
<1> SUFFICES ASSUME Init PROVE CInv
  OBVIOUS
<1>1. \A p \in Indices : Counted(p)
  BY DEF Init, Counted
<1>2. HeldForData
  BY DEF Init, HeldForData
<1> QED BY <1>1, <1>2 DEF CInv

LEMMA CInvStep == Held = Fetches /\ IInv /\ CInv /\ [Next]_vars => CInv'
<1> SUFFICES ASSUME Held = Fetches, IInv, CInv, [Next]_vars PROVE CInv'
  OBVIOUS
<1>1. ASSUME NEW p \in Publishers, Publish(p) \/ MakeInReady(p) \/ Overwrite(p) PROVE CInv'
  BY <1>1, PublishCount, WriterCount
<1>2. ASSUME NEW q \in Fetches, Fetch(q) \/ Read(q) \/ Drop(q) PROVE CInv'
  BY <1>2, FetchCount, GiveBackCount
<1>3. ASSUME NEW th \in Threads, Step(th) PROVE CInv'
  BY <1>3, AdvanceCount, DecrementReleaseCount, OtherCount DEF Step, OtherStep
<1>4. ASSUME UNCHANGED vars PROVE CInv'
  BY <1>4 DEF vars, CInv, Counted, Pending, HeldForData
<1> QED BY <1>1, <1>2, <1>3, <1>4 DEF Next

LEMMA CInvHolds ==
  ASSUME Held = Fetches
  PROVE  Spec => [](IInv /\ CInv)
<1>1. Init => IInv /\ CInv
  BY InitIInv, InitCInv
<1>2. (IInv /\ CInv) /\ [Next]_vars => (IInv /\ CInv)'
  BY IInvStep, CInvStep
<1> QED BY <1>1, <1>2, PTL DEF Spec

\* When no fetching use is released without its data, release_event is neither
\* advanced nor decremented once it has triggered: the asserts of its join counter
\* hold.
THEOREM JoinAssertsHold ==
  ASSUME Held = Fetches
  PROVE  Spec => []AssertsHold
<1>1. IInv /\ CInv => AssertsHold
  <2> SUFFICES ASSUME IInv, CInv, NEW th \in Threads, agenda[th] # <<>>,
                      Head(agenda[th]).do \in {"advance", "decrement_release"}
               PROVE  release[Head(agenda[th]).index] > 0
    BY DEF AssertsHold
  <2>1. CASE IsNext(th, "advance")
    <3>1. PICK p \in Indices : /\ th = Body(p) /\ SettingUp(p) /\ agenda[th] = SetUp(p)
                               /\ Head(agenda[th]).index = p
      BY <2>1, WhoAdvances
    <3>2. release[p] = 1
      BY <3>1 DEF SettingUp, CInv, Counted
    <3> QED BY <3>1, <3>2
  <2>2. CASE IsNext(th, "decrement_release")
    <3>1. PICK p \in Indices :
            /\ Head(agenda[th]).index = p
            /\ \/ th = Body(p) /\ SettingUp(p) /\ agenda[th] = Counting(p)
               \/ /\ th \in Fetches /\ fetch[th] = "released" /\ agenda[th] = GiveBack(th)
                  /\ p = th[2]
      BY <2>2, WhoDecrementsRelease, Names
    <3>2. CASE th = Body(p) /\ SettingUp(p) /\ agenda[th] = Counting(p)
      <4>1. release[p] = Cardinality(Pending(p)) + 1
        BY <3>2, LaterFacts DEF SettingUp, CInv, Counted
      <4> QED BY <3>1, <4>1, PendingFinite
    <3>3. CASE th \in Fetches /\ fetch[th] = "released" /\ agenda[th] = GiveBack(th) /\ p = th[2]
      <4>1. p \in entry /\ publishing[p] # "no" /\ agenda[Body(p)] # SetUp(p)
        BY <3>3, BeforeCounting DEF CInv, Counted
      <4>2. th \in Pending(p)
        BY <3>3, <2>2 DEF IsNext, Pending
      <4>3. Cardinality(Pending(p)) > 0
        BY <4>2, PendingFinite, FS_EmptySet
      <4> QED BY <3>1, <4>1, <4>3, PendingFinite DEF CInv, Counted
    <3> QED BY <3>1, <3>2, <3>3
  <2> QED BY <2>1, <2>2 DEF IsNext
<1> QED BY <1>1, CInvHolds, PTL

\* Under the same condition release_event triggers only when every fetcher of the
\* publication has released its use.
THEOREM ReleasedWhenAllRead ==
  ASSUME Held = Fetches
  PROVE  Spec => []ReleasedAfterReads
<1>1. IInv /\ CInv => ReleasedAfterReads
  <2> SUFFICES ASSUME IInv, CInv, NEW p \in entry, release[p] = 0,
                      NEW q \in Fetches, q[2] = p
               PROVE  fetch[q] = "released"
    BY DEF ReleasedAfterReads
  <2>1. p \in Indices
    BY DEF IInv, Types
  <2>2. Cardinality(Pending(p)) = 0
    BY <2>1, PendingFinite DEF CInv, Counted
  <2>3. Pending(p) = {}
    BY <2>2, PendingFinite, FS_EmptySet
  <2> QED BY <2>3 DEF Pending
<1> QED BY <1>1, CInvHolds, PTL

-----------------------------------------------------------------------------
(* Control blocks, which the flows that share data share                    *)

Kinds == {"none", "initial", "collection", "indexed", "copy", "fetching"}

BlockTypes ==
  /\ made \in 0..NBlocks
  /\ kind \in [B!Blocks -> Kinds]
  /\ status \in [B!Blocks -> {"none", "held", "base", "gone"}]
  /\ block_data \in [B!Blocks -> B!Cells \cup {B!NoData}]
  /\ owns_data \in [B!Blocks -> BOOLEAN]
  /\ parent_collection \in [B!Blocks -> B!Blocks \cup {B!NoBlock}]
  /\ flows \in [B!Blocks -> Nat]
  /\ constructed \subseteq B!Cells
  /\ destroyed \in [B!Cells -> Nat]
  /\ deleted \in [B!Blocks -> Nat]

\* Blocks are made in order, and one that a flow holds is there.
Holding ==
  \A b \in B!Blocks :
    /\ kind[b] = "none" <=> b > made
    /\ status[b] = "none" <=> b > made
    /\ kind[b] = "none" => flows[b] = 0 /\ parent_collection[b] = B!NoBlock /\ block_data[b] = B!NoData
    /\ flows[b] > 0 => status[b] = "held"
    /\ status[b] = "base" => kind[b] = "collection"

\* A block leads to data of its own; that of an index to the data of a collection,
\* which it keeps; one that fetches to the data of a copy, which is held as long.
LeadsRight(b) ==
  /\ kind[b] \in {"initial", "copy"} => block_data[b] = <<b, 0>> /\ owns_data[b]
  /\ kind[b] = "collection" => block_data[b] = <<b, 0>> /\ (owns_data[b] <=> status[b] = "held")
  /\ kind[b] \in {"indexed", "fetching"} => ~owns_data[b]
  /\ kind[b] # "indexed" => parent_collection[b] = B!NoBlock
  /\ kind[b] = "indexed" =>
       \E p \in B!Blocks, i \in B!Idx :
         /\ parent_collection[b] = p /\ kind[p] = "collection" /\ block_data[b] = <<p, i>>
         /\ status[b] # "gone" => status[p] = "held"
  /\ kind[b] = "fetching" =>
       \/ block_data[b] = B!NoData
       \/ \E c \in B!Blocks :
            /\ kind[c] = "copy" /\ block_data[b] = <<c, 0>>
            /\ flows[b] > 0 => flows[c] > 0

\* What a block allocated is there as long as the block is, and goes once.
Intact(b) ==
  /\ kind[b] \in {"initial", "copy"} => <<b, 0>> \in constructed
  /\ kind[b] = "collection" => \A i \in B!Idx : <<b, i>> \in constructed
  /\ deleted[b] <= 1 /\ \A i \in B!Idx : destroyed[<<b, i>>] <= 1
  /\ status[b] \in {"none", "held"} => deleted[b] = 0 /\ \A i \in B!Idx : destroyed[<<b, i>>] = 0

BInv ==
  /\ BlockTypes /\ Holding
  /\ \A b \in B!Blocks : LeadsRight(b) /\ Intact(b)

LEMMA CellFacts ==
  ASSUME NBlocks \in Nat, NIndices \in Nat \ {0}
  PROVE  /\ 0 \in B!Idx
         /\ \A b \in B!Blocks : b \in Nat /\ b # 0 /\ b # B!NoBlock
         /\ \A b \in B!Blocks, i \in B!Idx :
              <<b, i>> \in B!Cells /\ <<b, i>> # B!NoData /\ <<b, i>>[1] = b
         /\ \A c \in B!Cells : \E b \in B!Blocks, i \in B!Idx : c = <<b, i>>
         /\ B!NoData \notin B!Cells
  BY DEF B!Idx, B!Blocks, B!Cells, B!NoData, B!NoBlock

LEMMA BlocksInit == ASSUME NBlocks \in Nat, NIndices \in Nat \ {0}, B!Init PROVE BInv
  BY CellFacts DEF B!Init, BInv, BlockTypes, Holding, LeadsRight, Intact, Kinds, B!Blocks, B!NoBlock

\* A new block: it is sound if it leads where its kind says, and it disturbs no other.
LEMMA MakeKeeps ==
  ASSUME NBlocks \in Nat, NIndices \in Nat \ {0}, BInv,
         NEW k \in Kinds \ {"none"}, NEW cell \in B!Cells \cup {B!NoData}, NEW owns \in BOOLEAN,
         NEW parent \in B!Blocks \cup {B!NoBlock}, NEW cells \in SUBSET B!Cells,
         B!Make(k, cell, owns, parent, cells),
         k \in {"initial", "copy"} => cell = <<made + 1, 0>> /\ owns /\ <<made + 1, 0>> \in cells,
         k = "collection" =>
           cell = <<made + 1, 0>> /\ owns /\ \A i \in B!Idx : <<made + 1, i>> \in cells,
         k \in {"indexed", "fetching"} => ~owns,
         k # "indexed" => parent = B!NoBlock,
         k = "indexed" =>
           \E i \in B!Idx : parent \in B!Blocks /\ kind[parent] = "collection"
                            /\ status[parent] = "held" /\ cell = <<parent, i>>,
         k = "fetching" => cell = B!NoData
  PROVE  BInv'
<1> DEFINE n == made + 1
<1>1. BlockTypes /\ Holding /\ \A b \in B!Blocks : LeadsRight(b) /\ Intact(b)
  BY DEF BInv
<1>2. /\ n \in B!Blocks /\ made' = n /\ made \in Nat /\ made < NBlocks
      /\ n \notin 1..made /\ n > made
      /\ \A b \in B!Blocks : b # n => (b > n <=> b > made)
      /\ kind[n] = "none" /\ status[n] = "none"
  <2>1. made \in 0..NBlocks /\ made' = n /\ made < NBlocks
    BY <1>1 DEF BlockTypes, B!Make
  <2>2. n \in B!Blocks /\ \A b \in B!Blocks : b # n => (b > n <=> b > made)
    BY <2>1 DEF B!Blocks
  <2> QED BY <1>1, <2>1, <2>2 DEF Holding
<1>3. /\ kind' \in [B!Blocks -> Kinds] /\ kind'[n] = k
      /\ status' \in [B!Blocks -> {"none", "held", "base", "gone"}] /\ status'[n] = "held"
      /\ block_data' \in [B!Blocks -> B!Cells \cup {B!NoData}] /\ block_data'[n] = cell
      /\ owns_data' \in [B!Blocks -> BOOLEAN] /\ owns_data'[n] = owns
      /\ parent_collection' \in [B!Blocks -> B!Blocks \cup {B!NoBlock}]
      /\ parent_collection'[n] = parent
      /\ flows' \in [B!Blocks -> Nat] /\ flows'[n] = 1
      /\ constructed' = constructed \cup cells /\ destroyed' = destroyed /\ deleted' = deleted
  BY <1>1, <1>2 DEF B!Make, BlockTypes
<1>4. \A b \in B!Blocks : b # n =>
        /\ kind'[b] = kind[b] /\ status'[b] = status[b] /\ block_data'[b] = block_data[b]
        /\ (owns_data'[b] <=> owns_data[b]) /\ parent_collection'[b] = parent_collection[b]
        /\ flows'[b] = flows[b]
  BY <1>1, <1>2 DEF B!Make, BlockTypes
<1>5. BlockTypes'
  <2>1. made' \in 0..NBlocks
    BY <1>2
  <2>2. constructed' \subseteq B!Cells
    BY <1>1, <1>3 DEF BlockTypes
  <2> QED BY <1>1, <1>3, <2>1, <2>2 DEF BlockTypes
<1> HIDE DEF n
<1>6. Holding'
  <2>1. n > n <=> FALSE
    BY <1>2 DEF n
  <2>2. k # "none"
    OBVIOUS
  <2>3. ASSUME NEW b \in B!Blocks, b # n
        PROVE  /\ kind'[b] = "none" <=> b > made'
               /\ status'[b] = "none" <=> b > made'
               /\ kind'[b] = "none" =>
                    flows'[b] = 0 /\ parent_collection'[b] = B!NoBlock /\ block_data'[b] = B!NoData
               /\ flows'[b] > 0 => status'[b] = "held"
               /\ status'[b] = "base" => kind'[b] = "collection"
    BY <1>1, <1>2, <1>4, <2>3 DEF Holding
  <2> QED BY <1>2, <1>3, <2>1, <2>2, <2>3 DEF Holding
<1>7. \A b \in B!Blocks : LeadsRight(b)'
  <2>1. \A p \in B!Blocks : kind[p] # "none" => p # n
    BY <1>2
  <2> SUFFICES ASSUME NEW b \in B!Blocks
               PROVE  LeadsRight(b)'
    OBVIOUS
  <2>2. CASE b = n
    <3>1. k = "indexed" =>
            \E i \in B!Idx : parent \in B!Blocks /\ kind'[parent] = "collection"
                             /\ status'[parent] = "held" /\ cell = <<parent, i>>
      BY <1>4, <2>1
    <3> QED BY <1>3, <2>2, <3>1 DEF n, LeadsRight
  <2>3. CASE b # n
    <3>1. LeadsRight(b)
      BY <1>1
    <3>2. kind[b] = "indexed" =>
         \E p \in B!Blocks, i \in B!Idx :
           /\ parent_collection'[b] = p /\ kind'[p] = "collection" /\ block_data'[b] = <<p, i>>
           /\ status'[b] # "gone" => status'[p] = "held"
      BY <1>4, <2>1, <2>3, <3>1 DEF LeadsRight
    <3>3. kind[b] = "fetching" =>
         \/ block_data'[b] = B!NoData
         \/ \E c \in B!Blocks :
              /\ kind'[c] = "copy" /\ block_data'[b] = <<c, 0>>
              /\ flows'[b] > 0 => flows'[c] > 0
      BY <1>4, <2>1, <2>3, <3>1 DEF LeadsRight
    <3> QED BY <1>4, <2>3, <3>1, <3>2, <3>3 DEF LeadsRight
  <2> QED BY <2>2, <2>3
<1>8. \A b \in B!Blocks : Intact(b)'
  <2> SUFFICES ASSUME NEW b \in B!Blocks
               PROVE  Intact(b)'
    OBVIOUS
  <2>1. Intact(b)
    BY <1>1
  <2>2. CASE b = n
    BY <1>2, <1>3, <2>1, <2>2 DEF n, Intact
  <2>3. CASE b # n
    BY <1>3, <1>4, <2>1, <2>3 DEF Intact
  <2> QED BY <2>2, <2>3
<1> QED BY <1>5, <1>6, <1>7, <1>8 DEF BInv

LEMMA MakingKeeps ==
  ASSUME NBlocks \in Nat, NIndices \in Nat \ {0}, BInv,
         \/ B!MakeInitial \/ B!MakeInitialCollection \/ B!MakeFetching
         \/ \E b \in B!Blocks : B!MakeCopy(b) \/ \E i \in B!Idx : B!MakeIndexed(b, i)
  PROVE  BInv'
<1>1. made + 1 \in B!Blocks \/ ~(made < NBlocks)
  BY DEF BInv, BlockTypes, B!Blocks
<1>2. ASSUME made < NBlocks
      PROVE  /\ <<made + 1, 0>> \in B!Cells /\ {<<made + 1, 0>>} \subseteq B!Cells
             /\ {made + 1} \X B!Idx \subseteq B!Cells
             /\ \A i \in B!Idx : <<made + 1, i>> \in {made + 1} \X B!Idx
             /\ 0 \in B!Idx
  BY <1>1, <1>2, CellFacts DEF B!Cells
<1>3. CASE B!MakeInitial
  <2>1. B!Make("initial", <<made + 1, 0>>, TRUE, B!NoBlock, {<<made + 1, 0>>})
    BY <1>3 DEF B!MakeInitial
  <2>2. made < NBlocks
    BY <2>1 DEF B!Make
  <2>3. "initial" \in Kinds \ {"none"} /\ B!NoBlock \in B!Blocks \cup {B!NoBlock} /\ TRUE \in BOOLEAN
    BY DEF Kinds
  <2> QED BY <1>2, <2>1, <2>2, <2>3, MakeKeeps, ZenonT(120), SMTT(30)
<1>4. CASE B!MakeInitialCollection
  <2>1. B!Make("collection", <<made + 1, 0>>, TRUE, B!NoBlock, {made + 1} \X B!Idx)
    BY <1>4 DEF B!MakeInitialCollection
  <2>2. made < NBlocks
    BY <2>1 DEF B!Make
  <2>3. "collection" \in Kinds \ {"none"} /\ B!NoBlock \in B!Blocks \cup {B!NoBlock} /\ TRUE \in BOOLEAN
    BY DEF Kinds
  <2> QED BY <1>2, <2>1, <2>2, <2>3, MakeKeeps, ZenonT(120), SMTT(30)
<1>5. CASE B!MakeFetching
  <2>1. B!Make("fetching", B!NoData, FALSE, B!NoBlock, {})
    BY <1>5 DEF B!MakeFetching
  <2>2. "fetching" \in Kinds \ {"none"} /\ B!NoBlock \in B!Blocks \cup {B!NoBlock} /\ FALSE \in BOOLEAN
    BY DEF Kinds
  <2>3. B!NoData \in B!Cells \cup {B!NoData} /\ {} \in SUBSET B!Cells
    OBVIOUS
  <2> QED BY <2>1, <2>2, <2>3, MakeKeeps, ZenonT(120), SMTT(30)
<1>6. ASSUME NEW b \in B!Blocks, B!MakeCopy(b) PROVE BInv'
  <2>1. B!Make("copy", <<made + 1, 0>>, TRUE, B!NoBlock, {<<made + 1, 0>>})
    BY <1>6 DEF B!MakeCopy
  <2>2. made < NBlocks
    BY <2>1 DEF B!Make
  <2>3. "copy" \in Kinds \ {"none"} /\ B!NoBlock \in B!Blocks \cup {B!NoBlock} /\ TRUE \in BOOLEAN
    BY DEF Kinds
  <2> QED BY <1>2, <2>1, <2>2, <2>3, MakeKeeps, ZenonT(120), SMTT(30)
<1>7. ASSUME NEW b \in B!Blocks, NEW i \in B!Idx, B!MakeIndexed(b, i) PROVE BInv'
  <2>1. B!Make("indexed", <<b, i>>, FALSE, b, {}) /\ kind[b] = "collection" /\ flows[b] > 0
    BY <1>7 DEF B!MakeIndexed
  <2>2. status[b] = "held"
    BY <2>1 DEF BInv, Holding
  <2>3. <<b, i>> \in B!Cells
    BY CellFacts
  <2>4. "indexed" \in Kinds \ {"none"} /\ b \in B!Blocks \cup {B!NoBlock} /\ FALSE \in BOOLEAN
    BY DEF Kinds
  <2>5. <<b, i>> \in B!Cells \cup {B!NoData} /\ {} \in SUBSET B!Cells
    BY <2>3
  <2> QED BY <2>1, <2>2, <2>4, <2>5, MakeKeeps, ZenonT(120), SMTT(30)
<1> QED BY <1>3, <1>4, <1>5, <1>6, <1>7

LEMMA DeliverKeeps ==
  ASSUME NBlocks \in Nat, NIndices \in Nat \ {0}, BInv,
         NEW b \in B!Blocks, NEW c \in B!Blocks, B!Deliver(b, c)
  PROVE  BInv'
<1>1. BlockTypes /\ Holding /\ \A x \in B!Blocks : LeadsRight(x) /\ Intact(x)
  BY DEF BInv
<1>2. /\ block_data' \in [B!Blocks -> B!Cells \cup {B!NoData}] /\ block_data'[b] = <<c, 0>>
      /\ \A x \in B!Blocks : x # b => block_data'[x] = block_data[x]
      /\ kind[b] = "fetching" /\ kind[c] = "copy" /\ flows[c] > 0
      /\ UNCHANGED <<made, kind, status, owns_data, parent_collection, flows>>
      /\ UNCHANGED <<constructed, destroyed, deleted>>
  <2>1. block_data[c] = <<c, 0>> /\ <<c, 0>> \in B!Cells
    BY <1>1, CellFacts DEF B!Deliver, LeadsRight
  <2> QED BY <1>1, <2>1 DEF B!Deliver, B!memoryVars, BlockTypes
<1>3. BlockTypes'
  BY <1>1, <1>2 DEF BlockTypes
<1>4. Holding'
  BY <1>1, <1>2 DEF Holding
<1>5. ASSUME NEW x \in B!Blocks PROVE LeadsRight(x)'
  <2>1. CASE x = b
    BY <1>1, <1>2, <2>1 DEF LeadsRight
  <2>2. CASE x # b
    BY <1>1, <1>2, <2>2 DEF LeadsRight
  <2> QED BY <2>1, <2>2
<1>6. ASSUME NEW x \in B!Blocks PROVE Intact(x)'
  BY <1>1, <1>2 DEF Intact
<1> QED BY <1>3, <1>4, <1>5, <1>6 DEF BInv

LEMMA HoldersKeep ==
  ASSUME NBlocks \in Nat, NIndices \in Nat \ {0}, BInv,
         NEW b \in B!Blocks, B!Share(b) \/ B!DropFlow(b)
  PROVE  BInv'
<1>1. BlockTypes /\ Holding /\ \A x \in B!Blocks : LeadsRight(x) /\ Intact(x)
  BY DEF BInv
<1>2. /\ flows[b] > 0 /\ flows' \in [B!Blocks -> Nat]
      /\ \A x \in B!Blocks : x # b => flows'[x] = flows[x]
      /\ UNCHANGED <<made, kind, status, block_data, owns_data, parent_collection>>
      /\ UNCHANGED <<constructed, destroyed, deleted>>
  BY <1>1 DEF B!Share, B!DropFlow, B!memoryVars, BlockTypes
<1>3. kind[b] = "copy" =>
        ~\E x \in B!Blocks : kind[x] = "fetching" /\ flows[x] > 0 /\ block_data[x] = <<b, 0>>
  BY <1>1 DEF B!Share, B!DropFlow, B!InUse, LeadsRight
<1>4. BlockTypes'
  BY <1>1, <1>2 DEF BlockTypes
<1>5. Holding'
  <2>1. kind[b] # "none" /\ status[b] = "held"
    BY <1>1, <1>2 DEF Holding, BlockTypes
  <2> QED BY <1>1, <1>2, <2>1 DEF Holding
<1>6. ASSUME NEW x \in B!Blocks PROVE LeadsRight(x)'
  <2>1. kind[x] = "fetching" =>
          \/ block_data[x] = B!NoData
          \/ \E c \in B!Blocks :
               /\ kind[c] = "copy" /\ block_data[x] = <<c, 0>>
               /\ flows'[x] > 0 => flows'[c] > 0
    <3> SUFFICES ASSUME kind[x] = "fetching", block_data[x] # B!NoData
                 PROVE  \E c \in B!Blocks :
                          /\ kind[c] = "copy" /\ block_data[x] = <<c, 0>>
                          /\ flows'[x] > 0 => flows'[c] > 0
      OBVIOUS
    <3>1. PICK c \in B!Blocks : /\ kind[c] = "copy" /\ block_data[x] = <<c, 0>>
                                /\ flows[x] > 0 => flows[c] > 0
      BY <1>1 DEF LeadsRight
    <3>2. flows'[x] > 0 => flows[x] > 0
      BY <1>2
    <3>3. flows[x] > 0 => c # b
      BY <1>3, <3>1
    <3> QED BY <1>2, <3>1, <3>2, <3>3
  <2> QED BY <1>1, <1>2, <2>1 DEF LeadsRight
<1>7. ASSUME NEW x \in B!Blocks PROVE Intact(x)'
  BY <1>1, <1>2 DEF Intact
<1> QED BY <1>4, <1>5, <1>6, <1>7 DEF BInv

\* What an index points into goes after its own block.
LEMMA DestroyCollectionKeeps ==
  ASSUME NBlocks \in Nat, NIndices \in Nat \ {0}, BInv, NEW b \in B!Blocks, B!DestroyCollection(b)
  PROVE  BInv'
<1>1. BlockTypes /\ Holding /\ \A x \in B!Blocks : LeadsRight(x) /\ Intact(x)
  BY DEF BInv
<1>2. /\ status[b] = "held" /\ kind[b] = "collection" /\ flows[b] = 0
      /\ \A x \in B!Blocks : parent_collection[x] = b => status[x] = "gone"
      /\ status' \in [B!Blocks -> {"none", "held", "base", "gone"}] /\ status'[b] = "base"
      /\ owns_data' \in [B!Blocks -> BOOLEAN] /\ ~owns_data'[b]
      /\ \A x \in B!Blocks : x # b => status'[x] = status[x] /\ (owns_data'[x] <=> owns_data[x])
      /\ UNCHANGED <<made, kind, block_data, parent_collection, flows, constructed>>
  BY <1>1 DEF B!DestroyCollection, B!Unreferenced, BlockTypes
<1>3. /\ deleted' \in [B!Blocks -> Nat] /\ deleted'[b] = deleted[b] + 1
      /\ \A x \in B!Blocks : x # b => deleted'[x] = deleted[x]
  BY <1>1 DEF B!DestroyCollection, B!DestroyData, BlockTypes
<1>4. /\ destroyed' \in [B!Cells -> Nat]
      /\ \A i \in B!Idx : destroyed'[<<b, i>>] = destroyed[<<b, i>>] + 1
      /\ \A x \in B!Blocks, i \in B!Idx : x # b => destroyed'[<<x, i>>] = destroyed[<<x, i>>]
  <2>1. destroyed' = [c \in B!Cells |-> IF c \in {b} \X B!Idx THEN destroyed[c] + 1 ELSE destroyed[c]]
    BY DEF B!DestroyCollection, B!DestroyData
  <2>2. destroyed \in [B!Cells -> Nat]
    BY <1>1 DEF BlockTypes
  <2>3. \A x \in B!Blocks, i \in B!Idx :
          <<x, i>> \in B!Cells /\ (<<x, i>> \in {b} \X B!Idx <=> x = b)
    BY DEF B!Cells
  <2> QED BY <2>1, <2>2, <2>3
<1>5. BlockTypes'
  BY <1>1, <1>2, <1>3, <1>4 DEF BlockTypes
<1>6. Holding'
  BY <1>1, <1>2 DEF Holding
<1>7. ASSUME NEW x \in B!Blocks PROVE LeadsRight(x)'
  <2>1. kind[x] = "indexed" =>
          \E p \in B!Blocks, i \in B!Idx :
            /\ parent_collection[x] = p /\ kind[p] = "collection" /\ block_data[x] = <<p, i>>
            /\ status'[x] # "gone" => status'[p] = "held"
    BY <1>1, <1>2 DEF LeadsRight
  <2> QED BY <1>1, <1>2, <2>1 DEF LeadsRight
<1>8. ASSUME NEW x \in B!Blocks PROVE Intact(x)'
  <2>1. CASE x = b
    BY <1>1, <1>2, <1>3, <1>4, <2>1 DEF Intact
  <2>2. CASE x # b
    BY <1>1, <1>2, <1>3, <1>4, <2>2 DEF Intact
  <2> QED BY <2>1, <2>2
<1> QED BY <1>5, <1>6, <1>7, <1>8 DEF BInv

LEMMA DestroyBlockKeeps ==
  ASSUME NBlocks \in Nat, NIndices \in Nat \ {0}, BInv, NEW b \in B!Blocks, B!DestroyBlock(b)
  PROVE  BInv'
<1>1. BlockTypes /\ Holding /\ \A x \in B!Blocks : LeadsRight(x) /\ Intact(x)
  BY DEF BInv
<1>2. /\ \/ status[b] = "held" /\ kind[b] # "collection" /\ flows[b] = 0
         \/ status[b] = "base"
      /\ status' \in [B!Blocks -> {"none", "held", "base", "gone"}] /\ status'[b] = "gone"
      /\ \A x \in B!Blocks : x # b => status'[x] = status[x]
      /\ UNCHANGED <<made, kind, block_data, owns_data, parent_collection, flows, constructed>>
  BY <1>1 DEF B!DestroyBlock, B!Unreferenced, BlockTypes
<1>3. /\ flows[b] = 0 /\ kind[b] # "none" /\ (kind[b] = "collection" => status[b] = "base")
      /\ owns_data[b] => status[b] = "held" /\ block_data[b] = <<b, 0>>
  BY <1>1, <1>2 DEF Holding, LeadsRight, BlockTypes, Kinds
<1>4. /\ deleted' \in [B!Blocks -> Nat] /\ destroyed' \in [B!Cells -> Nat]
      /\ \A x \in B!Blocks : x # b => deleted'[x] = deleted[x]
      /\ \A x \in B!Blocks, i \in B!Idx : x # b => destroyed'[<<x, i>>] = destroyed[<<x, i>>]
      /\ deleted'[b] <= 1 /\ \A i \in B!Idx : destroyed'[<<b, i>>] <= 1
  <2>1. destroyed \in [B!Cells -> Nat] /\ deleted \in [B!Blocks -> Nat]
    BY <1>1 DEF BlockTypes
  <2>2. \A x \in B!Blocks, i \in B!Idx : <<x, i>> \in B!Cells
    BY CellFacts
  <2>3. CASE owns_data[b]
    <3>1. /\ destroyed' = [c \in B!Cells |-> IF c \in {<<b, 0>>} THEN destroyed[c] + 1 ELSE destroyed[c]]
          /\ deleted' = [deleted EXCEPT ![b] = @ + 1]
      BY <1>3, <2>3 DEF B!DestroyBlock, B!DestroyData
    <3>2. deleted[b] = 0 /\ \A i \in B!Idx : destroyed[<<b, i>>] = 0
      BY <1>1, <1>3, <2>3 DEF Intact
    <3> QED BY <2>1, <2>2, <3>1, <3>2
  <2>4. CASE ~owns_data[b]
    BY <1>1, <2>1, <2>4 DEF B!DestroyBlock, Intact
  <2> QED BY <2>3, <2>4
<1>5. BlockTypes'
  BY <1>1, <1>2, <1>4 DEF BlockTypes
<1>6. Holding'
  BY <1>1, <1>2, <1>3 DEF Holding
<1>7. ASSUME NEW x \in B!Blocks PROVE LeadsRight(x)'
  <2>1. kind[x] = "indexed" =>
          \E p \in B!Blocks, i \in B!Idx :
            /\ parent_collection[x] = p /\ kind[p] = "collection" /\ block_data[x] = <<p, i>>
            /\ status'[x] # "gone" => status'[p] = "held"
    BY <1>1, <1>2 DEF LeadsRight
  <2>2. kind[x] = "collection" => (owns_data[x] <=> status'[x] = "held")
    BY <1>1, <1>2, <1>3 DEF LeadsRight
  <2> QED BY <1>1, <1>2, <2>1, <2>2 DEF LeadsRight
<1>8. ASSUME NEW x \in B!Blocks PROVE Intact(x)'
  <2>1. CASE x = b
    BY <1>1, <1>2, <1>4, <2>1 DEF Intact
  <2>2. CASE x # b
    BY <1>1, <1>2, <1>4, <2>2 DEF Intact
  <2> QED BY <2>1, <2>2
<1> QED BY <1>5, <1>6, <1>7, <1>8 DEF BInv

\* Whatever a flow leads to was constructed and is neither destroyed nor deleted
\* while the flow holds its control block, in whatever order the flows, the blocks
\* and, when nobody fetches from them any more, the entries go; and no destructor
\* runs twice for the same data.
THEOREM FlowsKeepTheirData ==
  ASSUME NBlocks \in Nat, NIndices \in Nat \ {0} PROVE B!Spec => []DataOutlivesFlows
<1>1. BInv /\ [B!Next]_(B!vars) => BInv'
  <2>1. ASSUME BInv, B!Next PROVE BInv'
    BY <2>1, MakingKeeps, DeliverKeeps, HoldersKeep, DestroyCollectionKeeps, DestroyBlockKeeps
       DEF B!Next
  <2>2. ASSUME BInv, UNCHANGED B!vars PROVE BInv'
    <3>1. BlockTypes' /\ Holding'
      BY <2>2 DEF BInv, B!vars, B!memoryVars, BlockTypes, Holding
    <3>2. ASSUME NEW b \in B!Blocks PROVE LeadsRight(b)' /\ Intact(b)'
      BY <2>2 DEF BInv, B!vars, B!memoryVars, LeadsRight, Intact
    <3> QED BY <3>1, <3>2 DEF BInv
  <2> QED BY <2>1, <2>2
<1>2. BInv => DataOutlivesFlows
  <2> SUFFICES ASSUME BInv PROVE B!DataOutlivesFlows
    BY DEF DataOutlivesFlows
  <2>1. BlockTypes /\ Holding /\ \A x \in B!Blocks : LeadsRight(x) /\ Intact(x)
    BY DEF BInv
  <2>2. ASSUME NEW b \in B!Blocks, flows[b] > 0, block_data[b] # B!NoData
        PROVE  /\ block_data[b] \in constructed /\ destroyed[block_data[b]] = 0
               /\ deleted[block_data[b][1]] = 0
    <3>1. status[b] = "held" /\ kind[b] # "none"
      BY <2>1, <2>2 DEF Holding, BlockTypes
    <3>2. \E o \in B!Blocks, i \in B!Idx :
            /\ block_data[b] = <<o, i>> /\ status[o] = "held"
            /\ kind[o] \in {"initial", "copy", "collection"} /\ (kind[o] # "collection" => i = 0)
      <4>1. CASE kind[b] \in {"initial", "copy", "collection"}
        BY <2>1, <3>1, <4>1, CellFacts DEF LeadsRight
      <4>2. CASE kind[b] = "indexed"
        BY <2>1, <3>1, <4>2 DEF LeadsRight
      <4>3. CASE kind[b] = "fetching"
        <5>1. PICK c \in B!Blocks : kind[c] = "copy" /\ block_data[b] = <<c, 0>> /\ flows[c] > 0
          BY <2>1, <2>2, <4>3 DEF LeadsRight
        <5> QED BY <2>1, <5>1, CellFacts DEF Holding
      <4> QED BY <2>1, <3>1, <4>1, <4>2, <4>3 DEF BlockTypes, Kinds
    <3>3. PICK o \in B!Blocks, i \in B!Idx :
            /\ block_data[b] = <<o, i>> /\ status[o] = "held"
            /\ kind[o] \in {"initial", "copy", "collection"} /\ (kind[o] # "collection" => i = 0)
      BY <3>2
    <3>4. <<o, i>> \in constructed /\ destroyed[<<o, i>>] = 0 /\ deleted[o] = 0
      BY <2>1, <3>3 DEF Intact
    <3> QED BY <3>3, <3>4
  <2>3. \A c \in B!Cells : destroyed[c] <= 1
    <3>1. \A b \in B!Blocks, i \in B!Idx : destroyed[<<b, i>>] <= 1
      BY <2>1 DEF Intact
    <3> QED BY <3>1, CellFacts
  <2>4. \A b \in B!Blocks : deleted[b] <= 1
    BY <2>1 DEF Intact
  <2> QED BY <2>2, <2>3, <2>4 DEF B!DataOutlivesFlows
<1> QED BY BlocksInit, <1>1, <1>2, PTL DEF B!Spec
=============================================================================
