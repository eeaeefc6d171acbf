----------------------------- MODULE Publication -----------------------------
(***************************************************************************)
(* Runtime::publish_use of publish.cpp and the IndexedFetching cases of    *)
(* register_use.cpp: the tasks of a collection publish the data of their   *)
(* index and fetch that of others, through the table of their token.       *)
(*                                                                         *)
(* A publication is the entry of one key, version and index.  The data of  *)
(* an index is first what the program had before, then "published" when    *)
(* the in flow of the publish use is ready, and it is overwritten as soon  *)
(* as the release of that use lets the next writer run.  As in Flows.tla   *)
(* the agenda of a thread is what is left of its call stack.               *)
(***************************************************************************)
EXTENDS Integers, Sequences, FiniteSets

CONSTANTS Indices,   \* of the collection
          Fetches,   \* pairs: the first fetches what the second publishes
          Held       \* the fetches whose use is not released before the data is there

ASSUME FetchesAssumption ==
  /\ IsFiniteSet(Indices) /\ Indices \cap {"body", "writer"} = {}
  /\ Fetches \subseteq Indices \X Indices /\ Held \subseteq Fetches

Publishers == {q[2] : q \in Fetches}

\* An index runs its body; its earlier writer and the readers have threads of their own.
Writer(p) == <<p, "writer">>
Threads == (Indices \X {"body", "writer"}) \cup Fetches
NoThread == <<>>

VARIABLES lock,        \* the thread that holds the mutex of the publication table
          entry,       \* the publications with an entry in the table
          fetching,    \* the count of an entry's fetching_join_counter
          waiting,     \* the fetches attached to it
          release,     \* the count of its release_event
          copy,        \* the data of its source_flow
          data,        \* of an index
          in_ready,    \* the indices whose publish use has a ready in flow
          to_copy,     \* those whose copying is attached to it
          publishing,  \* where a publish use is
          fetch,       \* where a fetching use is
          fetched,     \* the data of its in flow
          read,        \* what its reader read
          agenda       \* what a thread has left to do

vars == <<lock, entry, fetching, waiting, release, copy, data, in_ready, to_copy,
          publishing, fetch, fetched, read, agenda>>

Op(what, p) == [do |-> what, index |-> p]
Deliver(q) == [do |-> "deliver", fetch |-> q]

NFetchers(p) == Cardinality({q \in Fetches : q[2] = p})

Init ==
  /\ lock = NoThread
  /\ entry = {}
  /\ fetching = [p \in Indices |-> 0]
  /\ waiting = [p \in Indices |-> <<>>]
  /\ release = [p \in Indices |-> 0]
  /\ copy = [p \in Indices |-> "none"]
  /\ data = [p \in Indices |-> "old"]
  /\ in_ready = {}
  /\ to_copy = {}
  /\ publishing = [p \in Indices |-> "no"]
  /\ fetch = [q \in Fetches |-> "no"]
  /\ fetched = [q \in Fetches |-> "none"]
  /\ read = [q \in Fetches |-> "none"]
  /\ agenda = [th \in Threads |-> <<>>]

\* Mutant: whoever comes makes an entry.
AlwaysNewEntry(p) ==
  /\ entry' = entry \cup {p}
  /\ fetching' = [fetching EXCEPT ![p] = 1]
  /\ release' = [release EXCEPT ![p] = 1]
  /\ waiting' = [waiting EXCEPT ![p] = <<>>]

\* Create the entry if it doesn't already exist; both counters start at 1.
EnsureEntry(p) ==
  IF p \in entry
    THEN UNCHANGED <<entry, fetching, release, waiting>>
    ELSE /\ entry' = entry \cup {p}
         /\ fetching' = [fetching EXCEPT ![p] = 1]
         /\ release' = [release EXCEPT ![p] = 1]
         /\ UNCHANGED waiting

-----------------------------------------------------------------------------
\* Mutant: the initial count is removed before the fetchers are counted.
SetUpDecrementFirst(p) ==
  <<Op("decrement_release", p), Op("advance", p), Op("attach_copy", p), Op("unlock", p)>>

\* publish_use: what is done under the lock, with all that it runs inline.
SetUp(p) ==
  <<Op("advance", p), Op("decrement_release", p), Op("attach_copy", p), Op("unlock", p)>>

\* Mutant: the use is released before its data is copied.
ReleaseThenCopy(p) ==
  <<Op("release_use", p), Op("copy", p), Op("decrement_fetching", p)>>

\* The action on the in flow of the publish use.
CopyAndRelease(p) ==
  <<Op("copy", p), Op("decrement_fetching", p), Op("release_use", p)>>

Publish(p) ==
  LET th == <<p, "body">> IN
  /\ publishing[p] = "no"
  /\ agenda[th] = <<>>
  /\ lock = NoThread
  /\ lock' = th
  /\ EnsureEntry(p)
  /\ publishing' = [publishing EXCEPT ![p] = "published"]
  /\ agenda' = [agenda EXCEPT ![th] = SetUp(p)]
  /\ UNCHANGED <<copy, data, in_ready, to_copy, fetch, fetched, read>>

\* register_use of a fetching use: its in flow, and then its anti-out flow,
\* each through the table.
Fetch(q) ==
  LET th == <<q[1], "body">> IN
  /\ fetch[q] = "no"
  /\ agenda[th] = <<>>
  /\ lock = NoThread
  /\ lock' = th
  /\ EnsureEntry(q[2])
  /\ fetch' = [fetch EXCEPT ![q] = "registering"]
  /\ agenda' = [agenda EXCEPT ![th] =
                  <<[do |-> "attach_fetch", fetch |-> q], Op("unlock", q[2]),
                    [do |-> "link", fetch |-> q]>>]
  /\ UNCHANGED <<copy, data, in_ready, to_copy, publishing, fetched, read>>

\* The writer before the publication is done.
MakeInReady(p) ==
  /\ p \notin in_ready
  /\ in_ready' = in_ready \cup {p}
  /\ data' = [data EXCEPT ![p] = "published"]
  /\ agenda' = [agenda EXCEPT ![Writer(p)] = IF p \in to_copy THEN CopyAndRelease(p) ELSE <<>>]
  /\ to_copy' = to_copy \ {p}
  /\ UNCHANGED <<lock, entry, fetching, waiting, release, copy, publishing, fetch, fetched, read>>

\* The next writer of an index, for which the publish use is an anti-dependency.
Overwrite(p) ==
  /\ publishing[p] = "released"
  /\ data[p] = "published"
  /\ data' = [data EXCEPT ![p] = "overwritten"]
  /\ UNCHANGED <<lock, entry, fetching, waiting, release, copy, in_ready, to_copy,
                 publishing, fetch, fetched, read, agenda>>

\* A task reads what was fetched, and releases the use when it is done.
Read(q) ==
  /\ fetch[q] = "registered"
  /\ fetched[q] # "none"
  /\ read' = [read EXCEPT ![q] = fetched[q]]
  /\ fetch' = [fetch EXCEPT ![q] = "released"]
  /\ agenda' = [agenda EXCEPT ![q] = <<Op("decrement_release", q[2])>>]
  /\ UNCHANGED <<lock, entry, fetching, waiting, release, copy, data, in_ready, to_copy,
                 publishing, fetched>>

\* No task uses the handle, which goes out of scope: release_use.
Drop(q) ==
  /\ fetch[q] = "registered"
  /\ q \in Held => fetched[q] # "none"
  /\ fetch' = [fetch EXCEPT ![q] = "released"]
  /\ agenda' = [agenda EXCEPT ![q] = <<Op("decrement_release", q[2])>>]
  /\ UNCHANGED <<lock, entry, fetching, waiting, release, copy, data, in_ready, to_copy,
                 publishing, fetched, read>>

-----------------------------------------------------------------------------
(* What is on an agenda                                                     *)

IsNext(th, op) == agenda[th] # <<>> /\ Head(agenda[th]).do = op
Then(th, ops) == agenda' = [agenda EXCEPT ![th] = ops \o Tail(@)]

DoAdvance(th) ==
  LET p == Head(agenda[th]).index IN
  /\ IsNext(th, "advance")
  /\ release[p] > 0
  /\ release' = [release EXCEPT ![p] = @ + NFetchers(p)]
  /\ Then(th, <<>>)
  /\ UNCHANGED <<lock, entry, fetching, waiting, copy, data, in_ready, to_copy,
                 publishing, fetch, fetched, read>>

\* Nothing is attached to release_event: the data was copied.
DoDecrementRelease(th) ==
  LET p == Head(agenda[th]).index IN
  /\ IsNext(th, "decrement_release")
  /\ release[p] > 0
  /\ release' = [release EXCEPT ![p] = @ - 1]
  /\ Then(th, <<>>)
  /\ UNCHANGED <<lock, entry, fetching, waiting, copy, data, in_ready, to_copy,
                 publishing, fetch, fetched, read>>

DoAttachCopy(th) ==
  LET p == Head(agenda[th]).index IN
  /\ IsNext(th, "attach_copy")
  /\ IF p \in in_ready
       THEN Then(th, CopyAndRelease(p)) /\ UNCHANGED to_copy
       ELSE Then(th, <<>>) /\ to_copy' = to_copy \cup {p}
  /\ UNCHANGED <<lock, entry, fetching, waiting, release, copy, data, in_ready,
                 publishing, fetch, fetched, read>>

\* source_flow becomes ready with the copy; nobody waits for it.
DoCopy(th) ==
  LET p == Head(agenda[th]).index IN
  /\ IsNext(th, "copy")
  /\ copy' = [copy EXCEPT ![p] = data[p]]
  /\ Then(th, <<>>)
  /\ UNCHANGED <<lock, entry, fetching, waiting, release, data, in_ready, to_copy,
                 publishing, fetch, fetched, read>>

\* The only decrement of fetching_join_counter: it runs the waiting fetches.
DoDecrementFetching(th) ==
  LET p == Head(agenda[th]).index IN
  /\ IsNext(th, "decrement_fetching")
  /\ fetching[p] > 0
  /\ fetching' = [fetching EXCEPT ![p] = 0]
  /\ waiting' = [waiting EXCEPT ![p] = <<>>]
  /\ Then(th, [k \in DOMAIN waiting[p] |-> Deliver(waiting[p][k])])
  /\ UNCHANGED <<lock, entry, release, copy, data, in_ready, to_copy,
                 publishing, fetch, fetched, read>>

DoReleaseUse(th) ==
  /\ IsNext(th, "release_use")
  /\ publishing' = [publishing EXCEPT ![Head(agenda[th]).index] = "released"]
  /\ Then(th, <<>>)
  /\ UNCHANGED <<lock, entry, fetching, waiting, release, copy, data, in_ready, to_copy,
                 fetch, fetched, read>>

DoAttachFetch(th) ==
  LET q == Head(agenda[th]).fetch IN
  /\ IsNext(th, "attach_fetch")
  /\ IF fetching[q[2]] = 0
       THEN Then(th, <<Deliver(q)>>) /\ UNCHANGED waiting
       ELSE Then(th, <<>>) /\ waiting' = [waiting EXCEPT ![q[2]] = Append(@, q)]
  /\ UNCHANGED <<lock, entry, fetching, release, copy, data, in_ready, to_copy,
                 publishing, fetch, fetched, read>>

\* The in flow of the fetching use gets the data of the copy, and is ready.
DoDeliver(th) ==
  LET q == Head(agenda[th]).fetch IN
  /\ IsNext(th, "deliver")
  /\ fetched' = [fetched EXCEPT ![q] = copy[q[2]]]
  /\ Then(th, <<>>)
  /\ UNCHANGED <<lock, entry, fetching, waiting, release, copy, data, in_ready, to_copy,
                 publishing, fetch, read>>

\* The anti-out flow, which the use itself holds, is to decrement release_event.
DoLink(th) ==
  LET q == Head(agenda[th]).fetch IN
  /\ IsNext(th, "link")
  /\ lock = NoThread
  /\ q[2] \in entry
  /\ fetch' = [fetch EXCEPT ![q] = "registered"]
  /\ Then(th, <<>>)
  /\ UNCHANGED <<lock, entry, fetching, waiting, release, copy, data, in_ready, to_copy,
                 publishing, fetched, read>>

DoUnlock(th) ==
  /\ IsNext(th, "unlock")
  /\ lock' = NoThread
  /\ Then(th, <<>>)
  /\ UNCHANGED <<entry, fetching, waiting, release, copy, data, in_ready, to_copy,
                 publishing, fetch, fetched, read>>

Step(th) ==
  \/ DoAdvance(th) \/ DoDecrementRelease(th) \/ DoAttachCopy(th) \/ DoCopy(th)
  \/ DoDecrementFetching(th) \/ DoReleaseUse(th) \/ DoAttachFetch(th) \/ DoDeliver(th)
  \/ DoLink(th) \/ DoUnlock(th)

Next ==
  \/ \E p \in Publishers : Publish(p) \/ MakeInReady(p) \/ Overwrite(p)
  \/ \E q \in Fetches : Fetch(q) \/ Read(q) \/ Drop(q)
  \/ \E th \in Threads : Step(th)

\* Threads go on, and a fetching use is released in the end, by a task that reads
\* or without one.  Publishing, fetching and writing are up to the program.
Spec ==
  /\ Init /\ [][Next]_vars
  /\ \A th \in Threads : WF_vars(Step(th))
  /\ \A q \in Fetches : WF_vars(Read(q) \/ Drop(q))

-----------------------------------------------------------------------------
\* Whoever comes first, and whatever the next writer of the index does, a reader
\* sees the version that was published.
ReadsPublished == \A q \in Fetches : read[q] \in {"none", "published"}

\* The asserts of the join counters of an entry: release_event is not advanced or
\* decremented once it has triggered.
AssertsHold ==
  \A th \in Threads :
    agenda[th] # <<>> /\ Head(agenda[th]).do \in {"advance", "decrement_release"} =>
      release[Head(agenda[th]).index] > 0

\* The comment in publish_use ("so that the data isn't released until all of the
\* fetchers have read it"): release_event triggers when all have.
ReleasedAfterReads ==
  \A p \in entry :
    release[p] = 0 => \A q \in Fetches : q[2] = p => fetch[q] = "released"

\* When everybody has published and fetched what the others need, everybody gets
\* it and every count is given back, also where indices fetch from each other.
EveryFetchServed ==
  (/\ in_ready = Publishers
   /\ \A p \in Publishers : publishing[p] # "no"
   /\ \A q \in Fetches : fetch[q] # "no")
    ~> /\ \A q \in Fetches : fetched[q] # "none" /\ fetch[q] = "released"
       /\ \A p \in Publishers : publishing[p] = "released" /\ release[p] = 0
=============================================================================
