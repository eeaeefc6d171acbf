----------------------------- MODULE MCSupport -----------------------------
(***************************************************************************)
(* Instances for TLC of what the core of the backend stands on and in:     *)
(*                                                                         *)
(* main/main.cpp: the debug worker around a program that starts with       *)
(* parsing its arguments.  The arguments and what was parsed of them live  *)
(* until the top level task is set up; the number of workers makes no      *)
(* difference to the debug worker, in whose model any of them may step.    *)
(*                                                                         *)
(* The containers, and TryLock for the same threads, which try to lock     *)
(* when they have no calls to make.                                        *)
(*                                                                         *)
(* What these have to do with each other is that neither needs the rest of *)
(* the backend: a run is of one of the two, as `part` says.                *)
(***************************************************************************)
EXTENDS DebugWorker, Options

CONSTANTS u1, u2, k1,
          Threads, Nobody, NEvents, NQueues, NNodes, Scenarios,
          Lockables, Ranges, t1, t2, t3, l1, l2, l3

VARIABLES part,   \* "program" or "containers"
          argv, parsed,
          head, tail, next, value, mutex, nodes, queues, pointer, readers, writer,
          shared, destroyed, agenda,
          owner, range, depth, returns, result

argumentVars == <<argv, parsed>>
programRunVars == <<vars, argumentVars>>
containerVars == <<head, tail, next, value, nodes, pointer, queues, readers, writer, mutex, shared,
                   destroyed, agenda>>
lockVars == <<owner, range, depth, returns, result>>

C == INSTANCE Containers
\* The calls that scenarios are made of.
Make == INSTANCE Containers WITH Scenarios <- {}
L == INSTANCE TryLock

ASSUME ContainersAssumption == C!Assumptions

-----------------------------------------------------------------------------
(* A program and its arguments                                              *)

\* A use that a task captures, and one that none does.
MCUsesOf == k1 :> {u1}

\* Bounds: at most three arguments, or two after a flag and its value, and of those
\* that are neither flags nor separators, two.
Arguments == Flags \cup Separators \cup {"2", "3"}
MCArgVs ==
  UNION {[1..n -> Arguments] : n \in 0..3}
    \cup {<<flag, "2">> \o more : flag \in Flags, more \in [1..2 -> Arguments]}
\* Bound: before it runs, only a program with these arguments gets signals, one
\* that starts and one that aborts.
FewArgVs == {<<>>, <<"--ranks", "2", "3">>, <<"--ranks">>}

NotParsed == Start

ParseArguments ==
  /\ MainAt("initialize")
  /\ parsed' = ParseArgs(argv)
  /\ \/ ParseAborts(argv) /\ Abort
     \/ ~ParseAborts(argv) /\ Initialize
  /\ UNCHANGED argv

SetUpTopLevel ==
  /\ SetUp
  /\ argv' = <<>> /\ parsed' = NotParsed

\* The arguments, which nobody looks at before.
SpawnWithArguments ==
  /\ SpawnWorkLoop
  /\ argv' \in IF signals = 0 THEN MCArgVs ELSE FewArgVs
  /\ UNCHANGED parsed

MCMain ==
  \/ SpawnWithArguments
  \/ ParseArguments
  \/ SetUpTopLevel
  \/ (ShutDown \/ EnqueuePill \/ Join) /\ UNCHANGED argumentVars

ProgramNext ==
  /\ \/ MCMain
     \/ (Program \/ DebugStep) /\ UNCHANGED argumentVars
     \/ argv \in FewArgVs /\ Signals /\ UNCHANGED argumentVars
  /\ UNCHANGED <<containerVars, lockVars>>

\* What the loop of parse_args takes and leaves is what the arguments mean one
\* by one: flags count in front of a separator only, the last of them wins, a
\* value is never taken for a flag, and the rest keeps its order.  What is left
\* fits into the argv that initialize_runtime_arguments overwrites (its assert).
OptionsAsSpecified ==
  /\ main = "setup" => [options |-> parsed.options, rest |-> parsed.rest] = Meaning(argv)
  /\ main \in {"setup", "aborted"} => (main = "aborted" <=> LacksValue(argv))
  /\ main = "initialize" /\ ~LacksValue(argv) =>
       LET left == InitializeRuntimeArguments(argv) IN
       /\ Len(left.argv) <= Len(argv)
       /\ [options |-> left.default_options, rest |-> left.argv] = Meaning(argv)

-----------------------------------------------------------------------------
(* Threads with calls to make of queues and events, or with locks to try    *)

MCRanges == {<<>>, <<l1>>, <<l2, l3>>, <<l3, l1>>, <<l1, l2, l3>>}

Task(i) == <<"task", i>>
Message(i) == <<"message", i>>
Action(i) == <<"action", i>>
ChainTo(e) == <<"chain", e>>

Calls(c1, c2, c3) == t1 :> c1 @@ t2 :> c2 @@ t3 :> c3
NoCalls == Calls(<<>>, <<>>, <<>>)

\* A worker pops while another thread emplaces and a thief takes what it may;
\* threads attach while one makes the event ready, and drain it late; the
\* actions of two events attach to each other.
MCScenarios ==
  {NoCalls,
   Calls(Make!Emplace(Make!Ready, Task(1)) \o Make!Emplace(Make!Ready, Message(2)),
         Make!ConsumeOne(Make!Ready) \o Make!Emplace(Make!Ready, Task(3)) \o Make!ConsumeOne(Make!Ready),
         Make!PeakAndPopIf(Make!Ready) \o Make!PeakAndPopIf(Make!Ready)),
   Calls(Make!Attach(1, Action(1)) \o Make!Attach(1, Action(2)), Make!DoActions(1),
         Make!ConsumeOne(Make!Ready) \o Make!ConsumeOne(Make!Ready)),
   Calls(Make!Attach(1, Action(1)), Make!DoActions(1), Make!Attach(1, Action(2)) \o Make!DoActions(1)),
   Calls(Make!Attach(1, ChainTo(2)) \o Make!DoActions(1), Make!Attach(2, ChainTo(1)) \o Make!DoActions(2), <<>>)}

Locking == agenda = NoCalls /\ L!Next /\ UNCHANGED containerVars

ContainersNext ==
  /\ (C!Next /\ UNCHANGED lockVars) \/ Locking
  /\ UNCHANGED programRunVars

\* The assert of emplace, and the chain that it relies on: under the lock
\* tail_ is the last node of the queue, or nullptr with head_.
TailIsLast == C!TailIsLast

\* Whatever threads do to queues and pointers behaves as single steps on queues
\* that are first in, first out.
ImplementsFifos == C!ImplementsFifos

\* No two threads wait for each other under the locks of queues.
CallsReturn == C!CallsReturn

\* try_lock owns everything or nothing, whoever else locks and unlocks.
AllOrNothing == L!AllOrNothing

-----------------------------------------------------------------------------
(* One run for each                                                         *)

NoScenarios == {NoCalls}
NoRanges == {<<>>}

ProgramInit ==
  /\ Init /\ argv = <<>> /\ parsed = NotParsed
  /\ C!Init /\ shared /\ agenda = NoCalls
  /\ L!Init /\ \A th \in Threads : range[th] = <<>>

ContainersInit ==
  /\ Init /\ argv = <<>> /\ parsed = NotParsed
  /\ C!Init /\ L!Init
  /\ (agenda # NoCalls) => \A th \in Threads : range[th] = <<>>

ContainersSpec ==
  /\ ContainersInit /\ [][ContainersNext]_<<programRunVars, containerVars, lockVars>>
  /\ \A th \in Threads : WF_containerVars(C!Step(th))

SupportNext ==
  /\ \/ part = "program" /\ ProgramNext
     \/ part = "containers" /\ ContainersNext
  /\ UNCHANGED part

SupportSpec ==
  /\ part \in {"program", "containers"}
  /\ part = "program" => ProgramInit
  /\ part = "containers" => ContainersInit /\ (agenda = NoCalls => shared)
  /\ [][SupportNext]_<<part, programRunVars, containerVars, lockVars>>
  /\ WF_programRunVars(part = "program" /\ MCMain)
  /\ WF_programRunVars(part = "program" /\ DebugStep /\ UNCHANGED argumentVars)
  /\ SF_programRunVars((\E place \in Places : HandlerStep(place)) /\ UNCHANGED argumentVars)
  /\ \A th \in Threads : WF_containerVars(part = "containers" /\ C!Step(th))
=============================================================================
