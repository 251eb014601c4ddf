------------------------ MODULE ServiceLifecycle_proofs ------------------------
(***************************************************************************)
(* Proofs about ServiceLifecycle, for any places in the pool and every     *)
(* value of the bounds.                                                    *)
(***************************************************************************)
EXTENDS ServiceLifecycle, SequenceTheorems, TLAPS

USE FactoryAssumption, LifecycleAssumption

LEMMA WithoutType ==
  ASSUME NEW S, line \in Seq(S), NEW p
  PROVE  Without(p) \in Seq(S)
<1> DEFINE at == {i \in DOMAIN line : line[i] = p}
           i  == CHOOSE i \in at : TRUE
<1>1. CASE at = {}
  BY <1>1 DEF Without
<1>2. CASE at # {}
  <2>1. i \in 1 .. Len(line)
    BY <1>2
  <2> HIDE DEF i
  <2>2. SubSeq(line, 1, i - 1) \in Seq(S) /\ SubSeq(line, i + 1, Len(line)) \in Seq(S)
    BY <2>1, SubSeqProperties
  <2>3. SubSeq(line, 1, i - 1) \o SubSeq(line, i + 1, Len(line)) \in Seq(S)
    BY <2>2, ConcatProperties
  <2> QED
    BY <1>2, <2>3 DEF Without, i
<1> QED
  BY <1>1, <1>2

LEMMA WithoutHead ==
  ASSUME NEW S, line \in Seq(S), NEW p, line # <<>>, Head(line) = p,
         \A i, k \in DOMAIN line : line[i] = p /\ line[k] = p => i = k
  PROVE  Without(p) = Tail(line)
<1> DEFINE at == {i \in DOMAIN line : line[i] = p}
           i  == CHOOSE i \in at : TRUE
<1>1. 1 \in DOMAIN line /\ line[1] = p /\ Len(line) \in Nat /\ Len(line) >= 1
  OBVIOUS
<1>2. at = {1}
  BY <1>1
<1>3. i = 1
  BY <1>2
<1>4. Without(p) = SubSeq(line, 1, 0) \o SubSeq(line, 2, Len(line))
  <2>1. Without(p) = SubSeq(line, 1, i - 1) \o SubSeq(line, i + 1, Len(line))
    BY <1>2 DEF Without
  <2> QED
    BY <1>3, <2>1
<1>5. SubSeq(line, 1, 0) = <<>> /\ SubSeq(line, 2, Len(line)) = Tail(line)
  BY <1>1, SubSeqProperties, SubSeqEmpty
<1>6. Tail(line) \in Seq(S)
  OBVIOUS
<1> QED
  BY <1>4, <1>5, <1>6, ConcatEmptySeq

-------------------------------------------------------------------------------
(* Types                                                                   *)

LEMMA ItemTypes ==
  /\ NoneItem \in Item /\ EmptyList \in Item /\ Idle \in Call
  /\ \A v \in Versions : ListOf(v) \in Item
  /\ \A n \in 0 .. MaxCalls : ArgsOf(n) \in Item
  /\ \A n \in 0 .. MaxCalls, v \in Versions : CtxOf(n, v) \in Item
BY DEF Item, NoneItem, EmptyList, Idle, Call, ListOf, ArgsOf, CtxOf, Versions

LEMMA PutType ==
  ASSUME NEW S, out \in [Writers -> Seq(S)], NEW p \in Writers, NEW m \in S, Put(p, m)
  PROVE  out' \in [Writers -> Seq(S)]
BY DEF Put

LEMMA TakeType ==
  ASSUME NEW S, pipe \in Seq(S), NEW p \in {"server", "loader"}, Take(p)
  PROVE  /\ pipe' \in Seq(S) /\ Head(pipe) \in S
         /\ lock' = Nobody
BY DEF Take

LEMMA LineType ==
  ASSUME FactoryTypeOK, NEW p \in {"server", "loader"}
  PROVE  Append(line, p) \in Seq({"server", "loader"}) /\ Without(p) \in Seq({"server", "loader"})
BY WithoutType DEF FactoryTypeOK

LEMMA QueueTypes ==
  ASSUME FactoryTypeOK, QueueStep
  PROVE  FactoryTypeOK'
<1>1. ASSUME NEW p \in Writers, Flush(p)
      PROVE  FactoryTypeOK'
  BY <1>1 DEF FactoryTypeOK, Flush, loaderVars, serverVars, factoryBounds
<1>2. ASSUME NEW p \in {"server", "loader"}, Acquire(p)
      PROVE  FactoryTypeOK'
  BY <1>2, LineType DEF FactoryTypeOK, Acquire, loaderVars, serverVars, factoryBounds
<1> QED
  BY <1>1, <1>2 DEF QueueStep

LEMMA LoaderTypes ==
  ASSUME FactoryTypeOK, LoaderStep
  PROVE  FactoryTypeOK'
<1> USE DEF FactoryTypeOK, loaderVars, serverVars, factoryBounds, queueVars
<1>0. "loader" \in Writers
  BY DEF Writers
<1>1. CASE Load
  <2>1. out' \in [Writers -> Seq(Item)]
    BY <1>0, <1>1, ItemTypes, PutType DEF Load
  <2> QED
    BY <1>1, <2>1 DEF Load
<1>2. CASE LoadFails
  <2>1. out' \in [Writers -> Seq(Item)]
    BY <1>0, <1>2, ItemTypes, PutType DEF LoadFails
  <2> QED
    BY <1>2, <2>1 DEF LoadFails
<1>3. CASE LoaderAsks
  BY <1>3, LineType DEF LoaderAsks
<1>4. CASE LoaderToldToStop
  BY <1>4, TakeType DEF LoaderToldToStop
<1>5. CASE LoaderGetsArgs
  <2>0. Head(pipe) \in Item
    BY <1>5, TakeType DEF LoaderGetsArgs
  <2>1. Head(pipe).n \in 0 .. MaxCalls
    BY <2>0 DEF Item
  <2> QED
    BY <1>5, <2>1, TakeType DEF LoaderGetsArgs
<1>6. CASE LoaderGetsJunk
  <2>1. out' \in [Writers -> Seq(Item)]
    BY <1>0, <1>6, ItemTypes, PutType DEF LoaderGetsJunk
  <2> QED
    BY <1>6, <2>1, TakeType DEF LoaderGetsJunk
<1>7. CASE LoaderWorks
  <2>1. out' \in [Writers -> Seq(Item)]
    BY <1>0, <1>7, ItemTypes, PutType DEF LoaderWorks
  <2> QED
    BY <1>7, <2>1 DEF LoaderWorks
<1>8. CASE LoaderExits
  BY <1>8 DEF LoaderExits
<1>9. CASE LoaderDies
  <2>1. out' \in [Writers -> Seq(Item)]
    BY <1>0, <1>9 DEF LoaderDies
  <2>2. deaths' \in 0 .. MaxFaults
    BY <1>9 DEF LoaderDies
  <2> QED
    BY <1>9, <2>1, <2>2, LineType DEF LoaderDies
<1> QED
  BY <1>1, <1>2, <1>3, <1>4, <1>5, <1>6, <1>7, <1>8, <1>9 DEF LoaderStep

LEMMA DelegateTypes ==
  ASSUME FactoryTypeOK, DelegateStep
  PROVE  FactoryTypeOK'
<1> USE DEF FactoryTypeOK, loaderVars, serverVars, factoryBounds, queueVars
<1>1. CASE RestartLoader
  BY <1>1 DEF RestartLoader
<1>2. CASE GiveUp
  <2>1. out' \in [Writers -> Seq(Item)]
    BY <1>2, ItemTypes, PutType DEF GiveUp, Writers
  <2> QED
    BY <1>2, <2>1 DEF GiveUp
<1>3. CASE DelegateExits
  BY <1>3 DEF DelegateExits
<1>4. CASE TerminateDelegate
  BY <1>4, LineType DEF TerminateDelegate
<1> QED
  BY <1>1, <1>2, <1>3, <1>4 DEF DelegateStep

LEMMA AskTypes ==
  ASSUME FactoryTypeOK, AskFirstList \/ AskNewList \/ AskContext
  PROVE  FactoryTypeOK'
<1> USE DEF FactoryTypeOK, loaderVars, serverVars, factoryBounds, queueVars
<1>1. [kind |-> "list", n |-> 0, ver |-> disk] \in Call
  BY DEF Call
<1>2. CASE AskFirstList
  BY <1>1, <1>2, LineType DEF AskFirstList
<1>3. CASE AskNewList
  <2>1. out' \in [Writers -> Seq(Item)]
    BY <1>3, ItemTypes, PutType DEF AskNewList, Writers
  <2> QED
    BY <1>1, <1>3, <2>1, LineType DEF AskNewList
<1>4. CASE AskContext
  <2>1. calls' \in 0 .. MaxCalls
    BY <1>4 DEF AskContext
  <2>2. out' \in [Writers -> Seq(Item)]
    BY <1>4, <2>1, ItemTypes, PutType DEF AskContext, Writers
  <2>3. call' \in Call
    BY <1>4, <2>1 DEF AskContext, Call, Versions
  <2> QED
    BY <1>4, <2>1, <2>2, <2>3, LineType DEF AskContext
<1> QED
  BY <1>2, <1>3, <1>4

LEMMA AnswerTypes ==
  ASSUME FactoryTypeOK, TakeList \/ TakeContext \/ ServerDies \/ DiskChanges
  PROVE  FactoryTypeOK'
<1> USE DEF FactoryTypeOK, loaderVars, serverVars, factoryBounds, queueVars
<1>1. CASE TakeList
  BY <1>1, ItemTypes, TakeType DEF TakeList, ServerTakes
<1>2. CASE TakeContext
  BY <1>2, ItemTypes, TakeType DEF TakeContext, ServerTakes
<1>3. CASE ServerDies
  <2>1. out' \in [Writers -> Seq(Item)]
    BY <1>3 DEF ServerDies, Writers
  <2> QED
    BY <1>3, <2>1, ItemTypes, LineType DEF ServerDies
<1>4. CASE DiskChanges
  BY <1>4 DEF DiskChanges, Versions
<1> QED
  BY <1>1, <1>2, <1>3, <1>4

LEMMA ServerTypes ==
  ASSUME TypeOK, ServerStep
  PROVE  TypeOK'
<1> USE DEF TypeOK, poolVars
<1>1. CASE Boot
  BY <1>1, AskTypes DEF Boot
<1>2. CASE Initialized
  BY <1>2, AnswerTypes DEF Initialized
<1>3. CASE Ready \/ Signal
  BY <1>3 DEF Ready, Signal, factoryVars, FactoryTypeOK, loaderVars, serverVars, factoryBounds, queueVars
<1>4. CASE EarlySignal
  BY <1>4, AnswerTypes DEF EarlySignal
<1>5. CASE Terminate
  <2>1. FactoryTypeOK'
    BY <1>5 DEF Terminate, FactoryTypeOK, loaderVars, serverVars, factoryBounds, queueVars
  <2>2. hasty' \in BOOLEAN
    BY <1>5 DEF Terminate
  <2>3. pool' \in {"none", "forking", "running", "term", "joining", "gone"}
    BY <1>5 DEF Terminate
  <2> QED
    BY <1>5, <2>1, <2>2, <2>3 DEF Terminate
<1>6. CASE End \/ FirstCheck
  BY <1>6 DEF End, FirstCheck, factoryVars, FactoryTypeOK, loaderVars, serverVars, factoryBounds, queueVars
<1>7. CASE Contextualize
  BY <1>7, AskTypes DEF Contextualize, lifecycleVars
<1>8. CASE Contextualized
  BY <1>8, AnswerTypes DEF Contextualized, lifecycleVars
<1>9. CASE Reload
  BY <1>9, AskTypes DEF Reload, FactoryTypeOK
<1>10. CASE Reloaded
  <2>1. told' \in [Slots -> BOOLEAN]
    BY <1>10, Zenon DEF Reloaded
  <2> QED
    BY <1>10, <2>1, AnswerTypes DEF Reloaded
<1> QED
  BY <1>1, <1>2, <1>3, <1>4, <1>5, <1>6, <1>7, <1>8, <1>9, <1>10 DEF ServerStep

LEMMA PoolTypes ==
  ASSUME TypeOK, PoolStep
  PROVE  TypeOK'
<1> USE DEF TypeOK, poolVars
<1>1. UNCHANGED factoryVars => FactoryTypeOK'
  BY DEF factoryVars, FactoryTypeOK, loaderVars, serverVars, factoryBounds, queueVars
<1>2. CASE ForkWorkers
  BY <1>1, <1>2 DEF ForkWorkers
<1>3. CASE TerminateWorkers \/ JoinWorkers
  <2>1. worker' \in [Slots -> {"none", "starting", "up", "native", "exited", "failed"}]
    BY <1>3 DEF TerminateWorkers, JoinWorkers
  <2> QED
    BY <1>1, <1>3, <2>1 DEF TerminateWorkers, JoinWorkers
<1>4. ASSUME NEW s \in Slots, Maintain(s)
      PROVE  TypeOK'
  <2>1. FactoryTypeOK'
    BY <1>1, <1>4, AnswerTypes DEF Maintain
  <2> QED
    BY <1>4, <2>1 DEF Maintain
<1>5. ASSUME NEW s \in Slots,
             WorkerLoads(s) \/ WorkerRestarts(s) \/ WorkerRetires(s) \/ WorkerStops(s)
      PROVE  TypeOK'
  <2>1. 0 \in Versions /\ disk \in Versions
    BY DEF FactoryTypeOK, Versions
  <2> QED
    BY <1>1, <1>5, <2>1 DEF WorkerLoads, WorkerRestarts, WorkerRetires, WorkerStops, Ends
<1>6. ASSUME NEW s \in Slots, WorkerFails(s)
      PROVE  TypeOK'
  BY <1>1, <1>6 DEF WorkerFails, Ends, FactoryTypeOK, Versions
<1> QED
  BY <1>2, <1>3, <1>4, <1>5, <1>6 DEF PoolStep

LEMMA TypeInit == Init => TypeOK
<1> SUFFICES ASSUME Init
             PROVE  TypeOK
  OBVIOUS
<1>1. FactoryTypeOK
  <2>1. out \in [Writers -> Seq(Item)]
    BY DEF Init, FactoryInit
  <2>2. calls \in 0 .. MaxCalls /\ fails \in 0 .. MaxFaults /\ deaths \in 0 .. MaxFaults
    BY DEF Init, FactoryInit
  <2>3. lver \in Versions /\ task \in 0 .. MaxCalls /\ disk \in Versions
    BY DEF Init, FactoryInit, Versions
  <2>4. pipe \in Seq(Item) /\ line \in Seq({"server", "loader"})
    BY DEF Init, FactoryInit
  <2>5. call \in Call /\ published \in Item /\ context \in Item
    BY ItemTypes DEF Init, FactoryInit
  <2> QED
    BY <2>1, <2>2, <2>3, <2>4, <2>5 DEF Init, FactoryInit, FactoryTypeOK
<1>2. wver \in [Slots -> Versions] /\ seen \in Versions /\ failures \in 0 .. MaxFaults
  BY DEF Init, Versions
<1> QED
  BY <1>1, <1>2 DEF Init, TypeOK

LEMMA TypeStep == TypeOK /\ [Next]_vars => TypeOK'
<1> SUFFICES ASSUME TypeOK, [Next]_vars
             PROVE  TypeOK'
  OBVIOUS
<1>1. CASE Delegate
  BY <1>1, LoaderTypes, DelegateTypes, QueueTypes, AnswerTypes DEF Delegate, TypeOK, lifecycleVars, poolVars
<1>2. CASE ServerStep
  BY <1>2, ServerTypes
<1>3. CASE PoolStep
  BY <1>3, PoolTypes
<1>4. CASE UNCHANGED vars
  BY <1>4 DEF vars, lifecycleVars, poolVars, factoryVars, TypeOK, FactoryTypeOK,
              loaderVars, serverVars, factoryBounds, queueVars
<1> QED
  BY <1>1, <1>2, <1>3, <1>4 DEF Next

(* Every variable keeps its type (processfactory.py, runtime.py, pool.py). *)
THEOREM TypeCorrect == Spec => []TypeOK
BY TypeInit, TypeStep, PTL DEF Spec

-------------------------------------------------------------------------------
(* What the properties rest on                                             *)

Dated == {m \in Item : m.ver <= disk}

(* No version is newer than the disk, and the workers that are up are told *)
(* as soon as they are outdated.                                           *)
VersionInv ==
  /\ lver <= disk
  /\ published \in Dated
  /\ pipe \in Seq(Dated)
  /\ out \in [Writers -> Seq(Dated)]
  /\ main \in {"boot", "loading"} => \A s \in Slots : worker[s] = "none"
  /\ pool = "none" => \A s \in Slots : worker[s] = "none"
  /\ main \in {"boot", "loading"} => pool = "none"
  /\ \A s \in Slots : worker[s] = "up" /\ wver[s] < published.ver => told[s]

(* Who is alive after whom.                                                *)
EndInv ==
  /\ delegate = "none" => loader = "none"
  /\ delegate = "quit" => loader = "dead"
  /\ delegate = "gone" => ~LoaderAlive
  /\ pool \in {"term", "joining", "gone"} => main \notin {"boot", "loading", "starting", "ready", "closing"}
  /\ pool = "gone" /\ ~hasty => \A s \in Slots : ~WorkerAlive(s)
  /\ main = "ended" => delegate \in {"none", "gone"} /\ pool \in {"none", "gone"}

(* The queue, as long as nothing disturbs it: at most one item is on its   *)
(* way, and who waits for it is the next to take.                          *)
Silent == pipe = <<>> /\ \A p \in Writers : out[p] = <<>>

Only(p, m) ==
  \/ pipe = <<>> /\ out[p] = <<m>> /\ \A q \in Writers \ {p} : out[q] = <<>>
  \/ pipe = <<m>> /\ \A q \in Writers : out[q] = <<>>

Turn(p, rest) ==
  \/ lock = p /\ line = rest
  \/ lock = Nobody /\ line = <<p>> \o rest

Quiet ==
  /\ Silent
  /\ \/ loader = "loop" /\ lock = Nobody /\ line = <<>>
     \/ loader = "get" /\ Turn("loader", <<>>)

ToLoader(m) == Only("server", m) /\ loader = "get" /\ Turn("loader", <<"server">>)

AtLoader(S) == Silent /\ loader \in S /\ Turn("server", <<>>)

ToServer(m) ==
  /\ Only("loader", m)
  /\ \/ loader = "loop" /\ Turn("server", <<>>)
     \/ loader = "get" /\ Turn("server", <<"loader">>)

Serving == published = ListOf(lver)

ListPhase ==
  /\ call.kind = "list"
  /\ \/ ToLoader(NoneItem) /\ call.ver <= disk
     \/ AtLoader({"exit", "done", "load"}) /\ call.ver <= disk
     \/ ToServer(ListOf(lver)) /\ call.ver <= lver

ContextPhase ==
  /\ call.kind = "ctx"
  /\ Serving
  /\ \/ ToLoader(ArgsOf(call.n))
     \/ AtLoader({"work"}) /\ task = call.n
     \/ ToServer(CtxOf(call.n, lver))
     \/ ToServer(EmptyList)

IdlePhase == call = Idle /\ Serving /\ Quiet

Flow == delegate = "watch" /\ (IdlePhase \/ ListPhase \/ ContextPhase)

Phase ==
  /\ context # EmptyList => context.ver = published.ver
  /\ main = "boot" => /\ Silent /\ call = Idle /\ delegate = "none"
                      /\ lock = Nobody /\ line = <<>>
  /\ main \in {"loading", "starting", "ready"} => Flow
  /\ main \notin {"boot", "loading", "starting", "ready"} => call = Idle

PhaseInv == Undisturbed => Phase

-------------------------------------------------------------------------------
(* Versions                                                                *)

LEMMA DatedItems ==
  ASSUME TypeOK, VersionInv
  PROVE  /\ NoneItem \in Dated /\ EmptyList \in Dated
         /\ ListOf(disk) \in Dated
         /\ \A n \in 0 .. MaxCalls : ArgsOf(n) \in Dated
         /\ \A n \in 0 .. MaxCalls : CtxOf(n, lver) \in Dated
<1>1. disk \in Versions /\ lver \in Versions /\ lver <= disk
  BY DEF TypeOK, FactoryTypeOK, VersionInv
<1> QED
  BY <1>1, ItemTypes DEF Dated, NoneItem, EmptyList, ListOf, ArgsOf, CtxOf, Versions

(* What a step of the factory keeps of the versions.                       *)
Fresh ==
  /\ lver <= disk
  /\ published \in Dated
  /\ pipe \in Seq(Dated)
  /\ out \in [Writers -> Seq(Dated)]

LEMMA FreshSame ==
  ASSUME VersionInv, UNCHANGED <<lver, disk, published, pipe, out>>
  PROVE  Fresh'
BY DEF Fresh, Dated, VersionInv

LEMMA FreshLoader ==
  ASSUME TypeOK, VersionInv, LoaderStep
  PROVE  Fresh' /\ published' = published
<1> USE DatedItems DEF loaderVars, serverVars, factoryBounds, queueVars
<1>0. "loader" \in Writers
  BY DEF Writers
<1>1. disk' = disk /\ published' = published
  BY DEF LoaderStep, Load, LoadFails, LoaderAsks, LoaderToldToStop, LoaderGetsArgs,
         LoaderGetsJunk, LoaderWorks, LoaderExits, LoaderDies
<1>2. Dated' = Dated
  BY <1>1 DEF Dated
<1>3. out \in [Writers -> Seq(Dated)] /\ pipe \in Seq(Dated) /\ published \in Dated /\ lver <= disk
  BY DEF VersionInv
<1>4. CASE Load
  <2>1. out' \in [Writers -> Seq(Dated)]
    BY <1>0, <1>3, <1>4, PutType DEF Load
  <2>2. lver' <= disk'
    BY <1>1, <1>4 DEF Load, TypeOK, FactoryTypeOK, Versions
  <2> QED
    BY <1>1, <1>2, <1>3, <1>4, <2>1, <2>2 DEF Fresh, Load
<1>5. CASE LoadFails
  <2>1. out' \in [Writers -> Seq(Dated)]
    BY <1>0, <1>3, <1>5, PutType DEF LoadFails
  <2> QED
    BY <1>1, <1>2, <1>3, <1>5, <2>1 DEF Fresh, LoadFails
<1>6. CASE LoaderAsks \/ LoaderExits
  BY <1>1, <1>2, <1>3, <1>6 DEF Fresh, LoaderAsks, LoaderExits
<1>7. CASE LoaderToldToStop \/ LoaderGetsArgs
  BY <1>1, <1>2, <1>3, <1>7, TakeType DEF Fresh, LoaderToldToStop, LoaderGetsArgs
<1>8. CASE LoaderGetsJunk
  <2>1. out' \in [Writers -> Seq(Dated)]
    BY <1>0, <1>3, <1>8, PutType DEF LoaderGetsJunk
  <2> QED
    BY <1>1, <1>2, <1>3, <1>8, <2>1, TakeType DEF Fresh, LoaderGetsJunk
<1>9. CASE LoaderWorks
  <2>1. task \in 0 .. MaxCalls
    BY DEF TypeOK, FactoryTypeOK
  <2>2. out' \in [Writers -> Seq(Dated)]
    BY <1>0, <1>3, <1>9, <2>1, PutType DEF LoaderWorks
  <2> QED
    BY <1>1, <1>2, <1>3, <1>9, <2>2 DEF Fresh, LoaderWorks
<1>10. CASE LoaderDies
  <2>1. out' \in [Writers -> Seq(Dated)]
    BY <1>0, <1>3, <1>10 DEF LoaderDies
  <2> QED
    BY <1>1, <1>2, <1>3, <1>10, <2>1 DEF Fresh, LoaderDies
<1> QED
  BY <1>1, <1>4, <1>5, <1>6, <1>7, <1>8, <1>9, <1>10 DEF LoaderStep

LEMMA FreshOthers ==
  ASSUME TypeOK, VersionInv, DelegateStep \/ QueueStep \/ DiskChanges
  PROVE  Fresh' /\ published' = published
<1> USE DatedItems DEF loaderVars, serverVars, factoryBounds, queueVars
<1>1. out \in [Writers -> Seq(Dated)] /\ pipe \in Seq(Dated) /\ published \in Dated /\ lver <= disk
  BY DEF VersionInv
<1>2. CASE RestartLoader \/ DelegateExits \/ TerminateDelegate
  BY <1>2, FreshSame DEF RestartLoader, DelegateExits, TerminateDelegate
<1>3. CASE GiveUp
  <2>1. out' \in [Writers -> Seq(Dated)]
    BY <1>1, <1>3, PutType DEF GiveUp, Writers
  <2>2. Dated' = Dated
    BY <1>3 DEF Dated, GiveUp
  <2> QED
    BY <1>1, <1>3, <2>1, <2>2 DEF Fresh, GiveUp
<1>4. ASSUME NEW p \in Writers, Flush(p)
      PROVE  Fresh' /\ published' = published
  <2>1. out' \in [Writers -> Seq(Dated)] /\ pipe' \in Seq(Dated)
    BY <1>1, <1>4 DEF Flush
  <2>2. Dated' = Dated
    BY <1>4 DEF Dated, Flush
  <2> QED
    BY <1>1, <1>4, <2>1, <2>2 DEF Fresh, Flush
<1>5. ASSUME NEW p \in {"server", "loader"}, Acquire(p)
      PROVE  Fresh' /\ published' = published
  BY <1>5, FreshSame DEF Acquire
<1>6. CASE DiskChanges
  <2>1. disk' = disk + 1 /\ disk \in Nat /\ lver \in Nat /\ \A m \in Item : m.ver \in Nat
    BY <1>6 DEF DiskChanges, TypeOK, FactoryTypeOK, Versions, Item
  <2>2. Dated \subseteq Dated'
    BY <2>1 DEF Dated
  <2>3. Seq(Dated) \subseteq Seq(Dated')
    BY <2>2
  <2>4. pipe' \in Seq(Dated') /\ out' \in [Writers -> Seq(Dated')]
    BY <1>1, <1>6, <2>3 DEF DiskChanges
  <2> QED
    BY <1>1, <1>6, <2>1, <2>2, <2>4 DEF DiskChanges, Fresh
<1> QED
  BY <1>2, <1>3, <1>4, <1>5, <1>6 DEF DelegateStep, QueueStep

LEMMA FreshServer ==
  ASSUME TypeOK, VersionInv,
         AskFirstList \/ AskNewList \/ AskContext \/ TakeList \/ TakeContext \/ ServerDies
  PROVE  Fresh' /\ (~TakeList => published' = published)
<1> USE DatedItems DEF loaderVars, serverVars, factoryBounds, queueVars
<1>1. out \in [Writers -> Seq(Dated)] /\ pipe \in Seq(Dated) /\ published \in Dated /\ lver <= disk
  BY DEF VersionInv
<1>2. CASE AskFirstList
  BY <1>2, FreshSame DEF AskFirstList
<1>3. CASE AskNewList
  <2>1. out' \in [Writers -> Seq(Dated)]
    BY <1>1, <1>3, PutType DEF AskNewList, Writers
  <2>2. Dated' = Dated
    BY <1>3 DEF Dated, AskNewList
  <2> QED
    BY <1>1, <1>3, <2>1, <2>2 DEF Fresh, AskNewList
<1>4. CASE AskContext
  <2>1. ArgsOf(calls') \in Dated
    BY <1>4 DEF AskContext, TypeOK, FactoryTypeOK
  <2>2. out' \in [Writers -> Seq(Dated)]
    BY <1>1, <1>4, <2>1, PutType DEF AskContext, Writers
  <2>3. Dated' = Dated
    BY <1>4 DEF Dated, AskContext
  <2> QED
    BY <1>1, <1>4, <2>2, <2>3 DEF Fresh, AskContext
<1>5. CASE TakeList
  <2>1. Dated' = Dated
    BY <1>5 DEF Dated, TakeList, ServerTakes
  <2> QED
    BY <1>1, <1>5, <2>1, TakeType DEF Fresh, TakeList, ServerTakes
<1>6. CASE TakeContext
  <2>1. Dated' = Dated
    BY <1>6 DEF Dated, TakeContext, ServerTakes
  <2> QED
    BY <1>1, <1>6, <2>1, TakeType DEF Fresh, TakeContext, ServerTakes
<1>7. CASE ServerDies
  <2>1. Dated' = Dated
    BY <1>7 DEF Dated, ServerDies
  <2>2. out' \in [Writers -> Seq(Dated)]
    BY <1>1, <1>7 DEF ServerDies, Writers
  <2> QED
    BY <1>1, <1>7, <2>1, <2>2 DEF Fresh, ServerDies
<1> QED
  BY <1>2, <1>3, <1>4, <1>5, <1>6, <1>7

LEMMA VersionInit == Init => VersionInv
<1> SUFFICES ASSUME Init
             PROVE  VersionInv
  OBVIOUS
<1>1. published \in Dated
  BY ItemTypes DEF Init, FactoryInit, Dated, EmptyList
<1>2. pipe \in Seq(Dated) /\ out \in [Writers -> Seq(Dated)]
  BY DEF Init, FactoryInit
<1> QED
  BY <1>1, <1>2 DEF Init, FactoryInit, VersionInv, EmptyList

LEMMA VersionStep ==
  ASSUME TypeOK, VersionInv, Next
  PROVE  VersionInv'
<1>0. Fresh
  BY DEF VersionInv, Fresh
<1>1. CASE Delegate
  BY <1>1, FreshLoader, FreshOthers DEF Delegate, Fresh, VersionInv, lifecycleVars, poolVars
<1>2. UNCHANGED factoryVars => Fresh' /\ published' = published
  BY FreshSame DEF factoryVars, queueVars, loaderVars, serverVars
<1>3. CASE Boot
  <2>1. Fresh' /\ published' = published
    BY <1>3, FreshServer DEF Boot, AskFirstList, serverVars
  <2> QED
    BY <1>3, <2>1 DEF Boot, VersionInv, Fresh, poolVars
<1>4. CASE Initialized
  <2>1. Fresh'
    BY <1>4, FreshServer DEF Initialized
  <2>2. \A s \in Slots : worker'[s] = "none"
    BY <1>4 DEF Initialized, VersionInv
  <2>3. main' \notin {"boot", "loading"}
    BY <1>4 DEF Initialized
  <2> QED
    BY <1>4, <2>1, <2>2, <2>3 DEF VersionInv, Fresh
<1>5. CASE Ready \/ Signal \/ End \/ FirstCheck
  BY <1>2, <1>5 DEF Ready, Signal, End, FirstCheck, VersionInv, Fresh, poolVars
<1>6. CASE EarlySignal
  <2>1. Fresh' /\ published' = published
    BY <1>6, FreshServer DEF EarlySignal, ServerDies
  <2> QED
    BY <1>6, <2>1 DEF EarlySignal, VersionInv, Fresh, poolVars
<1>7. CASE Terminate
  <2>1. Fresh' /\ published' = published
    BY <1>7, FreshSame DEF Terminate, queueVars, loaderVars, serverVars
  <2>2. pool' = "none" => pool = "none"
    BY <1>7 DEF Terminate
  <2> QED
    BY <1>7, <2>1, <2>2 DEF Terminate, VersionInv, Fresh
<1>8. CASE Contextualize \/ Contextualized
  <2>1. Fresh' /\ published' = published
    BY <1>8, FreshServer DEF Contextualize, Contextualized, AskContext, TakeContext
  <2> QED
    BY <1>8, <2>1 DEF Contextualize, Contextualized, VersionInv, Fresh, lifecycleVars, poolVars
<1>9. CASE Reload
  <2>1. Fresh' /\ published' = published
    BY <1>9, FreshServer DEF Reload, AskNewList
  <2> QED
    BY <1>9, <2>1 DEF Reload, VersionInv, Fresh, poolVars
<1>10. CASE Reloaded
  <2>1. Fresh'
    BY <1>10, FreshServer DEF Reloaded
  <2>2. CASE Head(pipe) = NoneItem
    BY <1>10, <2>1, <2>2 DEF Reloaded, VersionInv, Fresh, TakeList, NoneItem
  <2>3. CASE Head(pipe) # NoneItem
    <3>1. \A s \in Slots : worker[s] = "up" => told'[s]
      BY <1>10, <2>3 DEF Reloaded
    <3> QED
      BY <1>10, <2>1, <3>1 DEF Reloaded, VersionInv, Fresh
  <2> QED
    BY <2>2, <2>3
<1>11. CASE ForkWorkers
  <2>1. \A s \in Slots : worker'[s] = "up" => worker[s] = "up"
    BY <1>11 DEF ForkWorkers, TypeOK
  <2>2. pool' # "none" /\ pool # "none"
    BY <1>11 DEF ForkWorkers
  <2> QED
    BY <1>2, <1>11, <2>1, <2>2 DEF ForkWorkers, VersionInv, Fresh
<1>12. CASE TerminateWorkers \/ JoinWorkers
  <2>1. \A s \in Slots : worker'[s] = "up" => worker[s] = "up"
    BY <1>12 DEF TerminateWorkers, JoinWorkers
  <2>2. pool' # "none" /\ pool # "none"
    BY <1>12 DEF TerminateWorkers, JoinWorkers
  <2> QED
    BY <1>2, <1>12, <2>1, <2>2 DEF TerminateWorkers, JoinWorkers, VersionInv, Fresh
<1>13. ASSUME NEW s \in Slots, Maintain(s)
       PROVE  VersionInv'
  <2>1. Fresh' /\ published' = published
    BY <1>2, <1>13, FreshServer DEF Maintain, ServerDies
  <2>2. \A r \in Slots : worker'[r] = "up" => worker[r] = "up" /\ told'[r] = told[r]
    BY <1>13 DEF Maintain, TypeOK
  <2>3. main' \notin {"boot", "loading"} /\ pool' # "none"
    BY <1>13 DEF Maintain, VersionInv
  <2> QED
    BY <1>13, <2>1, <2>2, <2>3 DEF Maintain, VersionInv, Fresh
<1>14. ASSUME NEW s \in Slots, WorkerLoads(s)
       PROVE  VersionInv'
  <2>1. Fresh' /\ published' = published
    BY <1>2, <1>14 DEF WorkerLoads
  <2>2. ~(wver'[s] < published'.ver)
    BY <1>0, <1>14, <2>1 DEF WorkerLoads, TypeOK, FactoryTypeOK, Fresh, Dated, Item, Versions
  <2>3. \A r \in Slots \ {s} : worker'[r] = worker[r] /\ wver'[r] = wver[r]
    BY <1>14 DEF WorkerLoads, TypeOK
  <2>4. main' \notin {"boot", "loading"} /\ pool' # "none"
    BY <1>14 DEF WorkerLoads, VersionInv
  <2> QED
    BY <1>14, <2>1, <2>2, <2>3, <2>4 DEF WorkerLoads, VersionInv, Fresh
<1>15. ASSUME NEW s \in Slots,
              WorkerRestarts(s) \/ WorkerRetires(s) \/ WorkerStops(s) \/ WorkerFails(s)
       PROVE  VersionInv'
  <2>1. Fresh' /\ published' = published
    BY <1>2, <1>15 DEF WorkerRestarts, WorkerRetires, WorkerStops, WorkerFails
  <2>2. \A r \in Slots : worker'[r] = "up" => worker[r] = "up" /\ wver'[r] = wver[r] /\ told'[r] = told[r]
    BY <1>15 DEF WorkerRestarts, WorkerRetires, WorkerStops, WorkerFails, Ends, TypeOK
  <2>3. main' \notin {"boot", "loading"} /\ pool' # "none"
    BY <1>15 DEF WorkerRestarts, WorkerRetires, WorkerStops, WorkerFails, WorkerAlive, VersionInv
  <2> QED
    BY <2>1, <2>2, <2>3 DEF VersionInv, Fresh
<1> QED
  BY <1>1, <1>3, <1>4, <1>5, <1>6, <1>7, <1>8, <1>9, <1>10, <1>11, <1>12, <1>13, <1>14, <1>15
     DEF Next, ServerStep, PoolStep

-------------------------------------------------------------------------------
(* The end                                                                 *)

LEMMA EndFactory ==
  ASSUME EndInv, LoaderStep \/ DelegateStep \/ QueueStep \/ DiskChanges,
         ServerAlive, UNCHANGED lifecycleVars
  PROVE  EndInv'
<1> USE DEF EndInv, lifecycleVars, poolVars, ServerAlive, LoaderAlive, WorkerAlive, loaderVars
<1>1. CASE LoaderStep
  <2>1. delegate' = delegate /\ LoaderAlive
    BY <1>1 DEF LoaderStep, Load, LoadFails, LoaderAsks, LoaderToldToStop, LoaderGetsArgs,
                LoaderGetsJunk, LoaderWorks, LoaderExits, LoaderDies
  <2> QED
    BY <2>1
<1>2. CASE DelegateStep
  BY <1>2 DEF DelegateStep, RestartLoader, GiveUp, DelegateExits, TerminateDelegate
<1>3. CASE QueueStep \/ DiskChanges
  BY <1>3 DEF QueueStep, Flush, Acquire, DiskChanges
<1> QED
  BY <1>1, <1>2, <1>3

LEMMA EndServer ==
  ASSUME TypeOK, VersionInv, EndInv, ServerAlive, ServerStep
  PROVE  EndInv'
<1> USE DEF EndInv, poolVars, ServerAlive, LoaderAlive, WorkerAlive, loaderVars
<1>1. CASE Boot
  BY <1>1 DEF Boot, AskFirstList, VersionInv
<1>2. CASE Initialized
  BY <1>2 DEF Initialized, TakeList, ServerTakes, VersionInv
<1>3. CASE Ready \/ Signal \/ FirstCheck
  BY <1>3 DEF Ready, Signal, FirstCheck, factoryVars
<1>4. CASE EarlySignal
  BY <1>4 DEF EarlySignal, ServerDies
<1>5. CASE Terminate
  BY <1>5 DEF Terminate
<1>6. CASE End
  BY <1>6 DEF End, factoryVars
<1>7. CASE Contextualize \/ Contextualized \/ Reload
  BY <1>7 DEF Contextualize, Contextualized, Reload, lifecycleVars, AskContext, TakeContext,
              ServerTakes, AskNewList
<1>8. CASE Reloaded
  BY <1>8 DEF Reloaded, TakeList, ServerTakes
<1> QED
  BY <1>1, <1>2, <1>3, <1>4, <1>5, <1>6, <1>7, <1>8 DEF ServerStep

LEMMA EndPool ==
  ASSUME TypeOK, VersionInv, EndInv, ServerAlive, PoolStep
  PROVE  EndInv'
<1> USE DEF EndInv, ServerAlive, LoaderAlive, WorkerAlive, loaderVars
<1>1. CASE ForkWorkers
  BY <1>1 DEF ForkWorkers, factoryVars
<1>2. CASE TerminateWorkers
  BY <1>2 DEF TerminateWorkers, factoryVars
<1>3. CASE JoinWorkers
  BY <1>3 DEF JoinWorkers, factoryVars
<1>4. ASSUME NEW s \in Slots, Maintain(s)
      PROVE  EndInv'
  BY <1>4 DEF Maintain, ServerDies, factoryVars
<1>5. ASSUME NEW s \in Slots,
             \/ WorkerLoads(s) \/ WorkerRestarts(s) \/ WorkerRetires(s)
             \/ WorkerStops(s) \/ WorkerFails(s)
      PROVE  EndInv'
  <2>1. UNCHANGED <<delegate, loader, pool, main, hasty>> /\ WorkerAlive(s)
    BY <1>5 DEF WorkerLoads, WorkerRestarts, WorkerRetires, WorkerStops, WorkerFails, WorkerAlive, factoryVars
  <2> QED
    BY <2>1
<1> QED
  BY <1>1, <1>2, <1>3, <1>4, <1>5 DEF PoolStep

LEMMA EndStep ==
  ASSUME TypeOK, VersionInv, EndInv, Next
  PROVE  EndInv'
BY EndFactory, EndServer, EndPool DEF Next, Delegate

LEMMA EndInit == Init => EndInv
BY DEF Init, FactoryInit, EndInv, LoaderAlive

LEMMA EndLeft ==
  ASSUME TypeOK, VersionInv, EndInv
  PROVE  NothingLeftBehind
BY DEF EndInv, VersionInv, NothingLeftBehind, LoaderAlive, WorkerAlive

LEMMA InvStutter ==
  ASSUME UNCHANGED vars
  PROVE  (VersionInv => VersionInv') /\ (EndInv => EndInv') 
<1> USE DEF vars, factoryVars, lifecycleVars, poolVars, queueVars, loaderVars, serverVars
<1>1. VersionInv => VersionInv'
  BY DEF VersionInv, Dated
<1>2. EndInv => EndInv'
  BY DEF EndInv, LoaderAlive, WorkerAlive
<1> QED
  BY <1>1, <1>2

LEMMA InvCorrect == Spec => [](TypeOK /\ VersionInv /\ EndInv)
<1>1. Init => TypeOK /\ VersionInv /\ EndInv
  BY TypeInit, VersionInit, EndInit
<1>2. (TypeOK /\ VersionInv /\ EndInv) /\ [Next]_vars => (TypeOK /\ VersionInv /\ EndInv)'
  BY TypeStep, VersionStep, EndStep, InvStutter
<1> QED
  BY <1>1, <1>2, PTL DEF Spec

(* A worker that is up and older than the published providers has been     *)
(* told to restart, whatever fails, dies or overtakes (processfactory.py:  *)
(* 260-264, worker.py:103-112).                                            *)
THEOREM StaleCorrect == Spec => []StaleWorkersAreTold
<1>1. VersionInv => StaleWorkersAreTold
  BY DEF VersionInv, StaleWorkersAreTold
<1> QED
  BY <1>1, InvCorrect, PTL

(* A service that ended left no process behind, but workers of a pool      *)
(* process killed while it forked them (runtime.py:253-257).               *)
THEOREM LeftCorrect == Spec => []NothingLeftBehind
<1>1. TypeOK /\ VersionInv /\ EndInv => NothingLeftBehind
  BY EndLeft
<1> QED
  BY <1>1, InvCorrect, PTL

-------------------------------------------------------------------------------
(* The queue                                                               *)

LEMMA OneItem ==
  ASSUME NEW S, NEW x \in S
  PROVE  /\ <<x>> \in Seq(S) /\ <<x>> # <<>>
         /\ Append(<<>>, x) = <<x>> /\ Head(<<x>>) = x /\ Tail(<<x>>) = <<>>
OBVIOUS

LEMMA TwoItems ==
  ASSUME NEW S, NEW x \in S, NEW y \in S
  PROVE  /\ <<x>> \o <<y>> = <<x, y>> /\ Append(<<x>>, y) = <<x, y>>
         /\ Head(<<x, y>>) = x /\ Tail(<<x, y>>) = <<y>> /\ <<x, y>> # <<>>
         /\ <<x>> \o <<>> = <<x>> /\ <<x, y>> \in Seq(S)
<1> DEFINE s == <<x>>  t == <<y>>  u == <<x, y>>
<1>1. /\ s \in Seq(S) /\ Len(s) = 1 /\ s[1] = x
      /\ t \in Seq(S) /\ Len(t) = 1 /\ t[1] = y
      /\ u \in Seq(S) /\ Len(u) = 2 /\ u[1] = x /\ u[2] = y
  OBVIOUS
<1> HIDE DEF s, t, u
<1>2. s \o t = u
  <2>1. s \o t \in Seq(S) /\ Len(s \o t) = 2
    <3>1. s \o t \in Seq(S) /\ Len(s \o t) = Len(s) + Len(t)
      BY <1>1, ConcatProperties
    <3> QED
      BY <1>1, <3>1
  <2>2. 1 \in 1 .. Len(s) + Len(t) /\ 2 \in 1 .. Len(s) + Len(t)
    BY <1>1
  <2>3. (s \o t)[1] = IF 1 <= Len(s) THEN s[1] ELSE t[1 - Len(s)]
    BY <1>1, <2>2, ConcatProperties, Zenon
  <2>4. (s \o t)[2] = IF 2 <= Len(s) THEN s[2] ELSE t[2 - Len(s)]
    BY <1>1, <2>2, ConcatProperties, Zenon
  <2>5. (s \o t)[1] = x /\ (s \o t)[2] = y
    BY <1>1, <2>3, <2>4
  <2> DEFINE w == s \o t
  <2> HIDE DEF w
  <2>6. w \in Seq(S) /\ Len(w) = 2 /\ w[1] = x /\ w[2] = y
    BY <2>1, <2>5 DEF w
  <2>7. w = u
    BY <1>1, <2>6, SeqEqual
  <2> QED
    BY <2>7 DEF w
<1>3. Append(s, y) = u
  <2>1. Append(s, y) = s \o <<y>>
    BY <1>1, AppendIsConcat, Zenon
  <2> QED
    BY <1>2, <2>1, Zenon DEF t
<1>4. /\ Head(<<x, y>>) = x /\ Tail(<<x, y>>) = <<y>> /\ <<x, y>> # <<>>
      /\ <<x>> \o <<>> = <<x>>
  OBVIOUS
<1> QED
  BY <1>1, <1>2, <1>3, <1>4 DEF s, t, u

LEMMA Lines ==
  ASSUME NEW p \in {"server", "loader"}, NEW q \in {"server", "loader"}
  PROVE  /\ <<p>> \o <<q>> = <<p, q>> /\ Append(<<p>>, q) = <<p, q>>
         /\ <<p>> \o <<>> = <<p>> /\ Append(<<>>, q) = <<q>>
<1> DEFINE S == {"server", "loader"}
<1>0. p \in S /\ q \in S
  OBVIOUS
<1> HIDE DEF S
<1>1. <<p>> \o <<q>> = <<p, q>> /\ Append(<<p>>, q) = <<p, q>> /\ <<p>> \o <<>> = <<p>>
  <2>1. <<p>> \o <<q>> = <<p, q>>
    BY <1>0, TwoItems, Zenon
  <2>2. Append(<<p>>, q) = <<p, q>>
    BY <1>0, TwoItems, Zenon
  <2>3. <<p>> \o <<>> = <<p>>
    OBVIOUS
  <2> QED
    BY <2>1, <2>2, <2>3
<1>2. Append(<<>>, q) = <<q>>
  OBVIOUS
<1> QED
  BY <1>1, <1>2

Rests(p) == {<<>>} \cup {<<q>> : q \in {"server", "loader"} \ {p}}

LEMMA TurnAcquire ==
  ASSUME NEW p \in {"server", "loader"}, NEW rest \in Rests(p), Turn(p, rest),
         NEW q \in {"server", "loader"}, Acquire(q), ~raced'
  PROVE  Turn(p, rest)'
<1>1. lock = Nobody /\ line = <<p>> \o rest
  BY DEF Turn, Acquire
<1>2. Head(line) = p /\ line # <<>> /\ Tail(line) = rest /\ line \in Seq({"server", "loader"})
  <2>1. CASE rest = <<>>
    BY <1>1, <2>1, OneItem, TwoItems
  <2>2. ASSUME NEW r \in {"server", "loader"} \ {p}, rest = <<r>>
        PROVE  Head(line) = p /\ line # <<>> /\ Tail(line) = rest /\ line \in Seq({"server", "loader"})
    <3>1. line = <<p, r>>
      BY <1>1, <2>2, Lines, Zenon
    <3> QED
      BY <2>2, <3>1
  <2> QED
    BY <2>1, <2>2 DEF Rests
<1>3. q = p
  BY <1>2 DEF Acquire
<1>4. \A i, k \in DOMAIN line : line[i] = p /\ line[k] = p => i = k
  <2>1. CASE rest = <<>>
    <3>1. line = <<p>>
      BY <1>1, <2>1, TwoItems
    <3> QED
      BY <3>1
  <2>2. ASSUME NEW r \in {"server", "loader"} \ {p}, rest = <<r>>
        PROVE  \A i, k \in DOMAIN line : line[i] = p /\ line[k] = p => i = k
    <3>1. line = <<p, r>>
      BY <1>1, <2>2, Lines, Zenon
    <3> QED
      BY <3>1
  <2> QED
    BY <2>1, <2>2 DEF Rests
<1>5. Without(p) = rest
  BY <1>2, <1>4, WithoutHead
<1> QED
  BY <1>3, <1>5 DEF Turn, Acquire

LEMMA TurnJoined ==
  ASSUME NEW p \in {"server", "loader"}, NEW q \in {"server", "loader"}, p # q, Turn(p, <<>>),
         line' = Append(line, q), lock' = lock
  PROVE  Turn(p, <<q>>)'
<1>1. CASE lock = p /\ line = <<>>
  BY <1>1, Lines, Zenon DEF Turn
<1>2. CASE lock = Nobody /\ line = <<p>> \o <<>>
  <2>1. line = <<p>>
    BY <1>2, Lines, Zenon
  <2>2. line' = <<p>> \o <<q>>
    BY <2>1, Lines, Zenon
  <2> QED
    BY <1>2, <2>2, Zenon DEF Turn
<1> QED
  BY <1>1, <1>2, Zenon DEF Turn

LEMMA TurnTaken ==
  ASSUME NEW p \in {"server", "loader"}, NEW q \in {"server", "loader"}, Turn(p, <<q>>),
         Take(p), line' = line
  PROVE  Turn(q, <<>>)'
<1>1. lock' = Nobody /\ line' = <<q>>
  BY DEF Turn, Take
<1> QED
  BY <1>1, Lines, Zenon DEF Turn

LEMMA OnlyFlushed ==
  ASSUME TypeOK, NEW p \in Writers, NEW m \in Item, Only(p, m), NEW q \in Writers, Flush(q)
  PROVE  Only(p, m)'
<1>1. q = p /\ pipe = <<>> /\ out[p] = <<m>> /\ \A r \in Writers \ {p} : out[r] = <<>>
  BY DEF Only, Flush
<1>2. pipe' = <<m>>
  BY <1>1, OneItem DEF Flush
<1>3. out' = [out EXCEPT ![p] = <<>>]
  BY <1>1, OneItem DEF Flush
<1> QED
  BY <1>1, <1>2, <1>3 DEF Only, TypeOK, FactoryTypeOK

LEMMA OnlyPut ==
  ASSUME TypeOK, NEW p \in Writers, NEW m \in Item, Silent, Put(p, m), pipe' = pipe
  PROVE  Only(p, m)'
<1>1. out' = [out EXCEPT ![p] = <<m>>]
  BY OneItem DEF Put, Silent
<1> QED
  BY <1>1 DEF Only, Silent, TypeOK, FactoryTypeOK

LEMMA OnlyTaken ==
  ASSUME NEW p \in Writers, NEW m \in Item, Only(p, m), NEW q, Take(q)
  PROVE  Head(pipe) = m /\ (out' = out => Silent')
BY OneItem DEF Only, Take, Silent

(* What goes on while the server waits or is idle.                         *)
Background == LoaderStep \/ DelegateStep \/ QueueStep \/ DiskChanges

LEMMA Calm ==
  ASSUME TypeOK, Background, Undisturbed'
  PROVE  /\ Undisturbed /\ ~raced'
         /\ ~LoadFails /\ ~LoaderDies
         /\ UNCHANGED <<call, published, context>> /\ disk <= disk'
         /\ UNCHANGED disk \/ DiskChanges
<1> USE DEF Undisturbed, TypeOK, FactoryTypeOK, queueVars, loaderVars, serverVars, factoryBounds
<1>1. CASE LoaderStep
  BY <1>1 DEF LoaderStep, Load, LoadFails, LoaderAsks, LoaderToldToStop, LoaderGetsArgs,
              LoaderGetsJunk, LoaderWorks, LoaderExits, LoaderDies, Versions
<1>2. CASE DelegateStep
  BY <1>2 DEF DelegateStep, RestartLoader, GiveUp, DelegateExits, TerminateDelegate, Versions,
              LoadFails, LoaderDies
<1>3. CASE QueueStep
  BY <1>3 DEF QueueStep, Flush, Acquire, LoadFails, LoaderDies, Versions
<1>4. CASE DiskChanges
  BY <1>4 DEF DiskChanges, LoadFails, LoaderDies, Versions
<1> QED
  BY <1>1, <1>2, <1>3, <1>4 DEF Background

LEMMA QuietStep ==
  ASSUME TypeOK, Quiet, delegate = "watch", Background, Undisturbed'
  PROVE  Quiet' /\ UNCHANGED <<delegate, lver>>
<1> USE Calm DEF loaderVars, serverVars, factoryBounds, queueVars
<1>1. pipe = <<>> /\ (\A p \in Writers : out[p] = <<>>) /\ loader \in {"loop", "get"}
  BY DEF Quiet, Silent
<1>2. CASE LoaderAsks
  <2>1. loader' = "get" /\ lock' = Nobody /\ line' = <<"loader">>
    BY <1>2, Lines DEF LoaderAsks, Quiet
  <2>2. Turn("loader", <<>>)'
    BY <2>1, Lines DEF Turn
  <2> QED
    BY <1>2, <2>1, <2>2 DEF LoaderAsks, Quiet, Silent
<1>3. ASSUME NEW q \in {"server", "loader"}, Acquire(q)
      PROVE  Quiet' /\ UNCHANGED <<delegate, lver>>
  <2>1. Turn("loader", <<>>) /\ loader = "get"
    BY <1>3 DEF Quiet, Acquire
  <2>2. Turn("loader", <<>>)'
    BY <1>3, <2>1, TurnAcquire DEF Rests
  <2> QED
    BY <1>3, <2>1, <2>2 DEF Quiet, Silent, Acquire
<1>4. CASE DiskChanges
  BY <1>4 DEF DiskChanges, Quiet, Silent, Turn
<1>5. \A p \in Writers : ~Flush(p)
  BY <1>1 DEF Flush
<1>6. LoaderStep => LoaderAsks
  BY <1>1 DEF LoaderStep, Load, LoaderToldToStop, LoaderGetsArgs, LoaderGetsJunk, LoaderWorks,
              LoaderExits, Take
<1>7. ~DelegateStep
  BY <1>1 DEF DelegateStep, RestartLoader, GiveUp, DelegateExits, TerminateDelegate
<1> QED
  BY <1>2, <1>3, <1>4, <1>5, <1>6, <1>7 DEF Background, QueueStep

LEMMA ToLoaderStep ==
  ASSUME TypeOK, NEW m \in Item, m = NoneItem \/ m.kind = "args", ToLoader(m),
         delegate = "watch", Background, Undisturbed'
  PROVE  /\ UNCHANGED <<delegate, lver>>
         /\ \/ ToLoader(m)'
            \/ m = NoneItem /\ AtLoader({"exit"})'
            \/ m.kind = "args" /\ AtLoader({"work"})' /\ task' = m.n
<1> USE Calm DEF loaderVars, serverVars, factoryBounds, queueVars
<1>1. loader = "get" /\ Only("server", m) /\ Turn("loader", <<"server">>) /\ "server" \in Writers
  BY DEF ToLoader, Writers
<1>2. ASSUME NEW p \in Writers, Flush(p)
      PROVE  ToLoader(m)' /\ UNCHANGED <<delegate, lver>>
  <2>1. Only("server", m)'
    BY <1>1, <1>2, OnlyFlushed
  <2> QED
    BY <1>1, <1>2, <2>1 DEF Flush, ToLoader, Turn
<1>3. ASSUME NEW q \in {"server", "loader"}, Acquire(q)
      PROVE  ToLoader(m)' /\ UNCHANGED <<delegate, lver>>
  <2>1. Turn("loader", <<"server">>)'
    BY <1>1, <1>3, TurnAcquire DEF Rests
  <2> QED
    BY <1>1, <1>3, <2>1 DEF Acquire, ToLoader, Only
<1>4. ASSUME LoaderToldToStop \/ LoaderGetsArgs
      PROVE  Head(pipe) = m /\ Silent' /\ Turn("server", <<>>)'
  <2>1. Take("loader") /\ line' = line /\ out' = out
    BY <1>4 DEF LoaderToldToStop, LoaderGetsArgs
  <2> QED
    BY <1>1, <2>1, OnlyTaken, TurnTaken
<1>5. CASE LoaderToldToStop
  BY <1>4, <1>5 DEF LoaderToldToStop, AtLoader
<1>6. CASE LoaderGetsArgs
  BY <1>4, <1>6 DEF LoaderGetsArgs, AtLoader
<1>7. ~LoaderGetsJunk
  BY <1>1, OnlyTaken DEF LoaderGetsJunk, NoneItem
<1>8. CASE DiskChanges
  BY <1>8 DEF DiskChanges, ToLoader, Only, Turn
<1>9. LoaderStep => LoaderToldToStop \/ LoaderGetsArgs
  BY <1>1, <1>7 DEF LoaderStep, Load, LoaderAsks, LoaderWorks, LoaderExits
<1>10. ~DelegateStep
  BY <1>1 DEF DelegateStep, RestartLoader, GiveUp, DelegateExits, TerminateDelegate
<1> QED
  BY <1>2, <1>3, <1>5, <1>6, <1>8, <1>9, <1>10 DEF Background, QueueStep

LEMMA AtLoaderStep ==
  ASSUME TypeOK, NEW L \in SUBSET {"exit", "done", "load", "work"}, AtLoader(L),
         NEW n, task = n, NEW v, lver = v,
         delegate = "watch", Background, Undisturbed'
  PROVE  /\ delegate' = "watch"
         /\ \/ AtLoader(L)' /\ UNCHANGED <<loader, task, lver>>
            \/ loader \in {"exit", "done"} /\ AtLoader({"done", "load"})' /\ lver' = lver
            \/ loader = "load" /\ ToServer(ListOf(disk))' /\ lver' = disk /\ disk' = disk
            \/ /\ loader = "work" /\ lver' = v
               /\ ToServer(CtxOf(n, v))' \/ ToServer(EmptyList)'
<1> USE Calm DEF loaderVars, serverVars, factoryBounds, queueVars
<1>1. /\ loader \in L /\ Silent /\ Turn("server", <<>>)
      /\ pipe = <<>> /\ (\A p \in Writers : out[p] = <<>>) /\ "loader" \in Writers
  BY DEF AtLoader, Silent, Writers
<1>2. ASSUME NEW q \in {"server", "loader"}, Acquire(q)
      PROVE  AtLoader(L)' /\ UNCHANGED <<delegate, loader, task, lver>>
  <2>1. Turn("server", <<>>)'
    BY <1>1, <1>2, TurnAcquire DEF Rests
  <2> QED
    BY <1>1, <1>2, <2>1 DEF Acquire, AtLoader, Silent
<1>3. CASE LoaderExits
  BY <1>1, <1>3 DEF LoaderExits, AtLoader, Silent, Turn
<1>4. CASE RestartLoader
  BY <1>1, <1>4 DEF RestartLoader, AtLoader, Silent, Turn
<1>5. CASE Load
  <2>1. ListOf(disk) \in Item
    BY ItemTypes DEF TypeOK, FactoryTypeOK
  <2>2. ASSUME NEW d, d = disk
        PROVE  Only("loader", ListOf(d))'
    BY <1>1, <1>5, <2>1, <2>2, OnlyPut DEF Load
  <2>3. PICK d : d = disk
    OBVIOUS
  <2>4. disk' = disk /\ Only("loader", ListOf(disk))'
    BY <1>5, <2>2, <2>3 DEF Load
  <2> QED
    BY <1>1, <1>5, <2>4 DEF Load, ToServer, Turn
<1>6. CASE LoaderWorks
  <2>1. CtxOf(n, v) \in Item /\ EmptyList \in Item
    BY ItemTypes DEF TypeOK, FactoryTypeOK
  <2>2. Put("loader", CtxOf(n, v)) => Only("loader", CtxOf(n, v))'
    BY <1>1, <1>6, <2>1, OnlyPut DEF LoaderWorks
  <2>3. Put("loader", EmptyList) => Only("loader", EmptyList)'
    BY <1>1, <1>6, <2>1, OnlyPut DEF LoaderWorks
  <2>4. loader' = "loop" /\ Turn("server", <<>>)' /\ loader = "work" /\ UNCHANGED <<lver, delegate>>
    BY <1>1, <1>6 DEF LoaderWorks, Turn
  <2> QED
    BY <1>6, <2>2, <2>3, <2>4 DEF LoaderWorks, ToServer
<1>7. CASE DiskChanges
  BY <1>7 DEF DiskChanges, AtLoader, Silent, Turn
<1>8. \A p \in Writers : ~Flush(p)
  BY <1>1 DEF Flush
<1>9. LoaderStep => LoaderExits \/ Load \/ LoaderWorks
  BY <1>1 DEF LoaderStep, LoaderAsks, LoaderToldToStop, LoaderGetsArgs, LoaderGetsJunk, Take
<1>10. DelegateStep => RestartLoader
  BY <1>1 DEF DelegateStep, GiveUp, DelegateExits, TerminateDelegate
<1> QED
  BY <1>2, <1>3, <1>4, <1>5, <1>6, <1>7, <1>8, <1>9, <1>10 DEF Background, QueueStep

LEMMA ToServerStep ==
  ASSUME TypeOK, NEW m \in Item, ToServer(m), delegate = "watch", Background, Undisturbed'
  PROVE  ToServer(m)' /\ UNCHANGED <<delegate, lver>>
<1> USE Calm DEF loaderVars, serverVars, factoryBounds, queueVars
<1>1. /\ loader \in {"loop", "get"} /\ Only("loader", m) /\ "loader" \in Writers
      /\ \A p \in Writers \ {"loader"} : out[p] = <<>>
  BY DEF ToServer, Only, Writers
<1>2. ASSUME NEW p \in Writers, Flush(p)
      PROVE  ToServer(m)' /\ UNCHANGED <<delegate, lver>>
  <2>1. Only("loader", m)'
    BY <1>1, <1>2, OnlyFlushed
  <2> QED
    BY <1>1, <1>2, <2>1 DEF Flush, ToServer, Turn
<1>3. ASSUME NEW q \in {"server", "loader"}, Acquire(q)
      PROVE  ToServer(m)' /\ UNCHANGED <<delegate, lver>>
  <2>1. \A rest \in Rests("server") : Turn("server", rest) => Turn("server", rest)'
    BY <1>3, TurnAcquire
  <2> QED
    BY <1>1, <1>3, <2>1 DEF Acquire, ToServer, Only, Rests
<1>4. CASE LoaderAsks
  <2>1. Turn("server", <<"loader">>)'
    BY <1>4, TurnJoined DEF LoaderAsks, ToServer
  <2> QED
    BY <1>1, <1>4, <2>1 DEF LoaderAsks, ToServer, Only
<1>5. CASE DiskChanges
  BY <1>5 DEF DiskChanges, ToServer, Only, Turn
<1>6. LoaderStep => LoaderAsks
  <2>1. lock # "loader"
    BY DEF ToServer, Turn
  <2> QED
    BY <1>1, <2>1 DEF LoaderStep, Load, LoaderToldToStop, LoaderGetsArgs, LoaderGetsJunk, LoaderWorks,
                      LoaderExits, Take
<1>7. ~DelegateStep
  BY <1>1 DEF DelegateStep, RestartLoader, GiveUp, DelegateExits, TerminateDelegate
<1> QED
  BY <1>2, <1>3, <1>4, <1>5, <1>6, <1>7 DEF Background, QueueStep

LEMMA FlowBackground ==
  ASSUME TypeOK, VersionInv, Flow, Background, Undisturbed'
  PROVE  Flow'
<1>1. PICK c \in Call, v \in Versions, n \in 0 .. MaxCalls : c = call /\ v = lver /\ n = task
  BY DEF TypeOK, FactoryTypeOK
<1>2. /\ delegate = "watch" /\ call' = c /\ published' = published
      /\ disk <= disk' /\ disk \in Nat /\ disk' \in Nat /\ c.ver \in Nat /\ c.n \in 0 .. MaxCalls
  <2>1. FactoryTypeOK'
    BY LoaderTypes, DelegateTypes, QueueTypes, AnswerTypes DEF Background, TypeOK
  <2>2. disk \in Versions /\ disk' \in Versions
    BY <2>1 DEF TypeOK, FactoryTypeOK
  <2>3. c.ver \in Versions /\ c.n \in 0 .. MaxCalls
    BY <1>1 DEF Call
  <2> QED
    BY <1>1, <2>2, <2>3, Calm DEF Flow, Versions
<1>3. CASE IdlePhase
  <2>1. Quiet' /\ UNCHANGED <<delegate, lver>>
    BY <1>2, <1>3, QuietStep DEF IdlePhase
  <2>2. Serving' /\ call' = Idle
    BY <1>1, <1>2, <1>3, <2>1 DEF IdlePhase, Serving
  <2> QED
    BY <1>2, <2>1, <2>2 DEF IdlePhase, Flow
<1>4. CASE ListPhase
  <2>1. CASE ToLoader(NoneItem) /\ call.ver <= disk
    <3>1. delegate' = "watch" /\ (ToLoader(NoneItem)' \/ AtLoader({"exit"})')
      BY <1>2, <2>1, ItemTypes, ToLoaderStep DEF NoneItem
    <3>2. AtLoader({"exit"})' => AtLoader({"exit", "done", "load"})'
      BY DEF AtLoader
    <3>3. call.kind = "list" /\ call' = call /\ (call.ver <= disk)'
      BY <1>1, <1>2, <1>4, <2>1 DEF ListPhase
    <3> QED
      BY <3>1, <3>2, <3>3 DEF ListPhase, Flow
  <2>2. CASE AtLoader({"exit", "done", "load"}) /\ call.ver <= disk
    <3> DEFINE L == {"exit", "done", "load"}
    <3>1. L \in SUBSET {"exit", "done", "load", "work"} /\ loader \in L
      BY <2>2 DEF AtLoader
    <3>2. /\ delegate' = "watch"
          /\ \/ AtLoader(L)'
             \/ AtLoader({"done", "load"})'
             \/ ToServer(ListOf(disk))' /\ lver' = disk /\ disk' = disk
      BY <1>1, <1>2, <2>2, <3>1, AtLoaderStep
    <3>3. AtLoader({"done", "load"})' => AtLoader(L)'
      BY DEF AtLoader
    <3>4. call.kind = "list" /\ call' = call /\ call'.ver <= disk'
      BY <1>1, <1>2, <1>4, <2>2 DEF ListPhase
    <3>5. ToServer(ListOf(disk))' /\ lver' = disk /\ disk' = disk
           => (ToServer(ListOf(lver)) /\ call.ver <= lver)'
      BY <3>4
    <3> QED
      BY <3>2, <3>3, <3>4, <3>5 DEF ListPhase, Flow
  <2>3. CASE ToServer(ListOf(lver)) /\ call.ver <= lver
    <3>1. ListOf(v) \in Item /\ ToServer(ListOf(v))
      BY <1>1, <2>3, ItemTypes
    <3>2. ToServer(ListOf(v))' /\ UNCHANGED <<delegate, lver>>
      BY <1>2, <3>1, ToServerStep
    <3>3. ToServer(ListOf(lver))' /\ delegate' = "watch"
      BY <1>1, <1>2, <3>2
    <3>4. call.kind = "list" /\ call' = call /\ (call.ver <= lver)'
      BY <1>1, <1>2, <1>4, <2>3, <3>2 DEF ListPhase
    <3> QED
      BY <3>3, <3>4 DEF ListPhase, Flow
  <2> QED
    BY <1>4, <2>1, <2>2, <2>3 DEF ListPhase
<1>5. CASE ContextPhase
  <2>0. call.kind = "ctx" /\ call' = call /\ published = ListOf(v)
    BY <1>1, <1>2, <1>5 DEF ContextPhase, Serving
  <2>1. CASE ToLoader(ArgsOf(call.n))
    <3>1. ArgsOf(c.n) \in Item /\ ToLoader(ArgsOf(c.n)) /\ ArgsOf(c.n).kind = "args"
          /\ ArgsOf(c.n).n = c.n /\ ArgsOf(c.n) # NoneItem
      BY <1>1, <1>2, <2>1, ItemTypes DEF ArgsOf, NoneItem
    <3>2. /\ UNCHANGED <<delegate, lver>>
          /\ ToLoader(ArgsOf(c.n))' \/ (AtLoader({"work"})' /\ task' = c.n)
      BY <1>2, <3>1, ToLoaderStep
    <3>3. Serving'
      BY <1>1, <1>2, <2>0, <3>2 DEF Serving
    <3> QED
      BY <1>2, <2>0, <1>1, <3>2, <3>3 DEF ContextPhase, Flow
  <2>2. CASE AtLoader({"work"}) /\ task = call.n
    <3> DEFINE L == {"work"}
    <3>1. L \in SUBSET {"exit", "done", "load", "work"} /\ loader = "work" /\ n = c.n
      BY <1>1, <2>2 DEF AtLoader
    <3>2. /\ delegate' = "watch" /\ lver' = v
          /\ \/ AtLoader(L)' /\ task' = task
             \/ ToServer(CtxOf(n, v))' \/ ToServer(EmptyList)'
      BY <1>1, <1>2, <2>2, <3>1, AtLoaderStep
    <3>3. Serving'
      BY <1>1, <1>2, <2>0, <3>2 DEF Serving
    <3>4. ToServer(CtxOf(n, v))' => ToServer(CtxOf(call.n, lver))'
      BY <1>1, <1>2, <3>1, <3>2
    <3> QED
      BY <1>1, <1>2, <2>0, <2>2, <3>2, <3>3, <3>4 DEF ContextPhase, Flow
  <2>3. CASE ToServer(CtxOf(call.n, lver))
    <3>1. CtxOf(c.n, v) \in Item /\ ToServer(CtxOf(c.n, v))
      BY <1>1, <1>2, <2>3, ItemTypes
    <3>2. ToServer(CtxOf(c.n, v))' /\ UNCHANGED <<delegate, lver>>
      BY <1>2, <3>1, ToServerStep
    <3>3. Serving' /\ ToServer(CtxOf(call.n, lver))'
      BY <1>1, <1>2, <2>0, <3>2 DEF Serving
    <3> QED
      BY <1>2, <2>0, <1>1, <3>2, <3>3 DEF ContextPhase, Flow
  <2>4. CASE ToServer(EmptyList)
    <3>1. ToServer(EmptyList)' /\ UNCHANGED <<delegate, lver>>
      BY <1>2, <2>4, ItemTypes, ToServerStep
    <3>2. Serving'
      BY <1>1, <1>2, <2>0, <3>1 DEF Serving
    <3> QED
      BY <1>2, <2>0, <1>1, <3>1, <3>2 DEF ContextPhase, Flow
  <2> QED
    BY <1>5, <2>1, <2>2, <2>3, <2>4 DEF ContextPhase
<1> QED
  BY <1>3, <1>4, <1>5 DEF Flow

LEMMA Taken ==
  ASSUME TypeOK, Flow, Take("server"), UNCHANGED <<out, line, loader>>
  PROVE  /\ Answers(call, Head(pipe)) /\ Quiet'
         /\ call.kind = "list" => Head(pipe) = ListOf(lver)
         /\ call.kind = "ctx" => Serving /\ Head(pipe) \in {CtxOf(call.n, lver), EmptyList}
<1>1. PICK c \in Call, v \in Versions : c = call /\ v = lver
  BY DEF TypeOK, FactoryTypeOK
<1>2. c.n \in 0 .. MaxCalls /\ pipe # <<>> /\ lock = "server"
  BY DEF Call, Take
<1>3. ASSUME NEW m \in Item, ToServer(m)
      PROVE  Head(pipe) = m /\ Quiet'
  <2>1. Only("loader", m) /\ "loader" \in Writers
    BY <1>3 DEF ToServer, Writers
  <2>2. Head(pipe) = m /\ Silent'
    BY <2>1, OnlyTaken
  <2>3. CASE loader = "loop" /\ Turn("server", <<>>)
    BY <1>2, <2>2, <2>3 DEF Turn, Take, Quiet
  <2>4. CASE loader = "get" /\ Turn("server", <<"loader">>)
    <3>1. Turn("loader", <<>>)'
      BY <2>4, TurnTaken
    <3> QED
      BY <2>2, <2>4, <3>1 DEF Quiet
  <2> QED
    BY <1>3, <2>2, <2>3, <2>4 DEF ToServer
<1>4. ~Quiet /\ (\A m : ~ToLoader(m)) /\ (\A L : ~AtLoader(L))
  BY <1>2 DEF Quiet, ToLoader, AtLoader, Silent, Turn
<1>5. CASE ListPhase
  <2>1. call.kind = "list" /\ ToServer(ListOf(v)) /\ call.ver <= v
    BY <1>1, <1>4, <1>5 DEF ListPhase
  <2>2. Head(pipe) = ListOf(v) /\ Quiet'
    BY <1>3, <2>1, ItemTypes
  <2> QED
    BY <1>1, <2>1, <2>2 DEF Answers, ListOf, TypeOK, FactoryTypeOK, Call, Versions
<1>6. CASE ContextPhase
  <2>1. call.kind = "ctx" /\ Serving /\ (ToServer(CtxOf(c.n, v)) \/ ToServer(EmptyList))
    BY <1>1, <1>4, <1>6 DEF ContextPhase
  <2>2. Head(pipe) \in {CtxOf(c.n, v), EmptyList} /\ Quiet'
    BY <1>2, <1>3, <2>1, ItemTypes
  <2> QED
    BY <1>1, <2>1, <2>2 DEF Answers, CtxOf
<1> QED
  BY <1>4, <1>5, <1>6 DEF Flow, IdlePhase

LEMMA Asked ==
  ASSUME TypeOK, Flow, AskNewList \/ AskContext, ~raced'
  PROVE  Flow'
<1> USE DEF loaderVars, serverVars, factoryBounds, queueVars
<1>1. /\ IdlePhase /\ Silent /\ Serving /\ delegate = "watch"
      /\ "server" \in Writers
  BY DEF AskNewList, AskContext, Flow, ListPhase, ContextPhase, IdlePhase, Quiet, Idle, Writers
<1>2. loader = "get" /\ Turn("loader", <<>>)
  BY <1>1 DEF AskNewList, AskContext, IdlePhase, Quiet
<1>3. Turn("loader", <<"server">>)'
  BY <1>2, TurnJoined DEF AskNewList, AskContext
<1>4. ASSUME NEW m \in Item, Put("server", m)
      PROVE  ToLoader(m)'
  <2>1. Only("server", m)'
    BY <1>1, <1>4, OnlyPut DEF AskNewList, AskContext
  <2> QED
    BY <1>2, <1>3, <2>1 DEF AskNewList, AskContext, ToLoader
<1>5. UNCHANGED <<delegate, lver, published>>
  BY DEF AskNewList, AskContext
<1>6. CASE AskNewList
  <2>1. ToLoader(NoneItem)' /\ call'.kind = "list" /\ call'.ver = disk /\ disk' = disk /\ disk \in Nat
    BY <1>4, <1>6, ItemTypes DEF AskNewList, TypeOK, FactoryTypeOK, Versions
  <2> QED
    BY <1>1, <1>5, <2>1 DEF Flow, ListPhase
<1>7. CASE AskContext
  <2>1. PICK n \in 0 .. MaxCalls : n = calls'
    BY <1>7 DEF AskContext, TypeOK, FactoryTypeOK
  <2>2. ToLoader(ArgsOf(n))' /\ call'.kind = "ctx" /\ call'.n = n
    BY <1>4, <1>7, <2>1, ItemTypes DEF AskContext
  <2>3. ToLoader(ArgsOf(call.n))' /\ Serving'
    BY <1>1, <1>5, <2>2 DEF Serving
  <2> QED
    BY <1>1, <1>5, <2>2, <2>3 DEF Flow, ContextPhase
<1> QED
  BY <1>6, <1>7

LEMMA PhaseServer ==
  ASSUME TypeOK, VersionInv, EndInv, PhaseInv, ServerStep, Undisturbed'
  PROVE  Phase'
<1> USE DEF Phase, loaderVars, serverVars, factoryBounds, queueVars, poolVars
<1>1. UNCHANGED factoryVars => (Undisturbed /\ (Flow => Flow'))
  <2>1. ASSUME UNCHANGED factoryVars
        PROVE  Undisturbed /\ (Flow => Flow')
    BY <2>1 DEF factoryVars, Undisturbed, Flow, IdlePhase, ListPhase, ContextPhase, Serving, Quiet,
         ToLoader, AtLoader, ToServer, Silent, Only, Turn
  <2> QED
    BY <2>1
<1>2. CASE Boot
  <2>1. Undisturbed
    BY <1>2 DEF Boot, AskFirstList, Undisturbed
  <2>2. Silent /\ lock = Nobody /\ line = <<>> /\ (context # EmptyList => context.ver = published.ver)
    BY <1>2, <2>1 DEF PhaseInv, Boot
  <2>3. line' = <<"server">>
    BY <1>2, <2>2, Lines DEF Boot, AskFirstList
  <2>4. Turn("server", <<>>)'
    BY <1>2, <2>2, <2>3, Lines DEF Boot, AskFirstList, Turn
  <2>5. AtLoader({"exit", "done", "load"})'
    BY <1>2, <2>2, <2>4 DEF Boot, AskFirstList, AtLoader, Silent
  <2>6. delegate' = "watch" /\ call'.kind = "list" /\ call'.ver <= disk'
    BY <1>2 DEF Boot, AskFirstList, TypeOK, FactoryTypeOK, Versions
  <2>7. Flow'
    BY <2>5, <2>6 DEF Flow, ListPhase
  <2> QED
    BY <1>2, <2>2, <2>7 DEF Boot, AskFirstList
<1>3. ASSUME TakeList, main \in {"loading", "ready"}
      PROVE  Undisturbed /\ Head(pipe) # NoneItem /\ Flow'
             /\ (context # EmptyList => context.ver = published.ver)'
  <2>1. Undisturbed
    BY <1>3 DEF TakeList, ServerTakes, Undisturbed
  <2>2. Flow
    BY <1>3, <2>1 DEF PhaseInv
  <2>3. Take("server") /\ UNCHANGED <<out, line, loader, lver, delegate>> /\ call.kind = "list" /\ call' = Idle
    BY <1>3 DEF TakeList, ServerTakes
  <2>4. Head(pipe) = ListOf(lver) /\ Quiet'
    BY <2>2, <2>3, Taken
  <2>5. published' = ListOf(lver) /\ context' = EmptyList
    BY <1>3, <2>4 DEF TakeList, ListOf
  <2> QED
    BY <2>1, <2>2, <2>3, <2>4, <2>5 DEF Flow, IdlePhase, Serving, ListOf, NoneItem
<1>4. CASE Initialized
  BY <1>3, <1>4 DEF Initialized
<1>5. CASE Ready \/ FirstCheck \/ End
  BY <1>1, <1>5 DEF Ready, FirstCheck, End, PhaseInv, factoryVars
<1>6. CASE Signal
  BY <1>1, <1>6 DEF Signal, PhaseInv, factoryVars
<1>7. CASE EarlySignal
  <2>1. Undisturbed
    BY <1>7 DEF EarlySignal, ServerDies, Undisturbed
  <2> QED
    BY <1>7, <2>1 DEF EarlySignal, ServerDies, PhaseInv
<1>8. CASE Terminate
  <2>1. Undisturbed
    BY <1>8 DEF Terminate, Undisturbed
  <2> QED
    BY <1>8, <2>1 DEF Terminate, PhaseInv
<1>9. CASE Contextualize
  <2>1. Undisturbed
    BY <1>9 DEF Contextualize, AskContext, Undisturbed, TypeOK, FactoryTypeOK
  <2>2. Flow'
    BY <1>9, <2>1, Asked DEF Contextualize, PhaseInv, Undisturbed
  <2> QED
    BY <1>9, <2>1, <2>2 DEF Contextualize, AskContext, lifecycleVars, PhaseInv
<1>10. CASE Contextualized
  <2>1. Undisturbed
    BY <1>10 DEF Contextualized, TakeContext, ServerTakes, Undisturbed
  <2>2. Flow /\ main = "ready" /\ main' = main
    BY <1>10, <2>1 DEF Contextualized, PhaseInv, lifecycleVars
  <2>3. Take("server") /\ UNCHANGED <<out, line, loader, lver, delegate, published>>
        /\ call.kind = "ctx" /\ call' = Idle
    BY <1>10 DEF Contextualized, TakeContext, ServerTakes
  <2>4. Quiet' /\ Serving /\ Head(pipe) \in {CtxOf(call.n, lver), EmptyList}
    BY <2>2, <2>3, Taken
  <2>5. (context # EmptyList => context.ver = published.ver)'
    BY <1>10, <2>1, <2>3, <2>4 DEF Contextualized, TakeContext, PhaseInv, CtxOf, ListOf, Serving, EmptyList
  <2> QED
    BY <2>2, <2>3, <2>4, <2>5 DEF Flow, IdlePhase, Serving
<1>11. CASE Reload
  <2>1. Undisturbed
    BY <1>11 DEF Reload, AskNewList, Undisturbed, TypeOK, FactoryTypeOK
  <2>2. Flow'
    BY <1>11, <2>1, Asked DEF Reload, PhaseInv, Undisturbed
  <2> QED
    BY <1>11, <2>1, <2>2 DEF Reload, AskNewList, PhaseInv
<1>12. CASE Reloaded
  BY <1>3, <1>12 DEF Reloaded
<1> QED
  BY <1>2, <1>4, <1>5, <1>6, <1>7, <1>8, <1>9, <1>10, <1>11, <1>12 DEF ServerStep

LEMMA PhasePool ==
  ASSUME TypeOK, PhaseInv, PoolStep, Undisturbed'
  PROVE  Phase'
<1>1. CASE UNCHANGED <<factoryVars, main>>
  BY <1>1 DEF factoryVars, loaderVars, serverVars, factoryBounds, queueVars,
       PhaseInv, Phase, Undisturbed, Flow, IdlePhase, ListPhase, ContextPhase, Serving, Quiet,
       ToLoader, AtLoader, ToServer, Silent, Only, Turn
<1>2. CASE main' = "aborted" /\ ServerDies
  <2>1. Undisturbed
    BY <1>2 DEF ServerDies, Undisturbed, factoryBounds
  <2> QED
    BY <1>2, <2>1 DEF ServerDies, PhaseInv, Phase
<1> QED
  BY <1>1, <1>2 DEF PoolStep, ForkWorkers, TerminateWorkers, JoinWorkers, Maintain, WorkerLoads,
                    WorkerRestarts, WorkerRetires, WorkerStops, WorkerFails

LEMMA PhaseBackground ==
  ASSUME TypeOK, VersionInv, EndInv, PhaseInv, Background, UNCHANGED main, Undisturbed'
  PROVE  Phase'
<1>1. Phase /\ UNCHANGED <<call, published, context, main>>
  BY Calm DEF PhaseInv
<1>2. CASE main \in {"loading", "starting", "ready"}
  BY <1>1, <1>2, FlowBackground DEF Phase
<1>3. CASE main = "boot"
  <2>1. Silent /\ delegate = "none" /\ lock = Nobody /\ line = <<>> /\ loader = "none"
    BY <1>1, <1>3 DEF Phase, EndInv
  <2>2. ~LoaderStep
    BY <2>1 DEF LoaderStep, Load, LoadFails, LoaderAsks, LoaderToldToStop, LoaderGetsArgs,
                LoaderGetsJunk, LoaderWorks, LoaderExits, LoaderDies, LoaderAlive
  <2>3. ~DelegateStep /\ ~QueueStep
    BY <2>1 DEF DelegateStep, RestartLoader, GiveUp, DelegateExits, TerminateDelegate, QueueStep,
                Flush, Acquire, Silent
  <2>4. DiskChanges
    BY <2>2, <2>3 DEF Background
  <2> QED
    BY <1>1, <1>3, <2>1, <2>4 DEF DiskChanges, queueVars, Phase, Silent
<1>4. CASE main \notin {"boot", "loading", "starting", "ready"}
  BY <1>1, <1>4 DEF Phase
<1> QED
  BY <1>2, <1>3, <1>4

LEMMA PhaseStep ==
  ASSUME TypeOK, VersionInv, EndInv, PhaseInv, [Next]_vars
  PROVE  PhaseInv'
<1> SUFFICES ASSUME Undisturbed'
             PROVE  Phase'
  BY DEF PhaseInv
<1>1. CASE Delegate
  BY <1>1, PhaseBackground DEF Delegate, Background, lifecycleVars
<1>2. CASE ServerStep
  BY <1>2, PhaseServer
<1>3. CASE PoolStep
  BY <1>3, PhasePool
<1>4. CASE UNCHANGED vars
  BY <1>4 DEF vars, lifecycleVars, factoryVars, loaderVars, serverVars, factoryBounds, queueVars,
       PhaseInv, Phase, Undisturbed, Flow, IdlePhase, ListPhase, ContextPhase, Serving, Quiet,
       ToLoader, AtLoader, ToServer, Silent, Only, Turn
<1> QED
  BY <1>1, <1>2, <1>3, <1>4 DEF Next

LEMMA PhaseInit == Init => PhaseInv
BY DEF Init, FactoryInit, PhaseInv, Phase, Silent, Writers

(* What the server takes leaves the lock free, and only it takes so.       *)
LEMMA TookIsAnswer ==
  ASSUME TypeOK, EndInv, PhaseInv, [Next]_vars, Undisturbed, ServerTook
  PROVE  Answers(call, Head(pipe))
<1> USE DEF loaderVars, serverVars, factoryBounds, queueVars, ServerTook
<1>1. lock = "server" /\ lock' # lock /\ lock' = Nobody
  OBVIOUS
<1>2. ~Delegate
  <2>1. ~LoaderStep
    BY <1>1 DEF LoaderStep, Load, LoadFails, LoaderAsks, LoaderToldToStop, LoaderGetsArgs,
                LoaderGetsJunk, LoaderWorks, LoaderExits, LoaderDies, Take
  <2>2. ~DelegateStep
    BY <1>1 DEF DelegateStep, RestartLoader, GiveUp, DelegateExits, TerminateDelegate
  <2>3. ~QueueStep /\ ~DiskChanges
    BY <1>1 DEF QueueStep, Flush, Acquire, DiskChanges
  <2> QED
    BY <2>1, <2>2, <2>3 DEF Delegate
<1>3. ~ServerDies /\ ~UNCHANGED factoryVars
  BY <1>1 DEF ServerDies, factoryVars
<1>4. ~PoolStep
  BY <1>3 DEF PoolStep, ForkWorkers, TerminateWorkers, JoinWorkers, Maintain, WorkerLoads,
              WorkerRestarts, WorkerRetires, WorkerStops, WorkerFails
<1>5. ~UNCHANGED vars
  BY <1>3 DEF vars
<1>6. ServerStep
  BY <1>2, <1>4, <1>5 DEF Next
<1>7. Initialized \/ Contextualized \/ Reloaded
  BY <1>1, <1>3, <1>6 DEF ServerStep, Boot, AskFirstList, Ready, Signal, EarlySignal, Terminate, End,
     Contextualize, AskContext, FirstCheck, Reload, AskNewList
<1>8. main \in {"loading", "ready"} /\ Take("server") /\ UNCHANGED <<out, line, loader>>
  BY <1>7 DEF Initialized, Contextualized, Reloaded, TakeList, TakeContext, ServerTakes
<1>9. Flow
  BY <1>8 DEF PhaseInv, Phase
<1> QED
  BY <1>8, <1>9, Taken

LEMMA PhaseCorrect == Spec => [](TypeOK /\ VersionInv /\ EndInv /\ PhaseInv)
<1> DEFINE I == TypeOK /\ VersionInv /\ EndInv
<1>1. Init => PhaseInv
  BY PhaseInit
<1>2. I /\ PhaseInv /\ [Next]_vars => PhaseInv'
  BY PhaseStep
<1>3. Spec => []I
  BY InvCorrect
<1> QED
  BY <1>1, <1>2, <1>3, PTL DEF Spec

(* As long as nothing disturbs the delegate, what the server takes from    *)
(* the queue is the answer to its call (processfactory.py:65-73).          *)
THEOREM AnswersCorrect == Spec => AnswersMatch
<1>1. TypeOK /\ VersionInv /\ EndInv /\ PhaseInv /\ [Next]_vars
      => [Undisturbed /\ ServerTook => Answers(call, Head(pipe))]_factoryVars
  BY TookIsAnswer
<1> QED
  BY <1>1, PhaseCorrect, PTL DEF Spec, AnswersMatch

(* The cached contexts come from the published providers, as long as       *)
(* nothing disturbs the delegate, and a worker that is up and older than   *)
(* them has been told to restart (processingexecutor.py:229-239).          *)
THEOREM ProvidersCorrect == Spec => []ProvidersAreCurrent
<1>1. PhaseInv => ContextIsCurrent
  BY DEF PhaseInv, Phase, ContextIsCurrent
<1> QED
  BY <1>1, PhaseCorrect, StaleCorrect, PTL DEF ProvidersAreCurrent
===============================================================================
