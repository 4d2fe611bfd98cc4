-------------------------- MODULE ImageWriteProofs --------------------------
(***************************************************************************)
(* For every number of frames and every set of workers: the types of       *)
(* ImageWrite, what exit 0 and exit 2 promise, that no two workers hold a  *)
(* frame, and that the threads implement ImageCopy.                        *)
(***************************************************************************)
EXTENDS ImageWrite, TLAPS

(***************************************************************************)
(* The inductive invariant.                                                *)
(***************************************************************************)
\* `order` lists every frame, and none twice, once it is planned.
IsPlan(o) ==
  /\ o \in [Slots -> Frames]
  /\ \A k \in Frames : \E s \in Slots : o[s] = k
  /\ \A s, u \in Slots : o[s] = o[u] => s = u

PlanMade == main \in {"open", "spawn", "join", "joined"} => IsPlan(order)

\* Nothing is written, and no worker runs, before `writing` is raised; and the
\* process does not say "refused" after it.
NothingBeforeWriting ==
  /\ writing <=> main \in {"spawn", "join", "joined"}
  /\ ~writing => started = {} /\ next = 0 /\ \A k \in Frames : target[k] = "old"
  /\ exit = "refused" => ~writing

StartedWorkers ==
  /\ \A t \in Threads : pc[t] # "new" => t \in started
  /\ main \in {"join", "joined"} => started # {}
  /\ main = "joined" => \A t \in started : pc[t] = "done"

\* A worker holds a slot already handed out, and holds it alone.
SlotsOwned ==
  /\ \A t \in Threads : Working(t) => slot[t] < next
  /\ \A t, u \in Threads :
       t # u /\ Working(t) /\ Working(u) => slot[t] # slot[u]
  /\ \A t \in Threads : pc[t] = "decoded" => kind[FrameOf(t)] = "data"

\* A slot handed out is written, needs no writing, or is in a worker's hands.
Held(s)    == \E t \in Threads : Working(t) /\ slot[t] = s
Settled(s) == Copy!IsZero(order[s]) \/ target[order[s]] = "image" \/ Held(s)

SlotsSettled ==
  ~failed /\ writing => \A s \in Slots : s < next => Settled(s)

DoneMeansOver == \A t \in Threads : pc[t] = "done" => failed \/ next >= NFrames

OkMeansComplete ==
  exit = "ok" => /\ Copy!Complete
                 /\ flushed = Copy!OnTarget

IInv ==
  /\ TypeOK
  /\ PlanMade
  /\ NothingBeforeWriting
  /\ StartedWorkers
  /\ SlotsOwned
  /\ SlotsSettled
  /\ DoneMeansOver
  /\ OkMeansComplete

-----------------------------------------------------------------------------
(***************************************************************************)
(* The plan.                                                               *)
(***************************************************************************)
\* plan_order's two passes list each frame exactly once.
LEMMA OrdersArePlans ==
  ASSUME NEW cached \in SUBSET Frames, NEW o \in Orders(cached)
  PROVE  IsPlan(o)
<1>1. ASSUME NEW s \in Slots, NEW u \in Slots, o[s] = o[u]
      PROVE  s = u
  <2>1. ASSUME NEW x \in Slots, NEW y \in Slots, x < y
        PROVE  o[x] # o[y]
    <3>1. o[x] \in Frames /\ o[y] \in Frames /\ Earlier(cached, o[x], o[y])
      BY <2>1 DEF Orders
    <3>2. QED
      BY <3>1, NFramesAssumption DEF Earlier, Frames
  <2>2. s < u \/ u < s \/ s = u
    BY NFramesAssumption DEF Slots, Frames
  <2>3. QED
    BY <1>1, <2>1, <2>2
<1>2. QED
  BY <1>1 DEF IsPlan, Orders

-----------------------------------------------------------------------------
(***************************************************************************)
(* Type correctness.                                                       *)
(***************************************************************************)
LEMMA TypeInit == Init => TypeOK
<1> SUFFICES ASSUME Init PROVE TypeOK
  OBVIOUS
<1>1. 0 \in Slots
  BY NFramesAssumption DEF Slots, Frames
<1>2. order \in {<< >>} \cup [Slots -> Frames]
  BY Zenon DEF Init
<1>3. slot \in [Threads -> Slots]
  BY <1>1 DEF Init
<1>4. target \in [Frames -> {"old", "part", "image"}]
  BY DEF Init
<1>5. pc \in [Threads -> {"new", "start", "loop", "take", "frame", "decoded", "done"}]
  BY DEF Init
<1>6. /\ kind \in [Frames -> Copy!Kinds] /\ valid \in BOOLEAN
      /\ flushed \in SUBSET Frames /\ started \in SUBSET Threads
      /\ writing \in BOOLEAN /\ failed \in BOOLEAN /\ next \in Nat
      /\ main \in {"table", "plan", "open", "spawn", "join", "joined"}
      /\ exit \in {"none", "ok", "failed", "refused"}
  BY DEF Init
<1>7. QED
  BY <1>2, <1>3, <1>4, <1>5, <1>6 DEF TypeOK

LEMMA TypeMainStep ==
  ASSUME TypeOK, MainStep
  PROVE  TypeOK'
<1> USE DEF TypeOK, Exit, image, workerVars, mainVars
<1>1. CASE ReadSeekTable \/ RefuseTable \/ OpenTarget \/ SetupRefuses \/ SetupFails
  BY <1>1 DEF ReadSeekTable, RefuseTable, OpenTarget, SetupRefuses, SetupFails
<1>2. CASE PlanOrder
  BY <1>2 DEF PlanOrder, Orders
<1>3. ASSUME NEW t \in Threads, SpawnWorker(t)
      PROVE  TypeOK'
  BY <1>3 DEF SpawnWorker
<1>4. CASE EndSpawn \/ NoWorker \/ JoinWorkers \/ ReportFailure \/ SyncFails
  BY <1>4 DEF EndSpawn, NoWorker, JoinWorkers, ReportFailure, SyncFails
<1>5. CASE SyncTarget
  BY <1>5 DEF SyncTarget
<1>6. QED
  BY <1>1, <1>2, <1>3, <1>4, <1>5 DEF MainStep

LEMMA TypeWorkerStep ==
  ASSUME TypeOK, NEW t \in Threads, WorkerStep(t)
  PROVE  TypeOK'
<1> USE DEF TypeOK, image, mainVars, Goto, Fails
<1>1. CASE StartWorker(t) \/ OutOfMemory(t) \/ CheckFailed(t)
  BY <1>1 DEF StartWorker, OutOfMemory, CheckFailed
<1>2. CASE TakeSlot(t)
  <2>1. next < NFrames => next \in Slots
    BY NFramesAssumption DEF Slots, Frames
  <2>2. next' \in Nat /\ slot' \in [Threads -> Slots]
    BY <1>2, <2>1, NFramesAssumption DEF TakeSlot
  <2>3. QED
    BY <1>2, <2>2 DEF TakeSlot
<1>3. CASE SkipZero(t) \/ DecodeFrame(t) \/ DecodeFails(t)
  BY <1>3 DEF SkipZero, DecodeFrame, DecodeFails
<1>4. CASE WriteSome(t) \/ WriteFrame(t) \/ WriteFails(t)
  BY <1>4 DEF WriteSome, WriteFrame, WriteFails
<1>5. QED
  BY <1>1, <1>2, <1>3, <1>4 DEF WorkerStep

\* Every variable keeps its type, whatever the image holds and whoever fails.
THEOREM TypeCorrect == Spec => []TypeOK
<1>1. TypeOK /\ [Next]_vars => TypeOK'
  <2> SUFFICES ASSUME TypeOK, [Next]_vars PROVE TypeOK'
    OBVIOUS
  <2>1. CASE MediumReadError
    BY <2>1 DEF MediumReadError, Exit, TypeOK, image, workerVars, mainVars
  <2>2. CASE UNCHANGED vars
    BY <2>2 DEF vars, TypeOK
  <2>3. QED
    BY <2>1, <2>2, TypeMainStep, TypeWorkerStep DEF Next, Exited
<1>2. QED
  BY TypeInit, <1>1, PTL DEF Spec

-----------------------------------------------------------------------------
(***************************************************************************)
(* The inductive invariant is one.                                         *)
(***************************************************************************)
LEMMA InvInit == Init => IInv
<1> SUFFICES ASSUME Init PROVE IInv
  OBVIOUS
<1>1. PlanMade
  BY DEF Init, PlanMade
<1>2. NothingBeforeWriting /\ StartedWorkers
  BY DEF Init, NothingBeforeWriting, StartedWorkers
<1>3. SlotsOwned /\ SlotsSettled /\ DoneMeansOver /\ OkMeansComplete
  BY DEF Init, SlotsOwned, SlotsSettled, DoneMeansOver, OkMeansComplete, Working
<1>4. QED
  BY <1>1, <1>2, <1>3, TypeInit DEF IInv

\* Leaving the process disturbs nothing the workers rely on.
LEMMA InvExit ==
  ASSUME IInv, NEW status \in {"failed", "refused"}, Exit(status), TypeOK',
         status = "refused" => ~writing
  PROVE  IInv'
<1> USE DEF Exit, image, workerVars, mainVars
<1>1. PlanMade' /\ NothingBeforeWriting' /\ StartedWorkers'
  BY DEF IInv, PlanMade, IsPlan, NothingBeforeWriting, StartedWorkers
<1>2. SlotsOwned' /\ DoneMeansOver'
  BY DEF IInv, SlotsOwned, DoneMeansOver, Working, FrameOf
<1>3. SlotsSettled'
  BY DEF IInv, SlotsSettled, Settled, Held, Working, Copy!IsZero
<1>4. OkMeansComplete'
  BY DEF OkMeansComplete
<1>5. QED
  BY <1>1, <1>2, <1>3, <1>4 DEF IInv

\* A step of the main thread that leaves the workers, what they share and the
\* exit status alone disturbs none of what speaks of them only.
LEMMA InvMainOnly ==
  ASSUME IInv, UNCHANGED <<image, workerVars, exit, flushed>>, exit = "none"
  PROVE  /\ DoneMeansOver' /\ OkMeansComplete'
         /\ order' = order => SlotsOwned'
         /\ order' = order /\ writing' = writing => SlotsSettled'
<1> USE DEF IInv, image, workerVars
<1>1. DoneMeansOver' /\ OkMeansComplete'
  BY DEF DoneMeansOver, OkMeansComplete
<1>2. order' = order => SlotsOwned'
  BY DEF SlotsOwned, Working, FrameOf
<1>3. order' = order /\ writing' = writing => SlotsSettled'
  BY DEF SlotsSettled, Settled, Held, Working, Copy!IsZero
<1>4. QED
  BY <1>1, <1>2, <1>3

LEMMA InvMainStep ==
  ASSUME IInv, MainStep, TypeOK'
  PROVE  IInv'
<1> USE DEF image, mainVars
<1>1. CASE ReadSeekTable
  <2>1. PlanMade' /\ NothingBeforeWriting' /\ StartedWorkers'
    BY <1>1 DEF ReadSeekTable, IInv, PlanMade, NothingBeforeWriting, StartedWorkers, workerVars
  <2>2. QED
    BY <1>1, <2>1, InvMainOnly DEF ReadSeekTable, IInv
<1>2. CASE PlanOrder
  <2>1. IsPlan(order')
    BY <1>2, OrdersArePlans DEF PlanOrder
  <2>2. PlanMade' /\ NothingBeforeWriting' /\ StartedWorkers'
    BY <1>2, <2>1 DEF PlanOrder, IInv, PlanMade, IsPlan, NothingBeforeWriting, StartedWorkers, workerVars
  <2>3. \A t \in Threads : pc[t] = "new" /\ pc'[t] = "new"
    BY <1>2 DEF PlanOrder, IInv, NothingBeforeWriting, StartedWorkers, workerVars
  <2>4. SlotsOwned' /\ SlotsSettled'
    BY <1>2, <2>3 DEF PlanOrder, IInv, SlotsOwned, SlotsSettled, NothingBeforeWriting, Working
  <2>5. QED
    BY <1>2, <2>2, <2>4, InvMainOnly DEF PlanOrder, IInv
<1>3. CASE OpenTarget
  <2>1. PlanMade' /\ NothingBeforeWriting' /\ StartedWorkers'
    BY <1>3 DEF OpenTarget, IInv, PlanMade, IsPlan, NothingBeforeWriting, StartedWorkers, workerVars
  <2>2. SlotsSettled'
    BY <1>3, NFramesAssumption DEF OpenTarget, IInv, SlotsSettled, NothingBeforeWriting, workerVars, Slots, Frames
  <2>3. QED
    BY <1>3, <2>1, <2>2, InvMainOnly DEF OpenTarget, IInv
<1>4. ASSUME NEW t \in Threads, SpawnWorker(t)
      PROVE  IInv'
  <2>0. pc[t] = "new" /\ pc' = [pc EXCEPT ![t] = "start"]
    BY <1>4 DEF SpawnWorker, IInv, StartedWorkers
  <2>1. PlanMade' /\ NothingBeforeWriting'
    BY <1>4 DEF SpawnWorker, IInv, PlanMade, IsPlan, NothingBeforeWriting
  <2>2. StartedWorkers'
    BY <1>4, <2>0 DEF SpawnWorker, IInv, StartedWorkers, TypeOK
  <2>3. \A u \in Threads : Working(u) <=> Working(u)'
    BY <2>0 DEF Working, IInv, TypeOK
  <2>4. SlotsOwned'
    BY <1>4, <2>0, <2>3 DEF SpawnWorker, IInv, SlotsOwned, FrameOf, Working, TypeOK
  <2>5. SlotsSettled'
    BY <1>4, <2>3 DEF SpawnWorker, IInv, SlotsSettled, Settled, Held, Copy!IsZero
  <2>6. DoneMeansOver' /\ OkMeansComplete'
    BY <1>4, <2>0 DEF SpawnWorker, IInv, DoneMeansOver, OkMeansComplete, TypeOK
  <2>7. QED
    BY <2>1, <2>2, <2>4, <2>5, <2>6 DEF IInv
<1>5. CASE EndSpawn \/ JoinWorkers
  <2>1. PlanMade' /\ NothingBeforeWriting' /\ StartedWorkers'
    BY <1>5 DEF EndSpawn, JoinWorkers, IInv, PlanMade, IsPlan, NothingBeforeWriting, StartedWorkers, workerVars
  <2>2. QED
    BY <1>5, <2>1, InvMainOnly DEF EndSpawn, JoinWorkers, IInv
<1>6. CASE SyncTarget
  <2> USE <1>6 DEF SyncTarget, workerVars
  <2>1. PlanMade' /\ NothingBeforeWriting' /\ StartedWorkers'
    BY DEF IInv, PlanMade, IsPlan, NothingBeforeWriting, StartedWorkers
  <2>2. SlotsOwned' /\ DoneMeansOver'
    BY DEF IInv, SlotsOwned, DoneMeansOver, Working, FrameOf
  <2>3. SlotsSettled'
    BY DEF IInv, SlotsSettled, Settled, Held, Working, Copy!IsZero
  <2>4. next >= NFrames /\ \A t \in Threads : ~Working(t)
    BY DEF IInv, StartedWorkers, DoneMeansOver, Working, TypeOK
  <2>5. \A s \in Slots : s < next
    BY <2>4, NFramesAssumption DEF Slots, Frames, IInv, TypeOK
  <2>6. \A s \in Slots : Copy!IsZero(order[s]) \/ target[order[s]] = "image"
    BY <2>4, <2>5 DEF IInv, SlotsSettled, Settled, Held, NothingBeforeWriting
  <2>7. Copy!Complete
    BY <2>6 DEF Copy!Complete, IInv, PlanMade, IsPlan
  <2>8. OkMeansComplete'
    BY <2>7 DEF OkMeansComplete, Copy!Complete, Copy!IsZero, Copy!OnTarget
  <2>9. QED
    BY <2>1, <2>2, <2>3, <2>8 DEF IInv
<1>7. CASE RefuseTable \/ SetupRefuses \/ SetupFails \/ NoWorker \/ ReportFailure \/ SyncFails
  BY <1>7, InvExit DEF RefuseTable, SetupRefuses, SetupFails, NoWorker, ReportFailure,
                       SyncFails, IInv, NothingBeforeWriting
<1>8. QED
  BY <1>1, <1>2, <1>3, <1>4, <1>5, <1>6, <1>7 DEF MainStep

\* A worker's step moves that worker only, and none of the main thread's state.
LEMMA InvWorkerOther ==
  ASSUME IInv, TypeOK', NEW t \in Threads, pc[t] \notin {"new", "done"},
         \E label \in {"loop", "take", "frame", "decoded", "done"} : Goto(t, label),
         UNCHANGED <<image, mainVars, exit>>, exit = "none"
  PROVE  PlanMade' /\ StartedWorkers' /\ OkMeansComplete' /\ writing
<1> USE DEF image, mainVars, IInv, Goto, TypeOK
<1>1. PlanMade' /\ OkMeansComplete'
  BY DEF PlanMade, IsPlan, OkMeansComplete
<1>2. t \in started /\ writing
  BY DEF StartedWorkers, NothingBeforeWriting
<1>3. StartedWorkers'
  BY <1>2 DEF StartedWorkers
<1>4. QED
  BY <1>1, <1>2, <1>3

\* A worker that gives up raises `failed`, which releases every other promise.
LEMMA InvFails ==
  ASSUME IInv, TypeOK', NEW t \in Threads, pc[t] \notin {"new", "done"}, Fails(t), exit = "none"
  PROVE  IInv'
<1> USE DEF Fails
<1>1. PlanMade' /\ StartedWorkers' /\ OkMeansComplete' /\ writing
  BY InvWorkerOther
<1>2. NothingBeforeWriting'
  BY <1>1 DEF IInv, NothingBeforeWriting, mainVars
<1>3. \A u \in Threads : Working(u)' => Working(u)
  BY DEF Working, Goto, IInv, TypeOK
<1>4. SlotsOwned'
  BY <1>3 DEF IInv, SlotsOwned, FrameOf, Goto, TypeOK, mainVars, image
<1>5. SlotsSettled' /\ DoneMeansOver'
  BY DEF SlotsSettled, DoneMeansOver
<1>6. QED
  BY <1>1, <1>2, <1>4, <1>5 DEF IInv

LEMMA InvWorkerStep ==
  ASSUME IInv, TypeOK', NEW t \in Threads, WorkerStep(t)
  PROVE  IInv'
<1>1. CASE OutOfMemory(t) \/ DecodeFails(t) \/ WriteFails(t)
  BY <1>1, InvFails DEF OutOfMemory, DecodeFails, WriteFails
<1>2. CASE StartWorker(t) \/ CheckFailed(t)
  <2> USE <1>2 DEF StartWorker, CheckFailed
  <2>1. PlanMade' /\ StartedWorkers' /\ OkMeansComplete' /\ writing
    BY InvWorkerOther
  <2>2. NothingBeforeWriting'
    BY <2>1 DEF IInv, NothingBeforeWriting, mainVars
  <2>3. \A u \in Threads : Working(u)' <=> Working(u)
    BY DEF Working, Goto, IInv, TypeOK
  <2>4. SlotsOwned'
    BY <2>3 DEF IInv, SlotsOwned, FrameOf, Goto, TypeOK, mainVars, image
  <2>5. SlotsSettled'
    BY <2>3 DEF IInv, SlotsSettled, Settled, Held, Copy!IsZero, image, mainVars
  <2>6. DoneMeansOver'
    BY DEF IInv, DoneMeansOver, Goto, TypeOK
  <2>7. QED
    BY <2>1, <2>2, <2>4, <2>5, <2>6 DEF IInv
<1>3. CASE TakeSlot(t) /\ next >= NFrames
  <2> USE <1>3 DEF TakeSlot
  <2>1. PlanMade' /\ StartedWorkers' /\ OkMeansComplete' /\ writing
    BY InvWorkerOther
  <2>2. NothingBeforeWriting'
    BY <2>1 DEF IInv, NothingBeforeWriting, mainVars
  <2>3. next \in Nat /\ NFrames \in Nat
    BY NFramesAssumption DEF IInv, TypeOK
  <2>4. \A u \in Threads : Working(u)' <=> Working(u)
    BY DEF Working, Goto, IInv, TypeOK
  <2>5. SlotsOwned'
    <3>1. \A u \in Threads : slot'[u] = slot[u] /\ slot[u] \in Nat
      BY NFramesAssumption DEF IInv, TypeOK, Slots, Frames
    <3>2. \A u \in Threads : Working(u)' => slot'[u] < next'
      BY <2>3, <2>4, <3>1 DEF IInv, SlotsOwned
    <3>3. \A u, v \in Threads : u # v /\ Working(u)' /\ Working(v)' => slot'[u] # slot'[v]
      BY <2>4, <3>1 DEF IInv, SlotsOwned
    <3>4. \A u \in Threads : pc'[u] = "decoded" => kind'[FrameOf(u)'] = "data"
      BY DEF IInv, SlotsOwned, FrameOf, Goto, TypeOK, mainVars, image
    <3>5. QED
      BY <3>2, <3>3, <3>4 DEF SlotsOwned
  <2>6. \A s \in Slots : s < next
    BY <2>3 DEF Slots, Frames
  <2>7. SlotsSettled'
    BY <2>1, <2>4, <2>6 DEF IInv, SlotsSettled, Settled, Held, Copy!IsZero, image, mainVars
  <2>8. DoneMeansOver'
    BY <2>3 DEF IInv, DoneMeansOver, Goto, TypeOK
  <2>9. QED
    BY <2>1, <2>2, <2>5, <2>7, <2>8 DEF IInv
<1>4. CASE TakeSlot(t) /\ ~(next >= NFrames)
  <2> USE <1>4 DEF TakeSlot
  <2>1. PlanMade' /\ StartedWorkers' /\ OkMeansComplete' /\ writing
    BY InvWorkerOther
  <2>2. NothingBeforeWriting'
    BY <2>1 DEF IInv, NothingBeforeWriting, mainVars
  <2>3. next \in Slots /\ next \in Nat /\ slot'[t] = next /\ Working(t)' /\ ~Working(t)
    BY NFramesAssumption DEF IInv, TypeOK, Slots, Frames, Working, Goto
  <2>4. \A u \in Threads \ {t} : (Working(u)' <=> Working(u)) /\ slot'[u] = slot[u]
    BY DEF Working, Goto, IInv, TypeOK
  <2>5. \A u \in Threads : slot[u] \in Nat
    BY NFramesAssumption DEF IInv, TypeOK, Slots, Frames
  <2>6. SlotsOwned'
    <3>1. \A u \in Threads : Working(u)' => slot'[u] < next'
      BY <2>3, <2>4, <2>5 DEF IInv, SlotsOwned
    <3>2. \A u, v \in Threads : u # v /\ Working(u)' /\ Working(v)' => slot'[u] # slot'[v]
      BY <2>3, <2>4, <2>5 DEF IInv, SlotsOwned
    <3>3. \A u \in Threads : pc'[u] = "decoded" => kind'[FrameOf(u)'] = "data"
      BY <2>3, <2>4 DEF IInv, SlotsOwned, FrameOf, Goto, TypeOK, mainVars, image
    <3>4. QED
      BY <3>1, <3>2, <3>3 DEF SlotsOwned
  <2>7. SlotsSettled'
    <3> SUFFICES ASSUME ~failed', NEW s \in Slots, s < next'
                 PROVE  Settled(s)'
      BY DEF SlotsSettled
    <3>1. CASE s = next
      BY <3>1, <2>3 DEF Settled, Held
    <3>2. CASE s # next
      <4>1. Settled(s)
        BY <3>2, <2>1, <2>3, NFramesAssumption DEF IInv, SlotsSettled, Slots, Frames
      <4>2. Held(s) => Held(s)'
        BY <2>3, <2>4 DEF Held
      <4>3. QED
        BY <4>1, <4>2 DEF Settled, Copy!IsZero, image, mainVars
    <3>3. QED
      BY <3>1, <3>2
  <2>8. DoneMeansOver'
    BY <2>3, NFramesAssumption DEF IInv, DoneMeansOver, Goto, TypeOK
  <2>9. QED
    BY <2>1, <2>2, <2>6, <2>7, <2>8 DEF IInv
<1>5. CASE SkipZero(t) \/ WriteFrame(t)
  <2> USE <1>5 DEF SkipZero, WriteFrame
  <2>0. slot[t] \in Slots /\ Working(t) /\ ~Working(t)'
    BY DEF IInv, TypeOK, Working, Goto
  <2>1. PlanMade' /\ StartedWorkers' /\ OkMeansComplete' /\ writing
    BY InvWorkerOther
  <2>2. NothingBeforeWriting'
    BY <2>1 DEF IInv, NothingBeforeWriting, mainVars
  <2>3. \A u \in Threads \ {t} : Working(u)' <=> Working(u)
    BY DEF Working, Goto, IInv, TypeOK
  <2>4. SlotsOwned'
    <3>1. \A u \in Threads : Working(u)' => slot'[u] < next'
      BY <2>0, <2>3 DEF IInv, SlotsOwned
    <3>2. \A u, v \in Threads : u # v /\ Working(u)' /\ Working(v)' => slot'[u] # slot'[v]
      BY <2>0, <2>3 DEF IInv, SlotsOwned
    <3>3. \A u \in Threads : pc'[u] = "decoded" => kind'[FrameOf(u)'] = "data"
      BY <2>0 DEF IInv, SlotsOwned, FrameOf, Goto, TypeOK, mainVars, image
    <3>4. QED
      BY <3>1, <3>2, <3>3 DEF SlotsOwned
  <2>5. Copy!IsZero(FrameOf(t))' \/ target'[FrameOf(t)'] = "image"
    <3>1. FrameOf(t) \in Frames /\ FrameOf(t)' = FrameOf(t)
      BY <2>0, <2>1 DEF IInv, PlanMade, NothingBeforeWriting, IsPlan, FrameOf, mainVars
    <3>2. CASE SkipZero(t)
      BY <3>1, <3>2 DEF Copy!IsZero, image
    <3>3. CASE WriteFrame(t)
      BY <3>1, <3>3 DEF IInv, TypeOK
    <3>4. QED
      BY <3>2, <3>3
  <2>6. SlotsSettled'
    <3> SUFFICES ASSUME ~failed', NEW s \in Slots, s < next'
                 PROVE  Settled(s)'
      BY DEF SlotsSettled
    <3>1. CASE s = slot[t]
      BY <3>1, <2>5 DEF Settled, FrameOf
    <3>2. CASE s # slot[t]
      <4>1. Settled(s)
        BY <2>1 DEF IInv, SlotsSettled
      <4>2. Held(s) => Held(s)'
        BY <3>2, <2>3 DEF Held
      <4>3. order[s] \in Frames
        BY <2>1 DEF IInv, PlanMade, NothingBeforeWriting, IsPlan
      <4>4. target[order[s]] = "image" => target'[order[s]] = "image"
        BY <4>3 DEF IInv, TypeOK
      <4>5. QED
        BY <4>1, <4>2, <4>4 DEF Settled, Copy!IsZero, image, mainVars
    <3>3. QED
      BY <3>1, <3>2
  <2>7. DoneMeansOver'
    BY DEF IInv, DoneMeansOver, Goto, TypeOK
  <2>8. QED
    BY <2>1, <2>2, <2>4, <2>6, <2>7 DEF IInv
<1>6. CASE DecodeFrame(t)
  <2> USE <1>6 DEF DecodeFrame
  <2>1. PlanMade' /\ StartedWorkers' /\ OkMeansComplete' /\ writing
    BY InvWorkerOther
  <2>2. NothingBeforeWriting'
    BY <2>1 DEF IInv, NothingBeforeWriting, mainVars
  <2>3. \A u \in Threads : Working(u)' <=> Working(u)
    BY DEF Working, Goto, IInv, TypeOK
  <2>4. SlotsOwned'
    BY <2>3 DEF IInv, SlotsOwned, FrameOf, Goto, TypeOK, mainVars, image
  <2>5. SlotsSettled' /\ DoneMeansOver'
    BY <2>3 DEF IInv, SlotsSettled, DoneMeansOver, Settled, Held, Copy!IsZero, Goto, TypeOK, image, mainVars
  <2>6. QED
    BY <2>1, <2>2, <2>4, <2>5 DEF IInv
<1>7. CASE WriteSome(t)
  <2> USE <1>7 DEF WriteSome, mainVars, image
  <2>1. writing
    BY DEF IInv, StartedWorkers, NothingBeforeWriting
  <2>2. PlanMade' /\ StartedWorkers' /\ NothingBeforeWriting' /\ DoneMeansOver' /\ OkMeansComplete'
    BY <2>1 DEF IInv, PlanMade, IsPlan, StartedWorkers, NothingBeforeWriting, DoneMeansOver, OkMeansComplete
  <2>3. SlotsOwned'
    BY DEF IInv, SlotsOwned, Working, FrameOf
  <2>4. SlotsSettled'
    <3> SUFFICES ASSUME ~failed, NEW s \in Slots, s < next
                 PROVE  Settled(s)'
      BY DEF SlotsSettled
    <3>1. Settled(s)
      BY <2>1 DEF IInv, SlotsSettled
    <3>2. order[s] \in Frames /\ target[FrameOf(t)] = "old"
      BY <2>1 DEF IInv, PlanMade, NothingBeforeWriting, IsPlan
    <3>3. target[order[s]] = "image" => target'[order[s]] = "image"
      BY <3>2 DEF IInv, TypeOK
    <3>4. QED
      BY <3>1, <3>3 DEF Settled, Held, Working, Copy!IsZero
  <2>5. QED
    BY <2>2, <2>3, <2>4 DEF IInv
<1>8. QED
  BY <1>1, <1>2, <1>3, <1>4, <1>5, <1>6, <1>7 DEF WorkerStep

LEMMA InvStep == IInv /\ TypeOK' /\ [Next]_vars => IInv'
<1> SUFFICES ASSUME IInv, TypeOK', [Next]_vars PROVE IInv'
  OBVIOUS
<1>1. CASE MediumReadError
  BY <1>1, InvExit DEF MediumReadError
<1>2. CASE UNCHANGED vars
  <2> USE <1>2 DEF vars, IInv
  <2>1. PlanMade' /\ NothingBeforeWriting' /\ StartedWorkers' /\ DoneMeansOver'
    BY DEF PlanMade, IsPlan, NothingBeforeWriting, StartedWorkers, DoneMeansOver
  <2>2. SlotsOwned' /\ SlotsSettled'
    BY DEF SlotsOwned, SlotsSettled, Settled, Held, Working, FrameOf, Copy!IsZero
  <2>3. OkMeansComplete'
    BY DEF OkMeansComplete, Copy!Complete, Copy!IsZero, Copy!OnTarget
  <2>4. QED
    BY <2>1, <2>2, <2>3
<1>3. QED
  BY <1>1, <1>2, InvMainStep, InvWorkerStep DEF Next, Exited

THEOREM InvCorrect == Spec => []IInv
  BY InvInit, InvStep, TypeCorrect, PTL DEF Spec

-----------------------------------------------------------------------------
(***************************************************************************)
(* What the exit status promises.                                          *)
(***************************************************************************)
\* Exit 0: every frame that is not zeros is on the device and durable, for any
\* number of workers and any interleaving of them.
THEOREM WrittenIsDurable == Spec => []WrittenMeansDurable
<1>1. IInv => WrittenMeansDurable
  BY DEF IInv, OkMeansComplete, WrittenMeansDurable, Copy!Complete, Copy!OnTarget, Copy!IsZero
<1>2. QED
  BY <1>1, InvCorrect, PTL

\* Exit 2: nothing was written, so the caller's other way starts clean.
THEOREM RefusedIsUntouched == Spec => []RefusedMeansUntouched
<1>1. IInv => RefusedMeansUntouched
  BY DEF IInv, NothingBeforeWriting, RefusedMeansUntouched
<1>2. QED
  BY <1>1, InvCorrect, PTL

\* No frame is in two workers' hands.
THEOREM WorkersDoNotShareFrames == Spec => []OneWorkerPerFrame
<1>1. IInv => OneWorkerPerFrame
  <2> SUFFICES ASSUME IInv, NEW t \in Threads, NEW u \in Threads, t # u, Working(t), Working(u)
               PROVE  FrameOf(t) # FrameOf(u)
    BY DEF OneWorkerPerFrame
  <2>1. slot[t] \in Slots /\ slot[u] \in Slots /\ slot[t] # slot[u]
    BY DEF IInv, SlotsOwned, TypeOK
  <2>2. IsPlan(order)
    BY DEF IInv, StartedWorkers, NothingBeforeWriting, PlanMade, Working
  <2>3. QED
    BY <2>1, <2>2 DEF IsPlan, FrameOf
<1>2. QED
  BY <1>1, InvCorrect, PTL

-----------------------------------------------------------------------------
(***************************************************************************)
(* Refinement: the abstract copy's variables are variables of ImageWrite.  *)
(***************************************************************************)
LEMMA ExitIsCopyStep ==
  ASSUME IInv, NEW status \in {"failed", "refused"}, Exit(status), status = "refused" => ~writing
  PROVE  Copy!Next
<1>1. CASE status = "failed"
  BY <1>1 DEF Exit, Copy!Next, Copy!Fail, image, workerVars, mainVars
<1>2. CASE status = "refused"
  <2>1. \A k \in Frames : target[k] = "old"
    BY <1>2 DEF IInv, NothingBeforeWriting
  <2>2. Copy!Refuse
    BY <1>2, <2>1 DEF Exit, Copy!Refuse, image, workerVars, mainVars
  <2>3. QED
    BY <2>2 DEF Copy!Next
<1>3. QED
  BY <1>1, <1>2

LEMMA MainStepIsCopyStep ==
  ASSUME IInv, IInv', MainStep
  PROVE  Copy!Next \/ UNCHANGED Copy!copyVars
<1>1. CASE ReadSeekTable \/ PlanOrder \/ OpenTarget \/ EndSpawn \/ JoinWorkers
  BY <1>1 DEF ReadSeekTable, PlanOrder, OpenTarget, EndSpawn, JoinWorkers, Copy!copyVars, image, workerVars
<1>2. ASSUME NEW t \in Threads, SpawnWorker(t)
      PROVE  UNCHANGED Copy!copyVars
  BY <1>2 DEF SpawnWorker, Copy!copyVars, image
<1>3. CASE SyncTarget
  <2>1. Copy!Complete
    BY <1>3 DEF SyncTarget, IInv, OkMeansComplete, Copy!Complete, Copy!IsZero, image, workerVars
  <2>2. Copy!Succeed
    BY <1>3, <2>1 DEF SyncTarget, Copy!Succeed, Copy!OnTarget, image, workerVars
  <2>3. QED
    BY <2>2 DEF Copy!Next
<1>4. CASE RefuseTable \/ SetupRefuses \/ SetupFails \/ NoWorker \/ ReportFailure \/ SyncFails
  BY <1>4, ExitIsCopyStep DEF RefuseTable, SetupRefuses, SetupFails, NoWorker, ReportFailure,
                              SyncFails, IInv, NothingBeforeWriting
<1>5. QED
  BY <1>1, <1>2, <1>3, <1>4 DEF MainStep

LEMMA WorkerStepIsCopyStep ==
  ASSUME IInv, NEW t \in Threads, WorkerStep(t)
  PROVE  Copy!Next \/ UNCHANGED Copy!copyVars
<1> USE DEF image, mainVars
<1>1. CASE StartWorker(t) \/ OutOfMemory(t) \/ CheckFailed(t) \/ TakeSlot(t)
  BY <1>1 DEF StartWorker, OutOfMemory, CheckFailed, TakeSlot, Fails, Copy!copyVars
<1>2. CASE SkipZero(t) \/ DecodeFrame(t) \/ DecodeFails(t) \/ WriteFails(t)
  BY <1>2 DEF SkipZero, DecodeFrame, DecodeFails, WriteFails, Fails, Copy!copyVars
<1>3. CASE WriteSome(t) \/ WriteFrame(t)
  <2>1. pc[t] = "decoded" /\ exit = "none"
    BY <1>3 DEF WriteSome, WriteFrame
  <2>2. FrameOf(t) \in Frames /\ kind[FrameOf(t)] = "data"
    BY <2>1 DEF IInv, TypeOK, SlotsOwned, StartedWorkers, NothingBeforeWriting, PlanMade, IsPlan, FrameOf
  <2>3. Copy!Put(FrameOf(t))
    BY <1>3, <2>1, <2>2 DEF WriteSome, WriteFrame, Copy!Put
  <2>4. QED
    BY <2>2, <2>3 DEF Copy!Next
<1>4. QED
  BY <1>1, <1>2, <1>3 DEF WorkerStep

\* The threads, the shared counter and the flag together do what one copy of
\* the image promises.
THEOREM ThreadsImplementCopy == Spec => ImplementsCopy
<1>1. Init => Copy!Init
  BY DEF Init, Copy!Init
<1>2. IInv /\ IInv' /\ [Next]_vars => [Copy!Next]_(Copy!copyVars)
  <2> SUFFICES ASSUME IInv, IInv', [Next]_vars
               PROVE  Copy!Next \/ UNCHANGED Copy!copyVars
    OBVIOUS
  <2>1. CASE MediumReadError
    BY <2>1, ExitIsCopyStep DEF MediumReadError
  <2>2. CASE UNCHANGED vars
    BY <2>2 DEF vars, Copy!copyVars
  <2>3. QED
    BY <2>1, <2>2, MainStepIsCopyStep, WorkerStepIsCopyStep DEF Next, Exited
<1>3. QED
  BY <1>1, <1>2, InvCorrect, PTL DEF Spec, Copy!Spec, ImplementsCopy
=============================================================================
