----------------------------- MODULE ImageWrite -----------------------------
(***************************************************************************)
(* omarchy-image-write's `write` (builder/omarchy-image-write.c): the main *)
(* thread checks the image and opens the target, starts workers, joins     *)
(* them and syncs; each worker takes the next slot of `order` from a       *)
(* shared counter, decodes that frame and writes it in place, until the    *)
(* slots run out or any of them has failed.                                *)
(*                                                                         *)
(* An action is the code between two accesses to what the threads share.   *)
(* A read error on the medium arrives as SIGBUS in whichever thread was    *)
(* reading the mapped image, and ends the process.                         *)
(***************************************************************************)
EXTENDS Naturals

CONSTANTS
  NFrames,   \* frames in the image
  Threads    \* the worker threads asked for

ASSUME NFramesAssumption == NFrames \in Nat \ {0}
ASSUME ThreadsAssumption == Threads # {}

Frames == 0 .. (NFrames - 1)
Slots  == Frames    \* positions in `order`

VARIABLES
  kind,      \* what each frame of the image holds
  valid,     \* the file ends in a seek table that covers it
  order,     \* the frames in the order they are written; <<>> until planned
  target,    \* each frame's place on the device
  flushed,   \* what fsync made durable
  writing,   \* the flag on_sigbus reads
  next,      \* next_frame
  failed,
  main,      \* where the main thread is
  started,   \* the workers pthread_create started
  pc,        \* where each worker is
  slot,      \* the slot each worker took last
  exit

vars == <<kind, valid, order, target, flushed, writing, next, failed, main,
          started, pc, slot, exit>>
image      == <<kind, valid>>
workerVars == <<pc, slot, next, failed, target>>
mainVars   == <<order, writing, main, started, flushed>>

Copy == INSTANCE ImageCopy

FrameOf(t) == order[slot[t]]
Working(t) == pc[t] \in {"frame", "decoded"}

Init ==
  /\ kind \in [Frames -> Copy!Kinds]
  /\ valid \in BOOLEAN
  /\ order = << >>
  /\ target = [k \in Frames |-> "old"]
  /\ flushed = {}
  /\ writing = FALSE
  /\ next = 0
  /\ failed = FALSE
  /\ main = "table"
  /\ started = {}
  /\ pc = [t \in Threads |-> "new"]
  /\ slot = [t \in Threads |-> 0]
  /\ exit = "none"

-----------------------------------------------------------------------------
(***************************************************************************)
(* The main thread.                                                        *)
(***************************************************************************)
Exit(status) ==
  /\ exit = "none"
  /\ exit' = status
  /\ UNCHANGED <<image, workerVars, mainVars>>

\* read_seek_table, with every reason to refuse the file folded into `valid`.
ReadSeekTable ==
  /\ main = "table" /\ exit = "none" /\ valid
  /\ main' = "plan"
  /\ UNCHANGED <<image, workerVars, order, writing, started, flushed, exit>>

RefuseTable == main = "table" /\ ~valid /\ Exit("refused")

\* Frame j comes before frame k in the plan: the cached ones first, and file
\* order within each class.
Earlier(cached, j, k) ==
  \/ j \in cached /\ k \notin cached
  \/ (j \in cached <=> k \in cached) /\ j < k

Orders(cached) ==
  {o \in [Slots -> Frames] :
     /\ \A k \in Frames : \E s \in Slots : o[s] = k
     /\ \A s, u \in Slots : s < u => Earlier(cached, o[s], o[u])}

\* plan_order, on the page cache's contents when the tool started.
PlanOrder ==
  /\ main = "plan" /\ exit = "none"
  /\ \E cached \in SUBSET Frames : order' \in Orders(cached)
  /\ main' = "open"
  /\ UNCHANGED <<image, workerVars, writing, started, flushed, exit>>

\* Mutant: `writing` is never raised.
OpenTargetQuietly ==
  /\ main = "open" /\ exit = "none"
  /\ main' = "spawn"
  /\ UNCHANGED <<image, workerVars, order, writing, started, flushed, exit>>

\* The target opened O_EXCL, large enough, and `writing` set.
OpenTarget ==
  /\ main = "open" /\ exit = "none"
  /\ writing' = TRUE
  /\ main' = "spawn"
  /\ UNCHANGED <<image, workerVars, order, started, flushed, exit>>

\* map_file and plan_order can refuse for want of a file or of memory;
\* encode_zero_frame and the target's checks fail instead.
SetupRefuses == main \in {"table", "plan"} /\ Exit("refused")
SetupFails   == main \in {"plan", "open"} /\ Exit("failed")

SpawnWorker(t) ==
  /\ main = "spawn" /\ exit = "none"
  /\ t \notin started
  /\ started' = started \cup {t}
  /\ pc' = [pc EXCEPT ![t] = "start"]
  /\ UNCHANGED <<image, slot, next, failed, target, order, writing, main, flushed, exit>>

\* Every worker asked for runs, or pthread_create has failed.
EndSpawn ==
  /\ main = "spawn" /\ exit = "none"
  /\ started # {}
  /\ main' = "join"
  /\ UNCHANGED <<image, workerVars, order, writing, started, flushed, exit>>

NoWorker == main = "spawn" /\ started = {} /\ Exit("failed")

\* Mutant: the main thread joins the first worker it finds done.
JoinOneWorker ==
  /\ main = "join" /\ exit = "none"
  /\ \E t \in started : pc[t] = "done"
  /\ main' = "joined"
  /\ UNCHANGED <<image, workerVars, order, writing, started, flushed, exit>>

\* Mutant: it joins as many workers as were asked for, not as were started.
JoinAllAskedFor ==
  /\ main = "join" /\ exit = "none"
  /\ \A t \in Threads : pc[t] = "done"
  /\ main' = "joined"
  /\ UNCHANGED <<image, workerVars, order, writing, started, flushed, exit>>

JoinWorkers ==
  /\ main = "join" /\ exit = "none"
  /\ \A t \in started : pc[t] = "done"
  /\ main' = "joined"
  /\ UNCHANGED <<image, workerVars, order, writing, started, flushed, exit>>

\* `if (atomic_load(&failed)) return FAILED`, then fsync and close.
ReportFailure == main = "joined" /\ failed /\ Exit("failed")

SyncTarget ==
  /\ main = "joined" /\ exit = "none" /\ ~failed
  /\ flushed' = {k \in Frames : target[k] = "image"}
  /\ exit' = "ok"
  /\ UNCHANGED <<image, workerVars, order, writing, main, started>>

SyncFails == main = "joined" /\ ~failed /\ Exit("failed")

-----------------------------------------------------------------------------
(***************************************************************************)
(* A worker.                                                               *)
(***************************************************************************)
Goto(t, label) == pc' = [pc EXCEPT ![t] = label]

StartWorker(t) ==
  /\ pc[t] = "start" /\ exit = "none"
  /\ Goto(t, "loop")
  /\ UNCHANGED <<image, mainVars, slot, next, failed, target, exit>>

\* fail(): the flag is raised and the worker leaves its loop.
Fails(t) ==
  /\ failed' = TRUE
  /\ Goto(t, "done")
  /\ UNCHANGED <<image, mainVars, slot, next, target, exit>>

OutOfMemory(t) == pc[t] = "start" /\ exit = "none" /\ Fails(t)

\* while (!atomic_load(&failed))
CheckFailed(t) ==
  /\ pc[t] = "loop" /\ exit = "none"
  /\ Goto(t, IF failed THEN "done" ELSE "take")
  /\ UNCHANGED <<image, mainVars, slot, next, failed, target, exit>>

\* Mutant: the last slot is one past the end of the plan.
TakeSlotPastEnd(t) ==
  /\ pc[t] = "take" /\ exit = "none"
  /\ next' = next + 1
  /\ IF next > NFrames
     THEN Goto(t, "done") /\ UNCHANGED slot
     ELSE Goto(t, "frame") /\ slot' = [slot EXCEPT ![t] = next]
  /\ UNCHANGED <<image, mainVars, failed, target, exit>>

\* Mutant: the counter is read here and advanced somewhere else.
TakeSlotUnclaimed(t) ==
  /\ pc[t] = "take" /\ exit = "none"
  /\ Goto(t, "frame")
  /\ slot' = [slot EXCEPT ![t] = next]
  /\ UNCHANGED <<image, mainVars, next, failed, target, exit>>

\* atomic_fetch_add(&next_frame, 1), which counts on past the last slot.
TakeSlot(t) ==
  /\ pc[t] = "take" /\ exit = "none"
  /\ next' = next + 1
  /\ IF next >= NFrames
     THEN Goto(t, "done") /\ UNCHANGED slot
     ELSE Goto(t, "frame") /\ slot' = [slot EXCEPT ![t] = next]
  /\ UNCHANGED <<image, mainVars, failed, target, exit>>

\* The compressed bytes are the encoding of zeros, or decode to zeros.
SkipZero(t) ==
  /\ pc[t] = "frame" /\ exit = "none"
  /\ Copy!IsZero(FrameOf(t))
  /\ Goto(t, "loop")
  /\ UNCHANGED <<image, mainVars, slot, next, failed, target, exit>>

DecodeFrame(t) ==
  /\ pc[t] = "frame" /\ exit = "none"
  /\ kind[FrameOf(t)] = "data"
  /\ Goto(t, "decoded")
  /\ UNCHANGED <<image, mainVars, slot, next, failed, target, exit>>

\* A zstd error, or a frame that decodes to another size.
DecodeFails(t) ==
  /\ pc[t] = "frame" /\ exit = "none"
  /\ kind[FrameOf(t)] = "bad"
  /\ Fails(t)

\* A short pwrite: pwrite_all goes round again.
WriteSome(t) ==
  /\ pc[t] = "decoded" /\ exit = "none"
  /\ target[FrameOf(t)] = "old"
  /\ target' = [target EXCEPT ![FrameOf(t)] = "part"]
  /\ UNCHANGED <<image, mainVars, pc, slot, next, failed, exit>>

WriteFrame(t) ==
  /\ pc[t] = "decoded" /\ exit = "none"
  /\ target' = [target EXCEPT ![FrameOf(t)] = "image"]
  /\ Goto(t, "loop")
  /\ UNCHANGED <<image, mainVars, slot, next, failed, exit>>

\* Mutant: the worker goes on to the next frame.
WriteErrorIgnored(t) ==
  /\ pc[t] = "decoded" /\ exit = "none"
  /\ Goto(t, "loop")
  /\ UNCHANGED <<image, mainVars, slot, next, failed, target, exit>>

WriteFails(t) == pc[t] = "decoded" /\ exit = "none" /\ Fails(t)

\* on_sigbus: the main thread reads the image while it plans, a worker while
\* it holds a frame.
MediumReadError ==
  /\ main = "table" \/ \E t \in Threads : pc[t] = "frame"
  /\ Exit(IF writing THEN "failed" ELSE "refused")

-----------------------------------------------------------------------------
MainStep ==
  \/ ReadSeekTable \/ RefuseTable \/ PlanOrder \/ OpenTarget
  \/ SetupRefuses \/ SetupFails
  \/ (\E t \in Threads : SpawnWorker(t)) \/ EndSpawn \/ NoWorker
  \/ JoinWorkers \/ ReportFailure \/ SyncTarget \/ SyncFails

WorkerStep(t) ==
  \/ StartWorker(t) \/ OutOfMemory(t) \/ CheckFailed(t) \/ TakeSlot(t)
  \/ SkipZero(t) \/ DecodeFrame(t) \/ DecodeFails(t)
  \/ WriteSome(t) \/ WriteFrame(t) \/ WriteFails(t)

\* The process is gone: nothing happens any more.
Exited == exit # "none" /\ UNCHANGED vars

Next == MainStep \/ (\E t \in Threads : WorkerStep(t)) \/ MediumReadError \/ Exited

\* The kernel schedules every runnable thread and completes every request.
Fairness == WF_vars(MainStep) /\ \A t \in Threads : WF_vars(WorkerStep(t))

Spec     == Init /\ [][Next]_vars
FairSpec == Spec /\ Fairness

-----------------------------------------------------------------------------
TypeOK ==
  /\ kind \in [Frames -> Copy!Kinds]
  /\ valid \in BOOLEAN
  /\ order \in {<< >>} \cup [Slots -> Frames]
  /\ target \in [Frames -> {"old", "part", "image"}]
  /\ flushed \in SUBSET Frames
  /\ writing \in BOOLEAN
  /\ next \in Nat
  /\ failed \in BOOLEAN
  /\ main \in {"table", "plan", "open", "spawn", "join", "joined"}
  /\ started \in SUBSET Threads
  /\ pc \in [Threads -> {"new", "start", "loop", "take", "frame", "decoded", "done"}]
  /\ slot \in [Threads -> Slots]
  /\ exit \in {"none", "ok", "failed", "refused"}

\* Exit 0 means every frame of the image that is not zeros is on the device and
\* durable, whichever worker had it and in whatever order they finished.
WrittenMeansDurable ==
  exit = "ok" => \A k \in Frames : Copy!IsZero(k) \/ k \in flushed

\* Exit 2 means nothing was written, so that the caller may write the image
\* through zstdcat | dd instead.
RefusedMeansUntouched ==
  exit = "refused" => \A k \in Frames : target[k] = "old"

\* No two workers ever hold the same frame.
OneWorkerPerFrame ==
  \A t, u \in Threads :
    t # u /\ Working(t) /\ Working(u) => FrameOf(t) # FrameOf(u)

\* Steps of the threads are steps, or stutterings, of the abstract copy.
ImplementsCopy == Copy!Spec

\* The tool always exits: no worker waits for another, and the last one out
\* lets the main thread go on.
AlwaysExits == <>(exit # "none")
=============================================================================
