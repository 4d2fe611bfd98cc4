-------------------------- MODULE InstallRunProofs --------------------------
(***************************************************************************)
(* What one run of the orchestrator keeps, for every kind of install and   *)
(* every way it can go: the steps of the main thread, the two threads, the *)
(* keyring unit, a failure at any step, one ^C and a kill.                 *)
(*                                                                         *)
(* The promises are about the end of the run, so their inductive invariant *)
(* says what is known at each step on the way: where an exception can be   *)
(* in flight, what the keyring unit can be doing, that the cache is off    *)
(* before the fstab is written, how the target's hook stands, and how far  *)
(* the two threads are.                                                    *)
(***************************************************************************)
EXTENDS InstallRun, TLAPS

\* The stretches of the run that the parts of the invariant speak of.
Begun    == {"partition", "bindCache", "recordCache", "moveLive", "maskLive", "packages",
             "unmaskLive", "unbindCache", "startKeyring"}
Prepared == {"zfsJoin", "zfsSign", "aarch64Join", "moveHook", "maskHook", "applySystem",
             "unmaskHook", "finalize"}
Pool     == {"bootResult", "userResult", "bothDone"}
Healed   == {"signingJoin", "readKeyring", "factoryJoin", "snapshot"}
Late     == Healed \cup {"configure", "assertHooks"}

USE DEF Begun, Prepared, Pool, Healed, Late, Finally, InPhases, Joins, Threads

\* Within the phases an exception is in flight in a finally block only, and the
\* exit status is the exception that reached main.
Out ==
  /\ raised # "none" /\ InPhases => pc \in {"unmaskLive", "unbindCache", "unmaskHook"}
  /\ exit = "none" <=> pc # "exited"
  /\ exit = "complete" => raised = "none"
  /\ exit = "error" => raised = "error"

\* Nothing is asked of systemd before startKeyring; from then on the main thread
\* has the client, waits for it, or has seen the unit succeed.  Only a ^C in the
\* wait, or a kill, leaves a busy unit to itself.
UnitKnown ==
  /\ pc \in Begun => unit \in {"none", "failedEarlier"} /\ ~proc
  /\ waiting => pc \in Joins /\ ~proc
  /\ waiting /\ pc = "zfsJoin" => install.zfs
  /\ waiting /\ pc \in {"aarch64Join", "signingJoin"} => install.aarch64
  /\ InPhases /\ pc \notin Begun /\ ~proc /\ ~waiting => unit = "ok"
  /\ Busy(unit) => proc \/ waiting \/ raised = "interrupt" \/ exit = "killed"
  /\ pc \in {"cleanBinds", "cleanMasks", "cleanStorage"} \/ exit \in {"complete", "error"} => ~proc
  /\ unit = "ok" => keyring = "whole"

\* Each user of the target's keyring comes after a join.
JoinedBefore ==
  /\ install.zfs /\ pc = "zfsSign" => ~proc
  /\ install.aarch64 /\ pc \in {"moveHook", "maskHook", "applySystem", "readKeyring"} => ~proc
  /\ pc = "snapshot" => ~proc

\* The offline mirror is off the target before its fstab is written.
CacheGone ==
  /\ pc \in {"startKeyring", "genfstab"} \cup Prepared \cup Pool \cup Late => ~cache
  /\ pc \in Prepared \cup Pool \cup Late => fstab = "clean"

\* A hook that is not in place has its backup, and past the assertion it is in
\* place.
HookKnown ==
  /\ hook = Restored \/ (hook.file \in {"absent", "null"} /\ hook.backup = "hook")
  /\ pc = "maskHook" => hook.backup = "hook"
  /\ pc \in Healed => hook = Restored
  /\ pc = "cleanStorage" \/ exit \in {"complete", "error"} => hook = Restored \/ maskStuck

\* The threads run while the pool is joined, the user's after the boot's where
\* they share the mounts; one that did not end well has its error kept.
ThreadsKnown ==
  /\ pc \in Begun \cup {"genfstab"} \cup Prepared => \A t \in Threads : thread[t] = "idle"
  /\ \A t \in Threads : thread[t] \in {"ready", "chroot"} => pc \in Pool
  /\ install.serial =>
       /\ pc = "bootResult" => thread["user"] = "idle"
       /\ pc \in {"userResult", "bothDone"} => Ended("boot")
  /\ errors = "none" =>
       /\ pc \in {"userResult", "bothDone"} => thread["boot"] = "done"
       /\ pc = "bothDone" => thread["user"] = "done"
  /\ pc \in Late => \A t \in Threads : thread[t] = "done"

\* Whoever leaves the phases without an exception has done everything; what
\* @factory holds, it holds from the snapshot on.
Completed ==
  /\ factory # "partial"
  /\ install.zfs => factory = "none"
  /\ raised = "none" /\ (pc \in Finally \/ exit = "complete") =>
       /\ hook = Restored
       /\ unit = "ok" /\ ~proc
       /\ install.zfs \/ trouble \/ factory = "whole"
       /\ fstab = "clean" /\ ~cache
       /\ \A t \in Threads : thread[t] = "done"

IInv ==
  /\ TypeOK /\ Out /\ UnitKnown /\ JoinedBefore /\ CacheGone /\ HookKnown
  /\ ThreadsKnown /\ Completed /\ ChrootsKeepTheirMounts

-----------------------------------------------------------------------------
(***************************************************************************)
(* The order of the steps.                                                 *)
(***************************************************************************)
\* The step that follows each step.
LEMMA Order ==
  /\ After["partition"] = "bindCache"
  /\ After["bindCache"] = "recordCache"
  /\ After["recordCache"] = "moveLive"
  /\ After["moveLive"] = "maskLive"
  /\ After["maskLive"] = "packages"
  /\ After["packages"] = "unmaskLive"
  /\ After["unmaskLive"] = "unbindCache"
  /\ After["unbindCache"] = "startKeyring"
  /\ After["startKeyring"] = "genfstab"
  /\ After["genfstab"] = "zfsJoin"
  /\ After["zfsJoin"] = "zfsSign"
  /\ After["zfsSign"] = "aarch64Join"
  /\ After["aarch64Join"] = "moveHook"
  /\ After["moveHook"] = "maskHook"
  /\ After["maskHook"] = "applySystem"
  /\ After["applySystem"] = "unmaskHook"
  /\ After["unmaskHook"] = "finalize"
  /\ After["finalize"] = "bootResult"
  /\ After["bootResult"] = "userResult"
  /\ After["userResult"] = "bothDone"
  /\ After["bothDone"] = "configure"
  /\ After["configure"] = "assertHooks"
  /\ After["assertHooks"] = "signingJoin"
  /\ After["signingJoin"] = "readKeyring"
  /\ After["readKeyring"] = "factoryJoin"
  /\ After["factoryJoin"] = "snapshot"
  /\ After["snapshot"] = "stopKeyring"
  /\ After["stopKeyring"] = "stopJoin"
  /\ After["stopJoin"] = "cleanBinds"
  /\ After["cleanBinds"] = "cleanMasks"
  /\ After["cleanMasks"] = "cleanStorage"
  /\ After["cleanStorage"] = "exited"
BY DEF After

\* Where the main thread can be.
LEMMA TheLabels ==
  Labels = {"partition", "bindCache", "recordCache", "moveLive", "maskLive",
            "packages", "unmaskLive", "unbindCache", "startKeyring", "genfstab",
            "zfsJoin", "zfsSign", "aarch64Join", "moveHook", "maskHook", "applySystem",
            "unmaskHook", "finalize", "bootResult", "userResult", "bothDone",
            "configure", "assertHooks", "signingJoin", "readKeyring", "factoryJoin",
            "snapshot", "stopKeyring", "stopJoin", "cleanBinds", "cleanMasks",
            "cleanStorage", "exited"}
BY DEF Labels, After

\* The steps that some installs leave out.
LEMMA AppliesWhere ==
  ASSUME NEW l
  PROVE  Applies(l) <=> /\ l \in {"zfsJoin", "zfsSign"} => install.zfs
                        /\ l \in {"aarch64Join", "signingJoin", "readKeyring"} => install.aarch64
BY Zenon DEF Applies

\* Where an exception goes.
LEMMA Handlers ==
  /\ Handler("packages") = "unmaskLive"
  /\ Handler("applySystem") = "unmaskHook"
  /\ \A l : l \notin {"packages", "applySystem"} => Handler(l) = "stopKeyring"
BY DEF Handler

-----------------------------------------------------------------------------
(***************************************************************************)
(* The invariant holds at first, and every step keeps it.  In each lemma   *)
(* the parts that need no more than themselves come together.              *)
(***************************************************************************)
LEMMA InitCorrect ==
  ASSUME Init
  PROVE  IInv
<1>1. TypeOK
  <2>1. live \in HookStates /\ hook \in HookStates
    BY DEF Init, HookStates, Restored
  <2>2. thread \in [Threads -> {"idle", "ready", "chroot", "done", "failed"}]
    BY DEF Init
  <2>3. pc \in Labels
    BY TheLabels DEF Init
  <2> QED
    BY <2>1, <2>2, <2>3 DEF Init, TypeOK
<1>2. Out /\ UnitKnown /\ JoinedBefore /\ CacheGone
  BY DEF Init, Out, UnitKnown, JoinedBefore, CacheGone, Busy
<1>3. HookKnown
  BY DEF Init, HookKnown
<1>4. ThreadsKnown /\ Completed /\ ChrootsKeepTheirMounts
  BY DEF Init, ThreadsKnown, Completed, ChrootsKeepTheirMounts
<1> QED
  BY <1>1, <1>2, <1>3, <1>4 DEF IInv

LEMMA BindCacheStep ==
  ASSUME IInv, BindCache
  PROVE  IInv'
<1>1. TypeOK'
  BY Order, TheLabels DEF At, BindCache, GoOn, IInv, TypeOK, masks, signing, threads
<1>2. Out' /\ UnitKnown' /\ JoinedBefore' /\ CacheGone' /\ HookKnown'
      /\ ThreadsKnown' /\ ChrootsKeepTheirMounts'
  BY Order DEF At, BindCache, Busy, CacheGone, ChrootsKeepTheirMounts, Ended, GoOn,
     HookKnown, IInv, JoinedBefore, Out, Shared, ThreadsKnown, UnitKnown, masks, signing,
     threads
<1>3. Completed'
  BY Order DEF At, BindCache, Completed, GoOn, IInv, Out, masks, signing, threads
<1> QED
  BY <1>1, <1>2, <1>3 DEF IInv

LEMMA RecordCacheStep ==
  ASSUME IInv, RecordCache
  PROVE  IInv'
<1>1. TypeOK'
  BY Order, TheLabels DEF At, GoOn, IInv, RecordCache, TypeOK, masks, signing, threads
<1>2. Out' /\ UnitKnown' /\ JoinedBefore' /\ CacheGone' /\ HookKnown'
      /\ ThreadsKnown' /\ Completed' /\ ChrootsKeepTheirMounts'
  BY Order DEF At, Busy, CacheGone, ChrootsKeepTheirMounts, Completed, Ended, GoOn,
     HookKnown, IInv, JoinedBefore, Out, RecordCache, Shared, ThreadsKnown, UnitKnown,
     masks, signing, threads
<1> QED
  BY <1>1, <1>2 DEF IInv

LEMMA UnbindCacheStep ==
  ASSUME IInv, UnbindCache
  PROVE  IInv'
<1>1. TypeOK'
  <2>1. pc' \in Labels
    BY Order, TheLabels, Handlers DEF At, EndFinally, IInv, Raise, TypeOK, UnbindCache,
       masks, signing, threads
  <2>2. raised' \in {"none", "error", "interrupt"}
    BY DEF At, EndFinally, IInv, Raise, TypeOK, UnbindCache, masks, signing, threads
  <2>3. cache' \in BOOLEAN
    BY DEF IInv, TypeOK, UnbindCache, masks, signing, threads
  <2>4. recorded' \in BOOLEAN
    BY DEF IInv, TypeOK, UnbindCache, masks, signing, threads
  <2>5. trouble' \in BOOLEAN
    BY DEF IInv, TypeOK, UnbindCache, masks, signing, threads
  <2>6. UNCHANGED <<install, proc, waiting, unit, keyring, live, hook, maskStuck,
                       fstab, thread, errors, apiMounts, factory, exit, interrupted>>
    BY DEF UnbindCache, masks, signing, threads
  <2> QED
    BY <2>1, <2>2, <2>3, <2>4, <2>5, <2>6 DEF IInv, TypeOK
<1>2. Out' /\ UnitKnown' /\ JoinedBefore' /\ CacheGone' /\ HookKnown'
      /\ ThreadsKnown' /\ Completed' /\ ChrootsKeepTheirMounts'
  BY Order, Handlers DEF At, Busy, CacheGone, ChrootsKeepTheirMounts, Completed,
     EndFinally, Ended, HookKnown, IInv, JoinedBefore, Out, Raise, Shared, ThreadsKnown,
     UnbindCache, UnitKnown, masks, signing, threads
<1> QED
  BY <1>1, <1>2 DEF IInv

LEMMA CleanBindsStep ==
  ASSUME IInv, CleanBinds
  PROVE  IInv'
<1>1. TypeOK'
  <2>1. pc' \in Labels
    BY Order, TheLabels DEF At, CleanBinds, GoOn, IInv, TypeOK, masks, signing, threads
  <2>2. cache' \in BOOLEAN
    BY DEF CleanBinds, IInv, TypeOK, masks, signing, threads
  <2>3. recorded' \in BOOLEAN
    BY DEF CleanBinds, IInv, TypeOK, masks, signing, threads
  <2>4. trouble' \in BOOLEAN
    BY DEF CleanBinds, IInv, TypeOK, masks, signing, threads
  <2>5. UNCHANGED <<install, raised, proc, waiting, unit, keyring, live, hook,
                       maskStuck, fstab, thread, errors, apiMounts, factory, exit, interrupted>>
    BY DEF CleanBinds, masks, signing, threads
  <2> QED
    BY <2>1, <2>2, <2>3, <2>4, <2>5 DEF IInv, TypeOK
<1>2. Out' /\ UnitKnown' /\ JoinedBefore' /\ HookKnown' /\ ThreadsKnown'
      /\ ChrootsKeepTheirMounts'
  BY Order DEF At, Busy, ChrootsKeepTheirMounts, CleanBinds, Ended, GoOn, HookKnown, IInv,
     JoinedBefore, Out, Shared, ThreadsKnown, UnitKnown, masks, signing, threads
<1>3. CacheGone'
  BY Order DEF At, CacheGone, CleanBinds, GoOn, IInv, masks, signing, threads
<1>4. Completed'
  BY Order DEF At, CleanBinds, Completed, GoOn, IInv, TypeOK, masks, signing, threads
<1> QED
  BY <1>1, <1>2, <1>3, <1>4 DEF IInv

LEMMA GenfstabStep ==
  ASSUME IInv, Genfstab
  PROVE  IInv'
<1>1. TypeOK'
  BY Order, TheLabels DEF At, Genfstab, GoOn, IInv, TypeOK, masks, signing, threads
<1>2. Out' /\ UnitKnown' /\ JoinedBefore' /\ CacheGone' /\ HookKnown'
      /\ ThreadsKnown' /\ Completed' /\ ChrootsKeepTheirMounts'
  BY Order DEF At, Busy, CacheGone, ChrootsKeepTheirMounts, Completed, Ended, Genfstab,
     GoOn, HookKnown, IInv, JoinedBefore, Out, Shared, ThreadsKnown, UnitKnown, masks,
     signing, threads
<1> QED
  BY <1>1, <1>2 DEF IInv

LEMMA MaskLiveStep ==
  ASSUME IInv, MaskLive
  PROVE  IInv'
<1>1. TypeOK'
  BY Order, TheLabels DEF At, GoOn, HookStates, IInv, MaskLive, Masked, MovedAway,
     Restored, TypeOK, binds, signing, threads
<1>2. Out' /\ UnitKnown' /\ JoinedBefore' /\ CacheGone' /\ HookKnown'
      /\ ThreadsKnown' /\ Completed' /\ ChrootsKeepTheirMounts'
  BY Order DEF At, Busy, CacheGone, ChrootsKeepTheirMounts, Completed, Ended, GoOn,
     HookKnown, IInv, JoinedBefore, MaskLive, Out, Shared, ThreadsKnown, UnitKnown, binds,
     signing, threads
<1> QED
  BY <1>1, <1>2 DEF IInv

LEMMA MaskHookStep ==
  ASSUME IInv, MaskHook
  PROVE  IInv'
<1>1. TypeOK'
  BY Order, TheLabels DEF At, GoOn, HookStates, IInv, MaskHook, Masked, MovedAway,
     Restored, TypeOK, binds, signing, threads
<1>2. Out' /\ UnitKnown' /\ JoinedBefore' /\ CacheGone' /\ ThreadsKnown'
      /\ ChrootsKeepTheirMounts'
  BY Order DEF At, Busy, CacheGone, ChrootsKeepTheirMounts, Ended, GoOn, HookStates, IInv,
     JoinedBefore, MaskHook, Masked, MovedAway, Out, Restored, Shared, ThreadsKnown,
     UnitKnown, binds, signing, threads
<1>3. HookKnown'
  <2>1. hook.file = "hook" => hook = Restored
    BY DEF IInv, HookKnown
  <2>2. CASE At("moveHook") /\ hook' = MovedAway(hook)
    BY <2>1, <2>2, Order DEF At, GoOn, HookKnown, IInv, MaskHook, MovedAway, Out,
       Restored
  <2>3. CASE At("maskHook") /\ hook' = Masked(hook)
    <3>1. hook.backup = "hook" /\ hook \in HookStates
      BY <2>3 DEF At, HookKnown, IInv, TypeOK
    <3>2. hook'.file = "null" /\ hook'.backup = "hook"
      BY <2>3, <3>1 DEF Masked, HookStates
    <3> QED
      BY <2>3, <3>2, Order DEF At, GoOn, HookKnown, IInv, MaskHook, Out
  <2> QED
    BY <2>2, <2>3 DEF MaskHook
<1>4. Completed'
  BY Order DEF At, Completed, GoOn, IInv, MaskHook, Out, binds, signing, threads
<1> QED
  BY <1>1, <1>2, <1>3, <1>4 DEF IInv

LEMMA UnmaskLiveStep ==
  ASSUME IInv, UnmaskLive
  PROVE  IInv'
<1>1. TypeOK'
  <2>1. live' \in HookStates
    BY DEF HookStates, IInv, Restored, TypeOK, UnmaskLive, Unmasked, binds, signing,
       threads
  <2>2. trouble' \in BOOLEAN
    BY DEF HookStates, IInv, Restored, TypeOK, UnmaskLive, binds, signing, threads
  <2> QED
    BY <2>1, <2>2, TheLabels DEF At, Go, HookStates, IInv, Restored, TypeOK, UnmaskLive,
       Unmasked, binds, signing, threads
<1>2. Out' /\ UnitKnown' /\ JoinedBefore' /\ CacheGone' /\ HookKnown'
      /\ ThreadsKnown' /\ Completed' /\ ChrootsKeepTheirMounts'
  BY DEF At, Busy, CacheGone, ChrootsKeepTheirMounts, Completed, Ended, Go, HookKnown,
     IInv, JoinedBefore, Out, Shared, ThreadsKnown, UnitKnown, UnmaskLive, binds, signing,
     threads
<1> QED
  BY <1>1, <1>2 DEF IInv

LEMMA UnmaskHookStep ==
  ASSUME IInv, UnmaskHook
  PROVE  IInv'
<1>1. TypeOK'
  <2>1. pc' \in Labels
    BY Order, TheLabels DEF At, EndFinally, IInv, RestoresHook, TypeOK, UnmaskHook,
       Unmasked, binds, signing, threads
  <2>2. hook' \in HookStates
    BY DEF HookStates, IInv, Restored, RestoresHook, TypeOK, UnmaskHook, Unmasked, binds,
       signing, threads
  <2>3. maskStuck' \in BOOLEAN
    BY DEF IInv, RestoresHook, TypeOK, UnmaskHook, binds, signing, threads
  <2>4. trouble' \in BOOLEAN
    BY DEF IInv, RestoresHook, TypeOK, UnmaskHook, binds, signing, threads
  <2>5. UNCHANGED <<install, raised, proc, waiting, unit, keyring, live, cache,
                       recorded, fstab, thread, errors, apiMounts, factory, exit, interrupted>>
    BY DEF RestoresHook, UnmaskHook, binds, signing, threads
  <2> QED
    BY <2>1, <2>2, <2>3, <2>4, <2>5 DEF IInv, TypeOK
<1>2. Out' /\ UnitKnown' /\ JoinedBefore' /\ CacheGone' /\ HookKnown'
      /\ ThreadsKnown' /\ Completed' /\ ChrootsKeepTheirMounts'
  BY Order DEF At, Busy, CacheGone, ChrootsKeepTheirMounts, Completed, EndFinally, Ended,
     HookKnown, HookStates, IInv, JoinedBefore, Out, Restored, RestoresHook, Shared,
     ThreadsKnown, UnitKnown, UnmaskHook, Unmasked, binds, signing, threads
<1> QED
  BY <1>1, <1>2 DEF IInv

LEMMA CleanMasksStep ==
  ASSUME IInv, CleanMasks
  PROVE  IInv'
<1>1. TypeOK'
  <2>1. pc' \in Labels
    BY Order, TheLabels DEF At, CleanMasks, GoOn, IInv, RestoresHook, TypeOK, Unmasked,
       binds, signing, threads
  <2>2. hook' \in HookStates
    BY DEF CleanMasks, HookStates, IInv, Restored, RestoresHook, TypeOK, Unmasked, binds,
       signing, threads
  <2>3. maskStuck' \in BOOLEAN
    BY DEF CleanMasks, IInv, RestoresHook, TypeOK, binds, signing, threads
  <2>4. trouble' \in BOOLEAN
    BY DEF CleanMasks, IInv, RestoresHook, TypeOK, binds, signing, threads
  <2>5. UNCHANGED <<install, raised, proc, waiting, unit, keyring, live, cache,
                       recorded, fstab, thread, errors, apiMounts, factory, exit, interrupted>>
    BY DEF CleanMasks, RestoresHook, binds, signing, threads
  <2> QED
    BY <2>1, <2>2, <2>3, <2>4, <2>5 DEF IInv, TypeOK
<1>2. Out' /\ UnitKnown' /\ JoinedBefore' /\ CacheGone' /\ HookKnown'
      /\ ThreadsKnown' /\ Completed' /\ ChrootsKeepTheirMounts'
  BY Order DEF At, Busy, CacheGone, ChrootsKeepTheirMounts, CleanMasks, Completed, Ended,
     GoOn, HookKnown, HookStates, IInv, JoinedBefore, Out, Restored, RestoresHook, Shared,
     ThreadsKnown, UnitKnown, Unmasked, binds, signing, threads
<1> QED
  BY <1>1, <1>2 DEF IInv

LEMMA AssertHooksStep ==
  ASSUME IInv, AssertHooks
  PROVE  IInv'
<1>1. TypeOK'
  <2>1. pc' \in Labels
    BY Order, TheLabels, Handlers DEF AssertHooks, At, GoOn, IInv, Raise, RestoresHook,
       TypeOK, Unmasked, binds, signing, threads
  <2>2. raised' \in {"none", "error", "interrupt"}
    BY DEF AssertHooks, At, GoOn, IInv, Raise, RestoresHook, TypeOK, Unmasked, binds,
       signing, threads
  <2>3. hook' \in HookStates
    BY DEF AssertHooks, HookStates, IInv, Restored, RestoresHook, TypeOK, Unmasked, binds,
       signing, threads
  <2>4. maskStuck' \in BOOLEAN
    BY DEF AssertHooks, IInv, RestoresHook, TypeOK, binds, signing, threads
  <2>5. trouble' \in BOOLEAN
    BY DEF AssertHooks, IInv, RestoresHook, TypeOK, binds, signing, threads
  <2>6. UNCHANGED <<install, proc, waiting, unit, keyring, live, cache, recorded,
                       fstab, thread, errors, apiMounts, factory, exit, interrupted>>
    BY DEF AssertHooks, RestoresHook, binds, signing, threads
  <2> QED
    BY <2>1, <2>2, <2>3, <2>4, <2>5, <2>6 DEF IInv, TypeOK
<1>2. Out' /\ UnitKnown' /\ JoinedBefore' /\ CacheGone' /\ HookKnown'
      /\ ThreadsKnown' /\ Completed' /\ ChrootsKeepTheirMounts'
  BY Order, Handlers DEF AssertHooks, At, Busy, CacheGone, ChrootsKeepTheirMounts,
     Completed, Ended, GoOn, HookKnown, HookStates, IInv, JoinedBefore, Out, Raise,
     Restored, RestoresHook, Shared, ThreadsKnown, UnitKnown, Unmasked, binds, signing,
     threads
<1> QED
  BY <1>1, <1>2 DEF IInv

LEMMA StartKeyringStep ==
  ASSUME IInv, StartKeyring
  PROVE  IInv'
<1>1. TypeOK'
  BY Order, TheLabels DEF At, GoOn, IInv, StartKeyring, TypeOK, binds, masks, threads
<1>2. Out' /\ JoinedBefore' /\ CacheGone' /\ HookKnown' /\ ThreadsKnown'
      /\ ChrootsKeepTheirMounts'
  BY Order DEF At, CacheGone, ChrootsKeepTheirMounts, Ended, GoOn, HookKnown, IInv,
     JoinedBefore, Out, Shared, StartKeyring, ThreadsKnown, binds, masks, threads
<1>3. UnitKnown'
  BY Order DEF At, Busy, GoOn, IInv, Out, StartKeyring, UnitKnown, binds, masks, threads
<1>4. Completed'
  BY Order DEF At, Completed, GoOn, IInv, Out, StartKeyring, binds, masks, threads
<1> QED
  BY <1>1, <1>2, <1>3, <1>4 DEF IInv

LEMMA UnitStartsStep ==
  ASSUME IInv, UnitStarts
  PROVE  IInv'
<1>1. TypeOK'
  <2>1. trouble' \in BOOLEAN
    BY DEF IInv, TypeOK, UnitStarts, binds, masks, threads
  <2> QED
    BY <2>1 DEF IInv, TypeOK, UnitStarts, binds, masks, threads
<1>2. Out' /\ UnitKnown' /\ JoinedBefore' /\ CacheGone' /\ HookKnown'
      /\ ThreadsKnown' /\ Completed' /\ ChrootsKeepTheirMounts'
  BY DEF Busy, CacheGone, ChrootsKeepTheirMounts, Completed, Ended, HookKnown, IInv,
     JoinedBefore, Out, Shared, ThreadsKnown, UnitKnown, UnitStarts, binds, masks, threads
<1> QED
  BY <1>1, <1>2 DEF IInv

LEMMA UnitEndsStep ==
  ASSUME IInv, UnitEnds
  PROVE  IInv'
<1>1. TypeOK'
  <2>1. trouble' \in BOOLEAN
    BY DEF IInv, TypeOK, UnitEnds, binds, masks, threads
  <2> QED
    BY <2>1 DEF IInv, TypeOK, UnitEnds, binds, masks, threads
<1>2. Out' /\ UnitKnown' /\ JoinedBefore' /\ CacheGone' /\ HookKnown'
      /\ ThreadsKnown' /\ Completed' /\ ChrootsKeepTheirMounts'
  BY DEF Busy, CacheGone, ChrootsKeepTheirMounts, Completed, Ended, HookKnown, IInv,
     JoinedBefore, Out, Shared, ThreadsKnown, UnitEnds, UnitKnown, binds, masks, threads
<1> QED
  BY <1>1, <1>2 DEF IInv

LEMMA PopProcStep ==
  ASSUME IInv, PopProc
  PROVE  IInv'
<1>1. TypeOK'
  <2>1. pc' \in Labels
    BY Order, TheLabels DEF GoOn, IInv, PopProc, TypeOK, binds, masks, threads
  <2>2. proc' \in BOOLEAN
    BY DEF IInv, PopProc, TypeOK, binds, masks, threads
  <2>3. waiting' \in BOOLEAN
    BY DEF IInv, PopProc, TypeOK, binds, masks, threads
  <2>4. UNCHANGED <<install, raised, unit, keyring, live, hook, maskStuck, cache,
                       recorded, fstab, thread, errors, apiMounts, factory, exit, interrupted, trouble>>
    BY DEF PopProc, binds, masks, threads
  <2> QED
    BY <2>1, <2>2, <2>3, <2>4 DEF IInv, TypeOK
<1>2. Out' /\ JoinedBefore' /\ CacheGone' /\ HookKnown'
        /\ Completed' /\ ChrootsKeepTheirMounts'
  BY Order DEF CacheGone, ChrootsKeepTheirMounts, Completed, GoOn, HookKnown, IInv,
     JoinedBefore, Out, PopProc, Shared, binds, masks, threads
<1>3. UnitKnown'
  BY Order, AppliesWhere DEF Busy, GoOn, IInv, PopProc, TypeOK, UnitKnown, binds, masks,
     threads
<1>4. ThreadsKnown'
  BY Order, AppliesWhere DEF Ended, GoOn, IInv, PopProc, ThreadsKnown, binds, masks,
     threads
<1> QED
  BY <1>1, <1>2, <1>3, <1>4 DEF IInv

LEMMA JoinedStep ==
  ASSUME IInv, Joined
  PROVE  IInv'
<1>1. TypeOK'
  <2>1. pc' \in Labels
    BY Order, TheLabels, Handlers DEF Busy, GoOn, IInv, Joined, Raise, TypeOK, binds,
       masks, threads, UnitKnown
  <2>2. raised' \in {"none", "error", "interrupt"}
    BY DEF Busy, GoOn, IInv, Joined, Raise, TypeOK, binds, masks, threads
  <2>3. waiting' \in BOOLEAN
    BY DEF Busy, IInv, Joined, TypeOK, binds, masks, threads
  <2>4. UNCHANGED <<install, proc, unit, keyring, live, hook, maskStuck, cache,
                       recorded, fstab, thread, errors, apiMounts, factory, exit, interrupted, trouble>>
    BY DEF Joined, binds, masks, threads
  <2> QED
    BY <2>1, <2>2, <2>3, <2>4 DEF IInv, TypeOK
<1>2. ChrootsKeepTheirMounts'
  BY Order, Handlers DEF Busy, ChrootsKeepTheirMounts, GoOn, IInv, Joined, Raise, Shared,
     binds, masks, threads
<1>3. Out'
  BY Order, Handlers DEF Busy, GoOn, IInv, Joined, Out, Raise, TypeOK, UnitKnown, binds,
     masks, threads
<1>4. UnitKnown'
  BY Order, Handlers DEF Busy, GoOn, IInv, Joined, Out, Raise, TypeOK, UnitKnown, binds,
     masks, threads
<1>5. JoinedBefore'
  BY Order, Handlers DEF Busy, GoOn, IInv, Joined, JoinedBefore, Out, Raise, TypeOK,
     UnitKnown, binds, masks, threads
<1>6. CacheGone'
  BY Order, Handlers DEF Busy, CacheGone, GoOn, IInv, Joined, Out, Raise, TypeOK,
     UnitKnown, binds, masks, threads
<1>7. HookKnown'
  BY Order, Handlers DEF Busy, GoOn, HookKnown, IInv, Joined, Out, Raise, TypeOK,
     UnitKnown, binds, masks, threads
<1>8. ThreadsKnown'
  BY Order, Handlers DEF Busy, Ended, GoOn, IInv, Joined, Out, Raise, ThreadsKnown, TypeOK,
     UnitKnown, binds, masks, threads
<1>9. Completed'
  BY Order, Handlers DEF Busy, Completed, GoOn, IInv, Joined, Out, Raise, TypeOK,
     UnitKnown, binds, masks, threads
<1> QED
  BY <1>1, <1>2, <1>3, <1>4, <1>5, <1>6, <1>7, <1>8, <1>9 DEF IInv

LEMMA StopKeyringStep ==
  ASSUME IInv, StopKeyring
  PROVE  IInv'
<1>1. TypeOK'
  BY Order, TheLabels DEF At, GoOn, IInv, StopKeyring, TypeOK, binds, masks, threads
<1>2. Out' /\ UnitKnown' /\ JoinedBefore' /\ CacheGone' /\ HookKnown'
      /\ ThreadsKnown' /\ Completed' /\ ChrootsKeepTheirMounts'
  BY Order DEF At, Busy, CacheGone, ChrootsKeepTheirMounts, Completed, Ended, GoOn,
     HookKnown, IInv, JoinedBefore, Out, Shared, StopKeyring, ThreadsKnown, UnitKnown,
     binds, masks, threads
<1> QED
  BY <1>1, <1>2 DEF IInv

LEMMA FinalizeStep ==
  ASSUME IInv, Finalize
  PROVE  IInv'
<1>1. TypeOK'
  BY Order, TheLabels DEF At, Finalize, GoOn, IInv, TypeOK, binds, masks, signing
<1>2. Out' /\ UnitKnown' /\ JoinedBefore' /\ CacheGone' /\ HookKnown'
      /\ ThreadsKnown' /\ ChrootsKeepTheirMounts'
  BY Order DEF At, Busy, CacheGone, ChrootsKeepTheirMounts, Ended, Finalize, GoOn,
     HookKnown, IInv, JoinedBefore, Out, Shared, ThreadsKnown, UnitKnown, binds, masks,
     signing
<1>3. Completed'
  BY Order DEF At, Completed, Finalize, GoOn, IInv, Out, binds, masks, signing
<1> QED
  BY <1>1, <1>2, <1>3 DEF IInv

LEMMA BootResultStep ==
  ASSUME IInv, BootResult
  PROVE  IInv'
<1>1. TypeOK'
  BY Order, Handlers, TheLabels DEF At, BootResult, Ended, FirstError, GoOn, IInv, Raise,
     TypeOK, binds, masks, signing
<1>2. Out' /\ UnitKnown' /\ JoinedBefore' /\ CacheGone' /\ HookKnown'
  BY Order, Handlers DEF At, BootResult, Busy, CacheGone, Ended, FirstError, GoOn,
     HookKnown, IInv, JoinedBefore, Out, Raise, UnitKnown, binds, masks, signing
<1>3. ThreadsKnown'
  BY Order, Handlers DEF At, BootResult, Ended, FirstError, GoOn, IInv, Raise,
     ThreadsKnown, TypeOK, binds, masks, signing
<1>4. Completed'
  BY Order, Handlers DEF At, BootResult, Completed, Ended, FirstError, GoOn, IInv, Out,
     Raise, TypeOK, binds, masks, signing
<1>5. ChrootsKeepTheirMounts'
  BY Order, Handlers DEF At, BootResult, ChrootsKeepTheirMounts, Ended, FirstError, GoOn,
     IInv, Raise, Shared, ThreadsKnown, TypeOK, binds, masks, signing
<1> QED
  BY <1>1, <1>2, <1>3, <1>4, <1>5 DEF IInv

LEMMA UserResultStep ==
  ASSUME IInv, UserResult
  PROVE  IInv'
<1>1. TypeOK'
  BY Order, TheLabels DEF At, Ended, FirstError, GoOn, IInv, TypeOK, UserResult, binds,
     masks, signing
<1>2. Out' /\ UnitKnown' /\ JoinedBefore' /\ CacheGone' /\ HookKnown'
      /\ ThreadsKnown' /\ Completed' /\ ChrootsKeepTheirMounts'
  BY Order DEF At, Busy, CacheGone, ChrootsKeepTheirMounts, Completed, Ended, FirstError,
     GoOn, HookKnown, IInv, JoinedBefore, Out, Shared, ThreadsKnown, UnitKnown, UserResult,
     binds, masks, signing
<1> QED
  BY <1>1, <1>2 DEF IInv

LEMMA BothDoneStep ==
  ASSUME IInv, BothDone
  PROVE  IInv'
<1>1. TypeOK'
  BY Order, Handlers, TheLabels DEF At, BothDone, Ended, GoOn, IInv, Raise, TypeOK, binds,
     masks, signing, threads
<1>2. Out' /\ UnitKnown' /\ JoinedBefore' /\ CacheGone' /\ HookKnown'
      /\ ThreadsKnown' /\ Completed' /\ ChrootsKeepTheirMounts'
  BY Order, Handlers DEF At, BothDone, Busy, CacheGone, ChrootsKeepTheirMounts, Completed,
     Ended, GoOn, HookKnown, IInv, JoinedBefore, Out, Raise, Shared, ThreadsKnown,
     UnitKnown, binds, masks, signing, threads
<1> QED
  BY <1>1, <1>2 DEF IInv

LEMMA WorkStep ==
  ASSUME IInv, Work
  PROVE  IInv'
<1>1. TypeOK'
  BY Order, TheLabels DEF At, GoOn, IInv, TypeOK, Work, binds, masks, signing, threads
<1>2. Out' /\ UnitKnown' /\ JoinedBefore' /\ CacheGone' /\ HookKnown'
      /\ ThreadsKnown' /\ Completed' /\ ChrootsKeepTheirMounts'
  BY Order DEF At, Busy, CacheGone, ChrootsKeepTheirMounts, Completed, Ended, GoOn,
     HookKnown, IInv, JoinedBefore, Out, Shared, ThreadsKnown, UnitKnown, Work, binds,
     masks, signing, threads
<1> QED
  BY <1>1, <1>2 DEF IInv

LEMMA PackagesStep ==
  ASSUME IInv, Packages
  PROVE  IInv'
<1>1. TypeOK'
  BY Order, TheLabels DEF At, GoOn, IInv, Packages, TypeOK, binds, masks, threads
<1>2. Out' /\ UnitKnown' /\ JoinedBefore' /\ CacheGone' /\ HookKnown'
      /\ ThreadsKnown' /\ Completed' /\ ChrootsKeepTheirMounts'
  BY Order DEF At, Busy, CacheGone, ChrootsKeepTheirMounts, Completed, Ended, GoOn,
     HookKnown, IInv, JoinedBefore, Out, Packages, Shared, ThreadsKnown, UnitKnown, binds,
     masks, threads
<1> QED
  BY <1>1, <1>2 DEF IInv

LEMMA SnapshotStep ==
  ASSUME IInv, Snapshot
  PROVE  IInv'
<1>1. /\ pc = "snapshot" /\ pc' = "stopKeyring"
      /\ UNCHANGED <<install, interrupted, raised, signing, masks, binds, threads, exit>>
  BY Order DEF At, GoOn, Snapshot
<1>2. unit = "ok" /\ keyring = "whole" /\ ~proc /\ hook = Restored /\ fstab = "clean" /\ ~cache
  BY <1>1 DEF At, IInv, UnitKnown, JoinedBefore, HookKnown, CacheGone, Out, Snapshot
<1>3. \/ install.zfs /\ UNCHANGED <<factory, trouble>>
      \/ ~install.zfs /\ factory' = "whole" /\ UNCHANGED trouble
      \/ ~install.zfs /\ UNCHANGED factory /\ trouble' = TRUE
  BY <1>2 DEF Snapshot
<1>4. factory' \in {"none", "partial", "whole"} /\ trouble' \in BOOLEAN
  BY <1>3 DEF IInv, TypeOK
<1>5. TypeOK'
  BY <1>1, <1>4, TheLabels DEF IInv, TypeOK, binds, masks, signing, threads
<1>6. Out' /\ UnitKnown' /\ JoinedBefore' /\ CacheGone' /\ HookKnown'
      /\ ThreadsKnown' /\ ChrootsKeepTheirMounts'
  BY <1>1 DEF At, Busy, CacheGone, ChrootsKeepTheirMounts, Ended, HookKnown, IInv,
     JoinedBefore, Out, Shared, ThreadsKnown, UnitKnown, binds, masks, signing, threads
<1>7. Completed'
  <2>1. factory' # "partial" /\ (install'.zfs => factory' = "none")
    BY <1>1, <1>3 DEF IInv, Completed
  <2>2. install'.zfs \/ trouble' \/ factory' = "whole"
    BY <1>1, <1>3 DEF IInv, Completed
  <2>3. hook' = Restored /\ unit' = "ok" /\ ~proc' /\ fstab' = "clean" /\ ~cache'
    BY <1>1, <1>2 DEF binds, masks, signing
  <2>4. \A t \in Threads : thread'[t] = "done"
    BY <1>1 DEF IInv, ThreadsKnown, threads
  <2> QED
    BY <2>1, <2>2, <2>3, <2>4 DEF Completed
<1> QED
  BY <1>5, <1>6, <1>7 DEF IInv

LEMMA PhaseFailsStep ==
  ASSUME IInv, PhaseFails
  PROVE  IInv'
<1>1. TypeOK'
  BY Handlers, TheLabels DEF Fallible, IInv, PhaseFails, Raise, TypeOK, binds, masks,
     signing, threads
<1>2. Out' /\ UnitKnown' /\ JoinedBefore' /\ CacheGone' /\ HookKnown'
      /\ ThreadsKnown' /\ Completed' /\ ChrootsKeepTheirMounts'
  BY Handlers DEF Busy, CacheGone, ChrootsKeepTheirMounts, Completed, Ended, Fallible,
     HookKnown, IInv, JoinedBefore, Out, PhaseFails, Raise, Shared, ThreadsKnown,
     UnitKnown, binds, masks, signing, threads
<1> QED
  BY <1>1, <1>2 DEF IInv

LEMMA InterruptStep ==
  ASSUME IInv, Interrupt
  PROVE  IInv'
<1>1. TypeOK'
  <2>1. pc' \in Labels
    BY Order, TheLabels, Handlers DEF Ended, FirstError, GoOn, IInv, Interrupt, Raise,
       TypeOK, binds, masks
  <2>2. raised' \in {"none", "error", "interrupt"}
    BY DEF Ended, FirstError, GoOn, IInv, Interrupt, Raise, TypeOK, binds, masks
  <2>3. waiting' \in BOOLEAN
    BY DEF IInv, Interrupt, TypeOK, binds, masks
  <2>4. thread' \in [Threads -> {"idle", "ready", "chroot", "done", "failed"}]
    BY DEF Ended, FirstError, IInv, Interrupt, TypeOK, binds, masks
  <2>5. errors' \in {"none", "error", "interrupt"}
    BY DEF Ended, FirstError, IInv, Interrupt, TypeOK, binds, masks
  <2>6. interrupted' \in BOOLEAN
    BY DEF IInv, Interrupt, TypeOK, binds, masks
  <2>7. trouble' \in BOOLEAN
    BY DEF IInv, Interrupt, TypeOK, binds, masks
  <2>8. UNCHANGED <<install, proc, unit, keyring, live, hook, maskStuck, cache,
                       recorded, fstab, apiMounts, factory, exit>>
    BY DEF Interrupt, binds, masks
  <2> QED
    BY <2>1, <2>2, <2>3, <2>4, <2>5, <2>6, <2>7, <2>8 DEF IInv, TypeOK
<1>2. Out' /\ UnitKnown' /\ JoinedBefore' /\ CacheGone' /\ HookKnown'
      /\ ThreadsKnown' /\ Completed' /\ ChrootsKeepTheirMounts'
  BY Order, Handlers DEF Busy, CacheGone, ChrootsKeepTheirMounts, Completed, Ended,
     FirstError, GoOn, HookKnown, IInv, Interrupt, JoinedBefore, Out, Raise, Shared,
     ThreadsKnown, UnitKnown, binds, masks
<1> QED
  BY <1>1, <1>2 DEF IInv

LEMMA KillStep ==
  ASSUME IInv, Kill
  PROVE  IInv'
<1>1. TypeOK'
  <2>1. pc' \in Labels
    BY TheLabels DEF Go, IInv, Kill, TypeOK, binds, masks
  <2>2. waiting' \in BOOLEAN
    BY DEF IInv, Kill, TypeOK, binds, masks
  <2>3. thread' \in [Threads -> {"idle", "ready", "chroot", "done", "failed"}]
    BY DEF IInv, Kill, TypeOK, binds, masks
  <2>4. exit' \in {"none", "complete", "error", "interrupt", "killed"}
    BY DEF IInv, Kill, TypeOK, binds, masks
  <2>5. trouble' \in BOOLEAN
    BY DEF IInv, Kill, TypeOK, binds, masks
  <2>6. UNCHANGED <<install, raised, proc, unit, keyring, live, hook, maskStuck,
                       cache, recorded, fstab, errors, apiMounts, factory, interrupted>>
    BY DEF Kill, binds, masks
  <2> QED
    BY <2>1, <2>2, <2>3, <2>4, <2>5, <2>6 DEF IInv, TypeOK
<1>2. Out' /\ UnitKnown' /\ JoinedBefore' /\ CacheGone' /\ HookKnown'
      /\ ThreadsKnown' /\ Completed' /\ ChrootsKeepTheirMounts'
  BY DEF Busy, CacheGone, ChrootsKeepTheirMounts, Completed, Ended, Go, HookKnown, IInv,
     JoinedBefore, Kill, Out, Shared, ThreadsKnown, UnitKnown, binds, masks
<1> QED
  BY <1>1, <1>2 DEF IInv

LEMMA LeaveStep ==
  ASSUME IInv, Leave
  PROVE  IInv'
<1>1. TypeOK'
  BY TheLabels DEF At, Go, IInv, Leave, TypeOK, binds, masks, signing, threads
<1>2. JoinedBefore' /\ CacheGone' /\ HookKnown' /\ ThreadsKnown' /\ Completed'
      /\ ChrootsKeepTheirMounts'
  BY DEF At, CacheGone, ChrootsKeepTheirMounts, Completed, Ended, Go, HookKnown, IInv,
     JoinedBefore, Leave, Shared, ThreadsKnown, binds, masks, signing, threads
<1>3. Out'
  BY DEF At, Go, IInv, Leave, Out, TypeOK, binds, masks, signing, threads
<1>4. UnitKnown'
  BY DEF At, Busy, Go, IInv, Leave, Out, TypeOK, UnitKnown, binds, masks, signing, threads
<1> QED
  BY <1>1, <1>2, <1>3, <1>4 DEF IInv

LEMMA SkipStep ==
  ASSUME IInv, Skip
  PROVE  IInv'
<1>1. TypeOK'
  BY Order, TheLabels DEF GoOn, IInv, Skip, TypeOK, binds, masks, signing, threads
<1>2. ChrootsKeepTheirMounts'
  BY Order DEF ChrootsKeepTheirMounts, GoOn, IInv, Shared, Skip, binds, masks, signing,
     threads
<1>3. Out'
  BY Order, AppliesWhere DEF GoOn, IInv, Out, Skip, UnitKnown, binds, masks, signing,
     threads
<1>4. UnitKnown'
  BY Order, AppliesWhere DEF Busy, GoOn, IInv, Out, Skip, UnitKnown, binds, masks, signing,
     threads
<1>5. JoinedBefore'
  BY Order, AppliesWhere DEF GoOn, IInv, JoinedBefore, Out, Skip, UnitKnown, binds, masks,
     signing, threads
<1>6. CacheGone'
  BY Order, AppliesWhere DEF CacheGone, GoOn, IInv, Out, Skip, UnitKnown, binds, masks,
     signing, threads
<1>7. HookKnown'
  BY Order, AppliesWhere DEF GoOn, HookKnown, IInv, Out, Skip, UnitKnown, binds, masks,
     signing, threads
<1>8. ThreadsKnown'
  BY Order, AppliesWhere DEF Ended, GoOn, IInv, Out, Skip, ThreadsKnown, UnitKnown, binds,
     masks, signing, threads
<1>9. Completed'
  BY Order, AppliesWhere DEF Completed, GoOn, IInv, Out, Skip, UnitKnown, binds, masks,
     signing, threads
<1> QED
  BY <1>1, <1>2, <1>3, <1>4, <1>5, <1>6, <1>7, <1>8, <1>9 DEF IInv

LEMMA EnterChrootStep ==
  ASSUME IInv, NEW t \in Threads, EnterChroot(t)
  PROVE  IInv'
<1>1. TypeOK'
  <2>1. thread' \in [Threads -> {"idle", "ready", "chroot", "done", "failed"}]
    BY DEF EnterChroot, IInv, Shared, TypeOK, binds, masks, signing
  <2>2. apiMounts' \in BOOLEAN
    BY DEF EnterChroot, IInv, Shared, TypeOK, binds, masks, signing
  <2> QED
    BY <2>1, <2>2 DEF EnterChroot, IInv, Shared, TypeOK, binds, masks, signing
<1>2. Out' /\ UnitKnown' /\ JoinedBefore' /\ CacheGone' /\ HookKnown'
      /\ ThreadsKnown' /\ Completed'
  BY DEF Busy, CacheGone, Completed, Ended, EnterChroot, HookKnown, IInv, JoinedBefore,
     Out, Shared, ThreadsKnown, UnitKnown, binds, masks, signing
<1>3. ChrootsKeepTheirMounts'
  BY DEF ChrootsKeepTheirMounts, EnterChroot, IInv, Shared, TypeOK, binds, masks, signing
<1> QED
  BY <1>1, <1>2, <1>3 DEF IInv

LEMMA LeaveChrootStep ==
  ASSUME IInv, NEW t \in Threads, LeaveChroot(t)
  PROVE  IInv'
<1>1. TypeOK'
  <2>1. thread' \in [Threads -> {"idle", "ready", "chroot", "done", "failed"}]
    BY DEF IInv, LeaveChroot, Shared, TypeOK, binds, masks, signing
  <2>2. apiMounts' \in BOOLEAN
    BY DEF IInv, LeaveChroot, Shared, TypeOK, binds, masks, signing
  <2>3. trouble' \in BOOLEAN
    BY DEF IInv, LeaveChroot, TypeOK, binds, masks, signing
  <2> QED
    BY <2>1, <2>2, <2>3 DEF IInv, LeaveChroot, Shared, TypeOK, binds, masks, signing
<1>2. Out' /\ UnitKnown' /\ JoinedBefore' /\ CacheGone' /\ HookKnown' /\ Completed'
  BY DEF Busy, CacheGone, Completed, HookKnown, IInv, JoinedBefore, LeaveChroot, Out,
     Shared, UnitKnown, binds, masks, signing
<1>3. ThreadsKnown'
  BY DEF Ended, IInv, LeaveChroot, Shared, ThreadsKnown, TypeOK, binds, masks, signing
<1>4. ChrootsKeepTheirMounts'
  BY DEF ChrootsKeepTheirMounts, Ended, IInv, LeaveChroot, Shared, ThreadsKnown, TypeOK,
     binds, masks, signing
<1> QED
  BY <1>1, <1>2, <1>3, <1>4 DEF IInv

LEMMA NoChrootStep ==
  ASSUME IInv, NEW t \in Threads, NoChroot(t)
  PROVE  IInv'
<1>1. TypeOK'
  <2>1. thread' \in [Threads -> {"idle", "ready", "chroot", "done", "failed"}]
    BY DEF IInv, NoChroot, TypeOK, binds, masks, signing
  <2>2. trouble' \in BOOLEAN
    BY DEF IInv, NoChroot, TypeOK, binds, masks, signing
  <2> QED
    BY <2>1, <2>2 DEF IInv, NoChroot, TypeOK, binds, masks, signing
<1>2. Out' /\ UnitKnown' /\ JoinedBefore' /\ CacheGone' /\ HookKnown' /\ Completed'
  BY DEF Busy, CacheGone, Completed, HookKnown, IInv, JoinedBefore, NoChroot, Out,
     UnitKnown, binds, masks, signing
<1>3. ThreadsKnown'
  BY DEF Ended, IInv, NoChroot, ThreadsKnown, TypeOK, binds, masks, signing
<1>4. ChrootsKeepTheirMounts'
  BY DEF ChrootsKeepTheirMounts, IInv, NoChroot, Shared, TypeOK, binds, masks, signing
<1> QED
  BY <1>1, <1>2, <1>3, <1>4 DEF IInv

LEMMA StutterStep ==
  ASSUME IInv, UNCHANGED vars
  PROVE  IInv'
<1>1. TypeOK' /\ Out' /\ UnitKnown' /\ JoinedBefore' /\ CacheGone'
  BY DEF IInv, vars, signing, masks, binds, threads, TypeOK, Out, UnitKnown, JoinedBefore,
         CacheGone, Busy
<1>2. HookKnown' /\ ThreadsKnown' /\ Completed' /\ ChrootsKeepTheirMounts'
  BY DEF IInv, vars, signing, masks, binds, threads, HookKnown, ThreadsKnown, Completed,
         ChrootsKeepTheirMounts, Ended, Shared
<1> QED
  BY <1>1, <1>2 DEF IInv

LEMMA MainKeeps ==
  ASSUME IInv, MainStep
  PROVE  IInv'
BY SkipStep, WorkStep, BindCacheStep, RecordCacheStep, MaskLiveStep, PackagesStep,
   UnmaskLiveStep, UnbindCacheStep, StartKeyringStep, GenfstabStep, MaskHookStep,
   UnmaskHookStep, FinalizeStep, BootResultStep, UserResultStep, BothDoneStep,
   AssertHooksStep, SnapshotStep, PopProcStep, JoinedStep, StopKeyringStep,
   CleanBindsStep, CleanMasksStep, LeaveStep
   DEF MainStep

LEMMA ThreadKeeps ==
  ASSUME IInv, NEW t \in Threads, ThreadStep(t)
  PROVE  IInv'
BY EnterChrootStep, LeaveChrootStep, NoChrootStep DEF ThreadStep

LEMMA StepCorrect ==
  ASSUME IInv, [Next]_vars
  PROVE  IInv'
<1>1. CASE MainStep
  BY <1>1, MainKeeps
<1>2. ASSUME NEW t \in Threads, ThreadStep(t)
      PROVE  IInv'
  BY <1>2, ThreadKeeps
<1>3. CASE UnitStarts \/ UnitEnds
  BY <1>3, UnitStartsStep, UnitEndsStep
<1>4. CASE PhaseFails \/ Interrupt \/ Kill
  BY <1>4, PhaseFailsStep, InterruptStep, KillStep
<1>5. CASE Exited \/ UNCHANGED vars
  BY <1>5, StutterStep DEF Exited
<1> QED
  BY <1>1, <1>2, <1>3, <1>4, <1>5 DEF Next

\* The parts above are known wherever the run is, whatever is installed and
\* whatever fails, is interrupted or is killed on the way.
THEOREM InvCorrect == Spec => []IInv
<1>1. Init => IInv
  BY InitCorrect
<1>2. IInv /\ [Next]_vars => IInv'
  BY StepCorrect
<1> QED
  BY <1>1, <1>2, PTL DEF Spec

-----------------------------------------------------------------------------
(***************************************************************************)
(* What the run promises.                                                  *)
(***************************************************************************)
\* Every variable keeps its type.
THEOREM TypeCorrect == Spec => []TypeOK
<1>1. IInv => TypeOK
  BY DEF IInv
<1> QED
  BY <1>1, InvCorrect, PTL

\* The keyring unit never runs while pacstrap, ZFS's lsign, the aarch64 runtime
\* or the signature check uses the target's gnupg directory.
THEOREM OneUserOfTheKeyring == Spec => []OneKeyringUser
<1>1. IInv => OneKeyringUser
  <2> SUFFICES ASSUME IInv, Busy(unit), Applies(pc), UsesKeyring
               PROVE  FALSE
    BY DEF OneKeyringUser
  <2>1. pc # "packages"
    BY DEF IInv, UnitKnown, Busy
  <2>2. ~proc
    BY <2>1, AppliesWhere DEF IInv, JoinedBefore, UsesKeyring
  <2>3. ~waiting /\ raised = "none" /\ exit = "none"
    BY DEF IInv, UnitKnown, Out, UsesKeyring
  <2> QED
    BY <2>2, <2>3 DEF IInv, UnitKnown
<1> QED
  BY <1>1, InvCorrect, PTL

\* main returns 0 only with the hook in place, the keyring whole, a clean fstab
\* and no one left writing to the target; a @factory is never made of half a
\* keyring, never on ZFS, and is left out elsewhere only after some trouble.
THEOREM CompleteIsSound == Spec => []HandedOverSound
<1>1. IInv => HandedOverSound
  BY DEF IInv, HandedOverSound, Out, UnitKnown, Completed, Busy
<1> QED
  BY <1>1, InvCorrect, PTL

\* After a failed install no unit and no chroot runs on in the target, and its
\* hook is back unless putting it back was what failed.
THEOREM ErrorIsQuiet == Spec => []FailedInstallIsQuiet
<1>1. IInv => FailedInstallIsQuiet
  BY DEF IInv, FailedInstallIsQuiet, Out, UnitKnown, HookKnown, ThreadsKnown
<1> QED
  BY <1>1, InvCorrect, PTL

\* A chroot never loses its /proc, /sys and /dev to the other's.
THEOREM MountsStay == Spec => []ChrootsKeepTheirMounts
<1>1. IInv => ChrootsKeepTheirMounts
  BY DEF IInv
<1> QED
  BY <1>1, InvCorrect, PTL
=============================================================================
