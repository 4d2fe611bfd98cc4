----------------------------- MODULE InstallRun -----------------------------
(***************************************************************************)
(* One run of the orchestrator (orchestrator/main.py and the phases of     *)
(* phases_impl.py): what it leaves behind in the live system and in the    *)
(* target, whichever way it ends.  It binds the offline package cache into *)
(* the target, masks pacman's boot hooks in the live system and later in   *)
(* the target, has systemd initialise the target's pacman keyring while it *)
(* goes on installing, and finalizes boot and user in two threads.  Every  *)
(* one of these is undone by a `finally` or joined by a later phase.       *)
(*                                                                         *)
(* A phase can raise, ^C can raise KeyboardInterrupt in the main thread,   *)
(* and the dashboard's stop_child sends SIGTERM to the process group,      *)
(* which ends Python where it stands.  The keyring unit is systemd's and   *)
(* survives that.  Limine, archinstall and pacman are outside: a command   *)
(* succeeds or raises.                                                     *)
(***************************************************************************)
EXTENDS Naturals

VARIABLES
  install,     \* what is being installed, and on what
  pc,          \* where the main thread is
  raised,      \* the exception it is unwinding
  proc,        \* ctx.state holds the keyring unit's client
  waiting,     \* in proc.communicate()
  unit,        \* the keyring unit
  keyring,     \* the target's pacman keyring
  live,        \* the live system's override of a boot hook
  hook,        \* the target's 90-mkinitcpio-install.hook
  maskStuck,   \* the last unmask failed
  cache,       \* the offline mirror is mounted on the target's cache
  recorded,    \* that mount is in ctx.state["bind_mounts"]
  fstab,       \* the target's fstab
  thread,      \* finalize_boot_and_user's two threads
  errors,      \* the first exception either of them ended with
  apiMounts,   \* /proc, /sys and /dev are mounted on the target
  factory,     \* the keyring @factory holds, "none" without @factory
  exit,
  interrupted, \* ^C was pressed: once at most
  trouble      \* history: something went wrong on the way

binds   == <<cache, recorded, fstab>>
threads == <<thread, errors, apiMounts>>
masks   == <<live, hook, maskStuck>>
signing == <<proc, waiting, unit, keyring>>
vars    == <<install, pc, raised, signing, masks, binds, threads, factory, exit, interrupted, trouble>>

Threads == {"boot", "user"}
Joins   == {"zfsJoin", "aarch64Join", "signingJoin", "factoryJoin", "stopJoin"}

(***************************************************************************)
(* A hook's override in etc/pacman.d/hooks and the backup beside it.       *)
(***************************************************************************)
HookStates == [file : {"absent", "hook", "null"}, backup : {"absent", "hook"}]
Restored   == [file |-> "hook", backup |-> "absent"]

\* An attempt that was killed earlier may have left the live override masked,
\* or moved away and not yet masked.
Init ==
  /\ install \in [zfs : BOOLEAN, aarch64 : BOOLEAN, deferred : BOOLEAN, serial : BOOLEAN]
  /\ install.deferred => install.serial
  /\ pc = "partition"
  /\ raised = "none"
  /\ proc = FALSE /\ waiting = FALSE
  /\ unit \in {"none", "failedEarlier"}
  /\ keyring = "none"
  /\ live \in {Restored, [file |-> "null", backup |-> "hook"], [file |-> "absent", backup |-> "hook"]}
  /\ hook = Restored
  /\ maskStuck = FALSE
  /\ cache = FALSE /\ recorded = FALSE
  /\ fstab = "none"
  /\ thread = [t \in Threads |-> "idle"]
  /\ errors = "none"
  /\ apiMounts = FALSE
  /\ factory = "none"
  /\ exit = "none"
  /\ interrupted = FALSE
  /\ trouble = FALSE

-----------------------------------------------------------------------------
(***************************************************************************)
(* The order of the steps, and where an exception goes from each.          *)
(***************************************************************************)
After == [
  partition |-> "bindCache",     bindCache |-> "recordCache",   recordCache |-> "moveLive",
  moveLive |-> "maskLive",       maskLive |-> "packages",       packages |-> "unmaskLive",
  unmaskLive |-> "unbindCache",  unbindCache |-> "startKeyring", startKeyring |-> "genfstab",
  genfstab |-> "zfsJoin",        zfsJoin |-> "zfsSign",         zfsSign |-> "aarch64Join",
  aarch64Join |-> "moveHook",    moveHook |-> "maskHook",       maskHook |-> "applySystem",
  applySystem |-> "unmaskHook",  unmaskHook |-> "finalize",     finalize |-> "bootResult",
  bootResult |-> "userResult",   userResult |-> "bothDone",     bothDone |-> "configure",
  configure |-> "assertHooks",   assertHooks |-> "signingJoin", signingJoin |-> "readKeyring",
  readKeyring |-> "factoryJoin", factoryJoin |-> "snapshot",    snapshot |-> "stopKeyring",
  stopKeyring |-> "stopJoin",    stopJoin |-> "cleanBinds",     cleanBinds |-> "cleanMasks",
  cleanMasks |-> "cleanStorage", cleanStorage |-> "exited"]

Labels     == DOMAIN After \cup {"exited"}
Finally    == {"stopKeyring", "stopJoin", "cleanBinds", "cleanMasks", "cleanStorage"}
InPhases   == pc \notin Finally \cup {"exited"}

Handler(l) == CASE l = "packages"    -> "unmaskLive"
                [] l = "applySystem" -> "unmaskHook"
                [] OTHER             -> "stopKeyring"

\* Mutant: the runtime's own pacman-key on aarch64 does not wait for the unit.
AppliesNoAarch64Join(l) ==
  CASE l \in {"zfsJoin", "zfsSign"} -> install.zfs
    [] l \in {"signingJoin", "readKeyring"} -> install.aarch64
    [] OTHER -> l # "aarch64Join"

Applies(l) ==
  CASE l \in {"zfsJoin", "zfsSign"} -> install.zfs
    [] l \in {"aarch64Join", "signingJoin", "readKeyring"} -> install.aarch64
    [] OTHER -> TRUE

Go(l)     == pc' = l
GoOn      == pc' = After[pc]
At(l)     == pc = l /\ Applies(l)
Raise(e)  == raised' = e /\ pc' = Handler(pc)

\* A finally block ends: the exception goes on, or the phase does.
EndFinally == pc' = IF raised = "none" THEN After[pc] ELSE "stopKeyring"

Skip ==
  /\ InPhases /\ ~Applies(pc)
  /\ GoOn
  /\ UNCHANGED <<install, interrupted, raised, signing, masks, binds, threads, factory, exit, trouble>>

-----------------------------------------------------------------------------
(***************************************************************************)
(* The offline package cache.                                              *)
(***************************************************************************)
BindCache ==
  /\ At("bindCache")
  /\ cache' = TRUE
  /\ GoOn
  /\ UNCHANGED <<install, interrupted, raised, signing, masks, recorded, fstab, threads, factory, exit, trouble>>

RecordCache ==
  /\ At("recordCache")
  /\ recorded' = TRUE
  /\ GoOn
  /\ UNCHANGED <<install, interrupted, raised, signing, masks, cache, fstab, threads, factory, exit, trouble>>

\* umount with check=True: a failure replaces the exception in flight.
UnbindCache ==
  /\ At("unbindCache")
  /\ \/ /\ cache' = FALSE /\ recorded' = FALSE
        /\ EndFinally
        /\ UNCHANGED <<raised, trouble>>
     \/ /\ Raise("error")
        /\ trouble' = TRUE
        /\ UNCHANGED <<cache, recorded>>
  /\ UNCHANGED <<install, interrupted, signing, masks, fstab, threads, factory, exit>>

CleanBinds ==
  /\ At("cleanBinds")
  /\ \/ cache' = (cache /\ ~recorded) /\ UNCHANGED trouble
     \/ UNCHANGED cache /\ trouble' = TRUE
  /\ recorded' = FALSE
  /\ GoOn
  /\ UNCHANGED <<install, interrupted, raised, signing, masks, fstab, threads, factory, exit>>

Genfstab ==
  /\ At("genfstab")
  /\ fstab' = IF cache THEN "leaky" ELSE "clean"
  /\ GoOn
  /\ UNCHANGED <<install, interrupted, raised, signing, masks, cache, recorded, threads, factory, exit, trouble>>

-----------------------------------------------------------------------------
(***************************************************************************)
(* The hook masks: the override moved to its backup, /dev/null in its      *)
(* place, and back.                                                        *)
(***************************************************************************)
\* Mutant: an override that is masked already is moved away as well.
MovedAwayAny(h) == IF h.file # "absent" THEN [file |-> "absent", backup |-> h.file] ELSE h

MovedAway(h) == IF h.file = "hook" THEN [file |-> "absent", backup |-> "hook"] ELSE h
Masked(h)    == [h EXCEPT !.file = "null"]

Unmasked(h) ==
  LET file == IF h.file = "null" THEN "absent" ELSE h.file
  IN  IF h.backup = "hook" THEN Restored ELSE [file |-> file, backup |-> "absent"]

MaskLive ==
  /\ \/ At("moveLive") /\ live' = MovedAway(live)
     \/ At("maskLive") /\ live' = Masked(live)
  /\ GoOn
  /\ UNCHANGED <<install, interrupted, raised, signing, hook, maskStuck, binds, threads, factory, exit, trouble>>

MaskHook ==
  /\ \/ At("moveHook") /\ hook' = MovedAway(hook)
     \/ At("maskHook") /\ hook' = Masked(hook)
  /\ GoOn
  /\ UNCHANGED <<install, interrupted, raised, signing, live, maskStuck, binds, threads, factory, exit, trouble>>

\* An OSError is logged and passed over.
UnmaskLive ==
  /\ At("unmaskLive")
  /\ \/ live' = Unmasked(live) /\ UNCHANGED trouble
     \/ UNCHANGED live /\ trouble' = TRUE
  /\ Go("unbindCache")
  /\ UNCHANGED <<install, interrupted, raised, signing, hook, maskStuck, binds, threads, factory, exit>>

\* cleanup_target_hook_masks: in run_system_finalizer's finally, at the start of
\* validate_boot and in main's finally.
RestoresHook ==
  \/ hook' = Unmasked(hook) /\ maskStuck' = FALSE /\ UNCHANGED trouble
  \/ UNCHANGED hook /\ maskStuck' = TRUE /\ trouble' = TRUE

UnmaskHook ==
  /\ At("unmaskHook")
  /\ RestoresHook
  /\ EndFinally
  /\ UNCHANGED <<install, interrupted, raised, signing, live, binds, threads, factory, exit>>

CleanMasks ==
  /\ At("cleanMasks")
  /\ RestoresHook
  /\ GoOn
  /\ UNCHANGED <<install, interrupted, raised, signing, live, binds, threads, factory, exit>>

\* Mutant: repaired, and the repair believed.
AssertHooksBelieved ==
  /\ At("assertHooks")
  /\ RestoresHook
  /\ GoOn
  /\ UNCHANGED <<install, interrupted, raised, signing, live, binds, threads, factory, exit>>

\* _assert_boot_hooks_restored: repair, then insist.
AssertHooks ==
  /\ At("assertHooks")
  /\ RestoresHook
  /\ IF hook' = Restored THEN GoOn /\ UNCHANGED raised ELSE Raise("error")
  /\ UNCHANGED <<install, interrupted, signing, live, binds, threads, factory, exit>>

-----------------------------------------------------------------------------
(***************************************************************************)
(* The keyring unit.                                                       *)
(***************************************************************************)
Busy(state) == state \in {"requested", "running"}

\* Mutant: a failed unit of an earlier attempt holds the name.
StartKeyringNoReset ==
  /\ At("startKeyring")
  /\ unit' = IF unit = "failedEarlier" THEN "failed" ELSE "requested"
  /\ proc' = TRUE
  /\ GoOn
  /\ UNCHANGED <<install, interrupted, raised, waiting, keyring, masks, binds, threads, factory, exit, trouble>>

\* systemctl reset-failed, then systemd-run's client, which asks PID 1.
StartKeyring ==
  /\ At("startKeyring")
  /\ unit' = "requested"
  /\ proc' = TRUE
  /\ GoOn
  /\ UNCHANGED <<install, interrupted, raised, waiting, keyring, masks, binds, threads, factory, exit, trouble>>

UnitStarts ==
  /\ unit = "requested"
  /\ \/ unit' = "running" /\ keyring' = "partial" /\ UNCHANGED trouble
     \/ unit' = "failed" /\ trouble' = TRUE /\ UNCHANGED keyring
  /\ UNCHANGED <<install, interrupted, pc, raised, proc, waiting, masks, binds, threads, factory, exit>>

UnitEnds ==
  /\ unit = "running"
  /\ \/ unit' = "ok" /\ keyring' = "whole" /\ UNCHANGED trouble
     \/ unit' = "failed" /\ trouble' = TRUE /\ UNCHANGED keyring
  /\ UNCHANGED <<install, interrupted, pc, raised, proc, waiting, masks, binds, threads, factory, exit>>

\* _join_target_keyring_init: the client is taken out of ctx.state first.
PopProc ==
  /\ pc \in Joins /\ Applies(pc) /\ ~waiting
  /\ IF proc
     THEN proc' = FALSE /\ waiting' = TRUE /\ UNCHANGED pc
     ELSE GoOn /\ UNCHANGED <<proc, waiting>>
  /\ UNCHANGED <<install, interrupted, raised, unit, keyring, masks, binds, threads, factory, exit, trouble>>

\* Mutant: the join knows units that end, and not units that are stopped.
JoinedNotStopped ==
  /\ waiting /\ unit \in {"ok", "failed"}
  /\ waiting' = FALSE
  /\ IF unit = "ok" \/ pc = "stopJoin" THEN GoOn /\ UNCHANGED raised ELSE Raise("error")
  /\ UNCHANGED <<install, interrupted, proc, unit, keyring, masks, binds, threads, factory, exit, trouble>>

\* proc.communicate() returned; the exit path raises nothing of its own.
Joined ==
  /\ waiting /\ ~Busy(unit)
  /\ waiting' = FALSE
  /\ IF unit = "ok" \/ pc = "stopJoin" THEN GoOn /\ UNCHANGED raised ELSE Raise("error")
  /\ UNCHANGED <<install, interrupted, proc, unit, keyring, masks, binds, threads, factory, exit, trouble>>

\* Mutant: the exit path leaves a unit that still runs to itself.
StopKeyringNever ==
  /\ At("stopKeyring")
  /\ Go("cleanBinds")
  /\ UNCHANGED <<install, interrupted, raised, signing, masks, binds, threads, factory, exit, trouble>>

\* stop_target_keyring_init: systemctl stop while the client is still known; a
\* unit PID 1 has not heard of yet is not stopped, and the join waits for it.
StopKeyring ==
  /\ At("stopKeyring")
  /\ unit' = IF proc /\ unit = "running" THEN "stopped" ELSE unit
  /\ GoOn
  /\ UNCHANGED <<install, interrupted, raised, proc, waiting, keyring, masks, binds, threads, factory, exit, trouble>>

-----------------------------------------------------------------------------
(***************************************************************************)
(* finalize_boot_and_user.                                                 *)
(***************************************************************************)
\* Mutant: the user's chroot mounts where the boot thread's does.
SharedByBoth(t) == t \in Threads

\* Its arch-chroot mounts /proc, /sys and /dev where every process sees them.
Shared(t) == t = "boot" \/ install.serial

Finalize ==
  /\ At("finalize")
  /\ thread' = IF install.serial THEN [thread EXCEPT !["boot"] = "ready"]
               ELSE [t \in Threads |-> "ready"]
  /\ GoOn
  /\ UNCHANGED <<install, interrupted, raised, signing, masks, binds, errors, apiMounts, factory, exit, trouble>>

EnterChroot(t) ==
  /\ thread[t] = "ready"
  /\ ~(t = "user" /\ install.deferred)
  /\ thread' = [thread EXCEPT ![t] = "chroot"]
  /\ apiMounts' = (apiMounts \/ Shared(t))
  /\ UNCHANGED <<install, interrupted, pc, raised, signing, masks, binds, errors, factory, exit, trouble>>

LeaveChroot(t) ==
  /\ thread[t] = "chroot"
  /\ apiMounts' = (apiMounts /\ ~Shared(t))
  /\ \/ thread' = [thread EXCEPT ![t] = "done"] /\ UNCHANGED trouble
     \/ thread' = [thread EXCEPT ![t] = "failed"] /\ trouble' = TRUE
  /\ UNCHANGED <<install, interrupted, pc, raised, signing, masks, binds, errors, factory, exit>>

\* The user's setup is left to the first boot, or a thread's own check fails.
NoChroot(t) ==
  /\ thread[t] = "ready"
  /\ \/ t = "user" /\ install.deferred
        /\ thread' = [thread EXCEPT ![t] = "done"] /\ UNCHANGED trouble
     \/ thread' = [thread EXCEPT ![t] = "failed"] /\ trouble' = TRUE
  /\ UNCHANGED <<install, interrupted, pc, raised, signing, masks, binds, errors, apiMounts, factory, exit>>

FirstError(e) == IF errors = "none" THEN e ELSE errors
Ended(t)      == thread[t] \in {"done", "failed"}

\* future.result() of each thread in turn, or the two calls one after the other.
BootResult ==
  /\ At("bootResult") /\ Ended("boot")
  /\ IF install.serial /\ thread["boot"] = "failed"
     THEN Raise("error") /\ UNCHANGED <<thread, errors>>
     ELSE /\ errors' = IF thread["boot"] = "failed" THEN FirstError("error") ELSE errors
          /\ thread' = IF install.serial THEN [thread EXCEPT !["user"] = "ready"] ELSE thread
          /\ GoOn
          /\ UNCHANGED raised
  /\ UNCHANGED <<install, interrupted, signing, masks, binds, apiMounts, factory, exit, trouble>>

UserResult ==
  /\ At("userResult") /\ Ended("user")
  /\ errors' = IF thread["user"] = "failed" THEN FirstError("error") ELSE errors
  /\ GoOn
  /\ UNCHANGED <<install, interrupted, raised, signing, masks, binds, thread, apiMounts, factory, exit, trouble>>

\* The pool is left when both are done; the first exception is raised again.
BothDone ==
  /\ At("bothDone") /\ \A t \in Threads : Ended(t)
  /\ IF errors = "none" THEN GoOn /\ UNCHANGED raised ELSE Raise(errors)
  /\ UNCHANGED <<install, interrupted, signing, masks, binds, threads, factory, exit, trouble>>

-----------------------------------------------------------------------------
(***************************************************************************)
(* The other steps, and the ways out.                                      *)
(***************************************************************************)
Work ==
  /\ \E l \in {"partition", "zfsSign", "applySystem", "configure", "readKeyring"} : At(l)
  /\ GoOn
  /\ UNCHANGED <<install, interrupted, raised, signing, masks, binds, threads, factory, exit, trouble>>

\* Each pacstrap -K runs pacman-key --init on the target's gnupg directory.
Packages ==
  /\ At("packages")
  /\ keyring' = "partial"
  /\ GoOn
  /\ UNCHANGED <<install, interrupted, raised, proc, waiting, unit, masks, binds, threads, factory, exit, trouble>>

\* create_factory_snapshot, after its join.  It is skipped, without an error,
\* unless findmnt says the target is btrfs and on @: a ZFS target is not, and
\* any other is (the image was placed there), so that findmnt did not answer.
Snapshot ==
  /\ At("snapshot")
  /\ \/ install.zfs /\ UNCHANGED <<factory, trouble>>
     \/ ~install.zfs /\ factory' = keyring /\ UNCHANGED trouble
     \/ ~install.zfs /\ UNCHANGED factory /\ trouble' = TRUE
  /\ GoOn
  /\ UNCHANGED <<install, interrupted, raised, signing, masks, binds, threads, exit>>

Fallible == {"partition", "bindCache", "moveLive", "maskLive", "packages", "startKeyring",
             "genfstab", "zfsSign", "moveHook", "maskHook", "applySystem", "configure",
             "assertHooks", "readKeyring", "snapshot"}

PhaseFails ==
  /\ pc \in Fallible /\ Applies(pc)
  /\ Raise("error")
  /\ trouble' = TRUE
  /\ UNCHANGED <<install, interrupted, signing, masks, binds, threads, factory, exit>>

\* ^C reaches the main thread while a phase runs: between two steps, or in the
\* wait for the unit or for a thread.  While the pool is joined it is one more
\* error, raised again when both threads are done.
Interrupt ==
  /\ InPhases /\ ~interrupted
  /\ interrupted' = TRUE /\ trouble' = TRUE
  /\ waiting' = FALSE
  /\ IF pc \in {"bootResult", "userResult"} /\ ~install.serial
     THEN /\ errors' = FirstError("interrupt")
          /\ GoOn
          /\ UNCHANGED <<raised, thread>>
     ELSE /\ Raise("interrupt")
          /\ thread' = [t \in Threads |-> IF Ended(t) THEN thread[t] ELSE "idle"]
          /\ UNCHANGED errors
  /\ UNCHANGED <<install, proc, unit, keyring, masks, binds, apiMounts, factory, exit>>

\* The dashboard's stop_child: SIGTERM to the group, SIGKILL to what is left.
Kill ==
  /\ pc # "exited"
  /\ trouble' = TRUE
  /\ exit' = "killed" /\ Go("exited")
  /\ waiting' = FALSE
  /\ thread' = [t \in Threads |-> "idle"]
  /\ UNCHANGED <<install, interrupted, raised, proc, unit, keyring, masks, binds, errors, apiMounts, factory>>

\* main's return value.
Leave ==
  /\ At("cleanStorage")
  /\ exit' = IF raised = "none" THEN "complete" ELSE raised
  /\ Go("exited")
  /\ UNCHANGED <<install, interrupted, raised, signing, masks, binds, threads, factory, trouble>>

Exited == pc = "exited" /\ ~Busy(unit) /\ UNCHANGED vars

MainStep ==
  \/ Skip \/ Work \/ BindCache \/ RecordCache \/ MaskLive \/ Packages \/ UnmaskLive
  \/ UnbindCache \/ StartKeyring \/ Genfstab \/ MaskHook \/ UnmaskHook
  \/ Finalize \/ BootResult \/ UserResult \/ BothDone \/ AssertHooks \/ Snapshot
  \/ PopProc \/ Joined \/ StopKeyring \/ CleanBinds \/ CleanMasks \/ Leave

ThreadStep(t) == EnterChroot(t) \/ LeaveChroot(t) \/ NoChroot(t)

Next ==
  \/ MainStep \/ (\E t \in Threads : ThreadStep(t))
  \/ UnitStarts \/ UnitEnds
  \/ PhaseFails \/ Interrupt \/ Kill \/ Exited

(***************************************************************************)
(* The scheduler runs every thread, the commands return and systemd runs   *)
(* the unit to its end; nobody has to fail, interrupt or kill.             *)
(***************************************************************************)
Fairness ==
  /\ WF_vars(MainStep) /\ WF_vars(UnitStarts) /\ WF_vars(UnitEnds)
  /\ \A t \in Threads : WF_vars(ThreadStep(t))

Spec == Init /\ [][Next]_vars /\ Fairness

-----------------------------------------------------------------------------
TypeOK ==
  /\ install \in [zfs : BOOLEAN, aarch64 : BOOLEAN, deferred : BOOLEAN, serial : BOOLEAN]
  /\ pc \in Labels
  /\ raised \in {"none", "error", "interrupt"}
  /\ proc \in BOOLEAN /\ waiting \in BOOLEAN
  /\ unit \in {"none", "failedEarlier", "requested", "running", "ok", "failed", "stopped"}
  /\ keyring \in {"none", "partial", "whole"}
  /\ live \in HookStates /\ hook \in HookStates /\ maskStuck \in BOOLEAN
  /\ cache \in BOOLEAN /\ recorded \in BOOLEAN
  /\ fstab \in {"none", "clean", "leaky"}
  /\ thread \in [Threads -> {"idle", "ready", "chroot", "done", "failed"}]
  /\ errors \in {"none", "error", "interrupt"}
  /\ apiMounts \in BOOLEAN
  /\ factory \in {"none", "partial", "whole"}
  /\ exit \in {"none", "complete", "error", "interrupt", "killed"}
  /\ interrupted \in BOOLEAN /\ trouble \in BOOLEAN

\* pacstrap -K, ZFS's lsign, the aarch64 runtime and the signature check all
\* use the target's gnupg directory.
UsesKeyring ==
  pc \in {"packages", "zfsSign", "readKeyring"} \/ (pc = "applySystem" /\ install.aarch64)

\* Two pacman-keys on one gnupg directory break each other's writes: the unit
\* never runs while a phase uses the target's keyring.
OneKeyringUser == Busy(unit) => ~(Applies(pc) /\ UsesKeyring)

\* A completed install is handed over with its UKI rebuild hook in place, its
\* keyring whole, an fstab without the live mirror whatever failed to unmount on
\* the way, and no one writing to it.  A @factory never holds half a keyring (a
\* reset would bring back a system that trusts no package); a ZFS install has
\* none, and any other has one unless something went wrong.
HandedOverSound ==
  exit = "complete" =>
    /\ hook = Restored
    /\ keyring = "whole" /\ ~Busy(unit)
    /\ factory # "partial"
    /\ ~trouble => factory = IF install.zfs THEN "none" ELSE "whole"
    /\ fstab = "clean" /\ ~cache
    /\ \A t \in Threads : thread[t] = "done"

\* After a failed install nothing runs on in the target, and its hook is back
\* unless putting it back was what failed.
FailedInstallIsQuiet ==
  exit = "error" =>
    /\ ~Busy(unit)
    /\ \A t \in Threads : thread[t] # "chroot"
    /\ hook = Restored \/ maskStuck

\* The two chroots do not tear down each other's /proc, /sys and /dev.
ChrootsKeepTheirMounts == \A t \in Threads : thread[t] = "chroot" /\ Shared(t) => apiMounts

\* Unless something fails, the install completes and the live hooks are back,
\* also when an earlier attempt was killed and left its masks and failed unit.
CleanRunCompletes == <>(trouble \/ (exit = "complete" /\ live = Restored))

\* No join, thread or cleanup waits forever.
AlwaysEnds == <>(pc = "exited")

\* "An interrupt must never leave the installed system with its UKI rebuild hook
\* pointing at /dev/null": the dashboard's ^C ends the orchestrator by SIGTERM.
InterruptUnmasks == exit \in {"interrupt", "killed"} => hook.file # "null" \/ maskStuck
=============================================================================
