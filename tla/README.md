# TLA+ models of the Omarchy installer

The Omarchy ISO boots a live system that wipes a disk, or takes the free space
beside another system, and turns it into an installed one. Most of it is shell
and Python that runs as root, once, on hardware nobody has seen before, with a
dashboard, systemd units, worker threads and udev all at work on the same disk.
This directory models the parts where order, failure and concurrency decide
whether the result is sound, checks them with TLC and proves
their safety with TLAPS.

    tlc -config ImageWrite.cfg ImageWrite.tla     check one model
    tlapm ImageWriteProofs.tla                    check the proofs of one module

`PROJECT.json` lists the runs, the source lines every definition follows (`map`),
a mutant of the code for every property (the property fails on it), the hazards
of the code with the properties that cover them, and the findings.

Paths below are relative to the repository's root; `O/` stands for
`configs/airootfs/usr/share/omarchy-iso/orchestrator/` and `B/` for
`configs/airootfs/usr/local/bin/`.


## 1. The system and its parts

What happens in an install, and which component does it:

    boot ── systemd units hash the mirror and the root image ─────────────┐
      │                                                                   │ verdict
      ├─ cidata loader: answers from an autoinstall drive                 │
      └─ configurator: the user's answers                                 │
            └─ free-space install: partitions, LUKS, mkfs, mount  ◄───────┤
                 │ answers, partition numbers, mounts                     │
            install dashboard (forks, watches, kills) ──► orchestrator ◄──┘
                                                            │ phases
              full-disk partitioning / ZFS ─ place the root image ─ packages
              ─ keyring unit ─ system, boot and user finalizers ─ boot entries
              ─ factory snapshot
                 │ exit status
            install dashboard ─ release the target ─ reboot

Each component below: its state, its operations, whom it works with, what is hard
about it, and what makes it correct.

**Image writer** (`builder/omarchy-image-write.c`). State: the image's seek table,
a shared slot counter, a `failed` flag, the target. Operations: `write` (plan,
open, start workers, decode and `pwrite` each frame, join, `fsync`) and the
SIGBUS handler. Called by the orchestrator, which acts on exit 0, 1 or 2. Hard:
threads, failure of any of them at any point, a signal that ends the process in
any thread. Correct: 0 means the whole image is durable, 2 means nothing was
written, no frame has two writers, it always exits.

**Install medium verification** (`B/omarchy-wait-root-image-verify` and the two
`omarchy-*-verify.service` units). State: the units' states and results in
systemd, the helper's counters. Operations: the units' hashing, the helper's
polls and its background `systemctl start`. Called by the configurator before it
partitions and by the orchestrator before its first table, filesystem or image, but
in a full-disk install after the disk cleanup, which wipes signatures. Hard: PID 1
stops answering on a dying medium, a start times out and the hasher cannot be
reaped, queued and never-started units look alike. Correct: nothing is written for
a bad medium, a good one is accepted, the advice given fits the cause, the helper
always answers. That a refusal costs nothing, as a docstring has it, is not so
(section 6).

**Install run** (`O/main.py`, `O/phases.py`, phases in `O/phases_impl.py`). State:
`ctx.state` (the recorded bind mounts, the keyring unit's client), the hook masks,
the target's keyring, fstab and hooks, the exit status. Operations: the phases
and the `finally` that undoes them. Works with systemd (the keyring unit), with
pacman and arch-chroot, under the dashboard. Hard: exceptions inside `finally`
blocks, ^C in a wait, SIGTERM, two threads with one target, leftovers of a killed
attempt. Correct: what is handed over is sound, a failed run leaves nothing
running in the target, one process uses the gnupg directory at a time, every run
ends.

**Placing the root image** (`_place_root_image` and what it calls, with
`_verify_nested_subvolumes` before it). State: the mounts of the target, the
device, the fsid and blkid's cache of it, two processes and a pipe, the staging
directory. Operations: unmount, write, change the fsid, reshape the subvolumes,
mount again, restore. Works with the image writer, udev, the dashboard's polls of
the target's package database. Hard: four pipe ends over three processes, the
failure of either, the cache udev refreshes in its own time, subvolumes and
mountpoints that nest in different orders. Correct: never write under a mount,
never go on with less than the image, never read a stale UUID, never lose a file
of the image under a mount, and refuse before the wipe any layout that cannot be
made.

**Free-space partitioning** (`configs/airootfs/usr/share/omarchy-iso/disk-partitioning.sh`,
`run_partition_execute` and `disk_abort_hook` in `configs/airootfs/root/configurator`).
State: the partition table, `created_parts`, the LUKS mapper, the mounts at /mnt.
Operations: create a partition, format, encrypt, mount, hand over, roll back.
Works on a disk other systems live on. Hard: the number of the new partition is
told from two reads of the table; every command can fail; an interrupted run's
mapper and mounts are still there in the next. Correct: no other system's
partition is touched, what is handed over is this run's own, an abort lets go of
what it took.

**Boot entries** (`O/phases_impl.py` 1324–1662, 1945–2201, 3603–3688). State: the
NVRAM boot variables, BootOrder, BootNext, the removable loader on the ESP.
Operations: reuse or create the "Limine" entry, delete its duplicates, write
BootOrder and BootNext, write the removable loader, check the result. Works with
the firmware. Hard: firmware that refuses a variable, takes it and discards it,
stops answering, or reorders at POST; other installs' entries of the same name; a
shared ESP; a listing that is stale when it is used. Correct: a completed install
can be reached, nobody else loses an entry or a place in BootOrder, and the first boot
starts what was just installed. Its own last entry may go (section 6).

**Cidata loader** (`B/omarchy-cidata-load`), **configurator**
(`configs/airootfs/root/configurator`) and **install context** (`O/context.py`).
State: the inputs under /root, and what is made of them. Operations: find, mount
and copy the drive's files; the wizard's answers; whether the install is deferred,
which accounts and which LUKS passphrase it has. Hard: several starts in one live
session, a drive swapped or pulled between two, every combination of inputs.
Correct: an install works from the inputs of one start and one origin.

**Deferred provisioning and factory snapshot** (`O/phases_impl.py` 2536–2956,
3140–3342, 3691–3710, 3836–3907). State: the first-boot payload and the unlock key
in the target, the UKI that boots first, the read-only `@factory`. Operations:
stage, choose between the image's UKI and one built here, grant remote access,
validate, scrub, snapshot. Hard: the choice of the UKI and the scrub depend on what
four other phases left in the target. Correct: the first boot unlocks and its owner
gets in; `@factory` holds nothing of this deployment's and can be provisioned again.

**Disk cleanup** (`B/omarchy-iso-cleanup-disk`). State: everything that holds the
disk: swap, mounts, LUKS, LVM, RAID. Operations: rounds of release, wipe and reread
under the disk's lock. Hard: udev puts back what has just been taken down; leftovers
of a killed attempt. Correct: it ends, and success means nothing holds the disk.

**ZFS storage** (`O/zfs_storage.py`). State: the pool, its datasets, whether it is
imported. Operations: list, refuse or destroy an imported pool, import and destroy an
old one, partition, create, mount, export. Hard: zpool goes by names, and a pool of the
same name may be another disk's, in part or altogether, and may turn up between two
calls. Correct: a pool that is all on another disk survives; one that is in part does
not always (section 6).

**Target release** (`B/omarchy-release-install-target`) and **install dashboard**
(`B/omarchy-install-dashboard`). State: swap files, mounts and mappers of the target;
the child's process group, the screen. Operations: fork and poll, kill on ^C, the
failure menu, release the target, the note on the medium, reboot. Hard: what the
finish screen may say hangs on whether anything still holds the target, and
device-mapper may not answer. Correct: the medium is never offered for removal while
the target is held.

**LUKS calibration** (`O/luks_calibration.py`, `omarchy-luks-calibrate.service`). State:
the unit, the result it leaves in /run. Operations: benchmark and publish; before every
format, cancel the unit, read the result, choose the costs. Correct: no format runs beside
a benchmark it cancelled, reads half a result, or waits. The file is replaced whole and
validated when read, the stop takes a queued job out of systemd's queue too, and it is
waited for ten seconds at most; nothing else depends on it. Left out.

**Archinstall adapter** (`O/archinstall_adapter.py`), **media diagnosis**
(`B/omarchy-install-diagnose-media`), **keyboard, language and console font**,
**ISO and root image build**, **package mirror build**, **developer and test
commands**, **continuous integration**: patches of a library, text classifiers,
tables, sequential build scripts and harnesses. They keep no state between steps
that several actors share, and are left out.


## 2. What is modelled

| Module | Code | Kind |
| --- | --- | --- |
| `ImageCopy` | the contract in the header of `omarchy-image-write.c` | abstract specification |
| `ImageWrite`, `ImageWriteProofs` | `omarchy-image-write.c` `write` | threads; implements `ImageCopy` |
| `VerifyMedium`, `DiskProofs` | the verify units, the helper, its two callers | polling against systemd |
| `InstallRun`, `InstallRunProofs` | `main.py`, `phases.py`, phase order and cleanup of `phases_impl.py` | control flow with exceptions |
| `PlaceImage`, `PlaceImageProofs` | `_place_root_image` to the mounted layout | processes and a pipe; implements `ImageCopy` |
| `RootLayout`, `MCRootLayout`, `RootLayoutProofs` | `_verify_nested_subvolumes`, the reshaping, ESP staging | a filesystem as paths |
| `FreeSpace`, `MCFreeSpace`, `FreeSpaceProofs` | `disk-partitioning.sh`, the configurator's disk work | several runs on one disk |
| `InstallDisk`, `DiskProofs` | disk cleanup, the full-disk and ZFS layouts' holders, the exit path, the target's release | attempts on one disk, with udev |
| `FirstBoot`, `FirstBootProofs` | cidata loader, wizard's files, context, provisioning, UKI choice, `@factory` | inputs to first boot |
| `BootRoutes`, `BootRoutesProofs` | registration, removable loader, final check | efibootmgr against firmware |

How they fit together:

                 ImageCopy  (abstract)
                 ▲        ▲
      implements │        │ implements (flushed taken once the exit is ok)
           ImageWrite   PlaceImage ── Tool == INSTANCE ImageCopy
                          │ its "Reshape" step in detail
                        RootLayout

`ImageCopy` is at once what the image writer promises, what `PlaceImage` takes the
writer for, and what `PlaceImage` as a whole (writer or `zstdcat | dd`) promises
to the rest of the install.

The other modules share no state and meet at the interfaces of the code: `VerifyMedium`
ends where `FreeSpace` begins (the disk may be written) and where `InstallDisk` has its
step `Verified`, which comes after the cleanup (`PrepareLive` here, `UnmountTree` and
`ReleaseAndWipe` there), `InstallRun`
gives the order of the phases whose content is in `PlaceImage`, `BootRoutes` and
`FirstBoot`, and `InstallDisk` starts from whatever an `InstallRun` that failed or was
killed leaves on the disk.

### ImageWrite

Frames are `"data"`, `"zero"` (decode to nothing but zeros and are not written) or
`"bad"`. An action is the code between two accesses to what the threads share:
`next`, `failed`, the target and the `writing` flag the SIGBUS handler reads.
`main` and `pc[t]` are the program counters; `order` the permutation that puts
frames already in the page cache first. Every system call may fail where the code
looks at its result. A SIGBUS may strike any thread that touches the mapping,
with the exit status the handler chooses.

### PlaceImage

`step` is the orchestrator's place in `_place_root_image`. `Tool` is the abstract
copy; in the step `"tool"` it may take any of its steps and end in any of its
exits. In the step `"pipe"` `zstd` and `dd` are processes that run between the
orchestrator's own steps (spawn, close the ends, wait for one and the other),
`ends` the pipe ends the orchestrator still holds, `pipe` what is in it. `poll` is
the dashboard reading the target's package database: it keeps the tree busy and
makes an unmount attempt stop half way. `cache` is libblkid's UUID, which
`UdevProbes` refreshes at any time; `fsid` is the superblock's.

### RootLayout

Paths are sequences of names; the filesystem is its directories, its subvolumes
and where each file of the image is. `Accept` and `Refuse` are
`_verify_nested_subvolumes`, before the wipe; the rest is what happens after it.
`stale` is a file an earlier attempt left in the staging directory. The layouts
enumerated are those an autoinstall file may ask for beside the configurator's own
`@` and `@home`. `LayoutAssumption` says what every such layout keeps to: nothing else is
mounted where `@` and `@home` are, no name is one the install gives for a while
(`*.omarchy-image`) or one the model tells the stage and the FAT filesystems by, and the
image, which is made without users, has no file below `@home`'s mountpoint.

### VerifyMedium

`unit`, `result`, `job` are systemd's; `pc` and the counters the helper's. One
`systemctl show` and the branch of the shell that classifies its answer are one
step; an unanswered `show` is an outcome of that step. `stage` says who asks next: the
configurator (free space) and then the orchestrator, or the orchestrator alone. The
orchestrator's first phase (`PrepareLive`) comes before it asks, and in a full-disk or ZFS
install leaves the disk `"wiped"`; `"written"` is a table, a filesystem or the image.
`heard` and `trouble` are history variables.

### InstallRun

`pc` goes through the labels of `After`, in the order of `phases.py` and of the
`finally` in `main.py`; `Handler` says which `finally` catches an exception raised
at a label. `install` fixes the four choices that change the order (ZFS, aarch64,
deferred user, finalizers one after the other). `Interrupt` is KeyboardInterrupt in
the main thread, between two steps or in a wait; `Kill` is the dashboard's
`stop_child`. `trouble` is a history variable: something failed or somebody
interrupted. A hook's state is what stands at its override and in the backup
beside it; `Init` holds the states a killed earlier attempt can leave. `factory` is the
keyring `@factory` was made with, or `"none"`: `create_factory_snapshot` returns without
one, and without an error, where `findmnt` does not say btrfs and `@`. A ZFS target never
is; any other is, since the root image was placed there, so that skipping it means
`findmnt` did not answer, which is `trouble`.

### FreeSpace

A partition is the run that made it and its kind; run 0 are other systems'.
`step` follows `run_partition_execute`, and inside it `create_partition`: read the
numbers, `mkpart`, read them again, compare, record. `mounts` carry the tree they
were made in, because a later run's /mnt goes over an earlier one's. `outside`
counts changes somebody makes to the table from another console. Runs may be
interrupted (the configurator sets no trap), may abort through
`disk_abort_hook`, and may be handed to an orchestrator that then ends well,
fails and lets go, or is killed and lets go of nothing.


### InstallDisk

`holders` is what holds the partitions of the disk: something stacked on it in an
earlier life, the target's tree, a mount of its filesystem elsewhere, a swap file, the
crypt mapper, the pool. `labels` are the signatures udev or zpool act on: `"pool"` is of a
pool that is this disk's alone, `"shared"` of one another disk has a part of. `other` is a
pool of the same name that is all on another disk; it may be imported when the install
starts, and `ImportOther` lets another console import it at any moment the name is free.
`zfs_storage.prepare` is one action per call that goes by the name (`ListPool` with the
check of the devices, `ImportOld`, `DestroyPool`, `CreatePool`), because what the name
stands for may change between two. `destroyed` records the pools destroyed that were not
this disk's alone. `UnmountTree` and
`ReleaseAndWipe` are the cleanup script; one `ReleaseAndWipe` is one round, which the
disk's lock makes atomic towards `Assemble`; `doing` is the attempt's place in both and in
what follows. `kernel` says whether the kernel has read the table that was written:
archinstall and sgdisk write one all the same while the disk is held, which is what the
cleanup has to exclude. Every phase may raise (and `Cleanup`, `Export` run) or be killed
(and neither does), and `Again` starts over on what is left.
`Swapoff` to `CloseMapper` are the target's release; `offer` the finish screen's note.
The two validators of `zfs_storage.py` and the datasets' properties are left out.

### FirstBoot

`root` says who put each input into /root, and in which start. `Load` takes any set of
files a drive may carry, `answers` is what the configuration and credentials say about
the things the phases tell apart. From `Context` on, one action per phase that matters to
the first boot, in the order of `build_phases`: what each stages is a set of names in
`target`. `Finalize` chooses the UKI from the image's (`image`), the machine's (`machine`)
and what earlier phases staged. `uki` is what the initramfs that boots first was built
with, `factory` what `@factory` keeps. archinstall's account creation and formatting are
the step `Install`, which also stands for the command line of either path.

### BootRoutes

`entry` maps each boot option number to what it starts, seen from this install: itself, an
inactive entry of its own, another loader on this ESP, another install's Limine, Windows.
`pre` is the listing the registration works from, `guid` whether the ESP's GUID could be
read, `install.claims` whether the install takes the removable loader's path: always on an
ESP of its own, and on a shared one if the configuration says `enable_fallback`, which
nothing reads before limine-install does. `pre` and what was made of it end with the check
on Windows' entry, the last that uses them. `Discard`, `Surface` and `ServicesEnd` are the
firmware's, at any moment of the install and `MaxFirmware` of them in one; each of the
registration's writes may be refused besides. `Boot` is the first boot, where POST may have put any list over
BootOrder.


## 3. The runs

| Run | Distinct states | What it shows |
| --- | --- | --- |
| `image_write` | 72,539 | `WrittenMeansDurable`, `RefusedMeansUntouched`, `OneWorkerPerFrame`; `ImplementsCopy`; `AlwaysExits` |
| `verify_medium` | 394,668 | `WrittenOnlyIfVerified`, `AdviceFitsCause`; `GoodMediumAccepted`, `AlwaysAnswers` |
| `install_run` | 25,611 | `OneKeyringUser`, `HandedOverSound`, `FailedInstallIsQuiet`, `ChrootsKeepTheirMounts`; `CleanRunCompletes`, `AlwaysEnds` |
| `place_image` | 2,511 | `UuidFreshWhenMounted`, `WrittenOnlyUnmounted`; `ImplementsCopy`; `PlacingEnds` |
| `root_layout` | 39,681 | `ImageFilesVisible`, `AcceptedIsPlaced` |
| `free_space` | 872,756 (symmetry) | `ForeignUntouched`, `HandoverSound`, `ReleasedAfterwards` |
| `install_disk` | 18,663 | `TableIsRead`, `OtherPoolSurvives`, `OfferedMeansLetGo` |
| `first_boot` | 37,710 | `DriveClearsEarlierInputs`, `FirstBootReachesOwner`, `FactoryIsHandable` |
| `boot_routes` | 2,408,972 | `OthersStayInOrder`, `CompletedIsReachable`, `FirstBootIsOurs`; `TakesOnlyCopies` |

All but `free_space`, `install_disk` and `first_boot` also check their module's `TypeOK`,
which for those three is a theorem. What each property says stands above it in the module. Three more runs
are expected to fail; see section 6.

### Bounds, and why they are enough

- `image_write`: 3 frames, 2 workers, every assignment of kinds to frames and every
  order. Two workers are the least that race for a slot, three frames the least
  that let one of them take a second frame after the other has failed. The proofs
  lift both bounds.
- `place_image`: 3 frames through a pipe of 2 blocks, so that zstd blocks on a full
  pipe and dd on an empty one; 2 unmount attempts for 20 and 2 probes for 50, so
  that a retry succeeds, and the last attempt fails. The proofs lift these bounds
  for the safety properties.
- `verify_medium`: a hash of 2 reads (it can stop half way), 1 unanswered poll
  tolerated for 12 and 1 settling poll for 240: each counter reaches its limit and
  is reset. The proofs lift these bounds for the safety properties.
- `install_run`: one ^C and one kill per run; every fallible step fails. A second ^C
  only restarts an unwinding the first one began.
- `root_layout`: up to 3 of 8 subvolume names on 5 mountpoints with any of 2 FAT
  mounts, over a three-level image. The names hold top-level ones, ones nested in
  `@`, in `@home` and in each other, and one below a plain directory. Three is the
  least number in which one subvolume lies between two others. The properties
  also hold with four of these names (75,320 states), and with three of eleven names on
  seven mountpoints, below `@home` and below the ESP's too, with any of four FAT
  mounts (1,215,607 states). The proofs lift every bound: any image and any number of
  names and mountpoints, of any length and nested in any way.
- `free_space`: 2 runs, 4 GPT slots, 2 partitions of other systems, one change from
  outside. One change is what the code, which goes by partition numbers, can stand: with
  two, somebody may delete a partition the run has recorded and make one of their own in
  its slot, and the rollback or `wipefs` takes that one. The three properties are stated for
  one change, and proved for it with any number of runs, slots and other systems.
- `install_disk`: 3 attempts of any kind and 3 release rounds for 5. Two attempts let one
  meet another's leftovers, the third one leftovers of two kinds. Proved without bounds.
- `first_boot`: 2 starts in one session, every subset of the drive's files in each. Two
  starts are what it takes to inherit something; the proofs lift the bound.
- `boot_routes`: 3 boot options, so that a duplicate, the entry that is kept and another
  system's can be there together, in every BootOrder; the firmware acts of its own accord
  once. `FirstBootIsOurs` holds for one such act only: with two, an old
  entry can be discarded, the create be given its number, which the earlier listing shows
  as taken, and another install's entry turn up as the only new one. The other
  properties have no such limit: the model has 5,985,992 states with two such acts, and
  they hold in all of them; `OthersStayInOrder`, `CompletedIsReachable` and
  `TakesOnlyCopies` are proved for any number.

### Fairness

Safety needs none; only the modules with a liveness property state any. The liveness
properties assume:

- `ImageWrite`: weak fairness of the main thread's and of each worker's steps, the
  kernel's scheduling of runnable threads. Frames are finite in number, so decoding
  and writing one ends.
- `PlaceImage`: weak fairness of the orchestrator's steps, of `zstd` and of `dd`, and
  of the tool's end, which `ImageWrite!AlwaysExits` justifies. Nothing forces a poll
  of the dashboard or a probe of udev, or keeps them from happening.
- `VerifyMedium`: systemd runs queued jobs and its timers fire; the helper polls.
  There is none for reaping a read stuck in the driver, which is the case the
  helper's own limit is for.
- `InstallRun`: the main thread, the two threads, and systemd on its unit. No
  command is assumed to succeed or to fail; a command is assumed to return.

Interrupts, kills, errors and outside changes are never forced.


## 4. The proofs

The theorems a reader should know are in `PROJECT.json` under `theorems`. They hold
for every value of the constants and rest only on the named
assumptions on the constants (they are positive, there is a worker, boot options have
numbers and are finitely many, layouts are as section 2 says), and on library facts about finite sets, functions and
sequences. Five theorems assume in addition that outside the installer at most one thing
happens, `MaxOutside <= 1` or `MaxFirmware <= 1`; they say so, and are false without it.

**ImageWriteProofs.** `WrittenMeansDurable` is not inductive: nothing in it says why
a frame that is neither zero nor on the device cannot be missed by everyone. The
inductive invariant adds that: every slot below the counter is owned by exactly one
worker that is at work on it, or settled (its frame is zero or on the device), or
its worker has stopped with `failed` set; a worker that left normally has seen the
counter at the end of the plan; `order` is a permutation; and the main thread joins
only once every started worker is done. When the last worker is joined with
`failed` still clear, no slot is left but settled ones. The same invariant gives
`RefusedMeansUntouched`, `OneWorkerPerFrame`, and that every step of the threads is
a step or a stuttering of `ImageCopy` (`ThreadsImplementCopy`).

**PlaceImageProofs.** The invariant follows a frame through the pipe: each frame
zstd has sent decodes, unless zstd has died of it, and is on the device, or is
zeros, or is still in the pipe, unless dd has failed. With both exit statuses good
and the pipe empty the image is complete, which is what lets `PlaceImage` take
`ImageCopy!Succeed`. Its other parts say which processes run and which pipe ends
are open at each step (`WrittenOnlyUnmounted`) and tie the UUIDs to the step
(`UuidFreshWhenMounted`): `cache` may be refreshed at any time, but after the wait
it can only be refreshed to what it already is.

**RootLayoutProofs.** `ImageFilesVisible` speaks of the end only. While the subvolumes are
made a file is in the one that *holds* its path, of those made so far the one mounted
nearest above, and so is every directory that leads to it (`Found`); `Resolve` says the same
of the mounts at the end, which is why it comes out right. That making one more subvolume
keeps `Found` is the work of the module. The check looks at a name and the next name above
it; `Nested`, from a shortest counterexample, extends that to every name above: such names
lie as their mountpoints do, and what is mounted between two is named between them. With
the order by depth (`Ordered`) it follows that the content copied into the new subvolume
is exactly what it will hold (`ContentIsUnder`, `OthersHeld`), that no subvolume is inside
it or below the new name (`PlacedStays`), and that it is the new name itself or apart from
it (`ContentBeside`), so that cp never copies into itself, and moving a name aside and back
loses nothing (`ContentMoves`). Staging then takes for each FAT mount what that would hide
and no more (`StagedIsNearest`), leaves every subvolume (`SubvolumesStay`), and each file is
in the stage or already where it is shown (`Settled`). TLC checked the same invariant on the
layouts of `MCRootLayout`. The lemmas before `Given` are on paths: prefixes, what is above a
path as a chain, cutting and joining; a shortest path exists because finite sets of numbers
are well-founded. A layout as `Where` has it may be anything `Layouts` allows; only
`LayoutAssumption` and the image being closed upwards are assumed.

**DiskProofs** holds the proofs of both modules that stand around a disk's first write, and
extends the two, which is why `InstallDisk` calls its specification `DiskSpec`.

`VerifyMedium`: that the disk is written to follows from what the helper said, and
what it said is only as good as the unit it was said of, later on. That signatures are
wiped does not: `NothingWrittenForBadMedium` is about tables, filesystems and the image. The invariant says
that a unit's end is final and keeps its cause (`Settled`), that the image is only asked
about once the mirror, if it has sums, is active (`Asked`), and that each answer given is
true of the unit it names (`Answered`).

`InstallDisk`: from the release that succeeded to the partitioning nothing holds
the disk, and no label is left of which udev could make a holder (`Unheld`), so every
table is written where the kernel reads it (`TableIsRead`). While a pool elsewhere has the
name, none can be imported from this disk (`OneOfTheName`), so what `zpool destroy` reaches
by the name, one step after the check or the import, is the pool they saw
(`OtherPoolSurvives`). What each kind of install
holds from its partitioning on (`Opened`) decides what the release can find: a swap file
only in a mounted tree, a mapper on the mount table exactly when there is one to close;
with what each of its steps has let go (`LetGo`) that gives `OfferedMeansLetGo`.

**InstallRunProofs.** The promises are about the end of a run; the invariant says what is
known at each step on the way there. An exception is in flight inside the phases only in
the three `finally` blocks (`Out`). From `startKeyring` on the main thread has the unit's
client, or waits for it, or has seen the unit succeed, unless it is unwinding (`UnitKnown`),
so each user of the keyring, which comes after a join (`JoinedBefore`), comes after the
unit. The cache is off before the fstab is written whatever failed to unmount, because a
failed umount raises (`CacheGone`). A hook that is not in place has its backup, and past
`assertHooks` it is in place (`HookKnown`). A thread's failure is in `errors` until the
pool is left (`ThreadsKnown`); for the shared mounts, serial installs start the user's
chroot after the boot's has ended. `Completed` collects what has been done when the phases
are left without an exception, which of the snapshot is only that none was taken of a
half-written keyring, and that a run without trouble took one, unless the target is ZFS. Every lemma is about one action, with any kind of install
and an exception, ^C or kill at any step.

**FreeSpaceProofs.** `OthersAreSafe` is the argument of `create_partition`'s count. At
`mkpart` the numbers on disk are those read before, or the one change from outside has
made the two sets differ in size; at the comparison there is one more, which is this
run's, or the sizes cannot match (`Counted`, from the library's facts on cardinality). So
a recorded number is this run's; should its slot be emptied later, that was the one
change, and no other system can get it (`Kept`). What is wiped, formatted, opened,
mounted and rolled back is always at such a number.

`HandedOverIsOurs` and `EverythingReleased` add to that invariant what the run itself is
doing (`Tracked`): which partitions it has made, each at most once, and where
(`MadeOnce`, `Recorded`: the ESP's slot, emptied from outside, may be given to the root);
that `omarchy_root` is this run's from the open on and not before (`MapperOurs`); that the
tree on top of /mnt is one of an earlier run until this run mounts its own, so that the
abort's unmounting reaches exactly what is this run's (`MountedOurs`); and what each
formatted partition holds (`Filled`). The part the release needs of itself,
`ReleasedAfterwards`, is in the invariant because the next run starts from it. All three
theorems assume `MaxOutside <= 1`. With two changes each is false: TLC finds the ESP's
number given to another system's new partition just before `mkfs.fat`, and that partition
handed over; and an aborted run whose recorded number is no longer its own partition's.
`TypeCorrect` needs no such bound.

**FirstBootProofs.** The invariant follows an install through its phases: whose the inputs
are (`Fresh`), that somebody answered for the account and the passphrase (`Answered`),
what was formatted and staged with them (`Formatted`, `Armed`) and what the first UKI was
built with (`Built`). It stands without the checks of `validate_boot`.

**BootRoutesProofs.** `CompletedIsReachable` needs to know whose the removable loader is
(`LoaderIsOurs`: somebody else's only on a shared ESP), `TakesOnlyCopies` that an option
the listing showed as this install's is still that, or gone, when its number is used to
delete it (`StillOurs`: the firmware may bring options back, but only under numbers the
listing did not have), and that the one kept was listed beside it (`Chosen`). Whether the
one kept is still there the code does not know; it is if the firmware did nothing of its
own accord, and of others nothing is proved, because it is false (section 6).

`OthersStayInOrder` is about lists. The code's list comprehension is the operator
`Without(list, S)`, which sends each number that stays to its place among those that do;
the lemmas from `UptoOneMore` to `PutFirst` show, by counting, that this is a list again
(`EachHasItsPlace`), has the same members less `S` (`WhatStays`), keeps the order of any
two (`FitsInOrder`), and what becomes of it with one number put in front. With the
invariant that the numbers in the listing's order were all listed (`Listed`) the theorem
follows for each write of BootOrder, the firmware's own included.

`FirstBootIsOurs` follows BootNext. One act of the firmware's own either takes something
the listing had, or shows something it had not, and not both (`OneAct`), so the number
`read_back` picks as new is this install's or is gone (`Decided`); and an entry is only
created where the listing had none of this install's (`NoCopies`). `FirstBootReachesUs`
assumes `MaxFirmware <= 1`; the counterexample with two is described in section 3.

Every invariant and action property the passing runs check, and both refinements, are
theorems. Only model-checked is liveness, and anything about ENABLED, which the prover does
not do: `AlwaysExits`, `GoodMediumAccepted`, `AlwaysAnswers`, `CleanRunCompletes`,
`AlwaysEnds` and `PlacingEnds`.

## 5. What is abstracted, and what is left out

- The decompressor, the seek table's bytes, and sizes of any kind: a frame decodes or
  does not, a partition fits or `mkpart` fails. The growing of the filesystem after
  the write is a step that succeeds or fails.
- Commands (mkfs, cryptsetup, pacman, arch-chroot, mount) succeed or fail. Where a
  failure may leave part of the work done and the code goes on, that is an outcome of
  its own (an unmount that stopped half way, a `mkpart` that wrote the table and then
  failed).
- `FreeSpace` leaves out the choice of a region and its alignment, `mklabel` (free
  space is only offered on a disk that has a partition table), the kernel's own copy
  of the table, and holders of the new partitions other than the installer. A
  `created_parts` entry is a number, as in the code.
- `VerifyMedium` leaves out the progress display. A unit that starts and finishes its
  whole hash between the sample of its state and the `kill -0` that follows is not
  modelled: it would refuse a good medium, never accept a bad one.
- `InstallRun` does not say what each phase writes into the target beyond keyring,
  fstab and hooks. ^C after `main` has entered its `finally` is not modelled.
- `PlaceImage` leaves out the inspection of filesystems mounted beforehand and the
  package check in `_finish_root_image`.
- `RootLayout`: the image has one file per directory, and no symbolic links. `@log` and
  `@pkg` are as `@home` and left out with what they hide.
- `InstallDisk`: holders are classes, not devices; a disk has one array or volume group. A
  mapper under the target that is not a crypt mapping is left alone by the code and absent
  from the model. A plain btrfs stage mount outside the tree is not seen by the release,
  and `OfferedMeansLetGo` claims it of LUKS only. A ZFS pool whose export failed may still be
  imported when the medium is offered; nothing of it is mounted.
- `FirstBoot`: names and passwords are present or absent. A rig's configuration is taken to
  be one `from_env` and archinstall accept. What first-boot setup does belongs to the
  installed runtime.
- `BootRoutes`: the text of limine's configuration, and BIOS firmware, which has no boot
  variables.
- Not modelled: LUKS calibration (section 1), and what keeps no state that several actors
  share: the archinstall adapter (patches of a library's methods), the kernel-log
  classifier, tables and text handling, the build scripts and the harnesses.


## 6. Findings

Three runs check a property the repository states and the code does not keep. Each
is in `PROJECT.json` under `findings` with the line quoted.

1. `install_run_interrupt` / `InterruptUnmasks`. The dashboard's ^C ends the
   orchestrator by SIGTERM. Python runs no `finally` for it, so the target's UKI hook
   stays linked to /dev/null, which the comment at `phases_impl.py:3963` says must
   never happen.
2. `free_space_orphans` / `NoOrphans`. A partition `mkpart` made is recorded only
   after three later checks; when one of those fails, the rollback leaves it behind.
3. `first_boot_stale_inputs` / `WizardInheritsNothing`. The cidata loader leaves (lines 36
   and 39) before it clears an earlier load's files. A deferred autoinstall fails, its
   drive is taken out, the installer is started again: the wizard's install is deferred and
   gets the drive's SSH keys and Tailscale key. `test/unit/cidata-load-test.sh:167` says a
   drive that is none still clears them "so the wizard that follows doesn't inherit them".

Seen while modelling, each a step of a model but no run of its own:

- A `Result` systemd did not answer is not `"timeout"`, so a hash its timeout killed is
  reported as a corrupt medium (`omarchy-wait-root-image-verify:167`; `AdviceFitsCause` is
  stated for a systemd that answers).
- ^C in the wait for the keyring unit leaves `ctx.state` without its client, so the exit
  path does not stop the unit (`phases_impl.py:1276`; `FailedInstallIsQuiet` is stated of
  failures, not of interrupts).
- A refused medium is not free on a full-disk install. `prepare_live`, the phase before
  `prepare_install_target`, has `omarchy-iso-cleanup-disk` wipe every signature on the disk
  (`phases_impl.py:276`, `omarchy-iso-cleanup-disk:98-101`), while the docstring at
  `phases_impl.py:311` has the layout and the medium checked "before the disk is touched",
  "where failing costs nothing". `PrepareLive` wipes; `WrittenOnlyIfVerified` claims that no
  table, filesystem or image follows.
- The last entry of this install may be deleted. On a shared ESP with two entries for this
  loader the firmware discards the first after it was listed; the registration reuses that
  one by the listing (`phases_impl.py:1484`), creates nothing, and deletes the other
  (1532-1539). The comments there say "the entry that boots the machine is never deleted to
  make way for a new one" and "Duplicates of the reused entry go, never the reused one".
  `Discard`, `Match` and `Delete` do it; `TakesOnlyCopies` claims the kept one of a firmware
  that did nothing of its own accord. The check at the end fails the install if there is no
  removable loader either (`CompletedIsReachable`).
- A pool that is in part another disk's may be destroyed. An imported pool of the configured
  name goes only if every device of it is on this disk; one that is not imported is imported
  from partition 2 and destroyed without that check (`zfs_storage.py:66-72`), if its labels
  outlived the wipe. The comment at 60 says "Never destroy a same-named pool from another
  disk". `ImportOld` and `DestroyPool` do it, and `destroyed` then holds `"shared"`;
  `OtherPoolSurvives` claims the pools that are all on another disk.
- On a shared ESP with `enable_fallback` in the configuration, a removable loader that was
  there before and that limine-install did not replace passes the final check as this
  install's (`phases_impl.py:1955`, 3405). `CompletedIsReachable` says so.
- When `findmnt` does not answer, `@factory` is skipped and the install completes
  (`phases_impl.py:3841-3849`). `HandedOverSound` claims a snapshot of runs without trouble.
- The cleanup script knows no pool and no swap file. An attempt after one that was killed
  with its pool imported or its swap file on is refused ("Reboot the installer and try
  again"), so the branch of `zfs_storage.py:60` for a retry's own imported pool is not
  reached that way.


## 7. What could follow

- LUKS calibration as a unit in systemd against `luksFormat`.
- The dashboard's polls: log offset, progress that never goes back, child death.
- An abstract *held target* (who holds what, released in order of dependence) that both
  `FreeSpace`'s abort and `InstallDisk` would implement.
