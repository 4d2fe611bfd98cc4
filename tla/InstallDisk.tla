----------------------------- MODULE InstallDisk ----------------------------
(***************************************************************************)
(* Who holds the install disk: what the live system assembled from its     *)
(* earlier life, what an install opens on it, and what a failed one leaves *)
(* open.  omarchy-iso-cleanup-disk takes it all down before the disk is    *)
(* partitioned, zfs_storage clears and later exports its pool, and         *)
(* omarchy-release-install-target lets the target go before the finish     *)
(* screen offers the medium's removal.                                     *)
(*                                                                         *)
(* The kernel reads a new partition table only while nothing holds a       *)
(* partition; archinstall and sgdisk write one all the same.  udev, and    *)
(* somebody at another console, act in between.                            *)
(***************************************************************************)
EXTENDS Naturals

CONSTANTS
  Attempts,   \* times the installer is started in one live session
  Tries       \* rounds of the release loop in omarchy-iso-cleanup-disk

ASSUME DiskAssumption == Attempts \in Nat \ {0} /\ Tries \in Nat \ {0}

VARIABLES
  kind,       \* what the configuration puts on the disk
  attempt, try,
  doing,      \* where the attempt is
  holders,    \* what holds the disk's partitions
  labels,     \* signatures on them that can be activated
  kernel,     \* "read": the kernel's partitions are the table's
  other,      \* a pool of the same name, all of it on another disk
  destroyed,  \* history: the pools destroyed of which another disk has a part
  visitor,    \* a process in the target tree: the dashboard's poll, or a shell
  prepared,   \* ctx.state["zfs_prepared"]
  success,    \* the phases are through
  sweep,      \* the release read the crypt mapper off the mount table
  offer       \* the finish screen's note on the medium

mine     == <<prepared, success, sweep, offer>>
outside  == <<other, destroyed, visitor>>
diskVars == <<kind, attempt, try, doing, holders, labels, kernel, outside, mine>>

(***************************************************************************)
(* "old" is anything stacked on the disk before: an array, a volume group, *)
(* a swap partition.  "tree" is what is mounted at the target, "stage" a   *)
(* mount of its filesystem elsewhere, "swap" a swap file in the target,    *)
(* "crypt" the LUKS mapper, "pool" the disk's pool while imported: by its  *)
(* label its own ("pool"), or one another disk has a part of ("shared").   *)
(***************************************************************************)
Kinds   == {"btrfs", "luks", "zfs"}
Holders == {"old", "tree", "stage", "swap", "crypt", "pool"}
Labels  == {"old", "pool", "shared"}

DiskInit ==
  /\ kind \in Kinds
  /\ attempt = 1 /\ try = 1 /\ doing = "unmount"
  /\ holders = {}
  /\ labels \in SUBSET Labels /\ ~({"pool", "shared"} \subseteq labels)
  /\ kernel = "read"
  /\ other \in {"none", "exported", "imported"} /\ destroyed = {}
  /\ visitor = FALSE
  /\ prepared = FALSE /\ success = FALSE /\ sweep = FALSE
  /\ offer = "none"

-----------------------------------------------------------------------------
(***************************************************************************)
(* The live system around the installer.                                   *)
(***************************************************************************)
\* udev assembles what it finds a label of, except under the disk's lock.
Assemble ==
  /\ "old" \in labels \ holders
  /\ holders' = holders \cup {"old"}
  /\ UNCHANGED <<kind, attempt, try, doing, labels, kernel, outside, mine>>

Enter ==
  /\ "tree" \in holders /\ ~visitor
  /\ visitor' = TRUE
  /\ UNCHANGED <<kind, attempt, try, doing, holders, labels, kernel, other, destroyed, mine>>

Leave ==
  /\ visitor
  /\ visitor' = FALSE
  /\ UNCHANGED <<kind, attempt, try, doing, holders, labels, kernel, other, destroyed, mine>>

\* The name of an imported pool is taken.
ImportOther ==
  /\ other = "exported" /\ "pool" \notin holders
  /\ other' = "imported"
  /\ UNCHANGED <<kind, attempt, try, doing, holders, labels, kernel, destroyed, visitor, mine>>

-----------------------------------------------------------------------------
(***************************************************************************)
(* omarchy-iso-cleanup-disk.                                               *)
(***************************************************************************)
\* An active swap file is an invisible user of the tree.
Busy      == visitor \/ "swap" \in holders
Unmounted == IF Busy THEN holders ELSE holders \ {"tree"}

UnmountTree ==
  /\ doing = "unmount"
  /\ holders' = Unmounted
  /\ doing' = "release"
  /\ UNCHANGED <<kind, attempt, try, labels, kernel, outside, mine>>

\* unuse and release_holders: the mounts of what is stacked on the partitions,
\* swap on them, then the stack itself, holders first; any of it may fail, or
\* take a round more.  They know nothing of a pool, or of a swap file.
Mounts     == {"stage"} \cup IF Busy \/ "pool" \in holders THEN {} ELSE {"tree"}
Releasable == {M \in SUBSET (Mounts \cup {"old", "crypt"}) :
                 "crypt" \in M => (holders \ M) \cap {"tree", "stage"} = {}}
Released   == {holders \ M : M \in Releasable}

\* Mutant: the signatures stay.
WipedNot == {labels}

\* wipefs clears what udev would act on; a pool's labels may outlive it.
Wiped == {labels \ {"old"}, {}}

\* Refused while anything is held, and possibly for another reason.
Reread(H) == {FALSE, H = {}}

\* One round, under the disk's lock.
ReleaseAndWipe ==
  /\ doing = "release"
  /\ holders' \in Released
  /\ labels' \in Wiped
  /\ \E reread \in Reread(holders') :
       \/ reread  /\ doing' = "ready" /\ try' = try
       \/ ~reread /\ try < Tries /\ doing' = "release" /\ try' = try + 1
       \/ ~reread /\ try = Tries /\ doing' = "cleanup" /\ try' = try
  /\ UNCHANGED <<kind, attempt, kernel, outside, mine>>

Verified ==
  /\ doing = "ready"
  /\ doing' = IF kind = "zfs" THEN "pool" ELSE "partition"
  /\ UNCHANGED <<kind, attempt, try, holders, labels, kernel, outside, mine>>

-----------------------------------------------------------------------------
(***************************************************************************)
(* archinstall's partitioning and mounts, and what the phases add.         *)
(***************************************************************************)
TableWritten == kernel' = IF holders = {} THEN "read" ELSE "stale"

Partition ==
  /\ doing = "partition"
  /\ TableWritten
  /\ labels' = {}
  /\ holders' = holders \cup IF kind = "luks" THEN {"crypt"} ELSE {}
  /\ doing' = "mount"
  /\ UNCHANGED <<kind, attempt, try, outside, mine>>

Mount ==
  /\ doing = "mount"
  /\ holders' = holders \cup {"tree"}
  /\ doing' = "configure"
  /\ UNCHANGED <<kind, attempt, try, labels, kernel, outside, mine>>

\* configure_hibernation turns a swap file on, unless the target is ZFS or has
\* no such script; the umounts of a phase's own mount of the filesystem
\* (the root image's, the factory snapshot's) are not checked.
Configure ==
  /\ doing = "configure"
  /\ \E left \in SUBSET (IF kind = "zfs" THEN {} ELSE {"swap", "stage"}) : holders' = holders \cup left
  /\ success' = TRUE
  /\ doing' = "cleanup"
  /\ UNCHANGED <<kind, attempt, try, labels, kernel, outside, prepared, sweep, offer>>

-----------------------------------------------------------------------------
(***************************************************************************)
(* zfs_storage.prepare and cleanup.                                        *)
(***************************************************************************)
\* Mutant: whatever pool bears the name is the selected disk's.
UsesAnyDisk == TRUE

\* _pool_uses_only_disk, of the pool imported under that name.
UsesOnlyDisk == "pool" \in holders /\ "shared" \notin labels

\* zpool list, and what it says is checked before it goes.
ListPool ==
  /\ doing = "pool"
  /\ doing' = IF "pool" \notin holders /\ other # "imported" THEN "import"
              ELSE IF UsesOnlyDisk THEN "destroy" ELSE "cleanup"
  /\ UNCHANGED <<kind, attempt, try, holders, labels, kernel, outside, mine>>

\* zpool import of the name from partition 2.  Whatever it finds goes.
ImportOld ==
  /\ doing = "import"
  /\ \/ UNCHANGED holders /\ doing' = "zfsPartition"
     \/ /\ labels \cap {"pool", "shared"} # {} /\ other # "imported"
        /\ holders' = holders \cup {"pool"} /\ doing' = "destroy"
  /\ UNCHANGED <<kind, attempt, try, labels, kernel, outside, mine>>

\* zpool destroy knows the pool by its name.
DestroyPool ==
  /\ doing = "destroy"
  /\ IF "pool" \in holders
     THEN /\ holders' = holders \ {"pool", "tree"} /\ labels' = labels \ {"pool", "shared"}
          /\ destroyed' = destroyed \cup (labels \cap {"shared"})
          /\ UNCHANGED other
     ELSE /\ other' = "none" /\ destroyed' = destroyed \cup {"elsewhere"}
          /\ UNCHANGED <<holders, labels>>
  /\ doing' = "zfsPartition"
  /\ UNCHANGED <<kind, attempt, try, kernel, visitor, mine>>

ZfsPartition ==
  /\ doing = "zfsPartition"
  /\ TableWritten
  /\ doing' = "create"
  /\ UNCHANGED <<kind, attempt, try, holders, labels, outside, mine>>

\* The name must be free; the pool is imported before the state says there is
\* one.
CreatePool ==
  /\ doing = "create" /\ other # "imported"
  /\ holders' = holders \cup {"pool"} /\ labels' = (labels \ {"shared"}) \cup {"pool"}
  /\ doing' = "created"
  /\ UNCHANGED <<kind, attempt, try, kernel, outside, mine>>

MountDatasets ==
  /\ doing = "created"
  /\ prepared' = TRUE
  /\ holders' = holders \cup {"tree"}
  /\ doing' = "configure"
  /\ UNCHANGED <<kind, attempt, try, labels, kernel, outside, success, sweep, offer>>

\* main's finally.  Only a ZFS target is taken down, whether or not the
\* install succeeded, and neither command is checked.
Cleanup ==
  /\ doing = "cleanup"
  /\ LET zfs == kind = "zfs" /\ prepared IN
       /\ holders' = IF zfs THEN Unmounted ELSE holders
       /\ doing' = CASE zfs -> "export" [] ~zfs /\ success -> "finish" [] OTHER -> "failed"
  /\ UNCHANGED <<kind, attempt, try, labels, kernel, outside, mine>>

\* zpool export -f unmounts too, but not what somebody is in.
Export ==
  /\ doing = "export"
  /\ holders' \in {holders} \cup IF Busy THEN {} ELSE {holders \ {"tree", "pool"}}
  /\ doing' = IF success THEN "finish" ELSE "failed"
  /\ UNCHANGED <<kind, attempt, try, labels, kernel, outside, mine>>

-----------------------------------------------------------------------------
(***************************************************************************)
(* Failures and retries.                                                   *)
(***************************************************************************)
Running == {"unmount", "release", "ready", "partition", "mount", "configure",
            "pool", "import", "destroy", "zfsPartition", "create", "created"}

\* A phase raises, or ^C: the finally runs.  A phase's own mount may stay.
Mid == IF doing = "configure" /\ kind # "zfs" THEN SUBSET {"swap", "stage"} ELSE {{}}

PhaseFails ==
  /\ doing \in Running
  /\ \E left \in Mid : holders' = holders \cup left
  /\ doing' = "cleanup"
  /\ UNCHANGED <<kind, attempt, try, labels, kernel, outside, mine>>

\* SIGTERM from the dashboard runs no finally.
Killed ==
  /\ doing \in Running \cup {"cleanup", "export"}
  /\ \E left \in Mid : holders' = holders \cup left
  /\ doing' = "failed"
  /\ UNCHANGED <<kind, attempt, try, labels, kernel, outside, mine>>

Again ==
  /\ doing = "failed" /\ attempt < Attempts
  /\ attempt' = attempt + 1 /\ try' = 1
  /\ kind' \in Kinds
  /\ prepared' = FALSE /\ success' = FALSE
  /\ doing' = "unmount"
  /\ UNCHANGED <<holders, labels, kernel, outside, sweep, offer>>

-----------------------------------------------------------------------------
(***************************************************************************)
(* The finish: a deferred install reboots at once and gracefully; another  *)
(* releases its target, and what comes of that decides the note on the     *)
(* medium and the reboot behind the button.                                *)
(***************************************************************************)
RebootDeferred ==
  /\ doing = "finish"
  /\ doing' = "rebooted"
  /\ UNCHANGED <<kind, attempt, try, holders, labels, kernel, outside, mine>>

Swapoff ==
  /\ doing = "finish"
  /\ holders' \in {holders, holders \ {"swap"}}
  /\ doing' = "releaseTree"
  /\ UNCHANGED <<kind, attempt, try, labels, kernel, outside, mine>>

\* The mapper is read off the mount table before the unmount empties it.
MapperOfTree == {"tree", "crypt"} \subseteq holders

ReleaseTree ==
  /\ doing = "releaseTree"
  /\ sweep' = MapperOfTree
  /\ holders' = Unmounted
  /\ IF "tree" \in holders' THEN offer' = "leave" /\ doing' = "offered"
                            ELSE offer' = offer /\ doing' = "sweep"
  /\ UNCHANGED <<kind, attempt, try, labels, kernel, outside, prepared, success>>

SweepMounts ==
  /\ doing = "sweep"
  /\ holders' \in {holders} \cup IF sweep THEN {holders \ {"stage"}} ELSE {}
  /\ doing' = "close"
  /\ UNCHANGED <<kind, attempt, try, labels, kernel, outside, mine>>

\* Mutant: no answer about the mapper passes for its absence.
CloseMapperTrusting(answered) ==
  /\ doing = "close"
  /\ \/ (~sweep \/ ~answered) /\ UNCHANGED holders /\ offer' = "remove"
     \/ sweep /\ answered /\ "stage" \notin holders /\ holders' = holders \ {"crypt"} /\ offer' = "remove"
     \/ sweep /\ answered /\ UNCHANGED holders /\ offer' = "leave"
  /\ doing' = "offered"
  /\ UNCHANGED <<kind, attempt, try, labels, kernel, outside, prepared, success, sweep>>

\* `answered`: device-mapper could say whether the mapper exists.  Only its
\* word that it does not counts as closed.
CloseMapper(answered) ==
  /\ doing = "close"
  /\ \/ ~sweep /\ UNCHANGED holders /\ offer' = "remove"
     \/ sweep /\ answered /\ "stage" \notin holders /\ holders' = holders \ {"crypt"} /\ offer' = "remove"
     \/ sweep /\ UNCHANGED holders /\ offer' = "leave"
  /\ doing' = "offered"
  /\ UNCHANGED <<kind, attempt, try, labels, kernel, outside, prepared, success, sweep>>

Reboot ==
  /\ doing = "offered"
  /\ doing' = "rebooted"
  /\ UNCHANGED <<kind, attempt, try, holders, labels, kernel, outside, mine>>

Ended == (doing = "rebooted" \/ (doing = "failed" /\ attempt = Attempts)) /\ UNCHANGED diskVars

DiskNext ==
  \/ Assemble \/ Enter \/ Leave \/ ImportOther
  \/ UnmountTree \/ ReleaseAndWipe \/ Verified
  \/ Partition \/ Mount \/ Configure
  \/ ListPool \/ ImportOld \/ DestroyPool \/ ZfsPartition \/ CreatePool \/ MountDatasets \/ Cleanup \/ Export
  \/ PhaseFails \/ Killed \/ Again
  \/ RebootDeferred \/ Swapoff \/ ReleaseTree \/ SweepMounts
  \/ (\E answered \in BOOLEAN : CloseMapper(answered)) \/ Reboot
  \/ Ended

DiskSpec == DiskInit /\ [][DiskNext]_diskVars

-----------------------------------------------------------------------------
DiskTypeOK ==
  /\ kind \in Kinds
  /\ attempt \in 1..Attempts /\ try \in 1..Tries
  /\ doing \in Running \cup {"cleanup", "export", "failed", "finish", "releaseTree", "sweep",
                          "close", "offered", "rebooted"}
  /\ holders \subseteq Holders /\ labels \subseteq Labels
  /\ kernel \in {"read", "stale"}
  /\ other \in {"none", "exported", "imported"} /\ destroyed \subseteq {"elsewhere", "shared"}
  /\ visitor \in BOOLEAN /\ prepared \in BOOLEAN /\ success \in BOOLEAN /\ sweep \in BOOLEAN
  /\ offer \in {"none", "remove", "leave"}

(***************************************************************************)
(* An install's filesystems go where its new table says: nothing holds the *)
(* disk when it is partitioned, whatever an earlier life of it, or an      *)
(* attempt that failed or was killed, left on it, and nothing comes back   *)
(* between the release and then.                                           *)
(***************************************************************************)
TableIsRead == kernel = "read"

(***************************************************************************)
(* A pool that is all on another disk survives, imported before or while   *)
(* an install runs that gives its pool the same name: zpool knows names    *)
(* only, and the name is looked at, imported and destroyed in three calls. *)
(* Of a pool another disk has a part of this is not said: when it has to   *)
(* be imported first, nothing looks at its devices before it goes.         *)
(***************************************************************************)
OtherPoolSurvives == "elsewhere" \notin destroyed

(***************************************************************************)
(* The medium's removal is offered, and the immediate reboot taken, only   *)
(* when the target is let go: not mounted, no swap file active in it, and  *)
(* its mapper gone, with every other mount of that.                        *)
(***************************************************************************)
OfferedMeansLetGo ==
  offer = "remove" =>
    /\ holders \cap {"tree", "swap", "crypt"} = {}
    /\ kind = "luks" => "stage" \notin holders
=============================================================================
