----------------------------- MODULE FreeSpace -----------------------------
(***************************************************************************)
(* The free-space install's own disk work: create_partition and the        *)
(* rollback of disk-partitioning.sh, and run_partition_execute with its    *)
(* disk_abort_hook in the configurator, over several runs of the installer *)
(* in one live session.  A run may be interrupted (the configurator sets   *)
(* no trap), or its orchestrator may fail and let go of the target, or be  *)
(* killed and let go of nothing; the next run meets what was left.         *)
(*                                                                         *)
(* A partition is the run that made it and its kind; run 0 made those of   *)
(* other systems.  Somebody at another console may change the partition    *)
(* table while a run is at work.                                           *)
(***************************************************************************)
EXTENDS Integers, Sequences, FiniteSets, FiniteSetsExt

CONSTANTS
  Runs,       \* times the user starts the installer in one live session
  NSlots,     \* GPT entries
  Others,     \* partitions other systems have, or come to have
  MaxOutside  \* changes made to the table from outside during the runs

ASSUME ParametersAssumption ==
  /\ Runs \in Nat \ {0} /\ NSlots \in Nat \ {0} /\ MaxOutside \in Nat
  /\ "none" \notin Others

Slots   == 1..NSlots
Kinds   == {"esp", "root"}
Foreign == [run : {0}, kind : Others]
Parts   == Foreign \cup [run : 1..Runs, kind : Kinds]
None    == [run |-> 0, kind |-> "none"]

VARIABLES
  table,    \* the GPT: the partition in each slot
  data,     \* what each partition holds
  mapper,   \* the partition /dev/mapper/omarchy_root is open on
  mounts,   \* what is mounted: where, from what, in the tree of which run's /mnt
  removed,  \* partitions other systems had, deleted by whoever owns them
  outside,  \* changes made from outside
  \* the configurator's process
  run, step, encrypt,
  making,   \* the partition being created
  before,   \* the numbers on the disk before mkpart
  created,  \* created_parts
  num       \* efi_part_num and root_part_num, 0 before

disk    == <<table, data, removed>>
holders == <<mapper, mounts>>
process == <<encrypt, making, before, created, num>>
vars    == <<disk, holders, outside, run, step, process>>

Numbers == {s \in Slots : table[s] # None}
OnTable == {table[s] : s \in Numbers}
Mine(k) == [run |-> run, kind |-> k]
Node(k) == IF num[k] = 0 THEN None ELSE table[num[k]]

Init ==
  /\ \E s \in Slots, p \in Foreign :
       /\ table = [t \in Slots |-> IF t = s THEN p ELSE None]
       /\ data = [q \in Parts |-> IF q = p THEN "theirs" ELSE "none"]
  /\ mapper = None /\ mounts = {} /\ removed = {} /\ outside = 0
  /\ run = 1 /\ step = "decide" /\ encrypt = FALSE
  /\ making = "esp" /\ before = {} /\ created = << >>
  /\ num = [k \in Kinds |-> 0]

-----------------------------------------------------------------------------
(* Mounts.  A run's /mnt goes over an earlier one's; what is mounted below *)
(* /mnt belongs to the tree on top at that time, 0 when there is none.     *)
TopTree(ms) == Max({0} \cup {mt.under : mt \in {x \in ms : x.at = "root"}})
Busy(p, ms, mp) == p = mp \/ \E mt \in ms : mt.dev = p

Mount(at, p) ==
  /\ p # None
  /\ mounts' = mounts \cup
       {[at |-> at, dev |-> p, under |-> IF at = "top" THEN TopTree(mounts) ELSE run]}

\* umount -R /mnt
UmountMnt(ms) == {mt \in ms : TopTree(ms) = 0 \/ mt.under # TopTree(ms)}

\* What /mnt/btrfs-root shows: the last one mounted there, in the tree on top.
LastTop(ms) ==
  LET here == {mt \in ms : mt.at = "top" /\ mt.under = TopTree(ms)}
  IN  {mt \in here : \A x \in here : x.dev.run <= mt.dev.run}

UmountTop(ms) == ms \ LastTop(ms)  \* umount /mnt/btrfs-root

Closed(ms) == IF \E mt \in ms : mt.dev = mapper THEN mapper ELSE None

-----------------------------------------------------------------------------
(* disk_abort_hook: let go of the target, then reclaim its partitions.     *)
(* parted refuses to remove a partition in use.                            *)
RolledBack(ms, mp) ==
  [s \in Slots |-> IF s \in {created[i] : i \in DOMAIN created} /\ ~Busy(table[s], ms, mp)
                   THEN None ELSE table[s]]

\* Mutant: the partitions are reclaimed before the target is let go of.
HookRollbackFirst ==
  LET left == UmountTop(UmountMnt(mounts)) IN
    /\ table' = RolledBack(mounts, mapper)
    /\ mounts' = left /\ mapper' = Closed(left)
    /\ created' = << >>
    /\ step' = "aborted"

Hook ==
  LET left == UmountTop(UmountMnt(mounts)) IN
    /\ mounts' = left
    /\ mapper' = Closed(left)
    /\ table' = RolledBack(left, Closed(left))
    /\ created' = << >>
    /\ step' = "aborted"

-----------------------------------------------------------------------------
(* The decision.  The user may reclaim space in cfdisk first; encryption   *)
(* is a choice.                                                            *)
UserReclaims ==
  /\ step = "decide"
  /\ \E s \in Numbers :
       /\ table' = [table EXCEPT ![s] = None]
       /\ removed' = removed \cup ({table[s]} \cap Foreign)
  /\ UNCHANGED <<data, holders, outside, run, step, process>>

Decide ==
  /\ step = "decide"
  /\ encrypt' \in BOOLEAN
  /\ step' = "read"
  /\ UNCHANGED <<disk, holders, outside, run, making, before, created, num>>

(* create_partition, once for each kind.                                   *)
ReadBefore ==
  /\ step = "read"
  /\ before' = Numbers
  /\ step' = "mkpart"
  /\ UNCHANGED <<disk, holders, outside, run, encrypt, making, created, num>>

\* parted takes the lowest free slot.
LowestFree == Min(Slots \ Numbers)

Write ==
  /\ Numbers # Slots
  /\ table' = [table EXCEPT ![LowestFree] = Mine(making)]
  /\ data' = [data EXCEPT ![Mine(making)] = "stale"]
  /\ UNCHANGED removed

MkPart ==
  /\ step = "mkpart"
  /\ Write
  /\ step' = "check"
  /\ UNCHANGED <<holders, outside, run, process>>

\* Mutant: more is enough, whatever else moved.
AnyMore == Numbers \ before # {}

\* Exactly one partition more than before, a new one, and the size asked for:
\* another system's ESP may have the size of ours.
OneMore == Cardinality(Numbers) = Cardinality(before) + 1
SizeFits(s) == table[s].kind = making \/ (table[s] \in Foreign /\ making = "esp")

NewNumber == Min(Numbers \ before)

Record ==
  /\ step = "check"
  /\ OneMore /\ SizeFits(NewNumber)
  /\ created' = Append(created, NewNumber)
  /\ num' = [num EXCEPT ![making] = NewNumber]
  /\ IF making = "esp" THEN making' = "root" /\ step' = "read"
                       ELSE making' = making /\ step' = "flag"
  /\ before' = {}
  /\ UNCHANGED <<disk, holders, outside, run, encrypt>>

\* Any of its commands fails, or a check does: nothing is recorded.
CreateRefused ==
  /\ step \in {"read", "mkpart", "check"}
  /\ Hook
  /\ before' = {}
  /\ UNCHANGED <<data, removed, outside, run, encrypt, making, num>>

\* parted writes the table, and then cannot tell the kernel of a partition
\* that is in use: it fails all the same.
MkPartHalfFails ==
  /\ step = "mkpart"
  /\ Write
  /\ step' = "halfmade"
  /\ UNCHANGED <<holders, outside, run, process>>

HalfMadeRefused ==
  /\ step = "halfmade"
  /\ Hook
  /\ before' = {}
  /\ UNCHANGED <<data, removed, outside, run, encrypt, making, num>>

-----------------------------------------------------------------------------
(* run_partition_execute after the partitions, one disk_step at a time.    *)
Goto(from, to) == step = from /\ step' = to

\* A command that writes a partition, by the node of the number read back.
Overwrite(k, with) ==
  /\ Node(k) # None
  /\ data' = [data EXCEPT ![Node(k)] = with]

FlagEsp ==
  /\ Goto("flag", "wipe esp")
  /\ Node("esp") # None /\ Node("root") # None  \* wait_for_device
  /\ UNCHANGED <<disk, holders, outside, run, process>>

\* wipefs -af does not mind a mounted filesystem.
WipeEsp ==
  /\ Goto("wipe esp", "wipe root")
  /\ Overwrite("esp", "clean")
  /\ UNCHANGED <<table, removed, holders, outside, run, process>>

WipeRoot ==
  /\ Goto("wipe root", IF encrypt THEN "luks" ELSE "mkfs")
  /\ Overwrite("root", "clean")
  /\ UNCHANGED <<table, removed, holders, outside, run, process>>

FormatLuks ==
  /\ Goto("luks", "open")
  /\ ~Busy(Node("root"), mounts, mapper)
  /\ Overwrite("root", "luks")
  /\ UNCHANGED <<table, removed, holders, outside, run, process>>

\* Mutant: a mapper of that name is taken for this run's.
OpenTolerant ==
  /\ Goto("open", "mkfs")
  /\ mapper' = IF mapper = None THEN Node("root") ELSE mapper
  /\ UNCHANGED <<disk, mounts, outside, run, process>>

\* The name omarchy_root may still be taken by an earlier run's.
Open ==
  /\ Goto("open", "mkfs")
  /\ mapper = None /\ Node("root") # None
  /\ mapper' = Node("root")
  /\ UNCHANGED <<disk, mounts, outside, run, process>>

\* On the mapper of an encrypted root, on the partition otherwise.
RootDevice == IF encrypt THEN mapper ELSE Node("root")

MkfsBtrfs ==
  /\ Goto("mkfs", "mount top")
  /\ RootDevice # None /\ ~Busy(RootDevice, mounts, None)
  /\ data' = [data EXCEPT ![RootDevice] = "btrfs"]
  /\ UNCHANGED <<table, removed, holders, outside, run, process>>

MountTop ==
  /\ Goto("mount top", "subvolumes")
  /\ Mount("top", RootDevice)
  /\ UNCHANGED <<disk, mapper, outside, run, process>>

MakeSubvolumes ==
  /\ Goto("subvolumes", "umount top")
  /\ \E mt \in LastTop(mounts) : data' = [data EXCEPT ![mt.dev] = "subvolumes"]
  /\ UNCHANGED <<table, removed, holders, outside, run, process>>

\* The one command here whose failure is only logged.
UmountTheTop ==
  /\ Goto("umount top", "mount root")
  /\ mounts' \in {mounts, UmountTop(mounts)}
  /\ UNCHANGED <<disk, mapper, outside, run, process>>

MountRoot ==
  /\ Goto("mount root", "mount home")
  /\ Mount("root", RootDevice)
  /\ UNCHANGED <<disk, mapper, outside, run, process>>

MountRest ==
  /\ \/ Goto("mount home", "mount log") /\ Mount("home", RootDevice)
     \/ Goto("mount log", "mount pkg")  /\ Mount("log", RootDevice)
     \/ Goto("mount pkg", "fat")        /\ Mount("pkg", RootDevice)
  /\ UNCHANGED <<disk, mapper, outside, run, process>>

MkfsFat ==
  /\ Goto("fat", "mount esp")
  /\ ~Busy(Node("esp"), mounts, mapper)
  /\ Overwrite("esp", "fat")
  /\ UNCHANGED <<table, removed, holders, outside, run, process>>

MountEsp ==
  /\ Goto("mount esp", "handover")
  /\ Mount("esp", Node("esp"))
  /\ UNCHANGED <<disk, mapper, outside, run, process>>

HandOver ==
  /\ Goto("handover", "handed")
  /\ \E mt \in mounts : mt.at = "root"
  /\ \E mt \in mounts : mt.at = "esp" /\ mt.under = TopTree(mounts)
  /\ UNCHANGED <<disk, holders, outside, run, process>>

LaterSteps ==
  {"flag", "wipe esp", "wipe root", "luks", "open", "mkfs", "mount top", "subvolumes",
   "mount root", "mount home", "mount log", "mount pkg", "fat", "mount esp", "handover"}

StepFails ==
  /\ step \in LaterSteps
  /\ Hook
  /\ UNCHANGED <<data, removed, outside, run, encrypt, making, before, num>>

-----------------------------------------------------------------------------
(* What comes of the run.                                                  *)
\* ^C between two screens, or the console closed: the process ends there.
Working == LaterSteps \cup {"read", "mkpart", "halfmade", "check", "umount top"}

Interrupt ==
  /\ step \in Working
  /\ step' = "interrupted"
  /\ UNCHANGED <<disk, holders, outside, run, process>>

InstallEnds ==
  /\ step = "handed"
  /\ step' \in {"installed", "killed"}
  /\ UNCHANGED <<disk, holders, outside, run, process>>

\* cleanup_protected_state: the tree on top, then whatever else is mounted from
\* omarchy_root, then omarchy_root.
InstallFails ==
  /\ step = "handed"
  /\ mounts' = {mt \in UmountMnt(mounts) : mapper # None =>
                  mt.dev # mapper /\ mt.under # mapper.run}
  /\ mapper' = None
  /\ step' = "failed"
  /\ UNCHANGED <<disk, outside, run, process>>

Ends == {"aborted", "interrupted", "failed", "killed"}

StartAgain ==
  /\ step \in Ends /\ run < Runs
  /\ run' = run + 1 /\ step' = "decide"
  /\ making' = "esp" /\ before' = {} /\ created' = << >>
  /\ num' = [k \in Kinds |-> 0] /\ encrypt' = FALSE
  /\ UNCHANGED <<disk, holders, outside>>

\* A console away, a partition is deleted or made.
OutsideChange ==
  /\ outside < MaxOutside /\ step \in Working
  /\ outside' = outside + 1
  /\ \/ \E s \in Numbers :
          /\ table' = [table EXCEPT ![s] = None]
          /\ removed' = removed \cup ({table[s]} \cap Foreign)
          /\ UNCHANGED data
     \/ \E s \in Slots \ Numbers, p \in Foreign :
          /\ data[p] = "none"
          /\ table' = [table EXCEPT ![s] = p]
          /\ data' = [data EXCEPT ![p] = "theirs"]
          /\ UNCHANGED removed
  /\ UNCHANGED <<holders, run, step, process>>

Over ==
  /\ step = "installed" \/ (step \in Ends /\ run = Runs)
  /\ UNCHANGED vars

Create == ReadBefore \/ MkPart \/ Record \/ CreateRefused \/ MkPartHalfFails \/ HalfMadeRefused

Prepare ==
  \/ FlagEsp \/ WipeEsp \/ WipeRoot \/ FormatLuks \/ Open \/ MkfsBtrfs
  \/ MountTop \/ MakeSubvolumes \/ UmountTheTop \/ MountRoot \/ MountRest
  \/ MkfsFat \/ MountEsp \/ HandOver \/ StepFails

Next ==
  \/ UserReclaims \/ Decide \/ Create \/ Prepare
  \/ Interrupt \/ InstallEnds \/ InstallFails \/ StartAgain \/ OutsideChange \/ Over

Spec == Init /\ [][Next]_vars

-----------------------------------------------------------------------------
TypeOK ==
  /\ table \in [Slots -> Parts \cup {None}]
  /\ data \in [Parts -> {"none", "theirs", "stale", "clean", "luks", "btrfs", "subvolumes", "fat"}]
  /\ mapper \in Parts \cup {None}
  /\ mounts \subseteq [at : {"top", "root", "home", "log", "pkg", "esp"}, dev : Parts, under : 0..Runs]
  /\ removed \subseteq Foreign /\ outside \in 0..MaxOutside
  /\ run \in 1..Runs /\ encrypt \in BOOLEAN /\ making \in Kinds
  /\ step \in Working \cup Ends \cup {"decide", "handed", "installed"}
  /\ before \subseteq Slots
  /\ created \in Seq(Slots) /\ Len(created) <= 2
  /\ num \in [Kinds -> {0} \cup Slots]

\* The installer writes to no partition of another system and takes none off the
\* table, whoever changes the table while it works.
ForeignUntouched ==
  \A p \in Foreign :
    /\ data[p] \in {"none", "theirs"}
    /\ data[p] = "theirs" => p \in OnTable \cup removed

\* What the orchestrator is handed is this run's: a root and an ESP formatted by
\* it, mounted over whatever an earlier run left, behind this run's own LUKS
\* mapper exactly when encryption was chosen.
HandoverSound ==
  step = "handed" =>
    /\ data[Mine("root")] = "subvolumes" /\ data[Mine("esp")] = "fat"
    /\ num["esp"] # num["root"]
    /\ encrypt <=> mapper = Mine("root")
    /\ TopTree(mounts) = run
    /\ {[at |-> at, dev |-> Mine("root"), under |-> run] : at \in {"root", "home", "log", "pkg"}}
         \cup {[at |-> "esp", dev |-> Mine("esp"), under |-> run]} \subseteq mounts

\* After an abort nothing of the run is in use, and every partition it recorded
\* is off the table; after a failed install the next run finds the mapper's name
\* free and no tree of this run mounted.
ReleasedAfterwards ==
  /\ step = "aborted" =>
       /\ mapper # Mine("root")
       /\ \A mt \in mounts : mt.dev.run # run
       /\ \A k \in Kinds : num[k] # 0 => Mine(k) \notin OnTable
  /\ step = "failed" =>
       /\ mapper = None
       /\ \A mt \in mounts : mt.under # run

\* "without this, a failed install leaves the user's freed space occupied by
\* orphans" (disk-partitioning.sh, rollback_created_parts): an aborted run leaves
\* no partition of its own on the table.
NoOrphans ==
  step = "aborted" => \A k \in Kinds : Mine(k) \notin OnTable
=============================================================================
