----------------------------- MODULE DiskProofs -----------------------------
(***************************************************************************)
(* What stands before an install's writes to its disk, and what holds the  *)
(* disk then: the proofs of VerifyMedium, and of InstallDisk.              *)
(*                                                                         *)
(* The gate, for every length of the hash and every patience of the        *)
(* helper: nothing is written for a medium that does not hash to what the  *)
(* build recorded, and "too slow" and "corrupt" are said of hashes that    *)
(* were just that.  Neither is inductive: the one needs that "verified" is *)
(* only said once every unit there is to ask about is active, and stays    *)
(* so; the other, that a unit which has been stopped or has failed keeps   *)
(* its cause.                                                              *)
(*                                                                         *)
(* The disk, for any number of attempts and of release rounds: what an     *)
(* install partitions the kernel sees the new table of; no pool that is    *)
(* all on another disk is destroyed; and the medium's removal is offered   *)
(* only when the target is let go.  The first rests on what a release that *)
(* succeeded leaves until the partitioning: no holder, and no label udev   *)
(* could make one of.  The second, on the pool that is there whenever one  *)
(* is about to be destroyed, and on its name being taken while it is.  The *)
(* third, on what each kind of install holds from its partitioning to the  *)
(* release: a mapper to be read off the mount table exactly when there is  *)
(* one to close, and no swap file but in a mounted tree.                   *)
(***************************************************************************)
EXTENDS VerifyMedium, InstallDisk, TLAPS

\* A unit is active after a hash that matched, and its end has a cause.
Settled ==
  \A u \in Units :
    /\ unit[u] = "active" => good[u]
    /\ unit[u] = "deactivating" => result[u] = "timeout"
    /\ unit[u] = "failed" => result[u] \in {"exit-code", "timeout"}

\* The helper asks about the image once the mirror is active, or has no sums.
Asked ==
  /\ Helped => present /\ (at = "image" /\ sums => unit["mirror"] = "active")
  /\ pc = "result" => unit[at] = "failed"

\* What was said is true of the unit it was said of.
Answered ==
  /\ pc # "done" => verdict = "none"
  /\ verdict = "verified" => present /\ unit["image"] = "active" /\ (sums => unit["mirror"] = "active")
  /\ verdict = "slow" => unit[at] \in {"deactivating", "failed"} /\ result[at] = "timeout"
  /\ verdict = "corrupt" /\ heard => unit[at] = "failed" /\ result[at] = "exit-code"

Inv == TypeOK /\ Settled /\ Asked /\ Answered /\ WrittenOnlyIfVerified

USE DEF medium, systemd, waiter, caller, history, Units, Helped

LEMMA InitInv == Init => Inv
<1> SUFFICES ASSUME Init PROVE Inv
  OBVIOUS
<1> USE DEF Init
<1>1. TypeOK
  <2>1. pos \in [Units -> 0 .. HashLength]
    BY BoundsAssumption
  <2>2. unanswered \in 0 .. MaxUnanswered /\ settling \in 0 .. MaxSettling
    BY BoundsAssumption
  <2>3. heard \in BOOLEAN /\ trouble \in BOOLEAN /\ stuck \in BOOLEAN
    OBVIOUS
  <2>4. stage \in {"configurator", "live", "orchestrator", "installing"}
    OBVIOUS
  <2> QED
    BY <2>1, <2>2, <2>3, <2>4 DEF TypeOK, Verdicts
<1>2. Settled /\ Asked /\ Answered /\ WrittenOnlyIfVerified
  BY DEF Settled, Asked, Answered, WrittenOnlyIfVerified
<1> QED
  BY <1>1, <1>2 DEF Inv

(***************************************************************************)
(* systemd: a unit that is active or has failed stays so, and one that is  *)
(* being stopped can only fail, of the same cause.                         *)
(***************************************************************************)
LEMMA UnitType ==
  ASSUME TypeOK, NEW u \in Units, UnitStep(u)
  PROVE  TypeOK'
<1> USE DEF TypeOK
<1>1. CASE RunJob(u)
  BY <1>1 DEF RunJob
<1>2. CASE Read(u)
  BY <1>2, BoundsAssumption DEF Read
<1>3. CASE HashEnds(u) \/ ReadError(u) \/ StartTimeout(u) \/ Reaped(u)
  <2>1. /\ unit' \in [Units -> {"inactive", "activating", "active", "deactivating", "failed"}]
        /\ result' \in [Units -> {"success", "exit-code", "timeout"}]
        /\ UNCHANGED <<medium, stuck, pos, job, caller, pc, waiter, verdict, heard>>
    BY <1>3 DEF HashEnds, ReadError, StartTimeout, Reaped, Ends, Trouble
  <2>2. trouble' \in BOOLEAN
    BY <1>3 DEF HashEnds, ReadError, StartTimeout, Reaped, Trouble
  <2> QED
    BY <2>1, <2>2
<1> QED
  BY <1>1, <1>2, <1>3 DEF UnitStep

LEMMA UnitsKeepTheirEnds ==
  ASSUME TypeOK, Settled, NEW u \in Units, UnitStep(u)
  PROVE  /\ Settled'
         /\ \A v \in Units :
              /\ unit[v] = "active" => unit'[v] = "active"
              /\ unit[v] = "deactivating" =>
                   unit'[v] \in {"deactivating", "failed"} /\ result'[v] = result[v]
              /\ unit[v] = "failed" => unit'[v] = "failed" /\ result'[v] = result[v]
         /\ UNCHANGED <<medium, caller, pc, at, verdict, heard>>
<1> USE DEF TypeOK, Settled
<1>1. CASE RunJob(u) \/ Read(u)
  BY <1>1 DEF RunJob, Read
<1>2. CASE HashEnds(u)
  BY <1>2 DEF HashEnds, Ends
<1>3. CASE ReadError(u) \/ StartTimeout(u) \/ Reaped(u)
  BY <1>3 DEF ReadError, StartTimeout, Reaped, Ends, Trouble
<1> QED
  BY <1>1, <1>2, <1>3 DEF UnitStep

LEMMA UnitInv ==
  ASSUME Inv, NEW u \in Units, UnitStep(u)
  PROVE  Inv'
<1> USE DEF Inv
<1>1. TypeOK'
  BY UnitType
<1>2. /\ Settled'
      /\ \A v \in Units :
           /\ unit[v] = "active" => unit'[v] = "active"
           /\ unit[v] = "deactivating" =>
                unit'[v] \in {"deactivating", "failed"} /\ result'[v] = result[v]
           /\ unit[v] = "failed" => unit'[v] = "failed" /\ result'[v] = result[v]
      /\ UNCHANGED <<medium, caller, pc, at, verdict, heard>>
  BY UnitsKeepTheirEnds
<1>3. Asked' /\ Answered' /\ WrittenOnlyIfVerified'
  BY <1>2 DEF Asked, Answered, WrittenOnlyIfVerified, MediumGood, TypeOK
<1> QED
  BY <1>1, <1>2, <1>3

LEMMA QuietStep ==
  ASSUME Inv, UNCHANGED <<mode, sums, present, good, unit, result, stage, disk, pc, at, verdict, heard>>, TypeOK'
  PROVE  Inv'
BY DEF Inv, Settled, Asked, Answered, WrittenOnlyIfVerified, MediumGood

LEMMA EnvironmentInv ==
  ASSUME Inv, MediumStops \/ StartReturns \/ UNCHANGED vars
  PROVE  Inv'
<1>1. UNCHANGED <<mode, sums, present, good, unit, result, stage, disk, pc, at, verdict, heard>>
  BY DEF MediumStops, StartReturns, Trouble, vars
<1>2. TypeOK'
  <2>1. CASE MediumStops
    BY <2>1 DEF Inv, TypeOK, MediumStops, Trouble
  <2>2. CASE StartReturns
    BY <2>2 DEF Inv, TypeOK, StartReturns
  <2>3. CASE UNCHANGED vars
    BY <2>3 DEF Inv, TypeOK, vars
  <2> QED
    BY <2>1, <2>2, <2>3
<1> QED
  BY <1>1, <1>2, QuietStep

(***************************************************************************)
(* The helper: it moves no unit, so each step is about what it says.       *)
(***************************************************************************)
LEMMA HelperType ==
  ASSUME TypeOK, HelperStep \/ LayoutRefused
  PROVE  TypeOK'
<1> USE DEF TypeOK, Answers, Await, Trouble, Unheard, Verdicts
<1>1. CASE StartHelper
  BY <1>1, BoundsAssumption DEF StartHelper
<1>2. CASE LoadState
  BY <1>2 DEF LoadState
<1>3. CASE StartInactive
  <2>1. /\ UNCHANGED <<medium, stuck, systemd, caller, at, unanswered, settling, verdict>>
        /\ pc' = "poll"
    BY <1>3 DEF StartInactive
  <2>2. starting' \in {"none", "alive", "gone"} /\ job' \in [Units -> BOOLEAN]
    BY <1>3 DEF StartInactive
  <2>3. heard' \in BOOLEAN /\ trouble' \in BOOLEAN
    BY <1>3 DEF StartInactive
  <2> QED
    BY <2>1, <2>2, <2>3
<1>4. CASE PollUnanswered
  <2>1. CASE unanswered < MaxUnanswered
    BY <1>4, <2>1, BoundsAssumption DEF PollUnanswered
  <2>2. CASE ~(unanswered < MaxUnanswered)
    BY <1>4, <2>2 DEF PollUnanswered
  <2> QED
    BY <2>1, <2>2
<1>5. CASE PollActive
  BY <1>5, BoundsAssumption DEF PollActive, Polled
<1>6. CASE PollFailed \/ PollActivating \/ PollStalled \/ PollInactive
  BY <1>6, BoundsAssumption DEF PollFailed, PollActivating, PollStalled, PollInactive, Polled, KeepPolling
<1>7. CASE NameCause
  BY <1>7 DEF NameCause
<1>8. CASE PollDeactivating
  BY <1>8, BoundsAssumption DEF PollDeactivating, Polled
<1>9. CASE LayoutRefused
  BY <1>9 DEF LayoutRefused
<1> QED
  BY <1>1, <1>2, <1>3, <1>4, <1>5, <1>6, <1>7, <1>8, <1>9 DEF HelperStep

LEMMA HelperInv ==
  ASSUME Inv, HelperStep \/ LayoutRefused
  PROVE  Inv'
<1> USE DEF Inv
<1>1. TypeOK'
  BY HelperType
<1>2. UNCHANGED <<sums, present, good, unit, result, disk>>
  BY DEF HelperStep, LayoutRefused, StartHelper, LoadState, StartInactive, PollUnanswered, PollActive,
     PollFailed, NameCause, PollActivating, PollStalled, PollDeactivating, PollInactive, KeepPolling,
     Answers, Await
<1>3. Settled' /\ WrittenOnlyIfVerified'
  BY <1>2 DEF Settled, WrittenOnlyIfVerified, MediumGood
<1> USE DEF Asked, Answered, Answers, Await, Trouble, Unheard, Polled, KeepPolling
<1>4. Asked' /\ Answered'
  <2>1. CASE StartHelper \/ LayoutRefused
    BY <2>1 DEF StartHelper, LayoutRefused
  <2>2. CASE LoadState \/ StartInactive \/ PollUnanswered
    BY <2>2 DEF LoadState, StartInactive, PollUnanswered
  <2>3. CASE PollActive
    BY <2>3 DEF PollActive, TypeOK
  <2>4. CASE PollFailed \/ PollActivating \/ PollStalled \/ PollInactive
    BY <2>4 DEF PollFailed, PollActivating, PollStalled, PollInactive
  <2>5. CASE NameCause
    BY <2>5 DEF NameCause, Settled, TypeOK
  <2>6. CASE PollDeactivating
    BY <2>6 DEF PollDeactivating, Settled, TypeOK
  <2> QED
    BY <2>1, <2>2, <2>3, <2>4, <2>5, <2>6 DEF HelperStep
<1> QED
  BY <1>1, <1>3, <1>4

(***************************************************************************)
(* The callers: only "verified" lets either of them write.                 *)
(***************************************************************************)
LEMMA CallerInv ==
  ASSUME Inv, PrepareLive \/ Proceed \/ Retry
  PROVE  Inv'
<1> USE DEF Inv
<1>1. TypeOK'
  <2>1. CASE PrepareLive
    <3>1. /\ disk' \in {"untouched", "wiped", "written"}
          /\ stage' \in {"configurator", "live", "orchestrator", "installing"}
          /\ trouble' \in BOOLEAN /\ heard' \in BOOLEAN
      BY <2>1 DEF TypeOK, PrepareLive, Trouble
    <3>2. UNCHANGED <<medium, stuck, systemd, job, mode, pc, waiter, verdict>>
      BY <2>1 DEF PrepareLive
    <3> QED
      BY <3>1, <3>2 DEF TypeOK
  <2>2. CASE Proceed
    BY <2>2 DEF TypeOK, Proceed, Verdicts
  <2>3. CASE Retry
    BY <2>3 DEF TypeOK, Retry, Verdicts
  <2> QED
    BY <2>1, <2>2, <2>3
<1>2. Settled' /\ Asked' /\ Answered'
  BY DEF Settled, Asked, Answered, PrepareLive, Proceed, Retry, Trouble
<1>3. WrittenOnlyIfVerified'
  BY DEF WrittenOnlyIfVerified, MediumGood, Settled, Answered, PrepareLive, Proceed, Retry
<1> QED
  BY <1>1, <1>2, <1>3

LEMMA InvStep == ASSUME Inv, [Next]_vars PROVE Inv'
<1>1. CASE \E u \in Units : UnitStep(u)
  BY <1>1, UnitInv
<1>2. CASE MediumStops \/ StartReturns \/ Installing \/ UNCHANGED vars
  BY <1>2, EnvironmentInv DEF Installing
<1>3. CASE HelperStep \/ LayoutRefused
  BY <1>3, HelperInv
<1>4. CASE PrepareLive \/ Proceed \/ Retry
  BY <1>4, CallerInv
<1> QED
  BY <1>1, <1>2, <1>3, <1>4 DEF Next

(***************************************************************************)
(* The inductive invariant of the gate holds in every state.               *)
(***************************************************************************)
THEOREM InvCorrect == Spec => []Inv
  BY InitInv, InvStep, PTL DEF Spec

(***************************************************************************)
(* The helper's counters keep to their bounds: neither unanswered polls    *)
(* nor the wait for a unit that is being stopped outlast theirs.           *)
(***************************************************************************)
THEOREM TypeCorrect == Spec => []TypeOK
<1>1. Inv => TypeOK
  BY DEF Inv
<1> QED
  BY <1>1, InvCorrect, PTL

(***************************************************************************)
(* The configurator's gate and verify_install_medium: whichever of them    *)
(* comes first, no table, filesystem or image is written for a bad medium. *)
(* That the phase before has wiped signatures on a full-disk install is in *)
(* the specification this is proved of, and no exception to it.            *)
(***************************************************************************)
THEOREM NothingWrittenForBadMedium == Spec => []WrittenOnlyIfVerified
<1>1. Inv => WrittenOnlyIfVerified
  BY DEF Inv
<1> QED
  BY <1>1, InvCorrect, PTL

(***************************************************************************)
(* await_verdict: the advice fits what ended the hash.                     *)
(***************************************************************************)
THEOREM AdviceFits == Spec => []AdviceFitsCause
<1>1. Inv => AdviceFitsCause
  BY DEF Inv, Answered, AdviceFitsCause
<1> QED
  BY <1>1, InvCorrect, PTL
-----------------------------------------------------------------------------
(***************************************************************************)
(* InstallDisk.                                                            *)
(***************************************************************************)
\* Nothing holds the disk from its release to its partitioning.
Unheld ==
  /\ doing \in {"ready", "partition", "pool", "import", "zfsPartition"} => holders = {}
  /\ doing \in {"ready", "partition", "pool", "import", "destroy", "zfsPartition"} => "old" \notin labels

\* The pool about to be destroyed holds the disk, and nothing else does; so
\* its name means no other.
OneOfTheName ==
  /\ doing = "destroy" => holders = {"pool"}
  /\ ~("pool" \in holders /\ other = "imported")

\* The steps of a ZFS install, and those of the others.
Steps ==
  /\ doing \in {"pool", "import", "destroy", "zfsPartition", "create", "created", "export"} =>
       kind = "zfs"
  /\ doing \in {"partition", "mount"} => kind # "zfs"
  /\ doing \in {"finish", "releaseTree", "sweep", "close", "offered"} => success
  /\ doing \in Running => ~success
  /\ offer # "none" => doing \in {"offered", "rebooted"}

\* A swap file's filesystem stays mounted.
SwapIsInTree == "swap" \in holders => "tree" \in holders

\* From the partitioning to the release.
Own ==
  /\ kind = "luks" => "crypt" \in holders
  /\ kind = "btrfs" => "crypt" \notin holders
  /\ kind = "zfs" => holders \cap {"crypt", "swap", "stage"} = {}

Through == success /\ doing \in {"cleanup", "export", "finish", "releaseTree"}

Opened ==
  /\ doing \in {"mount", "create", "created", "configure"} \/ Through => Own
  /\ (doing = "configure" \/ Through) /\ kind # "zfs" => "tree" \in holders

\* In the release, once the tree is unmounted.
LetGo ==
  doing \in {"sweep", "close"} =>
    /\ holders \cap {"tree", "swap"} = {}
    /\ ~sweep => "crypt" \notin holders
    /\ kind = "luks" => sweep

DiskInv ==
  /\ DiskTypeOK /\ TableIsRead /\ OtherPoolSurvives /\ OfferedMeansLetGo
  /\ Unheld /\ OneOfTheName /\ Steps /\ SwapIsInTree /\ Opened /\ LetGo

USE DEF mine, outside

(***************************************************************************)
(* Init establishes the invariant: nothing is open yet.                    *)
(***************************************************************************)
LEMMA DiskInitInv == DiskInit => DiskInv
<1> SUFFICES ASSUME DiskInit PROVE DiskInv
  OBVIOUS
<1>1. DiskTypeOK
  <2>1. attempt \in 1..Attempts /\ try \in 1..Tries
    BY DiskAssumption DEF DiskInit
  <2> QED
    BY <2>1 DEF DiskInit, DiskTypeOK, Running
<1>2. /\ TableIsRead /\ OtherPoolSurvives /\ OfferedMeansLetGo
      /\ Unheld /\ OneOfTheName /\ Steps /\ SwapIsInTree /\ Opened /\ LetGo
  BY DEF DiskInit, TableIsRead, OtherPoolSurvives, Unheld, OneOfTheName, Steps, SwapIsInTree, Opened, Through, LetGo,
     OfferedMeansLetGo, Running
<1> QED
  BY <1>1, <1>2 DEF DiskInv

(***************************************************************************)
(* What the unmounts, the release rounds and the wipe can do.              *)
(***************************************************************************)
LEMMA UnmountedFacts ==
  ASSUME DiskTypeOK, SwapIsInTree
  PROVE  /\ Unmounted \subseteq holders
         /\ \A h \in holders : h # "tree" => h \in Unmounted
         /\ "tree" \notin Unmounted => "swap" \notin holders
  BY DEF Unmounted, Busy, SwapIsInTree, DiskTypeOK, Holders

LEMMA ReleasedFacts ==
  ASSUME DiskTypeOK, SwapIsInTree, NEW H \in Released
  PROVE  H \subseteq holders /\ ("swap" \in H => "tree" \in H)
<1>1. PICK M \in Releasable : H = holders \ M
  BY DEF Released
<1>2. M \subseteq Mounts \cup {"old", "crypt"}
  BY <1>1 DEF Releasable
<1>3. "swap" \in holders => "tree" \notin M
  BY <1>2 DEF Mounts, Busy
<1> QED
  BY <1>1, <1>3 DEF SwapIsInTree

LEMMA DiskTypeStep == ASSUME DiskTypeOK, SwapIsInTree, [DiskNext]_diskVars PROVE DiskTypeOK'
<1> USE DiskAssumption DEF DiskTypeOK
<1>1. CASE Assemble
  BY <1>1 DEF Assemble, Holders
<1>1a. CASE Enter \/ Leave
  BY <1>1a DEF Enter, Leave
<1>1b. CASE ImportOther
  BY <1>1b DEF ImportOther
<1>2. CASE UnmountTree
  BY <1>2, UnmountedFacts DEF UnmountTree, Holders, Running
<1>3. CASE ReleaseAndWipe
  <2>1. holders' \subseteq holders /\ labels' \subseteq labels
    BY <1>3, ReleasedFacts DEF ReleaseAndWipe, Wiped
  <2>2. doing' \in Running \cup {"cleanup"} /\ try' \in 1..Tries
    BY <1>3 DEF ReleaseAndWipe, Running
  <2> QED
    BY <1>3, <2>1, <2>2 DEF ReleaseAndWipe
<1>4. CASE Verified \/ Partition \/ Mount \/ Configure
  BY <1>4 DEF Verified, Partition, Mount, Configure, TableWritten, Holders, Running
<1>5. CASE ListPool \/ ImportOld
  BY <1>5 DEF ListPool, ImportOld, Holders, Running
<1>5b. CASE DestroyPool
  <2>1. holders' \subseteq holders /\ labels' \subseteq labels
    BY <1>5b DEF DestroyPool
  <2>2. other' \in {"none", "exported", "imported"} /\ destroyed' \subseteq {"elsewhere", "shared"}
    BY <1>5b DEF DestroyPool
  <2>3. visitor' \in BOOLEAN
    BY <1>5b DEF DestroyPool
  <2> QED
    BY <1>5b, <2>1, <2>2, <2>3 DEF DestroyPool, Running
<1>5a. CASE ZfsPartition \/ CreatePool \/ MountDatasets
  BY <1>5a DEF ZfsPartition, CreatePool, MountDatasets, TableWritten, Holders, Labels, Running
<1>6. CASE Cleanup \/ Export
  BY <1>6, UnmountedFacts DEF Cleanup, Export, Holders
<1>7. CASE PhaseFails \/ Killed
  <2>1. \A left \in Mid : left \subseteq Holders
    BY DEF Mid, Holders
  <2>2. holders' \subseteq Holders
    BY <1>7, <2>1 DEF PhaseFails, Killed
  <2> QED
    BY <1>7, <2>2 DEF PhaseFails, Killed
<1>7a. CASE Again
  <2>1. attempt' \in 1..Attempts /\ try' \in 1..Tries
    BY <1>7a DEF Again
  <2> QED
    BY <1>7a, <2>1 DEF Again, Running
<1>8. CASE RebootDeferred \/ Swapoff \/ SweepMounts
  BY <1>8 DEF RebootDeferred, Swapoff, SweepMounts
<1>8a. CASE ReleaseTree
  BY <1>8a, UnmountedFacts DEF ReleaseTree, MapperOfTree
<1>9. CASE (\E answered \in BOOLEAN : CloseMapper(answered)) \/ Reboot
  BY <1>9 DEF CloseMapper, Reboot, Holders
<1>10. CASE UNCHANGED diskVars
  BY <1>10 DEF diskVars
<1> QED
  BY <1>1, <1>1a, <1>1b, <1>2, <1>3, <1>4, <1>5, <1>5a, <1>5b, <1>6, <1>7, <1>7a, <1>8, <1>8a, <1>9, <1>10 DEF DiskNext, Ended

LEMMA DiskInvStep == ASSUME DiskInv, [DiskNext]_diskVars PROVE DiskInv'
<1>1. DiskTypeOK'
  BY DiskTypeStep DEF DiskInv
<1> USE DEF DiskInv, TableIsRead, OtherPoolSurvives, Unheld, OneOfTheName, Steps, SwapIsInTree, Opened, Own, Through, LetGo,
            OfferedMeansLetGo, Running, DiskTypeOK
<1>2. CASE Assemble
  BY <1>1, <1>2 DEF Assemble
<1>3. CASE Enter \/ Leave \/ ImportOther
  BY <1>1, <1>3 DEF Enter, Leave, ImportOther
<1>4. CASE UnmountTree
  BY <1>1, <1>4, UnmountedFacts DEF UnmountTree
<1>5. CASE ReleaseAndWipe
  <2>1. "swap" \in holders' => "tree" \in holders'
    BY <1>5, ReleasedFacts DEF ReleaseAndWipe
  <2>2. "old" \notin labels'
    BY <1>5 DEF ReleaseAndWipe, Wiped
  <2>3. doing' = "ready" => holders' = {}
    BY <1>5 DEF ReleaseAndWipe, Reread
  <2>4. doing' \in {"ready", "release", "cleanup"}
    BY <1>5 DEF ReleaseAndWipe
  <2>5. OneOfTheName'
    BY <1>5, <2>4, ReleasedFacts DEF ReleaseAndWipe
  <2> QED
    BY <1>1, <1>5, <2>1, <2>2, <2>3, <2>4, <2>5 DEF ReleaseAndWipe
<1>6. CASE Verified
  BY <1>1, <1>6 DEF Verified, Kinds
<1>7. CASE Partition
  BY <1>1, <1>7 DEF Partition, TableWritten, Kinds
<1>8. CASE Mount
  BY <1>1, <1>8 DEF Mount
<1>9. CASE Configure
  BY <1>1, <1>9 DEF Configure
<1>10. CASE ListPool
  <2>1. holders = {} /\ ~UsesOnlyDisk
    BY <1>10 DEF ListPool, UsesOnlyDisk
  <2>2. doing' \in {"import", "cleanup"}
    BY <1>10, <2>1 DEF ListPool
  <2> QED
    BY <1>1, <1>10, <2>1, <2>2 DEF ListPool
<1>10a. CASE ImportOld
  <2>1. CASE UNCHANGED holders /\ doing' = "zfsPartition"
    BY <1>1, <1>10a, <2>1 DEF ImportOld
  <2>2. CASE other # "imported" /\ holders' = holders \cup {"pool"} /\ doing' = "destroy"
    <3>1. holders' = {"pool"}
      BY <1>10a, <2>2 DEF ImportOld
    <3> QED
      BY <1>1, <1>10a, <2>2, <3>1 DEF ImportOld
  <2> QED
    BY <1>10a, <2>1, <2>2 DEF ImportOld
<1>10b. CASE DestroyPool
  BY <1>1, <1>10b DEF DestroyPool
<1>11. CASE ZfsPartition
  BY <1>1, <1>11 DEF ZfsPartition, TableWritten
<1>12. CASE CreatePool
  BY <1>1, <1>12 DEF CreatePool
<1>13. CASE MountDatasets
  BY <1>1, <1>13 DEF MountDatasets
<1>14. CASE Cleanup
  BY <1>1, <1>14, UnmountedFacts DEF Cleanup
<1>15. CASE Export
  BY <1>1, <1>15 DEF Export, Busy
<1>16. CASE PhaseFails
  BY <1>1, <1>16 DEF PhaseFails, Mid
<1>17. CASE Killed
  BY <1>1, <1>17 DEF Killed, Mid
<1>18. CASE Again
  BY <1>1, <1>18 DEF Again
<1>19. CASE RebootDeferred
  BY <1>1, <1>19 DEF RebootDeferred
<1>20. CASE Swapoff
  BY <1>1, <1>20 DEF Swapoff
<1>21. CASE ReleaseTree
  BY <1>1, <1>21, UnmountedFacts DEF ReleaseTree, MapperOfTree, Kinds
<1>22. CASE SweepMounts
  BY <1>1, <1>22 DEF SweepMounts
<1>23. CASE \E answered \in BOOLEAN : CloseMapper(answered)
  BY <1>1, <1>23 DEF CloseMapper
<1>24. CASE Reboot
  BY <1>1, <1>24 DEF Reboot
<1>25. CASE UNCHANGED diskVars
  BY <1>1, <1>25 DEF diskVars
<1> QED
  BY <1>2, <1>3, <1>4, <1>5, <1>6, <1>7, <1>8, <1>9, <1>10, <1>10a, <1>10b, <1>11, <1>12, <1>13, <1>14, <1>15, <1>16,
     <1>17, <1>18, <1>19, <1>20, <1>21, <1>22, <1>23, <1>24, <1>25 DEF DiskNext, Ended

(***************************************************************************)
(* What holds the disk at each step of an attempt, in every state.         *)
(***************************************************************************)
THEOREM DiskInvCorrect == DiskSpec => []DiskInv
  BY DiskInitInv, DiskInvStep, PTL DEF DiskSpec

(***************************************************************************)
(* The state is well-typed: the release loop ends within its rounds.       *)
(***************************************************************************)
THEOREM DiskTypeCorrect == DiskSpec => []DiskTypeOK
<1>1. DiskInv => DiskTypeOK
  BY DEF DiskInv
<1> QED
  BY <1>1, DiskInvCorrect, PTL

(***************************************************************************)
(* cleanup-disk: nothing holds the disk when it is partitioned, after any  *)
(* attempts before, so the kernel reads the new table.                     *)
(***************************************************************************)
THEOREM NewTableIsRead == DiskSpec => []TableIsRead
<1>1. DiskInv => TableIsRead
  BY DEF DiskInv
<1> QED
  BY <1>1, DiskInvCorrect, PTL

(***************************************************************************)
(* zfs_storage.prepare: no pool that is all on another disk is destroyed   *)
(* under the name of the install's own.                                    *)
(***************************************************************************)
THEOREM NoOtherDisksPool == DiskSpec => []OtherPoolSurvives
<1>1. DiskInv => OtherPoolSurvives
  BY DEF DiskInv
<1> QED
  BY <1>1, DiskInvCorrect, PTL

(***************************************************************************)
(* omarchy-release-install-target and the dashboard: an offered removal    *)
(* means that the target is unmounted, its swap off and its mapper closed. *)
(***************************************************************************)
THEOREM OfferIsKept == DiskSpec => []OfferedMeansLetGo
<1>1. DiskInv => OfferedMeansLetGo
  BY DEF DiskInv
<1> QED
  BY <1>1, DiskInvCorrect, PTL
=============================================================================
