---------------------------- MODULE VerifyMedium ----------------------------
(***************************************************************************)
(* The gate in front of the writes.  Two oneshot systemd units hash the    *)
(* install medium from boot on: the package mirror, then the root image    *)
(* (ordered Before).  omarchy-wait-root-image-verify collects the verdicts *)
(* for whoever is about to write: the configurator before a free-space     *)
(* install partitions, the orchestrator before the full-disk install does, *)
(* and in either mode before the image is written.  The full-disk install  *)
(* asks late: the phase before has cleaned the disk up already, and with   *)
(* that wiped the signatures of what was on it.                            *)
(*                                                                         *)
(* systemd runs the units by itself; the helper only sees what `systemctl  *)
(* show` answers, if it answers.  A poll and the bash that classifies its  *)
(* answer are one step.                                                    *)
(***************************************************************************)
EXTENDS Naturals

CONSTANTS
  HashLength,      \* steps of reading that finish a hash
  MaxUnanswered,   \* unanswered polls in a row the helper sits out (12)
  MaxSettling      \* polls it waits for a unit that is being stopped (240)

ASSUME BoundsAssumption ==
  /\ HashLength \in Nat \ {0}
  /\ MaxUnanswered \in Nat
  /\ MaxSettling \in Nat

Units == {"mirror", "image"}

VARIABLES
  mode,        \* "full" (ZFS as well) or "free" (protected): who asks first
  sums,        \* the ISO carries the mirror's sums file
  present,     \* the root image and its checksum are on the medium
  good,        \* per unit: the bytes hash to what the build recorded
  stuck,       \* the medium stopped answering reads
  unit,        \* per unit: ActiveState
  result,      \* per unit: Result
  job,         \* per unit: a start job waits in systemd's queue
  pos,         \* per unit: how far its hasher has read
  stage,       \* who asks for the verdict; "live" before that, "installing" after
  pc,          \* where the helper is
  at,          \* the unit whose verdict it awaits
  starting,    \* its background `systemctl start`: "none", "alive", "gone"
  unanswered,
  settling,
  verdict,     \* what the helper said: "none" while it runs
  disk,        \* "untouched", "wiped" of old signatures, or "written"
  heard,       \* history: every property this helper asked for was answered
  trouble      \* history: something on this machine went wrong on the way

medium  == <<sums, present, good>>
systemd == <<unit, result, pos>>
waiter  == <<at, starting, unanswered, settling>>
caller  == <<mode, stage, disk>>
history == <<heard, trouble>>
vars    == <<medium, stuck, systemd, job, caller, pc, waiter, verdict, history>>

\* Something went wrong, though the helper's questions were answered.
Trouble == trouble' = TRUE /\ UNCHANGED heard

\* systemctl show answered nothing for a minute.
Unheard == trouble' = TRUE /\ heard' = FALSE

Helped == pc \in {"load", "state", "poll", "result"}

Init ==
  /\ mode \in {"full", "free"}
  /\ sums \in BOOLEAN
  /\ present \in BOOLEAN
  /\ good \in [Units -> BOOLEAN]
  /\ stuck = FALSE
  /\ unit = [u \in Units |-> "inactive"]
  /\ result = [u \in Units |-> "success"]
  /\ job \in [Units -> BOOLEAN]
  /\ job["mirror"] => sums
  /\ job["image"] => present
  /\ pos = [u \in Units |-> 0]
  /\ stage = IF mode = "free" THEN "configurator" ELSE "live"
  /\ pc = "start"
  /\ at = "image"
  /\ starting = "none"
  /\ unanswered = 0
  /\ settling = 0
  /\ verdict = "none"
  /\ disk = "untouched"
  /\ heard = TRUE
  /\ trouble = FALSE

-----------------------------------------------------------------------------
(***************************************************************************)
(* systemd and the medium.                                                 *)
(***************************************************************************)
\* A queued start job runs.  The mirror's unit is ordered Before= the image's.
RunJob(u) ==
  /\ job[u] /\ unit[u] = "inactive"
  /\ u = "image" => ~job["mirror"] /\ unit["mirror"] # "activating"
  /\ unit' = [unit EXCEPT ![u] = "activating"]
  /\ job' = [job EXCEPT ![u] = FALSE]
  /\ UNCHANGED <<medium, stuck, result, pos, caller, pc, waiter, verdict, history>>

Read(u) ==
  /\ unit[u] = "activating" /\ ~stuck /\ pos[u] < HashLength
  /\ pos' = [pos EXCEPT ![u] = @ + 1]
  /\ UNCHANGED <<medium, stuck, unit, result, job, caller, pc, waiter, verdict, history>>

Ends(u, state, res) ==
  /\ unit' = [unit EXCEPT ![u] = state]
  /\ result' = [result EXCEPT ![u] = res]
  /\ UNCHANGED <<medium, stuck, pos, job, caller, pc, waiter, verdict>>

\* sha256sum --check --strict.
HashEnds(u) ==
  /\ unit[u] = "activating" /\ pos[u] = HashLength
  /\ IF good[u] THEN Ends(u, "active", "success") ELSE Ends(u, "failed", "exit-code")
  /\ UNCHANGED history

\* sha256sum could not read a file.
ReadError(u) ==
  /\ unit[u] = "activating"
  /\ Ends(u, "failed", "exit-code")
  /\ Trouble

\* TimeoutStartSec: SIGTERM, which does not land on a read stuck in the driver.
StartTimeout(u) ==
  /\ unit[u] = "activating"
  /\ Ends(u, "deactivating", "timeout")
  /\ Trouble

Reaped(u) ==
  /\ unit[u] = "deactivating"
  /\ Ends(u, "failed", "timeout")
  /\ UNCHANGED history

MediumStops ==
  /\ ~stuck
  /\ stuck' = TRUE
  /\ Trouble
  /\ UNCHANGED <<medium, systemd, job, caller, pc, waiter, verdict>>

-----------------------------------------------------------------------------
(***************************************************************************)
(* The helper.                                                             *)
(***************************************************************************)
Answers(v) ==
  /\ verdict' = v
  /\ pc' = "done"
  /\ UNCHANGED <<medium, stuck, systemd, job, caller, waiter>>

\* await_verdict's local variables.
Await(u) ==
  /\ at' = u
  /\ starting' = "none" /\ unanswered' = 0 /\ settling' = 0
  /\ pc' = "load"
  /\ UNCHANGED verdict

\* The files the units read, then the mirror's verdict when it has sums.
StartHelper ==
  /\ pc = "start" /\ stage # "live"
  /\ IF ~present THEN Answers("missing")
     ELSE /\ Await(IF sums THEN "mirror" ELSE "image")
          /\ UNCHANGED <<medium, stuck, systemd, job, caller>>
  /\ heard' = TRUE /\ UNCHANGED trouble

\* unit_prop LoadState: the value, or nothing after a minute of asking.
LoadState ==
  /\ pc = "load"
  /\ \/ /\ pc' = "state"
        /\ UNCHANGED <<medium, stuck, systemd, job, caller, waiter, verdict, history>>
     \/ Answers("notAnswering") /\ Unheard
     \/ Answers("notLoaded") /\ Trouble

\* An inactive unit never started: `systemctl start` it in the background. The
\* job may be queued already; the request itself may fail.
StartInactive ==
  /\ pc = "state"
  /\ pc' = "poll"
  /\ \/ /\ unit[at] = "inactive"
        /\ starting' = "alive"
        /\ job' = [job EXCEPT ![at] = TRUE]
        /\ UNCHANGED history
     \/ /\ unit[at] = "inactive"
        /\ starting' = "gone"
        /\ Trouble
        /\ UNCHANGED job
     \/ /\ unit[at] # "inactive"
        /\ UNCHANGED <<starting, job, history>>
     \/ Unheard /\ UNCHANGED <<starting, job>>    \* taken for "not inactive"
  /\ UNCHANGED <<medium, stuck, systemd, caller, at, unanswered, settling, verdict>>

\* `systemctl start` returns once its job is done.
StartReturns ==
  /\ starting = "alive"
  /\ ~job[at] /\ unit[at] # "activating"
  /\ starting' = "gone"
  /\ UNCHANGED <<medium, stuck, systemd, job, caller, pc, at, unanswered, settling, verdict, history>>

PollUnanswered ==
  /\ pc = "poll"
  /\ IF unanswered < MaxUnanswered
     THEN /\ unanswered' = unanswered + 1
          /\ UNCHANGED <<medium, stuck, systemd, job, caller, pc, at, starting, settling, verdict, history>>
     ELSE Answers("notAnswering") /\ Unheard

Polled(state) == pc = "poll" /\ unit[at] = state

KeepPolling ==
  /\ unanswered' = 0
  /\ UNCHANGED <<medium, stuck, systemd, job, caller, pc, at, starting, settling, verdict, history>>

PollActive ==
  /\ Polled("active")
  /\ IF at = "mirror"
     THEN Await("image") /\ UNCHANGED <<medium, stuck, systemd, job, caller>>
     ELSE Answers("verified")
  /\ UNCHANGED history

PollFailed ==
  /\ Polled("failed")
  /\ pc' = "result"
  /\ unanswered' = 0
  /\ UNCHANGED <<medium, stuck, systemd, job, caller, at, starting, settling, verdict, history>>

\* unit_prop Result, empty after a minute without an answer.
NameCause ==
  /\ pc = "result"
  /\ \/ Answers(IF result[at] = "timeout" THEN "slow" ELSE "corrupt") /\ UNCHANGED history
     \/ Answers("corrupt") /\ Unheard

PollActivating == Polled("activating") /\ KeepPolling

\* The offset has not moved for a minute.  A slow medium moves.
PollStalled == Polled("activating") /\ stuck /\ Answers("stalled") /\ UNCHANGED history

\* Mutant: wait for the stop however long it takes.
PollDeactivatingForever == Polled("deactivating") /\ KeepPolling

\* Mutant: a unit being stopped has failed, and its Result is not there yet.
PollDeactivatingFailed ==
  Polled("deactivating") /\ Answers("corrupt") /\ UNCHANGED history

\* Mutant: one poll more than it has left.
PollDeactivatingOnceMore ==
  /\ Polled("deactivating")
  /\ IF settling <= MaxSettling
     THEN /\ settling' = settling + 1
          /\ unanswered' = 0
          /\ UNCHANGED <<medium, stuck, systemd, job, caller, pc, at, starting, verdict>>
     ELSE Answers("slow")
  /\ UNCHANGED history

\* A start timeout stops the unit before it settles into failed.
PollDeactivating ==
  /\ Polled("deactivating")
  /\ IF settling < MaxSettling
     THEN /\ settling' = settling + 1
          /\ unanswered' = 0
          /\ UNCHANGED <<medium, stuck, systemd, job, caller, pc, at, starting, verdict>>
     ELSE Answers("slow")
  /\ UNCHANGED history

\* Mutant: an inactive unit did not run, queued or not.
PollInactiveAtOnce == Polled("inactive") /\ Answers("notRun") /\ UNCHANGED history

\* Inactive while its own start waits: the job is queued.
PollInactive ==
  /\ Polled("inactive")
  /\ IF starting = "alive" THEN KeepPolling
     ELSE Answers("notRun") /\ UNCHANGED history

-----------------------------------------------------------------------------
(***************************************************************************)
(* The callers.                                                            *)
(***************************************************************************)
\* The orchestrator's first phase.  omarchy-iso-cleanup-disk wipes what
\* signatures it can, and fails when the disk is still held; a protected
\* install skips it.
PrepareLive ==
  /\ pc = "start" /\ stage = "live"
  /\ disk' \in {disk} \cup IF mode = "full" THEN {"wiped"} ELSE {}
  /\ \/ stage' = "orchestrator" /\ UNCHANGED history
     \/ UNCHANGED stage /\ Trouble
  /\ UNCHANGED <<medium, stuck, systemd, job, mode, pc, waiter, verdict>>

\* prepare_install_target's own checks come first: the layout, or the mounts
\* the configurator left.
LayoutRefused ==
  /\ pc = "start" /\ stage = "orchestrator"
  /\ Answers("layout")
  /\ Trouble

\* Mutant: the configurator partitions before it asks.
ProceedUnasked ==
  /\ pc \in {"start", "done"}
  /\ \/ /\ stage = "configurator"
        /\ stage' = "live" /\ pc' = "start" /\ verdict' = "none"
     \/ /\ stage = "orchestrator" /\ verdict = "verified"
        /\ stage' = "installing" /\ UNCHANGED <<pc, verdict>>
  /\ disk' = "written"
  /\ UNCHANGED <<medium, stuck, systemd, job, mode, waiter, history>>

\* The configurator partitions and hands over to the orchestrator; the
\* orchestrator's next phase partitions (full disk) and writes the image.
Proceed ==
  /\ pc = "done" /\ verdict = "verified"
  /\ \/ /\ stage = "configurator"
        /\ stage' = "live" /\ pc' = "start" /\ verdict' = "none"
     \/ /\ stage = "orchestrator"
        /\ stage' = "installing" /\ UNCHANGED <<pc, verdict>>
  /\ disk' = "written"
  /\ UNCHANGED <<medium, stuck, systemd, job, mode, waiter, history>>

\* Anything but "verified" ends this attempt; the user may start another,
\* which in the orchestrator begins with its first phase.
Retry ==
  /\ pc = "done" /\ verdict # "verified"
  /\ pc' = "start" /\ verdict' = "none"
  /\ stage' = IF stage = "orchestrator" THEN "live" ELSE stage
  /\ UNCHANGED <<medium, stuck, systemd, job, mode, disk, waiter, history>>

Installing == stage = "installing" /\ UNCHANGED vars

-----------------------------------------------------------------------------
UnitStep(u) == RunJob(u) \/ Read(u) \/ HashEnds(u) \/ ReadError(u) \/ StartTimeout(u) \/ Reaped(u)

HelperStep ==
  \/ StartHelper \/ LoadState \/ StartInactive \/ PollUnanswered \/ PollActive
  \/ PollFailed \/ NameCause \/ PollActivating \/ PollStalled \/ PollDeactivating
  \/ PollInactive

Next ==
  \/ \E u \in Units : UnitStep(u)
  \/ MediumStops \/ HelperStep \/ StartReturns
  \/ PrepareLive \/ LayoutRefused \/ Proceed \/ Retry \/ Installing

(***************************************************************************)
(* systemd runs queued jobs and its timers fire; nothing promises that a   *)
(* read stuck in the driver is ever reaped.                                *)
(***************************************************************************)
Fairness ==
  /\ \A u \in Units : WF_vars(RunJob(u)) /\ WF_vars(Read(u) \/ HashEnds(u) \/ StartTimeout(u))
  /\ WF_vars(HelperStep) /\ WF_vars(StartReturns)
  /\ WF_vars(PrepareLive) /\ WF_vars(Proceed)

Spec == Init /\ [][Next]_vars /\ Fairness

-----------------------------------------------------------------------------
Verdicts == {"none", "verified", "missing", "notAnswering", "notLoaded", "slow",
             "corrupt", "stalled", "notRun", "layout"}

TypeOK ==
  /\ mode \in {"full", "free"} /\ sums \in BOOLEAN /\ present \in BOOLEAN
  /\ good \in [Units -> BOOLEAN] /\ stuck \in BOOLEAN
  /\ unit \in [Units -> {"inactive", "activating", "active", "deactivating", "failed"}]
  /\ result \in [Units -> {"success", "exit-code", "timeout"}]
  /\ job \in [Units -> BOOLEAN] /\ pos \in [Units -> 0 .. HashLength]
  /\ stage \in {"configurator", "live", "orchestrator", "installing"}
  /\ pc \in {"start", "load", "state", "poll", "result", "done"}
  /\ at \in Units /\ starting \in {"none", "alive", "gone"}
  /\ unanswered \in 0 .. MaxUnanswered /\ settling \in 0 .. MaxSettling
  /\ verdict \in Verdicts /\ disk \in {"untouched", "wiped", "written"} /\ heard \in BOOLEAN
  /\ trouble \in BOOLEAN

MediumGood == present /\ good["image"] /\ (sums => good["mirror"])

\* No partition table, filesystem or image is written for a medium whose image,
\* or whose package mirror when the ISO carries its sums, does not hash to what
\* the build recorded.  In a full-disk install the old signatures may be gone by
\* then, whatever the verdict: the cleanup does not wait for it.
WrittenOnlyIfVerified == disk = "written" => MediumGood

\* The advice fits the cause: "too slow" is said of a hash its timeout killed,
\* and a hash its timeout killed is never called corrupt ("re-flashing the same
\* stick is not the advice"), as long as systemd answers.
AdviceFitsCause ==
  /\ verdict = "slow" => result[at] = "timeout"
  /\ verdict = "corrupt" /\ heard => result[at] = "exit-code"

\* A good medium on a healthy machine is accepted, whether systemd had started
\* the hashes, had only queued them or had dropped them.
GoodMediumAccepted == <>(trouble \/ ~MediumGood \/ stage = "installing")

\* The helper always answers: no state of a unit or of systemd leaves the
\* install waiting forever.
AlwaysAnswers == Helped ~> pc = "done"
=============================================================================
