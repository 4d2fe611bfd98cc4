--------------------------- MODULE FirstBootProofs --------------------------
(***************************************************************************)
(* For any number of runs in one live session: a mounted drive clears what *)
(* earlier loads left, a completed install boots to somebody who can use   *)
(* it, and its factory snapshot can be handed on.                          *)
(*                                                                         *)
(* The invariant follows an install through its phases: who answered for   *)
(* it, what it was formatted and staged with, and what its first UKI       *)
(* holds.  It stands without the checks of validate_boot: they catch       *)
(* failures of commands that the phases would otherwise pass over.         *)
(***************************************************************************)
EXTENDS FirstBoot, TLAPS

AfterInstall  == {"stage", "finalize", "access", "validate", "snapshot", "done"}
AfterStage    == AfterInstall \ {"stage"}
AfterFinalize == AfterStage \ {"finalize"}

\* After a drive was mounted only this run's files are there, all from one
\* source; and none, while the wizard still has to write its own.
Fresh ==
  /\ pc = "load" => ~cleared
  /\ cleared /\ pc = "wizard" => root = Emptied
  /\ cleared /\ pc \in Phases \cup {"context"} =>
       \A f \in Names : In(f) => root[f].in = session /\ root[f].by = root["config"].by

\* An install that is not deferred has an account and a passphrase.
Answered ==
  /\ pc = "context" /\ ~(answers.defer \/ In("defer")) => answers.accounts /\ answers.password
  /\ pc \in Phases \cup {"done"} /\ ~deferred => answers.accounts /\ answers.password

Formatted ==
  /\ pc \in AfterInstall => /\ slot = Slot
                            /\ cmdline = [cryptdevice |-> Encrypted, rdLuks |-> Encrypted]
                            /\ "account" \in target <=> Accounts
  /\ pc = "stage" => target \subseteq {"account"}

Armed ==
  pc \in AfterStage =>
    IF deferred THEN {"pending", "service"} \subseteq target /\ (Encrypted => UnlockFiles \subseteq target)
                ELSE "pending" \notin target

Built ==
  pc \in AfterFinalize =>
    /\ uki.by \in {"image", "here"} /\ uki.modules /\ uki.selected
    /\ uki.keymap = answers.keymap
    /\ deferred /\ Encrypted => uki.by = "here" /\ uki.key /\ uki.cryptkey

Inv == TypeOK /\ Fresh /\ Answered /\ Formatted /\ Armed /\ Built /\ FactoryIsHandable

USE DEF inputs, made

LEMMA InitInv == Init => Inv
<1> SUFFICES ASSUME Init PROVE Inv
  OBVIOUS
<1>1. TypeOK
  <2>1. session \in 1..Sessions
    BY SessionsAssumption DEF Init
  <2>2. root \in [Names -> Origins]
    BY DEF Init, Origins
  <2>3. answers \in Answers
    BY DEF Init, Answers, Disks, Keymaps
  <2>4. uki \in [by : {"none", "image", "here"}, keymap : Keymaps, key : BOOLEAN, cryptkey : BOOLEAN,
                 modules : BOOLEAN, selected : BOOLEAN]
    BY DEF Init, NoUki, Keymaps
  <2> QED
    BY <2>1, <2>2, <2>3, <2>4 DEF Init, TypeOK, NoLine
<1>2. Fresh /\ Answered /\ Formatted /\ Armed /\ Built /\ FactoryIsHandable
  BY DEF Init, Fresh, Answered, Formatted, Armed, Built, FactoryIsHandable, Phases, AfterInstall,
         AfterStage, AfterFinalize
<1> QED
  BY <1>1, <1>2 DEF Inv

(***************************************************************************)
(* The loader and the wizard.                                              *)
(***************************************************************************)
LEMMA EmptiedType == Emptied \in [Names -> Origins] /\ \A f \in Names : Emptied[f] = Nobody
  BY DEF Emptied, Origins

LEMMA CopiedType ==
  ASSUME TypeOK, NEW files \in SUBSET Names
  PROVE  /\ Copied(files) \in [Names -> Origins]
         /\ \A f \in Names : Copied(files)[f] # Nobody =>
              f \in files /\ Copied(files)[f].in = session /\ Copied(files)[f].by = "drive"
         /\ \A f \in files : Copied(files)[f] = [by |-> "drive", in |-> session]
  BY DEF Copied, Origins, Nobody, TypeOK

LEMMA LoadingInv == ASSUME Inv, Loading PROVE Inv'
<1> USE DEF Inv, Phases, AfterInstall, AfterStage, AfterFinalize
<1>1. pc = "load"
  BY DEF Loading, NoDrive, NotAutoinstall, Load, CopyFails
<1>2. CASE NoDrive
  <2>1. TypeOK'
    BY <1>2 DEF NoDrive, TypeOK
  <2>2. Fresh' /\ Answered' /\ Formatted' /\ Armed' /\ Built' /\ FactoryIsHandable'
    BY <1>1, <1>2 DEF NoDrive, Fresh, Answered, Formatted, Armed, Built, FactoryIsHandable
  <2> QED
    BY <2>1, <2>2
<1>3. ASSUME NEW files \in SUBSET Names, NotAutoinstall(files) \/ CopyFails(files) PROVE Inv'
  <2>1. TypeOK'
    BY <1>3, EmptiedType DEF NotAutoinstall, CopyFails, TypeOK
  <2>2. Fresh' /\ Answered' /\ Formatted' /\ Armed' /\ Built' /\ FactoryIsHandable'
    BY <1>1, <1>3 DEF NotAutoinstall, CopyFails, Fresh, Answered, Formatted, Armed, Built, FactoryIsHandable, Emptied
  <2> QED
    BY <2>1, <2>2
<1>4. ASSUME NEW files \in SUBSET Names, Load(files) PROVE Inv'
  <2> USE <1>4, CopiedType
  <2>1. TypeOK'
    BY DEF Load, TypeOK
  <2>2. "config" \in files /\ root' = Copied(files) /\ pc' = "context" /\ session' = session
    BY DEF Load, IsAutoinstall
  <2>3. Fresh'
    <3>1. \A f \in Names : root'[f] # Nobody => root'[f].in = session /\ root'[f].by = "drive"
      BY <2>2
    <3>2. root'["config"].by = "drive"
      BY <2>2
    <3> QED
      BY <2>2, <3>1, <3>2 DEF Fresh, In
  <2>4. Answered'
    <3>1. "defer" \in files => root'["defer"] # Nobody
      BY <2>2 DEF Nobody
    <3> QED
      BY <2>2, <3>1 DEF Load, Answered, In
  <2>5. Formatted' /\ Armed' /\ Built' /\ FactoryIsHandable'
    BY <2>2 DEF Formatted, Armed, Built, FactoryIsHandable
  <2> QED
    BY <2>1, <2>3, <2>4, <2>5
<1> QED
  BY <1>2, <1>3, <1>4 DEF Loading

LEMMA WizardInv == ASSUME Inv, Wizard PROVE Inv'
<1> USE DEF Inv
<1>1. root \in [Names -> Origins] /\ session \in 1..Sessions
  BY DEF TypeOK
<1>2. pc = "wizard" /\ pc' = "context" /\ session' = session /\ cleared' = cleared
  BY DEF Wizard
<1>3. root' = [f \in Names |-> IF f \in {"config", "creds", "encrypt"}
                               THEN [by |-> "wizard", in |-> session] ELSE root[f]]
  BY DEF Wizard
<1>4. root' \in [Names -> Origins]
  BY <1>1, <1>3 DEF Origins
<1>5. answers' \in Answers /\ (~answers'.defer => answers'.accounts /\ answers'.password)
  BY DEF Wizard, WizardAnswers, Answers, Disks, Keymaps
<1>6. TypeOK'
  BY <1>2, <1>4, <1>5 DEF Wizard, TypeOK
<1>7. Fresh'
  <2>1. cleared => \A f \in Names : root'[f] # Nobody => root'[f] = [by |-> "wizard", in |-> session]
    BY <1>2, <1>3 DEF Fresh, Emptied
  <2>2. root'["config"] = [by |-> "wizard", in |-> session]
    BY <1>3 DEF Names
  <2> QED
    BY <1>2, <2>1, <2>2 DEF Fresh, In, Phases
<1>8. Answered' /\ Formatted' /\ Armed' /\ Built' /\ FactoryIsHandable'
  BY <1>2, <1>5 DEF Answered, Formatted, Armed, Built, FactoryIsHandable, Phases, AfterInstall, AfterStage,
                    AfterFinalize
<1> QED
  BY <1>6, <1>7, <1>8

(***************************************************************************)
(* The phases.                                                             *)
(***************************************************************************)
LEMMA EarlyPhases == ASSUME Inv, Context \/ Install \/ Stage PROVE Inv'
<1> USE DEF Inv, Phases, AfterInstall, AfterStage, AfterFinalize
<1>1. CASE Context
  <2>1. TypeOK'
    BY <1>1 DEF Context, TypeOK, ForOwner, Answers
  <2>2. Fresh' /\ Answered'
    BY <1>1 DEF Context, Fresh, Answered, In, ForOwner
  <2>3. Formatted' /\ Armed' /\ Built' /\ FactoryIsHandable'
    BY <1>1 DEF Context, Formatted, Armed, Built, FactoryIsHandable
  <2> QED
    BY <2>1, <2>2, <2>3
<1>2. CASE Install
  <2>1. TypeOK'
    BY <1>2 DEF Install, TypeOK, Slot, Staged, Encrypted
  <2>2. Fresh' /\ Answered'
    BY <1>2 DEF Install, Fresh, Answered, In
  <2>3. Formatted'
    BY <1>2 DEF Install, Formatted, Slot, Accounts, Encrypted
  <2>4. Armed' /\ Built' /\ FactoryIsHandable'
    BY <1>2 DEF Install, Armed, Built, FactoryIsHandable
  <2> QED
    BY <2>1, <2>2, <2>3, <2>4
<1>3. CASE Stage
  <2>1. TypeOK'
    BY <1>3 DEF Stage, TypeOK, Staged, Scrubbed, UnlockFiles
  <2>2. Fresh' /\ Answered'
    BY <1>3 DEF Stage, Fresh, Answered, In
  <2>3. Formatted'
    BY <1>3 DEF Stage, Formatted, Slot, Accounts, Encrypted, UnlockFiles
  <2>4. Armed'
    BY <1>3 DEF Stage, Armed, Formatted, Encrypted, UnlockFiles
  <2>5. Built' /\ FactoryIsHandable'
    BY <1>3 DEF Stage, Built, FactoryIsHandable
  <2> QED
    BY <2>1, <2>2, <2>3, <2>4, <2>5
<1> QED
  BY <1>1, <1>2, <1>3

\* A prebuilt UKI that is used was made with the keymap of the answers.
LEMMA PrebuiltFits ==
  ASSUME NEW image \in Images, NEW machine \in Machines, UsesPrebuilt(image, machine)
  PROVE  image.keymap = answers.keymap /\ ~machine.modules /\ ~KeyStaged
  BY DEF UsesPrebuilt, SkipPrebuilt, StaleKeymap, Baked, Images

LEMMA FinalizeInv ==
  ASSUME Inv, NEW image \in Images, NEW machine \in Machines, Finalize(image, machine)
  PROVE  Inv'
<1> USE DEF Inv, Phases, AfterInstall, AfterStage, AfterFinalize
<1> DEFINE prebuilt == UsesPrebuilt(image, machine) /\ ~machine.otherKernel
<1>1. uki' = [by |-> IF prebuilt THEN "image" ELSE "here",
              keymap |-> IF prebuilt THEN image.keymap ELSE answers.keymap,
              key |-> ~prebuilt /\ {"filesDropIn", "keyfile"} \subseteq target,
              cryptkey |-> "cmdlineDropIn" \in target,
              modules |-> prebuilt => ~machine.modules,
              selected |-> machine.otherKernel => ~prebuilt]
  BY DEF Finalize
<1>2. pc = "finalize" /\ pc' = "access" /\ UNCHANGED <<session, inputs, deferred, slot, cmdline, target, factory>>
  BY DEF Finalize
<1>3. prebuilt => image.keymap = answers.keymap /\ ~machine.modules /\ "filesDropIn" \notin target
  BY PrebuiltFits DEF KeyStaged
<1>4. image.keymap \in Keymaps /\ answers.keymap \in Keymaps
  BY DEF Images, TypeOK, Answers
<1> HIDE DEF prebuilt
<1>5. TypeOK'
  <2>1. uki' \in [by : {"none", "image", "here"}, keymap : Keymaps, key : BOOLEAN, cryptkey : BOOLEAN,
                  modules : BOOLEAN, selected : BOOLEAN]
    BY <1>1, <1>4
  <2> QED
    BY <1>2, <2>1 DEF TypeOK
<1>6. Fresh' /\ Answered' /\ Formatted' /\ Armed' /\ FactoryIsHandable'
  BY <1>2 DEF Fresh, Answered, Formatted, Armed, FactoryIsHandable, In, Slot, Encrypted, Accounts
<1>7. Built'
  <2>1. uki'.by \in {"image", "here"} /\ uki'.modules /\ uki'.selected
    BY <1>1, <1>3 DEF prebuilt
  <2>2. uki'.keymap = answers'.keymap
    BY <1>1, <1>2, <1>3
  <2>3. ASSUME deferred', Encrypted' PROVE uki'.by = "here" /\ uki'.key /\ uki'.cryptkey
    <3>1. {"filesDropIn", "keyfile", "cmdlineDropIn"} \subseteq target
      BY <1>2, <2>3 DEF Armed, Encrypted, UnlockFiles
    <3>2. ~prebuilt
      BY <1>3, <3>1
    <3> QED
      BY <1>1, <3>1, <3>2
  <2> QED
    BY <2>1, <2>2, <2>3 DEF Built
<1> QED
  BY <1>5, <1>6, <1>7

LEMMA LatePhases == ASSUME Inv, Access \/ Validate \/ Snapshot PROVE Inv'
<1> USE DEF Inv, Phases, AfterInstall, AfterStage, AfterFinalize
<1>1. CASE Access
  <2>1. TypeOK'
    BY <1>1 DEF Access, TypeOK, Staged, Scrubbed
  <2>2. Fresh' /\ Answered'
    BY <1>1 DEF Access, Fresh, Answered, In
  <2>3. Formatted' /\ Armed' /\ Built' /\ FactoryIsHandable'
    BY <1>1 DEF Access, Formatted, Armed, Built, FactoryIsHandable, Slot, Encrypted, Accounts, UnlockFiles
  <2> QED
    BY <2>1, <2>2, <2>3
<1>2. CASE Validate
  <2>1. TypeOK'
    BY <1>2 DEF Validate, TypeOK
  <2>2. Fresh' /\ Answered'
    BY <1>2 DEF Validate, Fresh, Answered, In
  <2>3. Formatted' /\ Armed' /\ Built' /\ FactoryIsHandable'
    BY <1>2 DEF Validate, Formatted, Armed, Built, FactoryIsHandable, Slot, Encrypted, Accounts
  <2> QED
    BY <2>1, <2>2, <2>3
<1>3. CASE Snapshot
  <2>1. TypeOK'
    BY <1>3 DEF Snapshot, TypeOK
  <2>2. Fresh' /\ Answered'
    BY <1>3 DEF Snapshot, Fresh, Answered, In
  <2>3. Formatted' /\ Armed' /\ Built'
    BY <1>3 DEF Snapshot, Formatted, Armed, Built, Slot, Encrypted, Accounts
  <2>4. FactoryIsHandable'
    <3>1. "account" \in target \/ {"pending", "service"} \subseteq target
      BY <1>3 DEF Snapshot, Formatted, Armed, Answered, Accounts
    <3> QED
      BY <1>3, <3>1 DEF Snapshot, FactoryIsHandable, Credentials, Scrubbed
  <2> QED
    BY <2>1, <2>2, <2>3, <2>4
<1> QED
  BY <1>1, <1>2, <1>3

LEMMA EndsInv == ASSUME Inv, PhaseFails \/ Again \/ UNCHANGED vars PROVE Inv'
<1> USE DEF Inv, Phases, AfterInstall, AfterStage, AfterFinalize
<1>1. CASE PhaseFails
  <2>1. TypeOK'
    BY <1>1 DEF PhaseFails, TypeOK
  <2>2. Fresh' /\ Answered' /\ Formatted' /\ Armed' /\ Built' /\ FactoryIsHandable'
    BY <1>1 DEF PhaseFails, Fresh, Answered, Formatted, Armed, Built, FactoryIsHandable
  <2> QED
    BY <2>1, <2>2
<1>2. CASE Again
  <2>1. session' \in 1..Sessions
    BY <1>2, SessionsAssumption DEF Again, TypeOK
  <2>2. NoUki \in [by : {"none", "image", "here"}, keymap : Keymaps, key : BOOLEAN, cryptkey : BOOLEAN,
                   modules : BOOLEAN, selected : BOOLEAN]
    BY DEF NoUki, Keymaps
  <2>3. TypeOK'
    BY <1>2, <2>1, <2>2 DEF Again, Clean, TypeOK, NoLine
  <2>4. Fresh' /\ Answered' /\ Formatted' /\ Armed' /\ Built' /\ FactoryIsHandable'
    BY <1>2 DEF Again, Fresh, Answered, Formatted, Armed, Built, FactoryIsHandable
  <2> QED
    BY <2>3, <2>4
<1>3. CASE UNCHANGED vars
  <2>1. TypeOK'
    BY <1>3 DEF vars, TypeOK
  <2>2. Fresh' /\ Answered'
    BY <1>3 DEF vars, Fresh, Answered, In
  <2>3. Formatted' /\ Armed' /\ Built' /\ FactoryIsHandable'
    BY <1>3 DEF vars, Formatted, Armed, Built, FactoryIsHandable, Slot, Encrypted, Accounts
  <2> QED
    BY <2>1, <2>2, <2>3
<1> QED
  BY <1>1, <1>2, <1>3

LEMMA InvStep == Inv /\ [Next]_vars => Inv'
  BY LoadingInv, WizardInv, EarlyPhases, FinalizeInv, LatePhases, EndsInv DEF Next, Ended

(***************************************************************************)
(* The inductive invariant holds in every state.                           *)
(***************************************************************************)
THEOREM InvCorrect == Spec => []Inv
  BY InitInv, InvStep, PTL DEF Spec

(***************************************************************************)
(* The state is well-typed: no LUKS slot is left without a passphrase that *)
(* somebody, or the staged key, stands for.                                *)
(***************************************************************************)
THEOREM TypeCorrect == Spec => []TypeOK
<1>1. Inv => TypeOK
  BY DEF Inv
<1> QED
  BY <1>1, InvCorrect, PTL

(***************************************************************************)
(* omarchy-cidata-load: once a drive was mounted, every input of the       *)
(* install is this run's and of one source.                                *)
(***************************************************************************)
THEOREM DriveClears == Spec => []DriveClearsEarlierInputs
<1>1. Inv => DriveClearsEarlierInputs
  BY DEF Inv, Fresh, DriveClearsEarlierInputs
<1> QED
  BY <1>1, InvCorrect, PTL

(***************************************************************************)
(* The phases from archinstall's formatting to the boot entries: every     *)
(* completed install unlocks at its first boot and has an account, or      *)
(* first-boot setup armed.                                                 *)
(***************************************************************************)
THEOREM OwnerIsReached == Spec => []FirstBootReachesOwner
<1>1. Inv => FirstBootReachesOwner
  <2> SUFFICES ASSUME Inv, pc = "done"
               PROVE  /\ Unlocks /\ uki.by # "none" /\ uki.modules /\ uki.selected
                      /\ IF deferred THEN {"pending", "service"} \subseteq target /\ "account" \notin target
                                     ELSE "account" \in target /\ "pending" \notin target
    BY DEF FirstBootReachesOwner
  <2> USE DEF Inv, AfterInstall, AfterStage, AfterFinalize
  <2>1. uki.by \in {"image", "here"} /\ uki.modules /\ uki.selected
    BY DEF Built
  <2>2. IF deferred THEN {"pending", "service"} \subseteq target /\ "account" \notin target
                    ELSE "account" \in target /\ "pending" \notin target
    BY DEF Armed, Formatted, Accounts, Answered
  <2>3. CASE ~Encrypted
    BY <2>1, <2>2, <2>3 DEF Formatted, Slot, Unlocks
  <2>4. CASE Encrypted /\ deferred
    BY <2>1, <2>2, <2>4 DEF Built, Armed, UnlockFiles, Unlocks, KeyFits
  <2>5. CASE Encrypted /\ ~deferred
    BY <2>1, <2>2, <2>5 DEF Built, Formatted, Answered, Slot, Unlocks, AskedFor
  <2> QED
    BY <2>3, <2>4, <2>5
<1> QED
  BY <1>1, InvCorrect, PTL

(***************************************************************************)
(* create_factory_snapshot: no credential of the deployment stays in       *)
(* @factory, and nothing that depends on one.                              *)
(***************************************************************************)
THEOREM FactoryHandsOn == Spec => []FactoryIsHandable
<1>1. Inv => FactoryIsHandable
  BY DEF Inv
<1> QED
  BY <1>1, InvCorrect, PTL
=============================================================================
