----------------------------- MODULE FirstBoot ------------------------------
(***************************************************************************)
(* From an install's inputs to its first boot: the files that the cidata   *)
(* loader or the wizard leaves in /root, what InstallContext.from_env      *)
(* makes of them, the credentials and drop-ins that the phases stage in    *)
(* the target, the UKI that boots first, and what @factory keeps of it     *)
(* for the next owner.  One live session may run the installer several     *)
(* times, with another drive attached or none, as failed installs end in a *)
(* shell.                                                                  *)
(*                                                                         *)
(* archinstall, mkinitcpio, limine-entry-tool and the first boot's unlock  *)
(* are outside and modelled from how the phases use them.  Any phase can   *)
(* raise.                                                                  *)
(***************************************************************************)
EXTENDS Naturals

CONSTANT Sessions   \* times the installer is started in one live session

ASSUME SessionsAssumption == Sessions \in Nat \ {0}

VARIABLES
  session, pc,
  root,       \* /root: who put each input there, and in which run
  cleared,    \* this run's cidata load mounted a drive, and cleared /root
  answers,    \* what the configuration and the credentials in /root say
  deferred,   \* ctx.defer_provisioning
  slot,       \* who can type the passphrase of the LUKS slot
  cmdline,    \* the unlock parameters of the install's kernel command line
  target,     \* what the install staged in the target
  uki,        \* the UKI or initramfs of the entry that boots first
  factory     \* what @factory holds, when there is one

inputs == <<root, cleared, answers>>
made   == <<slot, cmdline, target, uki, factory>>
vars   == <<session, pc, inputs, deferred, made>>

(***************************************************************************)
(* The inputs.  A rig's drive may carry any of them; the pair that makes   *)
(* it an autoinstall drive is the configuration, and credentials or the    *)
(* marker in their place.                                                  *)
(***************************************************************************)
Optional == {"creds", "defer", "encrypt", "keys", "authkey"}
Names    == {"config"} \cup Optional
Nobody   == [by |-> "none", in |-> 0]
Origins  == {Nobody} \cup [by : {"drive", "wizard"}, in : 1..Sessions]

Disks    == {"plain", "luks", "premountedLuks", "zfs"}
Keymaps  == {"us", "other"}
Answers  == [defer : BOOLEAN,       \* omarchy_install.defer_provisioning
             disk : Disks, keymap : Keymaps,
             password : BOOLEAN,    \* encryption_password, wherever it is looked up
             accounts : BOOLEAN]    \* users, in the credentials or the configuration

Encrypted == answers.disk \in {"luks", "premountedLuks"}
In(f)     == root[f] # Nobody
ForOwner(d) == d \/ In("defer")

NoUki   == [by |-> "none", keymap |-> "us", key |-> FALSE, cryptkey |-> FALSE,
            modules |-> FALSE, selected |-> FALSE]
NoLine  == [cryptdevice |-> FALSE, rdLuks |-> FALSE]
Clean   == slot' = "none" /\ cmdline' = NoLine /\ target' = {} /\ uki' = NoUki /\ factory' = {}

Init ==
  /\ session = 1 /\ pc = "load"
  /\ root = [f \in Names |-> Nobody]
  /\ cleared = FALSE
  /\ answers = [defer |-> FALSE, disk |-> "plain", keymap |-> "us", password |-> FALSE, accounts |-> FALSE]
  /\ deferred = FALSE
  /\ slot = "none" /\ cmdline = NoLine /\ target = {} /\ uki = NoUki /\ factory = {}

-----------------------------------------------------------------------------
(***************************************************************************)
(* omarchy-cidata-load.                                                    *)
(***************************************************************************)
\* No drive of that label, or one that does not mount: /root stays as it is.
NoDrive ==
  /\ pc = "load"
  /\ pc' = "wizard"
  /\ UNCHANGED <<session, inputs, deferred, made>>

Emptied == [f \in Names |-> Nobody]

IsAutoinstall(files) == "config" \in files /\ files \cap {"creds", "defer"} # {}

NotAutoinstall(files) ==
  /\ pc = "load"
  /\ ~IsAutoinstall(files)
  /\ root' = Emptied /\ cleared' = TRUE
  /\ pc' = "wizard"
  /\ UNCHANGED <<session, answers, deferred, made>>

\* Mutant: what an earlier load left stays beside the new files.
CopiedOver(files) == [f \in Names |-> IF f \in files THEN [by |-> "drive", in |-> session] ELSE root[f]]

Copied(files) == [f \in Names |-> IF f \in files THEN [by |-> "drive", in |-> session] ELSE Nobody]

\* A rig's encrypted configuration carries its passphrase, except that a
\* deferred full-disk one may leave it to the installer.
Load(files) ==
  /\ pc = "load"
  /\ IsAutoinstall(files)
  /\ root' = Copied(files) /\ cleared' = TRUE
  /\ answers' \in Answers
  /\ "creds" \notin files /\ ~answers'.defer => "defer" \in files
  /\ ~(answers'.defer \/ "defer" \in files) => answers'.accounts /\ answers'.password
  /\ pc' = "context"
  /\ UNCHANGED <<session, deferred, made>>

\* cp fails part way: what it copied goes again.
CopyFails(files) ==
  /\ pc = "load"
  /\ IsAutoinstall(files)
  /\ root' = Emptied /\ cleared' = TRUE
  /\ pc' = "wizard"
  /\ UNCHANGED <<session, answers, deferred, made>>

-----------------------------------------------------------------------------
(***************************************************************************)
(* The configurator writes three of the files and leaves the others alone. *)
(***************************************************************************)
WizardAnswers ==
  [defer : {TRUE}, disk : {"plain", "luks"}, keymap : {"us"}, password : {FALSE}, accounts : {FALSE}]
    \cup [defer : {FALSE}, disk : Disks, keymap : Keymaps, password : {TRUE}, accounts : {TRUE}]

Wizard ==
  /\ pc = "wizard"
  /\ answers' \in WizardAnswers
  /\ root' = [f \in Names |-> IF f \in {"config", "creds", "encrypt"}
                              THEN [by |-> "wizard", in |-> session] ELSE root[f]]
  /\ pc' = "context"
  /\ UNCHANGED <<session, cleared, deferred, made>>

-----------------------------------------------------------------------------
(***************************************************************************)
(* The orchestrator.                                                       *)
(***************************************************************************)
\* Without credentials only a deferred install goes on.
Context ==
  /\ pc = "context"
  /\ deferred' = ForOwner(answers.defer)
  /\ pc' = IF In("creds") \/ deferred' THEN "install" ELSE "failed"
  /\ UNCHANGED <<session, inputs, made>>

\* from_env leaves archinstall no user to create in a deferred install.
Accounts == ~deferred /\ answers.accounts

\* The passphrase archinstall formats with, or the one a premounted target
\* was formatted with: the input's, or a throwaway for a deferred install.
Slot == IF ~Encrypted THEN "none"
        ELSE IF answers.password \/ answers.disk = "premountedLuks" THEN "given" ELSE "throwaway"

\* with_cmdline_options adds rd.luks.name= beside cryptdevice= when it can
\* find the header's UUID; _write_limine_defaults insists on it.  A ZFS pool
\* must have a home dataset of the user's name, and a deferred install has no
\* user.
Install ==
  /\ pc = "install"
  /\ slot' = Slot
  /\ cmdline' = [cryptdevice |-> Encrypted, rdLuks |-> Encrypted]
  /\ target' = IF Accounts THEN {"account"} ELSE {}
  /\ pc' = IF deferred /\ answers.disk = "zfs" THEN "failed" ELSE "stage"
  /\ UNCHANGED <<session, inputs, deferred, uki, factory>>

\* _provision_install_encrypted looks in three places: storage.luks_uuid, the
\* disk_encryption block, and the encrypt file, which matches them.
UnlockFiles == {"luksKey", "keyfile", "cmdlineDropIn", "filesDropIn"}

Stage ==
  /\ pc = "stage"
  /\ target' = target \cup IF deferred
                           THEN {"pending", "service"} \cup IF Encrypted THEN UnlockFiles ELSE {}
                           ELSE {}
  /\ pc' = IF deferred /\ answers.disk = "premountedLuks" /\ ~answers.password THEN "failed" ELSE "finalize"
  /\ UNCHANGED <<session, inputs, deferred, slot, cmdline, uki, factory>>

(***************************************************************************)
(* finalize_limine_boot.  `image` is the medium's prebuilt UKI: its keymap *)
(* is recorded unless it is "us".  `machine` says what the hardware scripts*)
(* added and whether a kernel other than the image's was selected.         *)
(***************************************************************************)
Images   == {i \in [uki : BOOLEAN, keymap : Keymaps, recorded : BOOLEAN] : i.recorded \/ i.keymap = "us"}
Machines == [uefi : BOOLEAN, armPlatform : BOOLEAN, modules : BOOLEAN, otherKernel : BOOLEAN]

Baked(image)       == IF image.recorded THEN image.keymap ELSE "us"
StaleKeymap(image) == answers.keymap # Baked(image)
KeyStaged          == "filesDropIn" \in target

\* Mutant: the prebuilt UKI serves a deferred install too.
SkipPrebuiltNoKey(image, machine) == answers.disk = "zfs" \/ machine.modules \/ StaleKeymap(image)

SkipPrebuilt(image, machine) == answers.disk = "zfs" \/ machine.modules \/ StaleKeymap(image) \/ KeyStaged

UsesPrebuilt(image, machine) ==
  image.uki /\ ~SkipPrebuilt(image, machine) /\ machine.uefi /\ ~machine.armPlatform

\* BOOT_ORDER puts a selected kernel that is not the image's first, and its
\* UKI is built here.  The entries' cmdline takes every drop-in in.
Finalize(image, machine) ==
  /\ pc = "finalize"
  /\ LET prebuilt == UsesPrebuilt(image, machine) /\ ~machine.otherKernel IN
       uki' = [by       |-> IF prebuilt THEN "image" ELSE "here",
               keymap   |-> IF prebuilt THEN image.keymap ELSE answers.keymap,
               key      |-> ~prebuilt /\ {"filesDropIn", "keyfile"} \subseteq target,
               cryptkey |-> "cmdlineDropIn" \in target,
               modules  |-> prebuilt => ~machine.modules,
               selected |-> machine.otherKernel => ~prebuilt]
  /\ pc' = "access"
  /\ UNCHANGED <<session, inputs, deferred, slot, cmdline, target, factory>>

\* configure_ssh_access and configure_tailscale.  Keys for an account go to
\* its home, which is a subvolume of its own.
Access ==
  /\ pc = "access"
  /\ target' = target \cup (IF In("keys") THEN {IF deferred THEN "stagedKeys" ELSE "homeKeys"} ELSE {})
                      \cup (IF In("authkey") THEN {"authkey", "joinUnit", "joinLink"} ELSE {})
  /\ pc' = "validate"
  /\ UNCHANGED <<session, inputs, deferred, slot, cmdline, uki, factory>>

\* validate_boot and _validate_provisioning_state.
Valid ==
  deferred => /\ {"pending", "service"} \subseteq target
              /\ Encrypted => {"luksKey", "keyfile"} \subseteq target /\ uki.cryptkey

Validate ==
  /\ pc = "validate"
  /\ pc' = IF Valid THEN "snapshot" ELSE "failed"
  /\ UNCHANGED <<session, inputs, deferred, made>>

Scrubbed == {"stagedKeys", "luksKey", "keyfile", "cmdlineDropIn", "filesDropIn", "authkey", "joinUnit", "joinLink"}

\* Mutant: the drop-in that names the key stays when the key goes.
SnapshotKeepsDropIn ==
  /\ pc = "snapshot"
  /\ factory' = IF answers.disk = "zfs" THEN {} ELSE (target \ (Scrubbed \ {"filesDropIn"})) \ {"homeKeys"}
  /\ pc' = "done"
  /\ UNCHANGED <<session, inputs, deferred, slot, cmdline, target, uki>>

Snapshot ==
  /\ pc = "snapshot"
  /\ factory' = IF answers.disk = "zfs" THEN {} ELSE (target \ Scrubbed) \ {"homeKeys"}
  /\ pc' = "done"
  /\ UNCHANGED <<session, inputs, deferred, slot, cmdline, target, uki>>

Phases == {"install", "stage", "finalize", "access", "validate", "snapshot"}

PhaseFails ==
  /\ pc \in Phases \cup {"context", "wizard"}
  /\ pc' = "failed"
  /\ UNCHANGED <<session, inputs, deferred, made>>

\* The failure menu leaves to a shell, where the installer can be started
\* again; the target is formatted anew.
Again ==
  /\ pc = "failed" /\ session < Sessions
  /\ session' = session + 1 /\ pc' = "load"
  /\ cleared' = FALSE
  /\ deferred' = FALSE /\ Clean
  /\ UNCHANGED <<root, answers>>

Ended == (pc = "done" \/ (pc = "failed" /\ session = Sessions)) /\ UNCHANGED vars

Loading  == NoDrive \/ \E files \in SUBSET Names : NotAutoinstall(files) \/ Load(files) \/ CopyFails(files)

Next ==
  \/ Loading \/ Wizard \/ Context \/ Install \/ Stage
  \/ \E image \in Images, machine \in Machines : Finalize(image, machine)
  \/ Access \/ Validate \/ Snapshot \/ PhaseFails \/ Again \/ Ended

Spec == Init /\ [][Next]_vars

-----------------------------------------------------------------------------
Staged == {"account", "pending", "service", "homeKeys"} \cup Scrubbed

TypeOK ==
  /\ session \in 1..Sessions
  /\ pc \in Phases \cup {"load", "wizard", "context", "failed", "done"}
  /\ root \in [Names -> Origins]
  /\ cleared \in BOOLEAN /\ deferred \in BOOLEAN
  /\ answers \in Answers
  /\ slot \in {"none", "given", "throwaway"}
  /\ cmdline \in [cryptdevice : BOOLEAN, rdLuks : BOOLEAN]
  /\ target \subseteq Staged /\ factory \subseteq Staged
  /\ uki \in [by : {"none", "image", "here"}, keymap : Keymaps, key : BOOLEAN, cryptkey : BOOLEAN,
              modules : BOOLEAN, selected : BOOLEAN]

(***************************************************************************)
(* Once a drive was mounted, no input of an earlier run is left for this   *)
(* one, and none of the drive's for the wizard that follows it.            *)
(***************************************************************************)
DriveClearsEarlierInputs ==
  (cleared /\ pc \in Phases) =>
    \A f \in Names : In(f) => /\ root[f].in = session
                              /\ root[f].by = root["config"].by

(***************************************************************************)
(* What starts at the first boot of a completed install: the root unlocks  *)
(* and somebody gets in.  An owner who typed the passphrase is asked for   *)
(* it under the keymap it was typed in; a deferred install, whose          *)
(* passphrase its owner does not know, unlocks with the staged key and has *)
(* first-boot setup armed and no account; and the initramfs has what the   *)
(* hardware scripts asked for and is the selected kernel's.                *)
(***************************************************************************)
AskedFor == /\ ~deferred /\ slot = "given" /\ uki.keymap = answers.keymap
            /\ IF uki.by = "image" THEN cmdline.rdLuks ELSE cmdline.cryptdevice
KeyFits  == uki.by = "here" /\ uki.key /\ uki.cryptkey /\ "luksKey" \in target
Unlocks  == slot = "none" \/ AskedFor \/ KeyFits

FirstBootReachesOwner ==
  pc = "done" =>
    /\ Unlocks /\ uki.by # "none" /\ uki.modules /\ uki.selected
    /\ IF deferred THEN {"pending", "service"} \subseteq target /\ "account" \notin target
                   ELSE "account" \in target /\ "pending" \notin target

(***************************************************************************)
(* @factory hands the next owner none of this deployment's credentials,    *)
(* and nothing in it depends on one that was scrubbed: no drop-in names    *)
(* the missing key, no unit waits for the missing auth key.  A reset       *)
(* reaches the account or the first-boot setup of the original install.    *)
(***************************************************************************)
Credentials == {"stagedKeys", "homeKeys", "luksKey", "keyfile", "authkey"}

FactoryIsHandable ==
  (pc = "done" /\ answers.disk # "zfs") =>
    /\ factory \cap Credentials = {}
    /\ factory \cap {"cmdlineDropIn", "filesDropIn"} # {} => "keyfile" \in factory
    /\ factory \cap {"joinUnit", "joinLink"} # {} => "authkey" \in factory
    /\ "account" \in factory \/ {"pending", "service"} \subseteq factory

(***************************************************************************)
(* What test/unit/cidata-load-test.sh:167 expects of a fallback to the     *)
(* wizard, for every fallback: an interactive install works from what its  *)
(* wizard wrote, and inherits no input of an earlier load.                 *)
(***************************************************************************)
WizardInheritsNothing ==
  (pc \in Phases /\ root["config"].by = "wizard") =>
    \A f \in Names : In(f) => root[f] = root["config"]
=============================================================================
