----------------------------- MODULE PlaceImage -----------------------------
(***************************************************************************)
(* _place_root_image (orchestrator/phases_impl.py) up to the reshaped      *)
(* layout being mounted again: the target tree is unmounted under the      *)
(* dashboard's nose, the image is written by omarchy-image-write or, when  *)
(* the tool refuses it, by zstdcat | dd over a pipe of the orchestrator's, *)
(* the filesystem gets an fsid of its own, and nothing that reads UUIDs    *)
(* runs before blkid reports it.                                           *)
(*                                                                         *)
(* omarchy-image-write is taken as the abstract copy ImageCopy, which      *)
(* ImageWrite is shown to implement.  The pipe is the second implementer:  *)
(* here its two processes, the pipe between them and the four ends of it   *)
(* are explicit, and whichever of the two did the writing, the whole is    *)
(* shown to implement ImageCopy.                                           *)
(***************************************************************************)
EXTENDS Integers, Sequences

CONSTANTS
  NFrames,      \* frames of the image
  PipeSize,     \* blocks the pipe holds (F_SETPIPE_SZ, 4 MiB: two of dd's)
  UmountTries,  \* attempts = 20 of _umount_tree
  BlkidTries    \* attempts = 50 of _wait_for_blkid_uuid

ASSUME BoundsAssumption ==
  /\ NFrames \in Nat \ {0} /\ PipeSize \in Nat \ {0}
  /\ UmountTries \in Nat \ {0} /\ BlkidTries \in Nat \ {0}

Frames == 1..NFrames
Mounts == {"root", "home", "esp"}  \* at the target: @, and two mounts inside it

VARIABLES
  \* the device
  kind,     \* what each frame of the image holds
  target,   \* each frame's place on the device: "old", "part" or "image"
  flushed,  \* the frames the device holds durably
  exit,     \* what the writing came to, as its caller sees it
  fsid,     \* the UUID in the superblock: "old", "image" or "fresh"
  cache,    \* the UUID in libblkid's cache, which udev refreshes
  \* the orchestrator
  step,     \* where _place_root_image is
  tries,    \* attempts made in the step's retry loop
  want,     \* the fsid _wait_for_blkid_uuid waits for, "none" before and if unread
  mounted,  \* what is mounted at and below the target
  ends,     \* the pipe ends the orchestrator holds open
  \* other processes
  poll,     \* the dashboard's look at the target's package database
  zstd, sent,   \* zstdcat, and how many frames it has sent
  pipe,     \* the frames in the pipe; of a bad one, what zstd let go of
  dd        \* dd

\* What the tool promises, and what whoever did the writing is to promise: dd
\* syncs what it was given before anyone knows whether that was the image.
Tool == INSTANCE ImageCopy
Copy == INSTANCE ImageCopy WITH flushed <- IF exit = "ok" THEN flushed ELSE {}

device  == <<kind, target, flushed, exit, fsid>>
pipeline == <<zstd, sent, pipe, dd>>
vars == <<device, cache, step, tries, want, mounted, ends, poll, pipeline>>

Init ==
  /\ Tool!Init
  /\ fsid = "old" /\ cache = "old"
  /\ step = "umount" /\ tries = 0 /\ want = "none"
  /\ mounted = Mounts
  /\ ends = {}
  /\ poll = "idle"
  /\ zstd = "none" /\ sent = 0 /\ pipe = << >> /\ dd = "none"

Raise == step' = "raised"

Untouched == \A k \in Frames : target[k] = "old"

-----------------------------------------------------------------------------
(* The dashboard counts packages under <target>/var/lib/pacman/local.      *)
PollStarts ==
  /\ poll = "idle" /\ "root" \in mounted
  /\ poll' = "reading"
  /\ UNCHANGED <<device, cache, step, tries, want, mounted, ends, pipeline>>

PollEnds ==
  /\ poll = "reading"
  /\ poll' = "idle"
  /\ UNCHANGED <<device, cache, step, tries, want, mounted, ends, pipeline>>

(* _umount_tree.  umount -R takes the tree down from its leaves, so a busy *)
(* root leaves the rest unmounted; the next attempt takes what is left.    *)
UmountTree ==
  /\ step = "umount" /\ poll = "idle"
  /\ mounted' = {}
  /\ step' = "tool" /\ tries' = 0
  /\ UNCHANGED <<device, cache, want, ends, poll, pipeline>>

\* Mutant: the unmount is tried for as long as it takes.
UmountBusyForever ==
  /\ step = "umount" /\ poll = "reading"
  /\ mounted' = {"root"}
  /\ tries' = tries + 1
  /\ UNCHANGED <<device, cache, step, want, ends, poll, pipeline>>

\* Mutant: the retry loop falls through after its last attempt.
UmountBusyGivesUp ==
  /\ step = "umount" /\ poll = "reading"
  /\ mounted' = {"root"}
  /\ tries' = tries + 1
  /\ step' = IF tries' = UmountTries THEN "tool" ELSE step
  /\ UNCHANGED <<device, cache, want, ends, poll, pipeline>>

UmountBusy ==
  /\ step = "umount" /\ poll = "reading"
  /\ mounted' = {"root"}
  /\ tries' = tries + 1
  /\ IF tries' = UmountTries THEN Raise ELSE UNCHANGED step
  /\ UNCHANGED <<device, cache, want, ends, poll, pipeline>>

-----------------------------------------------------------------------------
(* _write_root_image_frames: the tool, by its contract.                    *)
ToolWrites ==
  /\ step = "tool"
  /\ \E k \in Frames : Tool!Put(k)
  /\ UNCHANGED <<fsid, cache, step, tries, want, mounted, ends, poll, pipeline>>

ToolSucceeds ==
  /\ step = "tool"
  /\ Tool!Succeed
  /\ fsid' = "image"
  /\ step' = "tune"
  /\ UNCHANGED <<cache, tries, want, mounted, ends, poll, pipeline>>

ToolFails ==
  /\ step = "tool"
  /\ Tool!Fail
  /\ Raise
  /\ UNCHANGED <<fsid, cache, tries, want, mounted, ends, poll, pipeline>>

\* The tool is not on the ISO, or exits 2: nothing is written.
ToolRefuses ==
  /\ step = "tool"
  /\ Untouched
  /\ step' = "pipe"
  /\ UNCHANGED <<device, cache, tries, want, mounted, ends, poll, pipeline>>

-----------------------------------------------------------------------------
(* _write_root_image_pipe.                                                 *)
OpenPipe ==
  /\ step = "pipe"
  /\ ends' = {"read", "write"}
  /\ zstd' = "run" /\ dd' = "run"
  /\ step' = "close"
  /\ UNCHANGED <<device, cache, tries, want, mounted, poll, sent, pipe>>

\* Mutant: the orchestrator keeps its write end, and dd never sees the end.
ClosePipeReadEnd ==
  /\ step = "close"
  /\ ends' = {"write"}
  /\ step' = "dd"
  /\ UNCHANGED <<device, cache, tries, want, mounted, poll, pipeline>>

ClosePipe ==
  /\ step = "close"
  /\ ends' = {}
  /\ step' = "dd"
  /\ UNCHANGED <<device, cache, tries, want, mounted, poll, pipeline>>

Readers == dd = "run" \/ "read" \in ends
Writers == zstd = "run" \/ "write" \in ends

Send(k) ==
  /\ zstd = "run" /\ Readers /\ Len(pipe) < PipeSize
  /\ pipe' = Append(pipe, k)

ZstdSends ==
  /\ sent < NFrames
  /\ kind[sent + 1] # "bad"
  /\ Send(sent + 1)
  /\ sent' = sent + 1
  /\ UNCHANGED <<device, cache, step, tries, want, mounted, ends, poll, zstd, dd>>

\* A bad frame: zstd may have decoded, and let go of, some of it.
ZstdDies ==
  /\ sent < NFrames
  /\ kind[sent + 1] = "bad"
  /\ \/ Send(sent + 1)
     \/ zstd = "run" /\ UNCHANGED pipe
  /\ zstd' = "failed"
  /\ UNCHANGED <<device, cache, step, tries, want, mounted, ends, poll, sent, dd>>

ZstdEnds ==
  /\ zstd = "run" /\ sent = NFrames
  /\ zstd' = "ok"
  /\ UNCHANGED <<device, cache, step, tries, want, mounted, ends, poll, sent, pipe, dd>>

\* SIGPIPE: dd is gone, and nobody else holds the read end.
ZstdBroken ==
  /\ zstd = "run" /\ sent < NFrames /\ ~Readers
  /\ zstd' = "failed"
  /\ UNCHANGED <<device, cache, step, tries, want, mounted, ends, poll, sent, pipe, dd>>

\* conv=sparse seeks over a block of zeros.
Lands(k) ==
  IF Tool!IsZero(k) THEN target
  ELSE [target EXCEPT ![k] = IF kind[k] = "bad" THEN "part" ELSE "image"]

DdWrites ==
  /\ dd = "run" /\ pipe # << >>
  /\ target' = Lands(Head(pipe))
  /\ pipe' = Tail(pipe)
  /\ UNCHANGED <<kind, flushed, exit, fsid, cache, step, tries, want, mounted, ends, poll, zstd, sent, dd>>

\* conv=fsync, at the end of the input whether or not that was all of it.
DdEnds ==
  /\ dd = "run" /\ pipe = << >> /\ ~Writers
  /\ dd' = "ok"
  /\ flushed' = Tool!OnTarget
  /\ UNCHANGED <<kind, target, exit, fsid, cache, step, tries, want, mounted, ends, poll, zstd, sent, pipe>>

\* A write or the final fsync fails.
DdFails ==
  /\ dd = "run" /\ (pipe # << >> \/ ~Writers)
  /\ dd' = "failed"
  /\ UNCHANGED <<device, cache, step, tries, want, mounted, ends, poll, zstd, sent, pipe>>

WaitForDd ==
  /\ step = "dd" /\ dd # "run"
  /\ step' = "zstd"
  /\ UNCHANGED <<device, cache, tries, want, mounted, ends, poll, pipeline>>

\* dd's status first, then zstd's: either raises.
PipeFailed ==
  /\ step = "zstd" /\ zstd # "run"
  /\ dd = "failed" \/ zstd = "failed"
  /\ exit' = "failed"
  /\ Raise
  /\ UNCHANGED <<kind, target, flushed, fsid, cache, tries, want, mounted, ends, poll, pipeline>>

\* Mutant: a shell pipeline's status, dd's alone.
PipeWrittenByDd ==
  /\ step = "zstd" /\ zstd # "run"
  /\ dd = "ok"
  /\ exit' = "ok" /\ fsid' = "image"
  /\ step' = "tune"
  /\ UNCHANGED <<kind, target, flushed, cache, tries, want, mounted, ends, poll, pipeline>>

PipeWritten ==
  /\ step = "zstd" /\ zstd # "run"
  /\ dd = "ok" /\ zstd = "ok"
  /\ exit' = "ok" /\ fsid' = "image"
  /\ step' = "tune"
  /\ UNCHANGED <<kind, target, flushed, cache, tries, want, mounted, ends, poll, pipeline>>

-----------------------------------------------------------------------------
(* btrfstune -m, then _wait_for_blkid_uuid.                                *)
TuneFsid ==
  /\ step = "tune"
  /\ fsid' = "fresh"
  /\ step' = "want"
  /\ UNCHANGED <<kind, target, flushed, exit, cache, tries, want, mounted, ends, poll, pipeline>>

TuneFails ==
  /\ step = "tune"
  /\ Raise
  /\ UNCHANGED <<device, cache, tries, want, mounted, ends, poll, pipeline>>

\* dump-super may answer nothing: then no UUID will do.
ReadSuper ==
  /\ step = "want"
  /\ want' \in {fsid, "none"}
  /\ step' = "probe" /\ tries' = 0
  /\ UNCHANGED <<device, cache, mounted, ends, poll, pipeline>>

\* udev probes the device, when triggered or because it was written, in its
\* own time.
UdevProbes ==
  /\ cache # fsid
  /\ cache' = fsid
  /\ UNCHANGED <<device, step, tries, want, mounted, ends, poll, pipeline>>

Visible == want # "none" /\ fsid = want /\ cache = want

\* Mutant: what blkid -p reads off the device is enough.
UuidVisibleOnDevice ==
  /\ step = "probe" /\ want # "none" /\ fsid = want
  /\ step' = "reshape" /\ tries' = 0
  /\ UNCHANGED <<device, cache, want, mounted, ends, poll, pipeline>>

UuidVisible ==
  /\ step = "probe" /\ Visible
  /\ step' = "reshape" /\ tries' = 0
  /\ UNCHANGED <<device, cache, want, mounted, ends, poll, pipeline>>

UuidOld ==
  /\ step = "probe" /\ ~Visible
  /\ tries' = tries + 1
  /\ IF tries' = BlkidTries THEN Raise ELSE UNCHANGED step
  /\ UNCHANGED <<device, cache, want, mounted, ends, poll, pipeline>>

\* The subvolumes of the layout (RootLayout), then every mount again, parents
\* first.  Each command may fail.
Reshape ==
  /\ step = "reshape"
  /\ step' = "remount"
  /\ UNCHANGED <<device, cache, tries, want, mounted, ends, poll, pipeline>>

Remount ==
  /\ step = "remount" /\ mounted # Mounts
  /\ mounted' = IF "root" \notin mounted THEN {"root"}
                ELSE IF "home" \notin mounted THEN mounted \cup {"home"} ELSE Mounts
  /\ UNCHANGED <<device, cache, step, tries, want, ends, poll, pipeline>>

Placed ==
  /\ step = "remount" /\ mounted = Mounts
  /\ step' = "placed"
  /\ UNCHANGED <<device, cache, tries, want, mounted, ends, poll, pipeline>>

CommandFails ==
  /\ step \in {"reshape", "remount"}
  /\ Raise
  /\ UNCHANGED <<device, cache, tries, want, mounted, ends, poll, pipeline>>

-----------------------------------------------------------------------------
WriteStep ==
  \/ ToolWrites \/ ToolSucceeds \/ ToolFails \/ ToolRefuses
  \/ OpenPipe \/ ClosePipe \/ WaitForDd \/ PipeFailed \/ PipeWritten

ReshapeStep ==
  \/ TuneFsid \/ TuneFails \/ ReadSuper \/ UuidVisible \/ UuidOld
  \/ Reshape \/ Remount \/ Placed \/ CommandFails

ZstdStep == ZstdSends \/ ZstdDies \/ ZstdEnds \/ ZstdBroken
DdStep   == DdWrites \/ DdEnds \/ DdFails

\* A process that has ended does nothing more.
Over ==
  /\ step \in {"placed", "raised"} /\ poll = "idle"
  /\ UNCHANGED vars

Next ==
  \/ UmountTree \/ UmountBusy \/ WriteStep \/ ReshapeStep
  \/ ZstdStep \/ DdStep \/ PollStarts \/ PollEnds \/ UdevProbes \/ Over

\* The kernel runs every runnable process; the tool writes a frame once, so it
\* ends (ImageWrite!AlwaysExits) rather than writing for ever.
Fairness ==
  /\ WF_vars(UmountTree \/ UmountBusy)
  /\ WF_vars(ToolSucceeds \/ ToolFails)
  /\ WF_vars(WriteStep /\ step # "tool")
  /\ WF_vars(ReshapeStep)
  /\ WF_vars(ZstdStep) /\ WF_vars(DdStep)

Spec     == Init /\ [][Next]_vars
FairSpec == Spec /\ Fairness

-----------------------------------------------------------------------------
TypeOK ==
  /\ kind \in [Frames -> Tool!Kinds]
  /\ target \in [Frames -> {"old", "part", "image"}]
  /\ flushed \subseteq Frames
  /\ exit \in {"none", "ok", "failed"}
  /\ fsid \in {"old", "image", "fresh"} /\ cache \in {"old", "image", "fresh"}
  /\ step \in {"umount", "tool", "pipe", "close", "dd", "zstd", "tune", "want",
              "probe", "reshape", "remount", "placed", "raised"}
  /\ tries \in 0..(UmountTries + BlkidTries)
  /\ want \in {"none", "fresh"}
  /\ mounted \subseteq Mounts /\ ends \subseteq {"read", "write"}
  /\ poll \in {"idle", "reading"}
  /\ zstd \in {"none", "run", "ok", "failed"} /\ dd \in {"none", "run", "ok", "failed"}
  /\ sent \in 0..NFrames
  /\ pipe \in Seq(Frames) /\ Len(pipe) <= PipeSize

\* The device is never written under a mounted filesystem, however the
\* dashboard's reads of the target fall between the unmount attempts.
WrittenOnlyUnmounted ==
  [][target' # target \/ fsid' # fsid => mounted = {} /\ poll = "idle"]_vars

\* Tool or pipe, the orchestrator goes on only with the whole image durable on
\* the device: no order in which zstd and dd end or fail makes a short image
\* pass for a written one.
ImplementsCopy == Copy!Spec

\* Whatever reads the target's UUID once it is mounted again (genfstab, the
\* boot entries) reads the one in the superblock, in the cache too.
UuidFreshWhenMounted == mounted # {} /\ exit = "ok" => fsid = "fresh" /\ cache = fsid

\* Neither zstd nor dd waits for ever on a pipe end somebody still holds, and
\* both retry loops end: the image is placed or the install fails.
PlacingEnds == <>(step \in {"placed", "raised"})
=============================================================================
