------------------------------ MODULE ImageCopy ------------------------------
(***************************************************************************)
(* What putting the root image on a device promises, whoever does it and   *)
(* however many threads it takes: builder/omarchy-image-write.c's header   *)
(* (exit 0 written and synced, 2 nothing written, 1 failed) is this        *)
(* specification in prose.                                                 *)
(*                                                                         *)
(* The image is a set of frames.  A frame that decodes to zeros is never   *)
(* written: a freshly formatted btrfs references none of those blocks.     *)
(***************************************************************************)
CONSTANT Frames    \* the frames of the image

(***************************************************************************)
(* What a frame holds: data, zeros, or bytes that do not decode to what    *)
(* the seek table says.                                                    *)
(***************************************************************************)
Kinds == {"data", "zero", "bad"}

VARIABLES
  kind,      \* what each frame of the image holds
  target,    \* each frame's place on the device: "old", "part" or "image"
  flushed,   \* the frames of the image the device holds durably
  exit       \* "none" while the copy runs, then "ok", "failed" or "refused"

copyVars == <<kind, target, flushed, exit>>

IsZero(k) == kind[k] = "zero"
OnTarget  == {k \in Frames : target[k] = "image"}
Complete  == \A k \in Frames : IsZero(k) \/ target[k] = "image"

Init ==
  /\ kind \in [Frames -> Kinds]
  /\ target = [k \in Frames |-> "old"]
  /\ flushed = {}
  /\ exit = "none"

\* Some of a frame, or all of it, reaches its place on the device.  A frame
\* that does not decode is never there whole, but a decoder that streams may
\* have let go of its beginning.
Put(k) ==
  /\ exit = "none"
  /\ kind[k] # "zero"
  /\ \E v \in {"part"} \cup IF kind[k] = "data" THEN {"image"} ELSE {} :
       target' = [target EXCEPT ![k] = v]
  /\ UNCHANGED <<kind, flushed, exit>>

Succeed ==
  /\ exit = "none"
  /\ Complete
  /\ flushed' = OnTarget
  /\ exit' = "ok"
  /\ UNCHANGED <<kind, target>>

Fail ==
  /\ exit = "none"
  /\ exit' = "failed"
  /\ UNCHANGED <<kind, target, flushed>>

\* The caller may still write the image another way: nothing was written.
Refuse ==
  /\ exit = "none"
  /\ \A k \in Frames : target[k] = "old"
  /\ exit' = "refused"
  /\ UNCHANGED <<kind, target, flushed>>

Next == (\E k \in Frames : Put(k)) \/ Succeed \/ Fail \/ Refuse

Spec == Init /\ [][Next]_copyVars
=============================================================================
