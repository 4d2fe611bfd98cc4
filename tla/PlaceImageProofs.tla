-------------------------- MODULE PlaceImageProofs --------------------------
(***************************************************************************)
(* For every number of frames, every pipe and every bound on the retries:  *)
(* the types of PlaceImage, that the device is only written unmounted,     *)
(* that no stale UUID is read, and that tool and pipe together implement   *)
(* ImageCopy.                                                              *)
(***************************************************************************)
EXTENDS PlaceImage, TLAPS

Before  == {"umount", "tool", "pipe"}        \* neither zstd nor dd runs yet
Piping  == {"close", "dd", "zstd"}
Written == {"tune", "want", "probe", "reshape", "remount", "placed"}

(***************************************************************************)
(* The inductive invariant.                                                *)
(***************************************************************************)
RetriesBounded ==
  /\ step = "umount" => tries < UmountTries
  /\ step = "probe" => tries < BlkidTries

\* What runs when.  A raise in the pipe comes after both processes ended.
Running ==
  /\ dd = "run" => step \in {"close", "dd"}
  /\ zstd = "run" => step \in Piping
  /\ step = "zstd" => dd # "run"
  /\ step \in {"close", "dd"} => dd # "none"
  /\ step \in Before => pipe = << >> /\ sent = 0 /\ zstd = "none" /\ dd = "none"

UnmountedWhileWriting ==
  step \in {"tool", "pipe", "tune", "want", "probe"} \cup Piping => mounted = {} /\ poll = "idle"

\* The caller's view of the writing, and the UUID after it.
Exits ==
  /\ step \in Before \cup Piping => exit = "none"
  /\ step \in Written => exit = "ok"
  /\ step = "probe" => want \in {"none", "fresh"} /\ fsid = "fresh"
  /\ step = "want" => fsid = "fresh"
  /\ step \in {"reshape", "remount", "placed"} => fsid = "fresh" /\ cache = "fresh"
  /\ UuidFreshWhenMounted

\* A frame zstd has sent decodes, and is on the device or in the pipe, unless
\* dd has failed.
InPipe(k) == \E i \in 1..Len(pipe) : pipe[i] = k
Sent(k)   == Tool!IsZero(k) \/ target[k] = "image" \/ InPipe(k)

PipeCarries ==
  /\ \A k \in 1..sent : kind[k] # "bad"
  /\ step \in Piping /\ dd # "failed" => \A k \in 1..sent : Sent(k)
  /\ zstd = "ok" => sent = NFrames
  /\ dd = "ok" => pipe = << >> /\ zstd # "run" /\ flushed = Tool!OnTarget

IInv ==
  /\ TypeOK
  /\ RetriesBounded
  /\ Running
  /\ UnmountedWhileWriting
  /\ Exits
  /\ PipeCarries

-----------------------------------------------------------------------------
(***************************************************************************)
(* The steps preserve the invariant.                                       *)
(***************************************************************************)
LEMMA InitInv == Init => IInv
<1> SUFFICES ASSUME Init PROVE IInv
  OBVIOUS
<1> USE BoundsAssumption DEF Init, Tool!Init
<1>1. TypeOK
  BY DEF TypeOK, Frames, Mounts
<1>2. RetriesBounded /\ Running
  BY DEF RetriesBounded, Running, Before, Piping
<1>3. UnmountedWhileWriting /\ Exits
  BY DEF UnmountedWhileWriting, Exits, UuidFreshWhenMounted, Before, Piping, Written
<1>4. PipeCarries
  BY DEF PipeCarries, Piping
<1>5. QED
  BY <1>1, <1>2, <1>3, <1>4 DEF IInv

\* Every step is well-typed.
LEMMA TypeStep == TypeOK /\ RetriesBounded /\ Exits /\ Next => TypeOK'
<1> SUFFICES ASSUME TypeOK, RetriesBounded, Exits, Next PROVE TypeOK'
  OBVIOUS
<1> USE BoundsAssumption DEF device, pipeline, Raise
<1>1. CASE UmountTree
  BY <1>1 DEF UmountTree, TypeOK
<1>2. CASE UmountBusy
  <2>1. tries' \in 0..(UmountTries + BlkidTries)
    BY <1>2 DEF UmountBusy, TypeOK, RetriesBounded
  <2>2. step' \in {step, "raised"} /\ mounted' \subseteq Mounts
    BY <1>2 DEF UmountBusy, TypeOK, Mounts
  <2>3. QED
    BY <1>2, <2>1, <2>2 DEF UmountBusy, TypeOK
<1>3. CASE ToolWrites
  BY <1>3 DEF ToolWrites, TypeOK, Tool!Put
<1>4. CASE ToolSucceeds
  BY <1>4 DEF ToolSucceeds, TypeOK, Tool!Succeed, Tool!OnTarget
<1>5. CASE ToolFails
  BY <1>5 DEF ToolFails, TypeOK, Tool!Fail
<1>6. CASE ToolRefuses
  BY <1>6 DEF ToolRefuses, TypeOK
<1>7. CASE OpenPipe
  BY <1>7 DEF OpenPipe, TypeOK
<1>8. CASE ClosePipe
  BY <1>8 DEF ClosePipe, TypeOK
<1>9. CASE WaitForDd
  BY <1>9 DEF WaitForDd, TypeOK
<1>10. CASE PipeFailed
  BY <1>10 DEF PipeFailed, TypeOK
<1>11. CASE PipeWritten
  BY <1>11 DEF PipeWritten, TypeOK
<1>12. CASE TuneFsid
  BY <1>12 DEF TuneFsid, TypeOK
<1>13. CASE TuneFails
  BY <1>13 DEF TuneFails, TypeOK
<1>14. CASE ReadSuper
  BY <1>14 DEF ReadSuper, TypeOK, Exits
<1>15. CASE UuidVisible
  BY <1>15 DEF UuidVisible, TypeOK
<1>16. CASE UuidOld
  <2>1. tries' \in 0..(UmountTries + BlkidTries)
    BY <1>16 DEF UuidOld, TypeOK, RetriesBounded
  <2>2. step' \in {step, "raised"} /\ mounted' \subseteq Mounts
    BY <1>16 DEF UuidOld, TypeOK, Mounts
  <2>3. QED
    BY <1>16, <2>1, <2>2 DEF UuidOld, TypeOK
<1>17. CASE Reshape
  BY <1>17 DEF Reshape, TypeOK
<1>18. CASE Remount
  BY <1>18 DEF Remount, TypeOK, Mounts
<1>19. CASE Placed
  BY <1>19 DEF Placed, TypeOK
<1>20. CASE CommandFails
  BY <1>20 DEF CommandFails, TypeOK
<1>21. CASE PollStarts
  BY <1>21 DEF PollStarts, TypeOK
<1>22. CASE PollEnds
  BY <1>22 DEF PollEnds, TypeOK
<1>23. CASE UdevProbes
  BY <1>23 DEF UdevProbes, TypeOK
<1>24. CASE ZstdSends
  <2>1. sent + 1 \in Frames /\ sent + 1 \in 0..NFrames
    BY <1>24 DEF ZstdSends, TypeOK, Frames
  <2>2. pipe' \in Seq(Frames) /\ Len(pipe') <= PipeSize
    BY <1>24, <2>1 DEF ZstdSends, Send, TypeOK
  <2>3. QED
    BY <1>24, <2>1, <2>2 DEF ZstdSends, Send, TypeOK
<1>25. CASE ZstdDies
  <2>1. sent + 1 \in Frames
    BY <1>25 DEF ZstdDies, TypeOK, Frames
  <2>2. pipe' \in Seq(Frames) /\ Len(pipe') <= PipeSize
    BY <1>25, <2>1 DEF ZstdDies, Send, TypeOK
  <2>3. QED
    BY <1>25, <2>2 DEF ZstdDies, TypeOK
<1>26. CASE ZstdEnds
  BY <1>26 DEF ZstdEnds, TypeOK, Tool!OnTarget
<1>27. CASE ZstdBroken
  BY <1>27 DEF ZstdBroken, TypeOK, Tool!OnTarget
<1>28. CASE DdWrites
  <2>1. pipe' \in Seq(Frames) /\ Len(pipe') <= PipeSize
    BY <1>28 DEF DdWrites, TypeOK
  <2>2. target' \in [Frames -> {"old", "part", "image"}]
    BY <1>28 DEF DdWrites, Lands, TypeOK
  <2>3. QED
    BY <1>28, <2>1, <2>2 DEF DdWrites, TypeOK
<1>29. CASE DdEnds
  BY <1>29 DEF DdEnds, TypeOK, Tool!OnTarget
<1>30. CASE DdFails
  BY <1>30 DEF DdFails, TypeOK, Tool!OnTarget
<1>31. CASE UNCHANGED vars
  BY <1>31 DEF vars, TypeOK
<1>32. QED
  BY <1>1, <1>2, <1>3, <1>4, <1>5, <1>6, <1>7, <1>8, <1>9, <1>10, <1>11, <1>12, 
     <1>13, <1>14, <1>15, <1>16, <1>17, <1>18, <1>19, <1>20, <1>21, <1>22, <1>23, <1>24, 
     <1>25, <1>26, <1>27, <1>28, <1>29, <1>30, <1>31
     DEF Next, Over, WriteStep, ReshapeStep, ZstdStep, DdStep

LEMMA UmountInv ==
  ASSUME IInv, UmountTree \/ UmountBusy
  PROVE  IInv'
<1> USE BoundsAssumption DEF IInv, device, pipeline, Raise
<1>1. TypeOK'
  BY TypeStep DEF Next, WriteStep, IInv
<1>2. RetriesBounded'
  BY DEF UmountTree, UmountBusy, TypeOK, RetriesBounded
<1>3. Running'
  BY DEF UmountTree, UmountBusy, Running, Before, Piping
<1>4. UnmountedWhileWriting'
  BY DEF UmountTree, UmountBusy, UnmountedWhileWriting, Piping
<1>5. Exits'
  BY DEF UmountTree, UmountBusy, Exits, UuidFreshWhenMounted, Before, Piping, Written
<1>6. PipeCarries'
  BY DEF UmountTree, UmountBusy, Running, Before, PipeCarries, Piping, Tool!OnTarget
<1>7. QED
  BY <1>1, <1>2, <1>3, <1>4, <1>5, <1>6

LEMMA PollInv ==
  ASSUME IInv, PollStarts \/ PollEnds \/ UdevProbes
  PROVE  IInv'
<1> USE DEF IInv, device, pipeline
<1>1. TypeOK'
  BY TypeStep DEF Next, WriteStep, IInv
<1>2. RetriesBounded' /\ Running'
  BY DEF PollStarts, PollEnds, UdevProbes, RetriesBounded, Running
<1>3. UnmountedWhileWriting'
  BY DEF PollStarts, PollEnds, UdevProbes, UnmountedWhileWriting
<1>4. Exits'
  BY DEF PollStarts, PollEnds, UdevProbes, Exits, UuidFreshWhenMounted
<1>5. PipeCarries'
  BY DEF PollStarts, PollEnds, UdevProbes, PipeCarries, Sent, InPipe, Tool!IsZero, Tool!OnTarget
<1>6. QED
  BY <1>1, <1>2, <1>3, <1>4, <1>5

LEMMA ToolInv ==
  ASSUME IInv, ToolWrites \/ ToolSucceeds \/ ToolFails \/ ToolRefuses
  PROVE  IInv'
<1> USE DEF IInv, pipeline, Tool!Put, Tool!Succeed, Tool!Fail, Raise
<1>1. TypeOK'
  BY TypeStep DEF Next, WriteStep, IInv
<1>2. RetriesBounded' /\ Running'
  BY DEF ToolWrites, ToolSucceeds, ToolFails, ToolRefuses, RetriesBounded, Running, Before, Piping
<1>3. UnmountedWhileWriting'
  BY DEF ToolWrites, ToolSucceeds, ToolFails, ToolRefuses, UnmountedWhileWriting, Piping
<1>4. Exits'
  BY DEF ToolWrites, ToolSucceeds, ToolFails, ToolRefuses, device, Exits, UuidFreshWhenMounted,
         UnmountedWhileWriting, Before, Piping, Written
<1>5. PipeCarries'
  BY DEF ToolWrites, ToolSucceeds, ToolFails, ToolRefuses, device, PipeCarries, Running, Before, Piping
<1>6. QED
  BY <1>1, <1>2, <1>3, <1>4, <1>5

LEMMA PipeInv ==
  ASSUME IInv, OpenPipe \/ ClosePipe \/ WaitForDd \/ PipeFailed \/ PipeWritten
  PROVE  IInv'
<1> USE DEF IInv, pipeline, Raise
<1>1. TypeOK'
  BY TypeStep DEF Next, WriteStep, IInv
<1>2. RetriesBounded' /\ Running'
  BY DEF OpenPipe, ClosePipe, WaitForDd, PipeFailed, PipeWritten, RetriesBounded, Running, Before, Piping
<1>3. UnmountedWhileWriting'
  BY DEF OpenPipe, ClosePipe, WaitForDd, PipeFailed, PipeWritten, UnmountedWhileWriting, Piping
<1>4. Exits'
  BY DEF OpenPipe, ClosePipe, WaitForDd, PipeFailed, PipeWritten, device, Exits, UuidFreshWhenMounted,
         UnmountedWhileWriting, Before, Piping, Written
<1>5. PipeCarries'
  <2>1. CASE OpenPipe
    BY <2>1 DEF OpenPipe, device, PipeCarries, Running, Before, Piping
  <2>2. CASE ClosePipe \/ WaitForDd
    BY <2>2 DEF ClosePipe, WaitForDd, device, PipeCarries, Piping, Sent, InPipe, Tool!IsZero, Tool!OnTarget
  <2>3. CASE PipeFailed \/ PipeWritten
    BY <2>3 DEF PipeFailed, PipeWritten, PipeCarries, Piping, Tool!OnTarget
  <2>4. QED
    BY <2>1, <2>2, <2>3
<1>6. QED
  BY <1>1, <1>2, <1>3, <1>4, <1>5

LEMMA ReshapeInv ==
  ASSUME IInv, ReshapeStep
  PROVE  IInv'
<1> USE BoundsAssumption DEF IInv, pipeline, Raise, ReshapeStep
<1> USE DEF TuneFsid, TuneFails, ReadSuper, UuidVisible, UuidOld, Reshape, Remount, Placed, CommandFails
<1>1. TypeOK'
  BY TypeStep DEF Next, WriteStep, IInv
<1>2. RetriesBounded'
  BY DEF RetriesBounded, TypeOK
<1>3. Running'
  BY DEF Running, Before, Piping, device
<1>4. UnmountedWhileWriting'
  BY DEF UnmountedWhileWriting, Piping
<1>5. Exits'
  BY DEF device, Exits, UuidFreshWhenMounted, UnmountedWhileWriting, Visible, Before, Piping, Written
<1>6. PipeCarries'
  BY DEF device, PipeCarries, Piping, Tool!OnTarget
<1>7. QED
  BY <1>1, <1>2, <1>3, <1>4, <1>5, <1>6

\* A frame sent is in the pipe, and every frame there stays there.
LEMMA ZstdInv ==
  ASSUME IInv, ZstdStep
  PROVE  IInv'
<1> USE BoundsAssumption DEF IInv, device, Send
<1>1. step \in Piping /\ zstd = "run"
  BY DEF ZstdStep, ZstdSends, ZstdDies, ZstdEnds, ZstdBroken, Running, Piping
<1>2. TypeOK'
  BY TypeStep DEF Next, WriteStep, IInv
<1>3. RetriesBounded' /\ Running'
  BY <1>1 DEF ZstdStep, ZstdSends, ZstdDies, ZstdEnds, ZstdBroken, RetriesBounded, Running, Before, Piping
<1>4. UnmountedWhileWriting' /\ Exits'
  BY DEF ZstdStep, ZstdSends, ZstdDies, ZstdEnds, ZstdBroken, UnmountedWhileWriting, Exits, UuidFreshWhenMounted
<1>5. PipeCarries'
  <2>0. pipe' = pipe \/ (sent + 1 \in Frames /\ pipe' = Append(pipe, sent + 1))
    BY DEF ZstdStep, ZstdSends, ZstdDies, ZstdEnds, ZstdBroken, TypeOK, Frames
  <2>1. ASSUME NEW k \in 1..sent, Sent(k)
        PROVE  Sent(k)'
    <3>1. CASE InPipe(k)
      <4>1. PICK i \in 1..Len(pipe) : pipe[i] = k
        BY <3>1 DEF InPipe
      <4>2. i \in 1..Len(pipe') /\ pipe'[i] = k
        BY <2>0, <4>1 DEF TypeOK
      <4>3. QED
        BY <4>2 DEF Sent, InPipe
    <3>2. QED
      BY <2>1, <3>1 DEF ZstdStep, ZstdSends, ZstdDies, ZstdEnds, ZstdBroken, Sent, Tool!IsZero
  <2>2. CASE ZstdSends
    <3>1. ASSUME NEW k \in Frames, k = sent + 1
          PROVE  Sent(k)'
      <4>1. Len(pipe') \in 1..Len(pipe') /\ pipe'[Len(pipe')] = k
        BY <2>2, <3>1 DEF ZstdSends, TypeOK, Frames
      <4>2. QED
        BY <4>1 DEF Sent, InPipe
    <3>2. \A k \in 1..sent' : k \in 1..sent \/ k = sent + 1
      BY <2>2 DEF ZstdSends, TypeOK
    <3>3. \A k \in 1..sent' : kind'[k] # "bad"
      BY <2>2, <3>2 DEF ZstdSends, PipeCarries
    <3>4. dd # "failed" => \A k \in 1..sent' : Sent(k)'
      <4>1. \A k \in 1..sent' : k \in Frames
        BY <2>2 DEF ZstdSends, TypeOK, Frames
      <4>2. QED
        BY <1>1, <2>1, <3>1, <3>2, <4>1 DEF PipeCarries
    <3>5. QED
      BY <1>1, <2>2, <3>3, <3>4 DEF ZstdSends, PipeCarries
  <2>3. CASE ZstdDies \/ ZstdEnds \/ ZstdBroken
    <3>1. dd # "failed" => \A k \in 1..sent' : Sent(k)'
      BY <1>1, <2>1, <2>3 DEF ZstdDies, ZstdEnds, ZstdBroken, PipeCarries
    <3>2. QED
      BY <1>1, <2>3, <3>1 DEF ZstdDies, ZstdEnds, ZstdBroken, PipeCarries
  <2>4. QED
    BY <2>2, <2>3 DEF ZstdStep
<1>6. QED
  BY <1>2, <1>3, <1>4, <1>5

\* What dd takes from the pipe lands on the device, or needs no writing.
LEMMA DdInv ==
  ASSUME IInv, DdStep
  PROVE  IInv'
<1> USE BoundsAssumption DEF IInv
<1>1. step \in {"close", "dd"} /\ dd = "run" /\ exit = "none"
  BY DEF DdStep, DdWrites, DdEnds, DdFails, Running, Exits, Piping
<1>2. TypeOK'
  BY TypeStep DEF Next
<1>3. RetriesBounded' /\ Running'
  BY <1>1 DEF DdStep, DdWrites, DdEnds, DdFails, device, RetriesBounded, Running, Before, Piping
<1>4. UnmountedWhileWriting' /\ Exits'
  BY DEF DdStep, DdWrites, DdEnds, DdFails, device, UnmountedWhileWriting, Exits, UuidFreshWhenMounted
<1>5. PipeCarries'
  <2>1. CASE DdWrites
    <3>1. ASSUME NEW k \in 1..sent, kind[k] # "bad", Sent(k)
          PROVE  Sent(k)'
      <4>1. k \in Frames /\ Head(pipe) \in Frames
        BY <2>1 DEF DdWrites, TypeOK, Frames
      <4>2. CASE InPipe(k)
        <5>1. PICK i \in 1..Len(pipe) : pipe[i] = k
          BY <4>2 DEF InPipe
        <5>2. CASE i = 1
          <6>1. target' = Lands(k)
            BY <2>1, <5>1, <5>2 DEF DdWrites, TypeOK
          <6>2. QED
            BY <2>1, <3>1, <4>1, <6>1 DEF DdWrites, Lands, Sent, TypeOK, Tool!IsZero
        <5>3. CASE i # 1
          <6>1. i - 1 \in 1..Len(pipe') /\ pipe'[i - 1] = k
            BY <2>1, <5>1, <5>3 DEF DdWrites, TypeOK
          <6>2. QED
            BY <6>1 DEF Sent, InPipe
        <5>4. QED
          BY <5>2, <5>3
      <4>3. CASE target[k] = "image"
        <5>1. target'[k] = "image"
          BY <2>1, <3>1, <4>1, <4>3 DEF DdWrites, Lands, TypeOK
        <5>2. QED
          BY <5>1 DEF Sent
      <4>4. QED
        BY <2>1, <3>1, <4>2, <4>3 DEF DdWrites, Sent, Tool!IsZero
    <3>2. \A k \in 1..sent : kind[k] # "bad" /\ Sent(k)
      BY <1>1 DEF PipeCarries, Piping
    <3>3. \A k \in 1..sent' : kind'[k] # "bad" /\ Sent(k)'
      BY <2>1, <3>1, <3>2 DEF DdWrites
    <3>4. QED
      BY <1>1, <2>1, <3>3 DEF DdWrites, PipeCarries
  <2>2. CASE DdEnds
    <3>1. ASSUME NEW k, Sent(k)
          PROVE  Sent(k)'
      BY <2>2, <3>1 DEF DdEnds, Sent, InPipe, Tool!IsZero
    <3>2. QED
      BY <1>1, <2>2, <3>1 DEF DdEnds, Writers, PipeCarries, Piping, Tool!OnTarget
  <2>3. CASE DdFails
    BY <2>3 DEF DdFails, device, PipeCarries
  <2>4. QED
    BY <2>1, <2>2, <2>3 DEF DdStep
<1>6. QED
  BY <1>2, <1>3, <1>4, <1>5

\* IInv is inductive.
THEOREM InvCorrect == Spec => []IInv
<1>1. IInv /\ [Next]_vars => IInv'
  <2> SUFFICES ASSUME IInv, [Next]_vars PROVE IInv'
    OBVIOUS
  <2>1. CASE UNCHANGED vars
    <3>1. TypeOK'
      BY <2>1 DEF IInv, vars, device, pipeline, TypeOK
    <3>2. QED
      BY <2>1, <3>1 DEF IInv, vars, device, pipeline, RetriesBounded, Running, UnmountedWhileWriting,
                        Exits, UuidFreshWhenMounted, PipeCarries, Sent, InPipe, Tool!IsZero, Tool!OnTarget
  <2>2. QED
    BY <2>1, UmountInv, PollInv, ToolInv, PipeInv, ReshapeInv, ZstdInv, DdInv DEF Next, WriteStep, Over
<1>2. QED
  BY InitInv, <1>1, PTL DEF Spec

-----------------------------------------------------------------------------
\* The state stays well-typed: no retry loop outlives its bound, and the pipe
\* never holds more than it has room for.
THEOREM TypeCorrect == Spec => []TypeOK
<1>1. IInv => TypeOK
  BY DEF IInv
<1>2. QED
  BY <1>1, InvCorrect, PTL

\* Whatever the dashboard and udev do in between, what is mounted after the
\* write has the superblock's fresh UUID in blkid's cache.
THEOREM UuidIsFresh == Spec => []UuidFreshWhenMounted
<1>1. IInv => UuidFreshWhenMounted
  BY DEF IInv, Exits
<1>2. QED
  BY <1>1, InvCorrect, PTL

\* The device is written only while nothing is mounted from it and the
\* dashboard is not looking.
THEOREM WritesUnmounted == Spec => WrittenOnlyUnmounted
<1>1. IInv /\ [Next]_vars => [target' # target \/ fsid' # fsid => mounted = {} /\ poll = "idle"]_vars
  <2> SUFFICES ASSUME IInv, Next, target' # target \/ fsid' # fsid
               PROVE  mounted = {} /\ poll = "idle"
    BY DEF vars, device
  <2>1. step \in {"tool", "tune", "close", "dd", "zstd"}
    <3>1. CASE DdStep
      BY <3>1 DEF DdStep, DdWrites, DdEnds, DdFails, IInv, Running
    <3>2. CASE WriteStep \/ ReshapeStep
      BY <3>2 DEF WriteStep, ToolWrites, ToolSucceeds, ToolFails, ToolRefuses, OpenPipe, ClosePipe,
                  WaitForDd, PipeFailed, PipeWritten, ReshapeStep, TuneFsid, TuneFails, ReadSuper,
                  UuidVisible, UuidOld, Reshape, Remount, Placed, CommandFails, device
    <3>3. CASE UmountTree \/ UmountBusy \/ ZstdStep \/ PollStarts \/ PollEnds \/ UdevProbes \/ Over
      BY <3>3 DEF UmountTree, UmountBusy, ZstdStep, ZstdSends, ZstdDies, ZstdEnds, ZstdBroken,
                  PollStarts, PollEnds, UdevProbes, Over, vars, device
    <3>4. QED
      BY <3>1, <3>2, <3>3 DEF Next
  <2>2. QED
    BY <2>1 DEF IInv, UnmountedWhileWriting, Piping
<1>2. QED
  BY <1>1, InvCorrect, PTL DEF Spec, WrittenOnlyUnmounted

-----------------------------------------------------------------------------
(***************************************************************************)
(* The refinement.                                                         *)
(***************************************************************************)
\* zstd and dd both well means the whole image.
LEMMA PipeComplete ==
  ASSUME IInv, PipeWritten
  PROVE  Copy!Complete /\ flushed = Tool!OnTarget
<1>1. pipe = << >> /\ sent = NFrames /\ flushed = Tool!OnTarget
  BY DEF PipeWritten, IInv, PipeCarries
<1>2. \A k \in 1..NFrames : Sent(k)
  BY <1>1 DEF PipeWritten, IInv, PipeCarries, Piping
<1>3. \A k \in Frames : ~InPipe(k)
  BY <1>1 DEF InPipe
<1>4. QED
  BY <1>1, <1>2, <1>3 DEF Sent, Copy!Complete, Copy!IsZero, Tool!IsZero, Frames

LEMMA StepIsCopyStep ==
  ASSUME IInv, Next
  PROVE  Copy!Next \/ UNCHANGED Copy!copyVars
<1> USE DEF Copy!copyVars
<1>1. CASE WriteStep
  <2>1. CASE ToolWrites
    <3>1. PICK k \in Frames : Tool!Put(k)
      BY <2>1 DEF ToolWrites
    <3>2. Copy!Put(k)
      BY <3>1 DEF Tool!Put, Copy!Put
    <3>3. QED
      BY <3>2 DEF Copy!Next
  <2>2. CASE ToolSucceeds
    <3>1. Copy!Succeed
      BY <2>2 DEF ToolSucceeds, Tool!Succeed, Copy!Succeed, Tool!Complete, Copy!Complete,
                  Tool!OnTarget, Copy!OnTarget, Tool!IsZero, Copy!IsZero
    <3>2. QED
      BY <3>1 DEF Copy!Next
  <2>3. CASE ToolFails
    <3>1. Copy!Fail
      BY <2>3 DEF ToolFails, Tool!Fail, Copy!Fail
    <3>2. QED
      BY <3>1 DEF Copy!Next
  <2>4. CASE PipeFailed
    <3>1. Copy!Fail
      BY <2>4 DEF PipeFailed, Copy!Fail, IInv, Exits, Piping
    <3>2. QED
      BY <3>1 DEF Copy!Next
  <2>5. CASE PipeWritten
    <3>1. exit = "none"
      BY <2>5 DEF PipeWritten, IInv, Exits, Piping
    <3>2. Copy!Succeed
      BY <2>5, <3>1, PipeComplete DEF PipeWritten, Copy!Succeed, Tool!OnTarget, Copy!OnTarget
    <3>3. QED
      BY <3>2 DEF Copy!Next
  <2>6. CASE ToolRefuses \/ OpenPipe \/ ClosePipe \/ WaitForDd
    BY <2>6 DEF ToolRefuses, OpenPipe, ClosePipe, WaitForDd, device
  <2>7. QED
    BY <1>1, <2>1, <2>2, <2>3, <2>4, <2>5, <2>6 DEF WriteStep
<1>2. CASE DdStep
  <2>1. exit = "none"
    BY <1>2 DEF DdStep, DdWrites, DdEnds, DdFails, IInv, Running, Exits, Piping
  <2>2. CASE DdWrites
    <3>1. Head(pipe) \in Frames
      BY <2>2 DEF DdWrites, IInv, TypeOK
    <3>2. CASE Tool!IsZero(Head(pipe))
      BY <2>2, <3>2 DEF DdWrites, Lands
    <3>3. CASE ~Tool!IsZero(Head(pipe))
      <4>1. Copy!Put(Head(pipe))
        BY <2>1, <2>2, <3>1, <3>3 DEF DdWrites, Lands, Copy!Put, Tool!IsZero, Tool!Kinds, IInv, TypeOK
      <4>2. QED
        BY <3>1, <4>1 DEF Copy!Next
    <3>4. QED
      BY <3>2, <3>3
  <2>3. CASE DdEnds \/ DdFails
    BY <2>1, <2>3 DEF DdEnds, DdFails, device
  <2>4. QED
    BY <1>2, <2>2, <2>3 DEF DdStep
<1>3. CASE UmountTree \/ UmountBusy \/ PollStarts \/ PollEnds \/ UdevProbes \/ Over
  BY <1>3 DEF UmountTree, UmountBusy, PollStarts, PollEnds, UdevProbes, Over, vars, device
<1>4. CASE ZstdStep
  BY <1>4 DEF ZstdStep, ZstdSends, ZstdDies, ZstdEnds, ZstdBroken, device
<1>5. CASE ReshapeStep
  BY <1>5 DEF ReshapeStep, TuneFsid, TuneFails, ReadSuper, UuidVisible, UuidOld, Reshape, Remount,
              Placed, CommandFails, device
<1>6. QED
  BY <1>1, <1>2, <1>3, <1>4, <1>5 DEF Next

\* Whoever wrote the image, the tool or zstd and dd over a pipe, the install
\* goes on from what one copy of the image promises.
THEOREM PlacingImplementsCopy == Spec => ImplementsCopy
<1>1. Init => Copy!Init
  BY DEF Init, Tool!Init, Copy!Init, Tool!Kinds, Copy!Kinds
<1>2. IInv /\ [Next]_vars => [Copy!Next]_(Copy!copyVars)
  <2> SUFFICES ASSUME IInv, [Next]_vars
               PROVE  Copy!Next \/ UNCHANGED Copy!copyVars
    OBVIOUS
  <2>1. CASE UNCHANGED vars
    BY <2>1 DEF vars, device, Copy!copyVars
  <2>2. QED
    BY <2>1, StepIsCopyStep
<1>3. QED
  BY <1>1, <1>2, InvCorrect, PTL DEF Spec, Copy!Spec, ImplementsCopy
=============================================================================
