-------------------------- MODULE FreeSpaceProofs --------------------------
(***************************************************************************)
(* For any number of runs, slots and partitions of other systems.          *)
(*                                                                         *)
(* The types hold whatever is changed from outside.  As long as the table  *)
(* is changed from outside at most once:                                   *)
(*   - the installer writes to no partition of another system and takes    *)
(*     none off the table (Inv).  A number create_partition records is the *)
(*     one partition there is more than before, so it is this run's, and a *)
(*     slot that loses it cannot be given to another system within the one *)
(*     change;                                                             *)
(*   - what is handed over is this run's, and what is let go of is let go  *)
(*     of (Strong).  A run makes each partition once and knows its slot;   *)
(*     what it opened and mounted is behind those slots, and its tree is   *)
(*     over every earlier one, so both cleanups find it on top.            *)
(***************************************************************************)
EXTENDS FreeSpace, FiniteSetTheorems, TLAPS

Contents == {"none", "theirs", "stale", "clean", "luks", "btrfs", "subvolumes", "fat"}

DiskType ==
  /\ table \in [Slots -> Parts \cup {None}]
  /\ data \in [Parts -> Contents]
  /\ removed \subseteq Foreign
  /\ outside \in 0..MaxOutside

ProcessType ==
  /\ run \in 1..Runs /\ making \in Kinds
  /\ before \subseteq Slots
  /\ created \in Seq(Slots)
  /\ num \in [Kinds -> {0} \cup Slots]

\* What is mounted or open is of this installer's making.
HeldOurs ==
  /\ mapper \notin Foreign
  /\ \A mt \in mounts : mt.dev \notin Foreign

\* A slot another system cannot get any more.
Kept(s) == table[s] \notin Foreign /\ (table[s] = None => outside = MaxOutside)

\* The numbers of a run that is at work.
RecordedOurs ==
  /\ step = "decide" => created = << >> /\ num = [k \in Kinds |-> 0]
  /\ step \in Working =>
       /\ \A k \in Kinds : num[k] # 0 => Kept(num[k])
       /\ \A i \in DOMAIN created : Kept(created[i])

\* The count before and after mkpart is right, or off by the change from outside.
Counted ==
  /\ step = "mkpart" =>
       \/ Numbers = before
       \/ outside = MaxOutside /\ Cardinality(Numbers) # Cardinality(before)
  /\ step = "check" =>
       \/ \E s \in Slots \ before : table[s] = Mine(making) /\ Numbers = before \cup {s}
       \/ outside = MaxOutside /\ Cardinality(Numbers) # Cardinality(before) + 1

Inv == DiskType /\ ProcessType /\ HeldOurs /\ RecordedOurs /\ Counted /\ ForeignUntouched

USE DEF disk, holders, process, vars

(***************************************************************************)
(* Facts about partitions and slots.                                       *)
(***************************************************************************)
LEMMA NoneIsNobodys == None \notin Foreign /\ None \notin Parts
  BY ParametersAssumption DEF None, Foreign, Parts, Kinds

LEMMA MineIsNotForeign ==
  ASSUME ProcessType, NEW k \in Kinds
  PROVE  Mine(k) \in Parts \ Foreign /\ Mine(k) # None
  BY ParametersAssumption DEF Mine, Foreign, Parts, None, ProcessType

LEMMA FiniteNumbers ==
  ASSUME NEW S \in SUBSET Slots
  PROVE  IsFiniteSet(S) /\ Cardinality(S) \in Nat
<1>1. IsFiniteSet(Slots)
  BY ParametersAssumption, FS_Interval DEF Slots
<1> QED
  BY <1>1, FS_Subset, FS_CardinalityType

\* A set of numbers has a least one, and a bounded one a greatest.
LEMMA LeastExists ==
  ASSUME NEW S \in SUBSET Nat, S # {}
  PROVE  \E n \in S : \A m \in S : n <= m
<1> DEFINE R == StrictSubsetOrdering(Nat)
           F == FiniteSubsetsOf(Nat)
           T == {0..n : n \in S}
<1>1. T \subseteq F /\ T # {}
  <2>1. \A n \in S : 0..n \in SUBSET Nat /\ IsFiniteSet(0..n)
    BY FS_Interval
  <2> QED
    BY <2>1 DEF FiniteSubsetsOf
<1>2. PICK x \in T : \A y \in T : ~(<<y, x>> \in R)
  <2> HIDE DEF R, F, T
  <2>1. IsWellFoundedOn(R, F)
    BY FS_StrictSubsetOrderingWellFounded DEF R, F
  <2> QED
    BY <1>1, <2>1, WFMin
<1>3. PICK n \in S : x = 0..n
  OBVIOUS
<1>4. \A m \in S : n <= m
  <2> SUFFICES ASSUME NEW m \in S, m < n PROVE FALSE
    OBVIOUS
  <2>1. 0..m \in T /\ 0..m \subseteq 0..n /\ 0..m # 0..n /\ 0..n \subseteq Nat
    OBVIOUS
  <2> QED
    BY <1>2, <1>3, <2>1 DEF StrictSubsetOrdering
<1> QED
  BY <1>4

LEMMA GreatestIsMember ==
  ASSUME NEW b \in Nat, NEW S \in SUBSET (0..b), S # {}
  PROVE  Max(S) \in S /\ \A m \in S : m <= Max(S)
<1> DEFINE T == {b - n : n \in S}
<1>1. T \subseteq Nat /\ T # {}
  OBVIOUS
<1>2. PICK t \in T : \A m \in T : t <= m
  <2> HIDE DEF T
  <2> QED BY <1>1, LeastExists
<1>3. PICK n \in S : t = b - n
  BY <1>2
<1>4. \A m \in S : n >= m
  <2> SUFFICES ASSUME NEW m \in S PROVE n >= m
    OBVIOUS
  <2>1. b - n <= b - m
    BY <1>2, <1>3
  <2>2. b \in Int /\ n \in Int /\ m \in Int
    OBVIOUS
  <2> QED
    BY <2>1, <2>2
<1>5. \A m \in S : Max(S) \in S /\ Max(S) >= m
  BY <1>4 DEF Max
<1> QED
  BY <1>5

LEMMA LowestIsMember ==
  ASSUME NEW S \in SUBSET Slots, S # {}
  PROVE  Min(S) \in S
<1>1. S \subseteq Nat
  BY ParametersAssumption DEF Slots
<1>2. \E n \in S : \A m \in S : n <= m
  BY <1>1, LeastExists
<1> QED
  BY <1>2 DEF Min

LEMMA InitInv == Init => Inv
<1> SUFFICES ASSUME Init PROVE Inv
  OBVIOUS
<1>1. PICK s \in Slots, p \in Foreign :
        /\ table = [t \in Slots |-> IF t = s THEN p ELSE None]
        /\ data = [q \in Parts |-> IF q = p THEN "theirs" ELSE "none"]
  BY DEF Init
<1>2. p \in Parts
  BY DEF Parts
<1>3. DiskType
  <2>1. removed \subseteq Foreign /\ outside \in 0..MaxOutside
    BY ParametersAssumption DEF Init
  <2> QED
    BY <1>1, <1>2, <2>1 DEF DiskType, Contents
<1>4. ProcessType
  BY ParametersAssumption DEF Init, ProcessType, Kinds
<1>5. HeldOurs /\ RecordedOurs /\ Counted
  BY NoneIsNobodys DEF Init, HeldOurs, RecordedOurs, Counted, Working, LaterSteps
<1>6. ForeignUntouched
  <2>1. p \in OnTable
    BY <1>1, NoneIsNobodys DEF OnTable, Numbers
  <2> QED
    BY <1>1, <1>2, <2>1 DEF ForeignUntouched, Parts
<1> QED
  BY <1>3, <1>4, <1>5, <1>6 DEF Inv
(***************************************************************************)
(* run_partition_execute after the partitions: the table stays, and what   *)
(* it formats, opens and mounts is at a recorded number.                   *)
(***************************************************************************)
LEMMA QuietInv ==
  ASSUME Inv, UNCHANGED <<table, removed, outside, run, making, before, created, num>>,
         step' \notin {"decide", "mkpart", "check"}, step' \in Working => step \in Working,
         data' \in [Parts -> Contents], \A p \in Foreign : data'[p] = data[p], HeldOurs'
  PROVE  Inv'
<1> USE DEF Inv
<1>1. DiskType' /\ ProcessType'
  BY DEF DiskType, ProcessType
<1>2. RecordedOurs' /\ Counted'
  BY DEF RecordedOurs, Counted, Kept
<1>3. ForeignUntouched'
  BY DEF ForeignUntouched, OnTable, Numbers
<1> QED
  BY <1>1, <1>2, <1>3

LEMMA NodeIsOurs ==
  ASSUME Inv, step \in Working
  PROVE  /\ \A k \in Kinds : Node(k) \notin Foreign
         /\ RootDevice \notin Foreign
BY NoneIsNobodys DEF Inv, HeldOurs, RecordedOurs, Kept, Node, RootDevice, Kinds

LEMMA FormatInv ==
  ASSUME Inv, WipeEsp \/ WipeRoot \/ FormatLuks \/ MkfsBtrfs \/ MakeSubvolumes \/ MkfsFat
  PROVE  Inv'
<1> USE DEF Goto
<1>1. /\ step \in LaterSteps \cup {"umount top"} /\ step' \in LaterSteps \cup {"umount top"}
      /\ UNCHANGED <<table, removed, outside, run, making, before, created, num, mapper, mounts>>
  BY DEF WipeEsp, WipeRoot, FormatLuks, MkfsBtrfs, MakeSubvolumes, MkfsFat, LaterSteps
<1>2. PICK q, w : /\ q \notin Foreign /\ w \in Contents
                  /\ data' = [data EXCEPT ![q] = w]
  <2>1. /\ Node("esp") \notin Foreign /\ Node("root") \notin Foreign
        /\ RootDevice \notin Foreign
    BY <1>1, NodeIsOurs DEF Working, Kinds
  <2>2. \A mt \in LastTop(mounts) : mt.dev \notin Foreign
    BY DEF LastTop, Inv, HeldOurs
  <2> QED
    BY <2>1, <2>2 DEF WipeEsp, WipeRoot, FormatLuks, MkfsBtrfs, MakeSubvolumes, MkfsFat, Overwrite, Contents
<1>3. data' \in [Parts -> Contents] /\ \A p \in Foreign : data'[p] = data[p]
  BY <1>2 DEF Inv, DiskType, Parts
<1>4. HeldOurs'
  BY <1>1 DEF Inv, HeldOurs
<1> QED
  BY <1>1, <1>3, <1>4, QuietInv DEF Working, LaterSteps

LEMMA HoldInv ==
  ASSUME Inv, FlagEsp \/ Open \/ MountTop \/ UmountTheTop \/ MountRoot \/ MountRest \/ MountEsp \/ HandOver
  PROVE  Inv'
<1> USE DEF Goto
<1>1. /\ step \in LaterSteps \cup {"umount top"} /\ step' \in LaterSteps \cup {"umount top", "handed"}
      /\ UNCHANGED <<disk, outside, run, making, before, created, num>>
  BY DEF FlagEsp, Open, MountTop, UmountTheTop, MountRoot, MountRest, MountEsp, HandOver, LaterSteps
<1>2. /\ Node("esp") \notin Foreign /\ Node("root") \notin Foreign
      /\ RootDevice \notin Foreign
  BY <1>1, NodeIsOurs DEF Working, Kinds
<1>3. HeldOurs'
  <2>1. CASE FlagEsp \/ HandOver
    BY <2>1 DEF FlagEsp, HandOver, Inv, HeldOurs
  <2>2. CASE Open
    BY <2>2, <1>2 DEF Open, Inv, HeldOurs
  <2>3. CASE UmountTheTop
    BY <2>3 DEF UmountTheTop, UmountTop, Inv, HeldOurs
  <2>4. CASE MountTop \/ MountRoot \/ MountRest \/ MountEsp
    <3>1. PICK at, p : p \notin Foreign /\ Mount(at, p) /\ UNCHANGED mapper
      BY <2>4, <1>2 DEF MountTop, MountRoot, MountRest, MountEsp
    <3> QED
      BY <3>1 DEF Mount, Inv, HeldOurs
  <2> QED
    BY <2>1, <2>2, <2>3, <2>4
<1> QED
  BY <1>1, <1>3, QuietInv DEF Working, LaterSteps, Inv, DiskType

(***************************************************************************)
(* disk_abort_hook: what it takes off the table is at a recorded number.   *)
(***************************************************************************)
LEMMA HookInv ==
  ASSUME Inv, Hook, step \in Working, UNCHANGED <<data, removed, outside, run, making, num>>,
         before' \subseteq Slots
  PROVE  Inv'
<1> USE DEF Inv
<1>1. \A s \in Slots : table'[s] # table[s] => table'[s] = None /\ table[s] \notin Foreign
  BY DEF Hook, RolledBack, RecordedOurs, Kept, DiskType
<1>2. table' \in [Slots -> Parts \cup {None}]
  BY DEF Hook, RolledBack, DiskType
<1>3. DiskType' /\ ProcessType'
  BY <1>2 DEF DiskType, ProcessType, Hook
<1>4. HeldOurs'
  BY NoneIsNobodys DEF HeldOurs, Hook, UmountTop, UmountMnt, Closed
<1>5. RecordedOurs' /\ Counted'
  BY DEF RecordedOurs, Counted, Hook, Working, LaterSteps
<1>6. \A p \in Foreign : p \in OnTable => p \in OnTable'
  BY <1>1, <1>2, NoneIsNobodys DEF OnTable, Numbers
<1>7. ForeignUntouched'
  BY <1>6 DEF ForeignUntouched
<1> QED
  BY <1>3, <1>4, <1>5, <1>7

(***************************************************************************)
(* create_partition.                                                       *)
(***************************************************************************)
LEMMA WriteInv ==
  ASSUME Inv, step = "mkpart", Write, step' \in {"check", "halfmade"},
         UNCHANGED <<holders, outside, run, process>>
  PROVE  Inv'
<1> USE DEF Inv
<1> DEFINE new == LowestFree
<1>1. new \in Slots /\ table[new] = None
  <2>1. Slots \ Numbers # {}
    BY DEF Write, Numbers
  <2>2. new \in Slots \ Numbers
    BY <2>1, LowestIsMember DEF LowestFree
  <2> QED
    BY <2>2 DEF Numbers
<1>2. Mine(making) \in Parts \ Foreign /\ Mine(making) # None
  BY MineIsNotForeign DEF ProcessType
<1>3. /\ table' = [table EXCEPT ![new] = Mine(making)]
      /\ data' = [data EXCEPT ![Mine(making)] = "stale"]
      /\ removed' = removed
  BY DEF Write
<1> HIDE DEF new
<1>4. DiskType' /\ ProcessType' /\ HeldOurs'
  BY <1>1, <1>2, <1>3 DEF DiskType, ProcessType, HeldOurs, Contents
<1>5. Numbers' = Numbers \cup {new} /\ new \notin Numbers
  BY <1>1, <1>2, <1>3 DEF Numbers, DiskType
<1>6. RecordedOurs'
  <2>1. \A s \in Slots : Kept(s) => Kept(s)'
    BY <1>1, <1>2, <1>3 DEF Kept, DiskType
  <2>2. step \in Working
    BY DEF Working
  <2>3. \A k \in Kinds : num[k] # 0 => Kept(num[k])'
    BY <2>1, <2>2 DEF RecordedOurs, ProcessType
  <2>4. \A i \in DOMAIN created : Kept(created[i])'
    <3>1. \A i \in DOMAIN created : created[i] \in Slots /\ Kept(created[i])
      BY <2>2 DEF RecordedOurs, ProcessType
    <3> QED
      BY <2>1, <3>1 DEF Kept
  <2> QED
    BY <2>3, <2>4 DEF RecordedOurs, Kept
<1>7. Counted'
  <2>1. CASE Numbers = before
    BY <2>1, <1>1, <1>3, <1>5 DEF Counted, DiskType, Mine
  <2>2. CASE outside = MaxOutside /\ Cardinality(Numbers) # Cardinality(before)
    <3>1. Cardinality(Numbers') = Cardinality(Numbers) + 1
      BY <1>5, FiniteNumbers, FS_AddElement DEF Numbers
    <3>2. Cardinality(Numbers) \in Nat /\ Cardinality(before) \in Nat
      BY FiniteNumbers DEF Numbers, ProcessType
    <3> QED
      BY <2>2, <3>1, <3>2 DEF Counted
  <2> QED
    BY <2>1, <2>2 DEF Counted
<1>8. ForeignUntouched'
  <2>1. \A p \in Foreign : p \in OnTable => p \in OnTable'
    BY <1>1, <1>2, <1>3, NoneIsNobodys DEF OnTable, Numbers, DiskType
  <2>2. \A p \in Foreign : data'[p] = data[p]
    BY <1>2, <1>3 DEF DiskType, Parts
  <2> QED
    BY <1>3, <2>1, <2>2 DEF ForeignUntouched
<1> QED
  BY <1>4, <1>6, <1>7, <1>8

LEMMA RecordInv ==
  ASSUME Inv, Record
  PROVE  Inv'
<1> USE DEF Inv
<1>1. PICK s \in Slots \ before : table[s] = Mine(making) /\ Numbers = before \cup {s}
  BY DEF Record, OneMore, Counted
<1>2. NewNumber = s
  <2>1. Numbers \ before = {s}
    BY <1>1
  <2> QED
    BY <2>1, LowestIsMember DEF NewNumber
<1>3. Kept(s)
  BY <1>1, MineIsNotForeign DEF Kept, ProcessType
<1>4. /\ created' = Append(created, s)
      /\ num' = [num EXCEPT ![making] = s]
      /\ step' \in {"read", "flag"} /\ making' \in Kinds /\ before' = {}
      /\ UNCHANGED <<disk, holders, outside, run>>
  BY <1>2 DEF Record, ProcessType, Kinds
<1>5. DiskType' /\ ProcessType' /\ HeldOurs' /\ Counted'
  BY <1>4 DEF DiskType, ProcessType, HeldOurs, Counted
<1>6. ForeignUntouched'
  BY <1>4 DEF ForeignUntouched, OnTable, Numbers
<1>7. RecordedOurs'
  <2>1. \A t : Kept(t)' <=> Kept(t)
    BY <1>4 DEF Kept
  <2>2. step \in Working
    BY DEF Record, Working
  <2>3. \A k \in Kinds : num'[k] # 0 => Kept(num'[k])
    BY <1>3, <1>4, <2>2 DEF RecordedOurs, ProcessType
  <2>4. \A i \in DOMAIN created' : Kept(created'[i])
    BY <1>3, <1>4, <2>2 DEF RecordedOurs, ProcessType
  <2> QED
    BY <1>4, <2>1, <2>3, <2>4 DEF RecordedOurs
<1> QED
  BY <1>5, <1>6, <1>7

LEMMA CreateInv ==
  ASSUME Inv, Create
  PROVE  Inv'
<1>1. CASE ReadBefore
  <2> USE <1>1 DEF ReadBefore, Inv
  <2>1. DiskType' /\ ProcessType' /\ HeldOurs'
    BY DEF DiskType, ProcessType, HeldOurs, Numbers
  <2>2. RecordedOurs' /\ Counted'
    BY DEF RecordedOurs, Counted, Kept, Working, Numbers
  <2>3. ForeignUntouched'
    BY DEF ForeignUntouched, OnTable, Numbers
  <2> QED
    BY <2>1, <2>2, <2>3
<1>2. CASE MkPart \/ MkPartHalfFails
  BY <1>2, WriteInv DEF MkPart, MkPartHalfFails
<1>3. CASE Record
  BY <1>3, RecordInv
<1>4. CASE CreateRefused \/ HalfMadeRefused
  BY <1>4, HookInv DEF CreateRefused, HalfMadeRefused, Working
<1> QED
  BY <1>1, <1>2, <1>3, <1>4 DEF Create

(***************************************************************************)
(* The one change from outside, and what comes of a run.                   *)
(***************************************************************************)
LEMMA OutsideInv ==
  ASSUME Inv, MaxOutside <= 1, OutsideChange
  PROVE  Inv'
<1> USE DEF Inv
<1>1. /\ outside = 0 /\ outside' = 1 /\ MaxOutside = 1 /\ step \in Working
      /\ UNCHANGED <<holders, run, step, process>>
  BY ParametersAssumption DEF OutsideChange, DiskType
<1>2. PICK s \in Slots :
        \/ /\ s \in Numbers
           /\ table' = [table EXCEPT ![s] = None]
           /\ removed' = removed \cup ({table[s]} \cap Foreign)
           /\ UNCHANGED data
        \/ /\ s \notin Numbers /\ UNCHANGED removed
           /\ \E p \in Foreign : /\ data[p] = "none"
                                /\ table' = [table EXCEPT ![s] = p]
                                /\ data' = [data EXCEPT ![p] = "theirs"]
  BY DEF OutsideChange, Numbers
<1>3. DiskType' /\ ProcessType' /\ HeldOurs'
  BY <1>1, <1>2 DEF DiskType, ProcessType, HeldOurs, Contents, Parts
<1>4. \/ Numbers' = Numbers \ {s} /\ s \in Numbers
      \/ Numbers' = Numbers \cup {s} /\ s \notin Numbers
  <2>1. PICK q : table' = [table EXCEPT ![s] = q]
    BY <1>2
  <2>2. \A t \in Slots : table'[t] = IF t = s THEN q ELSE table[t]
    BY <2>1 DEF DiskType
  <2>3. q = None <=> s \in Numbers
    BY <1>2, <2>2, NoneIsNobodys DEF DiskType
  <2>4. CASE q = None
    <3>1. \A t \in Slots : t \in Numbers' <=> t \in Numbers /\ t # s
      BY <2>2, <2>4 DEF Numbers
    <3>2. Numbers \subseteq Slots /\ Numbers' \subseteq Slots
      BY DEF Numbers
    <3>3. Numbers' = Numbers \ {s}
      BY <3>1, <3>2
    <3> QED
      BY <2>3, <2>4, <3>3
  <2>5. CASE q # None
    <3>1. \A t \in Slots : t \in Numbers' <=> t \in Numbers \/ t = s
      BY <2>2, <2>5 DEF Numbers
    <3> QED
      BY <2>3, <2>5, <3>1 DEF Numbers
  <2> QED
    BY <2>4, <2>5
<1>5. RecordedOurs'
  <2>1. \A t \in Slots : Kept(t) => Kept(t)'
    <3> SUFFICES ASSUME NEW t \in Slots, Kept(t) PROVE Kept(t)'
      OBVIOUS
    <3>1. table[t] \notin Foreign \cup {None}
      BY <1>1 DEF Kept
    <3>2. t \in Numbers
      BY <3>1 DEF Numbers
    <3>3. table'[t] \in {table[t], None}
      BY <1>2, <3>2 DEF DiskType
    <3> QED
      BY <1>1, <3>1, <3>3, NoneIsNobodys DEF Kept
  <2>2. \A k \in Kinds : num[k] # 0 => Kept(num[k])'
    BY <1>1, <2>1 DEF RecordedOurs, ProcessType
  <2>3. \A i \in DOMAIN created : Kept(created[i])'
    <3>1. \A i \in DOMAIN created : created[i] \in Slots /\ Kept(created[i])
      BY <1>1 DEF RecordedOurs, ProcessType
    <3> QED
      BY <1>1, <2>1, <3>1 DEF Kept
  <2> QED
    BY <1>1, <2>2, <2>3 DEF RecordedOurs, Kept
<1>6. Counted'
  <2>1. \/ Cardinality(Numbers') = Cardinality(Numbers) - 1
        \/ Cardinality(Numbers') = Cardinality(Numbers) + 1
    <3>1. IsFiniteSet(Numbers)
      BY FiniteNumbers DEF Numbers
    <3>2. CASE Numbers' = Numbers \ {s} /\ s \in Numbers
      BY <3>1, <3>2, FS_RemoveElement
    <3>3. CASE Numbers' = Numbers \cup {s} /\ s \notin Numbers
      BY <3>1, <3>3, FS_AddElement
    <3> QED
      BY <1>4, <3>2, <3>3
  <2>2. Cardinality(Numbers) \in Nat /\ Cardinality(before) \in Nat
    BY FiniteNumbers DEF Numbers, ProcessType
  <2>3. CASE step = "mkpart"
    BY <1>1, <2>1, <2>2, <2>3 DEF Counted
  <2>4. CASE step = "check"
    <3>1. Cardinality(Numbers) = Cardinality(before) + 1
      BY <1>1, <2>4, FiniteNumbers, FS_AddElement DEF Counted, ProcessType
    <3> QED
      BY <1>1, <2>1, <2>2, <2>4, <3>1 DEF Counted
  <2> QED
    BY <1>1, <2>3, <2>4 DEF Counted
<1>7. ForeignUntouched'
  BY <1>2, NoneIsNobodys DEF ForeignUntouched, OnTable, Numbers, DiskType, Parts
<1> QED
  BY <1>3, <1>5, <1>6, <1>7

LEMMA ReclaimInv ==
  ASSUME Inv, UserReclaims
  PROVE  Inv'
<1> USE DEF Inv
<1>1. PICK s \in Numbers :
        /\ table' = [table EXCEPT ![s] = None]
        /\ removed' = removed \cup ({table[s]} \cap Foreign)
  BY DEF UserReclaims
<1>2. /\ step = "decide"
      /\ UNCHANGED <<data, holders, outside, run, step, process>>
  BY DEF UserReclaims
<1>3. DiskType' /\ ProcessType' /\ HeldOurs'
  BY <1>1, <1>2 DEF DiskType, ProcessType, HeldOurs
<1>4. RecordedOurs' /\ Counted'
  BY <1>2 DEF RecordedOurs, Counted, Kept, Working, LaterSteps
<1>5. ForeignUntouched'
  BY <1>1, <1>2, NoneIsNobodys DEF ForeignUntouched, OnTable, Numbers, DiskType
<1> QED
  BY <1>3, <1>4, <1>5

LEMMA RunInv ==
  ASSUME Inv, Decide \/ Interrupt \/ InstallEnds \/ InstallFails \/ StartAgain \/ UNCHANGED vars
  PROVE  Inv'
<1> USE DEF Inv
<1>1. UNCHANGED <<disk, outside>>
  BY DEF Decide, Interrupt, InstallEnds, InstallFails, StartAgain
<1>2. DiskType' /\ ForeignUntouched'
  BY <1>1 DEF DiskType, ForeignUntouched, OnTable, Numbers
<1>3. ProcessType'
  <2>1. CASE StartAgain
    <3>1. run' \in 1..Runs
      BY <2>1, ParametersAssumption DEF StartAgain, ProcessType
    <3> QED
      BY <2>1, <3>1 DEF StartAgain, ProcessType, Kinds
  <2>2. CASE ~StartAgain
    BY <2>2 DEF ProcessType, Decide, Interrupt, InstallEnds, InstallFails
  <2> QED
    BY <2>1, <2>2
<1>4. HeldOurs'
  BY NoneIsNobodys DEF HeldOurs, Decide, Interrupt, InstallEnds, InstallFails, StartAgain, UmountMnt
<1>5. RecordedOurs' /\ Counted'
  <2>1. CASE Decide
    BY <2>1 DEF Decide, RecordedOurs, Counted, Kinds
  <2>2. CASE StartAgain
    BY <2>2 DEF StartAgain, RecordedOurs, Counted, Working, LaterSteps
  <2>3. CASE Interrupt \/ InstallEnds \/ InstallFails
    BY <2>3 DEF Interrupt, InstallEnds, InstallFails, RecordedOurs, Counted, Working, LaterSteps
  <2>4. CASE UNCHANGED vars
    BY <2>4 DEF RecordedOurs, Counted, Kept, Numbers, Mine
  <2> QED
    BY <2>1, <2>2, <2>3, <2>4
<1> QED
  BY <1>2, <1>3, <1>4, <1>5

LEMMA InvStep == ASSUME Inv, MaxOutside <= 1, [Next]_vars PROVE Inv'
<1>1. CASE UserReclaims
  BY <1>1, ReclaimInv
<1>2. CASE Create
  BY <1>2, CreateInv
<1>3. CASE Prepare
  <2>1. CASE StepFails
    BY <2>1, HookInv DEF StepFails, Working, Inv, ProcessType
  <2> QED
    BY <1>3, <2>1, FormatInv, HoldInv DEF Prepare
<1>4. CASE OutsideChange
  BY <1>4, OutsideInv
<1>5. CASE Decide \/ Interrupt \/ InstallEnds \/ InstallFails \/ StartAgain \/ UNCHANGED vars
  BY <1>5, RunInv
<1> QED
  BY <1>1, <1>2, <1>3, <1>4, <1>5 DEF Next, Over

(***************************************************************************)
(* create_partition, rollback_created_parts and run_partition_execute: the *)
(* partitions of other systems keep their contents and their places, over  *)
(* any number of interrupted, failed and killed runs, when the table is    *)
(* changed from outside at most once.                                      *)
(***************************************************************************)
THEOREM OthersAreSafe ==
  ASSUME MaxOutside <= 1
  PROVE  Spec => []ForeignUntouched
<1>1. Inv /\ [Next]_vars => Inv'
  BY InvStep
<1>2. Inv => ForeignUntouched
  BY DEF Inv
<1> QED
  BY <1>1, <1>2, InitInv, PTL DEF Spec

(***************************************************************************)
(* Types, for any number of changes from outside.                          *)
(***************************************************************************)
\* The tree on top is the newest of those mounted, or there is none.
LEMMA TopTreeIsNewest ==
  ASSUME NEW n \in Nat, NEW ms, \A mt \in ms : mt.under \in 0..n
  PROVE  /\ TopTree(ms) \in 0..n
         /\ \A mt \in ms : mt.at = "root" => mt.under <= TopTree(ms)
         /\ TopTree(ms) = 0 \/ \E mt \in ms : mt.at = "root" /\ mt.under = TopTree(ms)
<1> DEFINE S == {0} \cup {mt.under : mt \in {x \in ms : x.at = "root"}}
<1>1. S \in SUBSET (0..n) /\ S # {}
  OBVIOUS
<1>2. Max(S) \in S /\ \A m \in S : m <= Max(S)
  <2> HIDE DEF S
  <2> QED
    BY <1>1, GreatestIsMember
<1>3. TopTree(ms) = Max(S)
  BY DEF TopTree
<1>4. \A mt \in ms : mt.at = "root" => mt.under \in S
  OBVIOUS
<1>5. TopTree(ms) \in S /\ \A m \in S : m <= TopTree(ms)
  BY <1>2, <1>3
<1> QED
  BY <1>1, <1>4, <1>5

\* The partitions recorded before each step.
Lengths ==
  /\ step = "decide" => created = << >> /\ making = "esp"
  /\ step \in {"read", "mkpart", "check", "halfmade"} =>
       Len(created) = IF making = "esp" THEN 0 ELSE 1

Typed == TypeOK /\ Lengths

MountType == [at : {"top", "root", "home", "log", "pkg", "esp"}, dev : Parts, under : 0..Runs]

LEMMA MountsTop ==
  ASSUME Typed
  PROVE  TopTree(mounts) \in 0..Runs
<1>1. \A mt \in mounts : mt.under \in 0..Runs
  BY DEF Typed, TypeOK
<1> QED
  BY <1>1, ParametersAssumption, TopTreeIsNewest

LEMMA NodeType ==
  ASSUME Typed
  PROVE  /\ \A k \in Kinds : Node(k) \in Parts \cup {None}
         /\ RootDevice \in Parts \cup {None}
<1>1. \A k \in Kinds : Node(k) \in Parts \cup {None}
  BY DEF Typed, TypeOK, Node
<1> QED
  BY <1>1 DEF RootDevice, Kinds, Typed, TypeOK

LEMMA InitTyped == Init => Typed
<1> SUFFICES ASSUME Init PROVE Typed
  OBVIOUS
<1>1. PICK s \in Slots, p \in Foreign :
        /\ table = [t \in Slots |-> IF t = s THEN p ELSE None]
        /\ data = [q \in Parts |-> IF q = p THEN "theirs" ELSE "none"]
  BY DEF Init
<1>2. table \in [Slots -> Parts \cup {None}]
  BY <1>1 DEF Parts
<1>3. data \in [Parts -> Contents]
  BY <1>1 DEF Contents
<1>4. 1 \in 1..Runs /\ 0 \in 0..MaxOutside
  BY ParametersAssumption
<1>5. created \in Seq(Slots) /\ Len(created) = 0 /\ num \in [Kinds -> {0} \cup Slots]
  BY DEF Init
<1>6. making \in Kinds /\ step = "decide" /\ encrypt \in BOOLEAN /\ run \in 1..Runs /\ outside \in 0..MaxOutside
  BY <1>4 DEF Init, Kinds
<1>7. mounts = {} /\ removed = {} /\ before = {} /\ mapper = None
  BY DEF Init
<1>8. Lengths
  BY DEF Init, Lengths
<1> QED
  BY <1>2, <1>3, <1>5, <1>6, <1>7, <1>8 DEF Typed, TypeOK, Contents

\* The steps of the installed process that leave the run and its list alone.
LEMMA StepTyped ==
  ASSUME Typed, Prepare, ~StepFails
  PROVE  Typed'
<1> USE DEF Goto
<1>1. /\ UNCHANGED <<table, removed, outside, run, encrypt, making, before, created, num>>
      /\ step' \in LaterSteps \cup {"umount top", "handed"}
  BY DEF Prepare, FlagEsp, WipeEsp, WipeRoot, FormatLuks, Open, MkfsBtrfs, MountTop, MakeSubvolumes,
         UmountTheTop, MountRoot, MountRest, MkfsFat, MountEsp, HandOver, LaterSteps
<1>2. data' \in [Parts -> Contents]
  <2>1. CASE data' = data
    BY <2>1 DEF Typed, TypeOK, Contents
  <2>2. CASE \E q, w : w \in Contents /\ data' = [data EXCEPT ![q] = w]
    BY <2>2 DEF Typed, TypeOK, Contents
  <2> QED
    BY <2>1, <2>2 DEF Prepare, FlagEsp, WipeEsp, WipeRoot, FormatLuks, Open, MkfsBtrfs, MountTop,
         MakeSubvolumes, UmountTheTop, MountRoot, MountRest, MkfsFat, MountEsp, HandOver, Overwrite, Contents
<1>3. mapper' \in Parts \cup {None}
  BY NodeType DEF Prepare, FlagEsp, WipeEsp, WipeRoot, FormatLuks, Open, MkfsBtrfs, MountTop, Kinds,
         MakeSubvolumes, UmountTheTop, MountRoot, MountRest, MkfsFat, MountEsp, HandOver, Typed, TypeOK
<1>4. mounts' \subseteq MountType
  <2>1. CASE mounts' \subseteq mounts
    BY <2>1 DEF Typed, TypeOK, MountType
  <2>2. CASE \E at \in {"top", "root", "home", "log", "pkg", "esp"}, p \in Parts \cup {None} : Mount(at, p)
    <3>1. PICK at \in {"top", "root", "home", "log", "pkg", "esp"}, p \in Parts \cup {None} : Mount(at, p)
      BY <2>2
    <3>2. PICK u \in 0..Runs : mounts' = mounts \cup {[at |-> at, dev |-> p, under |-> u]}
      BY <3>1, MountsTop DEF Mount, Typed, TypeOK
    <3>3. p \in Parts
      BY <3>1 DEF Mount
    <3> QED
      BY <3>2, <3>3 DEF Typed, TypeOK, MountType
  <2>3. CASE MountTop \/ MountRoot \/ MountRest \/ MountEsp
    BY <2>2, <2>3, NodeType DEF MountTop, MountRoot, MountRest, MountEsp, Kinds
  <2> QED
    BY <2>1, <2>3 DEF Prepare, FlagEsp, WipeEsp, WipeRoot, FormatLuks, Open, MkfsBtrfs,
         MakeSubvolumes, UmountTheTop, UmountTop, MkfsFat, HandOver
<1>5. Lengths'
  BY <1>1 DEF Lengths, LaterSteps
<1> QED
  BY <1>1, <1>2, <1>3, <1>4, <1>5 DEF Typed, TypeOK, MountType, Contents, Working

LEMMA HookTyped ==
  ASSUME Typed, Hook, UNCHANGED <<data, removed, outside, run, encrypt, making, num>>, before' \subseteq Slots
  PROVE  Typed'
<1>1. table' \in [Slots -> Parts \cup {None}]
  BY DEF Hook, RolledBack, Typed, TypeOK
<1>2. mounts' \subseteq mounts /\ mapper' \in {mapper, None}
  BY DEF Hook, UmountTop, UmountMnt, Closed
<1> QED
  BY <1>1, <1>2 DEF Hook, Typed, TypeOK, Lengths, Ends

LEMMA CreateTyped ==
  ASSUME Typed, Create
  PROVE  Typed'
<1> USE DEF Typed
<1>1. CASE ReadBefore
  BY <1>1 DEF ReadBefore, TypeOK, Lengths, Working, Numbers
<1>2. CASE MkPart \/ MkPartHalfFails
  <2>1. PICK q, s : /\ q \in Parts
                    /\ table' = [table EXCEPT ![s] = q]
                    /\ data' = [data EXCEPT ![q] = "stale"]
    <3>1. Mine(making) \in Parts
      BY MineIsNotForeign, <1>2 DEF TypeOK, ProcessType
    <3> QED
      BY <1>2, <3>1 DEF MkPart, MkPartHalfFails, Write
  <2>2. table' \in [Slots -> Parts \cup {None}] /\ data' \in [Parts -> Contents]
    BY <2>1 DEF TypeOK, Contents
  <2>3. step = "mkpart" /\ step' \in {"check", "halfmade"} /\ UNCHANGED <<removed, holders, outside, run, process>>
    BY <1>2 DEF MkPart, MkPartHalfFails, Write
  <2> QED
    BY <2>2, <2>3 DEF TypeOK, Lengths, Working, Contents
<1>3. CASE Record
  <2>1. NewNumber \in Slots
    <3>1. Numbers \ before # {}
      <4> SUFFICES ASSUME Numbers \subseteq before PROVE FALSE
        OBVIOUS
      <4>1. IsFiniteSet(before) /\ Cardinality(before) \in Nat /\ Cardinality(Numbers) \in Nat
        BY FiniteNumbers DEF Numbers, TypeOK
      <4>2. Cardinality(Numbers) <= Cardinality(before)
        BY <4>1, FS_Subset
      <4> QED
        BY <1>3, <4>1, <4>2 DEF Record, OneMore
    <3> QED
      BY <3>1, LowestIsMember DEF NewNumber, Numbers
  <2>2. /\ created' = Append(created, NewNumber) /\ Len(created) = IF making = "esp" THEN 0 ELSE 1
        /\ num' = [num EXCEPT ![making] = NewNumber]
        /\ UNCHANGED <<disk, holders, outside, run, encrypt>> /\ before' = {}
        /\ \/ making = "esp" /\ making' = "root" /\ step' = "read"
           \/ making = "root" /\ making' = "root" /\ step' = "flag"
    BY <1>3 DEF Record, Lengths, TypeOK, Kinds
  <2>3. created' \in Seq(Slots) /\ Len(created') = Len(created) + 1
    BY <2>1, <2>2 DEF TypeOK
  <2>4. num' \in [Kinds -> {0} \cup Slots]
    BY <2>1, <2>2 DEF TypeOK
  <2>5. \/ making' = "root" /\ step' = "read" /\ Len(created') = 1
        \/ making' = "root" /\ step' = "flag" /\ Len(created') = 2
    BY <2>2, <2>3
  <2>6. Len(created') <= 2
    BY <2>5
  <2>7. making' \in Kinds /\ step' \in Working
    BY <2>5 DEF Working, LaterSteps, Kinds
  <2>8. Lengths'
    BY <2>5 DEF Lengths
  <2> QED
    BY <2>2, <2>3, <2>4, <2>6, <2>7, <2>8 DEF TypeOK
<1>4. CASE CreateRefused \/ HalfMadeRefused
  BY <1>4, HookTyped DEF CreateRefused, HalfMadeRefused
<1> QED
  BY <1>1, <1>2, <1>3, <1>4 DEF Create

LEMMA OutsideTyped ==
  ASSUME Typed, OutsideChange \/ UserReclaims
  PROVE  Typed'
<1>1. outside' \in 0..MaxOutside
  BY ParametersAssumption DEF OutsideChange, UserReclaims, Typed, TypeOK
<1>2. table' \in [Slots -> Parts \cup {None}]
  BY DEF OutsideChange, UserReclaims, Typed, TypeOK, Parts
<1>3. data' \in [Parts -> Contents] /\ removed' \subseteq Foreign
  BY DEF OutsideChange, UserReclaims, Typed, TypeOK, Contents
<1>4. UNCHANGED <<holders, run, step, process>>
  BY DEF OutsideChange, UserReclaims
<1> QED
  BY <1>1, <1>2, <1>3, <1>4 DEF Typed, TypeOK, Lengths, Contents

LEMMA RunTyped ==
  ASSUME Typed, Decide \/ Interrupt \/ InstallEnds \/ InstallFails \/ StartAgain \/ UNCHANGED vars
  PROVE  Typed'
<1>1. CASE StartAgain
  <2>1. run' \in 1..Runs
    BY <1>1, ParametersAssumption DEF StartAgain, Typed, TypeOK
  <2>2. created' \in Seq(Slots) /\ Len(created') = 0 /\ num' \in [Kinds -> {0} \cup Slots]
    BY <1>1 DEF StartAgain
  <2>3. making' \in Kinds /\ step' = "decide" /\ encrypt' \in BOOLEAN /\ before' = {} /\ Lengths'
    BY <1>1 DEF StartAgain, Kinds, Lengths
  <2>4. UNCHANGED <<disk, holders, outside>>
    BY <1>1 DEF StartAgain
  <2> QED
    BY <2>1, <2>2, <2>3, <2>4 DEF Typed, TypeOK
<1>2. CASE ~StartAgain
  <2>1. mounts' \subseteq mounts /\ mapper' \in {mapper, None}
    BY <1>2 DEF Decide, Interrupt, InstallEnds, InstallFails, UmountMnt
  <2>2. UNCHANGED <<disk, outside, run, making, before, created, num>>
    BY <1>2 DEF Decide, Interrupt, InstallEnds, InstallFails
  <2>3. encrypt' \in BOOLEAN
    BY <1>2 DEF Decide, Interrupt, InstallEnds, InstallFails, Typed, TypeOK
  <2>4. \/ UNCHANGED step
        \/ step = "decide" /\ step' = "read"
        \/ step' \in {"interrupted", "installed", "killed", "failed"}
    BY <1>2 DEF Decide, Interrupt, InstallEnds, InstallFails
  <2>5. Lengths' /\ step' \in Working \cup Ends \cup {"decide", "handed", "installed"}
    BY <2>2, <2>4 DEF Typed, TypeOK, Lengths, Working, Ends
  <2> QED
    BY <2>1, <2>2, <2>3, <2>5 DEF Typed, TypeOK
<1> QED
  BY <1>1, <1>2

LEMMA TypedStep == ASSUME Typed, [Next]_vars PROVE Typed'
<1>1. CASE Create
  BY <1>1, CreateTyped
<1>2. CASE Prepare
  <2>1. CASE StepFails
    BY <2>1, HookTyped DEF StepFails, Typed, TypeOK
  <2> QED
    BY <1>2, <2>1, StepTyped
<1>3. CASE UserReclaims \/ OutsideChange
  BY <1>3, OutsideTyped
<1>4. CASE Decide \/ Interrupt \/ InstallEnds \/ InstallFails \/ StartAgain \/ UNCHANGED vars
  BY <1>4, RunTyped
<1> QED
  BY <1>1, <1>2, <1>3, <1>4 DEF Next, Over

\* The state keeps its types, and the list has the length its step says.
THEOREM TypedCorrect == Spec => []Typed
  BY InitTyped, TypedStep, PTL DEF Spec

(***************************************************************************)
(* The state keeps its types, with any number of runs, slots, other        *)
(* systems and changes from outside.                                       *)
(***************************************************************************)
THEOREM TypeCorrect == Spec => []TypeOK
<1>1. Typed => TypeOK
  BY DEF Typed
<1> QED
  BY <1>1, TypedCorrect, PTL

\* The steps at which this run's mapper, its top level and its tree are there.
AfterRoot == {"mount home", "mount log", "mount pkg", "fat", "mount esp", "handover", "handed"}
AfterTop  == AfterRoot \cup {"subvolumes", "umount top", "mount root"}
AfterOpen == AfterTop \cup {"mkfs", "mount top"}
Creating  == {"read", "mkpart", "check", "halfmade"}
AtWork    == Working \cup {"decide", "handed"}

\* Nothing is of a run that is still to come.
SoFar ==
  /\ \A s \in Slots : table[s].run <= run
  /\ mapper.run <= run
  /\ \A mt \in mounts : mt.dev.run <= run /\ mt.under <= run

\* A run makes each of its partitions at most once, and knows which it has made.
MadeOnce ==
  /\ \A k \in Kinds, s, t \in Slots : table[s] = Mine(k) /\ table[t] = Mine(k) => s = t
  /\ step = "decide" => \A k \in Kinds : Mine(k) \notin OnTable
  /\ step \in {"read", "mkpart"} => Mine(making) \notin OnTable
  /\ step \in Creating =>
       /\ num["root"] = 0 /\ (num["esp"] = 0 <=> making = "esp")
       /\ making = "esp" => Mine("root") \notin OnTable
  /\ step \in Working \ Creating => num["esp"] # 0 /\ num["root"] # 0

\* The slots recorded.  That of the ESP may be emptied and given to the root.
Recorded ==
  step \in Working =>
    /\ \A k \in Kinds : num[k] # 0 =>
         /\ \E i \in DOMAIN created : created[i] = num[k]
         /\ \A s \in Slots : table[s] = Mine(k) => s = num[k]
    /\ num["root"] # 0 => table[num["root"]] \in {Mine("root"), None}
    /\ num["esp"] # 0 => table[num["esp"]] \in {Mine("esp"), Mine("root"), None}

\* omarchy_root is this run's from the open on, or not at all.
MapperOurs ==
  step \in AtWork =>
    /\ mapper.run = run => encrypt /\ step \in AfterOpen /\ mapper = Mine("root")
    /\ encrypt /\ step \in AfterOpen => mapper = Mine("root")
    /\ step \in {"luks", "open"} => encrypt

Earlier == {mt \in mounts : mt.under # run}

OurTop  == [at |-> "top", dev |-> Mine("root"), under |-> TopTree(Earlier)]
OurRoot == [at |-> "root", dev |-> Mine("root"), under |-> run]

\* What this run has mounted: its top level in the tree that was on top, and a
\* tree of its own.
MountedOurs ==
  step \in AtWork =>
    /\ step \notin AfterRoot => \A mt \in mounts : mt.under # run
    /\ step \notin AfterTop => \A mt \in mounts : mt.dev.run # run
    /\ \A mt \in Earlier : mt.dev.run = run => mt = OurTop
    /\ step = "subvolumes" => OurTop \in mounts
    /\ step \in AfterRoot => OurRoot \in mounts

MountedAt(place, kind) == [at |-> place, dev |-> Mine(kind), under |-> run] \in mounts

Filled ==
  /\ step \in AfterRoot \cup {"umount top", "mount root"} => data[Mine("root")] = "subvolumes"
  /\ step \in {"mount esp", "handover", "handed"} =>
       /\ data[Mine("esp")] = "fat"
       /\ num["esp"] # num["root"]
       /\ table[num["esp"]] \in {Mine("esp"), None} \/ step = "handed"
  /\ step \in AfterRoot \ {"mount home"} => MountedAt("home", "root")
  /\ step \in AfterRoot \ {"mount home", "mount log"} => MountedAt("log", "root")
  /\ step \in AfterRoot \ {"mount home", "mount log", "mount pkg"} => MountedAt("pkg", "root")
  /\ step \in {"handover", "handed"} => MountedAt("esp", "esp")

Tracked == SoFar /\ MadeOnce /\ Recorded /\ MapperOurs /\ MountedOurs /\ Filled

Strong == Inv /\ Typed /\ Tracked /\ ReleasedAfterwards

(***************************************************************************)
(* Facts about this run's partitions and mounts.                           *)
(***************************************************************************)
LEMMA MineFacts ==
  ASSUME Typed, NEW k \in Kinds
  PROVE  /\ Mine(k) \in Parts /\ Mine(k) \notin Foreign /\ Mine(k) # None
         /\ Mine(k).run = run /\ Mine(k).kind = k
         /\ run \in Nat /\ run > 0
<1>1. Mine(k) \in Parts /\ Mine(k) \notin Foreign /\ Mine(k) # None
  BY MineIsNotForeign DEF Typed, TypeOK, ProcessType
<1> QED
  BY <1>1, ParametersAssumption DEF Mine, Typed, TypeOK

\* A run's number tells its partitions from what has none and from others'.
LEMMA RunsOfParts ==
  /\ None.run = 0
  /\ \A p \in Parts : p.run \in 0..Runs
  /\ \A p \in Foreign : p.run = 0
BY ParametersAssumption DEF None, Parts, Foreign

LEMMA TopTreeSoFar ==
  ASSUME Typed, SoFar, NEW ms \in SUBSET mounts
  PROVE  /\ TopTree(ms) \in 0..run
         /\ \A mt \in ms : mt.at = "root" => mt.under <= TopTree(ms)
         /\ TopTree(ms) = 0 \/ \E mt \in ms : mt.at = "root" /\ mt.under = TopTree(ms)
<1>1. run \in Nat /\ \A mt \in ms : mt.under \in 0..run
  <2>1. run \in Nat
    BY ParametersAssumption DEF Typed, TypeOK
  <2>2. \A mt \in mounts : mt.under \in 0..Runs /\ mt.under <= run
    BY DEF Typed, TypeOK, SoFar
  <2> QED
    BY <2>1, <2>2
<1> QED
  BY <1>1, TopTreeIsNewest

\* Only what is mounted at /mnt makes a tree.
LEMMA TopTreeOfRoots ==
  ASSUME NEW m1, NEW m2, {mt \in m1 : mt.at = "root"} = {mt \in m2 : mt.at = "root"}
  PROVE  TopTree(m1) = TopTree(m2)
BY DEF TopTree

\* The partition behind this run's numbers, and the device it makes its root on.
LEMMA DeviceIsOurs ==
  ASSUME Strong, step \in Working \ Creating
  PROVE  /\ Node("root") \in {Mine("root"), None}
         /\ Node("esp") \in {Mine("esp"), Mine("root"), None}
         /\ step \in AfterOpen /\ RootDevice # None => RootDevice = Mine("root")
<1>1. /\ num["root"] # 0 /\ num["esp"] # 0
  BY DEF Strong, Tracked, MadeOnce
<1>2. /\ Node("root") \in {Mine("root"), None}
      /\ Node("esp") \in {Mine("esp"), Mine("root"), None}
  BY <1>1 DEF Strong, Tracked, Recorded, Node
<1>3. step \in AtWork
  BY DEF AtWork
<1> QED
  BY <1>2, <1>3 DEF Strong, Tracked, MapperOurs, RootDevice

(***************************************************************************)
(* The initial state.                                                      *)
(***************************************************************************)
LEMMA InitTracked == Init => Tracked /\ ReleasedAfterwards
<1> SUFFICES ASSUME Init PROVE Tracked /\ ReleasedAfterwards
  OBVIOUS
<1>1. Typed
  BY InitTyped
<1>2. \A s \in Slots : table[s] \in Foreign \cup {None}
  BY DEF Init
<1>3. \A k \in Kinds : Mine(k) \notin Foreign \cup {None}
  BY <1>1, MineFacts
<1>4. SoFar
  BY <1>2, RunsOfParts DEF Init, SoFar
<1>5. MadeOnce
  BY <1>2, <1>3 DEF Init, MadeOnce, OnTable, Numbers, Creating, Working, LaterSteps
<1>6. Recorded
  BY DEF Init, Recorded, Working, LaterSteps
<1>7. MapperOurs /\ MountedOurs /\ Filled
  <2>1. step \notin AfterOpen /\ step \notin AfterTop /\ step \notin AfterRoot
    BY DEF Init, AfterOpen, AfterTop, AfterRoot
  <2>2. mapper.run # run
    BY RunsOfParts DEF Init
  <2> QED
    BY <2>1, <2>2 DEF Init, MapperOurs, MountedOurs, Filled, Earlier
<1>8. ReleasedAfterwards
  BY DEF Init, ReleasedAfterwards
<1> QED
  BY <1>4, <1>5, <1>6, <1>7, <1>8 DEF Tracked

(***************************************************************************)
(* run_partition_execute after the partitions.                             *)
(***************************************************************************)
\* What these steps do to the list: nothing.
LEMMA ListKept ==
  ASSUME Strong, UNCHANGED <<table, run, making, created, num>>, step \in Working \ Creating,
         step' \notin Creating \cup {"decide"}
  PROVE  MadeOnce' /\ Recorded'
<1> USE DEF Strong, Tracked
<1>1. MadeOnce'
  BY DEF MadeOnce, Mine, OnTable, Numbers, Creating
<1>2. Recorded'
  BY DEF Recorded, Mine
<1> QED
  BY <1>1, <1>2

\* Before the root is open, and nothing is mounted.
LEMMA EarlyTracked ==
  ASSUME Strong, FlagEsp \/ WipeEsp \/ WipeRoot \/ FormatLuks
  PROVE  Tracked'
<1> USE DEF Strong, Tracked, Goto
<1>1. /\ step \in {"flag", "wipe esp", "wipe root", "luks"}
      /\ step' \in {"wipe esp", "wipe root", "luks", "open", "mkfs"}
      /\ step' = "mkfs" => ~encrypt
      /\ step' \in {"luks", "open"} => encrypt
      /\ UNCHANGED <<table, removed, holders, outside, run, process>>
  BY DEF FlagEsp, WipeEsp, WipeRoot, FormatLuks, MapperOurs, AtWork, Working, LaterSteps
<1>2. MadeOnce' /\ Recorded'
  BY <1>1, ListKept DEF Working, LaterSteps, Creating
<1>3. SoFar'
  BY <1>1 DEF SoFar
<1>4. MapperOurs'
  BY <1>1 DEF MapperOurs, AtWork, Working, LaterSteps, AfterOpen, AfterTop, AfterRoot
<1>5. MountedOurs' /\ Filled'
  BY <1>1 DEF MountedOurs, Filled, AtWork, Working, LaterSteps, AfterTop, AfterRoot, Earlier
<1> QED
  BY <1>2, <1>3, <1>4, <1>5

LEMMA OpenTracked ==
  ASSUME Strong, Open \/ MkfsBtrfs
  PROVE  Tracked'
<1> USE DEF Strong, Tracked, Goto
<1>1. /\ step \in {"open", "mkfs"} /\ step' \in {"mkfs", "mount top"}
      /\ UNCHANGED <<table, mounts, run, process>>
  BY DEF Open, MkfsBtrfs
<1>2. MadeOnce' /\ Recorded'
  BY <1>1, ListKept DEF Working, LaterSteps, Creating
<1>3. MountedOurs' /\ Filled'
  BY <1>1 DEF MountedOurs, Filled, AtWork, Working, LaterSteps, AfterTop, AfterRoot, Earlier
<1>4. MapperOurs' /\ SoFar'
  <2>1. CASE Open
    <3>1. mapper' = Mine("root") /\ encrypt
      BY <2>1, DeviceIsOurs DEF Open, Working, LaterSteps, Creating, MapperOurs, AtWork
    <3>2. SoFar'
      <4>1. Mine("root").run <= run
        BY MineFacts DEF Kinds
      <4> QED
        BY <1>1, <3>1, <4>1 DEF SoFar
    <3>3. MapperOurs'
      BY <1>1, <2>1, <3>1 DEF Open, MapperOurs, AfterOpen, Mine
    <3> QED
      BY <3>2, <3>3
  <2>2. CASE MkfsBtrfs
    <3>1. UNCHANGED <<mapper, mounts, table, run, encrypt>>
      BY <2>2 DEF MkfsBtrfs
    <3>2. SoFar'
      BY <3>1 DEF SoFar
    <3>3. step = "mkfs" /\ step' = "mount top"
      BY <2>2 DEF MkfsBtrfs
    <3>4. MapperOurs'
      BY <3>1, <3>3 DEF MapperOurs, AtWork, Working, LaterSteps, AfterOpen, Mine
    <3> QED
      BY <3>2, <3>4
  <2> QED
    BY <2>1, <2>2
<1> QED
  BY <1>2, <1>3, <1>4

LEMMA TopTracked ==
  ASSUME Strong, MountTop
  PROVE  Tracked'
<1> USE DEF Strong, Tracked, Goto
<1>1. /\ step = "mount top" /\ step' = "subvolumes"
      /\ UNCHANGED <<table, mapper, run, process>>
  BY DEF MountTop
<1>2. MadeOnce' /\ Recorded'
  BY <1>1, ListKept DEF Working, LaterSteps, Creating
<1>3. MapperOurs' /\ Filled'
  BY <1>1 DEF MapperOurs, Filled, AtWork, Working, LaterSteps, AfterOpen, AfterTop, AfterRoot, Mine
<1> DEFINE new == [at |-> "top", dev |-> Mine("root"), under |-> TopTree(mounts)]
<1>4. mounts' = mounts \cup {new}
  <2>1. RootDevice = Mine("root")
    BY <1>1, DeviceIsOurs DEF MountTop, Mount, Working, LaterSteps, Creating, AfterOpen
  <2> QED
    BY <2>1 DEF MountTop, Mount
<1>5. \A mt \in mounts : mt.under # run /\ mt.dev.run # run
  BY <1>1 DEF MountedOurs, AtWork, Working, LaterSteps, AfterTop, AfterRoot
<1>6. TopTree(mounts) \in 0..run /\ TopTree(mounts) # run
  BY <1>5, TopTreeSoFar, MineFacts DEF Kinds
<1>7. new.at = "top" /\ new.dev = Mine("root") /\ new.under = TopTree(mounts)
  OBVIOUS
<1> HIDE DEF new
<1>8. Earlier' = mounts'
  BY <1>1, <1>4, <1>5, <1>6, <1>7 DEF Earlier
<1>9. OurTop' = new
  <2>1. {mt \in mounts' : mt.at = "root"} = {mt \in mounts : mt.at = "root"}
    BY <1>4, <1>7
  <2>2. TopTree(mounts') = TopTree(mounts)
    BY <2>1, TopTreeOfRoots
  <2>3. TopTree(Earlier') = TopTree(mounts)
    BY <1>8, <2>2
  <2>4. OurTop' = [at |-> "top", dev |-> Mine("root")', under |-> TopTree(Earlier')]
    BY DEF OurTop, TopTree
  <2> QED
    BY <1>1, <2>3, <2>4 DEF new, Mine
<1>10. MountedOurs'
  BY <1>1, <1>4, <1>5, <1>6, <1>7, <1>8, <1>9 DEF MountedOurs, AfterTop, AfterRoot
<1>11. SoFar'
  <2>1. Mine("root").run <= run /\ TopTree(mounts) <= run
    BY <1>6, MineFacts DEF Kinds
  <2> QED
    BY <1>1, <1>4, <1>6, <1>7, <2>1 DEF SoFar
<1> QED
  BY <1>2, <1>3, <1>10, <1>11

\* What /mnt/btrfs-root shows is this run's top level.
LEMMA LastTopIsOurs ==
  ASSUME Strong, step = "subvolumes"
  PROVE  OurTop \in LastTop(mounts) /\ \A mt \in LastTop(mounts) : mt = OurTop
<1> USE DEF Strong, Tracked
<1>1. OurTop \in mounts /\ Earlier = mounts /\ \A mt \in mounts : mt.dev.run = run => mt = OurTop
  BY DEF MountedOurs, AtWork, Working, LaterSteps, AfterTop, AfterRoot, Earlier
<1>2. OurTop.at = "top" /\ OurTop.dev.run = run /\ OurTop.under = TopTree(mounts)
  BY <1>1, MineFacts DEF OurTop, Kinds
<1>3. \A mt \in mounts : mt.dev.run <= run /\ mt.dev.run \in Nat
  BY RunsOfParts DEF SoFar, Typed, TypeOK
<1>4. OurTop \in LastTop(mounts)
  BY <1>1, <1>2, <1>3 DEF LastTop
<1>5. run \in Nat
  BY MineFacts DEF Kinds
<1>6. \A mt \in LastTop(mounts) : mt \in mounts /\ OurTop.dev.run <= mt.dev.run
  BY <1>1, <1>2 DEF LastTop
<1> QED
  BY <1>1, <1>2, <1>3, <1>4, <1>5, <1>6

LEMMA SubvolumesTracked ==
  ASSUME Strong, MakeSubvolumes
  PROVE  Tracked'
<1> USE DEF Strong, Tracked, Goto
<1>1. /\ step = "subvolumes" /\ step' = "umount top"
      /\ UNCHANGED <<table, mapper, mounts, run, process>>
  BY DEF MakeSubvolumes
<1>2. MadeOnce' /\ Recorded'
  BY <1>1, ListKept DEF Working, LaterSteps, Creating
<1>3. MapperOurs'
  BY <1>1 DEF MapperOurs, AtWork, Working, LaterSteps, AfterOpen, AfterTop, Mine
<1>4. SoFar'
  BY <1>1 DEF SoFar
<1>5. MountedOurs'
  <2>1. Earlier' = Earlier /\ OurTop' = OurTop
    BY <1>1 DEF Earlier, OurTop, Mine, TopTree
  <2> QED
    BY <1>1, <2>1 DEF MountedOurs, AtWork, Working, LaterSteps, AfterTop, AfterRoot
<1>6. Filled'
  <2>1. \A mt \in LastTop(mounts) : mt.dev = Mine("root")
    <3>1. OurTop.dev = Mine("root")
      BY DEF OurTop
    <3> QED
      BY <1>1, <3>1, LastTopIsOurs
  <2>2. data' = [data EXCEPT ![Mine("root")] = "subvolumes"]
    BY <2>1 DEF MakeSubvolumes
  <2>3. Mine("root") \in Parts
    BY MineFacts DEF Kinds
  <2>4. data'[Mine("root")] = "subvolumes"
    BY <2>2, <2>3 DEF Typed, TypeOK
  <2> QED
    BY <1>1, <2>4 DEF Filled, AfterRoot, Mine
<1> QED
  BY <1>2, <1>3, <1>4, <1>5, <1>6

\* Taking a top level away leaves every tree as it was.
LEMMA UmountTopTracked ==
  ASSUME Strong, UmountTheTop
  PROVE  Tracked'
<1> USE DEF Strong, Tracked, Goto
<1>1. /\ step = "umount top" /\ step' = "mount root"
      /\ UNCHANGED <<disk, mapper, run, process>>
  BY DEF UmountTheTop
<1>2. MadeOnce' /\ Recorded'
  BY <1>1, ListKept DEF Working, LaterSteps, Creating
<1>3. MapperOurs' /\ Filled'
  BY <1>1 DEF MapperOurs, Filled, AtWork, Working, LaterSteps, AfterOpen, AfterTop, AfterRoot, Mine
<1>4. mounts' \subseteq mounts /\ \A mt \in mounts : mt.at = "root" => mt \in mounts'
  BY DEF UmountTheTop, UmountTop, LastTop
<1>5. SoFar'
  BY <1>1, <1>4 DEF SoFar
<1>6. Earlier' \subseteq Earlier
  BY <1>1, <1>4 DEF Earlier
<1>7. OurTop' = OurTop
  <2>1. {mt \in Earlier' : mt.at = "root"} = {mt \in Earlier : mt.at = "root"}
    BY <1>1, <1>4 DEF Earlier
  <2>2. TopTree(Earlier') = TopTree(Earlier)
    BY <2>1, TopTreeOfRoots
  <2> QED
    BY <1>1, <2>2 DEF OurTop, Mine, TopTree
<1>8. MountedOurs'
  BY <1>1, <1>4, <1>6, <1>7 DEF MountedOurs, AtWork, Working, LaterSteps, AfterTop, AfterRoot
<1> QED
  BY <1>2, <1>3, <1>5, <1>8

\* A mount in this run's own tree is not among the earlier ones.
LEMMA OwnTreeKept ==
  ASSUME Strong, NEW at, NEW p, mounts' = mounts \cup {[at |-> at, dev |-> p, under |-> run]},
         p.run <= run, UNCHANGED <<table, mapper, run>>
  PROVE  SoFar' /\ Earlier' = Earlier /\ OurTop' = OurTop /\ OurRoot' = OurRoot
<1> USE DEF Strong, Tracked
<1>1. run <= run
  BY MineFacts DEF Kinds
<1>2. SoFar'
  BY <1>1 DEF SoFar
<1>3. Earlier' = Earlier
  BY DEF Earlier
<1>4. OurTop' = OurTop
  <2>1. TopTree(Earlier') = TopTree(Earlier)
    BY <1>3
  <2> QED
    BY <2>1 DEF OurTop, Mine, TopTree
<1> QED
  BY <1>2, <1>3, <1>4 DEF OurRoot, Mine

LEMMA RootTracked ==
  ASSUME Strong, MountRoot \/ MountRest
  PROVE  Tracked'
<1> USE DEF Strong, Tracked, Goto
<1>1. PICK at \in {"root", "home", "log", "pkg"} :
        /\ \/ at = "root" /\ step = "mount root" /\ step' = "mount home"
           \/ at = "home" /\ step = "mount home" /\ step' = "mount log"
           \/ at = "log"  /\ step = "mount log"  /\ step' = "mount pkg"
           \/ at = "pkg"  /\ step = "mount pkg"  /\ step' = "fat"
        /\ Mount(at, RootDevice)
        /\ UNCHANGED <<disk, mapper, run, process>>
  BY DEF MountRoot, MountRest
<1>2. MadeOnce' /\ Recorded'
  BY <1>1, ListKept DEF Working, LaterSteps, Creating
<1>3. MapperOurs'
  BY <1>1 DEF MapperOurs, AtWork, Working, LaterSteps, AfterOpen, AfterTop, AfterRoot, Mine
<1>4. mounts' = mounts \cup {[at |-> at, dev |-> Mine("root"), under |-> run]}
  <2>1. RootDevice = Mine("root")
    BY <1>1, DeviceIsOurs DEF Mount, Working, LaterSteps, Creating, AfterOpen, AfterTop, AfterRoot
  <2> QED
    BY <1>1, <2>1 DEF Mount
<1>5. SoFar' /\ Earlier' = Earlier /\ OurTop' = OurTop /\ OurRoot' = OurRoot
  <2>1. Mine("root").run <= run
    BY MineFacts DEF Kinds
  <2> QED
    BY <1>1, <1>4, <2>1, OwnTreeKept
<1>6. MountedOurs'
  BY <1>1, <1>4, <1>5 DEF MountedOurs, AtWork, Working, LaterSteps, AfterTop, AfterRoot, OurRoot
<1>7. Filled'
  BY <1>1, <1>4 DEF Filled, MountedAt, AfterRoot, Mine
<1> QED
  BY <1>2, <1>3, <1>5, <1>6, <1>7

\* mkfs.fat tells the ESP from the root by what is mounted: where the ESP was
\* deleted and its number given to the root, the root is in use by now.
LEMMA FatTracked ==
  ASSUME Strong, MkfsFat
  PROVE  Tracked'
<1> USE DEF Strong, Tracked, Goto
<1>1. /\ step = "fat" /\ step' = "mount esp"
      /\ UNCHANGED <<table, mapper, mounts, run, process>>
  BY DEF MkfsFat
<1>2. MadeOnce' /\ Recorded'
  BY <1>1, ListKept DEF Working, LaterSteps, Creating
<1>3. MapperOurs'
  BY <1>1 DEF MapperOurs, AtWork, Working, LaterSteps, AfterOpen, AfterTop, AfterRoot, Mine
<1>4. SoFar'
  BY <1>1 DEF SoFar
<1>5. MountedOurs'
  <2>1. Earlier' = Earlier /\ OurTop' = OurTop /\ OurRoot' = OurRoot
    BY <1>1 DEF Earlier, OurTop, OurRoot, Mine, TopTree
  <2> QED
    BY <1>1, <2>1 DEF MountedOurs, AtWork, Working, LaterSteps, AfterTop, AfterRoot
<1>6. Node("esp") = Mine("esp")
  <2>1. Busy(Mine("root"), mounts, mapper)
    <3>1. OurRoot \in mounts /\ OurRoot.dev = Mine("root")
      BY <1>1 DEF MountedOurs, AtWork, Working, LaterSteps, AfterRoot, OurRoot
    <3> QED
      BY <3>1 DEF Busy
  <2>2. Node("esp") # None /\ Node("esp") # Mine("root")
    BY <2>1 DEF MkfsFat, Overwrite
  <2> QED
    BY <1>1, <2>2, DeviceIsOurs DEF Working, LaterSteps, Creating
<1>7. num["esp"] # num["root"] /\ table[num["esp"]] = Mine("esp")
  <2>1. num["esp"] # 0 /\ num["root"] # 0
    BY <1>1 DEF MadeOnce, Working, LaterSteps, Creating
  <2>2. table[num["esp"]] = Mine("esp")
    BY <1>6, <2>1 DEF Node
  <2>3. table[num["root"]] \in {Mine("root"), None}
    BY <1>1, <2>1 DEF Recorded, Working, LaterSteps
  <2>4. Mine("esp") # Mine("root") /\ Mine("esp") # None
    BY MineFacts DEF Kinds
  <2> QED
    BY <2>2, <2>3, <2>4
<1>8. data'[Mine("esp")] = "fat" /\ data'[Mine("root")] = data[Mine("root")]
  <2>1. data' = [data EXCEPT ![Mine("esp")] = "fat"]
    BY <1>6 DEF MkfsFat, Overwrite
  <2>2. Mine("esp") \in Parts /\ Mine("root") \in Parts /\ Mine("esp") # Mine("root")
    BY MineFacts DEF Kinds
  <2> QED
    BY <2>1, <2>2 DEF Typed, TypeOK
<1>9. Filled'
  BY <1>1, <1>7, <1>8 DEF Filled, MountedAt, AfterRoot, Mine
<1> QED
  BY <1>2, <1>3, <1>4, <1>5, <1>9

LEMMA EspTracked ==
  ASSUME Strong, MountEsp
  PROVE  Tracked'
<1> USE DEF Strong, Tracked, Goto
<1>1. /\ step = "mount esp" /\ step' = "handover"
      /\ UNCHANGED <<disk, mapper, run, process>>
  BY DEF MountEsp
<1>2. MadeOnce' /\ Recorded'
  BY <1>1, ListKept DEF Working, LaterSteps, Creating
<1>3. MapperOurs'
  BY <1>1 DEF MapperOurs, AtWork, Working, LaterSteps, AfterOpen, AfterTop, AfterRoot, Mine
<1>4. mounts' = mounts \cup {[at |-> "esp", dev |-> Mine("esp"), under |-> run]}
  <2>1. Node("esp") \in {Mine("esp"), None}
    BY <1>1 DEF Filled, Node
  <2> QED
    BY <1>1, <2>1 DEF MountEsp, Mount
<1>5. SoFar' /\ Earlier' = Earlier /\ OurTop' = OurTop /\ OurRoot' = OurRoot
  <2>1. Mine("esp").run <= run
    BY MineFacts DEF Kinds
  <2> QED
    BY <1>1, <1>4, <2>1, OwnTreeKept
<1>6. MountedOurs'
  BY <1>1, <1>4, <1>5 DEF MountedOurs, AtWork, Working, LaterSteps, AfterTop, AfterRoot, OurRoot
<1>7. Filled'
  BY <1>1, <1>4 DEF Filled, MountedAt, AfterRoot, Mine
<1> QED
  BY <1>2, <1>3, <1>5, <1>6, <1>7

LEMMA HandOverTracked ==
  ASSUME Strong, HandOver
  PROVE  Tracked'
<1> USE DEF Strong, Tracked, Goto
<1>1. /\ step = "handover" /\ step' = "handed"
      /\ UNCHANGED <<disk, holders, run, process>>
  BY DEF HandOver
<1>2. MadeOnce' /\ Recorded'
  BY <1>1, ListKept DEF Working, LaterSteps, Creating
<1>3. MapperOurs' /\ SoFar'
  BY <1>1 DEF MapperOurs, SoFar, AtWork, Working, LaterSteps, AfterOpen, AfterTop, AfterRoot, Mine
<1>4. MountedOurs'
  <2>1. Earlier' = Earlier /\ OurTop' = OurTop /\ OurRoot' = OurRoot
    BY <1>1 DEF Earlier, OurTop, OurRoot, Mine, TopTree
  <2> QED
    BY <1>1, <2>1 DEF MountedOurs, AtWork, Working, LaterSteps, AfterTop, AfterRoot
<1>5. Filled'
  BY <1>1 DEF Filled, MountedAt, AfterRoot, Mine
<1> QED
  BY <1>2, <1>3, <1>4, <1>5

(***************************************************************************)
(* disk_abort_hook.                                                        *)
(***************************************************************************)
\* What it unmounts leaves nothing mounted from this run's partitions.
LEMMA HookUnmounts ==
  ASSUME Strong, step \in Working
  PROVE  \A mt \in UmountTop(UmountMnt(mounts)) : mt.dev.run # run
<1> USE DEF Strong, Tracked
<1> SUFFICES ASSUME NEW mt \in UmountTop(UmountMnt(mounts)), mt.dev.run = run
             PROVE  FALSE
  OBVIOUS
<1> DEFINE left == UmountMnt(mounts)
<1>1. mt \in left /\ mt \notin LastTop(left) /\ left \subseteq mounts
  BY DEF UmountTop, UmountMnt
<1>2. run \in Nat /\ run > 0
  BY MineFacts DEF Kinds
<1>3. \A x \in mounts : x.dev.run <= run
  BY DEF SoFar
<1>4. TopTree(mounts) = 0 \/ mt.under # TopTree(mounts)
  BY <1>1 DEF UmountMnt
<1>5. step \in AfterRoot => TopTree(mounts) = run
  <2> SUFFICES ASSUME step \in AfterRoot PROVE TopTree(mounts) = run
    OBVIOUS
  <2>1. OurRoot \in mounts /\ OurRoot.at = "root" /\ OurRoot.under = run
    BY DEF MountedOurs, AtWork, OurRoot
  <2>2. run <= TopTree(mounts) /\ TopTree(mounts) \in 0..run
    BY <2>1, TopTreeSoFar
  <2> QED
    BY <1>2, <2>2
<1>6. mt \in Earlier
  <2>1. step \notin AfterRoot => mt.under # run
    BY <1>1 DEF MountedOurs, AtWork
  <2>2. step \in AfterRoot => mt.under # run
    BY <1>2, <1>4, <1>5
  <2> QED
    BY <1>1, <2>1, <2>2 DEF Earlier
<1>7. mt = OurTop
  BY <1>6 DEF MountedOurs, AtWork
<1>8. mt.at = "top" /\ mt.under = TopTree(Earlier)
  BY <1>7 DEF OurTop
<1>9. TopTree(left) = TopTree(Earlier)
  <2>1. CASE step \in AfterRoot
    <3>1. left = Earlier
      BY <1>2, <1>5, <2>1 DEF UmountMnt, Earlier
    <3> QED
      BY <3>1
  <2>2. CASE step \notin AfterRoot
    <3>1. Earlier = mounts
      BY <2>2 DEF MountedOurs, AtWork, Earlier
    <3>2. TopTree(mounts) = 0
      BY <1>4, <1>8, <3>1
    <3>3. left = mounts
      BY <3>2 DEF UmountMnt
    <3> QED
      BY <3>1, <3>3
  <2> QED
    BY <2>1, <2>2
<1>10. mt \in LastTop(left)
  BY <1>1, <1>3, <1>8, <1>9 DEF LastTop
<1> QED
  BY <1>1, <1>10

LEMMA HookTracked ==
  ASSUME Strong, Hook, step \in Working, UNCHANGED <<run, num>>
  PROVE  Tracked' /\ ReleasedAfterwards'
<1> USE DEF Strong, Tracked
<1> DEFINE left == UmountTop(UmountMnt(mounts))
<1>1. step' = "aborted" /\ mounts' = left /\ mapper' = Closed(left) /\ table' = RolledBack(left, Closed(left))
  BY DEF Hook
<1>2. left \subseteq mounts /\ Closed(left) \in {mapper, None}
  BY DEF UmountTop, UmountMnt, Closed
<1>3. \A mt \in left : mt.dev.run # run
  BY HookUnmounts
<1>4. Closed(left).run # run
  <2>1. None.run # run
    BY RunsOfParts, MineFacts DEF Kinds
  <2> QED
    BY <1>3, <2>1 DEF Closed
<1>5. \A s \in Slots : table'[s] \in {table[s], None}
  BY <1>1 DEF RolledBack
<1>6. \A k \in Kinds, s \in Slots : num[k] # 0 => table'[s] # Mine(k)
  <2> SUFFICES ASSUME NEW k \in Kinds, NEW s \in Slots, num[k] # 0, table'[s] = Mine(k)
               PROVE  FALSE
    OBVIOUS
  <2>1. Mine(k) # None /\ Mine(k).run = run
    BY MineFacts
  <2>2. table[s] = Mine(k)
    BY <1>5, <2>1
  <2>3. s \in {created[i] : i \in DOMAIN created}
    BY <2>2 DEF Recorded
  <2>4. ~Busy(table[s], left, Closed(left))
    BY <1>3, <1>4, <2>1, <2>2 DEF Busy
  <2>5. table'[s] = None
    BY <1>1, <2>3, <2>4 DEF RolledBack
  <2> QED
    BY <2>1, <2>5
<1>7. ReleasedAfterwards'
  <2>1. \A k \in Kinds : num[k] # 0 => Mine(k) \notin OnTable'
    BY <1>6 DEF OnTable, Numbers
  <2>2. mapper' # Mine("root")
    BY <1>1, <1>4, MineFacts DEF Kinds
  <2>3. Mine("root")' = Mine("root") /\ \A k \in Kinds : Mine(k)' = Mine(k)
    BY DEF Mine
  <2> QED
    BY <1>1, <1>3, <2>1, <2>2, <2>3 DEF ReleasedAfterwards
<1>8. SoFar'
  <2>1. None.run <= run
    BY RunsOfParts, MineFacts DEF Kinds
  <2> QED
    BY <1>1, <1>2, <1>5, <2>1 DEF SoFar
<1>9. MadeOnce'
  <2>1. \A k \in Kinds : Mine(k)' = Mine(k) /\ Mine(k) # None
    BY MineFacts DEF Mine
  <2> QED
    BY <1>1, <1>5, <2>1 DEF MadeOnce, Creating, Working, LaterSteps
<1>10. Recorded' /\ MapperOurs' /\ MountedOurs' /\ Filled'
  BY <1>1 DEF Recorded, MapperOurs, MountedOurs, Filled, AtWork, Working, LaterSteps, AfterRoot
<1> QED
  BY <1>7, <1>8, <1>9, <1>10

(***************************************************************************)
(* create_partition.                                                       *)
(***************************************************************************)
\* While partitions are made nothing of this run is open or mounted.
LEMMA HeldKept ==
  ASSUME Strong, UNCHANGED <<holders, run, encrypt, data, num>> \/ UNCHANGED <<holders, run, encrypt>>,
         step \in Creating \cup {"decide"}, step' \in Creating \cup {"flag"}
  PROVE  MapperOurs' /\ MountedOurs' /\ Filled'
<1> USE DEF Strong, Tracked
<1>1. MapperOurs'
  BY DEF MapperOurs, AtWork, Working, LaterSteps, AfterOpen, AfterTop, AfterRoot, Creating
<1>2. MountedOurs' /\ Filled'
  BY DEF MountedOurs, Filled, AtWork, Working, LaterSteps, AfterTop, AfterRoot, Creating, Earlier
<1> QED
  BY <1>1, <1>2

LEMMA ReadTracked ==
  ASSUME Strong, ReadBefore
  PROVE  Tracked'
<1> USE DEF Strong, Tracked
<1>1. /\ step = "read" /\ step' = "mkpart"
      /\ UNCHANGED <<disk, holders, run, encrypt, making, created, num>>
  BY DEF ReadBefore
<1>2. MadeOnce' /\ Recorded'
  BY <1>1 DEF MadeOnce, Recorded, Mine, OnTable, Numbers, Creating, Working
<1>3. SoFar'
  BY <1>1 DEF SoFar
<1> QED
  BY <1>1, <1>2, <1>3, HeldKept DEF Creating

LEMMA WriteTracked ==
  ASSUME Strong, MkPart \/ MkPartHalfFails
  PROVE  Tracked'
<1> USE DEF Strong, Tracked
<1> DEFINE new == LowestFree
           p   == Mine(making)
<1>1. /\ step = "mkpart" /\ step' \in {"check", "halfmade"} /\ Write
      /\ UNCHANGED <<holders, run, process>>
  BY DEF MkPart, MkPartHalfFails
<1>2. new \in Slots /\ table[new] = None
  <2>1. Slots \ Numbers # {}
    BY <1>1 DEF Write, Numbers
  <2>2. new \in Slots \ Numbers
    BY <2>1, LowestIsMember DEF LowestFree
  <2> QED
    BY <2>2 DEF Numbers
<1>3. \A s \in Slots : table'[s] = IF s = new THEN p ELSE table[s]
  BY <1>1, <1>2 DEF Write, Typed, TypeOK
<1>4. making \in Kinds /\ p # None /\ p.run = run /\ run <= run
  BY MineFacts DEF Typed, TypeOK
<1>5. \A s \in Slots : table[s] # p
  BY <1>1, <1>4 DEF MadeOnce, OnTable, Numbers
<1> HIDE DEF new
<1>6. SoFar'
  BY <1>1, <1>3, <1>4 DEF SoFar
<1>7. \A k \in Kinds : Mine(k)' = Mine(k) /\ Mine(k).kind = k
  BY <1>1, MineFacts DEF Mine
<1>8. MadeOnce'
  <2>1. \A k \in Kinds, s, t \in Slots : table'[s] = Mine(k) /\ table'[t] = Mine(k) => s = t
    BY <1>3, <1>5, <1>7 DEF MadeOnce
  <2>2. making = "esp" => \A s \in Slots : table'[s] # Mine("root")
    <3> SUFFICES ASSUME making = "esp", NEW s \in Slots, table'[s] = Mine("root") PROVE FALSE
      OBVIOUS
    <3>1. Mine("root") # p /\ Mine("root") # None
      BY <1>7, MineFacts DEF Kinds
    <3>2. table[s] = Mine("root")
      BY <1>3, <3>1
    <3> QED
      BY <1>1, <3>1, <3>2 DEF MadeOnce, OnTable, Numbers, Creating
  <2>3. making = "esp" => Mine("root") \notin OnTable'
    BY <2>2 DEF OnTable, Numbers
  <2>4. num["root"] = 0 /\ (num["esp"] = 0 <=> making = "esp")
    BY <1>1 DEF MadeOnce, Creating
  <2> QED
    BY <1>1, <1>7, <2>1, <2>3, <2>4 DEF MadeOnce, Creating, Kinds
<1>9. Recorded'
  <2>1. num["root"] = 0 /\ (num["esp"] # 0 => making = "root")
    BY <1>1, <1>4 DEF MadeOnce, Creating, Kinds
  <2>2. num["esp"] # 0 =>
          /\ \E i \in DOMAIN created : created[i] = num["esp"]
          /\ \A s \in Slots : table[s] = Mine("esp") => s = num["esp"]
          /\ table[num["esp"]] \in {Mine("esp"), Mine("root"), None}
    BY <1>1 DEF Recorded, Kinds, Working
  <2>3. num["esp"] # 0 => num["esp"] \in Slots
    BY DEF Typed, TypeOK, Kinds
  <2>4. num["esp"] # 0 =>
          /\ \A s \in Slots : table'[s] = Mine("esp") => s = num["esp"]
          /\ table'[num["esp"]] \in {Mine("esp"), Mine("root"), None}
    BY <1>3, <1>7, <2>1, <2>2, <2>3 DEF Kinds
  <2> QED
    BY <1>1, <1>7, <2>1, <2>2, <2>4 DEF Recorded, Kinds
<1> QED
  BY <1>1, <1>6, <1>8, <1>9, HeldKept DEF Creating

\* The number recorded is this run's, by the count.
LEMMA RecordTracked ==
  ASSUME Strong, Record
  PROVE  Tracked'
<1> USE DEF Strong, Tracked
<1>1. PICK s \in Slots \ before : table[s] = Mine(making) /\ Numbers = before \cup {s}
  BY DEF Record, OneMore, Inv, Counted
<1>2. NewNumber = s
  <2>1. Numbers \ before = {s}
    BY <1>1
  <2> QED
    BY <2>1, LowestIsMember DEF NewNumber
<1>3. /\ step = "check" /\ created' = Append(created, s) /\ num' = [num EXCEPT ![making] = s]
      /\ UNCHANGED <<disk, holders, run, encrypt>>
      /\ \/ making = "esp" /\ making' = "root" /\ step' = "read"
         \/ making = "root" /\ making' = "root" /\ step' = "flag"
  BY <1>2 DEF Record, Typed, TypeOK, Kinds
<1>4. s # 0
  BY DEF Slots
<1>5. num["root"] = 0 /\ (num["esp"] = 0 <=> making = "esp")
  BY <1>3 DEF MadeOnce, Creating
<1>6. /\ num'[making] = s
      /\ making = "root" => num'["esp"] = num["esp"]
      /\ making = "esp" => num'["root"] = 0
  BY <1>3, <1>5 DEF Typed, TypeOK, Kinds
<1>7. \A k \in Kinds : Mine(k)' = Mine(k)
  BY <1>3 DEF Mine
<1>8. OnTable' = OnTable
  BY <1>3 DEF OnTable, Numbers
<1>9. MadeOnce'
  <2>1. making = "esp" => Mine("root") \notin OnTable
    BY <1>3 DEF MadeOnce, Creating
  <2> QED
    BY <1>3, <1>4, <1>5, <1>6, <1>7, <1>8, <2>1 DEF MadeOnce, Creating, Working, LaterSteps, Kinds
<1>10. Recorded'
  <2>1. \A k \in Kinds, t \in Slots : table[t] = Mine(k) /\ table[s] = Mine(k) => t = s
    BY DEF MadeOnce
  <2>2. \E i \in DOMAIN created' : created'[i] = s
    BY <1>3 DEF Typed, TypeOK
  <2>3. \A i \in DOMAIN created : i \in DOMAIN created' /\ created'[i] = created[i]
    BY <1>3 DEF Typed, TypeOK
  <2>4. making = "root" =>
          /\ \E i \in DOMAIN created' : created'[i] = num["esp"]
          /\ \A t \in Slots : table[t] = Mine("esp") => t = num["esp"]
          /\ table[num["esp"]] \in {Mine("esp"), Mine("root"), None}
    BY <1>3, <1>5, <2>3 DEF Recorded, Working, Kinds
  <2> QED
    BY <1>1, <1>3, <1>6, <1>7, <2>1, <2>2, <2>4 DEF Recorded, Kinds
<1>11. SoFar'
  BY <1>3 DEF SoFar
<1> QED
  BY <1>3, <1>9, <1>10, <1>11, HeldKept DEF Creating

(***************************************************************************)
(* The one change from outside, and what comes of a run.                   *)
(***************************************************************************)
\* Where it bites the slot of a recorded partition it can only empty it.
LEMMA OutsideTracked ==
  ASSUME Strong, MaxOutside <= 1, OutsideChange
  PROVE  Tracked'
<1> USE DEF Strong, Tracked
<1>1. /\ outside # MaxOutside /\ step \in Working /\ step' = step
      /\ UNCHANGED <<holders, run, process>>
  BY ParametersAssumption DEF OutsideChange, Typed, TypeOK
<1>2. \A s \in Slots : table'[s] = table[s] \/ table'[s] = None \/ (table[s] = None /\ table'[s] \in Foreign)
  BY DEF OutsideChange, Numbers, Typed, TypeOK
<1>3. \A k \in Kinds : Mine(k)' = Mine(k) /\ Mine(k) # None /\ Mine(k) \notin Foreign /\ Mine(k) \in Parts
  BY <1>1, MineFacts DEF Mine
<1>4. \A k \in Kinds, s \in Slots : table'[s] = Mine(k) => table[s] = Mine(k)
  BY <1>2, <1>3
<1>5. \A k \in Kinds : num[k] # 0 => table'[num[k]] \in {table[num[k]], None}
  <2>1. \A k \in Kinds : num[k] # 0 => table[num[k]] # None /\ num[k] \in Slots
    BY <1>1 DEF Inv, RecordedOurs, Kept, ProcessType
  <2> QED
    BY <1>2, <2>1
<1>6. SoFar'
  <2>1. None.run = 0 /\ (\A p \in Foreign : p.run = 0) /\ run \in Nat
    BY RunsOfParts, MineFacts DEF Kinds
  <2> QED
    BY <1>1, <1>2, <2>1 DEF SoFar
<1>7. MadeOnce'
  <2>1. \A k \in Kinds : Mine(k) \notin OnTable => Mine(k) \notin OnTable'
    BY <1>3, <1>4 DEF OnTable, Numbers
  <2>2. making \in Kinds
    BY DEF Typed, TypeOK
  <2> QED
    BY <1>1, <1>3, <1>4, <2>1, <2>2 DEF MadeOnce, Kinds
<1>8. Recorded'
  BY <1>1, <1>3, <1>4, <1>5 DEF Recorded, Kinds
<1>9. MapperOurs'
  BY <1>1, <1>3 DEF MapperOurs, Kinds
<1>10. MountedOurs'
  <2>1. Earlier' = Earlier /\ OurTop' = OurTop /\ OurRoot' = OurRoot
    BY <1>1 DEF Earlier, OurTop, OurRoot, Mine, TopTree
  <2> QED
    BY <1>1, <2>1 DEF MountedOurs
<1>11. Filled'
  <2>1. \A k \in Kinds : data'[Mine(k)] = data[Mine(k)]
    BY <1>3 DEF OutsideChange, Typed, TypeOK
  <2>2. step \in {"mount esp", "handover", "handed"} => table'[num["esp"]] \in {table[num["esp"]], None} /\ num["esp"] # 0
    BY <1>1, <1>5 DEF MadeOnce, Working, LaterSteps, Creating, Kinds
  <2> QED
    BY <1>1, <1>3, <2>1, <2>2 DEF Filled, MountedAt, Kinds
<1> QED
  BY <1>6, <1>7, <1>8, <1>9, <1>10, <1>11

LEMMA ReclaimTracked ==
  ASSUME Strong, UserReclaims
  PROVE  Tracked'
<1> USE DEF Strong, Tracked
<1>1. /\ step = "decide" /\ step' = "decide"
      /\ UNCHANGED <<data, holders, run, process>>
  BY DEF UserReclaims
<1>2. \A s \in Slots : table'[s] \in {table[s], None}
  BY DEF UserReclaims, Typed, TypeOK
<1>3. \A k \in Kinds : Mine(k)' = Mine(k) /\ Mine(k) # None
  BY <1>1, MineFacts DEF Mine
<1>4. SoFar'
  <2>1. None.run <= run
    BY RunsOfParts, MineFacts DEF Kinds
  <2> QED
    BY <1>1, <1>2, <2>1 DEF SoFar
<1>5. MadeOnce'
  <2>1. \A k \in Kinds : Mine(k) \notin OnTable => Mine(k) \notin OnTable'
    BY <1>2, <1>3 DEF OnTable, Numbers
  <2> QED
    BY <1>1, <1>2, <1>3, <2>1 DEF MadeOnce, Creating, Working, LaterSteps
<1>6. Recorded'
  BY <1>1 DEF Recorded, Working, LaterSteps
<1>7. MapperOurs' /\ MountedOurs' /\ Filled'
  <2>1. MapperOurs'
    BY <1>1, <1>3 DEF MapperOurs, Kinds
  <2>2. MountedOurs' /\ Filled'
    BY <1>1 DEF MountedOurs, Filled, AtWork, AfterTop, AfterRoot, Earlier
  <2> QED
    BY <2>1, <2>2
<1> QED
  BY <1>4, <1>5, <1>6, <1>7

\* The next run has nothing on the disk, open or mounted yet.
LEMMA StartTracked ==
  ASSUME Strong, StartAgain
  PROVE  Tracked'
<1> USE DEF Strong, Tracked
<1>1. /\ run' = run + 1 /\ step' = "decide"
      /\ UNCHANGED <<disk, holders, outside>>
  BY DEF StartAgain
<1>2. run \in Nat /\ run' > run
  BY <1>1, MineFacts DEF Kinds
<1>3. /\ \A s \in Slots : table[s].run \in Nat /\ table[s].run <= run
      /\ mapper.run \in Nat /\ mapper.run <= run
      /\ \A mt \in mounts : mt.dev.run \in Nat /\ mt.dev.run <= run /\ mt.under \in Nat /\ mt.under <= run
  <2>1. \A p \in Parts \cup {None} : p.run \in Nat
    BY RunsOfParts
  <2> QED
    BY <2>1 DEF Typed, TypeOK, SoFar
<1>4. SoFar'
  BY <1>1, <1>2, <1>3 DEF SoFar
<1>5. \A k \in Kinds : Mine(k)'.run = run'
  BY DEF Mine
<1>6. MadeOnce'
  <2>1. \A k \in Kinds, s \in Slots : table'[s] # Mine(k)'
    BY <1>1, <1>2, <1>3, <1>5
  <2> QED
    BY <1>1, <2>1 DEF MadeOnce, OnTable, Numbers, Creating, Working, LaterSteps
<1>7. Recorded' /\ MapperOurs' /\ Filled'
  <2>1. step' \notin Working /\ step' \notin AfterOpen /\ step' \notin AfterTop /\ step' \notin AfterRoot
    BY <1>1 DEF Working, LaterSteps, AfterOpen, AfterTop, AfterRoot
  <2>2. mapper'.run # run'
    BY <1>1, <1>2, <1>3
  <2> QED
    BY <1>1, <2>1, <2>2 DEF Recorded, MapperOurs, Filled
<1>8. MountedOurs'
  <2>1. step' \notin AfterRoot /\ step' # "subvolumes"
    BY <1>1 DEF AfterRoot
  <2>2. \A mt \in mounts' : mt.dev.run # run' /\ mt.under # run'
    BY <1>1, <1>2, <1>3
  <2> QED
    BY <2>1, <2>2 DEF MountedOurs, Earlier
<1> QED
  BY <1>4, <1>6, <1>7, <1>8

\* The tree of this run is on top of every other once it is there.
LEMMA OursOnTop ==
  ASSUME Strong, step \in AfterRoot
  PROVE  TopTree(mounts) = run
<1>1. OurRoot \in mounts /\ OurRoot.at = "root" /\ OurRoot.under = run
  BY DEF Strong, Tracked, MountedOurs, AtWork, Working, LaterSteps, AfterRoot, OurRoot
<1>2. run <= TopTree(mounts) /\ TopTree(mounts) \in 0..run /\ run \in Nat
  BY <1>1, TopTreeSoFar, MineFacts DEF Strong, Tracked, Kinds
<1> QED
  BY <1>2

LEMMA FailTracked ==
  ASSUME Strong, InstallFails
  PROVE  Tracked' /\ ReleasedAfterwards'
<1> USE DEF Strong, Tracked
<1>1. /\ step = "handed" /\ step' = "failed" /\ mapper' = None
      /\ mounts' \subseteq UmountMnt(mounts)
      /\ UNCHANGED <<disk, run, process>>
  BY DEF InstallFails
<1>2. TopTree(mounts) = run /\ run \in Nat /\ run > 0
  BY <1>1, OursOnTop, MineFacts DEF AfterRoot, Kinds
<1>3. \A mt \in mounts' : mt \in mounts /\ mt.under # run
  BY <1>1, <1>2 DEF UmountMnt
<1>4. ReleasedAfterwards'
  BY <1>1, <1>3 DEF ReleasedAfterwards
<1>5. SoFar'
  <2>1. None.run <= run
    BY <1>2, RunsOfParts
  <2> QED
    BY <1>1, <1>3, <2>1 DEF SoFar
<1>6. MadeOnce'
  BY <1>1 DEF MadeOnce, Mine, Creating, Working, LaterSteps
<1>7. Recorded' /\ MapperOurs' /\ MountedOurs' /\ Filled'
  BY <1>1 DEF Recorded, MapperOurs, MountedOurs, Filled, AtWork, Working, LaterSteps, AfterRoot
<1> QED
  BY <1>4, <1>5, <1>6, <1>7

LEMMA DecideTracked ==
  ASSUME Strong, Decide
  PROVE  Tracked'
<1> USE DEF Strong, Tracked
<1>1. /\ step = "decide" /\ step' = "read"
      /\ UNCHANGED <<disk, holders, run, making, created, num>>
  BY DEF Decide
<1>2. num["root"] = 0 /\ num["esp"] = 0 /\ making = "esp"
  BY <1>1 DEF Inv, RecordedOurs, Typed, Lengths, Kinds
<1>3. SoFar'
  BY <1>1 DEF SoFar
<1>4. MadeOnce'
  BY <1>1, <1>2 DEF MadeOnce, Mine, OnTable, Numbers, Creating, Working, Kinds
<1>5. Recorded'
  BY <1>1, <1>2 DEF Recorded, Kinds
<1>6. MapperOurs'
  BY <1>1 DEF MapperOurs, AtWork, Working, LaterSteps, AfterOpen, AfterTop, AfterRoot
<1>7. MountedOurs' /\ Filled'
  BY <1>1 DEF MountedOurs, Filled, AtWork, Working, LaterSteps, AfterTop, AfterRoot, Earlier
<1> QED
  BY <1>3, <1>4, <1>5, <1>6, <1>7

\* A run that is over has nothing left to keep but the order of the runs.
LEMMA EndTracked ==
  ASSUME Strong, Interrupt \/ InstallEnds
  PROVE  Tracked'
<1> USE DEF Strong, Tracked
<1>1. /\ step' \in {"interrupted", "installed", "killed"}
      /\ UNCHANGED <<disk, holders, run, process>>
  BY DEF Interrupt, InstallEnds
<1>2. SoFar' /\ MadeOnce'
  BY <1>1 DEF SoFar, MadeOnce, Mine, Creating, Working, LaterSteps
<1>3. Recorded' /\ MapperOurs' /\ MountedOurs' /\ Filled'
  BY <1>1 DEF Recorded, MapperOurs, MountedOurs, Filled, AtWork, Working, LaterSteps, AfterRoot
<1> QED
  BY <1>2, <1>3

LEMMA SameTracked ==
  ASSUME Strong, UNCHANGED vars
  PROVE  Tracked' /\ ReleasedAfterwards'
<1> USE DEF Strong, Tracked
<1>1. SoFar' /\ MadeOnce'
  BY DEF SoFar, MadeOnce, Mine, OnTable, Numbers
<1>2. Recorded' /\ MapperOurs'
  BY DEF Recorded, MapperOurs, Mine
<1>3. Filled'
  BY DEF Filled, MountedAt, Mine
<1>4. MountedOurs'
  <2>1. Earlier' = Earlier /\ OurTop' = OurTop /\ OurRoot' = OurRoot
    BY DEF Earlier, OurTop, OurRoot, Mine, TopTree
  <2> QED
    BY <2>1 DEF MountedOurs
<1>5. ReleasedAfterwards'
  BY DEF ReleasedAfterwards, Mine, OnTable, Numbers
<1> QED
  BY <1>1, <1>2, <1>3, <1>4, <1>5

LEMMA TrackedStep ==
  ASSUME Strong, MaxOutside <= 1, [Next]_vars
  PROVE  Tracked' /\ ReleasedAfterwards'
<1>1. CASE UNCHANGED vars
  BY <1>1, SameTracked
<1>2. CASE InstallFails
  BY <1>2, FailTracked
<1>3. CASE CreateRefused \/ HalfMadeRefused \/ StepFails
  BY <1>3, HookTracked DEF CreateRefused, HalfMadeRefused, StepFails, Working
<1>4. CASE \/ UserReclaims \/ Decide \/ ReadBefore \/ MkPart \/ Record \/ MkPartHalfFails
           \/ (Prepare /\ ~StepFails) \/ Interrupt \/ InstallEnds \/ StartAgain \/ OutsideChange
  <2>1. step' \notin {"aborted", "failed"}
    <3>1. CASE Prepare /\ ~StepFails
      BY <3>1 DEF Prepare, FlagEsp, WipeEsp, WipeRoot, FormatLuks, Open, MkfsBtrfs, MountTop, MakeSubvolumes,
         UmountTheTop, MountRoot, MountRest, MkfsFat, MountEsp, HandOver, Goto
    <3>2. CASE \/ UserReclaims \/ Decide \/ ReadBefore \/ MkPart \/ Record \/ MkPartHalfFails
           \/ Interrupt \/ InstallEnds \/ StartAgain \/ OutsideChange
      BY <3>2 DEF UserReclaims, Decide, ReadBefore, MkPart, Record, MkPartHalfFails, Interrupt,
         InstallEnds, StartAgain, OutsideChange, Working, LaterSteps
    <3> QED
      BY <1>4, <3>1, <3>2
  <2>2. ReleasedAfterwards'
    BY <2>1 DEF ReleasedAfterwards
  <2>3. CASE Prepare /\ ~StepFails
    BY <2>2, <2>3, EarlyTracked, OpenTracked, TopTracked, SubvolumesTracked, UmountTopTracked, RootTracked,
       FatTracked, EspTracked, HandOverTracked DEF Prepare
  <2>4. CASE \/ UserReclaims \/ Decide \/ ReadBefore \/ MkPart \/ Record \/ MkPartHalfFails
           \/ Interrupt \/ InstallEnds \/ StartAgain \/ OutsideChange
    BY <2>2, <2>4, ReclaimTracked, DecideTracked, ReadTracked, WriteTracked, RecordTracked,
       EndTracked, StartTracked, OutsideTracked
  <2> QED
    BY <1>4, <2>3, <2>4
<1> QED
  BY <1>1, <1>2, <1>3, <1>4 DEF Next, Create, Prepare, Over

(***************************************************************************)
(* The whole of what a run keeps: other systems' partitions, its own list, *)
(* mapper and mounts.                                                      *)
(***************************************************************************)
THEOREM StrongCorrect ==
  ASSUME MaxOutside <= 1
  PROVE  Spec => []Strong
<1>1. Init => Strong
  BY InitInv, InitTyped, InitTracked DEF Strong
<1>2. Strong /\ [Next]_vars => Strong'
  BY InvStep, TypedStep, TrackedStep DEF Strong
<1> QED
  BY <1>1, <1>2, PTL DEF Spec

(***************************************************************************)
(* run_partition_execute hands over a root and an ESP it made and          *)
(* formatted itself, mounted over whatever earlier runs left, behind its   *)
(* own mapper exactly when encryption was chosen.                          *)
(***************************************************************************)
THEOREM HandedOverIsOurs ==
  ASSUME MaxOutside <= 1
  PROVE  Spec => []HandoverSound
<1>1. Strong => HandoverSound
  <2> SUFFICES ASSUME Strong, step = "handed" PROVE HandoverSound
    BY DEF HandoverSound
  <2> USE DEF Strong, Tracked
  <2>1. data[Mine("root")] = "subvolumes" /\ data[Mine("esp")] = "fat" /\ num["esp"] # num["root"]
    BY DEF Filled, AfterRoot
  <2>2. encrypt <=> mapper = Mine("root")
    <3>1. encrypt => mapper = Mine("root")
      BY DEF MapperOurs, AtWork, AfterOpen, AfterTop, AfterRoot
    <3>2. mapper = Mine("root") => encrypt
      BY MineFacts DEF MapperOurs, AtWork, Kinds
    <3> QED
      BY <3>1, <3>2
  <2>3. TopTree(mounts) = run
    BY OursOnTop DEF AfterRoot
  <2>4. OurRoot \in mounts /\ MountedAt("home", "root") /\ MountedAt("log", "root")
        /\ MountedAt("pkg", "root") /\ MountedAt("esp", "esp")
    BY DEF MountedOurs, Filled, AtWork, AfterRoot
  <2>5. {[at |-> at, dev |-> Mine("root"), under |-> run] : at \in {"root", "home", "log", "pkg"}}
         \cup {[at |-> "esp", dev |-> Mine("esp"), under |-> run]} \subseteq mounts
    BY <2>4 DEF OurRoot, MountedAt
  <2> QED
    BY <2>1, <2>2, <2>3, <2>5 DEF HandoverSound
<1> QED
  BY <1>1, StrongCorrect, PTL

(***************************************************************************)
(* disk_abort_hook and cleanup_protected_state let go of all of the run:   *)
(* nothing of it is in use after an abort, and what it recorded is off the *)
(* table; after a failed install the mapper's name is free and its tree    *)
(* gone.                                                                   *)
(***************************************************************************)
THEOREM EverythingReleased ==
  ASSUME MaxOutside <= 1
  PROVE  Spec => []ReleasedAfterwards
<1>1. Strong => ReleasedAfterwards
  BY DEF Strong
<1> QED
  BY <1>1, StrongCorrect, PTL
=============================================================================
