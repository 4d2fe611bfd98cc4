-------------------------- MODULE BootRoutesProofs --------------------------
(***************************************************************************)
(* For any store of boot options.  However many things the firmware does   *)
(* of its own accord, an install that is declared complete can be reached, *)
(* the registration takes nobody else's boot option away, and BootOrder    *)
(* drops none; the first boot starts this install when the firmware does   *)
(* one.  That a copy of its own is left holds of a firmware that does      *)
(* nothing, and is false of others.                                        *)
(*                                                                         *)
(* The first needs whose the removable loader is; the second, that an      *)
(* option the listing showed as this install's is still that, or gone,     *)
(* when its number is used to delete it, and that the one reused was among *)
(* them (Inv).  BootOrder needs what Without leaves of a list, and that    *)
(* nothing deleted comes back before it is written (OrderInv).  The first  *)
(* boot needs that the firmware cannot both discard an option and show     *)
(* another while the entry is registered (FirstInv).                       *)
(***************************************************************************)
EXTENDS BootRoutes, FiniteSetTheorems, TLAPS

RouteType ==
  /\ install \in [target : Targets, paths : BOOLEAN, claims : BOOLEAN]
  /\ entry \in [Nums -> Kinds \cup {"none"}]
  /\ firmware \in 0..MaxFirmware
  /\ fallback \in {"none", "ours", "theirs"}
  /\ guid \in [register : BOOLEAN, check : BOOLEAN]
  /\ identical \subseteq Nums

\* Another loader can be at the removable path of a shared ESP only.
LoaderIsOurs == install.target # "shared" => fallback # "theirs"

UntilDeletes == {"match", "create", "readBack", "delete"}

\* Numbers the listing showed as this install's do not change hands, and are
\* not given up but by the firmware until the deletes.
StillOurs ==
  /\ pc = "read" => identical = {}
  /\ pc # "read" =>
      /\ \A n \in Nums : pre.entry[n] = "ours" => entry[n] \in {"ours", "none"}
      /\ \A n \in identical : pre.entry[n] = "ours"
  /\ pc \in UntilDeletes /\ firmware = 0 =>
      \A n \in Nums : pre.entry[n] = "ours" => entry[n] = "ours"

\* The entry that is kept is one of the store's: one of those alike where the
\* listing showed any, and only then is there anything to delete.
Chosen ==
  /\ pc = "delete" => num \in Nums /\ (identical # {} => num \in identical)
  /\ pc \in {"create", "readBack"} => identical = {}

Inv == RouteType /\ LoaderIsOurs /\ StillOurs /\ Chosen /\ CompletedIsReachable

USE DEF store, working

\* A set of numbers has a least one.
LEMMA LeastExists ==
  ASSUME NEW S \in SUBSET Nat, S # {}
  PROVE  \E n \in S : \A m \in S : n <= m
<1> DEFINE R == StrictSubsetOrdering(Nat)
           F == FiniteSubsetsOf(Nat)
           T == {0..n : n \in S}
<1>1. T \subseteq F /\ T # {}
  <2>1. \A n \in S : 0..n \in SUBSET Nat /\ IsFiniteSet(0..n)
    BY FS_Interval
  <2> QED
    BY <2>1 DEF FiniteSubsetsOf
<1>2. PICK x \in T : \A y \in T : ~(<<y, x>> \in R)
  <2> HIDE DEF R, F, T
  <2>1. IsWellFoundedOn(R, F)
    BY FS_StrictSubsetOrderingWellFounded DEF R, F
  <2> QED
    BY <1>1, <2>1, WFMin
<1>3. PICK n \in S : x = 0..n
  OBVIOUS
<1>4. \A m \in S : n <= m
  <2> SUFFICES ASSUME NEW m \in S, m < n PROVE FALSE
    OBVIOUS
  <2>1. 0..m \in T /\ 0..m \subseteq 0..n /\ 0..m # 0..n /\ 0..n \subseteq Nat
    OBVIOUS
  <2> QED
    BY <1>2, <1>3, <2>1 DEF StrictSubsetOrdering
<1> QED
  BY <1>4

LEMMA LowestOfNaturals ==
  ASSUME NEW S \in SUBSET Nat, S # {}
  PROVE  Lowest(S) \in S
<1>1. \E n \in S : \A m \in S : n <= m
  BY LeastExists
<1> QED
  BY <1>1 DEF Lowest

LEMMA LowestIsMember ==
  ASSUME NEW S \in SUBSET Nums, S # {}
  PROVE  Lowest(S) \in S
<1>1. S \subseteq Nat
  BY BootAssumption
<1> QED
  BY <1>1, LowestOfNaturals

LEMMA InitInv == Init => Inv
<1> SUFFICES ASSUME Init PROVE Inv
  OBVIOUS
<1>1. RouteType
  <2>1. firmware \in 0..MaxFirmware
    BY BootAssumption DEF Init
  <2>2. entry \in [Nums -> Kinds \cup {"none"}]
    BY DEF Init, Kinds, Hidden, Limines
  <2> QED
    BY <2>1, <2>2 DEF Init, RouteType
<1>2. LoaderIsOurs /\ StillOurs /\ Chosen /\ CompletedIsReachable
  BY DEF Init, Chosen, LoaderIsOurs, StillOurs, UntilDeletes, CompletedIsReachable
<1> QED
  BY <1>1, <1>2 DEF Inv

(***************************************************************************)
(* What the firmware does keeps the invariant: an option that turns up has *)
(* a number the listing did not show.                                      *)
(***************************************************************************)
LEMMA FirmwareInv ==
  ASSUME Inv, (\E n \in Nums : Discard(n) \/ Surface(n)) \/ ServicesEnd
  PROVE  Inv'
<1> USE DEF Inv
<1>1. /\ firmware < MaxFirmware /\ firmware' = firmware + 1
      /\ pc \notin {"boot", "booted", "failed"}
      /\ UNCHANGED <<install, next, fallback, pc, pre, num, identical, deleted, guid, booted>>
  BY DEF Discard, Surface, ServicesEnd, OfItsOwn, Installing
<1>2. entry' \in [Nums -> Kinds \cup {"none"}]
  BY DEF Discard, Surface, ServicesEnd, RouteType, Kinds, Limines
<1>3. firmware' \in 0..MaxFirmware
  BY <1>1, BootAssumption DEF RouteType
<1>4. RouteType'
  BY <1>1, <1>2, <1>3 DEF RouteType
<1>5. \A m \in Nums : entry'[m] # entry[m] => entry'[m] = "none" \/ pre.entry[m] = "none"
  BY DEF Discard, Surface, ServicesEnd, RouteType
<1>6. StillOurs'
  <2>1. firmware' # 0
    BY <1>1 DEF RouteType
  <2> QED
    BY <1>1, <1>5, <2>1 DEF StillOurs
<1>7. LoaderIsOurs' /\ Chosen' /\ CompletedIsReachable'
  BY <1>1 DEF Chosen, LoaderIsOurs, CompletedIsReachable
<1> QED
  BY <1>4, <1>6, <1>7

(***************************************************************************)
(* So do the steps that leave the options and the listing alone.           *)
(***************************************************************************)
LEMMA QuietStep ==
  ASSUME Inv, UNCHANGED <<install, entry, firmware, fallback, pre, identical>>,
         guid' \in [register : BOOLEAN, check : BOOLEAN],
         pc # "read", pc' # "read", pc' # "boot" \/ UNCHANGED <<pc, guid>>,
         pc' \in UntilDeletes => pc \in UntilDeletes, Chosen'
  PROVE  Inv'
<1> USE DEF Inv
<1>1. RouteType'
  BY DEF RouteType
<1>2. LoaderIsOurs' /\ StillOurs'
  BY DEF LoaderIsOurs, StillOurs
<1>3. CompletedIsReachable'
  BY DEF CompletedIsReachable
<1> QED
  BY <1>1, <1>2, <1>3

LEMMA ListingInv ==
  ASSUME Inv, NEW esp \in BOOLEAN, Read \/ Match(esp)
  PROVE  Inv'
<1> USE DEF Inv
<1>1. UNCHANGED <<install, entry, firmware, fallback>> /\ pc' \notin {"read", "boot"}
  BY DEF Read, Match
<1>2. guid' \in [register : BOOLEAN, check : BOOLEAN] /\ identical' \subseteq Nums
  BY DEF Read, Match, Identical, RouteType
<1>3. RouteType' /\ LoaderIsOurs' /\ CompletedIsReachable'
  BY <1>1, <1>2 DEF RouteType, LoaderIsOurs, CompletedIsReachable
<1>4. CASE Read
  <2>1. \A n \in Nums : pre'.entry[n] = "ours" => entry[n] = "ours"
    BY <1>4 DEF Read, Listing, NoListing
  <2> QED
    BY <1>1, <1>3, <1>4, <2>1 DEF Read, StillOurs, Chosen, UntilDeletes
<1>5. CASE Match(esp)
  <2>1. \A n \in identical' : pre.entry[n] = "ours"
    BY <1>5 DEF Match, Identical
  <2>2. Chosen'
    <3>1. \/ identical' # {} /\ num' \in identical' /\ pc' = "delete"
          \/ identical' = {} /\ pc' = "create"
      BY <1>2, <1>5, LowestIsMember DEF Match
    <3> QED
      BY <1>2, <3>1 DEF Chosen
  <2> QED
    BY <1>1, <1>3, <1>5, <2>1, <2>2 DEF Match, StillOurs, UntilDeletes
<1> QED
  BY <1>4, <1>5

\* A create uses a free number, and a delete only ever frees one.
LEMMA WritingInv ==
  ASSUME Inv, Create \/ Delete
  PROVE  Inv'
<1> USE DEF Inv
<1>1. UNCHANGED <<install, firmware, fallback, pre, identical, guid>> /\ pc # "read" /\ pc' \notin {"read", "boot"}
  BY DEF Create, Delete
<1>2. entry' \in [Nums -> Kinds \cup {"none"}]
  BY DEF Create, Delete, RouteType, Kinds, Limines
<1>3. \A n \in Nums : entry'[n] # entry[n] => entry'[n] \in {"ours", "none"}
  BY DEF Create, Delete, RouteType
<1>4. RouteType' /\ LoaderIsOurs' /\ CompletedIsReachable'
  BY <1>1, <1>2 DEF RouteType, LoaderIsOurs, CompletedIsReachable
<1>5. StillOurs'
  <2>1. \/ pc' \notin UntilDeletes
        \/ pc \in UntilDeletes /\ \A n \in Nums : entry'[n] # entry[n] => entry'[n] = "ours"
    BY DEF Create, Delete, UntilDeletes, RouteType
  <2> QED
    BY <1>1, <1>3, <2>1 DEF StillOurs
<1>6. Chosen'
  BY DEF Create, Delete, Chosen
<1> QED
  BY <1>4, <1>5, <1>6

LEMMA QuietSteps ==
  ASSUME Inv, Refused \/ ReadBack \/ WriteOrder \/ WriteNext \/ Boot \/ UNCHANGED vars
  PROVE  Inv'
<1>1. CASE pc = "read"
  <2>1. UNCHANGED vars
    BY <1>1 DEF Refused, ReadBack, WriteOrder, WriteNext, Boot
  <2> QED
    BY <2>1 DEF vars, Inv, RouteType, Chosen, LoaderIsOurs, StillOurs, CompletedIsReachable
<1>2. CASE pc # "read"
  <2>1. /\ UNCHANGED <<install, entry, firmware, fallback, pre, identical, guid>>
        /\ pc' # "read" /\ (pc' # "boot" \/ pc' = pc) /\ (pc' \in UntilDeletes => pc \in UntilDeletes)
    BY <1>2 DEF Refused, ReadBack, WriteOrder, WriteNext, Boot, vars, UntilDeletes
  <2>2. ReadBack => Chosen'
    <3>1. New \subseteq Nums /\ Starts \subseteq Nums
      BY DEF New, Starts
    <3>2. New # {} => Pick(Starts) \in Nums
      BY <3>1, LowestIsMember DEF Pick
    <3> QED
      BY <3>2 DEF Inv, ReadBack, Chosen
  <2>3. Chosen'
    BY <2>2 DEF Inv, Refused, WriteOrder, WriteNext, Boot, vars, Chosen
  <2> QED
    BY <1>2, <2>1, <2>3, QuietStep DEF Inv, RouteType
<1> QED
  BY <1>1, <1>2

\* The listing ends with the Windows check, and nothing is the install's in an
\* empty one.
LEMMA ListingEnds ==
  ASSUME Inv, CheckWindows
  PROVE  Inv'
<1> USE DEF Inv
<1>1. /\ UNCHANGED <<install, entry, firmware, fallback, guid>>
      /\ pc' \in {"failed", "fallback"} /\ identical' = {} /\ pre' = NoListing
  BY DEF CheckWindows
<1>2. RouteType' /\ LoaderIsOurs' /\ Chosen' /\ CompletedIsReachable'
  BY <1>1 DEF RouteType, LoaderIsOurs, Chosen, CompletedIsReachable
<1>3. StillOurs'
  BY <1>1 DEF StillOurs, NoListing, UntilDeletes
<1> QED
  BY <1>2, <1>3

(***************************************************************************)
(* _validate_uefi_boot_routes: what it lets pass can be reached.           *)
(***************************************************************************)
LEMMA CheckInv ==
  ASSUME Inv, NEW esp \in BOOLEAN, LimineInstall \/ Validate(esp)
  PROVE  Inv'
<1> USE DEF Inv
<1>1. CASE LimineInstall
  <2>1. /\ UNCHANGED <<entry, firmware, guid, pre, num, identical>> /\ pc = "fallback" /\ pc' = "check"
        /\ \E claims \in BOOLEAN : install' = [install EXCEPT !.claims = claims]
        /\ fallback' \in {fallback, "ours"}
    BY <1>1 DEF LimineInstall, MayClaim
  <2>2. /\ install' \in [target : Targets, paths : BOOLEAN, claims : BOOLEAN]
        /\ install'.target = install.target
    BY <2>1 DEF RouteType
  <2>3. RouteType' /\ LoaderIsOurs'
    BY <2>1, <2>2 DEF RouteType, LoaderIsOurs
  <2>4. Chosen' /\ StillOurs' /\ CompletedIsReachable'
    BY <2>1 DEF Chosen, StillOurs, UntilDeletes, CompletedIsReachable
  <2> QED
    BY <2>3, <2>4
<1>2. CASE Validate(esp)
  <2>1. RouteType' /\ LoaderIsOurs' /\ StillOurs' /\ Chosen'
    BY <1>2 DEF Validate, RouteType, Chosen, LoaderIsOurs, StillOurs, UntilDeletes
  <2>2. CompletedIsReachable'
    <3> SUFFICES ASSUME pc' = "boot", guid'.check
                 PROVE  \/ fallback = "ours" \/ \E n \in Nums : entry[n] = "ours"
                        \/ install.target = "shared" /\ install.claims /\ fallback = "theirs"
      BY <1>2 DEF Validate, CompletedIsReachable
    <3>1. esp
      BY <1>2 DEF Validate, RouteType
    <3>2. HasEntry(esp) \/ HasFallback
      BY <1>2 DEF Validate
    <3>3. HasEntry(esp) => \E n \in Nums : entry[n] = "ours"
      BY <3>1 DEF HasEntry
    <3>4. HasFallback => \/ fallback = "ours"
                         \/ install.target = "shared" /\ install.claims /\ fallback = "theirs"
      BY DEF HasFallback, LoaderIsOurs, RouteType
    <3> QED
      BY <3>2, <3>3, <3>4
  <2> QED
    BY <2>1, <2>2
<1> QED
  BY <1>1, <1>2

LEMMA InvStep == ASSUME Inv, [Next]_vars PROVE Inv'
<1>1. CASE (\E n \in Nums : Discard(n) \/ Surface(n)) \/ ServicesEnd
  BY <1>1, FirmwareInv
<1>2. CASE Read \/ \E esp \in BOOLEAN : Match(esp)
  BY <1>2, ListingInv
<1>3. CASE Create \/ Delete
  BY <1>3, WritingInv
<1>4. CASE Refused \/ ReadBack \/ WriteOrder \/ WriteNext \/ Boot \/ UNCHANGED vars
  BY <1>4, QuietSteps
<1>6. CASE CheckWindows
  BY <1>6, ListingEnds
<1>5. CASE LimineInstall \/ \E esp \in BOOLEAN : Validate(esp)
  BY <1>5, CheckInv
<1> QED
  BY <1>1, <1>2, <1>3, <1>4, <1>5, <1>6 DEF Next, Stopped

(***************************************************************************)
(* The inductive invariant holds in every state.                           *)
(***************************************************************************)
THEOREM InvCorrect == Spec => []Inv
  BY InitInv, InvStep, PTL DEF Spec

(***************************************************************************)
(* _validate_uefi_boot_routes: a completed install has an active entry or  *)
(* its removable loader, whatever the firmware did to its variables, other *)
(* than on a shared ESP it was told to claim, where a loader that was      *)
(* there before is taken for its own.                                      *)
(***************************************************************************)
THEOREM CompletedCanBeReached == Spec => []CompletedIsReachable
<1>1. Inv => CompletedIsReachable
  BY DEF Inv
<1> QED
  BY <1>1, InvCorrect, PTL

(***************************************************************************)
(* _register_limine_efi_entry: the options it takes away were and are its  *)
(* own, beside one it keeps that the same listing showed as its own, for   *)
(* any firmware; and one that does nothing of its own accord still has the *)
(* one kept.                                                               *)
(***************************************************************************)
THEOREM OnlyCopiesAreTaken == Spec => TakesOnlyCopies
<1> DEFINE OnlyCopies ==
      \A n \in Nums :
        (entry[n] # "none" /\ entry'[n] # entry[n] /\ firmware' = firmware)
          => /\ entry'[n] = "none" /\ entry[n] = "ours"
             /\ num # n /\ pre.entry[n] = "ours" /\ pre.entry[num] = "ours"
             /\ firmware = 0 => entry'[num] = "ours"
<1>1. Inv /\ [Next]_vars => [OnlyCopies]_vars
  <2> SUFFICES ASSUME Inv, Next PROVE OnlyCopies
    OBVIOUS
  <2> USE DEF Inv
  <2>1. CASE \E n \in Nums : Discard(n) \/ Surface(n)
    BY <2>1, BootAssumption DEF Discard, Surface, OfItsOwn, RouteType
  <2>2. CASE Create
    BY <2>2 DEF Create, Existing, RouteType
  <2>3. CASE Delete
    <3>1. PICK S \in SUBSET (Duplicates \cap Existing) :
            entry' = [n \in Nums |-> IF n \in S THEN "none" ELSE entry[n]]
      BY <2>3 DEF Delete
    <3>2. \A n \in S : n \in identical /\ n # num /\ entry[n] # "none"
      BY <3>1 DEF Duplicates, Existing
    <3>3. \A n \in S : /\ n \in Nums /\ entry[n] = "ours" /\ pre.entry[n] = "ours"
                      /\ num \in Nums /\ pre.entry[num] = "ours"
      BY <2>3, <3>2 DEF Delete, Chosen, StillOurs, RouteType
    <3>4. S # {} /\ firmware = 0 => entry'[num] = "ours"
      BY <2>3, <3>1, <3>2, <3>3 DEF Delete, StillOurs, UntilDeletes
    <3> QED
      BY <3>1, <3>2, <3>3, <3>4
  <2>4. CASE UNCHANGED entry
    BY <2>4
  <2> QED
    BY <2>1, <2>2, <2>3, <2>4 DEF Next, ServicesEnd, Read, Match, Refused, ReadBack, WriteOrder, WriteNext,
         CheckWindows, LimineInstall, Validate, Boot, Stopped, vars
<1> QED
  BY <1>1, InvCorrect, PTL DEF Spec, TakesOnlyCopies

(***************************************************************************)
(* Lists of boot numbers.                                                  *)
(***************************************************************************)
\* The members of P that are not above i.
Upto(P, i) == {j \in P : j <= i}

\* They grow with i by i itself.
LEMMA UptoOneMore ==
  ASSUME NEW P \in SUBSET Int, NEW i \in Int
  PROVE  /\ i \in P => Upto(P, i) = Upto(P, i - 1) \cup {i} /\ i \notin Upto(P, i - 1)
         /\ i \notin P => Upto(P, i) = Upto(P, i - 1)
         /\ \A j \in Int : j < i => Upto(P, j) \subseteq Upto(P, i - 1)
<1>1. \A j \in P : j \in Int /\ (j <= i <=> j <= i - 1 \/ j = i)
  OBVIOUS
<1>2. \A j \in P : \A k \in Int : j <= k /\ k < i => j <= i - 1
  OBVIOUS
<1>3. ~(i <= i - 1)
  OBVIOUS
<1>4. i \in P => Upto(P, i) = Upto(P, i - 1) \cup {i} /\ i \notin Upto(P, i - 1)
  BY <1>1, <1>3 DEF Upto
<1>5. i \notin P => Upto(P, i) = Upto(P, i - 1)
  BY <1>1 DEF Upto
<1>6. \A j \in Int : j < i => Upto(P, j) \subseteq Upto(P, i - 1)
  BY <1>2 DEF Upto
<1> QED
  BY <1>4, <1>5, <1>6

\* Counting the members of a set of numbers in order reaches every count once.
LEMMA EachHasItsPlace ==
  ASSUME NEW n \in Nat, NEW P \in SUBSET (1..n)
  PROVE  /\ IsFiniteSet(P)
         /\ \A i \in P : Cardinality(Upto(P, i)) \in 1..Cardinality(P)
         /\ \A k \in 1..Cardinality(P) : \E i \in P : Cardinality(Upto(P, i)) = k
         /\ \A i, j \in P : i < j => Cardinality(Upto(P, i)) < Cardinality(Upto(P, j))
<1> DEFINE F(i) == Cardinality(Upto(P, i))
<1>1. IsFiniteSet(P) /\ Cardinality(P) \in Nat
  <2>1. IsFiniteSet(1..n)
    BY FS_Interval
  <2>2. IsFiniteSet(P)
    BY <2>1, FS_Subset
  <2> QED
    BY <2>2, FS_CardinalityType
<1>1a. P \in SUBSET Int
  OBVIOUS
<1>2. \A i : IsFiniteSet(Upto(P, i)) /\ F(i) \in Nat /\ F(i) <= Cardinality(P)
  <2> TAKE i
  <2>1. Upto(P, i) \in SUBSET P
    BY DEF Upto
  <2>2. IsFiniteSet(Upto(P, i)) /\ F(i) <= Cardinality(P)
    BY <1>1, <2>1, FS_Subset
  <2> QED
    BY <2>2, FS_CardinalityType
<1>3. \A i \in P : F(i) = 1 + F(i - 1)
  <2> TAKE i \in P
  <2>1. Upto(P, i) = Upto(P, i - 1) \cup {i} /\ i \notin Upto(P, i - 1)
    BY <1>1a, UptoOneMore
  <2>2. Cardinality(Upto(P, i - 1) \cup {i}) = Cardinality(Upto(P, i - 1)) + 1
    BY <1>2, <2>1, FS_AddElement
  <2>3. F(i - 1) \in Nat
    BY <1>2
  <2> QED
    BY <2>1, <2>2, <2>3
<1>4. \A i \in 1..n : i \notin P => F(i) = F(i - 1)
  BY <1>1a, UptoOneMore
<1>5. F(0) = 0 /\ F(n) = Cardinality(P)
  <2>1. \A j \in P : ~(j <= 0) /\ j <= n
    OBVIOUS
  <2>2. Upto(P, 0) = {} /\ Upto(P, n) = P
    BY <2>1 DEF Upto
  <2> QED
    BY <2>2, FS_EmptySet
<1>6. \A i, j \in P : i < j => F(i) < F(j)
  <2> SUFFICES ASSUME NEW i \in P, NEW j \in P, i < j PROVE F(i) < F(j)
    OBVIOUS
  <2>1. Upto(P, i) \in SUBSET Upto(P, j - 1)
    BY <1>1a, UptoOneMore
  <2>2. F(i) <= F(j - 1)
    BY <1>2, <2>1, FS_Subset
  <2>3. F(j) = 1 + F(j - 1) /\ F(i) \in Nat /\ F(j - 1) \in Nat
    BY <1>2, <1>3
  <2> HIDE DEF F
  <2> QED
    BY <2>2, <2>3
<1>7. ASSUME NEW k \in 1..Cardinality(P)
      PROVE  \E i \in P : F(i) = k
  <2> DEFINE T == {i \in 1..n : F(i) >= k}
  <2>1. T \in SUBSET (1..n) /\ n \in T
    <3>1. n # 0
      <4> SUFFICES ASSUME n = 0 PROVE FALSE
        OBVIOUS
      <4> QED
        BY <1>5
    <3>2. F(n) >= k
      BY <1>1, <1>5
    <3> HIDE DEF F
    <3> QED
      BY <3>1, <3>2
  <2>2. PICK i \in T : \A j \in T : i <= j
    <3> HIDE DEF T
    <3> QED
      BY <2>1, LeastExists
  <2>3. i \in 1..n /\ F(i) >= k
    BY <2>2
  <2>4. F(i - 1) < k
    <3>1. CASE i = 1
      BY <1>5, <3>1
    <3>2. CASE i # 1
      <4>1. i - 1 \in 1..n /\ ~(i <= i - 1)
        BY <2>3, <3>2
      <4>2. ~(F(i - 1) >= k)
        BY <2>2, <4>1
      <4>3. F(i - 1) \in Nat
        BY <1>2
      <4> HIDE DEF F
      <4> QED
        BY <4>2, <4>3
    <3> QED
      BY <3>1, <3>2
  <2>5. F(i) \in Nat /\ F(i - 1) \in Nat
    BY <1>2
  <2>6. i \in P
    <3> SUFFICES ASSUME i \notin P PROVE FALSE
      OBVIOUS
    <3>1. F(i) = F(i - 1)
      BY <1>4, <2>3
    <3> HIDE DEF F
    <3> QED
      BY <2>3, <2>4, <2>5, <3>1
  <2>7. F(i) = 1 + F(i - 1)
    BY <1>3, <2>6
  <2>8. F(i) = k
    <3> HIDE DEF F
    <3> QED
      BY <2>3, <2>4, <2>5, <2>7
  <2> QED
    BY <2>6, <2>8
<1>8. \A i \in P : F(i) \in 1..Cardinality(P)
  <2> TAKE i \in P
  <2>1. F(i) = 1 + F(i - 1) /\ F(i - 1) \in Nat /\ F(i) <= Cardinality(P)
    BY <1>2, <1>3
  <2> HIDE DEF F
  <2> QED
    BY <1>1, <2>1
<1> QED
  BY <1>1, <1>6, <1>7, <1>8

\* What Without leaves of a list: the others, once each, in the order they had.
LEMMA WhatStays ==
  ASSUME NEW n \in Nat, NEW list \in [1..n -> Nums], Injective(list), NEW S
  PROVE  /\ Without(list, S) \in Seq(Nums)
         /\ Injective(Without(list, S))
         /\ Members(Without(list, S)) = Members(list) \ S
         /\ \A k, l \in DOMAIN Without(list, S) : k < l =>
              \E i, j \in DOMAIN list :
                i < j /\ Without(list, S)[k] = list[i] /\ Without(list, S)[l] = list[j]
<1> DEFINE P == {i \in 1..n : list[i] \notin S}
           place == [i \in 1..n |-> Cardinality(Upto(P, i))]
           At(k) == CHOOSE i \in P : place[i] = k
           rest == [k \in 1..Cardinality(P) |-> list[At(k)]]
<1>1. /\ P \in SUBSET (1..n)
      /\ \A i \in P : place[i] = Cardinality(Upto(P, i))
  OBVIOUS
<1>2. Without(list, S) = rest
  BY DEF Without, Upto
<1>3. /\ Cardinality(P) \in Nat
      /\ \A i \in P : place[i] \in 1..Cardinality(P)
      /\ \A k \in 1..Cardinality(P) : \E i \in P : place[i] = k
      /\ \A i, j \in P : i < j => place[i] < place[j]
  <2> HIDE DEF P, place
  <2>1. /\ IsFiniteSet(P)
        /\ \A i \in P : Cardinality(Upto(P, i)) \in 1..Cardinality(P)
        /\ \A k \in 1..Cardinality(P) : \E i \in P : Cardinality(Upto(P, i)) = k
        /\ \A i, j \in P : i < j => Cardinality(Upto(P, i)) < Cardinality(Upto(P, j))
    BY <1>1, EachHasItsPlace
  <2> QED
    BY <1>1, <2>1, FS_CardinalityType
<1> HIDE DEF place
<1>4. \A k \in 1..Cardinality(P) : At(k) \in P /\ place[At(k)] = k
  BY <1>3
<1>5. \A i \in P : At(place[i]) = i
  <2> TAKE i \in P
  <2>1. place[i] \in 1..Cardinality(P) /\ At(place[i]) \in P /\ place[At(place[i])] = place[i]
    BY <1>3, <1>4
  <2>2. \A x, y \in P : place[x] \in Int /\ (x < y => place[x] < place[y])
    BY <1>3
  <2> HIDE DEF At
  <2>3. ~(i < At(place[i])) /\ ~(At(place[i]) < i)
    BY <2>1, <2>2
  <2>4. i \in Int /\ At(place[i]) \in Int
    BY <1>1, <2>1
  <2> QED
    BY <2>3, <2>4
<1> HIDE DEF At
<1>6. DOMAIN rest = 1..Cardinality(P) /\ \A k \in 1..Cardinality(P) : rest[k] = list[At(k)] /\ At(k) \in 1..n
  BY <1>4
<1>7. rest \in Seq(Nums)
  BY <1>3, <1>6
<1>8. Injective(rest)
  BY <1>4, <1>6 DEF Injective
<1>9. Members(rest) = Members(list) \ S
  <2>1. \A x \in Members(rest) : x \in Members(list) \ S
    BY <1>4, <1>6 DEF Members
  <2>2. ASSUME NEW x \in Members(list) \ S PROVE x \in Members(rest)
    <3>1. PICK i \in 1..n : x = list[i]
      BY DEF Members
    <3>2. i \in P
      BY <3>1
    <3>3. place[i] \in DOMAIN rest /\ rest[place[i]] = x
      BY <1>3, <1>5, <1>6, <3>1, <3>2
    <3> HIDE DEF rest
    <3> QED
      BY <3>3 DEF Members
  <2> QED
    BY <2>1, <2>2
<1>10. ASSUME NEW k \in DOMAIN rest, NEW l \in DOMAIN rest, k < l
       PROVE  \E i, j \in DOMAIN list : i < j /\ rest[k] = list[i] /\ rest[l] = list[j]
  <2>1. /\ At(k) \in P /\ At(l) \in P /\ place[At(k)] = k /\ place[At(l)] = l
        /\ rest[k] = list[At(k)] /\ rest[l] = list[At(l)]
    BY <1>4, <1>6
  <2>2. k \in Int /\ l \in Int
    BY <1>6
  <2>3. ~(At(l) < At(k)) /\ At(l) # At(k)
    <3>1. \A x, y \in P : x < y => place[x] < place[y]
      BY <1>3
    <3>2. At(l) < At(k) => l < k
      BY <2>1, <3>1
    <3> HIDE DEF P, rest
    <3> QED
      BY <2>1, <2>2, <3>2, <1>10
  <2>4. At(k) \in 1..n /\ At(l) \in 1..n /\ At(k) < At(l)
    BY <2>1, <2>3
  <2> QED
    BY <2>1, <2>4
<1> HIDE DEF rest
<1> QED
  BY <1>2, <1>7, <1>8, <1>9, <1>10

\* A list that names each number at most once is one BootOrder can hold.
LEMMA FitsInOrder ==
  ASSUME NEW s \in Seq(Nums), Injective(s)
  PROVE  s \in Orders
<1>1. Len(s) \in Nat /\ s \in [1..Len(s) -> Nums]
  OBVIOUS
<1>2. IsFiniteSet(Nums) /\ Cardinality(Nums) \in Nat
  BY BootAssumption, FS_CardinalityType
<1>3. Len(s) <= Cardinality(Nums)
  <2> SUFFICES ASSUME Cardinality(Nums) < Len(s) PROVE FALSE
    BY <1>1, <1>2
  <2>1. IsFiniteSet(1..Len(s)) /\ Cardinality(1..Len(s)) = Len(s)
    BY <1>1, FS_Interval
  <2>2. \E x, y \in 1..Len(s) : x # y /\ s[x] = s[y]
    BY <1>1, <1>2, <2>1, FS_PigeonHole
  <2> QED
    BY <1>1, <2>2 DEF Injective
<1> QED
  BY <1>1, <1>2, <1>3 DEF Orders

\* Filtering a BootOrder leaves one.
LEMMA ListedOrder ==
  ASSUME NEW list \in Orders, NEW S
  PROVE  /\ Without(list, S) \in Seq(Nums)
         /\ Injective(Without(list, S))
         /\ Members(Without(list, S)) = Members(list) \ S
         /\ Without(list, S) \in Orders
<1>1. PICK n \in Nat : list \in [1..n -> Nums] /\ Injective(list)
  BY DEF Orders
<1>2. /\ Without(list, S) \in Seq(Nums) /\ Injective(Without(list, S))
      /\ Members(Without(list, S)) = Members(list) \ S
  BY <1>1, WhatStays
<1> QED
  BY <1>2, FitsInOrder

\* A number put before a list it is not in.
LEMMA PutFirst ==
  ASSUME NEW n \in Nums, NEW s \in Seq(Nums), Injective(s), n \notin Members(s)
  PROVE  <<n>> \o s \in Orders /\ Members(<<n>> \o s) = Members(s) \cup {n}
<1> DEFINE t == <<n>> \o s
<1>1. /\ t \in Seq(Nums) /\ Len(t) = Len(s) + 1 /\ t[1] = n
      /\ \A i \in 2..Len(t) : t[i] = s[i - 1] /\ i - 1 \in DOMAIN s
      /\ \A i \in DOMAIN s : i + 1 \in 2..Len(t) /\ t[i + 1] = s[i]
      /\ DOMAIN t = 1..(Len(s) + 1)
  OBVIOUS
<1> HIDE DEF t
<1>2. Len(s) \in Nat
  OBVIOUS
<1>3. \A i \in DOMAIN t : i = 1 \/ i \in 2..Len(t)
  BY <1>1, <1>2
<1>4. Injective(t)
  <2> SUFFICES ASSUME NEW i \in DOMAIN t, NEW j \in DOMAIN t, t[i] = t[j] PROVE i = j
    BY DEF Injective
  <2>1. CASE i = 1 /\ j = 1
    BY <2>1
  <2>2. CASE i = 1 /\ j \in 2..Len(t)
    BY <1>1, <2>2 DEF Members
  <2>3. CASE j = 1 /\ i \in 2..Len(t)
    BY <1>1, <2>3 DEF Members
  <2>4. CASE i \in 2..Len(t) /\ j \in 2..Len(t)
    BY <1>1, <2>4 DEF Injective
  <2> QED
    BY <1>3, <2>1, <2>2, <2>3, <2>4
<1>5. Members(t) = Members(s) \cup {n}
  <2>1. \A i \in DOMAIN t : t[i] \in Members(s) \cup {n}
    BY <1>1, <1>3 DEF Members
  <2>2. n \in Members(t)
    BY <1>1, <1>2 DEF Members
  <2>3. \A i \in DOMAIN s : s[i] \in Members(t)
    <3> TAKE i \in DOMAIN s
    <3>1. i + 1 \in DOMAIN t /\ t[i + 1] = s[i]
      BY <1>1, <1>2
    <3> QED
      BY <3>1 DEF Members
  <2> QED
    BY <2>1, <2>2, <2>3 DEF Members
<1> QED
  BY <1>1, <1>4, <1>5, FitsInOrder DEF t

(***************************************************************************)
(* Types.                                                                  *)
(***************************************************************************)
Typed == TypeOK /\ (pc \in {"delete", "order", "next"} => num \in Nums)

Steps == {"read", "match", "create", "readBack", "delete", "order",
          "next", "windows", "fallback", "check", "boot", "booted", "failed"}

LEMMA NoOrder == << >> \in Orders
<1>1. << >> \in Seq(Nums) /\ Injective(<< >>)
  BY DEF Injective
<1> QED
  BY <1>1, FitsInOrder

LEMMA ListingType ==
  ASSUME Typed
  PROVE  Listing \in [entry : [Nums -> Kinds \cup {"none"}], order : Orders, readable : BOOLEAN]
BY NoOrder DEF Typed, TypeOK, Listing, NoListing

LEMMA InitTyped == Init => Typed
<1> SUFFICES ASSUME Init PROVE Typed
  OBVIOUS
<1>1. entry \in [Nums -> Kinds \cup {"none"}]
  BY DEF Init, Kinds, Hidden, Limines
<1>2. pre \in [entry : [Nums -> Kinds \cup {"none"}], order : Orders, readable : BOOLEAN]
  BY NoOrder DEF Init, NoListing
<1>3. firmware \in 0..MaxFirmware
  BY BootAssumption DEF Init
<1>4. order \in Orders /\ services \in BOOLEAN
  BY DEF Init
<1>5. install \in [target : Targets, paths : BOOLEAN, claims : BOOLEAN] /\ fallback \in {"none", "ours", "theirs"}
  BY DEF Init
<1>6. /\ next = 0 /\ pc = "read" /\ num = 0 /\ identical = {} /\ deleted = {} /\ booted = "none"
      /\ guid \in [register : BOOLEAN, check : BOOLEAN]
  BY DEF Init
<1> QED
  BY <1>1, <1>2, <1>3, <1>4, <1>5, <1>6 DEF Typed, TypeOK

\* The firmware changes the entries and itself only.
LEMMA FirmwareTyped ==
  ASSUME Typed, (\E n \in Nums : Discard(n) \/ Surface(n)) \/ ServicesEnd
  PROVE  Typed'
<1>1. /\ firmware' = firmware + 1 /\ firmware < MaxFirmware
      /\ UNCHANGED <<install, order, next, fallback, pc, pre, num, identical, deleted, guid, booted>>
  BY DEF Discard, Surface, ServicesEnd, OfItsOwn
<1>2. entry' \in [Nums -> Kinds \cup {"none"}]
  BY DEF Discard, Surface, ServicesEnd, Typed, TypeOK, Kinds, Limines
<1>3. services' \in BOOLEAN
  BY DEF Discard, Surface, ServicesEnd, Typed, TypeOK
<1>4. firmware' \in 0..MaxFirmware
  BY <1>1, BootAssumption DEF Typed, TypeOK
<1> QED
  BY <1>1, <1>2, <1>3, <1>4 DEF Typed, TypeOK

LEMMA ListingTyped ==
  ASSUME Typed, NEW esp \in BOOLEAN, Read \/ Match(esp)
  PROVE  Typed'
<1>1. CASE Read
  <2>1. pre' \in [entry : [Nums -> Kinds \cup {"none"}], order : Orders, readable : BOOLEAN]
    BY <1>1, ListingType DEF Read
  <2>2. /\ pc' \in {"match", "windows"}
        /\ UNCHANGED <<install, store, fallback, num, identical, deleted, guid, booted>>
    BY <1>1 DEF Read
  <2> QED
    BY <2>1, <2>2 DEF Typed, TypeOK
<1>2. CASE Match(esp)
  <2>1. identical' \in SUBSET Nums
    BY <1>2 DEF Match, Identical
  <2>2. \/ num' \in Nums /\ pc' = "delete"
        \/ num' = 0 /\ pc' = "create"
    BY <1>2, <2>1, LowestIsMember DEF Match
  <2>3. /\ guid' \in [register : BOOLEAN, check : BOOLEAN]
        /\ UNCHANGED <<install, store, fallback, pre, deleted, booted>>
    BY <1>2 DEF Match, Typed, TypeOK
  <2> QED
    BY <2>1, <2>2, <2>3 DEF Typed, TypeOK
<1> QED
  BY <1>1, <1>2

LEMMA CreateTyped ==
  ASSUME Typed, Create \/ ReadBack
  PROVE  Typed'
<1>1. CASE Create
  <2>1. entry' \in [Nums -> Kinds \cup {"none"}]
    BY <1>1 DEF Create, Typed, TypeOK, Kinds, Limines
  <2>2. order' \in Orders
    <3>1. ASSUME NEW n \in Nums, order' = <<n>> \o Without(order, {n})
          PROVE  order' \in Orders
      <4>1. order \in Orders
        BY DEF Typed, TypeOK
      <4>2. /\ Without(order, {n}) \in Seq(Nums) /\ Injective(Without(order, {n}))
            /\ Members(Without(order, {n})) = Members(order) \ {n}
        BY <4>1, ListedOrder
      <4> QED
        BY <3>1, <4>2, PutFirst
    <3> QED
      BY <1>1, <3>1 DEF Create, Typed, TypeOK
  <2>3. /\ pc' = "readBack"
        /\ UNCHANGED <<install, next, services, firmware, fallback, working, guid, booted>>
    BY <1>1 DEF Create
  <2> QED
    BY <2>1, <2>2, <2>3 DEF Typed, TypeOK
<1>2. CASE ReadBack
  <2>1. New \subseteq Nums /\ Starts \subseteq Nums
    BY DEF New, Starts
  <2>2. New # {} => Pick(Starts) \in Nums
    BY <2>1, LowestIsMember DEF Pick
  <2>3. \/ num' \in Nums /\ pc' = "delete"
        \/ num' = 0 /\ pc' = "windows"
    BY <1>2, <2>2 DEF ReadBack
  <2>4. UNCHANGED <<install, store, fallback, pre, identical, deleted, guid, booted>>
    BY <1>2 DEF ReadBack
  <2> QED
    BY <2>3, <2>4 DEF Typed, TypeOK
<1> QED
  BY <1>1, <1>2

LEMMA OrderTyped ==
  ASSUME Typed, Delete \/ WriteOrder \/ WriteNext
  PROVE  Typed'
<1>1. CASE Delete
  <2>1. PICK S \in SUBSET (Duplicates \cap Existing) :
          /\ entry' = [n \in Nums |-> IF n \in S THEN "none" ELSE entry[n]]
          /\ order' = Without(order, S)
          /\ deleted' = S
    BY <1>1 DEF Delete
  <2>2. entry' \in [Nums -> Kinds \cup {"none"}] /\ deleted' \in SUBSET Nums
    BY <2>1 DEF Typed, TypeOK, Existing
  <2>3. order' \in Orders
    BY <2>1, ListedOrder DEF Typed, TypeOK
  <2>4. /\ pc = "delete" /\ pc' = "order"
        /\ UNCHANGED <<install, next, services, firmware, fallback, pre, num, identical, guid, booted>>
    BY <1>1 DEF Delete
  <2> QED
    BY <2>2, <2>3, <2>4 DEF Typed, TypeOK
<1>2. CASE WriteOrder
  <2>1. <<num>> \o Keep \in Orders
    <3>1. pre.order \in Orders /\ num \in Nums
      BY <1>2 DEF Typed, TypeOK, WriteOrder
    <3>2. /\ Keep \in Seq(Nums) /\ Injective(Keep)
          /\ num \notin Members(Keep)
      BY <3>1, ListedOrder DEF Keep
    <3> QED
      BY <3>1, <3>2, PutFirst
  <2>2. order' \in Orders
    BY <1>2, <2>1 DEF WriteOrder, Typed, TypeOK
  <2>3. /\ pc = "order" /\ pc' = "next"
        /\ UNCHANGED <<install, entry, next, services, firmware, fallback, working, guid, booted>>
    BY <1>2 DEF WriteOrder
  <2> QED
    BY <2>2, <2>3 DEF Typed, TypeOK
<1>3. CASE WriteNext
  BY <1>3 DEF WriteNext, Typed, TypeOK, Existing
<1> QED
  BY <1>1, <1>2, <1>3

LEMMA LastTyped ==
  ASSUME Typed, NEW esp \in BOOLEAN,
         Refused \/ CheckWindows \/ LimineInstall \/ Validate(esp) \/ Boot \/ UNCHANGED vars
  PROVE  Typed'
<1>1. CASE Refused \/ CheckWindows
  <2>1. NoListing \in [entry : [Nums -> Kinds \cup {"none"}], order : Orders, readable : BOOLEAN]
    BY NoOrder DEF NoListing
  <2> QED
    BY <1>1, <2>1 DEF Refused, CheckWindows, Typed, TypeOK
<1>2. CASE LimineInstall
  <2>1. /\ \E claims \in BOOLEAN : install' = [install EXCEPT !.claims = claims]
        /\ fallback' \in {fallback, "ours"} /\ pc' = "check"
        /\ UNCHANGED <<store, working, guid, booted>>
    BY <1>2 DEF LimineInstall, MayClaim
  <2>2. install' \in [target : Targets, paths : BOOLEAN, claims : BOOLEAN]
    BY <2>1 DEF Typed, TypeOK
  <2> QED
    BY <2>1, <2>2 DEF Typed, TypeOK
<1>3. CASE Validate(esp)
  BY <1>3 DEF Validate, Typed, TypeOK
<1>4. CASE Boot
  <2>1. booted' \in Kinds \cup {"none", "nothing"}
    <3>1. CASE next \in Existing
      BY <1>4, <3>1 DEF Boot, Existing, Typed, TypeOK
    <3>2. ASSUME NEW list \in Orders, Bootable(list) # {}
          PROVE  entry[list[Lowest(Bootable(list))]] \in Kinds \cup {"none"}
      <4>1. PICK k \in Nat : list \in [1..k -> Nums]
        BY DEF Orders
      <4>2. Bootable(list) \in SUBSET Nat /\ Bootable(list) \subseteq 1..k
        BY <4>1 DEF Bootable
      <4>3. Lowest(Bootable(list)) \in 1..k
        BY <3>2, <4>2, LowestOfNaturals
      <4> QED
        BY <4>1, <4>3 DEF Typed, TypeOK
    <3>3. [none |-> "nothing", ours |-> "ours", theirs |-> "other"][fallback] \in Kinds \cup {"nothing"}
      BY DEF Typed, TypeOK, Kinds, Limines
    <3> QED
      BY <1>4, <3>1, <3>2, <3>3 DEF Boot
  <2>2. pc' = "booted" /\ UNCHANGED <<install, store, fallback, working, guid>>
    BY <1>4 DEF Boot
  <2> QED
    BY <2>1, <2>2 DEF Typed, TypeOK
<1>5. CASE UNCHANGED vars
  BY <1>5 DEF vars, Typed, TypeOK
<1> QED
  BY <1>1, <1>2, <1>3, <1>4, <1>5

LEMMA TypedStep == ASSUME Typed, [Next]_vars PROVE Typed'
BY FirmwareTyped, ListingTyped, CreateTyped, OrderTyped, LastTyped DEF Next, Stopped

\* The state keeps its types, and limine_num is a number while it is written.
THEOREM TypedCorrect == Spec => []Typed
  BY InitTyped, TypedStep, PTL DEF Spec

(***************************************************************************)
(* The state keeps its types, whatever the firmware does: above all, the   *)
(* lists written to BootOrder name each number once.                       *)
(***************************************************************************)
THEOREM TypeCorrect == Spec => []TypeOK
<1>1. Typed => TypeOK
  BY DEF Typed
<1> QED
  BY <1>1, TypedCorrect, PTL

(***************************************************************************)
(* BootOrder.                                                              *)
(***************************************************************************)
\* The listing is the store's as long as nothing was read, and what was
\* deleted does not come back before the order is written.
Listed ==
  /\ pc = "read" => pre = NoListing
  /\ pc = "order" => \A n \in deleted : entry[n] = "none"

OrderInv == Typed /\ Listed /\ OthersStayInOrder

LEMMA NothingListed == Members(<< >>) = {}
  BY DEF Members

LEMMA OrderInit == Init => OrderInv
<1>1. Init => Listed /\ OthersStayInOrder
  BY NothingListed DEF Init, Listed, NoListing, OthersStayInOrder
<1> QED
  BY <1>1, InitTyped DEF OrderInv

\* Fewer entries are as listed, and none leaves the order.
LEMMA OrderKept ==
  ASSUME OrderInv, UNCHANGED pre, Members(order) \subseteq Members(order'),
         \A n \in Nums : entry'[n] \in {entry[n], "none"} \/ pre.entry[n] # entry'[n]
  PROVE  OthersStayInOrder'
<1>1. \A n \in Nums : n \in Existing' /\ entry'[n] = pre.entry[n] => n \in Existing /\ entry[n] = pre.entry[n]
  BY DEF Existing
<1>2. UNCHANGED pre
  OBVIOUS
<1> QED
  BY <1>1 DEF OrderInv, OthersStayInOrder, Existing

LEMMA FirmwareOrder ==
  ASSUME OrderInv, (\E n \in Nums : Discard(n) \/ Surface(n)) \/ ServicesEnd
  PROVE  OrderInv'
<1>1. UNCHANGED <<pc, pre, order, deleted>>
  BY DEF Discard, Surface, ServicesEnd, OfItsOwn
<1>2. /\ \A n \in Nums : entry'[n] \in {entry[n], "none"} \/ pre.entry[n] # entry'[n]
      /\ pc = "order" => \A n \in Nums : entry'[n] \in {entry[n], "none"}
  BY DEF Discard, Surface, ServicesEnd, OrderInv, Typed, TypeOK
<1>3. deleted \subseteq Nums
  BY DEF OrderInv, Typed, TypeOK
<1>4. Listed'
  BY <1>1, <1>2, <1>3 DEF OrderInv, Listed
<1> QED
  BY <1>1, <1>2, <1>4, OrderKept, FirmwareTyped DEF OrderInv

LEMMA WritingOrder ==
  ASSUME OrderInv, Create \/ Delete \/ WriteOrder
  PROVE  OrderInv'
<1>1. order \in Orders /\ pre.order \in Orders /\ pre.entry \in [Nums -> Kinds \cup {"none"}]
  BY DEF OrderInv, Typed, TypeOK
<1>2. CASE Create
  <2>1. Listed'
    BY <1>2 DEF Create, Listed
  <2>2. ASSUME UNCHANGED <<entry, order>> PROVE OthersStayInOrder'
    BY <1>2, <2>2 DEF Create, OrderInv, OthersStayInOrder, Existing
  <2>3. ASSUME NEW n \in Nums, entry' = [entry EXCEPT ![n] = "ours"],
               order' = <<n>> \o Without(order, {n}), UNCHANGED pre
        PROVE  OthersStayInOrder'
    <3>1. Members(order') = Members(order) \cup {n}
      <4>1. /\ Without(order, {n}) \in Seq(Nums) /\ Injective(Without(order, {n}))
            /\ Members(Without(order, {n})) = Members(order) \ {n}
        BY <1>1, ListedOrder
      <4>2. Members(order') = (Members(order) \ {n}) \cup {n}
        BY <2>3, <4>1, PutFirst
      <4> QED
        BY <4>2
    <3>2. \A m \in Nums : m # n => entry'[m] = entry[m]
      BY <2>3 DEF OrderInv, Typed, TypeOK
    <3> QED
      BY <2>3, <3>1, <3>2 DEF OrderInv, OthersStayInOrder, Existing
  <2>4. OthersStayInOrder'
    BY <1>2, <2>2, <2>3 DEF Create
  <2> QED
    BY <1>2, <2>1, <2>4, CreateTyped DEF OrderInv
<1>3. CASE Delete
  <2>1. PICK S \in SUBSET (Duplicates \cap Existing) :
          /\ entry' = [n \in Nums |-> IF n \in S THEN "none" ELSE entry[n]]
          /\ order' = Without(order, S)
          /\ deleted' = S
    BY <1>3 DEF Delete
  <2>2. pc' = "order" /\ UNCHANGED pre
    BY <1>3 DEF Delete
  <2>3. Listed'
    BY <2>1, <2>2 DEF Listed, Existing
  <2>4. Members(order') = Members(order) \ S
    BY <1>1, <2>1, ListedOrder
  <2>5. \A n \in Existing' : n \in Existing /\ n \notin S /\ entry'[n] = entry[n]
    BY <2>1 DEF Existing
  <2>6. OthersStayInOrder'
    BY <2>2, <2>4, <2>5 DEF OrderInv, OthersStayInOrder
  <2> QED
    BY <1>3, <2>3, <2>6, OrderTyped DEF OrderInv
<1>4. CASE WriteOrder
  <2>1. pc = "order" /\ pc' = "next" /\ UNCHANGED <<entry, pre, deleted>>
    BY <1>4 DEF WriteOrder
  <2>2. Listed'
    BY <2>1 DEF Listed
  <2>3. ASSUME UNCHANGED order PROVE OthersStayInOrder'
    BY <2>1, <2>3 DEF OrderInv, OthersStayInOrder, Existing
  <2>4. ASSUME order' = <<num>> \o Keep PROVE OthersStayInOrder'
    <3>1. num \in Nums
      BY <2>1 DEF OrderInv, Typed
    <3>2. /\ Keep \in Seq(Nums) /\ Injective(Keep)
          /\ Members(Keep) = Members(pre.order) \ (deleted \cup {num} \cup Dangling)
      BY <1>1, ListedOrder DEF Keep
    <3>3. Members(order') = (Members(pre.order) \ (deleted \cup {num} \cup Dangling)) \cup {num}
      BY <2>4, <3>1, <3>2, PutFirst
    <3>4. \A n \in Existing : entry[n] = pre.entry[n] => n \notin deleted /\ n \notin Dangling
      BY <2>1 DEF OrderInv, Listed, Existing, Dangling
    <3>5. Members(pre.order)' = Members(pre.order) /\ Existing' = Existing
      BY <2>1 DEF Members, Existing
    <3> QED
      BY <2>1, <3>3, <3>4, <3>5 DEF OthersStayInOrder
  <2>5. OthersStayInOrder'
    BY <1>4, <2>3, <2>4 DEF WriteOrder
  <2> QED
    BY <1>4, <2>2, <2>5, OrderTyped DEF OrderInv
<1> QED
  BY <1>2, <1>3, <1>4

LEMMA ReadingOrder ==
  ASSUME OrderInv, Read
  PROVE  OrderInv'
<1>1. pre' = Listing /\ UNCHANGED <<entry, order>> /\ pc' \in {"match", "windows"}
  BY DEF Read
<1>2. Members(pre'.order) \subseteq Members(order)
  BY <1>1, NothingListed DEF Listing, NoListing
<1>3. OthersStayInOrder'
  BY <1>1, <1>2 DEF OthersStayInOrder
<1> QED
  BY <1>1, <1>3, ListingTyped DEF OrderInv, Listed

LEMMA QuietOrder ==
  ASSUME OrderInv, Typed', UNCHANGED <<entry, order, pre, deleted>>, UNCHANGED pc \/ pc' \notin {"read", "order"}
  PROVE  OrderInv'
BY DEF OrderInv, Listed, OthersStayInOrder, Existing

\* What an empty listing showed is in any order.
LEMMA ListingEndsOrder ==
  ASSUME OrderInv, CheckWindows
  PROVE  OrderInv'
<1>1. pre' = NoListing /\ pc' \in {"failed", "fallback"}
  BY DEF CheckWindows
<1>2. Members(pre'.order) = {}
  BY <1>1, NothingListed DEF NoListing
<1>3. Listed' /\ OthersStayInOrder'
  BY <1>1, <1>2 DEF Listed, OthersStayInOrder
<1>4. Typed'
  BY LastTyped DEF OrderInv
<1> QED
  BY <1>3, <1>4 DEF OrderInv

LEMMA OrderStep == ASSUME OrderInv, [Next]_vars PROVE OrderInv'
<1>1. CASE (\E n \in Nums : Discard(n) \/ Surface(n)) \/ ServicesEnd
  BY <1>1, FirmwareOrder
<1>2. CASE Create \/ Delete \/ WriteOrder
  BY <1>2, WritingOrder
<1>3. CASE Read
  BY <1>3, ReadingOrder
<1>4. CASE \/ \E esp \in BOOLEAN : Match(esp) \/ Validate(esp)
           \/ Refused \/ ReadBack \/ WriteNext \/ LimineInstall \/ Boot \/ UNCHANGED vars
  <2>1. UNCHANGED <<entry, order, pre, deleted>> /\ (UNCHANGED pc \/ pc' \notin {"read", "order"})
    BY <1>4 DEF Match, Validate, Refused, ReadBack, WriteNext, LimineInstall, Boot, vars
  <2> QED
    BY <2>1, TypedStep, QuietOrder DEF OrderInv
<1>5. CASE CheckWindows
  BY <1>5, ListingEndsOrder
<1> QED
  BY <1>1, <1>2, <1>3, <1>4, <1>5 DEF Next, Stopped

(***************************************************************************)
(* _register_limine_efi_entry: BootOrder, written from the earlier         *)
(* listing, drops no option that is still what it was.                     *)
(***************************************************************************)
THEOREM NobodyIsDropped == Spec => []OthersStayInOrder
<1>1. OrderInv => OthersStayInOrder
  BY DEF OrderInv
<1> QED
  BY <1>1, OrderInit, OrderStep, PTL DEF Spec

(***************************************************************************)
(* The first boot.                                                         *)
(***************************************************************************)
Registering == {"match", "create", "readBack"}

\* What the listing showed is still there; what it did not is this install's.
AsListed  == \A n \in Nums : pre.entry[n] # "none" => entry[n] = pre.entry[n]
NoneShown == \A n \in Nums : pre.entry[n] = "none" => entry[n] \in {"none", "ours"}

\* With one act of its own the firmware discards an option or shows one: it
\* cannot do both while the entry is registered.
OneAct ==
  pc \in Registering =>
    /\ \A n \in Nums : pre.entry[n] = "none" => entry[n] \in {"none", "ours", "other"}
    /\ AsListed \/ NoneShown
    /\ firmware = 0 => AsListed /\ NoneShown

\* An entry is only created where the listing showed none of this install's.
NoCopies ==
  pc \in {"create", "readBack"} /\ guid.register /\ install.paths =>
    \A n \in Nums : pre.entry[n] # "ours"

\* limine_num is this install's entry, or there is none; BootNext names no other.
Decided ==
  /\ pc \in Registering \cup {"read"} => num = 0 /\ next = 0
  /\ next \in {0, num}
  /\ num # 0 /\ guid.register /\ install.paths =>
       entry[num] \in {"ours", "none"} \/ \A n \in Nums : entry[n] # "ours"
  /\ pc = "booted" /\ next \in Existing => booted = entry[next]

FirstInv == Inv /\ Typed /\ OneAct /\ NoCopies /\ Decided

LEMMA FirstInit == Init => FirstInv
<1>1. Init => OneAct /\ NoCopies /\ Decided
  BY DEF Init, OneAct, NoCopies, Decided, Registering
<1> QED
  BY <1>1, InitInv, InitTyped DEF FirstInv

LEMMA FirmwareFirst ==
  ASSUME FirstInv, MaxFirmware <= 1, (\E n \in Nums : Discard(n) \/ Surface(n)) \/ ServicesEnd
  PROVE  OneAct' /\ NoCopies' /\ Decided'
<1> USE DEF FirstInv
<1>1. /\ firmware = 0 /\ firmware' = 1 /\ pc # "booted"
      /\ UNCHANGED <<install, next, pc, pre, num, guid>>
  BY BootAssumption DEF Discard, Surface, ServicesEnd, OfItsOwn, Installing, Typed, TypeOK
<1>2. \/ \A n \in Nums : entry'[n] \in {entry[n], "none"}
      \/ /\ pc \in Registering \cup {"read"}
         /\ \A n \in Nums : entry'[n] = entry[n] \/ (pre.entry[n] = "none" /\ entry'[n] = "other")
  BY DEF Discard, Surface, ServicesEnd, Typed, TypeOK, Registering
<1>3. OneAct'
  <2> SUFFICES ASSUME pc \in Registering PROVE OneAct'
    BY <1>1 DEF OneAct
  <2>1. AsListed /\ NoneShown
    BY <1>1 DEF OneAct
  <2>2. CASE \A n \in Nums : entry'[n] \in {entry[n], "none"}
    <3>1. \A n \in Nums : pre.entry[n] = "none" => entry'[n] \in {"none", "ours"}
      BY <2>1, <2>2 DEF NoneShown
    <3> QED
      BY <1>1, <3>1 DEF OneAct, NoneShown
  <2>3. CASE \A n \in Nums : entry'[n] = entry[n] \/ (pre.entry[n] = "none" /\ entry'[n] = "other")
    <3>1. \A n \in Nums : pre.entry[n] # "none" => entry'[n] = pre.entry[n]
      BY <2>1, <2>3 DEF AsListed
    <3>2. \A n \in Nums : pre.entry[n] = "none" => entry'[n] \in {"none", "ours", "other"}
      BY <2>1, <2>3 DEF NoneShown
    <3> QED
      BY <1>1, <3>1, <3>2 DEF OneAct, AsListed
  <2> QED
    BY <1>2, <2>2, <2>3
<1>4. NoCopies'
  BY <1>1 DEF NoCopies
<1>5. Decided'
  <2>1. num # 0 => num \in Nums /\ pc \notin Registering \cup {"read"}
    BY DEF Decided, Typed, TypeOK
  <2>2. num # 0 => \A n \in Nums : entry'[n] \in {entry[n], "none"}
    BY <1>2, <2>1
  <2> QED
    BY <1>1, <2>1, <2>2 DEF Decided
<1> QED
  BY <1>3, <1>4, <1>5

LEMMA ListingFirst ==
  ASSUME FirstInv, NEW esp \in BOOLEAN, Read \/ Match(esp)
  PROVE  OneAct' /\ NoCopies' /\ Decided'
<1> USE DEF FirstInv
<1>1. CASE Read
  <2>1. /\ pc = "read" /\ pc' \in {"match", "windows"} /\ (pc' = "match" => pre'.entry = entry)
        /\ UNCHANGED <<install, store, num, guid>>
    BY <1>1 DEF Read, Listing
  <2>2. num = 0 /\ next = 0
    BY <2>1 DEF Decided
  <2> QED
    BY <2>1, <2>2 DEF OneAct, NoCopies, Decided, AsListed, NoneShown, Registering
<1>2. CASE Match(esp)
  <2>1. /\ pc = "match" /\ UNCHANGED <<install, store, pre>> /\ guid'.register = esp
        /\ identical' = Identical(esp)
        /\ \/ num' \in identical' /\ pc' = "delete"
           \/ identical' = {} /\ num' = 0 /\ pc' = "create"
    <3>1. identical' \subseteq Nums
      BY <1>2 DEF Match, Identical
    <3> QED
      BY <1>2, <3>1, LowestIsMember DEF Match, Typed, TypeOK
  <2>2. next = 0
    BY <2>1 DEF Decided, Registering
  <2>3. OneAct'
    BY <2>1 DEF OneAct, AsListed, NoneShown, Registering
  <2>4. NoCopies'
    BY <2>1 DEF NoCopies, Identical
  <2>5. Decided'
    <3>1. \A n \in identical' : pre.entry[n] = "ours" /\ n \in Nums
      BY <2>1 DEF Identical
    <3>2. num' # 0 => entry[num'] \in {"ours", "none"}
      BY <2>1, <3>1 DEF Inv, StillOurs
    <3> QED
      BY <2>1, <2>2, <3>2 DEF Decided, Registering
  <2> QED
    BY <2>3, <2>4, <2>5
<1> QED
  BY <1>1, <1>2

LEMMA CreateFirst ==
  ASSUME FirstInv, Create
  PROVE  OneAct' /\ NoCopies' /\ Decided'
<1> USE DEF FirstInv
<1>1. /\ pc = "create" /\ pc' = "readBack" /\ UNCHANGED <<install, next, firmware, pre, num, guid>>
      /\ \A n \in Nums : entry'[n] # entry[n] => entry[n] = "none" /\ entry'[n] = "ours"
  BY DEF Create, Existing, Typed, TypeOK
<1>2. NoCopies' /\ Decided'
  BY <1>1 DEF NoCopies, Decided, Registering
<1>3. AsListed => AsListed'
  BY <1>1 DEF AsListed
<1>4. NoneShown => NoneShown'
  BY <1>1 DEF NoneShown
<1>5. OneAct'
  BY <1>1, <1>3, <1>4 DEF OneAct, Registering
<1> QED
  BY <1>2, <1>5

\* The read-back takes this install's entry, or there is none of it.
LEMMA ReadBackFirst ==
  ASSUME FirstInv, ReadBack
  PROVE  OneAct' /\ NoCopies' /\ Decided'
<1> USE DEF FirstInv
<1>1. /\ pc = "readBack" /\ pc' \in {"delete", "windows"} /\ UNCHANGED <<install, store, pre, guid>>
      /\ \/ New # {} /\ num' = Pick(Starts)
         \/ num' = 0
  BY DEF ReadBack
<1>2. OneAct' /\ NoCopies'
  BY <1>1 DEF OneAct, NoCopies, Registering
<1>3. next = 0
  BY <1>1 DEF Decided, Registering
<1>4. ASSUME New # {}, num' = Pick(Starts), guid.register, install.paths
      PROVE  entry[num'] = "ours" \/ \A n \in Nums : entry[n] # "ours"
  <2>1. Starts \subseteq New /\ New \subseteq Nums /\ Starts = {n \in New : entry[n] \in {"ours", "off"}}
    BY <1>4 DEF Starts, New
  <2>2. CASE Starts # {}
    <3>1. num' \in Starts
      BY <1>4, <2>1, <2>2, LowestIsMember DEF Pick
    <3> QED
      BY <1>1, <2>1, <3>1 DEF New, OneAct, Registering
  <2>3. CASE Starts = {}
    <3>1. ~NoneShown
      BY <1>4, <2>1, <2>3 DEF New, NoneShown, Limines
    <3>2. AsListed
      BY <1>1, <3>1 DEF OneAct, Registering
    <3>3. ASSUME NEW n \in Nums, entry[n] = "ours" PROVE FALSE
      <4>1. CASE pre.entry[n] = "none"
        BY <2>1, <2>3, <3>3, <4>1 DEF New, Limines
      <4>2. CASE pre.entry[n] # "none"
        BY <1>1, <1>4, <3>2, <3>3, <4>2 DEF AsListed, NoCopies
      <4> QED
        BY <4>1, <4>2
    <3> QED
      BY <3>3
  <2> QED
    BY <2>2, <2>3
<1>5. Decided'
  BY <1>1, <1>3, <1>4 DEF Decided, Registering
<1> QED
  BY <1>2, <1>5

LEMMA LaterFirst ==
  ASSUME FirstInv, NEW esp \in BOOLEAN,
         \/ Refused \/ Delete \/ WriteOrder \/ WriteNext \/ CheckWindows \/ LimineInstall
         \/ Validate(esp) \/ Boot \/ UNCHANGED vars
  PROVE  OneAct' /\ NoCopies' /\ Decided'
<1> USE DEF FirstInv
<1>1. CASE UNCHANGED vars
  BY <1>1 DEF vars, OneAct, NoCopies, Decided, AsListed, NoneShown, Existing
<1>2. CASE \/ Refused \/ Delete \/ WriteOrder \/ WriteNext \/ CheckWindows \/ LimineInstall
           \/ Validate(esp) \/ Boot
  <2>1. /\ UNCHANGED num /\ install'.paths = install.paths /\ guid'.register = guid.register
        /\ pc' \notin Registering \cup {"read"}
        /\ \A n \in Nums : entry'[n] \in {entry[n], "none"}
    BY <1>2 DEF Refused, Delete, WriteOrder, WriteNext, CheckWindows, LimineInstall, Validate, Boot,
         Registering, Typed, TypeOK
  <2>2. OneAct' /\ NoCopies'
    BY <2>1 DEF OneAct, NoCopies, Registering
  <2>3. next' \in {0, num}
    BY <1>2 DEF Refused, Delete, WriteOrder, WriteNext, CheckWindows, LimineInstall, Validate, Boot, Decided
  <2>4. pc' = "booted" /\ next' \in Existing' => booted' = entry'[next']
    BY <1>2 DEF Refused, Delete, WriteOrder, WriteNext, CheckWindows, LimineInstall, Validate, Boot, Existing
  <2>5. num # 0 => num \in Nums
    BY DEF Typed, TypeOK
  <2>6. num # 0 /\ guid.register /\ install.paths =>
          entry'[num] \in {"ours", "none"} \/ \A n \in Nums : entry'[n] # "ours"
    BY <2>1, <2>5 DEF Decided
  <2> QED
    BY <2>1, <2>2, <2>3, <2>4, <2>6 DEF Decided
<1> QED
  BY <1>1, <1>2

LEMMA FirstStep == ASSUME FirstInv, MaxFirmware <= 1, [Next]_vars PROVE FirstInv'
<1>1. OneAct' /\ NoCopies' /\ Decided'
  BY FirmwareFirst, ListingFirst, CreateFirst, ReadBackFirst, LaterFirst DEF Next, Stopped
<1> QED
  BY <1>1, InvStep, TypedStep DEF FirstInv

(***************************************************************************)
(* _register_limine_efi_entry and BootNext: the first boot starts this     *)
(* install, as long as the firmware does one thing of its own accord.      *)
(***************************************************************************)
THEOREM FirstBootReachesUs ==
  ASSUME MaxFirmware <= 1
  PROVE  Spec => []FirstBootIsOurs
<1>1. FirstInv => FirstBootIsOurs
  <2>1. 0 \notin Nums
    BY BootAssumption
  <2> QED
    BY <2>1 DEF FirstInv, Decided, FirstBootIsOurs, Existing
<1>2. FirstInv /\ [Next]_vars => FirstInv'
  BY FirstStep
<1> QED
  BY <1>1, <1>2, FirstInit, PTL DEF Spec
=============================================================================
