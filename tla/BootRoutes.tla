----------------------------- MODULE BootRoutes -----------------------------
(***************************************************************************)
(* How the firmware finds what was installed: the "Limine" boot variable   *)
(* that _register_limine_efi_entry reuses or creates, the removable loader *)
(* that limine-install writes later in the run, and the check at the end   *)
(* of the install (_validate_uefi_boot_routes), up to the first boot.      *)
(*                                                                         *)
(* The boot variables are the firmware's.  It may refuse any write, take   *)
(* one and discard it, show another install's option it had kept to        *)
(* itself, stop serving variables altogether, and put its own priority     *)
(* list over BootOrder at the next POST.  efibootmgr lists entries by      *)
(* number.                                                                 *)
(***************************************************************************)
EXTENDS Naturals, Sequences, FiniteSets

CONSTANTS
  Nums,        \* the boot option numbers of the variable store
  MaxFirmware  \* things the firmware does of its own accord in one install

ASSUME BootAssumption ==
  Nums \subseteq Nat \ {0} /\ IsFiniteSet(Nums) /\ MaxFirmware \in Nat

VARIABLES
  install,    \* what kind of install, whether efibootmgr prints paths, and
              \* whether the install claims the removable loader, once that is asked
  entry,      \* Boot####: what each number starts
  order,      \* BootOrder
  next,       \* BootNext, 0 when unset
  services,   \* the firmware's runtime services answer
  fallback,   \* who wrote EFI/BOOT/BOOTX64.EFI on the ESP
  firmware,   \* what the firmware did of its own accord, counted
  pc,
  pre,        \* pre_state: the listing the registration works from
  num,        \* limine_num, 0 while there is none
  identical,  \* the entries a create would only duplicate
  deleted,    \* the duplicates that are gone
  guid,       \* whether the ESP's GUID could be read: when registering, and in the check
  booted      \* what the first boot started

store   == <<entry, order, next, services, firmware>>
working == <<pre, num, identical, deleted>>
vars    == <<install, store, fallback, pc, working, guid, booted>>

(***************************************************************************)
(* What an entry starts: this install ("ours", or "off" when it is not     *)
(* active), another loader on this ESP, another install's Limine at the    *)
(* same path of its own ESP, or Windows.                                   *)
(***************************************************************************)
Limines == {"ours", "off", "backup", "other"}
Kinds   == Limines \cup {"windows"}
Hidden  == {"windows", "other"}   \* also found when the ESP is a new one
Targets == {"fullDisk", "freeSpace", "shared"}

NoListing       == [entry |-> [n \in Nums |-> "none"], order |-> <<>>, readable |-> FALSE]
Existing        == {n \in Nums : entry[n] # "none"}
Lowest(S)       == CHOOSE n \in S : \A m \in S : n <= m
Injective(s)    == \A i, j \in DOMAIN s : s[i] = s[j] => i = j
Members(s)      == {s[i] : i \in DOMAIN s}
Orders          == {s \in UNION {[1..k -> Nums] : k \in 0..Cardinality(Nums)} : Injective(s)}

\* The list without the numbers of S, in its own order: each number that stays
\* goes to its place among those that do.
Without(list, S) ==
  LET stay     == {i \in DOMAIN list : list[i] \notin S}
      place[i \in DOMAIN list] == Cardinality({j \in stay : j <= i})
  IN  [k \in 1..Cardinality(stay) |-> list[CHOOSE i \in stay : place[i] = k]]

Protected == install.target # "fullDisk"

\* A new partition has a new GUID, so only an ESP that was there before can
\* already have entries of its own; and only there is somebody else's
\* removable loader.
Init ==
  /\ install \in [target : Targets, paths : BOOLEAN, claims : {FALSE}]
  /\ entry \in [Nums -> {"none"} \cup IF install.target = "shared" THEN Kinds ELSE Hidden]
  /\ order \in {s \in Orders : Existing \subseteq Members(s) \/ s = <<>>}
  /\ next = 0
  /\ services \in BOOLEAN
  /\ fallback \in {"none"} \cup IF install.target = "shared" THEN {"theirs"} ELSE {}
  /\ firmware = 0
  /\ pc = "read"
  /\ pre = NoListing
  /\ num = 0 /\ identical = {} /\ deleted = {}
  /\ guid = [register |-> FALSE, check |-> FALSE]
  /\ booted = "none"

-----------------------------------------------------------------------------
(***************************************************************************)
(* The firmware, of its own accord.                                        *)
(***************************************************************************)
Installing == pc \notin {"boot", "booted", "failed"}

OfItsOwn ==
  /\ Installing /\ services
  /\ firmware < MaxFirmware /\ firmware' = firmware + 1
  /\ UNCHANGED <<install, next, fallback, pc, working, guid, booted>>

Discard(n) ==
  /\ OfItsOwn
  /\ n \in Existing
  /\ entry' = [entry EXCEPT ![n] = "none"]
  /\ UNCHANGED <<order, services>>

\* An option of another install shows up, at a number no listing had in use.
Surface(n) ==
  /\ OfItsOwn
  /\ pc \in {"read", "match", "create", "readBack"}
  /\ n \notin Existing /\ pre.entry[n] = "none"
  /\ entry' = [entry EXCEPT ![n] = "other"]
  /\ UNCHANGED <<order, services>>

ServicesEnd ==
  /\ OfItsOwn
  /\ services' = FALSE
  /\ UNCHANGED <<entry, order>>

-----------------------------------------------------------------------------
(***************************************************************************)
(* Registration.                                                           *)
(***************************************************************************)
Listing   == IF services THEN [entry |-> entry, order |-> order, readable |-> TRUE] ELSE NoListing

\* A pre-mounted install takes its listing before the registration and hands
\* it over; a full-disk one has the registration take it.
Read ==
  /\ pc = "read"
  /\ pre' = Listing
  /\ pc' = IF services THEN "match" ELSE "windows"
  /\ UNCHANGED <<install, store, fallback, num, identical, deleted, guid, booted>>

\* The active entries labelled "Limine" for this ESP and this loader: none
\* when the GUID is unknown or the listing has no paths.
Identical(esp) == IF esp /\ install.paths THEN {n \in Nums : pre.entry[n] = "ours"} ELSE {}

\* `esp`: lsblk answered the partition's GUID, for this run of the function.
Match(esp) ==
  /\ pc = "match"
  /\ identical' = Identical(esp)
  /\ \/ identical' # {} /\ num' = Lowest(identical') /\ pc' = "delete"
     \/ identical' = {} /\ num' = 0 /\ pc' = "create"
  /\ guid' = [guid EXCEPT !.register = esp]
  /\ UNCHANGED <<install, store, fallback, pre, deleted, booted>>

Refused ==
  /\ pc = "create"
  /\ pc' = "windows"
  /\ UNCHANGED <<install, store, fallback, working, guid, booted>>

\* efibootmgr puts the new option first in BootOrder.  Firmware with one
\* option per device path answers with the one it has.
Create ==
  /\ pc = "create" /\ services
  /\ \/ \E n \in Nums \ Existing :
          /\ entry' = [entry EXCEPT ![n] = "ours"]
          /\ order' = <<n>> \o Without(order, {n})
     \/ /\ \E n \in Existing : entry[n] \in {"ours", "off"}
        /\ UNCHANGED <<entry, order>>
  /\ pc' = "readBack"
  /\ UNCHANGED <<install, next, services, firmware, fallback, working, guid, booted>>

New == {n \in Nums : entry[n] \in Limines /\ pre.entry[n] = "none"}

\* Mutant: the first new "Limine" entry is taken for the one created.
PickFirst(starts) == Lowest(New)

\* Those that start this loader come first.
Pick(starts) == IF starts # {} THEN Lowest(starts) ELSE Lowest(New)

Starts == IF guid.register /\ install.paths THEN {n \in New : entry[n] \in {"ours", "off"}} ELSE {}

\* An unreadable or empty answer leaves BootOrder and BootNext alone.
ReadBack ==
  /\ pc = "readBack"
  /\ \/ services /\ New # {} /\ num' = Pick(Starts) /\ pc' = "delete"
     \/ (~services \/ New = {}) /\ num' = 0 /\ pc' = "windows"
  /\ UNCHANGED <<install, store, fallback, pre, identical, deleted, guid, booted>>

\* Mutant: every identical entry goes, the reused one too.
DuplicatesAll == identical

Duplicates == identical \ {num}

\* Mutant: a delete that failed counts as done.
DeleteBelieved ==
  /\ pc = "delete"
  /\ \E S \in SUBSET (Duplicates \cap Existing) :
       /\ ~services => S = {}
       /\ entry' = [n \in Nums |-> IF n \in S THEN "none" ELSE entry[n]]
       /\ order' = Without(order, S)
       /\ deleted' = Duplicates
  /\ pc' = "order"
  /\ UNCHANGED <<install, next, services, firmware, fallback, pre, num, identical, guid, booted>>

\* Any of the deletes may fail; an entry that stays is not `deleted`.
Delete ==
  /\ pc = "delete"
  /\ \E S \in SUBSET (Duplicates \cap Existing) :
       /\ ~services => S = {}
       /\ entry' = [n \in Nums |-> IF n \in S THEN "none" ELSE entry[n]]
       /\ order' = Without(order, S)
       /\ deleted' = S
  /\ pc' = "order"
  /\ UNCHANGED <<install, next, services, firmware, fallback, pre, num, identical, guid, booted>>

\* Numbers the listing had no entry for.
Dangling == {n \in Nums : pre.entry[n] = "none"}

\* Mutant: limine_num keeps its old place too.
KeepWithNum == Without(pre.order, deleted \cup Dangling)

Keep == Without(pre.order, deleted \cup {num} \cup Dangling)

\* A refused BootOrder costs the place at the front, and a warning.
WriteOrder ==
  /\ pc = "order"
  /\ order' \in {order} \cup IF services THEN {<<num>> \o Keep} ELSE {}
  /\ pc' = "next"
  /\ UNCHANGED <<install, entry, next, services, firmware, fallback, working, guid, booted>>

\* efibootmgr refuses a number that has no entry.
WriteNext ==
  /\ pc = "next"
  /\ next' \in {0} \cup IF services /\ num \in Existing THEN {num} ELSE {}
  /\ pc' = "windows"
  /\ UNCHANGED <<install, entry, order, services, firmware, fallback, working, guid, booted>>

\* A pre-mounted install stops when Windows' entry went away meanwhile; a
\* store that cannot be read on either side cannot be compared.
WindowsGone ==
  /\ Protected /\ pre.readable /\ services
  /\ \E n \in Nums : pre.entry[n] = "windows"
  /\ \A n \in Nums : entry[n] # "windows"

\* The last that uses the listing: later phases ask the firmware again.
CheckWindows ==
  /\ pc = "windows"
  /\ pc' = IF WindowsGone THEN "failed" ELSE "fallback"
  /\ pre' = NoListing /\ identical' = {} /\ deleted' = {}
  /\ UNCHANGED <<install, store, fallback, num, guid, booted>>

-----------------------------------------------------------------------------
(***************************************************************************)
(* Later phases: the removable loader, and the check.                      *)
(***************************************************************************)
\* enable_fallback: on an ESP of its own, and on a shared one when the
\* configuration says so.
MayClaim == IF install.target = "shared" THEN BOOLEAN ELSE {TRUE}

\* limine-install writes the loader where ENABLE_LIMINE_FALLBACK says so, or
\* the check finds it was not deployed.  Nothing reads the setting before.
LimineInstall ==
  /\ pc = "fallback"
  /\ \E claims \in MayClaim :
       /\ install' = [install EXCEPT !.claims = claims]
       /\ fallback' \in {fallback} \cup IF claims THEN {"ours"} ELSE {}
  /\ pc' = "check"
  /\ UNCHANGED <<store, working, guid, booted>>

\* fallback_is_ours, and a loader at the path.
HasFallback == install.claims /\ fallback # "none"

\* Mutant: an entry of the right label counts, active or not.
HasEntryByLabel(esp) == services /\ \E n \in Nums : entry[n] \in Limines

\* An active entry that starts this install.  Without the ESP's GUID, one
\* whose path names this loader, or that shows no path, has to do.
HasEntry(esp) ==
  /\ services
  /\ \E n \in Nums :
       \/ esp /\ install.paths /\ entry[n] = "ours"
       \/ ~esp /\ install.paths /\ entry[n] \in {"ours", "other"}
       \/ ~esp /\ ~install.paths /\ entry[n] \in Limines \ {"off"}

Validate(esp) ==
  /\ pc = "check"
  /\ guid' = [guid EXCEPT !.check = esp]
  /\ pc' = IF HasEntry(esp) \/ HasFallback THEN "boot" ELSE "failed"
  /\ UNCHANGED <<install, store, fallback, working, booted>>

-----------------------------------------------------------------------------
(***************************************************************************)
(* The first boot: BootNext, then BootOrder, then the removable loader.    *)
(* An entry that is not active is skipped in BootOrder.                    *)
(***************************************************************************)
Bootable(list) == {i \in DOMAIN list : entry[list[i]] \notin {"none", "off"}}

\* At POST the firmware may put its own list over BootOrder.
Boot ==
  /\ pc = "boot"
  /\ \/ next \in Existing /\ booted' = entry[next]
     \/ /\ next \notin Existing
        /\ \E list \in Orders :
             \/ Bootable(list) # {} /\ booted' = entry[list[Lowest(Bootable(list))]]
             \/ /\ Bootable(list) = {}
                /\ booted' = [none |-> "nothing", ours |-> "ours", theirs |-> "other"][fallback]
  /\ pc' = "booted"
  /\ UNCHANGED <<install, store, fallback, working, guid>>

Stopped == pc \in {"booted", "failed"} /\ UNCHANGED vars

Next ==
  \/ \E n \in Nums : Discard(n) \/ Surface(n)
  \/ ServicesEnd
  \/ Read \/ (\E esp \in BOOLEAN : Match(esp)) \/ Refused \/ Create \/ ReadBack
  \/ Delete \/ WriteOrder \/ WriteNext \/ CheckWindows
  \/ LimineInstall \/ (\E esp \in BOOLEAN : Validate(esp))
  \/ Boot
  \/ Stopped

Spec == Init /\ [][Next]_vars

-----------------------------------------------------------------------------
TypeOK ==
  /\ install \in [target : Targets, paths : BOOLEAN, claims : BOOLEAN]
  /\ entry \in [Nums -> Kinds \cup {"none"}]
  /\ order \in Orders
  /\ next \in Nums \cup {0}
  /\ services \in BOOLEAN
  /\ fallback \in {"none", "ours", "theirs"}
  /\ firmware \in 0..MaxFirmware
  /\ pc \in {"read", "match", "create", "readBack", "delete", "order",
             "next", "windows", "fallback", "check", "boot", "booted", "failed"}
  /\ pre \in [entry : [Nums -> Kinds \cup {"none"}], order : Orders, readable : BOOLEAN]
  /\ num \in Nums \cup {0}
  /\ identical \in SUBSET Nums
  /\ deleted \in SUBSET Nums
  /\ guid \in [register : BOOLEAN, check : BOOLEAN]
  /\ booted \in Kinds \cup {"none", "nothing"}

(***************************************************************************)
(* The install removes no entry but what its listing showed, and what      *)
(* still is, an active copy of its own, other than the one it reuses:      *)
(* every other install, loader and system keeps its boot option.  The      *)
(* reused one is not looked for again: it is still there if the firmware   *)
(* did nothing of its own accord, and if it did, what goes may be the last *)
(* copy.                                                                   *)
(***************************************************************************)
TakesOnlyCopies ==
  [][\A n \in Nums :
       (entry[n] # "none" /\ entry'[n] # entry[n] /\ firmware' = firmware)
         => /\ entry'[n] = "none" /\ entry[n] = "ours"
            /\ num # n /\ pre.entry[n] = "ours" /\ pre.entry[num] = "ours"
            /\ firmware = 0 => entry'[num] = "ours"]_vars

(***************************************************************************)
(* Every option that was in BootOrder when the registration read it, and   *)
(* that is still what it was, is in BootOrder until the registration and   *)
(* the Windows check are done with that listing: writing the order from it *)
(* drops nobody, a duplicate whose delete failed included.  No later phase *)
(* writes BootOrder.                                                       *)
(***************************************************************************)
OthersStayInOrder ==
  \A n \in Members(pre.order) \cap Existing : entry[n] = pre.entry[n] => n \in Members(order)

(***************************************************************************)
(* An install that is declared complete can be reached: at the check there *)
(* is an active entry for it, or it wrote the removable loader.  Both may  *)
(* be missing after any registration failure, discard, or loss of runtime  *)
(* services.  When the ESP's GUID cannot be read the check has to trust    *)
(* labels and paths, and promises less; and on a claimed ESP, another      *)
(* system's loader that limine-install did not replace passes for ours.    *)
(***************************************************************************)
CompletedIsReachable ==
  (pc = "boot" /\ guid.check) =>
    \/ fallback = "ours" \/ \E n \in Nums : entry[n] = "ours"
    \/ install.target = "shared" /\ install.claims /\ fallback = "theirs"

(***************************************************************************)
(* "The first boot reaches what was just installed whatever happens to     *)
(* BootOrder": while this install has an active entry and BootNext, once   *)
(* accepted, still names one, the first boot starts this install, though   *)
(* another install's entry of the same name turned up beside it and POST   *)
(* reordered.  Entries can be told apart only where efibootmgr prints      *)
(* paths and the ESP's GUID is known.                                      *)
(***************************************************************************)
FirstBootIsOurs ==
  (/\ pc = "booted" /\ next \in Existing
   /\ install.paths /\ guid.register
   /\ \E n \in Nums : entry[n] = "ours") => booted = "ours"
=============================================================================
