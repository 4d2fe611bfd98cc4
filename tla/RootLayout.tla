----------------------------- MODULE RootLayout -----------------------------
(***************************************************************************)
(* The root image holds one subvolume; the target's layout may name any    *)
(* number.  _place_root_image (orchestrator/phases_impl.py) makes each of  *)
(* them again, moves the image's files that lie under a mountpoint into    *)
(* what will be mounted there, and mounts the layout.  By then the disk is *)
(* wiped, so a layout the image cannot land on is refused before           *)
(* (_verify_nested_subvolumes).                                            *)
(*                                                                         *)
(* Paths are sequences of names.  The image has a file in each of its      *)
(* directories, and a file is named by the directory it belongs in; where  *)
(* it is, is a path below the filesystem's top level, below the staging    *)
(* directory (<<"stage", ...>>) or on a mounted FAT filesystem             *)
(* (<<"fat", ...>>).                                                       *)
(***************************************************************************)
EXTENDS Integers, FiniteSets, SequencesExt

CONSTANTS
  Names,         \* names an autoinstall layout may give extra subvolumes
  Mountpoints,   \* where it may mount them, relative to the target root
  FatMounts,     \* where it may mount FAT filesystems (the ESP)
  MaxExtra,      \* extra subvolumes in one layout
  ImageDirs,     \* the directories of the image
  Home           \* where the configurator's @home is mounted

ASSUME ImageAssumption ==
  \A d \in ImageDirs : \A n \in 0..Len(d) : SubSeq(d, 1, n) \in ImageDirs

Root         == <<"@">>
Configurator == {<<"@home">>}

\* Nothing but @ is mounted at the root, and nothing but @home at Home; those
\* two are not extra subvolumes, and the image has no file that @home would
\* hide.  No name but those the install gives ends in .omarchy-image.
ASSUME LayoutAssumption ==
  /\ Names \cup Mountpoints \cup FatMounts \cup ImageDirs \cup {Home} \subseteq Seq(STRING)
  /\ << >> \in ImageDirs /\ << >> \notin Names \cup Mountpoints \cup {Home}
  /\ Names \cap ({Root} \cup Configurator) = {}
  /\ Home \notin Mountpoints /\ \A d \in ImageDirs : ~IsPrefix(Home, d)
  /\ \A n \in Names : Head(n) \notin {"lost", "stage", "fat"}
  /\ \A p \in Names \cup ImageDirs : \A i \in 1..Len(p) : p[i] # "omarchy-image"

Lost         == <<"lost">>
Stage(path)  == <<"stage">> \o path
OnFat(path)  == <<"fat">> \o path

VARIABLES
  layout,   \* extra subvolumes, each to its mountpoint
  fat,      \* the mountpoints of FAT filesystems
  fs,       \* the filesystem: its directories, which of them are subvolumes,
            \* and where each of the image's files is
  placed,   \* the extra subvolumes made so far
  stale,    \* a file an earlier attempt left in the staging directory: its
            \* path there, then wherever it gets to
  step      \* where the install is

vars == <<layout, fat, fs, placed, stale, step>>

Rest(path, above) == SubSeq(path, Len(above) + 1, Len(path))
Below(path, above) == IsStrictPrefix(above, path)
Deepest(paths) == CHOOSE p \in paths : \A q \in paths : Len(q) <= Len(p)

\* Every subvolume of the layout and where it is mounted.
Where == [n \in DOMAIN layout \cup {Root} \cup Configurator |->
            IF n = Root THEN << >> ELSE IF n \in Configurator THEN Home ELSE layout[n]]

Layouts == UNION {{l \in [S -> Mountpoints] : IsInjective(l)} :
                    S \in {T \in SUBSET Names : Cardinality(T) <= MaxExtra}}

Init ==
  /\ layout \in Layouts
  /\ fat \in {F \in SUBSET FatMounts : F \cap {layout[n] : n \in DOMAIN layout} = {}}
  /\ fs = [dirs |-> {}, subvols |-> {}, at |-> [f \in ImageDirs |-> Lost]]
  /\ placed = {}
  /\ stale \in {Lost} \cup {Stage(m) : m \in fat}
  /\ step = "gate"

-----------------------------------------------------------------------------
(* _verify_nested_subvolumes                                               *)
Parents(name) == {o \in DOMAIN Where : IsStrictPrefix(o, name)}

\* Mutant: a name and its mountpoint need not agree.
NestingNotChecked(name) == TRUE

AtItsPath(name) ==
  LET parent == Deepest(Parents(name))
  IN Where[name] = Where[parent] \o Rest(name, parent)

NothingBetween(name) ==
  LET parent == Deepest(Parents(name))
  IN ~ \E o \in DOMAIN layout \ {name, parent} :
         /\ Below(Where[name], Where[o])
         /\ Below(Where[o], Where[parent])

Placeable == \A name \in DOMAIN layout :
               Parents(name) # {} => AtItsPath(name) /\ NothingBetween(name)

Accept ==
  /\ step = "gate" /\ Placeable
  /\ step' = "write"
  /\ UNCHANGED <<layout, fat, fs, placed, stale>>

Refuse ==
  /\ step = "gate" /\ ~Placeable
  /\ step' = "refused"
  /\ UNCHANGED <<layout, fat, fs, placed, stale>>

-----------------------------------------------------------------------------
(* The image is written, its subvolume renamed to @, and the               *)
(* configurator's subvolumes made beside it.                               *)
WriteImage ==
  /\ step = "write"
  /\ fs' = [dirs    |-> {Root \o d : d \in ImageDirs} \cup Configurator,
            subvols |-> {Root} \cup Configurator,
            at      |-> [f \in ImageDirs |-> Root \o f]]
  /\ step' = "place"
  /\ UNCHANGED <<layout, fat, placed, stale>>

\* What the commands do to the filesystem.
Moved(path, from, to) == IF IsPrefix(from, path) THEN to \o Rest(path, from) ELSE path

Renamed(s, from, to) ==
  [dirs    |-> {Moved(d, from, to) : d \in s.dirs},
   subvols |-> {Moved(d, from, to) : d \in s.subvols},
   at      |-> [f \in ImageDirs |-> Moved(s.at[f], from, to)]]

SubvolumeMade(s, name) ==
  [s EXCEPT !.dirs = @ \cup {SubSeq(name, 1, n) : n \in 1..Len(name)},
            !.subvols = @ \cup {name}]

\* Mutant: directories are removed and not copied.
EmptiedOfFiles(s, from, to) ==
  [dirs    |-> {d \in s.dirs : ~Below(d, from)},
   subvols |-> {d \in s.subvols : ~Below(d, from)},
   at      |-> [f \in ImageDirs |-> Moved(s.at[f], from, to)]]

\* cp -a from/. to, then everything in from removed: a subvolume in there goes
\* on as a directory.
Emptied(s, from, to) ==
  [dirs    |-> {IF Below(d, from) THEN Moved(d, from, to) ELSE d : d \in s.dirs},
   subvols |-> {d \in s.subvols : ~Below(d, from)},
   at      |-> [f \in ImageDirs |-> Moved(s.at[f], from, to)]]

Removed(s, path) ==
  [dirs    |-> {d \in s.dirs : ~IsPrefix(path, d)},
   subvols |-> {d \in s.subvols : ~IsPrefix(path, d)},
   at      |-> [f \in ImageDirs |-> IF IsPrefix(path, s.at[f]) THEN Lost ELSE s.at[f]]]

\* _image_dir_for: the files at path are in @, or in the subvolume made so far
\* that is mounted nearest above.
ImageDirFor(path) ==
  LET above == {o \in placed : IsPrefix(layout[o], path)}
      under == CHOOSE o \in above : layout[o] = Deepest({layout[p] : p \in above})
  IN IF above = {} THEN Root \o path ELSE under \o Rest(path, layout[under])

StagedName(name) == Append(Front(name), "omarchy-image")

\* Mutant: a name moved aside is dropped with what it held.
ContentNotFollowed(name, content) == content

\* Where content is once name has been moved aside.
Content(name, content) ==
  IF name \in fs.dirs /\ content = name THEN StagedName(name) ELSE content

Aside(name) == IF name \in fs.dirs THEN Renamed(fs, name, StagedName(name)) ELSE fs

\* _make_subvolume_with_image_files
WithSubvolume(name, content) ==
  LET made   == SubvolumeMade(Aside(name), name)
      from   == Content(name, content)
      filled == IF from \in made.dirs THEN Emptied(made, from, name) ELSE made
  IN Removed(filled, StagedName(name))

\* cp refuses to copy a directory into itself.
IntoItself(name, content) ==
  LET from == Content(name, content)
  IN Below(name, from) /\ from \in SubvolumeMade(Aside(name), name).dirs

\* _extra_subvolumes: names with fewer slashes first, otherwise as findmnt
\* lists them, a mount before those below it.
NextExtras ==
  LET left  == DOMAIN layout \ placed
      first == {n \in left : \A o \in left : Len(n) <= Len(o)}
  IN {n \in first : ~ \E o \in first : Below(layout[n], layout[o])}

PlaceExtra ==
  /\ step = "place"
  /\ \E name \in NextExtras :
       LET content == ImageDirFor(layout[name])
       IN IF IntoItself(name, content)
          THEN step' = "raised" /\ UNCHANGED <<fs, placed>>
          ELSE /\ fs' = WithSubvolume(name, content)
               /\ placed' = placed \cup {name}
               /\ UNCHANGED step
  /\ UNCHANGED <<layout, fat, stale>>

-----------------------------------------------------------------------------
(* _stage_image_files_under: what the image holds where a FAT filesystem   *)
(* will be mounted, except what is below another mount of ours.            *)
OwnMounts == {layout[n] : n \in placed} \cup fat

Keep(rel) == {m \in OwnMounts : Below(m, rel)}

Staged(path, rel) ==
  LET content == ImageDirFor(rel)
  IN /\ content \in fs.dirs
     /\ IsPrefix(content, path)
     /\ ~ \E m \in Keep(rel) : IsPrefix(content \o Rest(m, rel), path)

StagedPath(path) ==
  LET rels == {rel \in fat : Staged(path, rel)}
      rel  == Deepest(rels)
  IN IF rels = {} THEN path ELSE Stage(rel \o Rest(path, ImageDirFor(rel)))

LeftoversDropped == stale' = Lost

\* Directories go with their files, but for those that lead to another mount.
StageRemoves(dir) ==
  \E rel \in fat : /\ Staged(dir, rel)
                  /\ dir # ImageDirFor(rel)
                  /\ ~ \E m \in Keep(rel) : IsPrefix(dir, ImageDirFor(rel) \o Rest(m, rel))

StageFiles ==
  /\ step = "place" /\ NextExtras = {}
  /\ LeftoversDropped
  /\ fs' = [dirs    |-> {d \in fs.dirs : ~StageRemoves(d)},
            subvols |-> {d \in fs.subvols : ~StageRemoves(d)},
            at      |-> [f \in ImageDirs |-> StagedPath(fs.at[f])]]
  /\ step' = "mount"
  /\ UNCHANGED <<layout, fat, placed>>

\* Every mount again; a subvolume that is not there does not mount.
MountAgain ==
  /\ step = "mount"
  /\ step' = IF DOMAIN Where \subseteq fs.subvols THEN "restore" ELSE "raised"
  /\ UNCHANGED <<layout, fat, fs, placed, stale>>

\* What a path of the mounted target names.
Mounted == {Where[n] : n \in DOMAIN Where} \cup fat
Resolve(path) ==
  LET m == Deepest({p \in Mounted : IsPrefix(p, path)})
      n == CHOOSE o \in DOMAIN Where : Where[o] = m
  IN IF m \in fat THEN OnFat(path) ELSE n \o Rest(path, m)

\* _restore_image_files_onto
Restored(path) == IF path[1] = "stage" THEN Resolve(Tail(path)) ELSE path

Restore ==
  /\ step = "restore"
  /\ fs' = [fs EXCEPT !.at = [f \in ImageDirs |-> Restored(@[f])]]
  /\ stale' = Restored(stale)
  /\ step' = "placed"
  /\ UNCHANGED <<layout, fat, placed>>

Done == step \in {"placed", "refused", "raised"} /\ UNCHANGED vars

Next == Accept \/ Refuse \/ WriteImage \/ PlaceExtra \/ StageFiles
          \/ MountAgain \/ Restore \/ Done

Spec == Init /\ [][Next]_vars

-----------------------------------------------------------------------------
TypeOK ==
  /\ layout \in Layouts /\ fat \subseteq FatMounts
  /\ fs.subvols \subseteq fs.dirs
  /\ \A f \in ImageDirs : fs.at[f] \in fs.dirs \/ Head(fs.at[f]) \in {"lost", "stage", "fat"}
  /\ placed \subseteq DOMAIN layout
  /\ Head(stale) \in {"lost", "stage", "fat"}
  /\ step \in {"gate", "write", "place", "mount", "restore", "placed", "refused", "raised"}

\* Once the layout is mounted every file of the image is found at the path it
\* had in the image: whatever the order the subvolumes were made in, none is
\* hidden under a mount, moved aside and dropped, or left in the stage; and the
\* ESP gets none that an earlier attempt left staged.
ImageFilesVisible ==
  step = "placed" => stale = Lost /\ \A f \in ImageDirs : fs.at[f] = Resolve(f)

\* A layout the check accepts never fails once the disk is wiped: every copy
\* is possible and every subvolume it names is there to mount.
AcceptedIsPlaced == step # "raised"
=============================================================================
