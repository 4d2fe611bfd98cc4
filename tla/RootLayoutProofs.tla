-------------------------- MODULE RootLayoutProofs --------------------------
(***************************************************************************)
(* For any image, any names and mountpoints and any number of them: a      *)
(* layout the check accepts is placed, and every file of the image is at   *)
(* its own path once all is mounted.                                       *)
(*                                                                         *)
(* A file's place is told by the subvolume that holds its path: of those   *)
(* made so far, the one mounted nearest above (Holds).  The argument:      *)
(*                                                                         *)
(*  - Accepted names nest as their mountpoints do, at any depth (Nested),  *)
(*    though the check only looks at a name and the next one above it.     *)
(*  - So the next subvolume takes over exactly the files under its         *)
(*    mountpoint that nothing placed before holds (ContentIsUnder,         *)
(*    OthersHeld), takes no other subvolume along (PlacedStays), and is    *)
(*    never copied into itself (ContentBeside).                            *)
(*  - Every file therefore stays with its holder while the subvolumes are  *)
(*    made (Found), whether a name was there as a directory or not.        *)
(*  - When all are made, what is staged for a FAT mount is what it would   *)
(*    hide (StagedIsNearest), and what is not staged is where the mounts   *)
(*    show it (ResolveIs); no subvolume goes with it (SubvolumesStay).     *)
(***************************************************************************)
EXTENDS RootLayout, SequenceTheorems, FiniteSetTheorems, WellFoundedInduction, TLAPS

\* What paths are made of.  The provers do not know a string written out to be
\* in STRING, so those the module writes are named.
Components == STRING \cup {"@", "@home", "lost", "stage", "fat", "omarchy-image"}
Paths == Seq(Components)

\* A path is a function on its length.
LEMMA PathType ==
  ASSUME NEW p \in Paths
  PROVE  /\ Len(p) \in Nat /\ p \in [1..Len(p) -> Components]
         /\ p # << >> <=> Len(p) > 0
<1>1. p = << >> <=> Len(p) = 0
  BY EmptySeq, LenProperties, SeqEqual DEF Paths
<1> QED
  BY <1>1, LenProperties DEF Paths

\* Where the names of two paths joined come from.
LEMMA Concat ==
  ASSUME NEW a \in Paths, NEW b \in Paths
  PROVE  /\ a \o b \in Paths
         /\ Len(a \o b) = Len(a) + Len(b)
         /\ \A i \in 1..Len(a) : (a \o b)[i] = a[i]
         /\ \A i \in 1..Len(b) : (a \o b)[Len(a) + i] = b[i]
<1>1. Len(a) \in Nat /\ Len(b) \in Nat
  BY PathType
<1> QED
  BY <1>1, ConcatProperties DEF Paths

\* Paths with the same names are the same.
LEMMA Same ==
  ASSUME NEW a \in Paths, NEW b \in Paths, Len(a) = Len(b), \A i \in 1..Len(a) : a[i] = b[i]
  PROVE  a = b
BY SeqEqual DEF Paths

\* The part of a path between two places.
LEMMA Part ==
  ASSUME NEW p \in Paths, NEW m \in Nat, NEW n \in Nat, m <= n, n <= Len(p)
  PROVE  /\ SubSeq(p, m + 1, n) \in Paths
         /\ Len(SubSeq(p, m + 1, n)) = n - m
         /\ \A i \in 1..(n - m) : SubSeq(p, m + 1, n)[i] = p[m + i]
<1>1. \A i \in (m + 1)..n : p[i] \in Components
  BY PathType
<1>2. m + 1 \in Int /\ n \in Int
  OBVIOUS
<1> DEFINE s == SubSeq(p, m + 1, n)
<1>3. /\ s \in Seq(Components)
      /\ Len(s) = IF m + 1 <= n THEN n - (m + 1) + 1 ELSE 0
      /\ \A i \in 1..(n - (m + 1) + 1) : s[i] = p[(m + 1) + i - 1]
  <2> HIDE DEF s
  <2> QED BY <1>1, <1>2, SubSeqProperties DEF s
<1> HIDE DEF s
<1>4. Len(s) = n - m
  BY <1>3
<1>5. \A i \in 1..(n - m) : s[i] = p[m + i]
  <2> TAKE i \in 1..(n - m)
  <2>1. i \in Int /\ (m + 1) + i - 1 = m + i /\ n - (m + 1) + 1 = n - m
    OBVIOUS
  <2> QED BY <1>3, <2>1
<1> QED
  BY <1>3, <1>4, <1>5 DEF s, Paths

\* The first n names of a path.
LEMMA FirstPart ==
  ASSUME NEW p \in Paths, NEW n \in Nat, n <= Len(p)
  PROVE  /\ SubSeq(p, 1, n) \in Paths /\ Len(SubSeq(p, 1, n)) = n
         /\ \A i \in 1..n : SubSeq(p, 1, n)[i] = p[i]
<1> DEFINE s == SubSeq(p, 1, n)
<1>1. 1 \in Int /\ n \in Int /\ \A i \in 1..n : p[i] \in Components
  BY PathType
<1>2. \A m, k \in Int : (\A i \in m..k : p[i] \in Components) =>
           /\ SubSeq(p, m, k) \in Seq(Components)
           /\ Len(SubSeq(p, m, k)) = IF m <= k THEN k - m + 1 ELSE 0
           /\ \A i \in 1..(k - m + 1) : SubSeq(p, m, k)[i] = p[m + i - 1]
  BY SubSeqProperties
<1>3. /\ s \in Seq(Components) /\ Len(s) = IF 1 <= n THEN n - 1 + 1 ELSE 0
      /\ \A i \in 1..(n - 1 + 1) : s[i] = p[1 + i - 1]
  BY <1>1, <1>2, Zenon
<1> HIDE DEF s
<1>4. s \in Paths /\ Len(s) = n /\ \A i \in 1..n : s[i] = p[i]
  BY <1>3 DEF Paths
<1> QED
  BY <1>4 DEF s

\* IsPrefix, by the names.
LEMMA PrefixMeans ==
  ASSUME NEW a \in Paths, NEW p \in Paths
  PROVE  IsPrefix(a, p) <=> Len(a) <= Len(p) /\ \A i \in 1..Len(a) : a[i] = p[i]
<1>1. Len(a) \in Nat /\ Len(p) \in Nat /\ 0 \in Nat /\ 0 + 1 = 1
  BY PathType
<1>2. SubSeq(a, 1, Len(a)) = a
  BY SubSeqFull DEF Paths
<1>3. ASSUME Len(a) <= Len(p)
      PROVE  /\ SubSeq(p, 1, Len(a)) \in Paths
             /\ Len(SubSeq(p, 1, Len(a))) = Len(a)
             /\ \A i \in 1..Len(a) : SubSeq(p, 1, Len(a))[i] = p[i]
  BY <1>1, <1>3, FirstPart
<1> QED
  BY <1>1, <1>2, <1>3, Same DEF IsPrefix

\* To be above is an order.
LEMMA AboveIsOrder ==
  /\ \A a \in Paths : IsPrefix(a, a) /\ IsPrefix(<< >>, a)
  /\ \A a, b \in Paths : IsPrefix(a, b) => Len(a) <= Len(b)
  /\ \A a, b \in Paths : IsPrefix(a, b) /\ Len(b) <= Len(a) => a = b
  /\ \A a, b, c \in Paths : IsPrefix(a, b) /\ IsPrefix(b, c) => IsPrefix(a, c)
<1>1. << >> \in Paths /\ Len(<< >>) = 0
  BY EmptySeq DEF Paths
<1>2. \A a \in Paths : IsPrefix(a, a) /\ IsPrefix(<< >>, a)
  BY <1>1, PathType, PrefixMeans
<1>3. \A a, b \in Paths : IsPrefix(a, b) => Len(a) <= Len(b)
  BY PrefixMeans
<1>4. \A a, b \in Paths : IsPrefix(a, b) /\ Len(b) <= Len(a) => a = b
  BY PathType, PrefixMeans, Same
<1>5. ASSUME NEW a \in Paths, NEW b \in Paths, NEW c \in Paths, IsPrefix(a, b), IsPrefix(b, c)
      PROVE  IsPrefix(a, c)
  <2>1. /\ Len(a) <= Len(b) /\ Len(b) <= Len(c)
        /\ \A i \in 1..Len(a) : a[i] = b[i]
        /\ \A i \in 1..Len(b) : b[i] = c[i]
    BY <1>5, PrefixMeans
  <2>2. Len(a) \in Nat /\ Len(b) \in Nat /\ Len(c) \in Nat
    BY PathType
  <2>3. Len(a) <= Len(c) /\ \A i \in 1..Len(a) : a[i] = c[i]
    BY <2>1, <2>2
  <2> QED BY <2>3, PrefixMeans
<1> QED
  BY <1>2, <1>3, <1>4, <1>5

\* Of two paths above a third one is above the other.
LEMMA AboveIsChain ==
  ASSUME NEW a \in Paths, NEW b \in Paths, NEW p \in Paths,
         IsPrefix(a, p), IsPrefix(b, p), Len(a) <= Len(b)
  PROVE  IsPrefix(a, b)
<1>1. Len(a) \in Nat /\ Len(b) \in Nat
  BY PathType
<1> QED
  BY <1>1, PrefixMeans

\* A path is what is above, then the rest.
LEMMA Cut ==
  ASSUME NEW a \in Paths, NEW p \in Paths, IsPrefix(a, p)
  PROVE  Rest(p, a) \in Paths /\ p = a \o Rest(p, a)
<1>1. Len(a) \in Nat /\ Len(p) \in Nat /\ Len(a) <= Len(p) /\ \A i \in 1..Len(a) : a[i] = p[i]
  BY PathType, PrefixMeans
<1> DEFINE r == Rest(p, a)
<1>2. r \in Paths /\ Len(r) = Len(p) - Len(a) /\ \A i \in 1..(Len(p) - Len(a)) : r[i] = p[Len(a) + i]
  BY <1>1, Part DEF Rest
<1> HIDE DEF r
<1>3. a \o r \in Paths /\ Len(a \o r) = Len(p)
  BY <1>1, <1>2, Concat
<1>4. ASSUME NEW i \in 1..Len(p) PROVE p[i] = (a \o r)[i]
  <2>1. CASE i <= Len(a)
    <3>1. i \in 1..Len(a)
      BY <1>1, <2>1
    <3>2. (a \o r)[i] = a[i]
      BY <3>1, <1>2, Concat
    <3> QED BY <3>1, <3>2, <1>1
  <2>2. CASE i > Len(a)
    <3>1. i - Len(a) \in 1..Len(r) /\ Len(a) + (i - Len(a)) = i
      BY <1>1, <1>2, <2>2
    <3>2. (a \o r)[Len(a) + (i - Len(a))] = r[i - Len(a)]
      BY <3>1, <1>2, Concat
    <3> QED BY <3>1, <3>2, <1>2
  <2>3. i <= Len(a) \/ i > Len(a)
    BY <1>1
  <2> QED BY <2>1, <2>2, <2>3, Zenon
<1>5. p = a \o r
  BY <1>3, <1>4, Same
<1> QED
  BY <1>2, <1>5 DEF r

\* The inverse of Cut.
LEMMA Join ==
  ASSUME NEW a \in Paths, NEW r \in Paths
  PROVE  a \o r \in Paths /\ IsPrefix(a, a \o r) /\ Rest(a \o r, a) = r
<1>1. Len(a) \in Nat /\ Len(r) \in Nat
  BY PathType
<1>2. /\ a \o r \in Paths /\ Len(a \o r) = Len(a) + Len(r)
      /\ \A i \in 1..Len(a) : (a \o r)[i] = a[i]
      /\ \A i \in 1..Len(r) : (a \o r)[Len(a) + i] = r[i]
  BY Concat
<1>3. IsPrefix(a, a \o r)
  <2>1. Len(a) <= Len(a \o r) /\ \A i \in 1..Len(a) : a[i] = (a \o r)[i]
    BY <1>1, <1>2
  <2> QED BY <1>2, <2>1, PrefixMeans
<1> DEFINE p == a \o r
           s == Rest(p, a)
<1>4. p \in Paths /\ Len(a) <= Len(p) /\ Len(p) \in Nat
  BY <1>1, <1>2
<1> HIDE DEF p
<1>5. s \in Paths /\ Len(s) = Len(p) - Len(a) /\ \A i \in 1..(Len(p) - Len(a)) : s[i] = p[Len(a) + i]
  BY <1>1, <1>4, Part DEF Rest
<1> HIDE DEF s
<1>6. Len(p) - Len(a) = Len(r)
  BY <1>1, <1>2 DEF p
<1>7. s = r
  BY <1>2, <1>5, <1>6, Same DEF p
<1> QED
  BY <1>2, <1>3, <1>7 DEF p, s

\* Below the same path, paths are above each other as their rests are.
LEMMA SamePlace ==
  ASSUME NEW c \in Paths, NEW r \in Paths, NEW s \in Paths
  PROVE  IsPrefix(c \o r, c \o s) <=> IsPrefix(r, s)
<1> DEFINE p == c \o r
           q == c \o s
<1>1. Len(c) \in Nat /\ Len(r) \in Nat /\ Len(s) \in Nat
  BY PathType
<1>2. /\ p \in Paths /\ Len(p) = Len(c) + Len(r)
      /\ \A i \in 1..Len(c) : p[i] = c[i]
      /\ \A i \in 1..Len(r) : p[Len(c) + i] = r[i]
  BY Concat
<1>3. /\ q \in Paths /\ Len(q) = Len(c) + Len(s)
      /\ \A i \in 1..Len(c) : q[i] = c[i]
      /\ \A i \in 1..Len(s) : q[Len(c) + i] = s[i]
  BY Concat
<1> HIDE DEF p, q
<1>4. ASSUME IsPrefix(r, s) PROVE IsPrefix(p, q)
  <2>1. Len(r) <= Len(s) /\ \A i \in 1..Len(r) : r[i] = s[i]
    BY <1>4, PrefixMeans
  <2>2. ASSUME NEW i \in 1..Len(p) PROVE p[i] = q[i]
    <3>1. CASE i <= Len(c)
      BY <1>1, <1>2, <1>3, <3>1
    <3>2. CASE i > Len(c)
      <4>1. i - Len(c) \in 1..Len(r) /\ i - Len(c) \in 1..Len(s) /\ Len(c) + (i - Len(c)) = i
        BY <1>1, <1>2, <3>2, <2>1
      <4> QED BY <4>1, <1>2, <1>3, <2>1
    <3> QED BY <3>1, <3>2, <1>1
  <2>3. Len(p) <= Len(q)
    BY <2>1, <1>1, <1>2, <1>3
  <2> QED BY <2>2, <2>3, <1>2, <1>3, PrefixMeans
<1>5. ASSUME IsPrefix(p, q) PROVE IsPrefix(r, s)
  <2>1. Len(p) <= Len(q) /\ \A i \in 1..Len(p) : p[i] = q[i]
    BY <1>5, <1>2, <1>3, PrefixMeans
  <2>2. Len(r) <= Len(s)
    BY <2>1, <1>1, <1>2, <1>3
  <2>3. ASSUME NEW i \in 1..Len(r) PROVE r[i] = s[i]
    <3>1. Len(c) + i \in 1..Len(p) /\ i \in 1..Len(s)
      BY <1>1, <1>2, <2>2
    <3> QED BY <3>1, <2>1, <1>2, <1>3
  <2> QED BY <2>2, <2>3, PrefixMeans
<1> QED
  BY <1>4, <1>5 DEF p, q

\* Joining paths, and cutting them, in two steps or in one.
LEMMA JoinAssoc ==
  ASSUME NEW a \in Paths, NEW b \in Paths, NEW c \in Paths
  PROVE  (a \o b) \o c = a \o (b \o c)
BY ConcatAssociative DEF Paths

LEMMA RestOfAll ==
  ASSUME NEW p \in Paths
  PROVE  Rest(p, << >>) = p
<1> DEFINE r == Rest(p, << >>)
<1>1. << >> \in Paths
  BY EmptySeq DEF Paths
<1>2. r \in Paths /\ p = << >> \o r
  BY <1>1, AboveIsOrder, Cut
<1> HIDE DEF r
<1>3. << >> \o r = r
  BY <1>2, ConcatEmptySeq DEF Paths
<1> QED BY <1>2, <1>3 DEF r

LEMMA RestThrough ==
  ASSUME NEW a \in Paths, NEW b \in Paths, NEW p \in Paths, IsPrefix(a, b), IsPrefix(b, p)
  PROVE  Rest(p, a) = Rest(b, a) \o Rest(p, b)
<1> DEFINE r == Rest(b, a)
           s == Rest(p, b)
<1>1. r \in Paths /\ b = a \o r /\ s \in Paths /\ p = b \o s
  BY Cut
<1> HIDE DEF r, s
<1>2. p = a \o (r \o s) /\ r \o s \in Paths
  <2>1. (a \o r) \o s = a \o (r \o s) /\ r \o s \in Paths
    <3>1. r \in Paths /\ s \in Paths
      BY <1>1
    <3>2. r \o s \in Paths
      BY <3>1, Concat
    <3>3. (a \o r) \o s = a \o (r \o s)
      BY <3>1, JoinAssoc, Zenon
    <3> QED BY <3>2, <3>3
  <2> QED BY <1>1, <2>1, Zenon
<1>3. Rest(p, a) = r \o s
  BY <1>2, Join
<1> QED
  BY <1>3 DEF r, s

\* Below the same path, rests are above each other as the paths are.
LEMMA SameRest ==
  ASSUME NEW a \in Paths, NEW p \in Paths, NEW q \in Paths, IsPrefix(a, p), IsPrefix(a, q)
  PROVE  IsPrefix(Rest(p, a), Rest(q, a)) <=> IsPrefix(p, q)
<1> DEFINE r == Rest(p, a)
           s == Rest(q, a)
<1>1. r \in Paths /\ p = a \o r /\ s \in Paths /\ q = a \o s
  BY Cut
<1> HIDE DEF r, s
<1>2. IsPrefix(p, q) <=> IsPrefix(r, s)
  BY <1>1, SamePlace
<1> QED
  BY <1>2 DEF r, s

\* What SubvolumeMade makes is what is above a name.
LEMMA Leading ==
  ASSUME NEW p \in Paths
  PROVE  /\ \A n \in 1..Len(p) : /\ SubSeq(p, 1, n) \in Paths /\ SubSeq(p, 1, n) # << >>
                                 /\ IsPrefix(SubSeq(p, 1, n), p)
         /\ \A a \in Paths : a # << >> /\ IsPrefix(a, p) => \E n \in 1..Len(p) : a = SubSeq(p, 1, n)
<1>1. ASSUME NEW n \in 1..Len(p)
      PROVE  SubSeq(p, 1, n) \in Paths /\ SubSeq(p, 1, n) # << >> /\ IsPrefix(SubSeq(p, 1, n), p)
  <2>1. n \in Int /\ n > 0 /\ n <= Len(p) /\ Len(p) \in Nat
    BY PathType
  <2> DEFINE s == SubSeq(p, 1, n)
  <2>5. s \in Paths /\ Len(s) = n /\ \A i \in 1..n : s[i] = p[i]
    BY <2>1, FirstPart
  <2> HIDE DEF s
  <2>6. IsPrefix(s, p) /\ s # << >>
    BY <2>1, <2>5, PrefixMeans, PathType
  <2> QED BY <2>5, <2>6 DEF s
<1>2. ASSUME NEW a \in Paths, a # << >>, IsPrefix(a, p)
      PROVE  \E n \in 1..Len(p) : a = SubSeq(p, 1, n)
  <2>1. Len(a) \in Nat /\ Len(a) > 0 /\ Len(a) <= Len(p) /\ Len(p) \in Nat
    BY <1>2, PathType, PrefixMeans
  <2>2. a = SubSeq(a, 1, Len(a))
    BY SubSeqFull DEF Paths
  <2>3. a = SubSeq(p, 1, Len(a))
    BY <1>2, <2>2 DEF IsPrefix
  <2>4. Len(a) \in 1..Len(p)
    BY <2>1
  <2> QED BY <2>3, <2>4, Zenon
<1> QED BY <1>1, <1>2

\* The first component tells the stage and the FAT filesystems from the disk.
LEMMA FirstComponent ==
  ASSUME NEW a \in Paths, NEW r \in Paths, a # << >>
  PROVE  /\ a \o r # << >>
         /\ Head(a \o r) = Head(a) /\ Head(a) = a[1] /\ (a \o r)[1] = a[1]
<1>1. Len(a) \in Nat /\ Len(a) > 0 /\ Len(r) \in Nat /\ 1 \in 1..Len(a)
  BY PathType
<1>2. a \o r \in Paths /\ Len(a \o r) = Len(a) + Len(r) /\ (a \o r)[1] = a[1]
  BY <1>1, Concat
<1>3. a \o r # << >>
  BY <1>1, <1>2, PathType
<1>4. \A s \in Seq(Components) : s # << >> => Head(s) = s[1]
  OBVIOUS
<1> QED BY <1>2, <1>3, <1>4 DEF Paths

\* What is in the stage is told by its first name, and by what follows.
LEMMA InStage ==
  ASSUME NEW p \in Paths
  PROVE  /\ Stage(p) \in Paths /\ Stage(p) # << >> /\ Stage(p)[1] = "stage"
         /\ Tail(Stage(p)) = p /\ Head(Stage(p)) = "stage"
<1> DEFINE t == <<"stage">>
<1>1. t \in Paths /\ t # << >> /\ Len(t) = 1 /\ t[1] = "stage"
  <2>1. t \in Seq(Components)
    <3>1. "stage" \in Components
      BY DEF Components
    <3>2. \A S : \A e \in S : <<e>> \in Seq(S)
      OBVIOUS
    <3> QED BY <3>1, <3>2
  <2>2. Len(t) = 1 /\ t[1] = "stage"
    OBVIOUS
  <2> HIDE DEF t
  <2>3. Len(t) > 0
    BY <2>2
  <2>4. t # << >>
    BY <2>1, <2>3, PathType DEF Paths
  <2> QED BY <2>1, <2>2, <2>4 DEF Paths
<1> HIDE DEF t
<1>2. /\ t \o p \in Paths /\ t \o p # << >> /\ (t \o p)[1] = "stage" /\ Head(t \o p) = "stage"
      /\ Len(t \o p) = Len(t) + Len(p)
      /\ \A i \in 1..Len(p) : (t \o p)[Len(t) + i] = p[i]
  BY <1>1, Concat, FirstComponent
<1> DEFINE s == t \o p
           q == Tail(s)
<1> HIDE DEF s
<1>3. q \in Seq(Components) /\ Len(q) = Len(s) - 1 /\ \A i \in 1..Len(q) : q[i] = s[i + 1]
  BY <1>2, HeadTailProperties DEF s, Paths
<1> HIDE DEF q
<1>4. Len(p) \in Nat /\ Len(s) = 1 + Len(p) /\ \A i \in 1..Len(p) : s[1 + i] = p[i]
  BY <1>1, <1>2, PathType DEF s
<1>5. Len(q) = Len(p) /\ \A i \in 1..Len(q) : q[i] = p[i]
  BY <1>3, <1>4
<1>6. q = p
  BY <1>3, <1>5, Same DEF Paths
<1> QED
  BY <1>2, <1>6 DEF s, q, t, Stage

-----------------------------------------------------------------------------
(* Shortest and longest paths, for NextExtras and Deepest.                 *)
\* The least of a set of numbers, from the well-foundedness of finite sets.
LEMMA LeastExists ==
  ASSUME NEW S \in SUBSET Nat, S # {}
  PROVE  \E n \in S : \A m \in S : n <= m
<1> DEFINE R == StrictSubsetOrdering(Nat)
           F == FiniteSubsetsOf(Nat)
           T == {0..n : n \in S}
<1>1. T \subseteq F /\ T # {}
  <2>1. \A n \in S : 0..n \in SUBSET Nat /\ IsFiniteSet(0..n)
    BY FS_Interval
  <2> QED
    BY <2>1 DEF FiniteSubsetsOf
<1>2. PICK x \in T : \A y \in T : ~(<<y, x>> \in R)
  <2> HIDE DEF R, F, T
  <2>1. IsWellFoundedOn(R, F)
    BY FS_StrictSubsetOrderingWellFounded DEF R, F
  <2> QED
    BY <1>1, <2>1, WFMin
<1>3. PICK n \in S : x = 0..n
  OBVIOUS
<1>4. \A m \in S : n <= m
  <2> SUFFICES ASSUME NEW m \in S, m < n PROVE FALSE
    OBVIOUS
  <2>1. 0..m \in T /\ 0..m \subseteq 0..n /\ 0..m # 0..n /\ 0..n \subseteq Nat
    OBVIOUS
  <2> QED
    BY <1>2, <1>3, <2>1 DEF StrictSubsetOrdering
<1> QED
  BY <1>4

\* A set of paths has a shortest one.
LEMMA ShortestExists ==
  ASSUME NEW S \in SUBSET Paths, S # {}
  PROVE  \E p \in S : \A q \in S : Len(p) <= Len(q)
<1> DEFINE N == {Len(p) : p \in S}
<1>1. N \in SUBSET Nat /\ N # {}
  BY PathType
<1>2. PICK n \in N : \A m \in N : n <= m
  <2> HIDE DEF N
  <2> QED BY <1>1, LeastExists
<1>3. PICK p \in S : n = Len(p)
  BY <1>2
<1>4. \A q \in S : Len(q) \in N
  OBVIOUS
<1> QED
  BY <1>2, <1>3, <1>4

\* Deepest chooses, where there is a bound.
LEMMA DeepestIs ==
  ASSUME NEW p \in Paths, NEW S \in SUBSET Paths, S # {}, \A q \in S : Len(q) <= Len(p)
  PROVE  Deepest(S) \in S /\ \A q \in S : Len(q) <= Len(Deepest(S))
<1> DEFINE N == {Len(p) - Len(q) : q \in S}
<1>1. N \in SUBSET Nat /\ N # {}
  BY PathType
<1>2. PICK n \in N : \A m \in N : n <= m
  <2> HIDE DEF N
  <2> QED BY <1>1, LeastExists
<1>3. PICK d \in S : n = Len(p) - Len(d)
  BY <1>2
<1>4. ASSUME NEW q \in S PROVE Len(q) <= Len(d)
  <2>1. Len(p) - Len(d) <= Len(p) - Len(q)
    BY <1>2, <1>3
  <2>2. Len(p) \in Int /\ Len(d) \in Int /\ Len(q) \in Int
    BY PathType
  <2> QED BY <2>1, <2>2
<1> QED
  BY <1>4 DEF Deepest

-----------------------------------------------------------------------------
(* The layout.                                                             *)
\* The paths of the layout and of the image.
LEMMA Given ==
  /\ Names \cup Mountpoints \cup FatMounts \cup ImageDirs \cup {Home, Root, << >>} \cup Configurator \subseteq Paths
  /\ \A d \in {Root} \cup Configurator : Len(d) = 1
  /\ Root # << >> /\ Root \notin Configurator
  /\ Head(Root) = "@" /\ Root[1] = "@"
  /\ \A d \in Configurator : Head(d) = "@home"
<1>1. Seq(STRING) \subseteq Paths
  <2>1. STRING \subseteq Components
    BY DEF Components
  <2> QED BY <2>1, SeqMonotonic DEF Paths
<1>2. \A e \in Components : <<e>> \in Paths /\ Len(<<e>>) = 1 /\ Head(<<e>>) = e /\ <<e>>[1] = e
  BY DEF Paths
<1>3. "@" \in Components /\ "@home" \in Components /\ "@" # "@home"
  BY DEF Components
<1>4. Root \in Paths /\ Len(Root) = 1 /\ Head(Root) = "@" /\ Root[1] = "@"
  BY <1>2, <1>3 DEF Root
<1>5. \A d \in Configurator : d \in Paths /\ Len(d) = 1 /\ Head(d) = "@home"
  BY <1>2, <1>3 DEF Configurator
<1>6. << >> \in Paths /\ Len(<< >>) = 0
  BY EmptySeq DEF Paths
<1>7. Root # << >> /\ Root \notin Configurator
  BY <1>3, <1>4, <1>5, <1>6
<1>8. Names \cup Mountpoints \cup FatMounts \cup ImageDirs \cup {Home} \subseteq Paths
  BY <1>1, LayoutAssumption
<1> QED
  BY <1>4, <1>5, <1>6, <1>7, <1>8

\* No two subvolumes are mounted at the same place.
LEMMA WhereIs ==
  ASSUME layout \in Layouts
  PROVE  /\ DOMAIN layout \subseteq Names
         /\ DOMAIN Where = DOMAIN layout \cup {Root} \cup Configurator
         /\ \A n \in DOMAIN layout : Where[n] = layout[n] /\ layout[n] \in Mountpoints
         /\ Where[Root] = << >>
         /\ \A n \in Configurator : Where[n] = Home
         /\ \A n \in DOMAIN Where : n \in Paths /\ n # << >> /\ Where[n] \in Paths
         /\ \A n \in DOMAIN Where \ Configurator : \A o \in DOMAIN Where : Where[o] = Where[n] => o = n
<1>1. PICK S \in SUBSET Names : layout \in [S -> Mountpoints] /\ IsInjective(layout)
  BY DEF Layouts
<1>2. DOMAIN layout \subseteq Names /\ \A n \in DOMAIN layout : layout[n] \in Mountpoints
  BY <1>1
<1>3. \A n \in DOMAIN layout : n \notin {Root} \cup Configurator
  BY <1>2, LayoutAssumption
<1>4. DOMAIN Where = DOMAIN layout \cup {Root} \cup Configurator
  BY DEF Where
<1>5. \A n \in DOMAIN layout : Where[n] = layout[n]
  BY <1>3 DEF Where
<1>6. Where[Root] = << >>
  BY DEF Where
<1>7. \A n \in Configurator : Where[n] = Home
  BY Given DEF Where
<1>8. ASSUME NEW n \in DOMAIN Where
      PROVE  n \in Paths /\ n # << >> /\ Where[n] \in Paths
  <2>1. n \in Paths
    BY <1>2, <1>4, Given
  <2>2. n # << >>
    <3>1. CASE n \in DOMAIN layout
      BY <3>1, <1>2, LayoutAssumption
    <3>2. CASE n \in {Root} \cup Configurator
      <4>1. Len(n) = 1 /\ Len(<< >>) = 0
        BY <3>2, Given
      <4> QED BY <4>1
    <3> QED BY <3>1, <3>2, <1>4
  <2>3. Where[n] \in Paths
    BY <1>2, <1>4, <1>5, <1>6, <1>7, Given
  <2> QED BY <2>1, <2>2, <2>3
<1>9. ASSUME NEW n \in DOMAIN Where \ Configurator, NEW o \in DOMAIN Where, Where[o] = Where[n]
      PROVE  o = n
  <2>1. \A p, q \in DOMAIN layout : layout[p] = layout[q] => p = q
    BY <1>1 DEF IsInjective
  <2>2. << >> \notin Mountpoints /\ Home \notin Mountpoints /\ Home # << >>
    BY LayoutAssumption
  <2>3. CASE n = Root
    BY <2>2, <2>3, <1>2, <1>4, <1>5, <1>6, <1>7, <1>9
  <2>4. CASE n \in DOMAIN layout
    <3>1. o \in DOMAIN layout
      BY <2>2, <2>4, <1>2, <1>4, <1>5, <1>6, <1>7, <1>9
    <3> QED BY <2>1, <2>4, <3>1, <1>5, <1>9
  <2> QED BY <2>3, <2>4, <1>4
<1> QED
  BY <1>2, <1>4, <1>5, <1>6, <1>7, <1>8, <1>9

\* Only an extra subvolume has another one's name above its own.
LEMMA LowerIsExtra ==
  ASSUME layout \in Layouts, NEW c \in DOMAIN Where, NEW q \in DOMAIN Where, IsPrefix(c, q), c # q
  PROVE  q \in DOMAIN layout /\ Len(c) < Len(q)
<1>1. c \in Paths /\ q \in Paths /\ c # << >>
  BY WhereIs
<1>2. Len(c) \in Nat /\ Len(q) \in Nat /\ Len(c) > 0
  BY <1>1, PathType
<1>3. Len(c) < Len(q)
  <2>1. ~(Len(q) <= Len(c))
    BY <1>1, AboveIsOrder
  <2> QED BY <2>1, <1>2
<1>4. q \notin {Root} \cup Configurator
  <2>1. \A k, l \in Nat : k > 0 /\ k < l => l # 1
    OBVIOUS
  <2>2. Len(q) # 1
    BY <1>2, <1>3, <2>1
  <2> QED BY <2>2, Given
<1> QED
  BY <1>3, <1>4, WhereIs

\* A name below another one is mounted where that puts it, and what is mounted
\* between the two is named between them.
NestedRight(c, q) ==
  /\ IsPrefix(Where[c], Where[q]) /\ Rest(Where[q], Where[c]) = Rest(q, c)
  /\ \A o \in DOMAIN layout :
       IsStrictPrefix(Where[c], Where[o]) /\ IsStrictPrefix(Where[o], Where[q]) => IsStrictPrefix(o, q)

LEMMA Nested ==
  ASSUME layout \in Layouts, Placeable
  PROVE  \A c \in DOMAIN Where, q \in DOMAIN layout : IsStrictPrefix(c, q) => NestedRight(c, q)
<1> DEFINE Bad == {q \in DOMAIN layout : \E c \in DOMAIN Where : IsStrictPrefix(c, q) /\ ~NestedRight(c, q)}
<1> SUFFICES ASSUME Bad # {} PROVE FALSE
  OBVIOUS
<1>1. PICK q \in Bad : \A r \in Bad : Len(q) <= Len(r)
  <2>1. Bad \in SUBSET Paths
    BY WhereIs
  <2> HIDE DEF Bad
  <2> QED BY <2>1, ShortestExists
<1>2. PICK c \in DOMAIN Where : IsStrictPrefix(c, q) /\ ~NestedRight(c, q)
  BY <1>1
<1> DEFINE d == Deepest(Parents(q))
<1>3. q \in DOMAIN layout /\ q \in DOMAIN Where /\ q \in Paths /\ Where[q] \in Paths
      /\ c \in Paths /\ Where[c] \in Paths
  BY <1>1, WhereIs
<1>4. d \in Parents(q) /\ \A o \in Parents(q) : Len(o) <= Len(d)
  <2> DEFINE P == Parents(q)
  <2>1. P \in SUBSET Paths /\ P # {} /\ \A o \in P : Len(o) <= Len(q)
    BY <1>2, <1>3, WhereIs, AboveIsOrder DEF Parents, IsStrictPrefix
  <2> HIDE DEF P
  <2>2. Deepest(P) \in P /\ \A o \in P : Len(o) <= Len(Deepest(P))
    BY <1>3, <2>1, DeepestIs
  <2> QED BY <2>2 DEF P
<1>5. /\ d \in DOMAIN Where /\ d \in Paths /\ Where[d] \in Paths
      /\ IsPrefix(d, q) /\ d # q /\ Len(c) <= Len(d)
  BY <1>2, <1>4, WhereIs DEF Parents, IsStrictPrefix
<1>6. Where[q] = Where[d] \o Rest(q, d)
  <2>1. AtItsPath(q)
    BY <1>3, <1>4 DEF Placeable
  <2> QED BY <2>1 DEF AtItsPath
<1>7. ASSUME NEW o \in DOMAIN layout \ {q, d}, IsStrictPrefix(Where[d], Where[o]), IsStrictPrefix(Where[o], Where[q])
      PROVE  FALSE
  <2>1. NothingBetween(q)
    BY <1>3, <1>4 DEF Placeable
  <2> QED BY <2>1, <1>7 DEF NothingBetween, Below
<1> HIDE DEF d
<1>8. Rest(q, d) \in Paths /\ IsPrefix(Where[d], Where[q]) /\ Rest(Where[q], Where[d]) = Rest(q, d)
  <2>1. Rest(q, d) \in Paths
    BY <1>3, <1>5, Cut
  <2> QED BY <2>1, <1>5, <1>6, Join
<1>9. CASE c = d
  <2>1. ASSUME NEW o \in DOMAIN layout, IsStrictPrefix(Where[c], Where[o]), IsStrictPrefix(Where[o], Where[q])
        PROVE  FALSE
    BY <1>7, <1>9, <2>1 DEF IsStrictPrefix
  <2> QED BY <1>2, <1>8, <1>9, <2>1 DEF NestedRight
<1>10. CASE c # d
  <2>1. IsPrefix(c, d)
    BY <1>2, <1>3, <1>5, AboveIsChain DEF IsStrictPrefix
  <2>2. d \in DOMAIN layout
    BY <1>5, <1>10, <2>1, LowerIsExtra
  <2>3. d \notin Bad
    <3>1. Len(d) < Len(q)
      BY <1>3, <1>5, LowerIsExtra
    <3>2. Len(d) \in Nat /\ Len(q) \in Nat
      BY <1>3, <1>5, PathType
    <3> QED BY <1>1, <3>1, <3>2
  <2>4. NestedRight(c, d)
    BY <2>1, <2>2, <2>3, <1>10 DEF IsStrictPrefix
  <2>5. IsPrefix(Where[c], Where[d]) /\ Rest(Where[d], Where[c]) = Rest(d, c)
    BY <2>4 DEF NestedRight
  <2>6. IsPrefix(Where[c], Where[q])
    BY <2>5, <1>3, <1>5, <1>8, AboveIsOrder
  <2>7. Rest(Where[q], Where[c]) = Rest(q, c)
    <3>1. Rest(Where[q], Where[c]) = Rest(Where[d], Where[c]) \o Rest(Where[q], Where[d])
      BY <1>3, <1>5, <1>8, <2>5, RestThrough
    <3>2. Rest(q, c) = Rest(d, c) \o Rest(q, d)
      BY <1>3, <1>5, <2>1, RestThrough
    <3> QED BY <3>1, <3>2, <2>5, <1>8
  <2>8. ASSUME NEW o \in DOMAIN layout, IsStrictPrefix(Where[c], Where[o]), IsStrictPrefix(Where[o], Where[q])
        PROVE  IsStrictPrefix(o, q)
    <3>1. o \in DOMAIN Where /\ Where[o] \in Paths /\ o \in Paths
      BY WhereIs
    <3>2. CASE o = d
      BY <3>2, <1>5 DEF IsStrictPrefix
    <3>3. CASE o # d
      <4>1. Where[o] # Where[d]
        <5>1. d \notin Configurator
          BY <2>2, WhereIs, LayoutAssumption
        <5> QED BY <3>1, <3>3, <5>1, <1>5, WhereIs
      <4>2. o # q
        BY <2>8 DEF IsStrictPrefix
      <4>3. ~IsPrefix(Where[d], Where[o])
        BY <1>7, <2>8, <3>3, <4>1, <4>2 DEF IsStrictPrefix
      <4>4. IsPrefix(Where[o], Where[d])
        <5>1. Len(Where[o]) \in Nat /\ Len(Where[d]) \in Nat
          BY <3>1, <1>5, PathType
        <5>2. IsPrefix(Where[o], Where[q])
          BY <2>8 DEF IsStrictPrefix
        <5>3. Len(Where[o]) <= Len(Where[d]) \/ Len(Where[d]) <= Len(Where[o])
          BY <5>1
        <5> QED BY <5>2, <5>3, <4>3, <3>1, <1>3, <1>5, <1>8, AboveIsChain
      <4>5. IsStrictPrefix(o, d)
        BY <2>4, <2>8, <4>1, <4>4 DEF NestedRight, IsStrictPrefix
      <4>6. IsPrefix(o, q) /\ Len(o) < Len(d) /\ Len(d) < Len(q)
        BY <4>5, <3>1, <1>3, <1>5, AboveIsOrder, LowerIsExtra DEF IsStrictPrefix
      <4> QED BY <4>2, <4>6 DEF IsStrictPrefix
    <3> QED BY <3>2, <3>3
  <2> QED BY <1>2, <2>6, <2>7, <2>8 DEF NestedRight
<1> QED
  BY <1>9, <1>10

-----------------------------------------------------------------------------
(* Which subvolume holds the files at a path.                              *)

\* Of the subvolumes in made, the one mounted nearest above path.
Holds(made, h, path) ==
  /\ h \in made /\ IsPrefix(Where[h], path)
  /\ \A o \in made : IsPrefix(Where[o], path) => IsPrefix(Where[o], Where[h])

\* The subvolumes that hold files of the image.
Made == placed \cup {Root}

\* One subvolume holds a path.
LEMMA HoldsOnce ==
  ASSUME layout \in Layouts, NEW made \in SUBSET (DOMAIN layout \cup {Root}), NEW path,
         NEW h, NEW g, Holds(made, h, path), Holds(made, g, path)
  PROVE  h = g
<1>1. /\ h \in DOMAIN Where /\ g \in DOMAIN Where /\ g \notin Configurator
      /\ Where[h] \in Paths /\ Where[g] \in Paths
  BY WhereIs, Given, LayoutAssumption DEF Holds
<1>2. IsPrefix(Where[h], Where[g]) /\ IsPrefix(Where[g], Where[h])
  BY DEF Holds
<1>3. Where[h] = Where[g]
  BY <1>1, <1>2, AboveIsOrder
<1> QED
  BY <1>1, <1>3, WhereIs

\* _image_dir_for finds the subvolume that holds a path.
LEMMA HolderIs ==
  ASSUME layout \in Layouts, placed \subseteq DOMAIN layout, NEW path \in Paths
  PROVE  \E h \in Made : Holds(Made, h, path) /\ ImageDirFor(path) = h \o Rest(path, Where[h])
<1> DEFINE above == {o \in placed : IsPrefix(layout[o], path)}
           dirs  == {layout[p] : p \in above}
           under == CHOOSE o \in above : layout[o] = Deepest(dirs)
<1>1. \A o \in placed : Where[o] = layout[o] /\ layout[o] \in Paths
  BY WhereIs, Given
<1>2. Where[Root] = << >>
  BY WhereIs
<1>3. ImageDirFor(path) = IF above = {} THEN Root \o path ELSE under \o Rest(path, layout[under])
  BY DEF ImageDirFor
<1>4. CASE above = {}
  <2>1. IsPrefix(<< >>, path) /\ << >> \in Paths
    BY AboveIsOrder, Given
  <2>2. Rest(path, << >>) = path
    BY RestOfAll
  <2>3. Holds(Made, Root, path)
    <3>1. IsPrefix(Where[Root], path) /\ IsPrefix(Where[Root], Where[Root])
      BY <1>2, <2>1, AboveIsOrder
    <3>2. \A o \in Made : IsPrefix(Where[o], path) => o = Root
      BY <1>1, <1>4 DEF Made
    <3> QED BY <3>1, <3>2 DEF Holds, Made
  <2>4. ImageDirFor(path) = Root \o Rest(path, Where[Root])
    BY <1>2, <1>3, <1>4, <2>2
  <2> QED BY <2>3, <2>4 DEF Made
<1>5. CASE above # {}
  <2>1. dirs \in SUBSET Paths /\ dirs # {} /\ \A q \in dirs : Len(q) <= Len(path)
    BY <1>1, <1>5, AboveIsOrder
  <2>2. Deepest(dirs) \in dirs /\ \A q \in dirs : Len(q) <= Len(Deepest(dirs))
    <3> HIDE DEF dirs
    <3> QED BY <2>1, DeepestIs
  <2>3. under \in above /\ layout[under] = Deepest(dirs)
    <3>1. \E o \in above : layout[o] = Deepest(dirs)
      BY <2>2
    <3> QED BY <3>1
  <2> HIDE DEF under
  <2>4. under \in placed /\ Where[under] = layout[under] /\ layout[under] \in Paths /\ IsPrefix(layout[under], path)
    BY <2>3, <1>1
  <2>5. ASSUME NEW o \in Made, IsPrefix(Where[o], path) PROVE IsPrefix(Where[o], Where[under])
    <3>1. CASE o = Root
      BY <3>1, <1>2, <2>4, AboveIsOrder
    <3>2. CASE o \in placed
      <4>1. o \in above /\ layout[o] \in dirs
        BY <3>2, <2>5, <1>1
      <4>2. Len(layout[o]) <= Len(layout[under])
        BY <4>1, <2>2, <2>3
      <4> QED BY <4>2, <3>2, <2>4, <2>5, <1>1, AboveIsChain
    <3> QED BY <3>1, <3>2 DEF Made
  <2>6. Holds(Made, under, path)
    BY <2>4, <2>5 DEF Holds, Made
  <2>7. ImageDirFor(path) = under \o Rest(path, Where[under])
    BY <1>3, <1>5, <2>4
  <2> QED BY <2>4, <2>6, <2>7 DEF Made
<1> QED
  BY <1>4, <1>5

\* Names are as deep as where they hold: of a name and one below it.
LEMMA FromAbove ==
  ASSUME layout \in Layouts, Placeable, NEW c \in DOMAIN Where, NEW q \in DOMAIN Where, NEW p \in Paths,
         IsPrefix(c, q), IsPrefix(Where[q], p)
  PROVE  /\ IsPrefix(Where[c], Where[q]) /\ IsPrefix(Where[c], p)
         /\ q \o Rest(p, Where[q]) = c \o Rest(p, Where[c])
<1>1. c \in Paths /\ q \in Paths /\ Where[c] \in Paths /\ Where[q] \in Paths
  BY WhereIs
<1>2. CASE c = q
  BY <1>1, <1>2, AboveIsOrder
<1>3. CASE c # q
  <2>1. NestedRight(c, q)
    <3>1. q \in DOMAIN layout
      BY <1>3, LowerIsExtra
    <3> QED BY <1>3, <3>1, Nested DEF IsStrictPrefix
  <2>2. IsPrefix(Where[c], Where[q]) /\ Rest(Where[q], Where[c]) = Rest(q, c)
    BY <2>1 DEF NestedRight
  <2>3. IsPrefix(Where[c], p)
    BY <2>2, <1>1, AboveIsOrder
  <2>4. Rest(p, Where[c]) = Rest(q, c) \o Rest(p, Where[q])
    <3>1. Rest(p, Where[c]) = Rest(Where[q], Where[c]) \o Rest(p, Where[q])
      BY <2>2, <1>1, RestThrough
    <3> QED BY <2>2, <3>1, Zenon
  <2>5. q = c \o Rest(q, c) /\ Rest(q, c) \in Paths /\ Rest(p, Where[q]) \in Paths
    BY <1>1, Cut
  <2>6. (c \o Rest(q, c)) \o Rest(p, Where[q]) = c \o (Rest(q, c) \o Rest(p, Where[q]))
    <3>1. c \in Paths /\ Rest(q, c) \in Paths /\ Rest(p, Where[q]) \in Paths
      BY <1>1, <2>5
    <3> QED BY <3>1, JoinAssoc, Zenon
  <2>7. q \o Rest(p, Where[q]) = c \o Rest(p, Where[c])
    BY <2>4, <2>5, <2>6, Zenon
  <2> QED BY <2>2, <2>3, <2>7
<1> QED
  BY <1>2, <1>3

\* Where the files at m are is above where the file at f is only if m is above f.
LEMMA Inside ==
  ASSUME layout \in Layouts, Placeable, placed \subseteq DOMAIN layout,
         NEW m \in Paths, NEW f \in Paths, NEW c, NEW h, Holds(Made, c, m), Holds(Made, h, f),
         IsPrefix(c \o Rest(m, Where[c]), h \o Rest(f, Where[h]))
  PROVE  /\ IsPrefix(m, f) /\ IsPrefix(Where[c], Where[h])
         /\ h \o Rest(f, Where[h]) = c \o Rest(f, Where[c])
<1>1. /\ c \in DOMAIN Where /\ h \in DOMAIN Where /\ c \in Paths /\ h \in Paths /\ c \in Made /\ h \in Made
      /\ Where[c] \in Paths /\ Where[h] \in Paths /\ IsPrefix(Where[c], m) /\ IsPrefix(Where[h], f)
  BY WhereIs DEF Holds, Made
<1> DEFINE r == Rest(m, Where[c])
           s == Rest(f, Where[h])
<1>2. r \in Paths /\ s \in Paths /\ m = Where[c] \o r /\ f = Where[h] \o s
  BY <1>1, Cut
<1> HIDE DEF r, s
<1>3. c \o r \in Paths /\ h \o s \in Paths /\ IsPrefix(c, c \o r) /\ IsPrefix(h, h \o s) /\ IsPrefix(c \o r, h \o s)
  BY <1>1, <1>2, Join DEF r, s
<1>4. IsPrefix(c, h) \/ IsPrefix(h, c)
  <2>1. IsPrefix(c, h \o s)
    BY <1>1, <1>3, AboveIsOrder
  <2>2. Len(c) <= Len(h) \/ Len(h) <= Len(c)
    BY <1>1, PathType
  <2> QED BY <2>1, <2>2, <1>1, <1>3, AboveIsChain
<1>5. CASE IsPrefix(c, h)
  <2>1. IsPrefix(Where[c], Where[h]) /\ IsPrefix(Where[c], f) /\ h \o s = c \o Rest(f, Where[c])
    BY <1>1, <1>5, FromAbove DEF s
  <2>2. Rest(f, Where[c]) \in Paths
    BY <2>1, <1>1, Cut
  <2>3. IsPrefix(r, Rest(f, Where[c]))
    BY <2>1, <2>2, <1>1, <1>2, <1>3, SamePlace
  <2>4. IsPrefix(m, f)
    BY <2>1, <2>3, <1>1, SameRest DEF r
  <2> QED BY <2>1, <2>4 DEF s
<1>6. CASE IsPrefix(h, c)
  <2>1. IsPrefix(Where[h], Where[c]) /\ IsPrefix(Where[h], m) /\ c \o r = h \o Rest(m, Where[h])
    BY <1>1, <1>6, FromAbove DEF r
  <2>2. Rest(m, Where[h]) \in Paths
    BY <2>1, <1>1, Cut
  <2>3. IsPrefix(Rest(m, Where[h]), s)
    BY <2>1, <2>2, <1>1, <1>2, <1>3, SamePlace
  <2>4. IsPrefix(m, f)
    BY <2>1, <2>3, <1>1, SameRest DEF s
  <2>5. IsPrefix(Where[c], Where[h])
    BY <2>4, <1>1, AboveIsOrder DEF Holds
  <2>6. Where[c] = Where[h]
    BY <2>1, <2>5, <1>1, AboveIsOrder
  <2>7. c = h
    <3>1. h \notin Configurator
      BY <1>1, WhereIs, Given, LayoutAssumption DEF Made
    <3> QED BY <2>6, <3>1, <1>1, WhereIs
  <2> QED BY <2>4, <2>5, <2>7
<1> QED
  BY <1>4, <1>5, <1>6

-----------------------------------------------------------------------------
(* Placing one more.                                                       *)

\* Subvolumes are made in the order of their names' depth.
Ordered == \A p \in placed : \A n \in DOMAIN layout \ placed : Len(p) <= Len(n)

\* name is the next one, and what the image holds at its mountpoint is at content.
Placing(name, c, content) ==
  /\ layout \in Layouts /\ Placeable /\ placed \subseteq DOMAIN layout /\ Ordered
  /\ name \in DOMAIN layout \ placed
  /\ Holds(Made, c, layout[name]) /\ content = c \o Rest(layout[name], Where[c])

\* What placing is about.
LEMMA PlacingType ==
  ASSUME NEW name, NEW c, NEW content, Placing(name, c, content)
  PROVE  /\ Made \subseteq DOMAIN layout \cup {Root} /\ Made \subseteq DOMAIN Where
         /\ name \in DOMAIN layout /\ name \in DOMAIN Where /\ name \in Paths /\ name # << >> /\ name \notin Made
         /\ layout[name] \in Paths /\ Where[name] = layout[name]
         /\ c \in Made /\ c \in DOMAIN Where /\ c \in Paths /\ c # << >> /\ Where[c] \in Paths
         /\ IsPrefix(Where[c], layout[name]) /\ Where[c] # layout[name]
         /\ Rest(layout[name], Where[c]) \in Paths
         /\ content \in Paths /\ IsPrefix(c, content) /\ content # << >>
<1>1. layout \in Layouts /\ placed \subseteq DOMAIN layout /\ name \in DOMAIN layout \ placed /\ c \in Made
      /\ IsPrefix(Where[c], layout[name]) /\ content = c \o Rest(layout[name], Where[c])
  BY DEF Placing, Holds
<1>2. Root \notin DOMAIN layout /\ DOMAIN layout \cap Configurator = {}
  BY <1>1, WhereIs, LayoutAssumption
<1>3. Made \subseteq DOMAIN layout \cup {Root} /\ Made \subseteq DOMAIN Where /\ name \notin Made
  BY <1>1, <1>2, WhereIs DEF Made
<1>4. name \in DOMAIN Where /\ name \in Paths /\ name # << >> /\ layout[name] \in Paths /\ Where[name] = layout[name]
  BY <1>1, WhereIs, Given
<1>5. c \in DOMAIN Where /\ c \in Paths /\ c # << >> /\ Where[c] \in Paths
  BY <1>1, <1>3, WhereIs
<1>6. Where[c] # layout[name]
  <2>1. name \notin Configurator
    BY <1>1, <1>2
  <2> QED BY <2>1, <1>1, <1>3, <1>4, <1>5, WhereIs
<1>7. Rest(layout[name], Where[c]) \in Paths
  BY <1>1, <1>4, <1>5, Cut
<1>8. content \in Paths /\ IsPrefix(c, content)
  BY <1>1, <1>5, <1>7, Join
<1>9. content # << >>
  BY <1>1, <1>5, <1>7, FirstComponent
<1> QED
  BY <1>1, <1>3, <1>4, <1>5, <1>6, <1>7, <1>8, <1>9

\* What is placed stays where it is.
LEMMA PlacedStays ==
  ASSUME NEW name, NEW c, NEW content, Placing(name, c, content),
         NEW o \in {Root} \cup Configurator \cup placed
  PROVE  ~IsPrefix(name, o) /\ ~IsStrictPrefix(content, o)
<1>1. layout \in Layouts /\ Placeable /\ o \in DOMAIN Where /\ o \in Paths /\ Where[o] \in Paths
  BY WhereIs DEF Placing
<1>2. ~IsPrefix(name, o)
  <2>1. CASE o \in {Root} \cup Configurator
    <3>1. Len(o) = 1 /\ Len(name) \in Nat /\ Len(name) > 0
      BY <2>1, Given, PlacingType, PathType
    <3>2. name # o
      BY <2>1, <1>1, PlacingType, WhereIs, LayoutAssumption
    <3>3. Len(o) <= Len(name)
      BY <3>1
    <3> QED BY <3>2, <3>3, <1>1, PlacingType, AboveIsOrder
  <2>2. CASE o \in placed
    <3>1. Len(o) <= Len(name) /\ name # o
      BY <2>2 DEF Placing, Ordered
    <3> QED BY <3>1, <1>1, PlacingType, AboveIsOrder
  <2> QED BY <2>1, <2>2
<1>3. ASSUME IsStrictPrefix(content, o) PROVE FALSE
  <2> DEFINE m == layout[name]
  <2>1. c \in Paths /\ c \in DOMAIN Where /\ content \in Paths /\ Where[c] \in Paths /\ m \in Paths
        /\ IsPrefix(Where[c], m) /\ Where[c] # m /\ name \in DOMAIN layout /\ Where[name] = m
        /\ IsPrefix(c, content) /\ IsPrefix(content, o) /\ content # o
    BY <1>3, PlacingType DEF IsStrictPrefix
  <2>2. IsPrefix(c, o) /\ c # o
    <3>1. c # o
      BY <2>1, AboveIsOrder
    <3> QED BY <3>1, <2>1, <1>1, AboveIsOrder
  <2>3. o \in DOMAIN layout /\ o \in placed
    <3>1. o \in DOMAIN layout
      BY <2>1, <2>2, <1>1, LowerIsExtra
    <3> QED BY <3>1, <1>1, WhereIs, LayoutAssumption
  <2>4. NestedRight(c, o)
    BY <2>1, <2>2, <2>3, <1>1, Nested DEF IsStrictPrefix
  <2>5. IsPrefix(Where[c], Where[o]) /\ Rest(Where[o], Where[c]) = Rest(o, c)
    BY <2>4 DEF NestedRight
  <2>6. IsPrefix(m, Where[o])
    <3> DEFINE r == Rest(m, Where[c])
               s == Rest(o, c)
    <3>1. r \in Paths /\ s \in Paths /\ content = c \o r /\ o = c \o s
      BY <2>1, <2>2, <1>1, Cut DEF Placing
    <3> HIDE DEF r, s
    <3>2. IsPrefix(r, s)
      BY <3>1, <2>1, SamePlace
    <3>3. IsPrefix(Rest(m, Where[c]), Rest(Where[o], Where[c]))
      BY <3>2, <2>5 DEF r, s
    <3> QED BY <3>3, <2>1, <2>5, <1>1, SameRest
  <2>7. m # Where[o]
    <3>1. o # name /\ o \notin Configurator
      BY <2>3, <1>1, WhereIs, LayoutAssumption DEF Placing
    <3> QED BY <3>1, <2>1, <1>1, WhereIs
  <2>8. IsStrictPrefix(name, o)
    BY <2>1, <2>4, <2>6, <2>7 DEF NestedRight, IsStrictPrefix
  <2> QED BY <2>8, <1>2 DEF IsStrictPrefix
<1> QED
  BY <1>2, <1>3

\* Where the content is and where it goes are the same, or apart.
LEMMA ContentBeside ==
  ASSUME NEW name, NEW c, NEW content, Placing(name, c, content),
         IsPrefix(content, name) \/ IsPrefix(name, content)
  PROVE  content = name
<1>1. layout \in Layouts /\ Placeable /\ content = c \o Rest(layout[name], Where[c])
  BY DEF Placing
<1>2. IsPrefix(c, name)
  <2>1. CASE IsPrefix(content, name)
    BY <2>1, PlacingType, AboveIsOrder
  <2>2. CASE IsPrefix(name, content)
    <3>1. ~IsPrefix(name, c)
      <4>1. c \in {Root} \cup Configurator \cup placed
        BY PlacingType DEF Made
      <4> QED BY <4>1, PlacedStays
    <3>2. Len(c) <= Len(name) \/ Len(name) <= Len(c)
      BY PlacingType, PathType
    <3> QED BY <3>1, <3>2, <2>2, PlacingType, AboveIsChain
  <2> QED BY <2>1, <2>2
<1>3. c # name /\ c \in DOMAIN Where /\ name \in DOMAIN layout /\ Where[name] = layout[name]
      /\ c \in Paths /\ name \in Paths
  BY PlacingType
<1>4. NestedRight(c, name)
  BY <1>1, <1>2, <1>3, Nested DEF IsStrictPrefix
<1>5. Rest(layout[name], Where[c]) = Rest(name, c)
  BY <1>3, <1>4 DEF NestedRight
<1>6. name = c \o Rest(name, c)
  BY <1>2, <1>3, Cut
<1> QED
  BY <1>1, <1>5, <1>6, Zenon

\* A file of the image where the new subvolume's content is, is under its
\* mountpoint and held by it from now on.
LEMMA ContentIsUnder ==
  ASSUME NEW name, NEW c, NEW content, Placing(name, c, content),
         NEW f \in Paths, NEW h, Holds(Made, h, f),
         IsPrefix(content, h \o Rest(f, Where[h]))
  PROVE  /\ IsPrefix(layout[name], f)
         /\ h \o Rest(f, Where[h]) = content \o Rest(f, layout[name])
         /\ Holds(Made \cup {name}, name, f)
<1> DEFINE mount == layout[name]
<1>1. layout \in Layouts /\ Placeable /\ Ordered /\ Holds(Made, c, mount) /\ content = c \o Rest(mount, Where[c])
      /\ name \notin placed /\ name \in DOMAIN layout
  BY DEF Placing
<1>2. Made \in SUBSET (DOMAIN layout \cup {Root}) /\ mount \in Paths /\ c \in Paths /\ Where[c] \in Paths
      /\ IsPrefix(Where[c], mount) /\ Where[c] # mount /\ Where[name] = mount
      /\ c \in DOMAIN Where /\ name \in DOMAIN Where
      /\ IsPrefix(c, content) /\ content \in Paths /\ c \in Made
  BY PlacingType
<1>3. h \in Made /\ h \in DOMAIN Where /\ h \in Paths /\ Where[h] \in Paths /\ IsPrefix(Where[h], f)
  BY <1>1, PlacingType, WhereIs DEF Holds
<1>4. IsPrefix(mount, f) /\ IsPrefix(Where[c], Where[h]) /\ h \o Rest(f, Where[h]) = c \o Rest(f, Where[c])
  <2>1. IsPrefix(c \o Rest(mount, Where[c]), h \o Rest(f, Where[h]))
    BY <1>1
  <2>2. layout \in Layouts /\ Placeable /\ placed \subseteq DOMAIN layout /\ Holds(Made, c, mount) /\ mount \in Paths
    BY <1>1, <1>2 DEF Placing
  <2> QED BY <2>1, <2>2, Inside
<1>5. IsPrefix(Where[h], mount)
  <2> SUFFICES ASSUME ~IsPrefix(Where[h], mount) PROVE FALSE
    OBVIOUS
  <2>1. IsPrefix(mount, Where[h]) /\ mount # Where[h]
    <3>1. Len(mount) <= Len(Where[h]) \/ Len(Where[h]) <= Len(mount)
      BY <1>2, <1>3, PathType
    <3>2. mount # Where[h]
      BY <1>2, AboveIsOrder
    <3> QED BY <3>1, <3>2, <1>2, <1>3, <1>4, AboveIsChain
  <2>2. h \in placed
    <3>1. h # Root
      BY <1>1, <1>2, WhereIs, AboveIsOrder
    <3> QED BY <3>1, <1>3 DEF Made
  <2>3. IsPrefix(c, h) \/ IsPrefix(h, c)
    <3>1. Rest(f, Where[h]) \in Paths
      BY <1>3, Cut
    <3>2. h \o Rest(f, Where[h]) \in Paths /\ IsPrefix(h, h \o Rest(f, Where[h]))
      BY <3>1, <1>3, Join
    <3>3. IsPrefix(c, h \o Rest(f, Where[h]))
      BY <3>2, <1>2, AboveIsOrder
    <3>4. Len(c) <= Len(h) \/ Len(h) <= Len(c)
      BY <1>2, <1>3, PathType
    <3> QED BY <3>2, <3>3, <3>4, <1>2, <1>3, AboveIsChain
  <2>4. CASE IsPrefix(c, h)
    <3>1. c # h /\ h \in DOMAIN layout
      BY <1>2, <2>2, <2>1, AboveIsOrder DEF Placing
    <3>2. NestedRight(c, h)
      BY <2>4, <3>1, <1>1, <1>2, Nested DEF IsStrictPrefix
    <3>3. IsStrictPrefix(name, h)
      BY <3>2, <1>1, <1>2, <2>1 DEF NestedRight, IsStrictPrefix
    <3> QED BY <3>3, <2>2, PlacedStays DEF IsStrictPrefix
  <2>5. CASE IsPrefix(h, c)
    <3>1. IsPrefix(Where[h], mount)
      BY <2>5, <1>1, <1>2, <1>3, FromAbove
    <3> QED BY <3>1
  <2> QED BY <2>3, <2>4, <2>5
<1>6. Where[h] = Where[c]
  <2>1. IsPrefix(Where[h], Where[c])
    BY <1>1, <1>3, <1>5 DEF Holds
  <2> QED BY <2>1, <1>2, <1>3, <1>4, AboveIsOrder
<1>7. h \o Rest(f, Where[h]) = content \o Rest(f, mount)
  <2> DEFINE r == Rest(mount, Where[c])
             s == Rest(f, mount)
  <2>1. r \in Paths /\ s \in Paths
    BY <1>2, <1>4, Cut
  <2>2. Rest(f, Where[c]) = r \o s
    BY <1>2, <1>4, RestThrough
  <2>3. content = c \o r
    BY <1>1
  <2> HIDE DEF r, s
  <2>4. (c \o r) \o s = c \o (r \o s)
    <3>1. c \in Paths
      BY <1>2
    <3> QED BY <2>1, <3>1, JoinAssoc, Zenon
  <2>5. h \o Rest(f, Where[h]) = content \o s
    BY <2>2, <2>3, <2>4, <1>4, Zenon
  <2> QED BY <2>5 DEF s
<1>8. Holds(Made \cup {name}, name, f)
  <2>1. IsPrefix(mount, mount)
    BY <1>2, AboveIsOrder
  <2>2. ASSUME NEW o \in Made, IsPrefix(Where[o], f) PROVE IsPrefix(Where[o], mount)
    <3>1. IsPrefix(Where[o], Where[c]) /\ Where[o] \in Paths
      BY <2>2, <1>1, <1>6, PlacingType, WhereIs DEF Holds
    <3> QED BY <3>1, <1>2, AboveIsOrder
  <2> QED BY <2>1, <2>2, <1>2, <1>4 DEF Holds
<1> QED
  BY <1>4, <1>7, <1>8 DEF mount

\* Of two subvolumes above a path the deeper one holds what is between.
LEMMA HoldsBetween ==
  ASSUME layout \in Layouts, NEW made \in SUBSET (DOMAIN layout \cup {Root}), NEW m \in Paths, NEW f \in Paths,
         NEW h, Holds(made, h, f), IsPrefix(m, f), IsPrefix(Where[h], m)
  PROVE  Holds(made, h, m)
<1>1. \A o \in made : Where[o] \in Paths
  BY WhereIs
<1> QED
  BY <1>1, AboveIsOrder DEF Holds

\* Any other file is held where it was.
LEMMA OthersHeld ==
  ASSUME NEW name, NEW c, NEW content, Placing(name, c, content),
         NEW f \in Paths, NEW h, Holds(Made, h, f),
         ~IsPrefix(content, h \o Rest(f, Where[h]))
  PROVE  /\ Holds(Made \cup {name}, h, f)
         /\ ~IsPrefix(name, h \o Rest(f, Where[h]))
<1> DEFINE m == layout[name]
<1>1. layout \in Layouts /\ Placeable /\ Holds(Made, c, m) /\ content = c \o Rest(m, Where[c])
  BY DEF Placing
<1>2. Made \in SUBSET (DOMAIN layout \cup {Root}) /\ m \in Paths /\ name \in Paths /\ name \in DOMAIN layout
      /\ Where[name] = m /\ name \notin Made
  BY PlacingType
<1>3. h \in Made /\ h \in DOMAIN Where /\ h \in Paths /\ Where[h] \in Paths /\ IsPrefix(Where[h], f)
      /\ Rest(f, Where[h]) \in Paths
  BY <1>1, PlacingType, WhereIs, Cut DEF Holds
<1> HIDE DEF m
<1>4. ASSUME IsPrefix(m, f), IsPrefix(Where[h], m) PROVE FALSE
  <2>1. h = c
    <3>1. Holds(Made, h, m)
      BY <1>1, <1>2, <1>4, HoldsBetween
    <3> QED BY <3>1, <1>1, <1>2, HoldsOnce
  <2>2. Rest(m, Where[h]) \in Paths /\ IsPrefix(Rest(m, Where[h]), Rest(f, Where[h]))
    BY <1>2, <1>3, <1>4, Cut, SameRest
  <2>3. IsPrefix(h \o Rest(m, Where[h]), h \o Rest(f, Where[h]))
    BY <2>2, <1>3, SamePlace
  <2> QED BY <2>1, <2>3, <1>1
<1>5. Holds(Made \cup {name}, h, f)
  <2>1. ASSUME IsPrefix(m, f) PROVE IsPrefix(m, Where[h])
    <3>1. Len(m) <= Len(Where[h]) \/ Len(Where[h]) <= Len(m)
      BY <1>2, <1>3, PathType
    <3> QED BY <3>1, <2>1, <1>2, <1>3, <1>4, AboveIsChain
  <2> QED BY <2>1, <1>2 DEF Holds
<1>6. ASSUME IsPrefix(name, h \o Rest(f, Where[h])) PROVE FALSE
  <2>1. h \o Rest(f, Where[h]) \in Paths /\ IsPrefix(h, h \o Rest(f, Where[h]))
    BY <1>3, Join
  <2>2. ~IsPrefix(name, h)
    BY <1>3, PlacedStays DEF Made
  <2>3. IsPrefix(h, name) /\ h # name
    <3>1. Len(h) <= Len(name) \/ Len(name) <= Len(h)
      BY <1>2, <1>3, PathType
    <3> QED BY <3>1, <2>1, <2>2, <1>2, <1>3, <1>6, AboveIsChain
  <2>4. NestedRight(h, name)
    BY <2>3, <1>1, <1>2, <1>3, Nested DEF IsStrictPrefix
  <2>5. IsPrefix(Where[h], m) /\ Rest(m, Where[h]) = Rest(name, h)
    BY <2>4, <1>2 DEF NestedRight
  <2>6. name = h \o Rest(m, Where[h]) /\ Rest(m, Where[h]) \in Paths
    BY <2>3, <2>5, <1>2, <1>3, Cut
  <2>7. IsPrefix(Rest(m, Where[h]), Rest(f, Where[h]))
    <3>1. IsPrefix(h \o Rest(m, Where[h]), h \o Rest(f, Where[h]))
      BY <2>6, <1>6
    <3> QED BY <3>1, <2>6, <1>3, SamePlace
  <2>8. IsPrefix(m, f)
    BY <2>5, <2>7, <1>2, <1>3, SameRest
  <2> QED BY <2>5, <2>8, <1>4
<1> QED
  BY <1>5, <1>6

-----------------------------------------------------------------------------
(* What making a subvolume does.                                           *)
\* The filesystem is a record of its three parts.
FsShape == fs = [dirs |-> fs.dirs, subvols |-> fs.subvols, at |-> fs.at]

\* The directories that lead to name, and name.
Leads(name) == {SubSeq(name, 1, n) : n \in 1..Len(name)}
\* name made, what was there moved aside.
Fresh(name) == SubvolumeMade(Aside(name), name)

\* The filesystem when the subvolume is made and before it is filled.
LEMMA FreshIs ==
  ASSUME FsShape, NEW name
  PROVE  LET aside(p) == Moved(p, name, StagedName(name))
         IN /\ Fresh(name).dirs = (IF name \in fs.dirs THEN {aside(d) : d \in fs.dirs} ELSE fs.dirs)
                                    \cup Leads(name)
            /\ Fresh(name).subvols = (IF name \in fs.dirs THEN {aside(d) : d \in fs.subvols} ELSE fs.subvols)
                                    \cup {name}
            /\ \A f \in ImageDirs :
                 Fresh(name).at[f] = IF name \in fs.dirs THEN aside(fs.at[f]) ELSE fs.at[f]
<1>1. ASSUME NEW s, NEW D, NEW V, NEW A, s = [dirs |-> D, subvols |-> V, at |-> A]
      PROVE  /\ SubvolumeMade(s, name).dirs = D \cup Leads(name)
             /\ SubvolumeMade(s, name).subvols = V \cup {name}
             /\ SubvolumeMade(s, name).at = A
  <2>1. SubvolumeMade(s, name) = [s EXCEPT !.dirs = @ \cup Leads(name), !.subvols = @ \cup {name}]
    BY DEF SubvolumeMade, Leads
  <2> HIDE DEF SubvolumeMade
  <2> QED BY <1>1, <2>1
<1> DEFINE S == StagedName(name)
           D == IF name \in fs.dirs THEN {Moved(d, name, S) : d \in fs.dirs} ELSE fs.dirs
           V == IF name \in fs.dirs THEN {Moved(d, name, S) : d \in fs.subvols} ELSE fs.subvols
           A == IF name \in fs.dirs THEN [f \in ImageDirs |-> Moved(fs.at[f], name, S)] ELSE fs.at
<1>2. Aside(name) = [dirs |-> D, subvols |-> V, at |-> A]
  BY DEF Aside, Renamed, FsShape
<1>3. Fresh(name).dirs = D \cup Leads(name) /\ Fresh(name).subvols = V \cup {name} /\ Fresh(name).at = A
  <2> HIDE DEF D, V, A
  <2> QED BY <1>1, <1>2 DEF Fresh
<1> QED
  BY <1>3

\* What WithSubvolume keeps and what it moves.
LEMMA SubvolumeIs ==
  ASSUME NEW name, NEW content
  PROVE  LET W    == WithSubvolume(name, content)
             from == Content(name, content)
             S    == StagedName(name)
             F    == Fresh(name)
         IN /\ \A d \in F.dirs : ~Below(d, from) /\ ~IsPrefix(S, d) => d \in W.dirs
            /\ \A d \in F.subvols : ~Below(d, from) /\ ~IsPrefix(S, d) => d \in W.subvols
            /\ from \in F.dirs => \A d \in F.dirs : Below(d, from) /\ ~IsPrefix(S, Moved(d, from, name))
                                                     => Moved(d, from, name) \in W.dirs
            /\ \A f \in ImageDirs :
                 LET at == IF from \in F.dirs THEN Moved(F.at[f], from, name) ELSE F.at[f]
                 IN ~IsPrefix(S, at) => W.at[f] = at
            /\ F.subvols \subseteq F.dirs => W.subvols \subseteq W.dirs
            /\ W = [dirs |-> W.dirs, subvols |-> W.subvols, at |-> W.at]
<1> DEFINE W      == WithSubvolume(name, content)
           from   == Content(name, content)
           S      == StagedName(name)
           F      == Fresh(name)
           filled == IF from \in F.dirs THEN Emptied(F, from, name) ELSE F
<1>1. W = Removed(filled, S)
  BY DEF WithSubvolume, Fresh
<1>2. /\ W.dirs = {d \in filled.dirs : ~IsPrefix(S, d)}
      /\ W.subvols = {d \in filled.subvols : ~IsPrefix(S, d)}
      /\ \A f \in ImageDirs : W.at[f] = IF IsPrefix(S, filled.at[f]) THEN Lost ELSE filled.at[f]
      /\ W = [dirs |-> W.dirs, subvols |-> W.subvols, at |-> W.at]
  <2> HIDE DEF W, filled, S
  <2> QED BY <1>1 DEF Removed
<1>3. CASE from \in F.dirs
  <2>1. filled = Emptied(F, from, name)
    BY <1>3
  <2>2. /\ filled.dirs = {IF Below(d, from) THEN Moved(d, from, name) ELSE d : d \in F.dirs}
        /\ filled.subvols = {d \in F.subvols : ~Below(d, from)}
        /\ \A f \in ImageDirs : filled.at[f] = Moved(F.at[f], from, name)
    <3> HIDE DEF F, from, filled
    <3> QED BY <2>1 DEF Emptied
  <2> HIDE DEF W, F, from, filled, S
  <2>3. \A d \in F.dirs : ~Below(d, from) => d \in filled.dirs
    BY <2>2
  <2>4. \A d \in F.dirs : Below(d, from) => Moved(d, from, name) \in filled.dirs
    BY <2>2
  <2>5. F.subvols \subseteq F.dirs => filled.subvols \subseteq filled.dirs
    BY <2>2, <2>3
  <2>6. /\ \A d \in F.dirs : ~Below(d, from) /\ ~IsPrefix(S, d) => d \in W.dirs
        /\ \A d \in F.subvols : ~Below(d, from) /\ ~IsPrefix(S, d) => d \in W.subvols
        /\ \A d \in F.dirs : Below(d, from) /\ ~IsPrefix(S, Moved(d, from, name)) => Moved(d, from, name) \in W.dirs
    BY <1>2, <2>2, <2>3, <2>4
  <2>7. F.subvols \subseteq F.dirs => W.subvols \subseteq W.dirs
    BY <1>2, <2>5
  <2>8. \A f \in ImageDirs : ~IsPrefix(S, Moved(F.at[f], from, name)) => W.at[f] = Moved(F.at[f], from, name)
    BY <1>2, <2>2
  <2> QED BY <1>2, <1>3, <2>6, <2>7, <2>8 DEF W, F, from, S
<1>4. CASE from \notin F.dirs
  <2>1. filled = F
    BY <1>4
  <2> HIDE DEF W, F, from, filled, S
  <2>2. /\ \A d \in F.dirs : ~IsPrefix(S, d) => d \in W.dirs
        /\ \A d \in F.subvols : ~IsPrefix(S, d) => d \in W.subvols
        /\ F.subvols \subseteq F.dirs => W.subvols \subseteq W.dirs
        /\ \A f \in ImageDirs : ~IsPrefix(S, F.at[f]) => W.at[f] = F.at[f]
    BY <1>2, <2>1
  <2> QED BY <1>2, <1>4, <2>2 DEF W, F, from, S
<1> QED
  BY <1>3, <1>4

-----------------------------------------------------------------------------
(* The names given while a subvolume is made.                              *)
\* Not a name given to move something aside, nor below one.
Plain(p) == \A i \in 1..Len(p) : p[i] # "omarchy-image"

\* Names without the suffix, joined and cut.
LEMMA PlainJoin ==
  ASSUME NEW a \in Paths, NEW b \in Paths
  PROVE  Plain(a \o b) <=> Plain(a) /\ Plain(b)
<1> DEFINE p == a \o b
<1>1. Len(a) \in Nat /\ Len(b) \in Nat
  BY PathType
<1>2. /\ Len(p) = Len(a) + Len(b)
      /\ \A i \in 1..Len(a) : p[i] = a[i]
      /\ \A i \in 1..Len(b) : p[Len(a) + i] = b[i]
  BY Concat
<1> HIDE DEF p
<1>3. ASSUME Plain(p) PROVE Plain(a) /\ Plain(b)
  <2>1. \A i \in 1..Len(a) : i \in 1..Len(p)
    BY <1>1, <1>2
  <2>2. \A i \in 1..Len(b) : Len(a) + i \in 1..Len(p)
    BY <1>1, <1>2
  <2> QED BY <2>1, <2>2, <1>2, <1>3 DEF Plain
<1>4. ASSUME Plain(a), Plain(b), NEW i \in 1..Len(p) PROVE p[i] # "omarchy-image"
  <2>1. CASE i \in 1..Len(a)
    BY <2>1, <1>2, <1>4 DEF Plain
  <2>2. CASE i \notin 1..Len(a)
    <3>1. i - Len(a) \in 1..Len(b) /\ Len(a) + (i - Len(a)) = i
      BY <2>2, <1>1, <1>2
    <3>2. p[Len(a) + (i - Len(a))] = b[i - Len(a)]
      BY <3>1, <1>2
    <3> QED BY <3>1, <3>2, <1>4 DEF Plain
  <2> QED BY <2>1, <2>2
<1> QED
  BY <1>3, <1>4 DEF p, Plain

LEMMA PlainIs ==
  ASSUME layout \in Layouts
  PROVE  /\ \A n \in DOMAIN Where : Plain(n)
         /\ \A f \in ImageDirs : Plain(f)
<1>1. \A n \in DOMAIN layout : Plain(n)
  BY WhereIs, LayoutAssumption DEF Plain
<1>2. \A n \in {Root} \cup Configurator : Plain(n)
  <2>1. ASSUME NEW e, e # "omarchy-image" PROVE Plain(<<e>>)
    BY <2>1 DEF Plain
  <2>2. "@" # "omarchy-image" /\ "@home" # "omarchy-image"
    OBVIOUS
  <2> QED BY <2>1, <2>2 DEF Root, Configurator
<1>3. \A f \in ImageDirs : Plain(f)
  BY LayoutAssumption DEF Plain
<1> QED
  BY <1>1, <1>2, <1>3, WhereIs

LEMMA PlainAbove ==
  ASSUME NEW a \in Paths, NEW p \in Paths, IsPrefix(a, p), Plain(p)
  PROVE  Plain(a) /\ Plain(Rest(p, a))
<1> DEFINE r == Rest(p, a)
<1>1. r \in Paths /\ p = a \o r
  BY Cut
<1> HIDE DEF r
<1>2. Plain(a \o r)
  BY <1>1
<1> QED
  BY <1>1, <1>2, PlainJoin DEF r

\* A name moved aside is no name of the layout's, and not above one.
LEMMA StagedIs ==
  ASSUME NEW name \in Paths, name # << >>, Plain(name)
  PROVE  /\ StagedName(name) \in Paths /\ ~IsPrefix(name, StagedName(name))
         /\ ~IsPrefix(StagedName(name), name) /\ StagedName(name) # << >>
         /\ \A p \in Paths : Plain(p) => ~IsPrefix(StagedName(name), p)
<1> DEFINE S == StagedName(name)
           u == SubSeq(name, 1, Len(name) - 1)
<1>1. Len(name) \in Nat /\ Len(name) > 0
  BY PathType
<1>2. u \in Paths /\ Len(u) = Len(name) - 1
  <2>1. Len(name) - 1 \in Nat /\ Len(name) - 1 <= Len(name)
    BY <1>1
  <2> QED BY <2>1, FirstPart
<1>3. S = Append(u, "omarchy-image")
  BY DEF StagedName, Front
<1> HIDE DEF u
<1>4. "omarchy-image" \in Components
  BY DEF Components
<1>5. /\ S \in Seq(Components) /\ S # << >> /\ Len(S) = Len(u) + 1 /\ S[Len(u) + 1] = "omarchy-image"
  <2> HIDE DEF S
  <2> QED BY <1>2, <1>3, <1>4, AppendProperties DEF Paths
<1> HIDE DEF S
<1>6. S \in Paths /\ Len(S) = Len(name) /\ S[Len(S)] = "omarchy-image"
  BY <1>1, <1>2, <1>5 DEF Paths
<1>7. \A p \in Paths : Plain(p) => ~IsPrefix(S, p)
  <2> SUFFICES ASSUME NEW p \in Paths, Plain(p), IsPrefix(S, p) PROVE FALSE
    OBVIOUS
  <2>1. Len(S) <= Len(p) /\ Len(p) \in Nat /\ \A i \in 1..Len(S) : S[i] = p[i]
    BY <1>6, PathType, PrefixMeans
  <2>2. Len(S) \in 1..Len(S) /\ Len(S) \in 1..Len(p)
    BY <2>1, <1>1, <1>6
  <2> QED BY <2>1, <2>2, <1>6 DEF Plain
<1>8. ASSUME IsPrefix(name, S) PROVE FALSE
  <2>1. Len(S) <= Len(name)
    BY <1>1, <1>6
  <2>2. name = S
    BY <2>1, <1>6, <1>8, AboveIsOrder
  <2> QED BY <2>2, <1>6, <1>7, AboveIsOrder
<1> QED
  BY <1>5, <1>6, <1>7, <1>8 DEF S

\* What leads to a path, once more as an order.
LEMMA LeadsIs ==
  ASSUME NEW p \in Paths, NEW a
  PROVE  a \in Leads(p) <=> a \in Paths /\ a # << >> /\ IsPrefix(a, p)
BY Leading DEF Leads

\* What leads to a place below name is above it, or below name in the same way.
LEMMA LeadsBelow ==
  ASSUME NEW name \in Paths, NEW R \in Paths, NEW a \in Leads(name \o R), ~IsPrefix(a, name)
  PROVE  \E r \in Paths : r # << >> /\ a = name \o r /\ IsPrefix(r, R)
<1>1. name \o R \in Paths /\ IsPrefix(name, name \o R)
  BY Join
<1>2. a \in Paths /\ IsPrefix(a, name \o R)
  BY <1>1, LeadsIs
<1>3. IsPrefix(name, a)
  <2>1. Len(a) <= Len(name) \/ Len(name) <= Len(a)
    BY <1>2, PathType
  <2> QED BY <2>1, <1>1, <1>2, AboveIsChain
<1> DEFINE r == Rest(a, name)
<1>4. r \in Paths /\ a = name \o r
  BY <1>2, <1>3, Cut
<1> HIDE DEF r
<1>5. IsPrefix(r, R)
  BY <1>2, <1>4, SamePlace
<1>6. r # << >>
  <2> SUFFICES ASSUME r = << >> PROVE FALSE
    OBVIOUS
  <2>1. a = name
    BY <1>4, ConcatEmptySeq DEF Paths
  <2> QED BY <2>1, AboveIsOrder
<1> QED BY <1>4, <1>5, <1>6

\* More of a path is below it.
LEMMA JoinIsBelow ==
  ASSUME NEW a \in Paths, NEW r \in Paths, r # << >>
  PROVE  Below(a \o r, a)
<1>1. Len(r) > 0 /\ Len(a) \in Nat /\ Len(r) \in Nat /\ Len(a \o r) = Len(a) + Len(r)
  BY PathType, Concat
<1>2. a # a \o r
  BY <1>1
<1> QED BY <1>2, Join DEF Below, IsStrictPrefix

\* What Moved does below the path that moves, and to it.
LEMMA MovedIs ==
  ASSUME NEW a \in Paths, NEW b, NEW r \in Paths
  PROVE  Moved(a \o r, a, b) = b \o r
BY Join DEF Moved

LEMMA MovedItself ==
  ASSUME NEW a \in Paths, NEW b \in Paths
  PROVE  Moved(a, a, b) = b
<1>1. a \o << >> = a /\ b \o << >> = b /\ << >> \in Paths
  BY ConcatEmptySeq, Given DEF Paths
<1>2. Moved(a \o << >>, a, b) = b \o << >>
  BY <1>1, MovedIs
<1> QED BY <1>1, <1>2

-----------------------------------------------------------------------------
(* Where the files are once a subvolume is made.                           *)
\* The names of one placing differ from one another.
LEMMA PlacingNames ==
  ASSUME NEW name, NEW c, NEW content, Placing(name, c, content)
  PROVE  /\ name \in Paths /\ name # << >> /\ Plain(name) /\ content \in Paths /\ content # << >>
         /\ StagedName(name) \in Paths /\ ~IsPrefix(StagedName(name), name)
         /\ \A p \in Paths : Plain(p) => ~IsPrefix(StagedName(name), p)
         /\ Content(name, content) \in Paths
<1>1. name \in Paths /\ name # << >> /\ content \in Paths /\ content # << >> /\ name \in DOMAIN Where
  BY PlacingType
<1>2. Plain(name)
  BY <1>1, PlainIs DEF Placing
<1> QED
  BY <1>1, <1>2, StagedIs DEF Content

\* cp is never asked to copy a directory into itself.
LEMMA NotIntoItself ==
  ASSUME NEW name, NEW c, NEW content, Placing(name, c, content)
  PROVE  ~IntoItself(name, content) /\ ~Below(name, Content(name, content))
<1> SUFFICES ~Below(name, Content(name, content))
  BY DEF IntoItself
<1>1. ~Below(name, StagedName(name))
  BY PlacingNames DEF Below, IsStrictPrefix
<1>2. ~Below(name, content)
  BY ContentBeside DEF Below, IsStrictPrefix
<1> QED
  BY <1>1, <1>2 DEF Content

\* A directory that neither the name nor the content is above stays.
LEMMA DirStays ==
  ASSUME NEW name, NEW c, NEW content, Placing(name, c, content), FsShape,
         NEW a \in Paths, Plain(a), ~IsPrefix(name, a), ~Below(a, content)
  PROVE  /\ a \in fs.dirs => a \in WithSubvolume(name, content).dirs
         /\ a \in fs.subvols => a \in WithSubvolume(name, content).subvols
<1>1. a = Moved(a, name, StagedName(name))
  BY DEF Moved
<1>2. (a \in fs.dirs => a \in Fresh(name).dirs) /\ (a \in fs.subvols => a \in Fresh(name).subvols)
  BY <1>1, FreshIs
<1>3. ~IsPrefix(StagedName(name), a)
  BY PlacingNames
<1>4. ~Below(a, Content(name, content))
  BY <1>3 DEF Content, Below, IsStrictPrefix
<1> QED
  BY <1>2, <1>3, <1>4, SubvolumeIs

\* What leads to the new subvolume is there.
LEMMA LeadStays ==
  ASSUME NEW name, NEW c, NEW content, Placing(name, c, content), FsShape,
         NEW a \in Paths, a # << >>, IsPrefix(a, name)
  PROVE  a \in WithSubvolume(name, content).dirs
<1>1. a \in Fresh(name).dirs
  BY PlacingNames, LeadsIs, FreshIs
<1>2. Plain(a) /\ ~IsPrefix(StagedName(name), a)
  BY PlacingNames, PlainAbove
<1>3. ~Below(a, Content(name, content))
  <2>1. CASE Content(name, content) = StagedName(name)
    BY <2>1, <1>2 DEF Below, IsStrictPrefix
  <2>2. CASE Content(name, content) = content
    <3> SUFFICES ASSUME IsPrefix(content, a), content # a PROVE FALSE
      BY <2>2 DEF Below, IsStrictPrefix
    <3>1. IsPrefix(content, name)
      BY PlacingNames, AboveIsOrder
    <3>2. content = name
      BY <3>1, ContentBeside
    <3> QED BY <3>2, PlacingNames, AboveIsOrder
  <2> QED BY <2>1, <2>2 DEF Content
<1> QED
  BY <1>1, <1>2, <1>3, SubvolumeIs

\* A file outside the content stays where it is.
LEMMA OtherFileStays ==
  ASSUME NEW name, NEW c, NEW content, Placing(name, c, content), FsShape,
         NEW f \in ImageDirs, fs.at[f] \in Paths, Plain(fs.at[f]), Leads(fs.at[f]) \subseteq fs.dirs,
         ~IsPrefix(content, fs.at[f]), ~IsPrefix(name, fs.at[f])
  PROVE  /\ WithSubvolume(name, content).at[f] = fs.at[f]
         /\ Leads(fs.at[f]) \subseteq WithSubvolume(name, content).dirs
<1> DEFINE p    == fs.at[f]
           from == Content(name, content)
<1>1. ~IsPrefix(StagedName(name), p)
  BY PlacingNames
<1>2. ~IsPrefix(from, p)
  BY <1>1 DEF Content
<1>3. Fresh(name).at[f] = p
  BY FreshIs DEF Moved
<1>4. Moved(p, from, name) = p
  BY <1>2 DEF Moved
<1>5. WithSubvolume(name, content).at[f] = p
  <2> HIDE DEF p, from
  <2> QED BY <1>1, <1>3, <1>4, SubvolumeIs DEF from
<1>6. ASSUME NEW a \in Leads(p) PROVE a \in WithSubvolume(name, content).dirs
  <2>1. a \in Paths /\ IsPrefix(a, p) /\ a \in fs.dirs
    BY <1>6, LeadsIs
  <2>2. Plain(a) /\ ~IsPrefix(name, a) /\ ~IsPrefix(content, a)
    BY <2>1, PlacingNames, PlainAbove, AboveIsOrder
  <2>3. ~Below(a, content)
    BY <2>2 DEF Below, IsStrictPrefix
  <2> QED BY <2>1, <2>2, <2>3, DirStays
<1> QED
  BY <1>5, <1>6

\* The files of the content follow into the subvolume, whether it was there as
\* a directory or not.
LEMMA ContentMoves ==
  ASSUME NEW name, NEW c, NEW content, Placing(name, c, content), FsShape,
         NEW f \in ImageDirs, NEW R \in Paths, fs.at[f] = content \o R, Plain(R), Leads(fs.at[f]) \subseteq fs.dirs
  PROVE  /\ WithSubvolume(name, content).at[f] = name \o R
         /\ Leads(name \o R) \subseteq WithSubvolume(name, content).dirs
<1> DEFINE S == StagedName(name)
           W == WithSubvolume(name, content)
           F == Fresh(name)
           from == Content(name, content)
<1>1. /\ name \in Paths /\ name # << >> /\ content \in Paths /\ content # << >> /\ S \in Paths
      /\ \A p \in Paths : Plain(p) => ~IsPrefix(S, p)
      /\ Plain(name)
  BY PlacingNames
<1>2. name \o R \in Paths /\ Plain(name \o R) /\ ~IsPrefix(S, name \o R)
  BY <1>1, Join, PlainJoin
<1>3. /\ fs.at[f] \in Paths /\ IsPrefix(content, fs.at[f]) /\ content \in fs.dirs
  <2>1. fs.at[f] \in Paths /\ IsPrefix(content, fs.at[f])
    BY <1>1, Join
  <2> QED BY <2>1, <1>1, LeadsIs
<1>4. /\ \A d \in F.dirs : ~Below(d, from) /\ ~IsPrefix(S, d) => d \in W.dirs
      /\ from \in F.dirs => \A d \in F.dirs : Below(d, from) /\ ~IsPrefix(S, Moved(d, from, name))
                                               => Moved(d, from, name) \in W.dirs
      /\ from \in F.dirs /\ ~IsPrefix(S, Moved(F.at[f], from, name)) => W.at[f] = Moved(F.at[f], from, name)
  <2> HIDE DEF W, S, F, from
  <2> QED BY SubvolumeIs DEF W, S, F, from
<1>5. /\ F.dirs = (IF name \in fs.dirs THEN {Moved(d, name, S) : d \in fs.dirs} ELSE fs.dirs) \cup Leads(name)
      /\ F.at[f] = IF name \in fs.dirs THEN Moved(fs.at[f], name, S) ELSE fs.at[f]
  BY FreshIs
<1>6. \A a \in Leads(name \o R) : IsPrefix(a, name) => a \in W.dirs
  BY <1>2, LeadsIs, LeadStays
<1>7. CASE content = name
  <2>1. name \in fs.dirs /\ from = S
    BY <1>3, <1>7 DEF Content
  <2>2. S \in F.dirs
    <3>1. Moved(name, name, S) = S
      BY <1>1, MovedItself
    <3> QED BY <2>1, <3>1, <1>5
  <2>3. F.at[f] = S \o R
    <3>1. Moved(name \o R, name, S) = S \o R
      BY <1>1, MovedIs
    <3> QED BY <2>1, <3>1, <1>5, <1>7
  <2>4. W.at[f] = name \o R
    <3>1. Moved(S \o R, S, name) = name \o R
      BY <1>1, MovedIs
    <3> HIDE DEF W, S, F, from
    <3> QED BY <2>1, <2>2, <2>3, <3>1, <1>2, <1>4
  <2>5. ASSUME NEW a \in Leads(name \o R), ~IsPrefix(a, name) PROVE a \in W.dirs
    <3>1. PICK r \in Paths : r # << >> /\ a = name \o r
      BY <1>1, <2>5, LeadsBelow
    <3>2. a \in fs.dirs /\ a \in Paths /\ Plain(a)
      BY <1>2, <1>7, LeadsIs, PlainAbove
    <3>3. S \o r \in F.dirs
      <4>1. Moved(a, name, S) = S \o r
        BY <1>1, <3>1, MovedIs
      <4> QED BY <4>1, <3>2, <2>1, <1>5
    <3>4. Moved(S \o r, S, name) = a /\ Below(S \o r, S)
      BY <1>1, <3>1, MovedIs, JoinIsBelow
    <3>5. ~IsPrefix(S, a)
      BY <1>1, <3>2
    <3> HIDE DEF W, S, F, from
    <3> QED BY <2>1, <2>2, <3>3, <3>4, <3>5, <1>4
  <2> QED BY <1>6, <2>4, <2>5
<1>8. CASE content # name
  <2>1. from = content /\ ~IsPrefix(content, name) /\ ~IsPrefix(name, content)
    BY <1>8, ContentBeside DEF Content
  <2>2. ~IsPrefix(name, fs.at[f])
    <3>1. Len(name) <= Len(content) \/ Len(content) <= Len(name)
      BY <1>1, PathType
    <3> QED BY <3>1, <2>1, <1>1, <1>3, AboveIsChain
  <2>3. \A d \in fs.dirs : ~IsPrefix(name, d) => d \in F.dirs
    <3>1. \A d : ~IsPrefix(name, d) => Moved(d, name, S) = d
      BY DEF Moved
    <3> HIDE DEF F, S
    <3> QED BY <3>1, <1>5
  <2>4. content \in F.dirs
    BY <2>1, <2>3, <1>3
  <2>5. F.at[f] = content \o R
    BY <2>2, <1>5 DEF Moved
  <2>6. W.at[f] = name \o R
    <3>1. Moved(content \o R, content, name) = name \o R
      BY <1>1, MovedIs
    <3> HIDE DEF W, S, F, from
    <3> QED BY <2>1, <2>4, <2>5, <3>1, <1>2, <1>4
  <2>7. ASSUME NEW a \in Leads(name \o R), ~IsPrefix(a, name) PROVE a \in W.dirs
    <3>1. PICK r \in Paths : r # << >> /\ a = name \o r /\ IsPrefix(r, R)
      BY <1>1, <2>7, LeadsBelow
    <3>2. a \in Paths /\ Plain(a)
      BY <1>2, LeadsIs, PlainAbove
    <3> DEFINE d == content \o r
    <3>3. d \in Paths /\ d # << >> /\ IsPrefix(d, fs.at[f])
      BY <1>1, <3>1, Join, FirstComponent, SamePlace
    <3>4. d \in F.dirs
      <4> HIDE DEF d
      <4>1. d \in fs.dirs
        BY <3>3, <1>3, LeadsIs
      <4>2. ~IsPrefix(name, d)
        BY <3>3, <2>2, <1>1, <1>3, AboveIsOrder
      <4> QED BY <4>1, <4>2, <2>3
    <3>5. Moved(d, content, name) = a /\ Below(d, content)
      BY <1>1, <3>1, MovedIs, JoinIsBelow
    <3>6. ~IsPrefix(S, a)
      BY <1>1, <3>2
    <3> HIDE DEF W, S, F, from, d
    <3> QED BY <2>1, <2>4, <3>4, <3>5, <3>6, <1>4
  <2> QED BY <1>6, <2>6, <2>7
<1> QED
  BY <1>7, <1>8

-----------------------------------------------------------------------------
(* The invariant.                                                          *)

\* While the subvolumes are made, each file is in the subvolume that holds its
\* path, and so is all that leads to it.
Found ==
  \A f \in ImageDirs, h \in Made : Holds(Made, h, f) =>
    fs.at[f] = h \o Rest(f, Where[h]) /\ Leads(fs.at[f]) \subseteq fs.dirs

\* No subvolume has become a directory.
Kept == {Root} \cup Configurator \cup placed \subseteq fs.subvols

\* Once the files are staged, each is in the stage, to go to the ESP, or
\* where the mounts will show it.
Settled ==
  \A f \in ImageDirs :
    \/ fs.at[f] = Stage(f) /\ Head(Resolve(f)) = "fat"
    \/ fs.at[f] = Resolve(f) /\ fs.at[f][1] # "stage"

Inv ==
  /\ TypeOK /\ FsShape
  /\ step \notin {"gate", "refused"} => Placeable
  /\ step \in {"gate", "write"} => placed = {}
  /\ step = "place" => Ordered /\ Kept /\ Found
  /\ step \in {"mount", "restore"} => Settled /\ DOMAIN Where \subseteq fs.subvols /\ stale = Lost
  /\ ImageFilesVisible /\ AcceptedIsPlaced

\* Found and Kept, for the subvolumes in made and the filesystem s.
FoundIn(made, s) ==
  \A f \in ImageDirs, h \in made : Holds(made, h, f) =>
    s.at[f] = h \o Rest(f, Where[h]) /\ Leads(s.at[f]) \subseteq s.dirs

\* Where a file is, as a path.
LEMMA FileIs ==
  ASSUME layout \in Layouts, placed \subseteq DOMAIN layout, NEW f \in ImageDirs, NEW h, Holds(Made, h, f)
  PROVE  /\ f \in Paths /\ h \in Made /\ h \in DOMAIN Where /\ h \in Paths /\ h # << >> /\ Where[h] \in Paths
         /\ IsPrefix(Where[h], f) /\ Rest(f, Where[h]) \in Paths /\ Plain(Rest(f, Where[h]))
         /\ h \o Rest(f, Where[h]) \in Paths /\ Plain(h \o Rest(f, Where[h])) /\ h \o Rest(f, Where[h]) # << >>
<1>1. /\ f \in Paths /\ h \in Made /\ h \in DOMAIN Where /\ h \in Paths /\ h # << >> /\ Where[h] \in Paths
      /\ IsPrefix(Where[h], f)
  BY WhereIs, Given DEF Holds, Made
<1>2. Rest(f, Where[h]) \in Paths /\ Plain(Rest(f, Where[h])) /\ Plain(h)
  BY <1>1, Cut, PlainIs, PlainAbove
<1> QED
  BY <1>1, <1>2, Join, PlainJoin, FirstComponent

\* Every file is with its holder again, the new subvolume being one.
LEMMA FilesFollow ==
  ASSUME NEW name, NEW c, NEW content, Placing(name, c, content), FsShape, Found
  PROVE  /\ FoundIn(Made \cup {name}, WithSubvolume(name, content))
         /\ \A f \in ImageDirs : WithSubvolume(name, content).at[f] \in WithSubvolume(name, content).dirs
<1> DEFINE W    == WithSubvolume(name, content)
           more == Made \cup {name}
<1>1. /\ layout \in Layouts /\ placed \subseteq DOMAIN layout
      /\ more \in SUBSET (DOMAIN layout \cup {Root})
  BY PlacingType DEF Placing
<1>2. ASSUME NEW f \in ImageDirs
      PROVE  \E g \in more : /\ Holds(more, g, f) /\ W.at[f] = g \o Rest(f, Where[g])
                             /\ Leads(W.at[f]) \subseteq W.dirs /\ W.at[f] \in W.dirs
  <2>1. PICK h \in Made : Holds(Made, h, f)
    BY <1>1, Given, HolderIs
  <2> DEFINE p == h \o Rest(f, Where[h])
  <2>2. /\ f \in Paths /\ h \in Paths /\ Where[h] \in Paths /\ IsPrefix(Where[h], f)
        /\ p \in Paths /\ Plain(p) /\ p # << >>
    BY <1>1, <2>1, FileIs
  <2>3. fs.at[f] = p /\ Leads(fs.at[f]) \subseteq fs.dirs
    BY <2>1 DEF Found
  <2>4. CASE IsPrefix(content, p)
    <3> DEFINE R == Rest(f, layout[name])
    <3>1. IsPrefix(layout[name], f) /\ p = content \o R /\ Holds(more, name, f)
      BY <2>1, <2>2, <2>4, ContentIsUnder
    <3>2. R \in Paths /\ Plain(R) /\ Where[name] = layout[name] /\ name \in Paths /\ name # << >>
      BY <3>1, <2>2, <1>1, PlacingType, PlainIs, PlainAbove, Cut
    <3>3. W.at[f] = name \o R /\ Leads(name \o R) \subseteq W.dirs
      <4>1. fs.at[f] = content \o R
        BY <2>3, <3>1
      <4> HIDE DEF R
      <4> QED BY <4>1, <3>2, <2>3, ContentMoves
    <3>4. name \o R \in Leads(name \o R)
      BY <3>2, Join, FirstComponent, AboveIsOrder, LeadsIs
    <3> QED BY <3>1, <3>2, <3>3, <3>4
  <2>5. CASE ~IsPrefix(content, p)
    <3>1. Holds(more, h, f) /\ ~IsPrefix(name, p)
      BY <2>1, <2>2, <2>5, OthersHeld
    <3>2. W.at[f] = p /\ Leads(p) \subseteq W.dirs
      <4> HIDE DEF p, W
      <4>1. /\ WithSubvolume(name, content).at[f] = fs.at[f]
            /\ Leads(fs.at[f]) \subseteq WithSubvolume(name, content).dirs
        BY <2>2, <2>3, <2>5, <3>1, OtherFileStays
      <4> QED BY <4>1, <2>3 DEF W
    <3>3. p \in Leads(p)
      BY <2>2, AboveIsOrder, LeadsIs
    <3> QED BY <2>1, <3>1, <3>2, <3>3
  <2> QED BY <2>4, <2>5
<1>3. ASSUME NEW f \in ImageDirs, NEW h \in more, Holds(more, h, f)
      PROVE  W.at[f] = h \o Rest(f, Where[h]) /\ Leads(W.at[f]) \subseteq W.dirs
  <2>1. PICK g \in more : /\ Holds(more, g, f) /\ W.at[f] = g \o Rest(f, Where[g])
                          /\ Leads(W.at[f]) \subseteq W.dirs
    BY <1>2
  <2>2. g = h
    <3> HIDE DEF more
    <3> QED BY <1>1, <1>3, <2>1, HoldsOnce
  <2> QED BY <2>1, <2>2
<1> QED
  BY <1>2, <1>3 DEF FoundIn

\* Every subvolume made so far is still one.
LEMMA SubvolumesKept ==
  ASSUME NEW name, NEW c, NEW content, Placing(name, c, content), FsShape, Kept, fs.subvols \subseteq fs.dirs
  PROVE  /\ {Root} \cup Configurator \cup placed \cup {name} \subseteq WithSubvolume(name, content).subvols
         /\ WithSubvolume(name, content).subvols \subseteq WithSubvolume(name, content).dirs
<1> DEFINE W == WithSubvolume(name, content)
<1>1. ASSUME NEW o \in {Root} \cup Configurator \cup placed PROVE o \in W.subvols
  <2>1. o \in Paths /\ Plain(o) /\ o \in fs.subvols
    BY WhereIs, PlainIs DEF Placing, Kept
  <2>2. ~IsPrefix(name, o) /\ ~Below(o, content)
    BY PlacedStays DEF Below
  <2> QED BY <2>1, <2>2, DirStays
<1>2. name \in W.subvols
  <2>1. name \in Fresh(name).subvols
    BY FreshIs
  <2> QED BY <2>1, PlacingNames, NotIntoItself, SubvolumeIs
<1>3. Fresh(name).subvols \subseteq Fresh(name).dirs
  <2>1. name \in Leads(name)
    BY PlacingNames, AboveIsOrder, LeadsIs
  <2> QED BY <2>1, FreshIs
<1>4. W.subvols \subseteq W.dirs
  BY <1>3, SubvolumeIs
<1> QED
  BY <1>1, <1>2, <1>4

-----------------------------------------------------------------------------
\* The type invariant, for the lemmas that need no more.
LEMMA TypeMeans ==
  ASSUME TypeOK
  PROVE  layout \in Layouts /\ placed \subseteq DOMAIN layout /\ fs.subvols \subseteq fs.dirs
BY DEF TypeOK

\* The layout never changes.
LEMMA WhereStays ==
  ASSUME UNCHANGED layout
  PROVE  Where' = Where /\ (Placeable' <=> Placeable)
<1>1. Where' = Where
  BY DEF Where
<1> QED
  BY <1>1 DEF Placeable, AtItsPath, NothingBetween, Parents

\* Placing one more extra subvolume keeps the invariant, and never raises.
LEMMA PlaceExtraStep ==
  ASSUME Inv, PlaceExtra
  PROVE  Inv'
<1>1. /\ step = "place" /\ Placeable /\ Ordered /\ Kept /\ Found /\ FsShape /\ TypeOK
      /\ layout \in Layouts /\ placed \subseteq DOMAIN layout /\ fs.subvols \subseteq fs.dirs
  BY TypeMeans DEF Inv, PlaceExtra
<1>2. PICK name \in NextExtras :
        LET content == ImageDirFor(layout[name])
        IN IF IntoItself(name, content)
           THEN step' = "raised" /\ UNCHANGED <<fs, placed>>
           ELSE /\ fs' = WithSubvolume(name, content)
                /\ placed' = placed \cup {name}
                /\ UNCHANGED step
  BY DEF PlaceExtra
<1> DEFINE content == ImageDirFor(layout[name])
           W == WithSubvolume(name, content)
<1>3. name \in DOMAIN layout \ placed /\ \A n \in DOMAIN layout \ placed : Len(name) <= Len(n)
  BY DEF NextExtras
<1>4. PICK c \in Made : Placing(name, c, content)
  <2>1. layout[name] \in Paths
    BY <1>1, <1>3, WhereIs, Given
  <2>2. PICK c \in Made : Holds(Made, c, layout[name]) /\ content = c \o Rest(layout[name], Where[c])
    BY <2>1, <1>1, HolderIs
  <2>3. Placing(name, c, content)
    <3> HIDE DEF content
    <3> QED BY <2>2, <1>1, <1>3 DEF Placing
  <2> QED BY <2>3
<1> HIDE DEF content
<1>5. fs' = W /\ placed' = placed \cup {name} /\ step' = step /\ UNCHANGED <<layout, fat, stale>>
  <2>1. ~IntoItself(name, content)
    BY <1>4, NotIntoItself
  <2> QED BY <2>1, <1>2 DEF PlaceExtra, content
<1>6. /\ FoundIn(Made \cup {name}, W) /\ \A f \in ImageDirs : W.at[f] \in W.dirs
      /\ {Root} \cup Configurator \cup placed \cup {name} \subseteq W.subvols
      /\ W.subvols \subseteq W.dirs
  BY <1>1, <1>4, FilesFollow, SubvolumesKept
<1>7. W = [dirs |-> W.dirs, subvols |-> W.subvols, at |-> W.at]
  BY SubvolumeIs
<1> HIDE DEF W
<1>8. Where' = Where /\ Placeable' /\ Made' = Made \cup {name}
  BY <1>1, <1>5, WhereStays DEF Made
<1>9. TypeOK'
  BY <1>1, <1>3, <1>5, <1>6 DEF TypeOK
<1>10. FsShape' /\ Kept'
  BY <1>5, <1>6, <1>7 DEF FsShape, Kept
<1>11. Ordered'
  BY <1>1, <1>3, <1>5 DEF Ordered
<1>12. Found'
  BY <1>5, <1>6, <1>8 DEF Found, FoundIn, Holds
<1>13. ImageFilesVisible' /\ AcceptedIsPlaced'
  BY <1>1, <1>5 DEF ImageFilesVisible, AcceptedIsPlaced
<1> QED
  BY <1>1, <1>5, <1>8, <1>9, <1>10, <1>11, <1>12, <1>13 DEF Inv

-----------------------------------------------------------------------------
(* Staging, once every subvolume is placed.                                *)
\* No extra subvolume is next only when none is left.
LEMMA AllPlaced ==
  ASSUME layout \in Layouts, placed \subseteq DOMAIN layout, NextExtras = {}
  PROVE  placed = DOMAIN layout
<1> DEFINE left  == DOMAIN layout \ placed
           first == {n \in left : \A o \in left : Len(n) <= Len(o)}
<1> SUFFICES ASSUME left # {} PROVE FALSE
  OBVIOUS
<1>1. PICK n \in left : \A o \in left : Len(n) <= Len(o)
  <2>1. left \in SUBSET Paths
    BY WhereIs
  <2> HIDE DEF left
  <2> QED BY <2>1, ShortestExists
<1> DEFINE mounts == {layout[o] : o \in first}
<1>2. n \in first /\ mounts # {} /\ mounts \in SUBSET Paths
  BY <1>1, WhereIs, Given
<1>3. PICK m \in mounts : \A p \in mounts : Len(m) <= Len(p)
  <2> HIDE DEF mounts
  <2> QED BY <1>2, ShortestExists
<1>4. PICK q \in first : m = layout[q]
  BY <1>3
<1>5. ASSUME NEW o \in first, Below(layout[q], layout[o]) PROVE FALSE
  <2>1. layout[o] \in Paths /\ m \in Paths /\ layout[o] \in mounts
    BY <1>2, <1>3
  <2>2. Len(m) <= Len(layout[o])
    BY <2>1, <1>3
  <2> QED BY <2>1, <2>2, <1>4, <1>5, AboveIsOrder DEF Below, IsStrictPrefix
<1>6. q \in NextExtras
  BY <1>4, <1>5 DEF NextExtras
<1> QED
  BY <1>6

LEMMA RestJoined ==
  ASSUME NEW c \in Paths, NEW a \in Paths, NEW b \in Paths, NEW p \in Paths, IsPrefix(a, b), IsPrefix(b, p)
  PROVE  (c \o Rest(b, a)) \o Rest(p, b) = c \o Rest(p, a)
<1> DEFINE r == Rest(b, a)
           s == Rest(p, b)
<1>1. r \in Paths /\ s \in Paths
  BY Cut
<1>2. Rest(p, a) = r \o s
  BY RestThrough
<1> HIDE DEF r, s
<1>3. (c \o r) \o s = c \o (r \o s)
  BY <1>1, JoinAssoc, Zenon
<1>4. (c \o r) \o s = c \o Rest(p, a)
  BY <1>2, <1>3, Zenon
<1> QED
  BY <1>4 DEF r, s

\* No other mount of ours is above a path and not above rel.
Nearest(rel, f) == IsPrefix(rel, f) /\ \A m \in OwnMounts : IsPrefix(m, f) => IsPrefix(m, rel)

\* Every subvolume has been placed.
Placed ==
  /\ layout \in Layouts /\ Placeable /\ placed = DOMAIN layout /\ fat \subseteq FatMounts
  /\ Found /\ Kept

LEMMA MountsType ==
  ASSUME Placed
  PROVE  /\ OwnMounts \subseteq Paths /\ fat \subseteq OwnMounts
         /\ \A n \in placed : Where[n] \in OwnMounts
         /\ Made \subseteq DOMAIN Where /\ layout \in Layouts /\ placed \subseteq DOMAIN layout
BY WhereIs, Given DEF Placed, OwnMounts, Made

\* One FAT mount is nearest above a path.
LEMMA NearestOnce ==
  ASSUME Placed, NEW a \in fat, NEW b \in fat, NEW f, Nearest(a, f), Nearest(b, f)
  PROVE  a = b
<1>1. a \in Paths /\ b \in Paths /\ IsPrefix(a, b) /\ IsPrefix(b, a)
  BY MountsType DEF Nearest
<1> QED BY <1>1, AboveIsOrder

\* What is staged for rel is what rel will hide.
LEMMA StagedIsNearest ==
  ASSUME Placed, NEW f \in ImageDirs, NEW rel \in fat
  PROVE  /\ Staged(fs.at[f], rel) <=> Nearest(rel, f)
         /\ Nearest(rel, f) => Rest(fs.at[f], ImageDirFor(rel)) = Rest(f, rel)
<1>1. layout \in Layouts /\ placed \subseteq DOMAIN layout /\ f \in Paths /\ rel \in Paths /\ Placeable
  BY MountsType, Given DEF Placed
<1>2. PICK h \in Made : Holds(Made, h, f)
  BY <1>1, HolderIs
<1>3. PICK c \in Made : Holds(Made, c, rel) /\ ImageDirFor(rel) = c \o Rest(rel, Where[c])
  BY <1>1, HolderIs
<1> DEFINE at      == fs.at[f]
           content == ImageDirFor(rel)
<1>4. /\ at = h \o Rest(f, Where[h]) /\ Leads(at) \subseteq fs.dirs /\ at \in Paths
      /\ h \in Paths /\ h # << >> /\ Where[h] \in Paths /\ IsPrefix(Where[h], f) /\ Rest(f, Where[h]) \in Paths
  BY <1>1, <1>2, FileIs DEF Placed, Found
<1>5. c \in Paths /\ c # << >> /\ Where[c] \in Paths /\ IsPrefix(Where[c], rel)
  BY <1>1, <1>3, MountsType, WhereIs DEF Holds
<1> HIDE DEF at, content
<1>6. content = c \o Rest(rel, Where[c]) /\ Rest(rel, Where[c]) \in Paths
  BY <1>1, <1>3, <1>5, Cut DEF content
<1>7. ASSUME IsPrefix(content, at), ~ \E m \in Keep(rel) : IsPrefix(content \o Rest(m, rel), at)
      PROVE  Nearest(rel, f)
  <2>1. IsPrefix(rel, f) /\ IsPrefix(Where[c], Where[h]) /\ at = c \o Rest(f, Where[c])
    <3>1. IsPrefix(c \o Rest(rel, Where[c]), h \o Rest(f, Where[h]))
      BY <1>4, <1>6, <1>7
    <3>2. /\ IsPrefix(rel, f) /\ IsPrefix(Where[c], Where[h])
          /\ h \o Rest(f, Where[h]) = c \o Rest(f, Where[c])
      BY <3>1, <1>1, <1>2, <1>3, Inside
    <3> QED BY <3>2, <1>4
  <2>2. ASSUME NEW m \in OwnMounts, IsPrefix(m, f), ~IsPrefix(m, rel) PROVE FALSE
    <3>1. m \in Paths
      BY MountsType
    <3>2. IsPrefix(rel, m)
      <4>1. Len(rel) <= Len(m) \/ Len(m) <= Len(rel)
        BY <3>1, <1>1, PathType
      <4> QED BY <4>1, <3>1, <2>1, <2>2, <1>1, AboveIsChain
    <3>3. m \in Keep(rel)
      BY <3>2, <2>2 DEF Keep, Below, IsStrictPrefix
    <3>4. content \o Rest(m, rel) = c \o Rest(m, Where[c])
      BY <3>1, <3>2, <1>1, <1>5, <1>6, RestJoined
    <3>5. IsPrefix(c \o Rest(m, Where[c]), c \o Rest(f, Where[c]))
      <4>1. IsPrefix(Where[c], m) /\ IsPrefix(Where[c], f)
        BY <3>1, <3>2, <2>1, <1>1, <1>5, AboveIsOrder
      <4>2. Rest(m, Where[c]) \in Paths /\ Rest(f, Where[c]) \in Paths
        BY <4>1, <3>1, <1>1, <1>5, Cut
      <4>3. IsPrefix(Rest(m, Where[c]), Rest(f, Where[c]))
        BY <4>1, <3>1, <2>2, <1>1, <1>5, SameRest
      <4> QED BY <4>2, <4>3, <1>5, SamePlace
    <3>6. IsPrefix(content \o Rest(m, rel), at)
      BY <3>4, <3>5, <2>1
    <3> QED BY <3>3, <3>6, <1>7
  <2> QED BY <2>1, <2>2 DEF Nearest
<1>8. ASSUME Nearest(rel, f)
      PROVE  /\ content \in fs.dirs /\ IsPrefix(content, at)
             /\ ~ \E m \in Keep(rel) : IsPrefix(content \o Rest(m, rel), at)
             /\ Rest(at, content) = Rest(f, rel)
  <2>1. IsPrefix(rel, f)
    BY <1>8 DEF Nearest
  <2>2. IsPrefix(Where[h], rel)
    <3>1. CASE h = Root
      BY <3>1, <1>1, WhereIs, AboveIsOrder
    <3>2. CASE h \in placed
      BY <3>2, <1>4, <1>8, MountsType DEF Nearest
    <3> QED BY <3>1, <3>2, <1>2 DEF Made
  <2>3. h = c
    <3>1. Made \in SUBSET (DOMAIN layout \cup {Root})
      BY <1>1 DEF Made
    <3>2. Holds(Made, h, rel)
      BY <3>1, <2>1, <2>2, <1>1, <1>2, HoldsBetween
    <3> QED BY <3>1, <3>2, <1>1, <1>3, HoldsOnce
  <2>4. at = content \o Rest(f, rel) /\ Rest(f, rel) \in Paths /\ content \in Paths /\ content # << >>
    <3>1. (h \o Rest(rel, Where[h])) \o Rest(f, rel) = h \o Rest(f, Where[h])
      BY <2>1, <2>2, <1>1, <1>4, RestJoined
    <3>2. Rest(f, rel) \in Paths
      BY <2>1, <1>1, Cut
    <3> QED BY <3>1, <3>2, <2>3, <1>4, <1>5, <1>6, Join, FirstComponent
  <2>5. IsPrefix(content, at) /\ Rest(at, content) = Rest(f, rel)
    BY <2>4, Join
  <2>6. content \in fs.dirs
    BY <2>4, <2>5, <1>4, LeadsIs
  <2>7. ASSUME NEW m \in Keep(rel), IsPrefix(content \o Rest(m, rel), at) PROVE FALSE
    <3>1. m \in OwnMounts /\ m \in Paths /\ IsPrefix(rel, m) /\ rel # m
      BY MountsType DEF Keep, Below, IsStrictPrefix
    <3>2. Rest(m, rel) \in Paths
      BY <3>1, <1>1, Cut
    <3>3. IsPrefix(Rest(m, rel), Rest(f, rel))
      BY <3>2, <2>4, <2>7, SamePlace
    <3>4. IsPrefix(m, f)
      BY <3>1, <3>3, <2>1, <1>1, SameRest
    <3>5. IsPrefix(m, rel)
      BY <3>1, <3>4, <1>8 DEF Nearest
    <3> QED BY <3>1, <3>5, <1>1, AboveIsOrder
  <2> QED BY <2>5, <2>6, <2>7
<1>9. Staged(at, rel) <=> /\ content \in fs.dirs /\ IsPrefix(content, at)
                          /\ ~ \E m \in Keep(rel) : IsPrefix(content \o Rest(m, rel), at)
  BY DEF Staged, content
<1> QED
  BY <1>7, <1>8, <1>9 DEF at, content

\* What is below a FAT mount, and only that, goes to the stage at its own
\* path.
LEMMA StagedPathIs ==
  ASSUME Placed, NEW f \in ImageDirs
  PROVE  /\ \A rel \in fat : Nearest(rel, f) => StagedPath(fs.at[f]) = Stage(f)
         /\ (\A rel \in fat : ~Nearest(rel, f)) => StagedPath(fs.at[f]) = fs.at[f]
<1> DEFINE rels == {rel \in fat : Staged(fs.at[f], rel)}
<1>1. StagedPath(fs.at[f]) = IF rels = {} THEN fs.at[f]
                             ELSE Stage(Deepest(rels) \o Rest(fs.at[f], ImageDirFor(Deepest(rels))))
  BY DEF StagedPath
<1>2. \A rel \in fat : rel \in rels <=> Nearest(rel, f)
  BY StagedIsNearest
<1>3. ASSUME NEW rel \in fat, Nearest(rel, f) PROVE StagedPath(fs.at[f]) = Stage(f)
  <2>1. rels = {rel}
    BY <1>2, <1>3, NearestOnce
  <2>2. rel \in Paths /\ f \in Paths /\ IsPrefix(rel, f)
    BY <1>3, MountsType, Given DEF Nearest
  <2>3. Deepest({rel}) = rel
    <3>1. \A q \in {rel} : Len(q) <= Len(rel)
      BY <2>2, PathType
    <3> QED BY <3>1, <2>2, DeepestIs
  <2>4. Rest(fs.at[f], ImageDirFor(rel)) = Rest(f, rel)
    BY <1>3, StagedIsNearest
  <2>5. rel \o Rest(f, rel) = f
    BY <2>2, Cut
  <2> HIDE DEF rels
  <2>6. StagedPath(fs.at[f]) = Stage(rel \o Rest(fs.at[f], ImageDirFor(rel)))
    BY <1>1, <2>1, <2>3
  <2> QED BY <2>4, <2>5, <2>6
<1>4. ASSUME \A rel \in fat : ~Nearest(rel, f) PROVE StagedPath(fs.at[f]) = fs.at[f]
  <2>1. rels = {}
    BY <1>2, <1>4
  <2> HIDE DEF rels
  <2> QED BY <1>1, <2>1
<1> QED
  BY <1>3, <1>4

\* What a path names once all is mounted.
LEMMA ResolveIs ==
  ASSUME Placed, NEW f \in ImageDirs
  PROVE  /\ \A rel \in fat : Nearest(rel, f) => Head(Resolve(f)) = "fat"
         /\ (\A rel \in fat : ~Nearest(rel, f)) => Resolve(f) = fs.at[f]
<1> DEFINE M == {p \in Mounted : IsPrefix(p, f)}
           m == Deepest(M)
<1>1. layout \in Layouts /\ placed = DOMAIN layout /\ f \in Paths /\ Made \subseteq DOMAIN Where
  BY MountsType, Given DEF Placed
<1>2. Mounted \subseteq Paths
  BY <1>1, WhereIs, MountsType DEF Mounted
<1>3. M \in SUBSET Paths /\ M # {} /\ \A q \in M : Len(q) <= Len(f)
  <2>1. << >> \in M
    BY <1>1, WhereIs, AboveIsOrder DEF Mounted
  <2> QED BY <2>1, <1>1, <1>2, AboveIsOrder
<1>4. m \in M /\ \A q \in M : Len(q) <= Len(m)
  <2> HIDE DEF M
  <2> QED BY <1>1, <1>3, DeepestIs
<1>5. \A q \in M : IsPrefix(q, m)
  <2> HIDE DEF m
  <2> QED BY <1>1, <1>2, <1>4, AboveIsChain
<1>6. Resolve(f) = IF m \in fat THEN OnFat(f)
                   ELSE (CHOOSE o \in DOMAIN Where : Where[o] = m) \o Rest(f, m)
  BY DEF Resolve
<1> HIDE DEF m
<1>7. ASSUME NEW o \in DOMAIN Where, m = Where[o] PROVE o \in Made
  <2>1. o \notin Configurator
    BY <1>4, <1>7, <1>1, WhereIs, LayoutAssumption
  <2> QED BY <2>1, <1>1, WhereIs DEF Made
<1>8. OwnMounts \subseteq Mounted
  BY <1>1, WhereIs DEF OwnMounts, Mounted
<1>9. ASSUME NEW rel \in fat, Nearest(rel, f) PROVE Head(Resolve(f)) = "fat"
  <2>1. rel \in M /\ rel \in Paths /\ m \in Paths
    BY <1>2, <1>4, <1>8, <1>9, MountsType DEF Nearest
  <2>2. IsPrefix(rel, m)
    BY <2>1, <1>5
  <2>3. IsPrefix(m, rel)
    <3>1. CASE m \in OwnMounts
      BY <3>1, <1>4, <1>9 DEF Nearest
    <3>2. CASE m \notin OwnMounts
      <4>1. PICK o \in DOMAIN Where : m = Where[o]
        BY <3>2, <1>4, MountsType DEF Mounted
      <4>2. o = Root
        BY <4>1, <3>2, <1>7, MountsType DEF Made
      <4> QED BY <4>1, <4>2, <2>1, <1>1, WhereIs, AboveIsOrder
    <3> QED BY <3>1, <3>2
  <2>4. m \in fat
    BY <2>1, <2>2, <2>3, AboveIsOrder
  <2>5. Head(OnFat(f)) = "fat"
    <3>1. "fat" \in Components
      BY DEF Components
    <3>2. \A e \in Components : <<e>> \in Paths /\ Len(<<e>>) = 1 /\ Head(<<e>>) = e
      BY DEF Paths
    <3>3. <<"fat">> \in Paths /\ <<"fat">> # << >> /\ Head(<<"fat">>) = "fat"
      BY <3>1, <3>2, PathType
    <3> QED BY <3>3, <1>1, FirstComponent DEF OnFat
  <2> QED BY <2>4, <2>5, <1>6
<1>10. ASSUME \A rel \in fat : ~Nearest(rel, f) PROVE Resolve(f) = fs.at[f]
  <2>1. m \notin fat
    <3> SUFFICES ASSUME m \in fat PROVE FALSE
      OBVIOUS
    <3>1. Nearest(m, f)
      BY <1>4, <1>5, <1>8 DEF Nearest
    <3> QED BY <3>1, <1>10
  <2>2. PICK o \in DOMAIN Where : m = Where[o]
    BY <2>1, <1>4 DEF Mounted
  <2>3. o \in Made
    BY <2>2, <1>7
  <2>4. PICK h \in Made : Holds(Made, h, f)
    BY <1>1, HolderIs
  <2>5. h \in DOMAIN Where \ Configurator /\ Where[h] \in Paths /\ m \in Paths
    BY <2>4, <1>1, <1>2, <1>4, WhereIs, Given, LayoutAssumption DEF Made
  <2>6. Where[h] = m
    <3>1. IsPrefix(m, Where[h])
      BY <2>2, <2>3, <2>4, <1>4 DEF Holds
    <3>2. IsPrefix(Where[h], m)
      BY <2>4, <2>5, <1>5 DEF Holds, Mounted
    <3> QED BY <3>1, <3>2, <2>5, AboveIsOrder
  <2>7. (CHOOSE n \in DOMAIN Where : Where[n] = m) = h
    BY <2>5, <2>6, <1>1, WhereIs
  <2>8. fs.at[f] = h \o Rest(f, Where[h])
    BY <2>4 DEF Placed, Found
  <2> QED BY <2>1, <2>6, <2>7, <2>8, <1>6
<1> QED
  BY <1>9, <1>10

\* A subvolume is not removed with the directories that are staged.
LEMMA SubvolumesStay ==
  ASSUME Placed, NEW o \in DOMAIN Where
  PROVE  ~StageRemoves(o)
<1> SUFFICES ASSUME NEW rel \in fat, Staged(o, rel), o # ImageDirFor(rel) PROVE FALSE
  BY DEF StageRemoves
<1>1. layout \in Layouts /\ placed = DOMAIN layout /\ Placeable /\ rel \in Paths
      /\ o \in Paths /\ Where[o] \in Paths
  BY MountsType, WhereIs DEF Placed
<1>2. PICK c \in Made : Holds(Made, c, rel) /\ ImageDirFor(rel) = c \o Rest(rel, Where[c])
  BY <1>1, HolderIs
<1> DEFINE content == ImageDirFor(rel)
<1>3. /\ IsPrefix(content, o) /\ content # o
      /\ \A m \in Keep(rel) : ~IsPrefix(content \o Rest(m, rel), o)
  BY DEF Staged
<1>4. c \in DOMAIN Where /\ c \in Paths /\ Where[c] \in Paths /\ IsPrefix(Where[c], rel)
  BY <1>1, <1>2, MountsType, WhereIs DEF Holds
<1> HIDE DEF content
<1>5. content = c \o Rest(rel, Where[c]) /\ Rest(rel, Where[c]) \in Paths /\ content \in Paths /\ IsPrefix(c, content)
  BY <1>1, <1>2, <1>4, Cut, Join DEF content
<1>6. IsPrefix(c, o) /\ c # o
  <2>1. c # o
    BY <1>1, <1>3, <1>4, <1>5, AboveIsOrder
  <2> QED BY <2>1, <1>1, <1>3, <1>4, <1>5, AboveIsOrder
<1>7. o \in DOMAIN layout /\ NestedRight(c, o)
  <2>1. o \in DOMAIN layout
    BY <1>1, <1>4, <1>6, LowerIsExtra
  <2> QED BY <2>1, <1>1, <1>4, <1>6, Nested DEF IsStrictPrefix
<1>8. IsPrefix(Where[c], Where[o]) /\ Rest(Where[o], Where[c]) = Rest(o, c) /\ Rest(o, c) \in Paths
      /\ o = c \o Rest(o, c)
  BY <1>1, <1>4, <1>6, <1>7, Cut DEF NestedRight
<1>9. IsPrefix(rel, Where[o]) /\ rel # Where[o]
  <2>1. IsPrefix(Rest(rel, Where[c]), Rest(o, c))
    <3>1. IsPrefix(c \o Rest(rel, Where[c]), c \o Rest(o, c))
      BY <1>3, <1>5, <1>8
    <3> QED BY <3>1, <1>4, <1>5, <1>8, SamePlace
  <2>2. IsPrefix(rel, Where[o])
    BY <2>1, <1>1, <1>4, <1>8, SameRest
  <2>3. rel # Where[o]
    BY <1>3, <1>5, <1>8
  <2> QED BY <2>2, <2>3
<1>10. Where[o] \in Keep(rel)
  BY <1>1, <1>7, <1>9, MountsType DEF Keep, Below, IsStrictPrefix
<1>11. content \o Rest(Where[o], rel) = o
  <2>1. (c \o Rest(rel, Where[c])) \o Rest(Where[o], rel) = c \o Rest(Where[o], Where[c])
    BY <1>1, <1>4, <1>9, RestJoined
  <2> QED BY <2>1, <1>5, <1>8
<1> QED
  BY <1>1, <1>3, <1>10, <1>11, AboveIsOrder

-----------------------------------------------------------------------------
(* The steps.                                                              *)
\* No file is placed yet, and a leftover is in the stage.
LEMMA InitInv ==
  ASSUME Init
  PROVE  Inv
<1>1. \A m \in fat : Head(Stage(m)) = "stage"
  BY Given, InStage DEF Init
<1>2. Head(Lost) = "lost"
  BY DEF Lost
<1>3. TypeOK
  <2>1. layout \in Layouts /\ fat \subseteq FatMounts /\ placed \subseteq DOMAIN layout /\ step = "gate"
    BY DEF Init
  <2>2. fs.subvols \subseteq fs.dirs /\ \A f \in ImageDirs : Head(fs.at[f]) = "lost"
    BY <1>2 DEF Init
  <2>3. Head(stale) \in {"lost", "stage", "fat"}
    BY <1>1, <1>2 DEF Init
  <2> QED BY <2>1, <2>2, <2>3 DEF TypeOK
<1>4. FsShape
  BY DEF Init, FsShape
<1> QED
  BY <1>3, <1>4 DEF Init, Inv, ImageFilesVisible, AcceptedIsPlaced

\* Nothing but the step changes.
LEMMA OnlyStep ==
  ASSUME Inv, UNCHANGED <<layout, fat, fs, placed, stale>>
  PROVE  /\ FsShape' /\ Where' = Where /\ (Placeable' <=> Placeable)
         /\ (Settled' <=> Settled)
         /\ step' \in {"gate", "write", "place", "mount", "restore", "placed", "refused", "raised"} => TypeOK'
<1>1. FsShape'
  BY DEF Inv, FsShape
<1>2. Where' = Where /\ (Placeable' <=> Placeable)
  BY WhereStays
<1>3. Settled' <=> Settled
  BY <1>2 DEF Settled, Resolve, Mounted
<1>4. step' \in {"gate", "write", "place", "mount", "restore", "placed", "refused", "raised"} => TypeOK'
  BY DEF Inv, TypeOK
<1> QED
  BY <1>1, <1>2, <1>3, <1>4

\* The check accepts what is placeable and refuses the rest.
LEMMA GateStep ==
  ASSUME Inv, Accept \/ Refuse
  PROVE  Inv'
<1>1. UNCHANGED <<layout, fat, fs, placed, stale>> /\ step = "gate"
      /\ ((step' = "write" /\ Placeable) \/ step' = "refused")
  BY DEF Accept, Refuse
<1>2. /\ FsShape' /\ TypeOK' /\ (Placeable' <=> Placeable)
  BY <1>1, OnlyStep
<1>3. placed' = {}
  BY <1>1 DEF Inv
<1>4. ImageFilesVisible' /\ AcceptedIsPlaced'
  BY <1>1 DEF ImageFilesVisible, AcceptedIsPlaced
<1> QED
  BY <1>1, <1>2, <1>3, <1>4 DEF Inv

\* All is in @, which holds every path.
LEMMA WriteImageStep ==
  ASSUME Inv, WriteImage
  PROVE  Inv'
<1> DEFINE D == {Root \o d : d \in ImageDirs} \cup Configurator
           V == {Root} \cup Configurator
           A == [f \in ImageDirs |-> Root \o f]
<1>1. /\ step = "write" /\ step' = "place" /\ placed = {} /\ Placeable /\ TypeOK
      /\ UNCHANGED <<layout, fat, placed, stale>>
      /\ fs' = [dirs |-> D, subvols |-> V, at |-> A]
  BY DEF Inv, WriteImage
<1>2. Where' = Where /\ Placeable' /\ Made' = {Root}
  BY <1>1, WhereStays DEF Made
<1>3. Root \in Paths /\ Root # << >> /\ Len(Root) = 1 /\ Where[Root] = << >> /\ ImageDirs \subseteq Paths
  BY <1>1, Given, WhereIs DEF TypeOK
<1>4. Root \o << >> = Root /\ << >> \in ImageDirs
  BY <1>3, ConcatEmptySeq, LayoutAssumption DEF Paths
<1>5. V \subseteq D
  BY <1>4
<1>6. FsShape'
  BY <1>1 DEF FsShape
<1>7. fs'.dirs = D /\ fs'.subvols = V /\ fs'.at = A
  BY <1>1
<1>8. ASSUME NEW f \in ImageDirs, NEW a \in Leads(Root \o f) PROVE a \in D
  <2>1. Root \o f \in Paths /\ f \in Paths
    BY <1>3, Join
  <2>2. a \in Paths /\ a # << >> /\ IsPrefix(a, Root \o f)
    BY <1>8, <2>1, LeadsIs
  <2>3. CASE IsPrefix(a, Root)
    <3>1. Len(a) \in Nat /\ Len(a) > 0
      BY <2>2, PathType
    <3>2. Len(Root) <= Len(a)
      BY <1>3, <3>1
    <3>3. a = Root
      BY <2>2, <2>3, <3>2, <1>3, AboveIsOrder
    <3> QED BY <3>3, <1>4
  <2>4. CASE ~IsPrefix(a, Root)
    <3>1. PICK r \in Paths : r # << >> /\ a = Root \o r /\ IsPrefix(r, f)
      BY <1>3, <1>8, <2>1, <2>4, LeadsBelow
    <3>2. PICK n \in 1..Len(f) : r = SubSeq(f, 1, n)
      BY <2>1, <3>1, Leading
    <3>3. n \in 0..Len(f)
      BY <2>1, PathType
    <3>4. r \in ImageDirs
      BY <3>2, <3>3, ImageAssumption
    <3> QED BY <3>1, <3>4
  <2> QED BY <2>3, <2>4
<1>9. Found'
  <2>1. ASSUME NEW f \in ImageDirs
        PROVE  A[f] = Root \o Rest(f, Where[Root]) /\ Leads(A[f]) \subseteq D
    <3>1. Rest(f, Where[Root]) = f
      BY <1>3, RestOfAll
    <3> QED BY <3>1, <1>8
  <2> HIDE DEF A, D, V
  <2> QED BY <1>2, <1>7, <2>1 DEF Found, Holds
<1>10. Kept' /\ Ordered'
  BY <1>1, <1>7 DEF Kept, Ordered
<1>11. TypeOK'
  <2>1. \A f \in ImageDirs : A[f] \in D
    OBVIOUS
  <2> HIDE DEF A, D, V
  <2> QED BY <1>1, <1>5, <1>7, <2>1 DEF TypeOK
<1>12. ImageFilesVisible' /\ AcceptedIsPlaced'
  BY <1>1 DEF ImageFilesVisible, AcceptedIsPlaced
<1> QED
  BY <1>1, <1>2, <1>6, <1>9, <1>10, <1>11, <1>12 DEF Inv

\* Each file is staged or shown by the mounts, and every subvolume is there.
LEMMA StageFilesStep ==
  ASSUME Inv, StageFiles
  PROVE  Inv'
<1> DEFINE D == {d \in fs.dirs : ~StageRemoves(d)}
           V == {d \in fs.subvols : ~StageRemoves(d)}
           A == [f \in ImageDirs |-> StagedPath(fs.at[f])]
<1>1. /\ step = "place" /\ step' = "mount" /\ stale' = Lost /\ NextExtras = {}
      /\ UNCHANGED <<layout, fat, placed>> /\ Placeable /\ Found /\ Kept /\ TypeOK
      /\ fs' = [dirs |-> D, subvols |-> V, at |-> A]
  BY DEF Inv, StageFiles, LeftoversDropped
<1>2. layout \in Layouts /\ placed \subseteq DOMAIN layout /\ fs.subvols \subseteq fs.dirs /\ fat \subseteq FatMounts
  BY <1>1 DEF TypeOK
<1>3. Placed
  BY <1>1, <1>2, AllPlaced DEF Placed
<1>4. fs'.dirs = D /\ fs'.subvols = V /\ fs'.at = A
  BY <1>1
<1>5. FsShape'
  BY <1>1 DEF FsShape
<1>6. ASSUME NEW f \in ImageDirs
      PROVE  \/ A[f] = Stage(f) /\ Head(Resolve(f)) = "fat"
             \/ A[f] = Resolve(f) /\ A[f][1] # "stage" /\ A[f] \in D
  <2>1. CASE \E rel \in fat : Nearest(rel, f)
    BY <2>1, <1>3, StagedPathIs, ResolveIs
  <2>2. CASE \A rel \in fat : ~Nearest(rel, f)
    <3>1. A[f] = fs.at[f] /\ fs.at[f] = Resolve(f)
      BY <2>2, <1>3, StagedPathIs, ResolveIs
    <3>2. PICK h \in Made : Holds(Made, h, f)
      BY <1>2, Given, HolderIs
    <3> DEFINE r == Rest(f, Where[h])
    <3>3. /\ fs.at[f] = h \o r /\ Leads(fs.at[f]) \subseteq fs.dirs /\ r \in Paths
          /\ h \in Paths /\ h # << >> /\ h \o r \in Paths /\ h \o r # << >>
      BY <1>1, <1>2, <3>2, FileIs DEF Found
    <3>4. fs.at[f] \in fs.dirs
      BY <3>3, AboveIsOrder, LeadsIs
    <3>5. ~StageRemoves(fs.at[f])
      BY <2>2, <1>3, StagedIsNearest DEF StageRemoves
    <3>6. fs.at[f][1] # "stage"
      <4>1. Head(h) # "stage"
        BY <3>2, <1>2, WhereIs, Given, LayoutAssumption DEF Made
      <4> HIDE DEF r
      <4>2. (h \o r)[1] = Head(h)
        BY <3>3, FirstComponent
      <4> QED BY <3>3, <4>1, <4>2
    <3> QED BY <3>1, <3>4, <3>5, <3>6
  <2> QED BY <2>1, <2>2
<1>7. DOMAIN Where \subseteq V
  <2>1. DOMAIN Where \subseteq fs.subvols
    BY <1>3, <1>2, WhereIs DEF Placed, Kept
  <2> QED BY <2>1, <1>3, SubvolumesStay
<1>8. V \subseteq D
  BY <1>2
<1>9. \A f \in ImageDirs : A[f] \in D \/ Head(A[f]) \in {"lost", "stage", "fat"}
  BY <1>6, Given, InStage
<1> HIDE DEF A, D, V
<1>10. Where' = Where /\ Placeable'
  BY <1>1, WhereStays
<1>11. Settled'
  BY <1>1, <1>4, <1>6, <1>10 DEF Settled, Resolve, Mounted
<1>12. TypeOK'
  <2>1. Head(Lost) = "lost"
    BY DEF Lost
  <2> QED BY <1>1, <1>2, <1>4, <1>8, <1>9, <2>1 DEF TypeOK
<1>13. ImageFilesVisible' /\ AcceptedIsPlaced'
  BY <1>1 DEF ImageFilesVisible, AcceptedIsPlaced
<1> QED
  BY <1>1, <1>4, <1>5, <1>7, <1>10, <1>11, <1>12, <1>13 DEF Inv

\* Every subvolume of the layout is there to mount.
LEMMA MountAgainStep ==
  ASSUME Inv, MountAgain
  PROVE  Inv'
<1>1. /\ step = "mount" /\ step' = "restore" /\ UNCHANGED <<layout, fat, fs, placed, stale>>
      /\ Placeable /\ Settled /\ DOMAIN Where \subseteq fs.subvols /\ stale = Lost
  BY DEF Inv, MountAgain
<1>2. FsShape' /\ Where' = Where /\ Placeable' /\ Settled' /\ TypeOK'
  BY <1>1, OnlyStep
<1>3. ImageFilesVisible' /\ AcceptedIsPlaced'
  BY <1>1 DEF ImageFilesVisible, AcceptedIsPlaced
<1> QED
  BY <1>1, <1>2, <1>3 DEF Inv

\* What is staged goes to the filesystem that hid it.
LEMMA RestoreStep ==
  ASSUME Inv, Restore
  PROVE  Inv'
<1> DEFINE A == [f \in ImageDirs |-> Restored(fs.at[f])]
<1>1. /\ step = "restore" /\ step' = "placed" /\ UNCHANGED <<layout, fat, placed>>
      /\ stale' = Restored(stale) /\ fs' = [fs EXCEPT !.at = A]
      /\ Placeable /\ Settled /\ stale = Lost /\ FsShape /\ TypeOK
  BY DEF Inv, Restore
<1>2. fs'.dirs = fs.dirs /\ fs'.subvols = fs.subvols /\ fs'.at = A /\ FsShape'
  <2>1. fs' = [dirs |-> fs.dirs, subvols |-> fs.subvols, at |-> A]
    <3> HIDE DEF A
    <3> QED BY <1>1 DEF FsShape
  <2> HIDE DEF A
  <2> QED BY <2>1 DEF FsShape
<1>3. ASSUME NEW f \in ImageDirs
      PROVE  A[f] = Resolve(f) /\ (A[f] \in fs.dirs \/ Head(A[f]) \in {"lost", "stage", "fat"})
  <2>1. CASE fs.at[f] = Stage(f) /\ Head(Resolve(f)) = "fat"
    <3>1. Stage(f)[1] = "stage" /\ Tail(Stage(f)) = f
      BY Given, InStage
    <3> QED BY <2>1, <3>1 DEF Restored
  <2>2. CASE fs.at[f] = Resolve(f) /\ fs.at[f][1] # "stage"
    BY <2>2, <1>1 DEF Restored, TypeOK
  <2> QED BY <2>1, <2>2, <1>1 DEF Settled
<1>4. stale' = Lost
  <2>1. Lost[1] = "lost"
    BY DEF Lost
  <2> QED BY <2>1, <1>1 DEF Restored
<1> HIDE DEF A
<1>5. Where' = Where /\ Placeable'
  BY <1>1, WhereStays
<1>6. \A f \in ImageDirs : Resolve(f)' = Resolve(f)
  BY <1>1, <1>5 DEF Resolve, Mounted
<1>7. TypeOK'
  <2>1. Head(Lost) = "lost"
    BY DEF Lost
  <2> QED BY <1>1, <1>2, <1>3, <1>4, <2>1 DEF TypeOK
<1>8. ImageFilesVisible'
  BY <1>1, <1>2, <1>3, <1>4, <1>6 DEF ImageFilesVisible
<1>9. AcceptedIsPlaced'
  BY <1>1 DEF AcceptedIsPlaced
<1> QED
  BY <1>1, <1>2, <1>5, <1>7, <1>8, <1>9 DEF Inv

\* A step that changes nothing.
LEMMA StutterStep ==
  ASSUME Inv, UNCHANGED vars
  PROVE  Inv'
<1>1. UNCHANGED <<layout, fat, fs, placed, stale>> /\ step' = step
  BY DEF vars
<1>2. FsShape' /\ Where' = Where /\ (Placeable' <=> Placeable) /\ (Settled' <=> Settled) /\ TypeOK'
  BY <1>1, OnlyStep DEF Inv, TypeOK
<1>3. (Ordered' <=> Ordered) /\ (Kept' <=> Kept)
  BY <1>1 DEF Ordered, Kept
<1>4. Found' <=> Found
  BY <1>1, <1>2 DEF Found, Holds, Made
<1>5. ImageFilesVisible' /\ AcceptedIsPlaced'
  BY <1>1, <1>2 DEF Inv, ImageFilesVisible, AcceptedIsPlaced, Resolve, Mounted
<1> QED
  BY <1>1, <1>2, <1>3, <1>4, <1>5 DEF Inv

(***************************************************************************)
(* The inductive invariant holds in every state of every install.          *)
(***************************************************************************)
THEOREM InvCorrect == Spec => []Inv
<1>1. Init => Inv
  BY InitInv
<1>2. Inv /\ [Next]_vars => Inv'
  <2> SUFFICES ASSUME Inv, [Next]_vars PROVE Inv'
    OBVIOUS
  <2>1. CASE Accept \/ Refuse
    BY <2>1, GateStep
  <2>2. CASE WriteImage
    BY <2>2, WriteImageStep
  <2>3. CASE PlaceExtra
    BY <2>3, PlaceExtraStep
  <2>4. CASE StageFiles
    BY <2>4, StageFilesStep
  <2>5. CASE MountAgain
    BY <2>5, MountAgainStep
  <2>6. CASE Restore
    BY <2>6, RestoreStep
  <2>7. CASE Done \/ UNCHANGED vars
    BY <2>7, StutterStep DEF Done
  <2> QED BY <2>1, <2>2, <2>3, <2>4, <2>5, <2>6, <2>7 DEF Next
<1> QED
  BY <1>1, <1>2, PTL DEF Spec

(***************************************************************************)
(* The state is well-typed: a file is in a directory of the filesystem, or *)
(* lost, staged or on a FAT filesystem, and every subvolume is a           *)
(* directory.                                                              *)
(***************************************************************************)
THEOREM TypeCorrect == Spec => []TypeOK
<1>1. Inv => TypeOK
  BY DEF Inv
<1> QED
  BY <1>1, InvCorrect, PTL

(***************************************************************************)
(* _place_root_image, from the reshaping to the restore: once the layout   *)
(* is mounted, a file of the image is at the path it had in the image. No  *)
(* mount hides it, it is not dropped with a name moved aside, it is not    *)
(* left in the stage; and nothing an earlier attempt staged gets onto the  *)
(* ESP.                                                                    *)
(***************************************************************************)
THEOREM FilesAreVisible == Spec => []ImageFilesVisible
<1>1. Inv => ImageFilesVisible
  BY DEF Inv
<1> QED
  BY <1>1, InvCorrect, PTL

(***************************************************************************)
(* _verify_nested_subvolumes: a layout it accepts never fails after the    *)
(* wipe. No copy is of a directory into itself, and no subvolume the       *)
(* layout mounts has gone with the image's files.                          *)
(***************************************************************************)
THEOREM AcceptedLayoutsArePlaced == Spec => []AcceptedIsPlaced
<1>1. Inv => AcceptedIsPlaced
  BY DEF Inv
<1> QED
  BY <1>1, InvCorrect, PTL
=============================================================================
